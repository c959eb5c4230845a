# NotepadAI in TLA+

A verification project for the parts of NotepadAI (`src/`) whose difficulty is
the order in which things happen: the conversation with an AI agent process
(Agent Client Protocol, ACP), the goal supervisor that judges it with a second
agent, the SSH session worker with its SFTP lanes and channel budget, the
asynchronous file API built on it and the file transfers that use it, and the
git panel with its queue of processes. The rest of the
program is an editor around Scintilla with views, parsers and storage on one
UI thread; it is listed below with the reason for leaving it out.

`PROJECT.json` holds the machine-readable part: components, runs, mutants, the
map from definitions to source lines, findings, hazards and theorems.

## 1. The system

Paths are relative to `src/src/`. Almost everything lives on the Qt UI thread
and advances by slots, callbacks and timers. Other threads: one per SSH
connection (`remote/SshSessionWorker`), the control server's, search workers,
the directory watcher's.

| Component | State it keeps | Operations | Talks to |
|---|---|---|---|
| **ACP connection** `AcpConnection` | pending JSON-RPC requests, session id, the *turn* (`m_promptInFlight`, `m_openPrompts`), retry slot, open tool calls, permissions, live background tasks, four timers | `sendPrompt`, `sendSidePrompt`, `cancelPrompt`, `respondToPermission`, session updates, responses, process end | agent process over stdio or an SSH exec channel; emits `promptStarted/promptEnded/backgroundIdle` to dock, queue and supervisor |
| ACP prompt queue `AcpPromptQueue` | prompts typed while a turn runs, the supervisor's `/goal`, notices of cancelled forms | enqueue, edit, remove, flush | composer, connection, supervisor |
| **Goal supervisor** `GoalAgent` | goal status, criterion and iteration, judge connection, awaiting-judge, awaiting-authoring, three deferred flags, judge timeout | start, attach, stop; target prompt ended, background idle, target exited or restarted; verdict by tool or text, correction, timeout, judge's exit, handoff | target connection, a second (judge) connection, HTTP judge, composer queue |
| ACP sessions and docks `AcpAgentManager`, `AcpSessionModel`, ... | docks, transcripts, history, idle reaper | open, restart, switch, close | connection |
| Scheduled tasks `ScheduledTaskRunner`, `CronExpression` | stored fire times | tick, fire | sessions |
| **SSH session worker** `SshSessionWorker` | connect phase, two SFTP queues, openers' queues, channels, exec operations, back-off deadlines, maintenance timer | requests posted by the facade, socket activity, ticks | libssh2 (non-blocking); signals to the facade |
| SSH facade `SshConnection`, `SshChannel`, `SshPtyProcess` | reqId counter, the worker's thread | forwards requests and signals by queued connections | worker, UI |
| **Remote file backend** `RemoteFsBackend` | one callback table per kind of call, keyed by reqId | nine asynchronous calls, cancel, results, loss, destruction | facade, editors, file tree, transfers |
| **Remote transfers** `RemoteTransferManager` | transfer queue, indices into the file lists, counters, `m_cancelled` | enqueue, start, cancel, callbacks of every step, connection lost | remote file backend, execs, conflict dialog |
| Remote workspace | poll cycle, lazily loaded tree | poll, expand | backend, execs |
| **Git controller** `GitController` with its coalescer, watcher, status parser and tab | queue of processes, the running one, dirty/burst/quiet state, rows, the checkout shown and the one wished for, numstat pass | discovery, refresh, operations, select, remove a worktree; process ends, timers, parse results | git processes, watcher, tab |
| Git operations `GitOperationManager` | a merge or rebase with its editor hand-over | start, continue, abort | git processes, editor |
| Control API `control/` | clients, pending replies, subscribers | request, reply, event | HTTP clients, UI |
| Editor, search, LLM helpers, terminals, pm2, croc, CSV, previews, embedded windows, macros, settings | local | local | local |

### How they interact

The UI thread posts requests to the worker thread through Qt queued connections
(FIFO); the worker relays its signals back the same way. A loss of the connection
is therefore reported to the backend twice: as one failed result per queued
operation and as one `connectionLost`. `AcpConnection` is driven from two
sides: callers (composer, goal follow-ups, native `/goal` side prompts) and the
agent process, which may stream, open tool calls and wake itself up at any
moment. `promptEnded` is the signal that re-enables *Send*, releases the prompt
queue and lets the supervisor judge, so a premature or missing one is what users see.

### What is hard, and what makes it correct

* **A turn's end** is decided by four sources: the prompt's result, the agent's
  cycle result, a quiet-period timer, the end of the process. Correct: never
  while a prompt is unanswered; always in the end; counters exact; retries
  neither lost nor endless; a waiting supervisor always woken.
* **A callback per call** across two threads, with retries under fresh ids,
  cancels by the old id, two reports of one loss and destruction at any time.
  Correct: exactly one invocation, nothing mutating replayed, nothing forgotten.
* **A lane is a FIFO of half-done operations** whose handles die with the
  lane's session. Correct: every operation is answered; a stream is whole.
* **A channel budget** shared by terminals, agents and git commands, with
  server refusals and back-off. Correct: the cap and the short-lived reserve
  hold on every path, a freed slot is given on, a back-off is driven to its end.
* **Transfers** advance by callbacks without an epoch; a cancel leaves
  callbacks in flight; the archive path falls back to single files at five
  places. Correct: no callback of a cancelled transfer acts on the next; a
  completed transfer was done with each file once; every transfer is driven on.
* **The supervisor** shares one judge connection between verdict and authoring,
  and postpones a verdict for a running turn, background work, a notice or its own
  queued item. Correct: one verdict per evaluation; never waiting without a waker;
  never postponed without something to come back to; silent once over.
* **The git panel** runs one process at a time, and every end of one may start a
  process, a switch or a refresh in the same call, while changes, parses and counts
  come in of their own. Correct: a change seen during a refresh leads to
  another refresh; what a panel at rest shows is its own checkout's; no exit of the
  handler leaves the queue standing.

The 40 hazards of `PROJECT.json` are these, each at its line. Four of them have
no property: a prompt sent into a turn that the agent opened is counted twice
(`AcpConnection.cpp:1728`), a restart by the user leaves an active goal behind
(`AcpAgentManager.cpp:391`), the marker of a timed-out process lands in the next
process's buffer (`GitProcessRunner.cpp:313`), and tab and controller may call each
other without end (`GitTabWidget.cpp:759`). All of them are modelled; the first and the last two
are described in section 5.

Further hazards that were met and are not in that list, because no property
covers them: a git merge or rebase hands its editor over through one pending
connection and one list of conflicted files (`GitOperationManager.cpp:535`, `:643`);
a terminal that was open or asked for when `requestDisconnect` ran keeps a dead
transport id (`SshSessionWorker.cpp:609`, `:1688`); keepalives and the connect deadline
are checked by the maintenance timer only (`:748`, `:783`); the retry timer owns
the callback of a call that is being retried when the backend goes
(`RemoteFsBackend.cpp:160`; the model has the step, no property claims an
answer after it); a folder that cannot be listed still ends in a completed transfer, and
failures of single files are reported in the log only (`RemoteTransferManager.cpp`); a
dismissed conflict dialog leaves its transfer at the head until a cancel
(`EveryTransferEnds` names the case), and a menu handler left over from a
transfer without conflicts answers for a later one; signals of the git watcher that
are not delivered when the checkout is switched are dropped (`GitWatcher.cpp:74`);
a failing `git submodule status` takes the refresh behind it along
(`GitController.cpp:1325`); the control server's replies and subscribers, the clock of
the scheduled tasks, and the scrollback of a terminal.

## 2. Modules

| Module | Models | Constants |
|---|---|---|
| `AcpTurn` | the turn life cycle of one `AcpConnection` and the supervisor's wait | prompts, calls, permissions, tasks, `Overlap`, `MayBeBusy`, three retry delays |
| `SftpLanes` | the worker's two SFTP lanes and the two queues between the threads | calls, their kinds, retries, chunks per file |
| `RemoteFs` (extends `SftpLanes`) | `RemoteFsBackend` composed with its worker and owners | `MaxControl` |
| `AsyncCalls` | abstract: what an asynchronous file API promises | calls, best-effort calls |
| `TargetSession` | what a supervisor sees of a connection: implemented by `AcpTurn`, used by `GoalSupervisor` | |
| `Admission` | abstract: a service with few places, two classes of clients and a line for each | clients, places |
| `SshChannels` | channel admission of the worker | terminals, agents, short commands, cap, reserve, limit |
| `JobQueue` | abstract: a queue of jobs that are done in parts | jobs, parts of one job |
| `TransferQueue` | `RemoteTransferManager` over calls that are answered in any order, with the conflict dialog and the commands | transfers, what each may be, files, directories, `MayOverlap` |
| `GoalCourse` | abstract: a goal of several criteria, worked on in judged rounds | criteria, rounds |
| `GoalSupervisor` | `GoalAgent` with its target, its judge and the composer's queue | criteria, iteration cap, kinds of goal, three bounds |
| `GitController` | the git panel: queue, coalescer, watcher, parses, counts, checkouts, tab | worktrees, submodules, two delays, four bounds |
| `MCAcpTurn`, `MCRemoteFs`, `MCSshChannels`, `MCTransferQueue`, `MCGoalSupervisor`, `MCGitController` | instances for TLC (symmetry, kinds of calls, of transfers, of goals) | |
| `AcpTurn_proofs`, `SftpLanes_proofs`, `RemoteFs_proofs`, `SshChannels_proofs`, `TransferQueue_proofs`, `TransferHead_proofs`, `GoalSupervisor_proofs`, `GitController_proofs` | theorems | |

Definitions named "a variant" in a comment are faulty forms of the definition
that follows them. No specification uses them; they exist so that each property
can be shown to fail when the code is changed in that way.

### AcpTurn

One action per slot, response callback or timer of `AcpConnection.cpp`. State
variables are the members named in the comments; `outstanding` is the set of
prompts with an entry in `m_pending`; `issued` and `resolved` are history
variables; `agentCalls`, `agentAsked` and `agentSpawned` keep the environment from
reusing an id, and `agentOwes` is what the agent still has to send: word of the call it got
a permission for, the `prompt_end` after its `prompt_start`. `deferred` is the supervisor's `m_deferredForBackground`; it is
updated in every step that emits `promptEnded` (`inFlight` going false) because
the signal is delivered by a direct connection, in the same call.

`Overlap` says which callers exist:

* `"none"`: the composer, which is locked while a prompt is queued and queues
  locally while a turn runs;
* `"open"`: also native `/goal` side prompts, sent while a prompt of ours is out;
* `"any"`: also goal follow-ups in a turn the agent started itself.

`MayBeBusy` says whether the agent answers `session_busy`. Abstracted: what is
streamed; the handshake before the session is up is one step (`SessionReady`
flushes the prompts queued before it); mode, model and configuration requests,
and the agent's file and terminal requests, which touch none of this state.

### TargetSession

The interface between a connection and whoever supervises it: is there a session, does a
turn run, is background work left or its grace period running, does a prompt wait. A
prompt that is delivered starts a turn or waits; a turn that starts stops the grace timer;
the agent may start turns of its own; work that ends leaves a grace period; the process
takes turn and work with it. `AcpTurn` implements it (`KeepsTargetContract`, with
`processing <- inFlight` and `background` from the live tasks and the grace timer), and
`GoalSupervisor` moves its target by the steps of this module, so that what is shown of the
supervisor is shown of one above the connection of `AcpTurn`. The whole of `session_busy`,
tool calls, permissions and overlapping prompts is a stutter here.

### SftpLanes and RemoteFs

A request is `<<call, attempt>>`, which stands for the fresh reqId that every
attempt gets. `toWorker` and `toUi` are the queued connections. An operation on a
lane is *open* (no handle yet), *transfer* (a handle is open) or *stale* (its
handle belonged to a lane session that a cancel shut down). One action is one
turn of `serviceSftpLane` on the head of a lane that does something; a
turn that would block is no step. `isTransientError` matches on text; the model
carries its verdict with each failure, and each failure path of the worker has the
verdict its literal text gets. `served` is a history: what the worker answered, or began (a
handle is open, or the one request of a `stat` or `mkdir` is out). An open that the server
has not answered when a cancel resets the bulk lane is not begun: it is sent once more, and
nothing was moved by it.

The backend keeps one table per kind of call; the model keeps one set of requests,
because a request has one kind. `Retry` is the back-off timer. The owners' part:
`ConnectToHost` and `DisconnectFromHost` are what the connect dialog does,
`ConnectionDestroyed` joins the worker thread, `BackendDestroyed` fails what is
registered. Synchronous calls return an error at once and are not modelled.

### AsyncCalls

Three variables: calls made, cancelled, and how often each was answered. A call is
answered at most once, after it was made, and not after a cancel, except where
cancelling is best effort. `RemoteFs` implements it with `called <- issued`,
`answers <- fired`; the best-effort calls are those that are retried, because
`cancelReadAsync` knows the first attempt's id only (section 5).

### SshChannels

`phase` gives where each opener stands: queued, admitted and asking, in back-off
(`waiting`, then `due` when its deadline is reached), set up, open, gone, or
holding the dead channel of a session that `requestDisconnect` closed. The worker's
slots visit many openers: a *sweep* picks, for each opener it visits, what the
server made of it. Setting a channel up and starting a command are round trips, so one
slot moves an opener by one phase. `admitPending` is a function of the state
after the sweep, as in the code, where it closes every one of these slots.
Connect phases are one state, data bytes are left out, and missed keepalives, the
connect deadline and read errors are one action `Lost`.

### Admission

A service with few places, of which long-term clients may take only some. Each class has a
line; whoever comes in comes from its front, long ones only when no short one is left
waiting; on a service that is up nobody waits for a place that is free. A client that
waits may give up, those inside may leave, a service that closes sends all short clients
away. In `SshChannels` (`AdmitsInOrder`) the lines are the two queues, a short command is a
short client, and an opener is inside from its admission to its end, whatever refusals,
back-offs and round trips lie between; a sweep, the ends it finds and the admission after it
are one step.

### TransferQueue

`calls` are the backend calls and processes whose callback is still to come, each
with the transfer and the file it was made for; `After` is what every callback
does first, and `WalkDone`, `DownloadFrom`, `UploadFrom` and `FinishHead` are the
chain of functions a callback ends in, which may start the next transfer in the same
call. An action is one callback (`Answered`), one request, a cancel, the answer to
a conflict dialog, or one of the two steps of a lost connection (the calls may fail
before or after `onConnectionLost`). `passed` counts how often the manager was
done with a file, successfully or not, `stored` holds the archives on the server, and
`orphans` those among them whose path the manager never took down: the pack failed after
`mktemp`, or was answered when `m_cancelled` was set. A
file's directory is made by two calls, its parent (0) first. A command (`skip`,
`refuse`) starts only when no menu handler is left over.

`MayOverlap` says whether a transfer may be requested while calls of a cancelled one are
in flight. The code permits it; with `FALSE` the properties state what holds next to
finding `tx_overlap`.

### JobQueue

Jobs come in at the end of a queue. Only the front one is worked on: parts of it are found,
none is lost; each is done at most once. It ends at the front, completed only if all its
parts were done, or with all others when the queue is dropped. A job that ends may take
finished ones behind it along. `TransferQueue` implements it (`KeepsJobOrder`) with
a part for each file: walks, archives, the conflict dialog, `mkdir` and late answers of a
cancelled transfer are stutters, and a callback chain that ends one transfer and finds the next
one empty is one step.

### GoalSupervisor

One goal from its start to its end. The supervisor's members are variables; of
the target it sees `processing`, `background`, `session` and `pending`, as
`AcpTurn` defines them, and of the judge how many prompts are unanswered.
`flushQueuedPrompt` is the composer's: it sends the notice of a cancelled form
before the user's items and the goal's `/goal`. `evaluateWhenTargetSettled`
is where a verdict is postponed; `backgroundIdle`, the flush and the end of a
turn are where it is taken up again. A judge is either a process, whose turn may
end with a verdict by tool call, by text, with neither, or with its exit, or one HTTP
request. A judge of an earlier criterion or of a goal that is over may still answer. One that
exits during an evaluation fails the goal and keeps its connection, as in the code; nothing of it is
waited for.
`evals`, `verdicts` and `sent` are histories. The target's variables move by the steps of
`TargetSession`.

### GoalCourse

What the user sees of a goal: criteria one after the other, each worked on in rounds that a
judge ends, at most `Rounds` of them, and only a judge's word moves it on. `GoalSupervisor`
implements it (`FollowsCourse`): being asked is `Judge`, a verdict is `GoOn`, `HandOver` or
`Achieve`, and the target's turns, timers, corrections, deferrals and the composer's queue are
stutters. `PaidFor` is what follows in the abstract module: every question to a judge is paid
for by a round or a criterion.

### GitController

The controller is one record, and the functions of the code are operators from
records to records, because every handler ends in `popAndAdvance`, which may start
a process, the switch that was wished for, or a coalesced refresh before it returns. A
process is a kind and a checkout; `"head"` stands for `symbolic-ref` and `rev-parse`,
`"refs"` for `remote` and `for-each-ref`, `"change"` for all operations that refresh
when they succeed, `"query"` for diffs, blobs and a submodule's counts. Delays are counted in
ticks. `unread`, `lost`, `shown` and `stale` are histories: what changed since it
was last read, what a failure the user saw left unread, whose entries the model
holds, which counts are older than the entries. `onReposUpdated` is the tab's answer;
a call that would never return sets `overflow`. A list of worktrees may differ from the one
before in a worktree's branch only, and git may name no top level (`same`).

## 3. Runs

A pass run explores its whole bounded state space. Deadlock checking is off
everywhere: calls, prompts, requests and changes are bounded and the objects may be
destroyed, so every model may come to rest.

| Run | Instance | States | Shows |
|---|---|---|---|
| `acp_turn` | 3 prompts, 1 tool call, 1 permission, 2 tasks, `Overlap = "open"`, never busy | 33 274 | `OpenPromptsExact`, `NoPromptLost`, `NoLostWakeup`, `EndMeansAnswered`, `TurnEnds`, `SupervisorResumes`, and `KeepsTargetContract` (refinement of `TargetSession`) |
| `acp_busy` | 2 prompts, 1 call, 1 permission, one composer, busy agent, the code's delays | 8 616 | `CountIsOwed`, `BusyWaitBounded`, `TurnEnds` |
| `fs_calls` | load and stream (bulk lane), mkdir (metadata), 1 retry, 1-chunk file, 1 control message in transit | 1 565 828 | `PendingTracked`, `ServedOnce`, `StreamWhole`, and `KeepsContract` (refinement of `AsyncCalls`) |
| `fs_listing` | readdir and stat on one lane, 2 retries | 36 761 | `Answered` under fairness |
| `ssh_admission` | 1 terminal, 1 agent, 2 short commands, cap 4, 2 reserved, 1 long-lived, 2 connects | 10 278 | `BudgetRespected`, `NoIdleSlot`, `QueuesExact`, `ShortNeverStarves`, and `AdmitsInOrder` (refinement of `Admission`) |
| `tx_queue` | 2 transfers (the first of any kind), up to 3 files in 2 directories, no overlap | 241 943 | `CompletedWhole`, `OneThingAtATime`, `PendingExact`, `NeverForgotten`, `ArchiveRemoved`, `EveryTransferEnds`, and `KeepsJobOrder` (refinement of `JobQueue`) |
| `goal_run` | 2 criteria, 2 iterations each, 1 user prompt, 1 task, 1 form, process and HTTP judges | 171 677 | `WaitHasWaker`, `AlwaysDriven`, `OneVerdictEach`, `JudgesSettledTarget`, `SilentAfterEnd`, `GoalEnds`, and `FollowsCourse` (refinement of `GoalCourse`) |
| `git_refresh` | a worktree that may disappear, delays of one tick, 2 changes, 1 request, 1 failure, 3 of them together | 113 105 | `NothingForgotten`, `BurstBounded`, `PanelShowsRepo`, `CountsFollowEntries`, `NeverRestsOnRemoved`, `ViewCatchesUp` |

Violation runs, each with one property (section 5): `ssh_timer`, `tx_overlap`,
`goal_early`, `git_latest_pick`. Type correctness (`TypeOK` of every module) and `AtMostOnce`
of `RemoteFs` (implied by `KeepsContract`) are proved and not part of a run.

**Why the bounds are enough.** *Turn*: a count can be wrong by one with two
prompts; the third lets one be sent after the wrong end. Calls and permissions
matter as "some" or "none". Two tasks give a task that ends while another runs.
`acp_busy` uses the delays of the code (200 ms doubling to 2000, limit 10 000),
so the bound is checked for the real numbers; the theorem covers all others.
*Files*: two operations on one lane give a head and a follower, the third call is
the other lane; one retry gives an attempt 0 that is retried and an attempt 1
that is the last; one chunk tells "before" from "after" the chunk. `MaxControl`
bounds connects and disconnects that are posted and not taken, and losses not
delivered: the dialog does not run ahead of the state it is shown. The theorems
hold for any number of calls, retries, chunks and control messages.
*Channels*: two dynamic slots, four openers, so both queues and both limits are
hit; two connects give a disconnect with terminals left behind and a reconnect.
*Transfers*: three files in two directories give a manifest long enough for an archive, a
directory shared by two files and one that is new; a walk has up to three directories; two
transfers give one that waits and one that follows a cancel. The second is of a kind that
no left-over menu handler can answer for.
*Goals*: two criteria give one that is followed by another and the last one; a cap of
two tells the first verdict of a criterion from the last allowed. One user prompt, one
task and one form are each enough to postpone a verdict, and all may come together.
*Git*: three events are a change during the refresh after another one, or one of them
and a switch or failure. The invariant of the proof was also checked with a submodule,
both delays two ticks and four events; the theorems hold for any bounds, delays,
worktrees and finitely many submodules.

## 4. Fairness

* `AcpTurn`: armed `QTimer`s fire (`Timers`). Each chunk restarts the idle timer
  (AcpConnection.cpp:1771), so that it fires only when the agent is silent for 250 ms; that the agent
  falls silent at some time when the timer would end the turn is an assumption about the agent (`FallsQuiet`).
  The agent answers each prompt (with a result or `session_busy`), gives each tool call a terminal
  status, ends its tasks, reports on the call it got a permission for and ends what it opened with
  `prompt_start` (`AgentAnswers`). The user answers permissions (`UserAnswers`). No cycle
  result is assumed: only claude's SDK sends one (:1754), and every other agent's turn ends by its
  result or by the idle timer, so that a path which leaves the timer unarmed leaves the turn
  open. No fairness on new prompts, traffic or the process's end. The code has no time limit on a
  prompt, so the agent's part cannot be weakened: without either obligation of
  `agentOwes` `TurnEnds` fails (section 5 for the permission).
* `RemoteFs`: both event loops run, retry timers fire, a connect ends (the phases
  have a deadline, the user answers the host-key prompt) and the server answers
  the head of a lane. Weak fairness per lane, since the worker services both.
  Calls, cancels, losses and reconnects are free; `Answered` holds with all of them.
* `SshChannels`: socket activity recurs (a keepalive every 15 s gets a reply), a
  back-off deadline is reached, and for *short* commands the server grants a
  channel asked for again and again, starts the command and ends it (strong
  fairness, as a refusal may come in between). Nothing about terminals and agents.
* `TransferQueue`: every call is answered (`RemoteFsBackend` promises it, `Answered`
  above; processes have a timeout), the user closes a conflict dialog, a lost connection is
  reported.
* `GoalSupervisor`: the target's turns, tasks and session set-up end, `QTimer`s fire, an
  HTTP request has a transfer timeout. The composer's flush is a zero timer that every end of
  a turn posts (`scheduleFlushQueuedPrompt`); it does nothing when the agent has started a turn
  of its own before it fires, and is posted again at the end of that one. That this does not
  happen every time is strong fairness, the one assumption here that is the agent's and not Qt's. Of the judge process nothing is assumed: its timeout has to be enough.
* `GitController`: processes end (they have timeouts), the quiet timer ticks and fires, and
  of what the event loop has to deliver (the watcher's debounce, a parse, a numstat pass)
  something is delivered; not each of them in particular. Changes, requests and failures
  are free.

## 5. Findings

Each of these is a violation run with the shortest counterexample TLC finds.

* `ssh_timer`. The tick stops the maintenance timer while a back-off is still
  running; the retry waits for socket activity instead (SshSessionWorker.cpp:832).
* `tx_overlap`. `startNextTransfer` clears `m_cancelled`, which is all that stops the
  callbacks of a cancelled transfer: a late one extends the manifest or moves the index
  of the next transfer (RemoteTransferManager.cpp:196).
* `goal_early`. The notice of a cancelled form is a goal item too. Its dispatch reports
  the deferred `/goal` as delivered, and the judge is asked while that `/goal` still
  waits in the composer's queue (AcpSessionView.cpp:3371).
* `git_latest_pick`. The tab answers `reposUpdated` by selecting the current checkout,
  which clears a pick that waits for the queue (GitController.cpp:295).

The passing runs state what holds next to each: `ShortNeverStarves` from socket
activity alone, the transfer properties without overlap, `JudgesSettledTarget` and
`AlwaysDriven` with the queued `/goal` counted as the driver,
`NeverRestsOnRemoved` for the checkouts a switch was not made to.

Known deviations without a run, each visible with the definitions of the modules:

* A prompt sent into a turn that the agent started itself is counted twice
  (AcpConnection.cpp:1728); its one result leaves the count at 1 and the turn never
  ends: `TurnEnds` with `Overlap = "any"`.
* There is one retry slot; a second prompt rejected with `session_busy` overwrites the
  first (837): `NoPromptLost` with `Overlap = "open"` and `MayBeBusy = TRUE`.
* `m_busyRetryPending` stays set while the retried request is out; a cancel then closes
  the prompt and its late answer closes another (868): `EndMeansAnswered` with two
  prompts, `Overlap = "none"` and `MayBeBusy = TRUE`.
* `cancelReadAsync` removes nothing after a retry and the callback fires
  (RemoteFsBackend.cpp:136): `CancelSilent` with one load and two retries.
* A cancel shuts the whole bulk session down under the handle of the operation at the
  head, which then fails (SshSessionWorker.cpp:1039): `RemainingProceed` with a load, a
  write and a mutating call.
* The marker of a timeout lands in the buffer of the process that the callback started
  (GitProcessRunner.cpp:313): `MarkerStaysHome` with one failure and one change.
* `onReposUpdated` and `recoverMissingCheckout` call each other while the current checkout is
  listed and missing (GitTabWidget.cpp:759): `SelectionReturns` with two requests and one
  deletion. `NothingForgotten` and its companions are stated apart from it (`overflow`).
* `respondToPermission` (AcpConnection.cpp:1610) does not arm the idle timer. If the timer fired
  under the open permission, only the agent's next word about the call arms it again; after an agent that
  says nothing more the turn stays open: `TurnEnds` without the `"report"` conjunct of `AgentAnswers`.
* An archive whose pack is answered after a cancel, or fails after `mktemp`, stays on the server
  (RemoteTransferManager.cpp:726): `ArchiveRemoved` without its exception for `orphans`.
* `GitWatcher` restarts its own 200 ms debounce at every event, with no ceiling
  (GitWatcher.cpp:168), so events that never pause for so long keep a change from
  the coalescer; `BurstBounded` is about the coalescer only. In the model the debounce is one event of
  the environment that comes some time.

## 6. Proofs

Checked by TLAPS, for all values of the constants that satisfy the named
assumptions (finite prompts and tasks, positive delays; `Kind` a function into the
six kinds, `MaxRetries` positive; finitely many openers of disjoint kinds, a positive
channel cap and long-lived limit). No other assumption is made.

**AcpTurn_proofs.** `TurnInvariance` is the inductive invariant `TurnInv`: types,
`TurnShape` (the counter implies the flag; the idle timer runs only in a turn with
nothing open; the retry timer and the grace timer only where the code arms them),
`RetryHoldsTurn` and `NoLostWakeup`. `TurnShape` is needed because a step that closes
a prompt is only safe if the idle timer was off while a retry was pending, and a
wake-up survives the last task only if the grace timer runs when no task does.
From it: `TypeCorrect`, `RetryHolds`, `WakeupNotLost`. `BackoffBounded` adds a
bound on the next delay. `TurnEndsAnswered` proves `EndMeansAnswered` for an agent that
never answers `session_busy`, with any callers: `Covered` says that the counter is at
least the number of requests that are out (with `Overlap = "any"` it is not exact,
so the equality that `acp_turn` checks is not what is needed), and `endPrompt`
is refused at a positive count. `CountExact` is that equality, for callers that do not
send into a turn the agent opened: its invariant `ExactInv` adds where a prompt can be
(queued, out, resolved; each in one place) and that a turn without our prompts has no count.
`NothingDropped` proves `NoPromptLost` for the same agent and any callers. Both need
`MayBeBusy = FALSE`, which is a hypothesis of the theorem and not an assumption.
`NeverLocked` takes an agent that may be busy at any moment and one composer
(`Overlap = "none"`): `CountIsOwed`, from `ComposerInv`, which adds that nothing is out before the
session is up and at most one prompt waits for it. Only with it is the count after
`finishSessionSetup` at most one, and a late answer, a give-up and a cancel each find it at one.
`ContractKept` is the refinement of `TargetSession`, for any agent and any callers: it needs
`TurnInv` (a turn that is opened while prompts are open does not stop the grace timer, because it
is already running) and `SessionFirst` (no turn, task or grace period before the session).

**SftpLanes_proofs.** `WorkerKeeps`: no step of the worker loses a request. One that
is posted, queued or answered stays so, over lemmas on what appending to,
taking from and concatenating sequences does to their contents. `WorkerServesOnce`: no step of
it begins a request that was begun before, as long as requests are posted once.

**RemoteFs_proofs.** `CallInvariance`: one live attempt per call, none after its
answer, only retried kinds beyond attempt 0. `AtMostOnce` alone is not inductive:
the step that fires must know that the registered request is the call's only one
and that it has not fired. `InvokedOnce` follows. `NeverReplayed` is `ServedOnce`, from `ServeInv`:
`SystemInv`, `BegunServed` (what is past its open was served) and `Turned`: counting how often a
request is posted, stands unopened on a lane, or was served gives at most one, and only attempts that were
asked for count. No step of the worker raises that count (a cancel, a loss or a new session reopens
nothing that was begun), and the backend raises it only for a request it has not posted before. `SystemInvariance`
joins it with the types of both threads and `PendingTracked`; `TypeCorrect` and
`NeverForgotten` follow, with `WorkerKeeps` for the worker's steps. `Implements`
is the refinement of `AsyncCalls`: a call maps to a call, a cancel to a cancel, a
result or a loss to an answer of the calls it fires, the rest to stutters.
`ReadsAreWhole` is `StreamWhole`, from `ReadInv`: `SystemInv`, and for every streaming read
that `Flow` holds with the chunks counted so far while the read is registered, with
some number afterwards (chunks of a cancelled read arrive and are dropped), and with
any number before the call, which says that nothing of it is under way. Delivering a
chunk moves one from the queue to the count; the success is the first of the queue when it is
delivered, so no chunk is left behind it. It needs that a stream has one attempt: a second would
be counted with the first.

**SshChannels_proofs.** `AdmissionInvariance` is the inductive invariant
`AdmissionInv`: types, `Within` (both counts fit the budget), `Exact` (queues without
repetitions that match the phases) and, on a session that is up, `Full` (no idle slot).
They need each other: `AdmitGood`, the lemma about `admitPending`, counts what the two
passes let in, and the prefix of a queue has as many openers as its length only if
none is queued twice or live already, which is what `Exact` says. The other
lemmas show that a sweep, an end, a loss and a new opener keep `Exact`. The old
terminals a disconnect leaves behind count as live throughout. From it:
`TypeCorrect`, `BudgetHolds`, `SlotsGivenOut`, `QueuesMatch`. `AdmissionOrder` is the refinement of
`Admission`. `Serves` says that `admitPending` is `Admit`: the two prefixes it takes are the ones
that fit, with nobody left out for whom there is a place. Each request and each event is then shown to be
somebody leaving (`SomeLeave`), one client coming (`OneComes`) or giving up (`OneGivesUp`), followed by it.
`Exact` is needed once more: a client in a line is one who waits, so that removing it from the queue and
from the phases is the same event.

**GoalSupervisor_proofs.** `GoalInvariance` is the inductive invariant `GoalInv`: types,
`FreshWhenIdle` (what a goal that has not begun has not done), `WaitShape` (no
authoring during an evaluation, the timeout belongs to a wait), `HttpShape` (the endpoint and
the judge process exclude each other), `InertWhenOver` (a judge that outlives its goal has
exited or is not waited for), `JudgePresent`,
`WaitHasWaker` and `OneVerdictEach`. The last needs the first four: a verdict is counted
once only if whatever arrives after it finds no wait. From it: `TypeCorrect` (which says
that the iteration stays below the cap on every path), `JudgeOfItsOwn`, `WaiterIsWoken`,
`VerdictsCounted`; the action properties `EndIsSilent` and `SettledIsJudged`;
and `NeverAbandoned` with `DriveShape` added (a running turn has a session, a deferred
`/goal` is in the queue). `CourseKept` is the refinement of `GoalCourse`, one lemma for each part of the
supervisor that moves the goal (`AdvanceOnCourse`, `EvaluateOnCourse`, `VerdictOnCourse`, ...); that
what a judge's tool call, reply or exit does is one step of it, and nothing after the end, rests on
`WaitShape`, `HttpShape`, `FreshWhenIdle` and `InertWhenOver`: whoever waits is active, and for one thing
at a time. `JudgedWithinCap` is a theorem about every goal that is proved in the abstract and carried
over: the judge is asked at most `NumCriteria * MaxIterations` times, because `PaidFor` is kept by the steps of
`GoalCourse`, whoever takes them.

**GitController_proofs.** `GitInvariance` is the invariant `GitInv`, `Tight` of the controller
and `World` of the disk. The handlers nest (the end of a process applies its result, then
advances, which may switch and refresh), so `Tight` is stated for any record and weakened
in two forms that hold half way: `Loose` while the process that ended is still taken
into account, `Ready` where a process may be queued. There is one lemma for each
function of the controller between these forms and one `Keeps...` lemma for each action.
The parts of `Tight` are: typing; `Rooted` (what is listed and queued belongs to
a repository that was found); `Ordered` (a queued status of another checkout is
followed by one of the current checkout, needed because a switch leaves the old
refresh queued); `TreeComing` and `HeadComing` (`NothingForgotten` without the timers);
`Panel` and `Counted` (a status is due, being parsed, or shown, and the counts are covered by a
pass); `Listed` (a checkout that is gone has a list, a wish or a signal coming); `Shape` (an idle
controller has nothing queued and no wish) and `Armed` (an idle burst has its timer, which
keeps `burst + timer < MaxWait + Quiet`). From it: `TypeCorrect`, `ChangesKept`, `BurstsBounded`,
`EntriesCurrent`, `CountsCurrent`, `OnlyWhatExists`.

**TransferQueue_proofs.** `WalkCallsCounted` is `PendingExact`, with transfers that overlap or
do not. Its invariant `WalkInv` says where a transfer's walk calls can be: a transfer that
has not started has none, which is why a new walk may set its counter to one; listings
form a chain (one directory after the other, the `.gitignore` of one beside those
below it), which is why the calls a callback adds are new ones and the counter moves by
as many as the set of calls does. The counter belongs to a transfer and not to
the head, so late callbacks of a cancelled walk do not disturb it.

**TransferHead_proofs.** What overlapping breaks, proved where nothing overlaps. The theorems have
the hypothesis `Separate`: no transfer starts while a cancelled one has calls in flight
(`tx_overlap` shows what happens otherwise), and a conflict handler that the menu left over is not
there when another upload scans (see the hazards). `QueueInv` adds to `WalkInv` that every
call is the head's (`Alone`), in which of six phases the head is and what its call
is then (`Phase`: walking, packing, reading, scanning, asking, uploading), that
transfers still waiting were not touched and completed ones were done with each file
once (`Driven`), that a dialog belongs to a head that asks once (`Driven`), that a dialog belongs to a head that asks (`Asked`), and that an archive
is the head's while connected, or one whose path was never learned (`Kept`; the lemma `KnownShrinks`
says that a step which only removes or leaves behind archives makes none known). The phase is what makes it inductive: "the
first `didx - 1` files were done, each once, and file `didx` is being read" survives an
answer only if no other call can be answered. From it: `CompletedAreWhole`, `OneAtATime`,
`RunningIsWaiting`, `ArchivesAreRemoved`, and `AnswersStayHome`, the property
that `tx_overlap` refutes without the hypothesis. `KeepsOrder` is the refinement of `JobQueue`, proved
with the invariant's own steps: each lemma that shows `Driven` kept by a group of actions also shows which step
of `JobQueue` they are. `Driven` gives the witnesses: how often each file of the head was
done before and after, and how many of the transfers behind it end in the same call.

**Only model-checked.** `TurnEnds`, `SupervisorResumes`, `Answered`,
`ShortNeverStarves`, `EveryTransferEnds`, `GoalEnds`, `ViewCatchesUp` (liveness under fairness is
out of TLAPS' reach here, as is ENABLED). Every invariant that a run checks is also
proved. Induction over data (what a recursive function computes for every input) and
RECURSIVE operators cannot be proved about either; no module needs them so far.

## 7. Not modelled

Parts of the modelled components: the destruction of the backend in the middle of a
transfer, byte counts and progress, what `.gitignore` selects, `FolderZipTransfer`; the texts of
prompts, templates and transcripts of the supervisor, goals run natively by the agent, goals
of scheduled tasks; sessions that are parked or resumed, with the prompts a failed resume clears
(AcpConnection.cpp:516); `m_turnEndConfirmed`, which only changes what is displayed; submodules' own
worktrees; the parsing of git's output, branch
lists, the spinner's state, an empty repository, git on a remote workspace.

Whole parts: sessions and docks, `GitOperationManager`, the control API, scheduled tasks, remote
watching and the remote tree, scrollback: planned below. Editors,
views, parsers, previews, settings, macros, pm2, croc, LLM helper requests,
embedded windows: local state on one thread, one request and one answer, platform I/O
or rendering. Vendored code (Scintilla, Lexilla, Lua, libssh2, mbedtls, ufbx and others) is most
of the repository's lines and external; libssh2 appears as what each call may return.

## 8. Plan

1. *Done:* `AcpTurn`; `SftpLanes`, `RemoteFs`, `AsyncCalls`; `SshChannels`;
   `TransferQueue`; `GoalSupervisor`; `GitController`; the abstract specifications `JobQueue`,
   `Admission`, `GoalCourse` and `TargetSession`, which joins `GoalSupervisor` to `AcpTurn`; the
   proofs above.
2. `GitOperations`: merge and rebase with the editor hand-over, abort and conflicts. Property: an
   editor's connection is answered once; no operation is suspended after its end.
3. `ControlApi`: reply exactly once, subscribers leaving; `ScheduledTasks` with the
   cron expression against a reference definition; `ScrollbackBuffer` as a data
   structure.
4. The composition of `TransferQueue` with `AsyncCalls` in place of its own calls; the judge of
   `GoalSupervisor` as a second `TargetSession`; an abstract specification of the git panel.
