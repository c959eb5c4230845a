------------------------------- MODULE AcpTurn -------------------------------
(***************************************************************************)
(* The turn life cycle of one AcpConnection (src/src/AcpConnection.cpp):   *)
(* when the session/prompt requests sent to an agent, and the traffic the  *)
(* agent produces on its own, make up one turn, and when that turn ends.   *)
(*                                                                         *)
(* The connection runs on one thread; every action below is one slot,      *)
(* response callback or timer of it.  The agent process is the             *)
(* environment: it answers prompts in any order, streams whenever it       *)
(* likes, opens and closes tool calls, asks for permissions, runs          *)
(* background tasks and may exit at any moment.                            *)
(***************************************************************************)
EXTENDS Integers, FiniteSets

CONSTANTS
    Prompts,          \* the prompts the host may send, each at most once
    Calls,            \* tool calls the agent may report
    Permissions,      \* permission requests the agent may make
    Tasks,            \* background (async) tasks the agent may run
    Overlap,          \* when callers send a prompt, see MaySend
    MayBeBusy,        \* the agent rejects prompts with session_busy
    RetryInitialMs,   \* kSessionBusyRetryInitialMs
    RetryMaxDelayMs,  \* kSessionBusyRetryMaxDelayMs
    RetryGiveUpMs,    \* kSessionBusyRetryGiveUpMs
    NoPrompt          \* m_busyRetryPrompt before the first rejection

ASSUME FinitenessAssumption ==
    /\ IsFiniteSet(Prompts)
    /\ IsFiniteSet(Tasks)
ASSUME NoPromptAssumption == NoPrompt \notin Prompts
ASSUME EnvironmentAssumption ==
    /\ Overlap \in {"none", "open", "any"}
    /\ MayBeBusy \in BOOLEAN
ASSUME RetryAssumption ==
    /\ RetryInitialMs \in Nat \ {0}
    /\ RetryMaxDelayMs \in Nat \ {0}
    /\ RetryGiveUpMs \in Nat

VARIABLES
    running,       \* m_channel->isRunning()
    session,       \* m_sessionId is set
    pendingPrompts,\* m_pendingPrompts: sent before the session was up
    outstanding,   \* prompts whose session/prompt request is in m_pending
    openPrompts,   \* m_openPrompts
    inFlight,      \* m_promptInFlight
    idleTimer,     \* m_promptIdleEndTimer is active
    retryPending,  \* m_busyRetryPending
    retryTimer,    \* m_sessionBusyRetryTimer is active
    retryPrompt,   \* m_busyRetryPrompt
    retryElapsed,  \* m_busyRetryElapsedMs
    retryDelay,    \* m_busyRetryDelayMs
    openCalls,     \* m_openToolCalls
    permissions,   \* m_pendingPermissions
    liveTasks,     \* m_liveAsyncTasks
    bgTimer,       \* m_bgIdleTimer is active
    issued,        \* history: prompts handed to sendPrompt so far
    resolved,      \* history: prompts answered, given up on or cancelled
    agentCalls,    \* agent: status of each tool call, "new" / "run" / "done"
    agentAsked,    \* agent: permissions already asked for
    agentSpawned,  \* agent: tasks already started
    agentOwes,     \* agent: "report" on the call a permission was given for,
                   \* "end" of the turn it opened with prompt_start
    deferred       \* a supervisor skipped a turn end because background work
                   \* was pending and waits (GoalAgent m_deferredForBackground)

hostVars  == <<pendingPrompts, outstanding, issued, resolved>>
turnVars  == <<openPrompts, inFlight, idleTimer>>
retryVars == <<retryPending, retryTimer, retryPrompt, retryElapsed, retryDelay>>
workVars  == <<openCalls, permissions>>
taskVars  == <<liveTasks, bgTimer>>
agentVars == <<agentCalls, agentAsked, agentSpawned, agentOwes>>
vars == <<running, session, hostVars, turnVars, retryVars, workVars, taskVars,
          agentVars, deferred>>

-----------------------------------------------------------------------------
(* Guards and helpers *)

\* The conditions of schedulePromptIdleEnd and of the idle timer's slot, for
\* given tool calls: nothing the quiet-period guess cannot see is left.
NothingOpen(open, retrying, calls) ==
    open = 0 /\ ~retrying /\ calls = {} /\ permissions = {}

hasPendingBackgroundWork == liveTasks # {} \/ bgTimer

\* Who calls sendPrompt and when.  "none": the composer alone, locked while a
\* prompt is queued and queueing locally while a turn runs.  "open": native
\* /goal side prompts too, while another prompt of ours is out.  "any":
\* goal follow-ups and side prompts at any moment of a turn.
MaySend ==
    \/ Overlap = "any"
    \/ ~inFlight /\ (Overlap = "none" => pendingPrompts = {})
    \/ Overlap = "open" /\ openPrompts > 0

\* A variant: the supervisor judges on backgroundIdle only.
SuperviseBackgroundOnly ==
    deferred' = (deferred \/ (inFlight /\ ~inFlight' /\ (liveTasks' # {} \/ bgTimer')))

\* evaluateWhenTargetSettled, run by promptEnded: judge now, or wait for the
\* next promptEnded or for backgroundIdle.
SuperviseTurnEnd ==
    deferred' = IF inFlight /\ ~inFlight'
                THEN liveTasks' # {} \/ bgTimer'
                ELSE deferred

stopSessionBusyRetry ==
    /\ retryPending' = FALSE
    /\ retryTimer' = FALSE
    /\ retryElapsed' = 0
    /\ retryDelay' = 0
    /\ UNCHANGED retryPrompt

\* A variant: the back-off delay taken for the time waited so far.
DelayExhausted == retryDelay >= RetryGiveUpMs

\* The give-up condition of startSessionBusyRetry.
RetryExhausted == retryElapsed >= RetryGiveUpMs

\* notePromptOpened for n >= 1 prompts in a row, beginPrompt included.
OpenedCount(n) == (IF openPrompts = 0 /\ inFlight THEN 1 ELSE openPrompts) + n

notePromptOpened(n) ==
    /\ openPrompts' = OpenedCount(n)
    /\ idleTimer' = FALSE
    /\ inFlight' = (inFlight \/ openPrompts = 0)
    /\ bgTimer' = (bgTimer /\ (inFlight \/ openPrompts # 0))

\* A variant: m_openPrompts is reset by any result.
closedAll(open) ==
    /\ openPrompts' = 0
    /\ openCalls' = {}
    /\ idleTimer' = (idleTimer \/ (inFlight' /\ NothingOpen(0, FALSE, {})))

\* A variant: the last result leaves the end to the agent's next traffic.
closedUnarmed(open) ==
    LET left == IF open > 0 THEN open - 1 ELSE 0
    IN  /\ openPrompts' = left
        /\ openCalls' = IF left = 0 THEN {} ELSE openCalls
        /\ UNCHANGED idleTimer

\* notePromptClosed when m_openPrompts is `open` and the retry is over.
notePromptClosed(open) ==
    LET left == IF open > 0 THEN open - 1 ELSE 0
    IN  /\ openPrompts' = left
        /\ openCalls' = IF left = 0 THEN {} ELSE openCalls
        /\ idleTimer' = (idleTimer \/ (inFlight' /\ NothingOpen(left, FALSE, {})))

\* A variant: beginPrompt leaves the grace timer running.
noteActivityKeepsGrace ==
    /\ inFlight' = TRUE
    /\ bgTimer' = bgTimer
    /\ idleTimer' = (idleTimer \/ NothingOpen(openPrompts, retryPending, openCalls))

\* A variant: the timer is only armed by traffic that opens the turn.
noteActivityArmsOnce ==
    /\ inFlight' = TRUE
    /\ bgTimer' = (bgTimer /\ inFlight)
    /\ idleTimer' = (idleTimer \/ (~inFlight /\ NothingOpen(openPrompts, retryPending, openCalls)))

\* noteStreamingActivity (beginPrompt included).
noteStreamingActivity ==
    /\ inFlight' = TRUE
    /\ bgTimer' = (bgTimer /\ inFlight)
    /\ idleTimer' = (idleTimer \/ NothingOpen(openPrompts, retryPending, openCalls))

\* A variant: endPrompt without its m_openPrompts test.
endPromptAlways(open) == idleTimer' = FALSE /\ inFlight' = FALSE

\* endPrompt with m_openPrompts = open.
endPrompt(open) ==
    /\ idleTimer' = FALSE
    /\ inFlight' = (inFlight /\ open > 0)

-----------------------------------------------------------------------------
Init ==
    /\ running = TRUE
    /\ session \in BOOLEAN
    /\ pendingPrompts = {} /\ outstanding = {}
    /\ openPrompts = 0 /\ inFlight = FALSE /\ idleTimer = FALSE
    /\ retryPending = FALSE /\ retryTimer = FALSE /\ retryPrompt = NoPrompt
    /\ retryElapsed = 0 /\ retryDelay = 0
    /\ openCalls = {} /\ permissions = {}
    /\ liveTasks = {} /\ bgTimer = FALSE
    /\ issued = {} /\ resolved = {}
    /\ agentCalls = [c \in Calls |-> "new"]
    /\ agentAsked = {} /\ agentSpawned = {} /\ agentOwes = {}
    /\ deferred = FALSE

-----------------------------------------------------------------------------
(* The host: prompts *)

\* sendPrompt before session/new or session/resume has answered.
QueuePrompt(p) ==
    /\ ~session
    /\ p \notin issued /\ MaySend
    /\ issued' = issued \union {p}
    /\ pendingPrompts' = pendingPrompts \union {p}
    /\ UNCHANGED <<running, session, outstanding, resolved, turnVars, retryVars,
                   workVars, taskVars, agentVars, deferred>>

\* A variant: the queue is cleared before it is flushed.
SessionReadyDropsQueue ==
    /\ running /\ ~session
    /\ session' = TRUE
    /\ pendingPrompts' = {}
    /\ UNCHANGED <<running, issued, outstanding, resolved, turnVars, bgTimer,
                   retryVars, workVars, liveTasks, agentVars, deferred>>

\* finishSessionSetup: the session is up, the queued prompts go out together.
SessionReady ==
    /\ running /\ ~session
    /\ session' = TRUE
    /\ pendingPrompts' = {}
    /\ outstanding' = outstanding \union pendingPrompts
    /\ IF pendingPrompts = {}
         THEN UNCHANGED <<turnVars, bgTimer>>
         ELSE notePromptOpened(Cardinality(pendingPrompts))
    /\ UNCHANGED <<running, issued, resolved, retryVars, workVars, liveTasks,
                   agentVars, deferred>>

\* sendPrompt and sendSidePrompt on a live session: open, dispatch.
SendPrompt(p) ==
    /\ session /\ running
    /\ p \notin issued /\ MaySend
    /\ issued' = issued \union {p}
    /\ notePromptOpened(1)
    /\ outstanding' = outstanding \union {p}
    /\ UNCHANGED <<running, session, pendingPrompts, resolved, retryVars,
                   workVars, liveTasks, agentVars, deferred>>

\* The same once the process is gone: sendRequest fails on the spot and its
\* callback closes the prompt that was just opened.
SendPromptToDead(p) ==
    /\ session /\ ~running
    /\ p \notin issued /\ MaySend
    /\ issued' = issued \union {p}
    /\ resolved' = resolved \union {p}
    /\ stopSessionBusyRetry
    /\ inFlight' = TRUE
    /\ bgTimer' = (bgTimer /\ inFlight)
    /\ LET left == OpenedCount(1) - 1
       IN  /\ openPrompts' = left
           /\ openCalls' = IF left = 0 THEN {} ELSE openCalls
           /\ idleTimer' = NothingOpen(left, FALSE, {})
    /\ UNCHANGED <<running, session, pendingPrompts, outstanding, permissions,
                   liveTasks, agentVars, deferred>>

\* cancelPrompt.  hadBusyRetry also holds while the retried request is out.
CancelPrompt ==
    /\ stopSessionBusyRetry
    /\ IF retryPending
         THEN /\ resolved' = resolved \union {retryPrompt}
              /\ openPrompts' = IF openPrompts > 0 THEN openPrompts - 1 ELSE 0
         ELSE UNCHANGED <<resolved, openPrompts>>
    /\ openCalls' = {}
    /\ idleTimer' = (idleTimer \/ (inFlight /\ NothingOpen(openPrompts', FALSE, {})))
    /\ UNCHANGED <<running, session, pendingPrompts, outstanding, issued,
                   inFlight, permissions, taskVars, agentVars, deferred>>

\* respondToPermission: the idle timer is left as it is.
AnswerPermission(q) ==
    /\ q \in permissions
    /\ permissions' = permissions \ {q}
    /\ agentOwes' = agentOwes \union {"report"}
    /\ UNCHANGED <<running, session, hostVars, turnVars, retryVars, openCalls,
                   taskVars, agentCalls, agentAsked, agentSpawned, deferred>>

-----------------------------------------------------------------------------
(* The response to session/prompt *)

\* A result, or an error other than session_busy.
Answered(p) ==
    /\ running /\ p \in outstanding
    /\ outstanding' = outstanding \ {p}
    /\ resolved' = resolved \union {p}
    /\ stopSessionBusyRetry
    /\ UNCHANGED inFlight
    /\ notePromptClosed(openPrompts)
    /\ UNCHANGED <<running, session, pendingPrompts, issued, permissions,
                   taskVars, agentVars, deferred>>

\* session_busy: startSessionBusyRetry, in its three outcomes.
BusyIgnored(p) ==
    /\ openPrompts = 0
    /\ stopSessionBusyRetry
    /\ UNCHANGED <<resolved, turnVars, openCalls>>

\* A variant: giving up reports the prompt and leaves it counted.
BusyGiveUpStaysOpen(p) ==
    /\ openPrompts > 0
    /\ RetryExhausted
    /\ stopSessionBusyRetry
    /\ resolved' = resolved \union {p}
    /\ UNCHANGED <<inFlight, openPrompts, openCalls, idleTimer>>

BusyGiveUp(p) ==
    /\ openPrompts > 0
    /\ RetryExhausted
    /\ stopSessionBusyRetry
    /\ resolved' = resolved \union {p}
    /\ UNCHANGED inFlight
    /\ notePromptClosed(openPrompts)

BusyRetryLater(p) ==
    /\ openPrompts > 0
    /\ ~RetryExhausted
    /\ LET delay == IF retryDelay <= 0 THEN RetryInitialMs ELSE retryDelay
       IN  /\ retryElapsed' = retryElapsed + delay
           /\ retryDelay' = IF 2 * delay < RetryMaxDelayMs
                            THEN 2 * delay ELSE RetryMaxDelayMs
    /\ retryPending' = TRUE
    /\ retryPrompt' = p
    /\ retryTimer' = TRUE
    /\ idleTimer' = FALSE
    /\ UNCHANGED <<resolved, openPrompts, inFlight, openCalls>>

Busy(p) ==
    /\ MayBeBusy /\ running /\ p \in outstanding
    /\ outstanding' = outstanding \ {p}
    /\ BusyIgnored(p) \/ BusyGiveUp(p) \/ BusyRetryLater(p)
    /\ UNCHANGED <<running, session, pendingPrompts, issued, permissions,
                   taskVars, agentVars, deferred>>

-----------------------------------------------------------------------------
(* Session updates from the agent *)

\* agent_message_chunk, agent_thought_chunk, plan.
StreamChunk ==
    /\ running /\ session
    /\ noteStreamingActivity
    /\ agentOwes' = agentOwes \ {"report"}
    /\ UNCHANGED <<running, session, hostVars, openPrompts, retryVars, workVars,
                   liveTasks, agentCalls, agentAsked, agentSpawned, deferred>>

\* tool_call and tool_call_update: activity first, then trackToolCallStatus.
ToolOpen(c) ==
    /\ running /\ session
    /\ agentCalls[c] # "done"
    /\ agentCalls' = [agentCalls EXCEPT ![c] = "run"]
    /\ agentOwes' = agentOwes \ {"report"}
    /\ noteStreamingActivity
    /\ openCalls' = openCalls \union {c}
    /\ UNCHANGED <<running, session, hostVars, openPrompts, retryVars,
                   permissions, liveTasks, agentAsked, agentSpawned, deferred>>

ToolClose(c) ==
    /\ running /\ session
    /\ agentCalls[c] # "done"
    /\ agentCalls' = [agentCalls EXCEPT ![c] = "done"]
    /\ agentOwes' = agentOwes \ {"report"}
    /\ openCalls' = openCalls \ {c}
    /\ inFlight' = TRUE
    /\ bgTimer' = (bgTimer /\ inFlight)
    /\ idleTimer' = (idleTimer \/ NothingOpen(openPrompts, retryPending, openCalls'))
    /\ UNCHANGED <<running, session, hostVars, openPrompts, retryVars,
                   permissions, liveTasks, agentAsked, agentSpawned, deferred>>

\* session/request_permission on the manual path.
AskPermission(q) ==
    /\ running /\ session
    /\ q \notin agentAsked
    /\ agentAsked' = agentAsked \union {q}
    /\ permissions' = permissions \union {q}
    /\ UNCHANGED <<running, session, hostVars, turnVars, retryVars, openCalls,
                   taskVars, agentCalls, agentSpawned, agentOwes, deferred>>

\* usage_update with a cost: noteModelCycleResult.
CycleResult ==
    /\ running /\ session
    /\ inFlight /\ NothingOpen(openPrompts, retryPending, openCalls)
    /\ endPrompt(openPrompts)
    /\ UNCHANGED <<running, session, hostVars, openPrompts, retryVars, workVars,
                   taskVars, agentVars>>
    /\ SuperviseTurnEnd

\* prompt_start and prompt_end updates.
PromptStartUpdate ==
    /\ running /\ session /\ ~inFlight
    /\ inFlight' = TRUE
    /\ bgTimer' = FALSE
    /\ agentOwes' = agentOwes \union {"end"}
    /\ UNCHANGED <<running, session, hostVars, openPrompts, idleTimer, retryVars,
                   workVars, liveTasks, agentCalls, agentAsked, agentSpawned,
                   deferred>>

PromptEndUpdate ==
    /\ running /\ session
    /\ endPrompt(openPrompts)
    /\ agentOwes' = agentOwes \ {"end"}
    /\ UNCHANGED <<running, session, hostVars, openPrompts, retryVars, workVars,
                   taskVars, agentCalls, agentAsked, agentSpawned>>
    /\ SuperviseTurnEnd

\* async_task updates: applyAsyncTaskEvent and emitAsyncTasksIfChanged.
TaskSpawned(t) ==
    /\ running /\ session
    /\ t \notin agentSpawned
    /\ agentSpawned' = agentSpawned \union {t}
    /\ liveTasks' = liveTasks \union {t}
    /\ bgTimer' = FALSE
    /\ UNCHANGED <<running, session, hostVars, turnVars, retryVars, workVars,
                   agentCalls, agentAsked, agentOwes, deferred>>

\* A variant: the last task ends without arming the grace timer.
TaskFinishedUnarmed(t) ==
    /\ running /\ t \in liveTasks
    /\ liveTasks' = liveTasks \ {t}
    /\ bgTimer' = FALSE
    /\ UNCHANGED <<running, session, hostVars, turnVars, retryVars, workVars,
                   agentVars, deferred>>

TaskFinished(t) ==
    /\ running /\ t \in liveTasks
    /\ liveTasks' = liveTasks \ {t}
    /\ bgTimer' = (liveTasks' = {})
    /\ UNCHANGED <<running, session, hostVars, turnVars, retryVars, workVars,
                   agentVars, deferred>>

-----------------------------------------------------------------------------
(* Timers and the end of the process *)

IdleTimeout ==
    /\ idleTimer
    /\ idleTimer' = FALSE
    /\ inFlight' = (inFlight /\ ~NothingOpen(openPrompts, retryPending, openCalls))
    /\ UNCHANGED <<running, session, hostVars, openPrompts, retryVars, workVars,
                   taskVars, agentVars>>
    /\ SuperviseTurnEnd

\* The retry timer's slot: m_busyRetryPending stays set while the request is out.
RetryTimeout ==
    /\ retryTimer
    /\ retryTimer' = FALSE
    /\ outstanding' = IF retryPending THEN outstanding \union {retryPrompt} ELSE outstanding
    /\ UNCHANGED <<running, session, pendingPrompts, issued, resolved, turnVars,
                   retryPending, retryPrompt, retryElapsed, retryDelay, workVars,
                   taskVars, agentVars, deferred>>

BackgroundTimeout ==
    /\ bgTimer
    /\ bgTimer' = FALSE
    /\ deferred' = (deferred /\ (liveTasks # {} \/ inFlight))
    /\ UNCHANGED <<running, session, hostVars, turnVars, retryVars, workVars,
                   liveTasks, agentVars>>

\* handleProcessFinished.
ProcessFinished ==
    /\ running
    /\ running' = FALSE
    /\ permissions' = {}
    /\ stopSessionBusyRetry
    /\ openPrompts' = 0
    /\ openCalls' = {}
    /\ liveTasks' = {}
    /\ bgTimer' = FALSE
    /\ endPrompt(0)
    /\ UNCHANGED <<session, hostVars, agentVars>>
    /\ SuperviseTurnEnd

-----------------------------------------------------------------------------
HostStep ==
    \/ \E p \in Prompts : QueuePrompt(p) \/ SendPrompt(p) \/ SendPromptToDead(p)
    \/ CancelPrompt
    \/ \E q \in Permissions : AnswerPermission(q)

AgentStep ==
    \/ SessionReady
    \/ \E p \in Prompts : Answered(p) \/ Busy(p)
    \/ StreamChunk
    \/ \E c \in Calls : ToolOpen(c) \/ ToolClose(c)
    \/ \E q \in Permissions : AskPermission(q)
    \/ CycleResult \/ PromptStartUpdate \/ PromptEndUpdate
    \/ \E t \in Tasks : TaskSpawned(t) \/ TaskFinished(t)
    \/ ProcessFinished

TimerStep == IdleTimeout \/ RetryTimeout \/ BackgroundTimeout

Next == HostStep \/ AgentStep \/ TimerStep

Spec == Init /\ [][Next]_vars

(***************************************************************************)
(* Fairness.  What the code gives: an armed QTimer fires.                  *)
(***************************************************************************)
Timers == WF_vars(RetryTimeout) /\ WF_vars(BackgroundTimeout)

(***************************************************************************)
(* What every agent is taken to do.  It falls quiet for                    *)
(* kPromptIdleEndDelayMs now and then: each chunk restarts the idle timer, *)
(* so that timer fires only in such a pause.  It answers every             *)
(* session/prompt, closes every tool call, ends every task, reports on the *)
(* call it got a permission for, and sends prompt_end after the            *)
(* prompt_start of its own.  No cycle result is taken for granted: only    *)
(* claude-agent-acp sends one.                                             *)
(***************************************************************************)
FallsQuiet == WF_vars(IdleTimeout)

AgentAnswers ==
    /\ \A p \in Prompts : WF_vars(Answered(p) \/ Busy(p))
    /\ \A c \in Calls : WF_vars(agentCalls[c] = "run" /\ ToolClose(c))
    /\ \A t \in Tasks : WF_vars(TaskFinished(t))
    /\ WF_vars("report" \in agentOwes /\ StreamChunk)
    /\ WF_vars("end" \in agentOwes /\ PromptEndUpdate)

\* The user answers permission requests; nobody has to send a prompt.
UserAnswers == \A q \in Permissions : WF_vars(AnswerPermission(q))

Fairness == Timers /\ FallsQuiet /\ AgentAnswers /\ UserAnswers

FairSpec == Spec /\ Fairness

-----------------------------------------------------------------------------
(* What a supervisor sees of the connection *)

\* hasPendingBackgroundWork, with what is left told apart.
Background == IF liveTasks # {} THEN "tasks" ELSE IF bgTimer THEN "grace" ELSE "none"

Seen == INSTANCE TargetSession
    WITH alive <- running, pending <- (pendingPrompts # {}),
         processing <- inFlight, background <- Background

-----------------------------------------------------------------------------
(* Properties *)

\* The type invariant.
TypeOK ==
    /\ running \in BOOLEAN /\ session \in BOOLEAN
    /\ pendingPrompts \subseteq Prompts /\ outstanding \subseteq Prompts
    /\ openPrompts \in Nat /\ inFlight \in BOOLEAN /\ idleTimer \in BOOLEAN
    /\ retryPending \in BOOLEAN /\ retryTimer \in BOOLEAN
    /\ retryPrompt \in Prompts \union {NoPrompt}
    /\ retryElapsed \in Nat /\ retryDelay \in Nat
    /\ openCalls \subseteq Calls /\ permissions \subseteq Permissions
    /\ liveTasks \subseteq Tasks /\ bgTimer \in BOOLEAN
    /\ issued \subseteq Prompts /\ resolved \subseteq Prompts
    /\ agentCalls \in [Calls -> {"new", "run", "done"}]
    /\ agentAsked \subseteq Permissions /\ agentSpawned \subseteq Tasks
    /\ agentOwes \subseteq {"report", "end"}
    /\ deferred \in BOOLEAN

\* A prompt that waits for its session_busy retry keeps the turn open: the
\* quiet-period timer is off and the turn cannot be declared over under it
\* (startSessionBusyRetry stops m_promptIdleEndTimer, every later path checks
\* m_busyRetryPending or closes the retry first).
RetryHoldsTurn ==
    retryPending => openPrompts > 0 /\ inFlight /\ ~idleTimer /\ running

\* The back-off of startSessionBusyRetry gives up: the time spent waiting
\* overshoots kSessionBusyRetryGiveUpMs by less than one delay.
BusyWaitBounded ==
    retryElapsed < RetryGiveUpMs + (IF RetryInitialMs > RetryMaxDelayMs
                                    THEN RetryInitialMs ELSE RetryMaxDelayMs)
                   \/ retryElapsed = 0

\* To a supervisor the connection looks as TargetSession describes it, whatever
\* the agent streams, retries, asks for or leaves running: a turn only starts on
\* a live session, work that ends is followed by the grace period, and nothing
\* but its end or a new turn cuts that period short.
KeepsTargetContract == Seen!Spec

\* A supervisor that skipped a turn end because of background work always has
\* a signal still to come: a turn that will end, a live task, or the armed
\* grace timer (the contract of hasPendingBackgroundWork and backgroundIdle).
NoLostWakeup ==
    deferred /\ running => inFlight \/ hasPendingBackgroundWork

\* promptEnded is emitted only when every session/prompt is answered: "The
\* turn stays open while other prompts (native /goal) are still out"
\* (AcpConnection.cpp:815).
EndMeansAnswered ==
    [][inFlight /\ ~inFlight' /\ running' => outstanding = {} /\ ~retryPending]_vars

\* m_openPrompts counts exactly the prompts whose result is still owed, so no
\* result closes another prompt's turn and no prompt keeps a turn open after
\* its result.
OpenPromptsExact ==
    running => openPrompts = Cardinality(outstanding
                                \union (IF retryPending THEN {retryPrompt} ELSE {}))

\* A composer that waits for its turn to end has at most one prompt counted,
\* and a prompt is counted only while its result is still to come, however the
\* agent's session_busy, the back-off, its end and a cancel fall together: a
\* count that nobody will take down would lock Send for good.
CountIsOwed ==
    /\ openPrompts <= 1
    /\ running /\ openPrompts = 1 => outstanding # {} \/ retryPending

\* While the agent runs, a prompt handed to sendPrompt is queued, out, waiting
\* for its retry, or resolved: none is dropped without a word.
NoPromptLost ==
    running => issued \subseteq pendingPrompts \union outstanding \union resolved
                   \union (IF retryPending THEN {retryPrompt} ELSE {})

\* Every turn ends (promptEnded is what re-enables Send and what supervisors
\* wait for).
TurnEnds == inFlight ~> ~inFlight

\* A waiting supervisor gets to judge, unless the agent exits.
SupervisorResumes == deferred ~> (~deferred \/ ~running)
=============================================================================
