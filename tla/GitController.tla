--------------------------- MODULE GitController ---------------------------
(***************************************************************************)
(* The git panel of a workspace (src/src/git/GitController.cpp): one queue *)
(* of git processes run one at a time, the coalescer that turns bursts of  *)
(* file-system signals into refreshes (GitRefreshCoalescer.h), the status  *)
(* bytes parsed off the UI thread (GitStatusSync.cpp), the line counts on  *)
(* a runner of their own, the switch between the checkouts of the          *)
(* repository, some of which may disappear, and the tab that answers       *)
(* reposUpdated by selecting a checkout itself (GitTabWidget.cpp).         *)
(*                                                                         *)
(* The controller is one record and its functions are operators from       *)
(* records to records, since every handler ends in popAndAdvance, which    *)
(* may start the next process, a switch or a refresh in the same call.     *)
(***************************************************************************)
EXTENDS Integers, Sequences, FiniteSets, SequencesExt

CONSTANTS
    Worktrees,   \* linked worktrees of the main checkout
    Submodules,  \* submodules of the main checkout
    Quiet,       \* kQuietMs, in ticks
    MaxWait,     \* kMaxWaitMs, in ticks
    MaxChanges,  \* bound: changes of files, refs or worktrees by others
    MaxRequests, \* bound: operations and switches the user asks for
    MaxFailures, \* bound: processes that fail, hang or are cancelled
    MaxEvents    \* bound: all of these together

Main == "main"
None == "none"
Checkouts == {Main} \union Worktrees \union Submodules

ASSUME GitAssumption ==
    /\ Quiet \in Nat \ {0} /\ MaxWait \in Nat \ {0}
    /\ MaxChanges \in Nat /\ MaxRequests \in Nat /\ MaxFailures \in Nat /\ MaxEvents \in Nat
    /\ IsFiniteSet(Submodules)
    /\ {Main, None} \intersect (Worktrees \union Submodules) = {}
    /\ Worktrees \intersect Submodules = {}

\* OpKind: what a process is for.  "head" stands for symbolic-ref and
\* rev-parse, "refs" for remote and for-each-ref, "change" for every operation
\* that refreshes when it succeeds, "query" for diffs, blobs and the counts of
\* a submodule.
RefreshKinds == {"ignored", "head", "refs", "status"}
UserKinds == {"change", "query", "merge", "remove"}
Kinds == RefreshKinds \union UserKinds \union {"toplevel", "submodules", "worktrees"}
Op(kind, at) == [kind |-> kind, at |-> at]
Idle == Op("idle", None)
Sides == {"unstaged", "staged"}
Signals == {"tree", "head", "trees"}

VARIABLES
    ctl,     \* the controller with its watcher and its tab, see Init
    exists,  \* the checkouts on disk
    pick,    \* history: the checkout asked for last, None once it is gone
    changes, requests, failures \* bounds used up

boundVars == <<changes, requests, failures>>
vars == <<ctl, exists, pick, boundVars>>

\* Fields unread, lost, shown and stale are histories: what changed in the
\* current checkout since a process last began to read it, what a failed or
\* dropped process left unread, the checkout whose entries the status model
\* holds, and the line counts that predate these entries.
\*
\* The tab creates the controller and asks it to look for a repository.
Init ==
    /\ ctl = [queue |-> <<>>, current |-> Op("toplevel", Main), busy |-> TRUE,
              marker |-> FALSE, repo |-> None, rows |-> {}, wish |-> None, saved |-> None,
              dirty |-> FALSE, immediate |-> FALSE, since |-> 0, burst |-> 0,
              timer |-> -1, full |-> FALSE, signals |-> {},
              known |-> FALSE, parsing |-> None, outdated |-> {},
              numstat |-> "off", again |-> FALSE, blank |-> Sides,
              overflow |-> FALSE,
              unread |-> {}, lost |-> {}, shown |-> None, stale |-> {}]
    /\ exists = Checkouts
    /\ pick = None
    /\ changes = 0 /\ requests = 0 /\ failures = 0

\* Every event of a bounded kind passes here.
Room == changes + requests + failures < MaxEvents

-----------------------------------------------------------------------------
(* The coalescer *)

\* acknowledgeRefresh.
Acknowledged(c) == [c EXCEPT !.dirty = FALSE, !.immediate = FALSE, !.since = 0, !.burst = 0]
Pending(c) == c.dirty \/ c.immediate

\* onQuietElapsed, onRefreshDrained: the decision to fire.
QuietFires(c) == c.dirty /\ ~c.busy /\ c.since >= Quiet

\* A variant: a request made while a process runs is not kept.
DrainFiresDirtyOnly(c) == c.dirty /\ (c.burst >= MaxWait \/ c.since >= Quiet)

DrainFires(c) ==
    \/ c.immediate
    \/ c.dirty /\ (c.burst >= MaxWait \/ c.since >= Quiet)

-----------------------------------------------------------------------------
(* The queue *)

\* What a process has read of its checkout once it ran.
ReadBy(op) ==
    CASE op.kind = "status" -> {"tree"}
      [] op.kind \in {"head", "refs"} -> {"head"}
      [] op.kind \in {"toplevel", "submodules", "worktrees"} -> {"rows"}
      [] OTHER -> {}

\* runNext with a process to run.
Begin(c) ==
    LET op == Head(c.queue)
        reads == CASE op.kind \in {"head", "status"} -> IF op.at = c.repo THEN ReadBy(op) ELSE {}
                   [] op.kind = "worktrees" -> IF op.at = Main THEN {"rows"} ELSE {}
                   [] OTHER -> {}
    IN  [c EXCEPT !.queue = Tail(c.queue), !.current = op, !.busy = TRUE, !.marker = FALSE,
                  !.unread = @ \ reads, !.lost = @ \ reads]

Enqueue(c, ops) ==
    LET q == [c EXCEPT !.queue = @ \o ops]
    IN  IF c.busy \/ ops = <<>> THEN q ELSE Begin(q)

enqueueRefresh(c, full) ==
    Enqueue(c, <<Op("ignored", c.repo)>>
                 \o (IF full THEN <<Op("head", c.repo), Op("refs", c.repo)>> ELSE <<>>)
                 \o <<Op("status", c.repo)>>)

startRefresh(c) ==
    IF c.busy THEN [c EXCEPT !.immediate = TRUE]
    ELSE enqueueRefresh([Acknowledged(c) EXCEPT !.timer = -1, !.full = FALSE], c.full)

refresh(c) == IF c.repo = None THEN c ELSE startRefresh([c EXCEPT !.full = TRUE])

applyCoalescedRefresh(c, fires) ==
    IF fires
      THEN LET f == [Acknowledged(c) EXCEPT !.timer = -1]
           IN  IF c.repo = None THEN f ELSE startRefresh(f)
      ELSE IF Pending(c) THEN [c EXCEPT !.timer = Quiet] ELSE c

\* A variant: a burst has no ceiling.
onDirtyUnbounded(c) ==
    applyCoalescedRefresh(
      [c EXCEPT !.dirty = TRUE, !.since = 0, !.burst = IF c.dirty THEN @ ELSE 0], FALSE)

\* onDirty, from scheduleDebouncedRefresh.
onDirty(c) ==
    LET d == [c EXCEPT !.dirty = TRUE, !.since = 0, !.burst = IF c.dirty THEN @ ELSE 0]
    IN  applyCoalescedRefresh(d, ~c.busy /\ d.burst >= MaxWait)

scheduleFullRefresh(c) == onDirty([c EXCEPT !.full = TRUE])

-----------------------------------------------------------------------------
(* Checkouts *)

\* The worktree lists of these owners, in any order, that are not queued yet.
WorktreeLists(c, owners) ==
    SetToSeq({op \in {Op("worktrees", o) : o \in owners} : op \notin Range(c.queue)})

\* enqueueWorktreeList: the main checkout, then the submodules that are listed.
enqueueWorktreeList(c) ==
    IF c.rows = {} THEN c
    ELSE Enqueue(c, WorktreeLists(c, {Main}) \o WorktreeLists(c, Submodules \intersect c.rows))

\* The tab on reposUpdated selects the current checkout while it is listed,
\* else the one it saved, else the first.  Every caller is busy, so selecting
\* leaves a wish or clears one; a checkout that is listed and missing brings
\* reposUpdated back with the same rows, in a call that never returns.
onReposUpdated(c, there) ==
    LET p == CASE c.repo \in c.rows -> c.repo
               [] c.repo \notin c.rows /\ c.saved \in c.rows -> c.saved
               [] OTHER -> Main
    IN  IF c.rows = {} THEN c
        ELSE IF p \notin there THEN [c EXCEPT !.overflow = TRUE]
        ELSE [c EXCEPT !.wish = IF p = c.repo THEN None ELSE p]

\* recoverMissingCheckout.  The list it asks for makes the controller busy, so
\* the way back to the main checkout waits for the queue.
recoverMissingCheckout(c, there) ==
    LET l == enqueueWorktreeList(c)
    IN  onReposUpdated(IF c.repo = Main THEN l ELSE [l EXCEPT !.wish = Main], there)

\* applySelectRepo: whatever was read or pending for the last checkout goes.
applySelectRepo(c, r, there) ==
    IF r \notin there THEN recoverMissingCheckout(c, there)
    ELSE enqueueRefresh(
           [Acknowledged(c) EXCEPT !.repo = r, !.timer = -1, !.full = FALSE,
                                   !.signals = {}, !.known = FALSE, !.parsing = None,
                                   !.outdated = @ \union ({c.parsing} \ {None}),
                                   !.numstat = "off", !.again = FALSE,
                                   !.blank = Sides,
                                   !.unread = {"tree", "head"},
                                   !.lost = @ \ {"tree", "head"}], TRUE)

\* selectRepo.
selectRepo(c, r, there) ==
    IF r \notin there THEN recoverMissingCheckout(c, there)
    ELSE IF r = c.repo THEN [c EXCEPT !.wish = None]
    ELSE IF c.busy THEN [c EXCEPT !.wish = r]
    ELSE applySelectRepo(c, r, there)

\* runNext on an empty queue: a switch waiting for it, or a refresh.
Drained(c, there) ==
    LET d == [c EXCEPT !.busy = FALSE, !.current = Idle, !.wish = None]
    IN  IF c.wish \notin {None, c.repo} THEN applySelectRepo(d, c.wish, there)
        ELSE IF Pending(d) THEN applyCoalescedRefresh(d, DrainFires(d)) ELSE d

\* popAndAdvance.
Advance(c, there) == IF c.queue = <<>> THEN Drained(c, there) ELSE Begin(c)

\* A process that fails, times out or is cancelled takes the queue with it.
Abandon(c, there) ==
    LET dropped == {c.current} \union Range(c.queue)
        gone == UNION {ReadBy(op) : op \in {o \in dropped : o.at = c.repo \/ "rows" \in ReadBy(o)}}
    IN  Advance([c EXCEPT !.queue = <<>>, !.lost = @ \union gone], there)

-----------------------------------------------------------------------------
(* Status entries and line counts *)

\* A variant: a pass that is running is taken to count the new entries too.
requestNumstatOnce(c) ==
    IF c.numstat # "off" THEN c ELSE [c EXCEPT !.numstat = "unstaged", !.stale = @ \ {"pass"}]

\* requestNumstat.
requestNumstat(c) ==
    IF c.numstat # "off" THEN [c EXCEPT !.again = TRUE]
    ELSE [c EXCEPT !.again = FALSE, !.numstat = "unstaged", !.stale = @ \ {"pass"}]

\* Counts made before this moment predate the entries.
Outdate(c) == [c EXCEPT !.stale = Sides \union {"pass"}, !.lost = @ \ Sides]

\* submit: the same bytes are either being parsed or already in the model.
submit(c, at, same) ==
    IF same /\ c.parsing # None THEN [c EXCEPT !.parsing = at]
    ELSE IF same THEN requestNumstat([Outdate(c) EXCEPT !.shown = at])
    ELSE [c EXCEPT !.known = TRUE, !.parsing = at,
                   !.outdated = @ \union ({c.parsing} \ {None})]

\* onStatusApplied, after setEntries.
onStatusApplied(c, at) ==
    requestNumstat([Outdate(c) EXCEPT !.shown = at, !.blank = Sides])

\* The numstat callback.  A pass that fails leaves the counts as they are; the
\* merge of the parsed output, which nothing else waits for, is part of it.
NumstatSide(c, ok, same) ==
    LET side == c.numstat
    IN  IF ~ok THEN [c EXCEPT !.lost = @ \union {side}]
        ELSE [c EXCEPT !.blank = IF same THEN @ ELSE @ \ {side},
                       !.stale = IF "pass" \in @ THEN @ \union {side} ELSE @ \ {side}]

-----------------------------------------------------------------------------
(* The end of a process *)

handleToplevelDone(c, there) ==
    LET listed == onReposUpdated([c EXCEPT !.rows = {Main}], there)
        at == [listed EXCEPT !.repo = Main, !.signals = {}, !.unread = {"tree", "head"}]
        asked == enqueueWorktreeList(Enqueue(at, <<Op("submodules", Main)>>))
    IN  enqueueRefresh([asked EXCEPT !.full = FALSE], TRUE)

handleSubmodulesDone(c, there) ==
    LET listed == onReposUpdated([c EXCEPT !.rows = @ \union Submodules], there)
    IN  Enqueue(listed, WorktreeLists(listed, Submodules))

\* A variant: a checkout git still registers is listed, on disk or not.
handleWorktreesDoneAll(c, owner, there, same) ==
    LET rows == IF owner = Main THEN c.rows \union Worktrees ELSE c.rows
        next == [c EXCEPT !.rows = rows, !.wish = IF c.repo \in rows THEN @ ELSE owner]
    IN  IF rows = c.rows THEN next ELSE onReposUpdated(next, there)

\* handleWorktreesDone: the worktrees of the owner are the ones on disk.  A
\* list with the same worktrees may still show one on another branch.
handleWorktreesDone(c, owner, there, same) ==
    LET rows == IF owner = Main THEN (c.rows \ Worktrees) \union (Worktrees \intersect there)
                ELSE c.rows
        next == [c EXCEPT !.rows = rows, !.wish = IF c.repo \in rows THEN @ ELSE owner]
        moved == ~same /\ owner = Main /\ rows \intersect Worktrees # {}
    IN  IF rows = c.rows /\ ~moved THEN next ELSE onReposUpdated(next, there)

\* What a change or a conflict leaves behind is read by the refresh after it.
Touched(c) == [c EXCEPT !.unread = IF c.current.at = c.repo THEN {"tree", "head"} ELSE @]

\* onRunFinished with exit code 0.  same: the output says nothing new - status
\* bytes and worktrees' branches as before, no toplevel at all.
HandleSuccess(c, there, same) ==
    LET at == c.current.at IN
    CASE c.current.kind = "toplevel"   -> IF same THEN c ELSE handleToplevelDone(c, there)
      [] c.current.kind = "submodules" -> handleSubmodulesDone(c, there)
      [] c.current.kind = "worktrees"  -> handleWorktreesDone(c, at, there, same)
      [] c.current.kind = "status"     -> submit(c, at, same)
      [] c.current.kind = "change"     -> refresh(Touched(c))
      [] c.current.kind = "merge"      -> Enqueue(c, <<Op("remove", at)>>)
      [] c.current.kind = "remove"     ->
           IF c.repo = at THEN [enqueueWorktreeList(c) EXCEPT !.wish = Main]
           ELSE refresh(enqueueWorktreeList(c))
      [] OTHER -> c

\* A variant: the branch of a failed diff returns before popAndAdvance.
HandleFailureNoPop(c, there) ==
    CASE c.current.kind = "query" -> {[c EXCEPT !.current = Idle]}
      [] c.current.kind \in {"ignored", "head", "change"} -> {Advance(c, there)}
      [] c.current.kind = "worktrees" -> {Advance([c EXCEPT !.lost = @ \union {"rows"}], there)}
      [] OTHER -> {Abandon(c, there)}

\* onRunFinished with another exit code.  Probes and diffs fail quietly, a
\* change may be one the user is asked about, or a conflict it left behind.
HandleFailure(c, there) ==
    CASE c.current.kind = "toplevel" ->
           {Advance([c EXCEPT !.repo = None, !.rows = {}, !.signals = {}], there)}
      [] c.current.kind \in {"ignored", "head", "query"} -> {Advance(c, there)}
      [] c.current.kind = "worktrees" -> {Advance([c EXCEPT !.lost = @ \union {"rows"}], there)}
      [] c.current.kind = "change" ->
           {Advance(c, there), Advance(refresh(Touched(c)), there), Abandon(c, there)}
      [] c.current.kind = "merge" ->
           {Advance(applySelectRepo(c, Main, there), there), Abandon(c, there)}
      [] OTHER -> {Abandon(c, there)}

Running == ctl.busy /\ ctl.current # Idle /\ ~ctl.overflow

\* git worktree remove takes the checkout away, and with it the choice of it.
Succeeds ==
    /\ Running /\ ~ctl.marker
    /\ ctl.current.at \in exists \/ ctl.current.kind = "merge"
    /\ exists' = IF ctl.current.kind = "remove" THEN exists \ {ctl.current.at} ELSE exists
    /\ pick' = IF pick \in exists' THEN pick ELSE None
    /\ \E same \in BOOLEAN :
         /\ same => \/ ctl.current.kind \in {"toplevel", "worktrees"}
                    \/ ctl.current.kind = "status" /\ ctl.known
         /\ \E c \in {HandleSuccess(ctl, exists', same)} : ctl' = Advance(c, exists')
    /\ UNCHANGED boundVars

Fails ==
    /\ Running /\ ~ctl.marker
    /\ \/ ctl.current.at \notin exists /\ UNCHANGED failures
       \/ Room /\ failures < MaxFailures /\ failures' = failures + 1
    /\ \E c \in HandleFailure(ctl, exists) :
         /\ ctl' = c
         /\ pick' = IF ctl.current.kind = "merge" /\ c.repo = Main THEN Main ELSE pick
    /\ UNCHANGED <<exists, changes, requests>>

\* cancelCurrent: cancel waits for the process, whose callback runs inside it.
Cancel ==
    /\ Running /\ Room /\ failures < MaxFailures
    /\ failures' = failures + 1
    /\ ctl' = Abandon(ctl, exists)
    /\ UNCHANGED <<exists, pick, changes, requests>>

\* GitProcessRunner::onTimeout: cancel, then the marker is put in the buffer,
\* which by then belongs to the process the callback started, if any.
onTimeout ==
    /\ Running /\ Room /\ failures < MaxFailures
    /\ failures' = failures + 1
    /\ LET c == Abandon(ctl, exists) IN ctl' = [c EXCEPT !.marker = c.busy]
    /\ UNCHANGED <<exists, pick, changes, requests>>

\* The process that carries the marker is reported as timed out.
Marked ==
    /\ Running /\ ctl.marker
    /\ ctl' = Abandon(ctl, exists)
    /\ UNCHANGED <<exists, pick, boundVars>>

ProcessEnds == Succeeds \/ Fails \/ Marked

-----------------------------------------------------------------------------
(* Timers, signals and results from other threads *)

Alive == ~ctl.overflow
unchangedWorld == UNCHANGED <<exists, pick, boundVars>>

\* Time passes while nothing is due; the ages stop where they decide nothing.
Tick ==
    /\ Alive /\ ctl.timer > 0
    /\ ctl' = [ctl EXCEPT !.timer = @ - 1,
                 !.since = IF ctl.dirty /\ @ < Quiet THEN @ + 1 ELSE @,
                 !.burst = IF ctl.dirty /\ @ <= MaxWait + Quiet THEN @ + 1 ELSE @]
    /\ unchangedWorld

QuietElapsed ==
    /\ Alive /\ ctl.timer = 0
    /\ ctl' = LET t == [ctl EXCEPT !.timer = -1] IN applyCoalescedRefresh(t, QuietFires(t))
    /\ unchangedWorld

\* onDebounce: everything seen since the last time, in one go.
onDebounce ==
    /\ Alive /\ ctl.signals # {}
    /\ ctl' = LET a == [ctl EXCEPT !.signals = {}]
                  b == IF "head" \in ctl.signals THEN scheduleFullRefresh(a) ELSE a
                  d == IF "tree" \in ctl.signals THEN onDirty(b) ELSE b
              IN  IF "trees" \in ctl.signals THEN enqueueWorktreeList(d) ELSE d
    /\ unchangedWorld

\* A variant: a parse is applied whether or not a newer one was started.
StatusAppliedAny ==
    /\ Alive
    /\ \E at \in ctl.outdated \union ({ctl.parsing} \ {None}) :
         ctl' = IF at = ctl.parsing
                  THEN onStatusApplied([ctl EXCEPT !.parsing = None], at)
                  ELSE onStatusApplied([ctl EXCEPT !.outdated = @ \ {at}], at)
    /\ unchangedWorld

\* The finished handler of a parse: only the newest is applied.
StatusApplied ==
    /\ Alive
    /\ \/ /\ ctl.parsing # None
          /\ ctl' = onStatusApplied([ctl EXCEPT !.parsing = None], ctl.parsing)
       \/ \E at \in ctl.outdated : ctl' = [ctl EXCEPT !.outdated = @ \ {at}]
    /\ unchangedWorld

\* The staged side follows the unstaged one; then the counts of submodules
\* whose content is modified are asked for, and the pass is repeated if the
\* entries were replaced meanwhile.
NumstatDone ==
    /\ Alive /\ ctl.numstat # "off"
    /\ \E ok \in IF Room /\ failures < MaxFailures THEN BOOLEAN ELSE {TRUE} :
       \E same \in IF ctl.numstat \in ctl.blank THEN {FALSE} ELSE BOOLEAN :
       \E subs \in {<<>>} \union {<<Op("query", s)>> : s \in ctl.rows \intersect Submodules} :
         LET c == NumstatSide(ctl, ok, same)
             e == Enqueue([c EXCEPT !.numstat = "off"], subs)
         IN  /\ subs # <<>> => ctl.repo = Main /\ ctl.numstat = "staged"
             /\ failures' = IF ok THEN failures ELSE failures + 1
             /\ ctl' = IF ctl.numstat = "unstaged"
                         THEN [c EXCEPT !.numstat = "staged", !.stale = @ \ {"pass"}]
                         ELSE IF e.again THEN requestNumstat(e) ELSE e
    /\ UNCHANGED <<exists, pick, changes, requests>>

-----------------------------------------------------------------------------
(* The user and the world *)

Change == Alive /\ Room /\ ctl.repo # None /\ changes < MaxChanges /\ changes' = changes + 1

\* Files or refs of the current checkout change, and the watcher sees it.
Touch ==
    /\ Change
    /\ \E what \in {"tree", "head"} :
         ctl' = [ctl EXCEPT !.unread = @ \union {what}, !.lost = @ \ {what},
                            !.signals = @ \union {what}]
    /\ UNCHANGED <<exists, pick, requests, failures>>

\* A linked worktree goes: git tells the registry the watcher looks at, a
\* directory that is deleted by hand tells nobody.
WorktreeGone ==
    /\ Change
    /\ \E w \in Worktrees \intersect exists :
         /\ exists' = exists \ {w}
         /\ pick' = IF pick = w THEN None ELSE pick
         /\ \/ ctl' = [ctl EXCEPT !.signals = @ \union {"trees"}]
            \/ ctl' = [ctl EXCEPT !.lost = @ \union {"rows"}]
    /\ UNCHANGED <<requests, failures>>

Request == Alive /\ Room /\ ctl.repo # None /\ requests < MaxRequests /\ requests' = requests + 1

\* onRepoSelected, or the control interface: the tab saves what it got.
onRepoSelected ==
    /\ Request
    /\ \E r \in ctl.rows :
         LET c == selectRepo(ctl, r, exists) IN
         /\ ctl' = [c EXCEPT !.saved = c.repo]
         /\ pick' = IF r \in exists THEN r ELSE pick
    /\ UNCHANGED <<exists, changes, failures>>

\* stagePaths, commit, requestDiff and their like; onRefreshClicked.
Operate ==
    /\ Request
    /\ \/ \E kind \in {"change", "query"} : ctl' = Enqueue(ctl, <<Op(kind, ctl.repo)>>)
       \/ ctl' = refresh(enqueueWorktreeList(ctl))
    /\ UNCHANGED <<exists, pick, changes, failures>>

\* removeWorktree, mergeAndRemoveWorktree.
RemoveWorktree ==
    /\ Request
    /\ \E w \in Worktrees \intersect ctl.rows, kind \in {"remove", "merge"} :
         ctl' = Enqueue(ctl, <<Op(kind, w)>>)
    /\ UNCHANGED <<exists, pick, changes, failures>>

Next ==
    \/ ProcessEnds \/ Cancel \/ onTimeout
    \/ Tick \/ QuietElapsed \/ onDebounce
    \/ StatusApplied \/ NumstatDone
    \/ Touch \/ WorktreeGone
    \/ onRepoSelected \/ Operate \/ RemoveWorktree

\* Processes end, the quiet timer fires, and what the event loop has to deliver
\* is delivered, in any order; nobody has to press anything.
Fairness ==
    /\ WF_vars(ProcessEnds)
    /\ WF_vars(Tick \/ QuietElapsed)
    /\ WF_vars(onDebounce \/ StatusApplied \/ NumstatDone)

Spec == Init /\ [][Next]_vars /\ Fairness

-----------------------------------------------------------------------------
(* Properties *)

\* The fields hold what the code can put in them; the timer is armed for the
\* quiet period and never longer.
TypeOK ==
    /\ ctl.queue \in Seq([kind : Kinds, at : Checkouts])
    /\ ctl.current \in [kind : Kinds, at : Checkouts] \union {Idle}
    /\ {ctl.repo, ctl.wish, ctl.saved, ctl.parsing, ctl.shown} \subseteq Checkouts \union {None}
    /\ {ctl.busy, ctl.marker, ctl.dirty, ctl.immediate, ctl.full, ctl.known, ctl.again,
        ctl.overflow} \subseteq BOOLEAN
    /\ ctl.rows \union ctl.outdated \union exists \subseteq Checkouts
    /\ ctl.since \in 0..Quiet /\ ctl.burst \in Nat /\ ctl.timer \in -1..Quiet
    /\ ctl.signals \subseteq Signals /\ ctl.unread \subseteq {"tree", "head"}
    /\ ctl.lost \subseteq {"tree", "head", "rows"} \union Sides
    /\ ctl.numstat \in Sides \union {"off"}
    /\ ctl.blank \subseteq Sides /\ ctl.stale \subseteq Sides \union {"pass"}

\* A change of the current checkout that no process has read yet is on its way
\* to one: signalled, in a burst some timer or the running queue will end, asked
\* for when the queue drains, queued, or left behind by a failure the user saw.
Coming(c) == (c.immediate /\ c.busy) \/ (c.dirty /\ (c.busy \/ c.timer >= 0))

NothingForgotten ==
    ~ctl.overflow =>
      /\ "tree" \in ctl.unread =>
           \/ "tree" \in ctl.signals \union ctl.lost \/ Coming(ctl)
           \/ Contains(ctl.queue, Op("status", ctl.repo))
      /\ "head" \in ctl.unread =>
           \/ "head" \in ctl.signals \union ctl.lost
           \/ Coming(ctl) /\ ctl.full
           \/ Contains(ctl.queue, Op("head", ctl.repo))

\* A burst that never pauses still refreshes: while nothing runs, no event has
\* waited out the ceiling and a quiet period after it.
BurstBounded == ctl.dirty /\ ~ctl.busy => ctl.burst < MaxWait + Quiet

\* Nothing runs and nothing is about to.
AtRest ==
    /\ ~ctl.busy /\ ctl.parsing = None /\ ctl.signals = {} /\ ~Pending(ctl)
    /\ ctl.repo # None /\ ~ctl.overflow

\* At rest the entries shown are those of the current checkout, unless its
\* status could not be read: no parse of another checkout, and no older one,
\* lands on them.
PanelShowsRepo == AtRest => ctl.shown = ctl.repo \/ "tree" \in ctl.lost

\* When no pass is left, the line counts belong to the entries,
\* except on a side whose process failed: entries that are replaced while
\* counting are counted again.
CountsFollowEntries ==
    AtRest /\ ctl.numstat = "off" /\ "tree" \notin ctl.lost =>
      Sides \subseteq ctl.lost \union (Sides \ (ctl.blank \union ctl.stale))

\* The panel does not stay on a checkout that is gone, unless nobody told it or
\* the list of worktrees could not be read.
NeverRestsOnRemoved == AtRest /\ ctl.repo \notin exists => "rows" \in ctl.lost

\* Whatever changed is read in the end, or was left behind by a failure.
ViewCatchesUp ==
    \A what \in {"tree", "head"} :
      what \in ctl.unread ~> (what \notin ctl.unread \/ what \in ctl.lost \/ ctl.overflow)

\* The comment in selectRepo, on a switch asked for while a process runs:
\* "Latest wins - clicking through several submodules quickly only applies the
\* final selection."
LatestPickWins == AtRest /\ pick # None => ctl.repo = pick

\* A process starts with an empty error buffer: the marker of a timeout reaches
\* no process but the one that timed out (GitProcessRunner::onTimeout).  It
\* fails as soon as a refresh starts inside the cancel of a timeout.
MarkerStaysHome == ~ctl.marker

\* Selecting a checkout returns: the tab and the controller do not answer each
\* other without end.  It fails with two requests: the current worktree, deleted
\* by hand and still listed, is selected again.
SelectionReturns == ~ctl.overflow
=============================================================================
