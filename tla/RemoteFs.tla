------------------------------ MODULE RemoteFs ------------------------------
(***************************************************************************)
(* RemoteFsBackend (src/src/remote/RemoteFsBackend.cpp): the asynchronous  *)
(* file API of the UI thread over the worker of SftpLanes.  Each call      *)
(* hands over one callback; the backend keeps it in a table under the      *)
(* reqId of the attempt that is out, retries read-only calls after a       *)
(* transient failure, and must invoke it exactly once.                     *)
(***************************************************************************)
EXTENDS SftpLanes, FiniteSets

CONSTANT MaxControl   \* bound: connects and disconnects posted and not taken,
                      \* and losses reported and not delivered

VARIABLES
    table,      \* the callback tables: requests with a registered callback
    backoff,    \* requests that failed and whose retry timer is armed
    connAlive,  \* the SshConnection exists
    alive,      \* the RemoteFsBackend exists
    issued,     \* history: calls made
    cancelled,  \* history: calls cancelled by their caller
    fired,      \* history: how often each call's callback was invoked
    outcome,    \* history: the last result it got, "none" / "ok" / "failed"
    received    \* history: chunks delivered to a streaming read

uiVars == <<table, backoff, connAlive, alive, issued, cancelled, fired,
            outcome, received>>
vars == <<workerVars, toWorker, toUi, uiVars>>

ASSUME ControlAssumption == MaxControl \in Nat

\* The calls readFileAttempt, statAttempt and readdirAttempt make, and those
\* cancelReadAsync takes.
Retried(o) == Kind[o] \in {"load", "readdir", "stat"}
Cancellable(o) == Kind[o] \in {"load", "stream"}

Init ==
    /\ LanesInit
    /\ table = {} /\ backoff = {}
    /\ connAlive = TRUE /\ alive = TRUE
    /\ issued = {} /\ cancelled = {}
    /\ fired = [o \in Ops |-> 0]
    /\ outcome = [o \in Ops |-> "none"]
    /\ received = [o \in Ops |-> 0]

-----------------------------------------------------------------------------
(* Callbacks *)

Post(m) == toWorker' = Append(toWorker, m)

\* The callbacks of calls S are invoked with one result.
Fire(S, result) ==
    /\ fired' = [o \in Ops |-> IF o \in S THEN fired[o] + 1 ELSE fired[o]]
    /\ outcome' = [o \in Ops |-> IF o \in S THEN result ELSE outcome[o]]

Unfired == UNCHANGED <<fired, outcome>>

\* The wrapped callback of readFileAttempt, statAttempt and readdirAttempt: a
\* transient failure with attempts left is retried instead of surfaced.
MayRetry(r) == Retried(r[1]) /\ r[2] < MaxRetries

-----------------------------------------------------------------------------
(* Calls *)

\* readFileAsyncTracked, readFileStreamAsync, writeFileAsync, statAsync,
\* readdirAsync, renameAsync, mkdirAsync, unlinkAsync, rmdirAsync.
Call(o) ==
    /\ alive
    /\ o \notin issued
    /\ issued' = issued \union {o}
    /\ IF connAlive
         THEN /\ table' = table \union {<<o, 0>>}
              /\ Post(Op(<<o, 0>>))
              /\ Unfired
         ELSE /\ Fire({o}, "failed")
              /\ UNCHANGED <<table, toWorker>>
    /\ UNCHANGED <<workerVars, toUi, backoff, connAlive, alive,
                   cancelled, received>>

\* The back-off timer of a retry: the same operation under a fresh reqId.
Retry(r) ==
    /\ alive /\ r \in backoff
    /\ backoff' = backoff \ {r}
    /\ IF connAlive
         THEN /\ table' = table \union {<<r[1], r[2] + 1>>}
              /\ Post(Op(<<r[1], r[2] + 1>>))
              /\ Unfired
         ELSE /\ Fire({r[1]}, "failed")
              /\ UNCHANGED <<table, toWorker>>
    /\ UNCHANGED <<workerVars, toUi, connAlive, alive, issued,
                   cancelled, received>>

\* cancelReadAsync with the reqId the call returned, that of attempt 0.
CancelRead(o) ==
    /\ alive /\ connAlive
    /\ o \in issued \ cancelled /\ Cancellable(o) /\ fired[o] = 0
    /\ cancelled' = cancelled \union {o}
    /\ table' = table \ {<<o, 0>>}
    /\ Post(Cancel(<<o, 0>>))
    /\ UNCHANGED <<workerVars, toUi, backoff, connAlive, alive,
                   issued, fired, outcome, received>>

-----------------------------------------------------------------------------
(* Relayed signals, in the order the worker emitted them *)

Deliver(m) == alive /\ toUi # <<>> /\ Head(toUi) = m /\ toUi' = Tail(toUi)

\* onReadResult, onWriteResult, onStatResult, onReaddirResult, onMutateResult.
OnResult(m) ==
    /\ m.type = "done"
    /\ Deliver(m)
    /\ table' = table \ {m.req}
    /\ IF m.req \in table /\ ~m.ok /\ m.transient /\ MayRetry(m.req)
         THEN backoff' = backoff \union {m.req} /\ Unfired
         ELSE /\ IF m.req \in table
                   THEN Fire({m.req[1]}, IF m.ok THEN "ok" ELSE "failed")
                   ELSE Unfired
              /\ UNCHANGED backoff
    /\ UNCHANGED <<workerVars, toWorker, connAlive, alive, issued,
                   cancelled, received>>

\* onStreamChunk.
OnStreamChunk(m) ==
    /\ m.type = "chunk"
    /\ Deliver(m)
    /\ received' = [o \in Ops |-> IF o = m.req[1] /\ m.req \in table
                                  THEN received[o] + 1 ELSE received[o]]
    /\ UNCHANGED <<workerVars, toWorker, table, backoff, connAlive,
                   alive, issued, cancelled, fired, outcome>>

\* A variant: the callbacks are failed and stay registered.
OnConnectionLostKeepsTables ==
    /\ Deliver(Lost)
    /\ backoff' = backoff \union {r \in table : MayRetry(r)}
    /\ Fire({r[1] : r \in {r \in table : ~MayRetry(r)}}, "failed")
    /\ UNCHANGED <<workerVars, toWorker, table, connAlive, alive, issued,
                   cancelled, received>>

\* onConnectionLost: every table is moved aside and failed.
OnConnectionLost ==
    /\ Deliver(Lost)
    /\ table' = {}
    /\ backoff' = backoff \union {r \in table : MayRetry(r)}
    /\ Fire({r[1] : r \in {r \in table : ~MayRetry(r)}}, "failed")
    /\ UNCHANGED <<workerVars, toWorker, connAlive, alive, issued, cancelled,
                   received>>

-----------------------------------------------------------------------------
(* The connection and the owners *)

\* The connect dialog, which follows the state of the connection: it connects
\* one that is down, or about to be, and disconnects one that is not.
Controls == {i \in 1 .. Len(toWorker) : toWorker[i] \in {Connect, Disconnect}}
Losses == {i \in 1 .. Len(toUi) : toUi[i] = Lost}
WillBeDown ==
    IF Controls = {} THEN state \in {"idle", "down"}
    ELSE \E i \in Controls : toWorker[i] = Disconnect /\ \A j \in Controls : j <= i

Control(m) ==
    /\ alive /\ connAlive
    /\ Cardinality(Controls) < MaxControl /\ Cardinality(Losses) < MaxControl
    /\ Post(m)
    /\ UNCHANGED <<workerVars, toUi, uiVars>>

ConnectToHost == WillBeDown /\ Control(Connect)
DisconnectFromHost == ~WillBeDown /\ Control(Disconnect)

\* ~SshConnection: the worker thread is joined, and what it still had to say is
\* removed with the object.
ConnectionDestroyed ==
    /\ connAlive
    /\ connAlive' = FALSE
    /\ state' = "down" /\ queue' = NoItems /\ inited' = NoLanes
    /\ toWorker' = <<>> /\ toUi' = <<>>
    /\ UNCHANGED <<served, table, backoff, alive, issued, cancelled, fired, outcome, received>>

\* ~RemoteFsBackend: fails what is registered; armed retry timers die with it.
BackendDestroyed ==
    /\ alive
    /\ alive' = FALSE
    /\ Fire({r[1] : r \in table}, "failed")
    /\ table' = {} /\ backoff' = {}
    /\ UNCHANGED <<workerVars, toWorker, toUi, connAlive, issued, cancelled, received>>

-----------------------------------------------------------------------------
UiStep ==
    \/ \E o \in Ops : Call(o) \/ CancelRead(o)
    \/ \E r \in Requests : Retry(r)
    \/ \E m \in Signals : OnResult(m) \/ OnStreamChunk(m)
    \/ OnConnectionLost
    \/ ConnectToHost \/ DisconnectFromHost
    \/ ConnectionDestroyed \/ BackendDestroyed

\* The worker thread's step; the UI's state is its own.
Worker(A) == connAlive /\ A /\ UNCHANGED uiVars

Next == UiStep \/ Worker(WorkerStep)

Spec == Init /\ [][Next]_vars

(***************************************************************************)
(* Fairness.  Both event loops run, armed timers fire, a connect comes to  *)
(* an end (its phases have a deadline; the user answers the host-key       *)
(* prompt) and the SFTP server answers the operation at the head of a      *)
(* lane.  Calls, cancels, losses, connects and disconnects are free.       *)
(***************************************************************************)
Deliveries == (\E m \in Signals : OnResult(m) \/ OnStreamChunk(m)) \/ OnConnectionLost

Fairness ==
    /\ WF_vars(Worker(PostedStep))
    /\ WF_vars(Worker(state = "connecting" /\ SessionStep))
    /\ \A l \in Lanes : WF_vars(Worker(LaneStep(l)))
    /\ WF_vars(Deliveries)
    /\ \A r \in Requests : WF_vars(Retry(r))

FairSpec == Spec /\ Fairness

-----------------------------------------------------------------------------
(* Properties *)

\* The type invariant.
TypeOK ==
    /\ LanesTypeOK
    /\ table \subseteq Requests /\ backoff \subseteq Requests
    /\ connAlive \in BOOLEAN /\ alive \in BOOLEAN
    /\ issued \subseteq Ops /\ cancelled \subseteq Ops
    /\ fired \in [Ops -> Nat]
    /\ outcome \in [Ops -> {"none", "ok", "failed"}]
    /\ received \in [Ops -> Nat]
    /\ served \subseteq Requests

\* "Result-delivery callbacks (invoked once, on the UI thread)"
\* (RemoteFsBackend.h): no interleaving of results, losses, retries, cancels
\* and destruction invokes a callback twice.
AtMostOnce == \A o \in Ops : fired[o] <= 1

\* A registered callback is never forgotten: while the connection exists its
\* request is posted, queued on a lane, or its result is on the way back
\* (enqueueSftpOp, failAllSftp and every exit of advanceSftpOp answer).
PendingTracked == connAlive => \A r \in table : InTransit(r)

\* fail-no-replay: what the worker began or answered never waits for it again,
\* whatever resets of a lane, losses, disconnects and new sessions come between;
\* and of a mutating call or a streaming read there is no second attempt.  So
\* nothing the server may already have done is asked of it again.
ServedOnce ==
    \A r \in served :
        /\ ~Waiting(r)
        /\ Kind[r[1]] \in {"write", "mutate", "stream"} => r[2] = 0

\* A streaming read that reports success has delivered every chunk before.
StreamWhole ==
    \A o \in Ops : Kind[o] = "stream" /\ outcome[o] = "ok" => received[o] = FileChunks

\* The backend keeps the promise of AsyncCalls: one answer per call, none before
\* it, none after a cancel unless the call may be retried.
Contract == INSTANCE AsyncCalls WITH
    Calls <- Ops, BestEffort <- {o \in Ops : Retried(o)},
    called <- issued, answers <- fired
KeepsContract == Contract!Spec

\* Every call that is not cancelled is answered, unless the objects go away or
\* nobody ever connects.
Answered ==
    \A o \in Ops : o \in issued
        ~> (fired[o] > 0 \/ o \in cancelled \/ ~alive \/ ~connAlive \/ state = "idle")

\* "Remove the pending callback so a late sftpReadDone ... is silently discarded
\* rather than firing after the timeout" (cancelReadAsync): a cancelled read
\* does not invoke its callback.  It fails for a read that was retried.
CancelSilent == [][\A o \in cancelled : alive' => fired'[o] = fired[o]]_vars

\* "Any remaining ops in the bulk queue can now proceed once the new session is
\* established" (requestSftpCancelBulk): no queued operation is left with a
\* handle of the session that was shut down.  It fails for two operations on
\* the bulk lane, of which the one behind is cancelled.
RemainingProceed ==
    \A l \in Lanes : \A i \in 1 .. Len(queue[l]) : queue[l][i].phase # "stale"
=============================================================================
