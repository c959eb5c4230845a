------------------------------ MODULE SftpLanes ------------------------------
(***************************************************************************)
(* The SFTP engine of SshSessionWorker (src/src/remote): two lanes, each a *)
(* FIFO of operations multiplexed on one SSH session.  The worker runs on  *)
(* a thread of its own; SshConnection posts requests to it and relays its  *)
(* signals back, both through Qt's queued, FIFO connections.               *)
(*                                                                         *)
(* A request is <<call, attempt>>: it stands for the fresh reqId that      *)
(* RemoteFsBackend mints for every attempt.                                *)
(***************************************************************************)
EXTENDS Integers, SequencesExt

CONSTANTS
    Ops,         \* the calls the application makes, each at most once
    Kind,        \* what each call does
    MaxRetries,  \* kMaxRetries of RemoteFsBackend
    FileChunks   \* chunks of the file a streaming read delivers

Kinds == {"load", "stream", "write", "readdir", "stat", "mutate"}

ASSUME KindAssumption == Kind \in [Ops -> Kinds]
ASSUME LimitAssumption == MaxRetries \in Nat \ {0} /\ FileChunks \in Nat

VARIABLES
    state,     \* "idle", "connecting", "ready" or "down" (lost, disconnected)
    queue,     \* m_sftpBulkQueue and m_sftpMetaQueue
    inited,    \* m_sftpBulkInited and m_sftpMetaInited
    toWorker,  \* requests posted to the worker and not yet taken
    toUi,      \* results relayed to the UI thread and not yet delivered
    served     \* history: requests the worker began (their handle is open for the
               \* transfer, or their one request is out) or answered

workerVars == <<state, queue, inited, served>>

Lanes == {"bulk", "meta"}

\* laneForKind.
laneForKind(r) == IF Kind[r[1]] \in {"load", "stream", "write"} THEN "bulk" ELSE "meta"

\* Kinds that open a handle first; the others are one request, one reply.
HasHandle(r) == Kind[r[1]] \in {"load", "stream", "write", "readdir"}

Requests == Ops \X (0 .. MaxRetries)

\* A queued operation: where it stands and the chunks it has sent.  "transfer":
\* its handle is open, or its one request is out.  A "stale" handle belonged to
\* an SFTP session that is gone.
Item == [req : Requests, phase : {"open", "transfer", "stale"}, sent : 0 .. FileChunks]
NewItem(r) == [req |-> r, phase |-> "open", sent |-> 0]

\* Posts and signals.  `transient` is isTransientError of the reason given.
Op(r)         == [type |-> "op", req |-> r]
Cancel(r)     == [type |-> "cancel", req |-> r]
Connect       == [type |-> "connect"]
Disconnect    == [type |-> "disconnect"]
Done(r)       == [type |-> "done", req |-> r, ok |-> TRUE, transient |-> FALSE]
Failed(r, tr) == [type |-> "done", req |-> r, ok |-> FALSE, transient |-> tr]
Chunk(r)      == [type |-> "chunk", req |-> r]
Lost          == [type |-> "lost"]

Posts   == {Connect, Disconnect} \union {Op(r) : r \in Requests}
             \union {Cancel(r) : r \in Requests}
Signals == {Lost} \union {Done(r) : r \in Requests} \union {Chunk(r) : r \in Requests}
             \union {Failed(r, tr) : r \in Requests, tr \in BOOLEAN}

\* failAllSftp: a failure for every operation, bulk lane first.
FailItems(items, tr) == [i \in 1 .. Len(items) |-> Failed(items[i].req, tr)]
\* (A variant forgets the metadata lane.)
FailBulkOnly(tr) == FailItems(queue["bulk"], tr)
failAllSftp(tr) == FailItems(queue["bulk"], tr) \o FailItems(queue["meta"], tr)

\* What failAllSftp answers.
QueuedRequests == {r \in Requests : \E l \in Lanes : \E i \in 1 .. Len(queue[l]) : queue[l][i].req = r}

NoItems == [l \in Lanes |-> <<>>]
NoLanes == [l \in Lanes |-> FALSE]

LanesInit ==
    /\ state \in {"idle", "connecting", "ready"}
    /\ queue = NoItems
    /\ inited = NoLanes
    /\ toWorker = <<>>
    /\ toUi = <<>>
    /\ served = {}

-----------------------------------------------------------------------------
(* Posted requests, in the order they were posted *)

Take(m) == toWorker # <<>> /\ Head(toWorker) = m /\ toWorker' = Tail(toWorker)

\* enqueueSftpOp.
enqueueSftpOp(r) ==
    /\ Take(Op(r))
    /\ \/ /\ state = "down"
          /\ toUi' = Append(toUi, Failed(r, TRUE))
          /\ served' = served \union {r}
          /\ UNCHANGED queue
       \/ /\ state # "down"
          /\ queue' = [queue EXCEPT ![laneForKind(r)] = Append(@, NewItem(r))]
          /\ UNCHANGED <<toUi, served>>
    /\ UNCHANGED <<state, inited>>

\* What the reinitialised bulk lane makes of the handles it had open.
Orphaned(item) == IF item.phase = "transfer" THEN [item EXCEPT !.phase = "stale"] ELSE item

\* requestSftpCancelBulk: the operation is taken out wherever it stands and the
\* whole bulk session is shut down; a no-op when it is not queued.
requestSftpCancelBulk(r) ==
    /\ Take(Cancel(r))
    /\ LET bulk == queue["bulk"]
       IN  \/ /\ \A i \in 1 .. Len(bulk) : bulk[i].req # r
              /\ UNCHANGED <<queue, inited, toUi, served>>
           \/ \E i \in 1 .. Len(bulk) :
                 /\ bulk[i].req = r
                 /\ queue' = [queue EXCEPT !["bulk"] =
                       [j \in 1 .. Len(bulk) - 1 |->
                           Orphaned(bulk[IF j < i THEN j ELSE j + 1])]]
                 /\ inited' = [inited EXCEPT !["bulk"] = FALSE]
                 /\ toUi' = Append(toUi, Failed(r, FALSE))
                 /\ served' = served \union {r}
    /\ UNCHANGED state

\* startConnect.
startConnect ==
    /\ Take(Connect)
    /\ state' = "connecting"
    /\ inited' = NoLanes
    /\ UNCHANGED <<queue, toUi, served>>

\* A variant: the queues are cleared, their operations not failed.
requestDisconnectSilent ==
    /\ Take(Disconnect)
    /\ state' = "down"
    /\ queue' = NoItems
    /\ inited' = NoLanes
    /\ UNCHANGED <<toUi, served>>

\* A variant: the metadata lane is kept for the next session to serve anew.
requestDisconnectKeepsMeta ==
    /\ Take(Disconnect)
    /\ state' = "down"
    /\ queue' = [NoItems EXCEPT !["meta"] =
                   [i \in 1 .. Len(queue["meta"]) |-> NewItem(queue["meta"][i].req)]]
    /\ inited' = NoLanes
    /\ toUi' = toUi \o FailItems(queue["bulk"], TRUE)
    /\ served' = served \union QueuedRequests

\* requestDisconnect: fails what is queued, and does not report the loss.
requestDisconnect ==
    /\ Take(Disconnect)
    /\ state' = "down"
    /\ queue' = NoItems
    /\ inited' = NoLanes
    /\ toUi' = toUi \o failAllSftp(TRUE)
    /\ served' = served \union QueuedRequests

-----------------------------------------------------------------------------
(* The session *)

\* The last step of the connect pump: authenticated.
Connected ==
    /\ state = "connecting"
    /\ state' = "ready"
    /\ UNCHANGED <<queue, inited, toWorker, toUi, served>>

\* enterConnectionLost.  Its reasons for a session that was up are transient;
\* those of a failed connect ("Host key rejected", ...) need not be.
enterConnectionLost(tr) ==
    /\ state = "connecting" \/ (state = "ready" /\ tr)
    /\ state' = "down"
    /\ queue' = NoItems
    /\ inited' = NoLanes
    /\ toUi' = Append(toUi \o failAllSftp(tr), Lost)
    /\ served' = served \union QueuedRequests
    /\ UNCHANGED toWorker

-----------------------------------------------------------------------------
(* serviceSftpLane: one turn of its loop, on the operation at the head.  A *)
(* turn that would block (Again) changes nothing and is no step here.      *)

Servicing(l) == state = "ready" /\ queue[l] # <<>>
HeadOf(l) == Head(queue[l])
Finish(l, result) ==
    /\ queue' = [queue EXCEPT ![l] = Tail(@)]
    /\ toUi' = Append(toUi, result)
    /\ served' = served \union {HeadOf(l).req}
Advance(l, item) == queue' = [queue EXCEPT ![l] = <<item>> \o Tail(@)]

\* ensureSftpLaneInited: the session opens, or its failure fails the head.
LaneInited(l) ==
    /\ Servicing(l) /\ ~inited[l]
    /\ inited' = [inited EXCEPT ![l] = TRUE]
    /\ UNCHANGED <<state, queue, toWorker, toUi, served>>

LaneInitFailed(l) ==
    /\ Servicing(l) /\ ~inited[l]
    /\ Finish(l, Failed(HeadOf(l).req, TRUE))
    /\ UNCHANGED <<state, inited, toWorker>>

\* advanceSftpOp: the handle is open and the transfer begins, or the one request
\* of a stat, rename, mkdir, unlink or rmdir is out.
OperationBegun(l) ==
    /\ Servicing(l) /\ inited[l]
    /\ HeadOf(l).phase = "open"
    /\ Advance(l, [HeadOf(l) EXCEPT !.phase = "transfer"])
    /\ served' = served \union {HeadOf(l).req}
    /\ UNCHANGED <<state, inited, toWorker, toUi>>

\* A refused open, a failed transfer, a transfer on a handle that is gone, a
\* rename or mkdir the server refuses.  stat answers a failure with "absent".
OperationFailed(l) ==
    /\ Servicing(l) /\ inited[l]
    /\ Kind[HeadOf(l).req[1]] # "stat"
    /\ HasHandle(HeadOf(l).req) \/ HeadOf(l).phase = "transfer"
    /\ Finish(l, Failed(HeadOf(l).req, FALSE))
    /\ UNCHANGED <<state, inited, toWorker>>

\* A streaming read hands over one chunk.
ChunkSent(l) ==
    /\ Servicing(l) /\ inited[l]
    /\ Kind[HeadOf(l).req[1]] = "stream" /\ HeadOf(l).phase = "transfer"
    /\ HeadOf(l).sent < FileChunks
    /\ Advance(l, [HeadOf(l) EXCEPT !.sent = @ + 1])
    /\ toUi' = Append(toUi, Chunk(HeadOf(l).req))
    /\ UNCHANGED <<state, inited, toWorker, served>>

\* A variant: a read that would block is taken for the end of the file.
OperationDoneEarly(l) ==
    /\ Servicing(l) /\ inited[l]
    /\ HeadOf(l).phase = "transfer"
    /\ Finish(l, Done(HeadOf(l).req))
    /\ UNCHANGED <<state, inited, toWorker>>

\* End of file, everything written, or the one reply.
OperationDone(l) ==
    /\ Servicing(l) /\ inited[l]
    /\ HeadOf(l).phase = "transfer"
    /\ Kind[HeadOf(l).req[1]] = "stream" => HeadOf(l).sent = FileChunks
    /\ Finish(l, Done(HeadOf(l).req))
    /\ UNCHANGED <<state, inited, toWorker>>

LaneStep(l) ==
    \/ LaneInited(l) \/ LaneInitFailed(l)
    \/ OperationBegun(l) \/ OperationFailed(l)
    \/ ChunkSent(l) \/ OperationDone(l)

PostedStep ==
    \/ \E r \in Requests : enqueueSftpOp(r) \/ requestSftpCancelBulk(r)
    \/ startConnect \/ requestDisconnect

SessionStep == Connected \/ \E tr \in BOOLEAN : enterConnectionLost(tr)

WorkerStep == PostedStep \/ SessionStep \/ \E l \in Lanes : LaneStep(l)

\* Where a request can be: posted, queued on its lane, or answered.
Posted(r)  == Op(r) \in ToSet(toWorker)
Queued(r)  == \E item \in ToSet(queue[laneForKind(r)]) : item.req = r
Replied(r) == \E m \in ToSet(toUi) : m.type = "done" /\ m.req = r
Waiting(r) ==
    \/ Posted(r)
    \/ \E item \in ToSet(queue[laneForKind(r)]) : item.req = r /\ item.phase = "open"
InTransit(r) == Posted(r) \/ Queued(r) \/ Replied(r)

\* The type invariant of the worker and its two queues.
LanesTypeOK ==
    /\ state \in {"idle", "connecting", "ready", "down"}
    /\ queue \in [Lanes -> Seq(Item)]
    /\ inited \in [Lanes -> BOOLEAN]
    /\ toWorker \in Seq(Posts)
    /\ toUi \in Seq(Signals)
=============================================================================
