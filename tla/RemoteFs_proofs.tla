--------------------------- MODULE RemoteFs_proofs ---------------------------
(* Proofs about RemoteFs: the callback of a call is invoked at most once, no  *)
(* request the worker served waits for it again, no registered callback is    *)
(* forgotten, a streaming read that succeeds is whole, and the backend        *)
(* implements AsyncCalls.                                                     *)
EXTENDS RemoteFs, SftpLanes_proofs

\* Requests whose callback is still owed: registered, or waiting to be retried.
Owed == table \union backoff

\* The variables of the UI thread have their types.
UiTypeOK ==
    /\ table \subseteq Requests /\ backoff \subseteq Requests
    /\ issued \subseteq Ops /\ cancelled \subseteq Ops
    /\ fired \in [Ops -> Nat]

\* One call, at most one live attempt; a live attempt, no answer yet.
OneAttempt ==
    /\ table \cap backoff = {}
    /\ \A r, s \in Owed : r[1] = s[1] => r = s
    /\ \A r \in Owed : r[1] \in issued /\ fired[r[1]] = 0
    /\ \A r \in Owed : r[2] > 0 => Retried(r[1])
    /\ \A r \in backoff : MayRetry(r)
    /\ \A r \in table : r[1] \in cancelled => Retried(r[1])

\* The inductive invariant.
CallInv ==
    /\ UiTypeOK
    /\ OneAttempt
    /\ AtMostOnce
    /\ cancelled \subseteq issued
    /\ \A o \in Ops : fired[o] > 0 => o \in issued

-----------------------------------------------------------------------------
\* A request is a call and an attempt; attempt 0 of every call is one.
LEMMA RequestParts ==
    /\ \A r \in Requests : r = <<r[1], r[2]>> /\ r[1] \in Ops /\ r[2] \in 0 .. MaxRetries
    /\ \A o \in Ops : <<o, 0>> \in Requests
    /\ \A r \in Requests : r[2] < MaxRetries => <<r[1], r[2] + 1>> \in Requests
  BY LimitAssumption DEF Requests

\* Firing the callbacks of S counts one more for each, and nothing for others.
LEMMA FireCounts ==
    ASSUME UiTypeOK, NEW S, NEW result, Fire(S, result)
    PROVE  /\ fired' \in [Ops -> Nat]
           /\ \A o \in Ops : fired'[o] = IF o \in S THEN fired[o] + 1 ELSE fired[o]
  BY DEF Fire, UiTypeOK

\* Nothing is owed initially.
LEMMA InitCallInv == Init => CallInv
  BY DEF Init, CallInv, UiTypeOK, OneAttempt, AtMostOnce, Owed

-----------------------------------------------------------------------------
\* A call registers its attempt 0, or is refused on the spot.
LEMMA CallKeeps == ASSUME CallInv, NEW o \in Ops, Call(o) PROVE CallInv'
<1> USE DEF CallInv, UiTypeOK, OneAttempt, AtMostOnce, Owed
<1>1. fired[o] = 0 /\ \A r \in Owed : r[1] # o
  BY DEF Call
<1>2. CASE connAlive
  <2>1. table' = table \union {<<o, 0>>} /\ UNCHANGED <<backoff, fired, cancelled>>
    BY <1>2 DEF Call, Unfired
  <2>2. issued' = issued \union {o} /\ o \notin issued
    BY DEF Call
  <2>3. UiTypeOK'
    BY <2>1, <2>2, RequestParts
  <2>4. OneAttempt'
    BY <1>1, <2>1, <2>2, RequestParts DEF MayRetry
  <2> QED
    BY <2>1, <2>2, <2>3, <2>4
<1>3. CASE ~connAlive
  <2>1. UNCHANGED <<table, backoff, cancelled>> /\ issued' = issued \union {o}
    BY <1>3 DEF Call
  <2>2. /\ fired' \in [Ops -> Nat]
        /\ \A c \in Ops : fired'[c] = IF c = o THEN fired[c] + 1 ELSE fired[c]
    BY <1>3, FireCounts DEF Call
  <2>3. OneAttempt'
    BY <1>1, <2>1, <2>2, RequestParts DEF MayRetry
  <2> QED
    BY <1>1, <2>1, <2>2, <2>3
<1> QED
  BY <1>2, <1>3

\* A retry moves the attempt on, or answers the call.
LEMMA RetryKeeps == ASSUME CallInv, NEW r \in Requests, Retry(r) PROVE CallInv'
<1> USE DEF CallInv, UiTypeOK, OneAttempt, AtMostOnce, Owed
<1>1. /\ r \in backoff /\ backoff' = backoff \ {r}
      /\ UNCHANGED <<issued, cancelled>>
      /\ r[1] \in issued /\ fired[r[1]] = 0 /\ Retried(r[1]) /\ r[2] < MaxRetries
  BY DEF Retry, MayRetry
<1>2. \A s \in Owed \ {r} : s[1] # r[1]
  BY <1>1
<1>3. CASE connAlive
  <2>1. table' = table \union {<<r[1], r[2] + 1>>} /\ UNCHANGED fired
    BY <1>3 DEF Retry, Unfired
  <2>2. UiTypeOK'
    BY <1>1, <2>1, RequestParts
  <2>3. OneAttempt'
    BY <1>1, <1>2, <2>1, RequestParts DEF MayRetry
  <2> QED
    BY <1>1, <2>1, <2>2, <2>3
<1>4. CASE ~connAlive
  <2>1. UNCHANGED table
    BY <1>4 DEF Retry
  <2>2. /\ fired' \in [Ops -> Nat]
        /\ \A c \in Ops : fired'[c] = IF c = r[1] THEN fired[c] + 1 ELSE fired[c]
    BY <1>4, FireCounts DEF Retry
  <2>3. OneAttempt'
    BY <1>1, <1>2, <2>1, <2>2, RequestParts DEF MayRetry
  <2> QED
    BY <1>1, <2>1, <2>2, <2>3, RequestParts
<1> QED
  BY <1>3, <1>4

\* Results, losses and destruction answer calls: the requests in S leave the
\* tables and are answered, those in R wait for a retry, the rest stays.
LEMMA AnswerKeeps ==
    ASSUME CallInv, NEW S, NEW R, NEW result,
           S \subseteq table, R \subseteq table, S \cap R = {},
           table' \subseteq table \ (S \union R),
           backoff' \subseteq backoff \union R,
           \A r \in R : MayRetry(r),
           Fire({r[1] : r \in S}, result),
           UNCHANGED <<issued, cancelled>>
    PROVE  CallInv'
<1> USE DEF CallInv, UiTypeOK, AtMostOnce, Owed
<1>1. /\ fired' \in [Ops -> Nat]
      /\ \A o \in Ops : fired'[o] = IF o \in {r[1] : r \in S} THEN fired[o] + 1 ELSE fired[o]
  BY FireCounts
<1>2. UiTypeOK'
  BY <1>1
<1>3. Owed' \subseteq Owed \ S
  BY DEF OneAttempt
<1>4. \A r \in Owed' : r[1] \notin {s[1] : s \in S}
  BY <1>3 DEF OneAttempt
<1>5. OneAttempt'
  BY <1>1, <1>3, <1>4, RequestParts DEF OneAttempt, MayRetry
<1>6. \A o \in Ops : o \in {r[1] : r \in S} => fired[o] = 0 /\ o \in issued
  BY DEF OneAttempt
<1> QED
  BY <1>1, <1>2, <1>5, <1>6

\* A result from the worker answers the call, arms a retry, or is not ours.
LEMMA ResultKeeps == ASSUME CallInv, NEW m \in Signals, OnResult(m) PROVE CallInv'
<1>1. UNCHANGED <<issued, cancelled>> /\ table' = table \ {m.req}
  BY DEF OnResult
<1>2. CASE m.req \in table /\ ~m.ok /\ m.transient /\ MayRetry(m.req)
  <2>1. backoff' = backoff \union {m.req} /\ UNCHANGED <<fired, outcome>>
    BY <1>2 DEF OnResult, Unfired
  <2>2. Fire({r[1] : r \in {}}, "failed") \/ UNCHANGED fired
    BY <2>1
  <2> QED
    BY <1>1, <1>2, <2>1, RequestParts
       DEF CallInv, UiTypeOK, AtMostOnce, Owed, OneAttempt, MayRetry
<1>3. CASE m.req \in table /\ ~(~m.ok /\ m.transient /\ MayRetry(m.req))
  <2>1. UNCHANGED backoff
    BY <1>3 DEF OnResult
  <2>2. Fire({m.req[1]}, IF m.ok THEN "ok" ELSE "failed")
    BY <1>3 DEF OnResult
  <2> DEFINE S == {m.req}
  <2>3. {r[1] : r \in S} = {m.req[1]}
    OBVIOUS
  <2>4. /\ S \subseteq table /\ {} \subseteq table /\ S \cap {} = {}
        /\ table' \subseteq table \ (S \union {})
        /\ backoff' \subseteq backoff \union {}
        /\ \A r \in {} : MayRetry(r)
    BY <1>1, <1>3, <2>1
  <2> HIDE DEF S
  <2> QED
    BY <1>1, <2>2, <2>3, <2>4, AnswerKeeps
<1>4. CASE m.req \notin table
  BY <1>1, <1>4 DEF OnResult, Unfired, CallInv, UiTypeOK, AtMostOnce, Owed,
     OneAttempt, MayRetry
<1> QED
  BY <1>2, <1>3, <1>4

\* A lost connection answers every call it does not retry.
LEMMA LossKeeps == ASSUME CallInv, OnConnectionLost PROVE CallInv'
<1> DEFINE S == {r \in table : ~MayRetry(r)}
           R == {r \in table : MayRetry(r)}
<1>1. /\ table' = {} /\ backoff' = backoff \union R
      /\ Fire({r[1] : r \in S}, "failed") /\ UNCHANGED <<issued, cancelled>>
  BY DEF OnConnectionLost
<1>2. S \subseteq table /\ R \subseteq table /\ S \cap R = {} /\ \A r \in R : MayRetry(r)
  OBVIOUS
<1> HIDE DEF S, R
<1> QED
  BY <1>1, <1>2, AnswerKeeps

\* Destruction answers what is registered and retries nothing.
LEMMA DestroyKeeps == ASSUME CallInv, BackendDestroyed PROVE CallInv'
<1>1. /\ table' = {} /\ backoff' = {}
      /\ Fire({r[1] : r \in table}, "failed") /\ UNCHANGED <<issued, cancelled>>
  BY DEF BackendDestroyed
<1> QED
  BY <1>1, AnswerKeeps, {} \subseteq table, table \cap {} = {}

\* A cancelled call that is never retried has no entry left.
LEMMA CancelKeeps == ASSUME CallInv, NEW o \in Ops, CancelRead(o) PROVE CallInv'
<1> USE DEF CallInv, UiTypeOK, OneAttempt, AtMostOnce, Owed
<1>1. /\ table' = table \ {<<o, 0>>} /\ cancelled' = cancelled \union {o}
      /\ UNCHANGED <<backoff, issued, fired>> /\ o \in issued
  BY DEF CancelRead
<1>2. \A r \in table' : r[1] = o => Retried(o)
  <2> SUFFICES ASSUME NEW r \in table', r[1] = o, ~Retried(o) PROVE FALSE
    OBVIOUS
  <2>1. r \in table /\ r # <<o, 0>> /\ r \in Requests
    BY <1>1
  <2>2. r[2] = 0
    BY <2>1, RequestParts
  <2> QED
    BY <2>1, <2>2, RequestParts
<1> QED
  BY <1>1, <1>2

-----------------------------------------------------------------------------
\* Every step preserves the invariant; those of the worker do not touch it.
LEMMA NextCallInv == CallInv /\ [Next]_vars => CallInv'
<1> SUFFICES ASSUME CallInv, [Next]_vars PROVE CallInv'
  OBVIOUS
<1>1. ASSUME UNCHANGED <<table, backoff, issued, cancelled, fired>> PROVE CallInv'
  BY <1>1 DEF CallInv, UiTypeOK, OneAttempt, AtMostOnce, Owed, MayRetry
<1>2. CASE UiStep
  <2>1. CASE \E o \in Ops : Call(o) \/ CancelRead(o)
    BY <2>1, CallKeeps, CancelKeeps
  <2>2. CASE \E r \in Requests : Retry(r)
    BY <2>2, RetryKeeps
  <2>3. CASE \E m \in Signals : OnResult(m)
    BY <2>3, ResultKeeps
  <2>4. CASE \E m \in Signals : OnStreamChunk(m)
    BY <1>1, <2>4 DEF OnStreamChunk
  <2>5. CASE OnConnectionLost \/ BackendDestroyed
    BY <2>5, LossKeeps, DestroyKeeps
  <2>6. CASE ConnectToHost \/ DisconnectFromHost
    BY <1>1, <2>6 DEF ConnectToHost, DisconnectFromHost, Control, uiVars
  <2>7. CASE ConnectionDestroyed
    BY <1>1, <2>7 DEF ConnectionDestroyed
  <2> QED
    BY <1>2, <2>1, <2>2, <2>3, <2>4, <2>5, <2>6, <2>7 DEF UiStep
<1>3. CASE Worker(WorkerStep)
  BY <1>1, <1>3 DEF Worker, uiVars
<1>4. CASE UNCHANGED vars
  BY <1>1, <1>4 DEF vars, uiVars
<1> QED
  BY <1>2, <1>3, <1>4 DEF Next

\* CallInv is an invariant.
THEOREM CallInvariance == Spec => []CallInv
  BY InitCallInv, NextCallInv, PTL DEF Spec

\* However results, losses, retries, cancels, reconnects and destruction
\* interleave, no callback is invoked twice.
THEOREM InvokedOnce == Spec => []AtMostOnce
<1>1. CallInv => AtMostOnce
  BY DEF CallInv
<1> QED
  BY <1>1, CallInvariance, PTL

-----------------------------------------------------------------------------
(* No registered callback is forgotten *)

\* The inductive invariant of the composition.
SystemInv == CallInv /\ TypeOK /\ PendingTracked

\* What a step of the UI thread leaves in transit.
LEMMA PostKeeps ==
    ASSUME LanesTypeOK, NEW m \in Posts, Post(m), UNCHANGED <<workerVars, toUi>>
    PROVE  LanesTypeOK' /\ Keeps /\ m \in ToSet(toWorker')
<1>1. UNCHANGED <<state, queue, inited>>
  BY DEF workerVars
<1>2. toWorker' \in Seq(Posts) /\ ToSet(toWorker') = ToSet(toWorker) \union {m}
  BY AppendContents DEF LanesTypeOK, Post
<1>3. \A r \in Requests : Posted(r) => Posted(r)'
  BY <1>2 DEF Posted
<1> QED
  BY <1>1, <1>2, <1>3, SameKeeps DEF LanesTypeOK

\* A delivered result is the only thing that stops being in transit.
LEMMA DeliverKeeps ==
    ASSUME LanesTypeOK, NEW m, Deliver(m), UNCHANGED <<workerVars, toWorker>>
    PROVE  /\ LanesTypeOK'
           /\ \A r \in Requests :
                 InTransit(r) => InTransit(r)' \/ (m.type = "done" /\ m.req = r)
<1>1. UNCHANGED <<state, queue, inited, toWorker>>
  BY DEF workerVars
<1>2. toUi' \in Seq(Signals) /\ ToSet(toUi) = {m} \union ToSet(toUi')
  BY TailContents DEF LanesTypeOK, Deliver
<1>3. \A r \in Requests :
         /\ Posted(r) => Posted(r)'
         /\ Queued(r) => Queued(r)'
         /\ Replied(r) => Replied(r)' \/ (m.type = "done" /\ m.req = r)
  BY <1>1, <1>2 DEF Posted, Queued, Replied
<1> QED
  BY <1>1, <1>2, <1>3 DEF InTransit, LanesTypeOK

\* Nothing is registered, posted or queued initially.
LEMMA InitSystemInv == Init => SystemInv
<1> SUFFICES ASSUME Init PROVE SystemInv
  OBVIOUS
<1>1. LanesTypeOK
  BY EmptySeq DEF Init, LanesInit, LanesTypeOK, NoItems, NoLanes
<1>2. TypeOK /\ PendingTracked
  BY <1>1 DEF Init, LanesInit, TypeOK, PendingTracked
<1> QED
  BY <1>2, InitCallInv DEF SystemInv

\* The invariant, given what the step does to requests in transit.
LEMMA TrackedFrom ==
    ASSUME PendingTracked, TypeOK, connAlive' => connAlive,
           \A r \in table' : connAlive' => \/ InTransit(r)'
                                           \/ r \in table /\ (InTransit(r) => InTransit(r)')
    PROVE  PendingTracked'
  BY DEF PendingTracked

\* The history variables keep their types when callbacks fire.
LEMMA FireTypes ==
    ASSUME TypeOK, NEW S, NEW result \in {"ok", "failed"}, Fire(S, result) \/ Unfired
    PROVE  fired' \in [Ops -> Nat] /\ outcome' \in [Ops -> {"none", "ok", "failed"}]
  BY DEF TypeOK, Fire, Unfired

\* A call and a retry register the request they post.
LEMMA IssueSystem ==
    ASSUME SystemInv, NEW o \in Ops, NEW r \in Requests, Call(o) \/ Retry(r)
    PROVE  TypeOK' /\ PendingTracked'
<1>1. PICK s \in Requests, d \in Ops :
        \/ connAlive /\ table' = table \union {s} /\ Post(Op(s)) /\ Unfired
        \/ ~connAlive /\ Fire({d}, "failed") /\ UNCHANGED <<table, toWorker>>
  <2>1. CASE Call(o)
    BY <2>1, RequestParts DEF Call
  <2>2. CASE Retry(r)
    BY <2>2, RequestParts DEF SystemInv, CallInv, OneAttempt, Retry, MayRetry
  <2> QED
    BY <2>1, <2>2
<1>2. /\ UNCHANGED <<workerVars, toUi, connAlive, alive, cancelled, received>>
      /\ issued' \subseteq issued \union {o} /\ backoff' \subseteq backoff
  BY DEF Call, Retry
<1>4. fired' \in [Ops -> Nat] /\ outcome' \in [Ops -> {"none", "ok", "failed"}]
  BY <1>1, FireTypes DEF SystemInv
<1>5. LanesTypeOK /\ PendingTracked /\ TypeOK
  BY DEF SystemInv, TypeOK
<1>6. CASE connAlive
  <2>1. Op(s) \in Posts /\ Post(Op(s)) /\ table' = table \union {s}
    BY <1>1, <1>6, MessageTypes
  <2>2. LanesTypeOK' /\ Keeps /\ Op(s) \in ToSet(toWorker')
    BY <1>2, <1>5, <2>1, PostKeeps
  <2>3. InTransit(s)'
    BY <2>2 DEF InTransit, Posted
  <2>4. TypeOK'
    BY <1>1, <1>2, <1>4, <1>5, <2>1, <2>2 DEF TypeOK, workerVars
  <2>5. \A q \in table' : InTransit(q)' \/ (q \in table /\ (InTransit(q) => InTransit(q)'))
    BY <1>5, <2>1, <2>2, <2>3 DEF Keeps, TypeOK
  <2> QED
    BY <1>2, <1>5, <2>4, <2>5, TrackedFrom
<1>7. CASE ~connAlive
  <2>1. UNCHANGED <<table, toWorker>>
    BY <1>1, <1>7
  <2> QED
    BY <1>2, <1>4, <1>5, <1>7, <2>1 DEF TypeOK, PendingTracked, LanesTypeOK, workerVars
<1> QED
  BY <1>6, <1>7

\* A cancel unregisters, and posts.
LEMMA CancelSystem ==
    ASSUME SystemInv, NEW o \in Ops, CancelRead(o)
    PROVE  TypeOK' /\ PendingTracked'
<1>1. <<o, 0>> \in Requests
  BY RequestParts
<1>2. PICK m \in Posts : Post(m)
  BY <1>1 DEF CancelRead, Posts
<1>3. /\ UNCHANGED <<workerVars, toUi, backoff, connAlive, alive, issued, fired, outcome, received>>
      /\ table' \subseteq table /\ cancelled' \subseteq cancelled \union {o}
  BY DEF CancelRead
<1>4. LanesTypeOK /\ PendingTracked /\ TypeOK
  BY DEF SystemInv, TypeOK
<1>5. LanesTypeOK' /\ Keeps
  BY <1>2, <1>3, <1>4, PostKeeps
<1>6. TypeOK'
  BY <1>3, <1>4, <1>5 DEF TypeOK, workerVars
<1> QED
  BY <1>3, <1>4, <1>5, <1>6, TrackedFrom DEF Keeps, TypeOK

\* A delivered signal unregisters the request it answers, or loses none.
LEMMA DeliverSystem ==
    ASSUME SystemInv, NEW m \in Signals, OnResult(m) \/ OnStreamChunk(m) \/ OnConnectionLost
    PROVE  TypeOK' /\ PendingTracked'
<1>1. LanesTypeOK /\ PendingTracked /\ TypeOK /\ \A q \in table : q[1] \in Ops
  BY RequestParts DEF SystemInv, TypeOK
<1>2. CASE OnResult(m)
  <2>1. /\ UNCHANGED <<workerVars, toWorker, connAlive, alive, issued, cancelled, received>>
        /\ Deliver(m) /\ m.type = "done" /\ table' = table \ {m.req}
        /\ backoff' \subseteq backoff \union table
    BY <1>2 DEF OnResult
  <2>2. fired' \in [Ops -> Nat] /\ outcome' \in [Ops -> {"none", "ok", "failed"}]
    BY <1>1, <1>2, FireTypes DEF OnResult
  <2>3. /\ LanesTypeOK'
        /\ \A r \in Requests :
              InTransit(r) => InTransit(r)' \/ (m.type = "done" /\ m.req = r)
    BY <1>1, <2>1, DeliverKeeps
  <2>4. TypeOK'
    BY <1>1, <2>1, <2>2, <2>3 DEF TypeOK, workerVars
  <2> QED
    BY <1>1, <2>1, <2>3, <2>4, TrackedFrom DEF TypeOK
<1>3. CASE OnStreamChunk(m)
  <2>1. /\ UNCHANGED <<workerVars, toWorker, table, backoff, connAlive, alive, issued,
                       cancelled, fired, outcome>>
        /\ Deliver(m) /\ m.type # "done"
    BY <1>3 DEF OnStreamChunk
  <2>2. received' \in [Ops -> Nat]
    BY <1>1, <1>3 DEF OnStreamChunk, TypeOK
  <2>3. LanesTypeOK' /\ \A r \in Requests : InTransit(r) => InTransit(r)'
    BY <1>1, <2>1, DeliverKeeps
  <2>4. TypeOK'
    BY <1>1, <2>1, <2>2, <2>3 DEF TypeOK, workerVars
  <2> QED
    BY <1>1, <2>1, <2>3, <2>4, TrackedFrom DEF TypeOK
<1>4. CASE OnConnectionLost
  <2>1. /\ UNCHANGED <<workerVars, toWorker, connAlive, alive, issued, cancelled, received>>
        /\ Deliver(Lost) /\ table' = {} /\ backoff' \subseteq backoff \union table
    BY <1>4 DEF OnConnectionLost
  <2>2. fired' \in [Ops -> Nat] /\ outcome' \in [Ops -> {"none", "ok", "failed"}]
    BY <1>1, <1>4, FireTypes DEF OnConnectionLost
  <2>3. LanesTypeOK'
    BY <1>1, <2>1, DeliverKeeps
  <2> QED
    BY <1>1, <2>1, <2>2, <2>3 DEF TypeOK, workerVars, PendingTracked
<1> QED
  BY <1>2, <1>3, <1>4

\* The destructors.
LEMMA DestroySystem ==
    ASSUME SystemInv, ConnectionDestroyed \/ BackendDestroyed
    PROVE  TypeOK' /\ PendingTracked'
<1>1. LanesTypeOK /\ PendingTracked /\ TypeOK
  BY DEF SystemInv, TypeOK
<1>2. CASE ConnectionDestroyed
  <2>1. LanesTypeOK'
    BY <1>2, EmptySeq DEF ConnectionDestroyed, LanesTypeOK, NoItems, NoLanes
  <2> QED
    BY <1>1, <1>2, <2>1 DEF ConnectionDestroyed, TypeOK, PendingTracked
<1>3. CASE BackendDestroyed
  <2>1. fired' \in [Ops -> Nat] /\ outcome' \in [Ops -> {"none", "ok", "failed"}]
    BY <1>1, <1>3, FireTypes DEF BackendDestroyed
  <2>2. LanesTypeOK'
    BY <1>1, <1>3 DEF BackendDestroyed, LanesTypeOK, workerVars
  <2> QED
    BY <1>1, <1>3, <2>1, <2>2 DEF BackendDestroyed, TypeOK, workerVars, PendingTracked
<1> QED
  BY <1>2, <1>3

\* Every step, of either thread, preserves the invariant.
LEMMA NextSystemInv == SystemInv /\ [Next]_vars => SystemInv'
<1> SUFFICES ASSUME SystemInv, [Next]_vars PROVE TypeOK' /\ PendingTracked'
  BY NextCallInv DEF SystemInv
<1>1. LanesTypeOK /\ PendingTracked /\ TypeOK
  BY DEF SystemInv, TypeOK
<1>2. ASSUME NEW o \in Ops, Call(o) PROVE TypeOK' /\ PendingTracked'
  BY <1>2, IssueSystem, RequestParts
<1>3. ASSUME NEW r \in Requests, Retry(r) PROVE TypeOK' /\ PendingTracked'
  BY <1>3, IssueSystem, RequestParts
<1>4. ASSUME NEW o \in Ops, CancelRead(o) PROVE TypeOK' /\ PendingTracked'
  BY <1>4, CancelSystem
<1>5. CASE ConnectToHost \/ DisconnectFromHost
  <2>1. PICK m \in Posts : Post(m)
    BY <1>5 DEF ConnectToHost, DisconnectFromHost, Control, Posts
  <2>2. UNCHANGED <<workerVars, toUi, uiVars>>
    BY <1>5 DEF ConnectToHost, DisconnectFromHost, Control
  <2>3. LanesTypeOK' /\ Keeps
    BY <1>1, <2>1, <2>2, PostKeeps
  <2> QED
    BY <1>1, <2>2, <2>3, TrackedFrom DEF TypeOK, workerVars, Keeps, uiVars
<1>6. CASE \E m \in Signals : OnResult(m) \/ OnStreamChunk(m)
  BY <1>6, DeliverSystem
<1>7. CASE OnConnectionLost
  BY <1>7, DeliverSystem DEF Signals
<1>8. CASE ConnectionDestroyed \/ BackendDestroyed
  BY <1>8, DestroySystem
<1>9. CASE Worker(WorkerStep)
  <2>1. LanesTypeOK' /\ Keeps /\ UNCHANGED uiVars
    BY <1>1, <1>9, WorkerKeeps DEF Worker
  <2>2. served' \subseteq Requests
    BY <1>1, <1>9, ServedType DEF Worker, TypeOK
  <2> QED
    BY <1>1, <2>1, <2>2, TrackedFrom DEF TypeOK, Keeps, uiVars
<1>10. CASE UNCHANGED vars
  BY <1>1, <1>10 DEF vars, uiVars, workerVars, TypeOK, LanesTypeOK, PendingTracked,
     InTransit, Posted, Queued, Replied
<1> QED
  BY <1>2, <1>3, <1>4, <1>5, <1>6, <1>7, <1>8, <1>9, <1>10 DEF Next, UiStep

\* SystemInv is an invariant.
THEOREM SystemInvariance == Spec => []SystemInv
  BY InitSystemInv, NextSystemInv, PTL DEF Spec

\* The type invariant; in particular no call is ever retried beyond kMaxRetries.
THEOREM TypeCorrect == Spec => []TypeOK
<1>1. SystemInv => TypeOK
  BY DEF SystemInv
<1> QED
  BY <1>1, SystemInvariance, PTL

\* While the connection exists, every registered callback has its request
\* posted, queued, or its result on the way back.
THEOREM NeverForgotten == Spec => []PendingTracked
<1>1. SystemInv => PendingTracked
  BY DEF SystemInv
<1> QED
  BY <1>1, SystemInvariance, PTL

-----------------------------------------------------------------------------
(* Nothing is asked of the server again *)

\* A request waits to be begun, or was served, once at most; only requests of
\* calls made do, none beyond the attempt that is owed, and no second attempt
\* of a call that is not retried.
Turned ==
    \A r \in Requests :
        /\ Turns(r) <= 1
        /\ Turns(r) > 0 =>
              /\ r[1] \in issued
              /\ r[2] > 0 => Retried(r[1])
              /\ \A s \in Owed : s[1] = r[1] => r[2] <= s[2]

\* The inductive invariant.
ServeInv == SystemInv /\ BegunServed /\ Turned

\* Nothing waits and nothing was served initially.
LEMMA InitServeInv == Init => ServeInv
<1> SUFFICES ASSUME Init PROVE BegunServed /\ Turned
  BY InitSystemInv DEF ServeInv
<1>1. /\ toWorker = <<>> /\ served = {}
      /\ queue["bulk"] = <<>> /\ queue["meta"] = <<>> /\ \A l \in Lanes : queue[l] = <<>>
  BY DEF Init, LanesInit, NoItems, Lanes
<1>2. ASSUME NEW r \in Requests PROVE Turns(r) = 0
  <2>1. \A M : Tally(<<>>, M) = 0
    BY TallyOne
  <2>2. Unbegun(r) = 0
    BY <1>1, <2>1 DEF Unbegun
  <2> QED
    BY <1>1, <2>2 DEF Turns
<1> QED
  BY <1>1, <1>2 DEF BegunServed, Turned

\* The turns of a request are a number, before a step and after.
LEMMA TurnsTypes ==
    ASSUME LanesTypeOK, LanesTypeOK', NEW r
    PROVE  Turns(r) \in Nat /\ Turns(r)' \in Nat
<1>1. Turns(r) \in Nat
  BY UnbegunType
<1>2. /\ Tally(toWorker', {Op(r)}) \in Nat
      /\ Tally(queue'["bulk"], OpenItemsOf(r)) \in Nat /\ Tally(queue'["meta"], OpenItemsOf(r)) \in Nat
  BY UnbegunTypeNext
<1> QED
  BY <1>1, <1>2 DEF Turns, Unbegun

\* Where no request gets another turn, and none comes to be owed.
LEMMA CalmTurned ==
    ASSUME TypeOK, TypeOK', Turned, NoNewTurn, Owed' \subseteq Owed, issued \subseteq issued'
    PROVE  Turned'
<1> SUFFICES ASSUME NEW r \in Requests
             PROVE  /\ Turns(r)' <= 1
                    /\ Turns(r)' > 0 =>
                          /\ r[1] \in issued'
                          /\ r[2] > 0 => Retried(r[1])
                          /\ \A s \in Owed' : s[1] = r[1] => r[2] <= s[2]
  BY DEF Turned
<1>1. Turns(r)' <= Turns(r)
  BY DEF NoNewTurn
<1>2. Turns(r) \in Nat /\ Turns(r)' \in Nat
  BY TurnsTypes DEF TypeOK
<1>3. Turns(r)' <= 1 /\ (Turns(r)' > 0 => Turns(r) > 0)
  BY <1>1, <1>2 DEF Turned
<1> QED
  BY <1>3 DEF Turned

\* Posting gives the request posted one more turn, and the others none.
LEMMA PostTurns ==
    ASSUME LanesTypeOK, NEW m \in Posts, Post(m), UNCHANGED workerVars, NEW r \in Requests
    PROVE  Turns(r)' = Turns(r) + (IF m = Op(r) THEN 1 ELSE 0)
<1>1. Tally(toWorker', {Op(r)}) = Tally(toWorker, {Op(r)}) + (IF m = Op(r) THEN 1 ELSE 0)
  BY TallyAppend DEF LanesTypeOK, Post
<1>2. queue' = queue /\ served' = served
  BY DEF workerVars
<1>3. /\ Tally(toWorker, {Op(r)}) \in Nat
      /\ Tally(queue["bulk"], OpenItemsOf(r)) \in Nat /\ Tally(queue["meta"], OpenItemsOf(r)) \in Nat
  BY UnbegunType
<1> QED
  BY <1>1, <1>2, <1>3 DEF Turns, Unbegun

\* A request that had no turn is posted and owed, in place of R.
LEMMA FreshTurned ==
    ASSUME ServeInv, NEW a \in Requests, Post(Op(a)), UNCHANGED workerVars,
           a[1] \in issued', issued \subseteq issued', a[2] > 0 => Retried(a[1]),
           Turns(a) = 0, Owed' \subseteq Owed \union {a},
           \A s \in Owed' : s[1] = a[1] => s = a,
           \A r \in Requests : r[1] = a[1] /\ Turns(r) > 0 => r[2] <= a[2]
    PROVE  Turned'
<1> SUFFICES ASSUME NEW r \in Requests
             PROVE  /\ Turns(r)' <= 1
                    /\ Turns(r)' > 0 =>
                          /\ r[1] \in issued'
                          /\ r[2] > 0 => Retried(r[1])
                          /\ \A s \in Owed' : s[1] = r[1] => r[2] <= s[2]
  BY DEF Turned
<1>1. LanesTypeOK /\ Turned /\ Op(a) \in Posts /\ (Op(a) = Op(r) <=> a = r)
  BY MessageTypes, AboutRequest DEF ServeInv, SystemInv, TypeOK
<1>2. Turns(r)' = Turns(r) + (IF a = r THEN 1 ELSE 0) /\ Turns(r) \in Nat
  BY <1>1, PostTurns, UnbegunType
<1>3. CASE r = a
  <2>1. a[2] \in Nat
    BY RequestParts, LimitAssumption
  <2> QED
    BY <1>2, <1>3, <2>1
<1>4. CASE r # a
  <2>1. Turns(r)' = Turns(r) /\ Turns(r) <= 1
    BY <1>1, <1>2, <1>4 DEF Turned
  <2>2. ASSUME Turns(r) > 0, NEW s \in Owed', s[1] = r[1] PROVE r[2] <= s[2]
    BY <1>1, <2>2 DEF Turned
  <2> QED
    BY <1>1, <2>1, <2>2 DEF Turned
<1> QED
  BY <1>3, <1>4

\* A call posts its attempt 0, of which nothing is known yet.
LEMMA CallTurned == ASSUME ServeInv, NEW o \in Ops, Call(o), connAlive PROVE Turned'
<1> DEFINE a == <<o, 0>>
<1>1. /\ a \in Requests /\ a[1] = o /\ a[2] = 0 /\ LanesTypeOK /\ Turned
  BY RequestParts DEF ServeInv, SystemInv, TypeOK
<1>2. /\ Post(Op(a)) /\ UNCHANGED workerVars /\ o \notin issued /\ issued' = issued \union {o}
      /\ table' = table \union {a} /\ backoff' = backoff
  BY DEF Call
<1>3. \A r \in Requests : r[1] = o => Turns(r) \in Nat /\ ~(Turns(r) > 0)
  BY <1>1, <1>2, UnbegunType DEF Turned
<1>4. \A s \in Owed : s[1] # o
  BY <1>2 DEF ServeInv, SystemInv, CallInv, OneAttempt
<1>5. Owed' \subseteq Owed \union {a} /\ \A s \in Owed' : s[1] = o => s = a
  BY <1>2, <1>4 DEF Owed
<1> HIDE DEF a
<1> QED
  BY <1>1, <1>2, <1>3, <1>5, FreshTurned

\* A retry posts the attempt after the one owed, beyond every one that had a turn.
LEMMA RetryTurned == ASSUME ServeInv, NEW q \in Requests, Retry(q), connAlive PROVE Turned'
<1> DEFINE a == <<q[1], q[2] + 1>>
<1>1. q \in backoff /\ Retried(q[1]) /\ q[1] \in issued /\ q[2] < MaxRetries /\ q \in Owed
  BY DEF Retry, ServeInv, SystemInv, CallInv, OneAttempt, MayRetry, Owed
<1>2. a \in Requests /\ a[1] = q[1] /\ a[2] = q[2] + 1 /\ q[2] \in Nat /\ Turned /\ LanesTypeOK
  BY <1>1, RequestParts, LimitAssumption DEF ServeInv, SystemInv, TypeOK
<1>3. /\ Post(Op(a)) /\ UNCHANGED workerVars /\ issued' = issued
      /\ table' = table \union {a} /\ backoff' = backoff \ {q}
  BY DEF Retry
<1>4. Owed' \subseteq (Owed \ {q}) \union {a}
  BY <1>1, <1>3 DEF Owed, ServeInv, SystemInv, CallInv, OneAttempt
<1>5. \A s \in Owed' : s[1] = q[1] => s = a
  BY <1>1, <1>4 DEF ServeInv, SystemInv, CallInv, OneAttempt
<1>6. \A r \in Requests : r[1] = q[1] /\ Turns(r) > 0 => r[2] <= q[2]
  BY <1>1, <1>2 DEF Turned
<1>7. \A r \in Requests : r[2] \in Nat
  BY RequestParts, LimitAssumption
<1> HIDE DEF a
<1>8. Turns(a) = 0
  <2>1. Turns(a) \in Nat
    BY <1>2, UnbegunType, Zenon
  <2>2. ~(a[2] <= q[2])
    BY <1>2
  <2>3. ~(Turns(a) > 0)
    BY <1>2, <1>6, <2>2
  <2> QED
    BY <2>1, <2>3
<1>9. \A r \in Requests : r[1] = a[1] /\ Turns(r) > 0 => r[2] <= a[2]
  BY <1>2, <1>6, <1>7
<1> QED
  BY <1>1, <1>2, <1>3, <1>4, <1>5, <1>8, <1>9, FreshTurned

\* Steps that leave the worker's queues alone, or empty them.
LEMMA QuietTurns ==
    ASSUME LanesTypeOK, LanesTypeOK',
           \/ UNCHANGED <<workerVars, toWorker>>
           \/ toWorker' = <<>> /\ queue' = NoItems /\ served' = served
           \/ \E m \in Posts : Post(m) /\ UNCHANGED workerVars /\ \A r \in Requests : m # Op(r)
    PROVE  NoNewTurn
<1> SUFFICES ASSUME NEW r \in Requests PROVE Turns(r)' <= Turns(r)
  BY DEF NoNewTurn
<1>1. Unbegun(r) \in Nat /\ Turns(r) \in Nat
  BY UnbegunType
<1>2. CASE UNCHANGED <<workerVars, toWorker>>
  BY <1>1, <1>2 DEF Turns, Unbegun, workerVars
<1>3. CASE toWorker' = <<>> /\ queue' = NoItems /\ served' = served
  <2>1. queue'["bulk"] = <<>> /\ queue'["meta"] = <<>>
    BY <1>3 DEF NoItems, Lanes
  <2>2. \A M : Tally(<<>>, M) = 0
    BY TallyOne
  <2>3. Unbegun(r)' = 0
    BY <1>3, <2>1, <2>2 DEF Unbegun
  <2> QED
    BY <1>1, <1>3, <2>3 DEF Turns
<1>4. ASSUME NEW m \in Posts, Post(m), UNCHANGED workerVars, m # Op(r) PROVE Turns(r)' <= Turns(r)
  <2>1. Turns(r)' = Turns(r) + (IF m = Op(r) THEN 1 ELSE 0)
    BY <1>4, PostTurns
  <2> QED
    BY <1>1, <1>4, <2>1
<1> QED
  BY <1>2, <1>3, <1>4

\* Every step preserves the invariant.
LEMMA NextServeInv == ServeInv /\ [Next]_vars => ServeInv'
<1> SUFFICES ASSUME ServeInv, [Next]_vars PROVE BegunServed' /\ Turned'
  BY NextSystemInv DEF ServeInv
<1>1. SystemInv /\ BegunServed /\ Turned /\ TypeOK /\ LanesTypeOK /\ TypeOK' /\ LanesTypeOK' /\ CallInv
  BY NextSystemInv DEF ServeInv, SystemInv, TypeOK
<1>2. ASSUME UNCHANGED workerVars PROVE BegunServed'
  BY <1>1, <1>2 DEF BegunServed, workerVars
<1>3. ASSUME NoNewTurn, Owed' \subseteq Owed, issued \subseteq issued' PROVE Turned'
  BY <1>1, <1>3, CalmTurned
<1>4. ASSUME NEW o \in Ops, Call(o) PROVE BegunServed' /\ Turned'
  <2>1. UNCHANGED workerVars
    BY <1>4 DEF Call
  <2>2. CASE ~connAlive
    <3>1. UNCHANGED <<workerVars, toWorker, table, backoff>> /\ issued \subseteq issued'
      BY <1>4, <2>2 DEF Call
    <3> QED
      BY <1>1, <1>2, <1>3, <3>1, QuietTurns DEF Owed
  <2> QED
    BY <1>2, <1>4, <2>1, <2>2, CallTurned
<1>5. ASSUME NEW r \in Requests, Retry(r) PROVE BegunServed' /\ Turned'
  <2>1. UNCHANGED workerVars
    BY <1>5 DEF Retry
  <2>2. CASE ~connAlive
    <3>1. UNCHANGED <<workerVars, toWorker, table, issued>> /\ backoff' \subseteq backoff
      BY <1>5, <2>2 DEF Retry
    <3> QED
      BY <1>1, <1>2, <1>3, <3>1, QuietTurns DEF Owed
  <2> QED
    BY <1>2, <1>5, <2>1, <2>2, RetryTurned
<1>6. ASSUME NEW o \in Ops, CancelRead(o) PROVE BegunServed' /\ Turned'
  <2>1. <<o, 0>> \in Requests
    BY RequestParts
  <2>2. /\ Post(Cancel(<<o, 0>>)) /\ UNCHANGED <<workerVars, backoff, issued>>
        /\ table' \subseteq table
    BY <1>6 DEF CancelRead
  <2>3. Cancel(<<o, 0>>) \in Posts /\ \A r \in Requests : Cancel(<<o, 0>>) # Op(r)
    BY <2>1, MessageTypes, AboutRequest
  <2>4. NoNewTurn
    BY <1>1, <2>2, <2>3, QuietTurns
  <2> QED
    BY <1>2, <1>3, <2>2, <2>4 DEF Owed
<1>7. ASSUME UNCHANGED <<workerVars, toWorker, issued>>, Owed' \subseteq Owed
      PROVE  BegunServed' /\ Turned'
  BY <1>1, <1>2, <1>3, <1>7, QuietTurns
<1>8. ASSUME NEW m \in Signals, OnResult(m) \/ OnStreamChunk(m) PROVE BegunServed' /\ Turned'
  <2>1. UNCHANGED <<workerVars, toWorker, issued>>
    BY <1>8 DEF OnResult, OnStreamChunk
  <2>2. Owed' \subseteq Owed
    BY <1>8 DEF OnResult, OnStreamChunk, Owed
  <2> QED
    BY <1>7, <2>1, <2>2
<1>9. CASE OnConnectionLost \/ BackendDestroyed
  BY <1>7, <1>9 DEF OnConnectionLost, BackendDestroyed, Owed
<1>10. CASE ConnectToHost \/ DisconnectFromHost
  <2>1. PICK m \in {Connect, Disconnect} : Post(m)
    BY <1>10 DEF ConnectToHost, DisconnectFromHost, Control
  <2>2. UNCHANGED <<workerVars, toUi, uiVars>>
    BY <1>10 DEF ConnectToHost, DisconnectFromHost, Control
  <2>3. m \in Posts /\ \A r \in Requests : m # Op(r)
    BY <2>1, AboutRequest DEF Posts
  <2>4. NoNewTurn
    BY <1>1, <2>1, <2>2, <2>3, QuietTurns
  <2> QED
    BY <1>2, <1>3, <2>2, <2>4 DEF uiVars, Owed
<1>11. CASE ConnectionDestroyed
  <2>1. toWorker' = <<>> /\ queue' = NoItems /\ UNCHANGED <<served, table, backoff, issued>>
    BY <1>11 DEF ConnectionDestroyed
  <2>2. BegunServed'
    BY <2>1 DEF BegunServed, NoItems
  <2>3. NoNewTurn
    BY <1>1, <2>1, QuietTurns
  <2> QED
    BY <1>3, <2>1, <2>2, <2>3 DEF Owed
<1>12. CASE Worker(WorkerStep)
  <2>1. WorkerStep /\ UNCHANGED uiVars
    BY <1>12 DEF Worker
  <2>2. BegunServed' /\ NoNewTurn
    BY <1>1, <2>1, WorkerServesOnce
  <2> QED
    BY <1>3, <2>1, <2>2 DEF uiVars, Owed
<1>13. CASE UNCHANGED vars
  <2>1. UNCHANGED <<workerVars, toWorker, issued, table, backoff>>
    BY <1>13 DEF vars, uiVars
  <2> QED
    BY <1>7, <2>1 DEF Owed
<1> QED
  BY <1>4, <1>5, <1>6, <1>8, <1>9, <1>10, <1>11, <1>12, <1>13 DEF Next, UiStep

\* What the worker began or answered never waits for it again: no loss,
\* disconnect, reset of a lane or new session puts to the server a second time
\* what it may already have done, and a mutating call or a streaming read has
\* no second attempt.
THEOREM NeverReplayed == Spec => []ServedOnce
<1>1. ASSUME ServeInv, NEW r \in served
      PROVE  /\ ~Waiting(r)
             /\ Kind[r[1]] \in {"write", "mutate", "stream"} => r[2] = 0
  <2>1. r \in Requests /\ r[2] \in Nat /\ LanesTypeOK /\ Turned
    BY <1>1, RequestParts, LimitAssumption DEF ServeInv, SystemInv, TypeOK
  <2>2. Turns(r) = Unbegun(r) + 1 /\ Turns(r) <= 1 /\ Unbegun(r) \in Nat
    BY <1>1, <2>1, UnbegunType DEF Turns, Turned
  <2>3. r[2] > 0 => Retried(r[1])
    BY <2>1, <2>2 DEF Turned
  <2>4. /\ Tally(toWorker, {Op(r)}) = 0
        /\ Tally(queue["bulk"], OpenItemsOf(r)) = 0 /\ Tally(queue["meta"], OpenItemsOf(r)) = 0
    BY <2>1, <2>2, UnbegunType DEF Unbegun
  <2>5. ~Posted(r)
    <3>1. toWorker \in Seq(Posts) /\ ~(\E i \in 1 .. Len(toWorker) : toWorker[i] \in {Op(r)})
      BY <2>1, <2>4, TallyType DEF LanesTypeOK
    <3> QED
      BY <3>1, ContentsType DEF Posted
  <2>6. ASSUME NEW l \in Lanes, NEW item \in ToSet(queue[l]), item.req = r PROVE item.phase # "open"
    <3>1. queue[l] \in Seq(Item)
      BY <2>1 DEF LanesTypeOK
    <3>2. Tally(queue[l], OpenItemsOf(r)) = 0
      BY <2>4 DEF Lanes
    <3>3. ~(\E i \in 1 .. Len(queue[l]) : queue[l][i] \in OpenItemsOf(r))
      BY <3>1, <3>2, TallyType
    <3>4. PICK i \in 1 .. Len(queue[l]) : item = queue[l][i]
      BY <3>1, ContentsType
    <3>5. item \in Item
      BY <3>1, ContentsType
    <3> QED
      BY <2>6, <3>3, <3>4, <3>5 DEF OpenItemsOf
  <2>7. ~Waiting(r)
    BY <2>5, <2>6 DEF Waiting, laneForKind, Lanes
  <2> QED
    BY <2>1, <2>3, <2>7 DEF Retried
<1>2. ServeInv => ServedOnce
  BY <1>1 DEF ServedOnce
<1> QED
  BY <1>2, InitServeInv, NextServeInv, PTL DEF Spec

-----------------------------------------------------------------------------
(* The refinement of AsyncCalls *)

\* Callbacks fired together, for registered or waiting requests, are one answer
\* of the contract.
LEMMA FireAnswers ==
    ASSUME CallInv, NEW R, R \subseteq Owed, NEW result,
           Fire({r[1] : r \in R}, result), UNCHANGED <<issued, cancelled>>
    PROVE  Contract!Next
<1> DEFINE S == {r[1] : r \in R}
<1>1. \A r \in R : /\ r \in Requests /\ r[1] \in issued /\ fired[r[1]] = 0
                   /\ r[1] \in cancelled => Retried(r[1])
  BY DEF CallInv, OneAttempt, Owed, UiTypeOK, MayRetry
<1>2. S \subseteq Ops /\ S \subseteq issued /\ \A o \in S : fired[o] = 0
  BY <1>1, RequestParts
<1>3. S \cap cancelled \subseteq {o \in Ops : Retried(o)}
  BY <1>1, <1>2
<1>4. fired' = [o \in Ops |-> IF o \in S THEN fired[o] + 1 ELSE fired[o]]
  BY DEF Fire
<1> HIDE DEF S
<1>5. Contract!AnswerAll(S)
  BY <1>4 DEF Contract!AnswerAll
<1>6. Contract!Answer(S)
  BY <1>2, <1>3, <1>5 DEF Contract!Answer
<1> QED
  BY <1>2, <1>6 DEF Contract!Next

\* A call of the backend is a call of the contract, answered at once or later.
LEMMA CallImplements == ASSUME CallInv, NEW o \in Ops, Call(o) PROVE Contract!Next
<1>1. o \notin issued /\ issued' = issued \union {o} /\ UNCHANGED cancelled
  BY DEF Call
<1>2. fired \in [Ops -> Nat]
  BY DEF CallInv, UiTypeOK
<1>3. Contract!AnswerAll({}) \/ Contract!AnswerAll({o})
  <2>1. CASE connAlive
    <3>1. fired' = [c \in Ops |-> IF c \in {} THEN fired[c] + 1 ELSE fired[c]]
      BY <1>2, <2>1 DEF Call, Unfired
    <3> QED
      BY <3>1 DEF Contract!AnswerAll
  <2>2. CASE ~connAlive
    BY <2>2 DEF Call, Fire, Contract!AnswerAll
  <2> QED
    BY <2>1, <2>2
<1> QED
  BY <1>1, <1>3 DEF Contract!Next, Contract!Call

\* Every step of the backend is a step of the contract or leaves it alone.
LEMMA StepImplements == CallInv /\ [Next]_vars => [Contract!Next]_(Contract!vars)
<1> SUFFICES ASSUME CallInv, [Next]_vars PROVE Contract!Next \/ UNCHANGED Contract!vars
  OBVIOUS
<1>1. ASSUME UNCHANGED <<issued, cancelled, fired>> PROVE UNCHANGED Contract!vars
  BY <1>1 DEF Contract!vars
<1>2. ASSUME NEW o \in Ops, CancelRead(o) PROVE Contract!Next
  <2>1. Contract!Cancel(o)
    BY <1>2 DEF CancelRead, Contract!Cancel
  <2> QED
    BY <2>1 DEF Contract!Next
<1>3. ASSUME NEW r \in Requests, Retry(r) PROVE Contract!Next \/ UNCHANGED Contract!vars
  <2>1. {q[1] : q \in {r}} = {r[1]} /\ {r} \subseteq Owed
    BY <1>3 DEF Retry, Owed
  <2>2. CASE ~connAlive
    <3>1. Fire({q[1] : q \in {r}}, "failed") /\ UNCHANGED <<issued, cancelled>>
      BY <1>3, <2>1, <2>2 DEF Retry
    <3> QED
      BY <2>1, <3>1, FireAnswers
  <2>3. CASE connAlive
    BY <1>1, <1>3, <2>3 DEF Retry, Unfired
  <2> QED
    BY <2>2, <2>3
<1>4. ASSUME NEW m \in Signals, OnResult(m) PROVE Contract!Next \/ UNCHANGED Contract!vars
  <2>1. CASE UNCHANGED fired
    BY <1>1, <1>4, <2>1 DEF OnResult
  <2>2. CASE ~UNCHANGED fired
    <3>1. /\ m.req \in table /\ Fire({m.req[1]}, IF m.ok THEN "ok" ELSE "failed")
          /\ UNCHANGED <<issued, cancelled>>
      BY <1>4, <2>2 DEF OnResult, Unfired
    <3>2. {q[1] : q \in {m.req}} = {m.req[1]} /\ {m.req} \subseteq Owed
      BY <3>1 DEF Owed
    <3>3. Fire({q[1] : q \in {m.req}}, IF m.ok THEN "ok" ELSE "failed")
      BY <3>1, <3>2
    <3> QED
      BY <3>1, <3>2, <3>3, FireAnswers
  <2> QED
    BY <2>1, <2>2
<1>5. CASE OnConnectionLost
  <2> DEFINE R == {r \in table : ~MayRetry(r)}
  <2>1. Fire({r[1] : r \in R}, "failed") /\ UNCHANGED <<issued, cancelled>>
    BY <1>5 DEF OnConnectionLost
  <2>2. R \subseteq Owed
    BY DEF Owed
  <2> HIDE DEF R
  <2> QED
    BY <2>1, <2>2, FireAnswers
<1>6. CASE BackendDestroyed
  <2>1. Fire({r[1] : r \in table}, "failed") /\ UNCHANGED <<issued, cancelled>>
    BY <1>6 DEF BackendDestroyed
  <2> QED
    BY <2>1, FireAnswers DEF Owed
<1>7. ASSUME NEW m \in Signals, OnStreamChunk(m) PROVE UNCHANGED Contract!vars
  BY <1>1, <1>7 DEF OnStreamChunk
<1>8. CASE ConnectToHost \/ DisconnectFromHost \/ ConnectionDestroyed
  BY <1>1, <1>8 DEF ConnectToHost, DisconnectFromHost, ConnectionDestroyed, Control, uiVars
<1>9. CASE Worker(WorkerStep) \/ UNCHANGED vars
  BY <1>1, <1>9 DEF Worker, vars, uiVars
<1> QED
  BY CallImplements, <1>2, <1>3, <1>4, <1>5, <1>6, <1>7, <1>8, <1>9 DEF Next, UiStep

\* RemoteFsBackend over its worker implements the contract of an asynchronous
\* file API: one answer per call, and none after a cancel unless it may retry.
THEOREM Implements == Spec => KeepsContract
<1>1. Init => Contract!Init
  BY DEF Init, Contract!Init
<1>2. CallInv /\ [Next]_vars => [Contract!Next]_(Contract!vars)
  BY StepImplements
<1> QED
  BY <1>1, <1>2, CallInvariance, PTL DEF Spec, KeepsContract, Contract!Spec

-----------------------------------------------------------------------------
(* A streaming read that reports success delivered every chunk *)

\* What is under way of a streaming read, given what was delivered of it.
WholeRead(o) ==
    LET r == <<o, 0>>
    IN  /\ outcome[o] = "ok" => received[o] = FileChunks /\ o \in issued /\ r \notin table
        /\ \E b \in Nat : Tracks(r, b)
        /\ r \in table => Tracks(r, received[o])
        /\ o \notin issued => received[o] = 0 /\ \A b \in Nat : Tracks(r, b)

ReadInv == SystemInv /\ \A o \in Ops : Kind[o] = "stream" => WholeRead(o)

\* What is under way stays under way, whatever was delivered.
KeepsFlow(r) == \A b \in Nat : Tracks(r, b) => Tracks(r, b)'

\* With nothing under way any number may have been delivered.
LEMMA NothingFlows ==
    ASSUME NEW r, NEW b \in Nat
    PROVE  Flow(r, b, <<>>, NoItems, <<>>)
<1>1. \A M : Tally(<<>>, M) = 0
  BY TallyOne
<1>2. \A l \in Lanes : NoItems[l] = <<>>
  BY DEF NoItems
<1>3. Waits(r, <<>>, NoItems) = 0
  BY <1>1, <1>2 DEF Waits, Lanes
<1>4. Len(<<>>) = 0 /\ \A l \in Lanes : Len(NoItems[l]) = 0
  BY <1>2
<1> QED
  BY <1>1, <1>3, <1>4 DEF Flow

\* A post other than the request itself.
LEMMA PostFlows ==
    ASSUME LanesTypeOK, NEW m \in Posts, Post(m), UNCHANGED <<workerVars, toUi>>, NEW r, m # Op(r)
    PROVE  KeepsFlow(r)
<1>1. queue' = queue /\ toUi' = toUi
  BY DEF workerVars
<1>2. Tally(toWorker', {Op(r)}) = Tally(toWorker, {Op(r)})
  <2>1. Tally(toWorker', {Op(r)}) = Tally(toWorker, {Op(r)}) + (IF m \in {Op(r)} THEN 1 ELSE 0)
    BY TallyAppend DEF Post, LanesTypeOK
  <2>2. Tally(toWorker, {Op(r)}) \in Nat
    BY WaitsType
  <2> QED
    BY <2>1, <2>2
<1> QED
  BY <1>1, <1>2 DEF KeepsFlow, Tracks, Flow, Waits

\* A request that is nowhere is posted.
LEMMA IssueFlows ==
    ASSUME LanesTypeOK, LanesTypeOK', NEW r \in Requests, Post(Op(r)), UNCHANGED <<workerVars, toUi>>,
           \A b \in Nat : Tracks(r, b)
    PROVE  Tracks(r, 0)'
<1> DEFINE T == Tally(toUi, {Chunk(r)})
           A == Tally(toUi, Answers(r))
           F == FileChunks
<1>1. queue' = queue /\ toUi' = toUi
  BY DEF workerVars
<1>2. /\ Waits(r, toWorker, queue) \in Nat /\ Tally(toWorker, {Op(r)}) \in Nat /\ T \in Nat /\ A \in Nat
      /\ Tally(queue["bulk"], ItemsOf(r)) \in Nat /\ Tally(queue["meta"], ItemsOf(r)) \in Nat
  BY WaitsType
<1>3. Tally(toWorker', {Op(r)}) = Tally(toWorker, {Op(r)}) + 1
  <2>1. Tally(toWorker', {Op(r)}) = Tally(toWorker, {Op(r)}) + (IF Op(r) \in {Op(r)} THEN 1 ELSE 0)
    BY MessageTypes, TallyAppend DEF Post, LanesTypeOK
  <2> QED
    BY <2>1
<1>4. F \in Nat
  BY LimitAssumption
<1>5. A + T > 0 => (F + 1) + T <= F
  <2>1. Tracks(r, F + 1)
    BY <1>4
  <2> QED
    BY <2>1 DEF Tracks, Flow
<1>6. Tally(toWorker, {Op(r)}) > 0 => 1 + T = 0
  <2>1. Tracks(r, 1)
    OBVIOUS
  <2> QED
    BY <2>1 DEF Tracks, Flow
<1>7. \A b \in Nat : \A l \in Lanes : \A i \in 1 .. Len(queue[l]) : queue[l][i].req = r => queue[l][i].sent = b + T
  BY DEF Tracks, Flow
<1>8. \A l \in Lanes : \A i \in 1 .. Len(queue[l]) : queue[l][i].req # r
  <2> SUFFICES ASSUME NEW l \in Lanes, NEW i \in 1 .. Len(queue[l]), queue[l][i].req = r PROVE FALSE
    OBVIOUS
  <2>1. queue[l][i].sent = 0 + T /\ queue[l][i].sent = 1 + T
    BY <1>7
  <2> QED
    BY <1>2, <2>1
<1>9. A = 0 /\ T = 0 /\ Tally(toWorker, {Op(r)}) = 0
  BY <1>2, <1>4, <1>5, <1>6
<1>10. \A l \in Lanes : Tally(queue[l], ItemsOf(r)) = 0
  <2> SUFFICES ASSUME NEW l \in Lanes PROVE Tally(queue[l], ItemsOf(r)) = 0
    OBVIOUS
  <2>1. queue[l] \in Seq(Item)
    BY DEF LanesTypeOK
  <2>2. Tally(queue[l], ItemsOf(r)) \in Nat /\ ~(Tally(queue[l], ItemsOf(r)) > 0)
    BY <1>8, <2>1, TallyType DEF ItemsOf
  <2> QED
    BY <2>2
<1>11. Waits(r, toWorker', queue') = 1
  BY <1>1, <1>3, <1>9, <1>10 DEF Waits, Lanes
<1>12. Tally(toUi, {Done(r)}) = 0
  <2>1. toUi \in Seq(Signals)
    BY DEF LanesTypeOK
  <2>2. Tally(toUi, {Done(r)}) > 0 => A > 0
    BY <2>1, TallyType DEF Answers
  <2>3. Tally(toUi, {Done(r)}) \in Nat
    BY <2>1, TallyType
  <2> QED
    BY <1>9, <2>2, <2>3
<1>13. \A i, j \in 1 .. Len(toUi) : i < j /\ toUi[i] \in Answers(r) => toUi[j] # Chunk(r)
  BY DEF Tracks, Flow
<1> QED
  BY <1>1, <1>8, <1>9, <1>11, <1>12, <1>13 DEF Tracks, Flow

\* A signal is delivered: a chunk now counts as delivered.
LEMMA DeliverFlows ==
    ASSUME LanesTypeOK, NEW r, NEW b \in Nat, Tracks(r, b),
           toUi # <<>>, toUi' = Tail(toUi), toWorker' = toWorker, queue' = queue,
           NEW c, c = IF Head(toUi) = Chunk(r) THEN b + 1 ELSE b
    PROVE  Tracks(r, c)'
<1> DEFINE u == Tail(toUi)
<1>1. /\ toUi \in Seq(Signals) /\ u \in Seq(Signals) /\ Len(u) = Len(toUi) - 1 /\ Len(toUi) \in Nat
      /\ \A i \in 1 .. Len(u) : u[i] = toUi[i + 1]
  BY HeadTailProperties, LenProperties DEF LanesTypeOK
<1>2. /\ Tally(toUi, Answers(r)) = Tally(u, Answers(r)) + (IF Head(toUi) \in Answers(r) THEN 1 ELSE 0)
      /\ Tally(toUi, {Chunk(r)}) = Tally(u, {Chunk(r)}) + (IF Head(toUi) \in {Chunk(r)} THEN 1 ELSE 0)
      /\ Tally(toUi, {Done(r)}) = Tally(u, {Done(r)}) + (IF Head(toUi) \in {Done(r)} THEN 1 ELSE 0)
  BY <1>1, TallyTail
<1>3. /\ Tally(u, Answers(r)) \in Nat /\ Tally(u, {Chunk(r)}) \in Nat /\ Tally(u, {Done(r)}) \in Nat
      /\ Waits(r, toWorker, queue) \in Nat /\ FileChunks \in Nat
  BY <1>1, TallyType, WaitsType, LimitAssumption
<1>4. toUi' = u
  OBVIOUS
<1> HIDE DEF u
<1>5. c + Tally(u, {Chunk(r)}) = b + Tally(toUi, {Chunk(r)})
  BY <1>2, <1>3
<1>6. /\ Waits(r, toWorker, queue) + Tally(toUi, Answers(r)) <= 1
      /\ Tally(toWorker, {Op(r)}) > 0 => b + Tally(toUi, {Chunk(r)}) = 0
      /\ \A l \in Lanes : \A i \in 1 .. Len(queue[l]) :
            queue[l][i].req = r => queue[l][i].sent = b + Tally(toUi, {Chunk(r)})
      /\ Tally(toUi, {Done(r)}) > 0 => b + Tally(toUi, {Chunk(r)}) = FileChunks
      /\ Tally(toUi, Answers(r)) + Tally(toUi, {Chunk(r)}) > 0 => b + Tally(toUi, {Chunk(r)}) <= FileChunks
      /\ \A i, j \in 1 .. Len(toUi) : i < j /\ toUi[i] \in Answers(r) => toUi[j] # Chunk(r)
  BY DEF Tracks, Flow
<1> DEFINE n == b + Tally(toUi, {Chunk(r)})
<1>7. /\ Waits(r, toWorker, queue) + Tally(u, Answers(r)) <= 1
      /\ Tally(u, {Done(r)}) > 0 => Tally(toUi, {Done(r)}) > 0
      /\ Tally(u, Answers(r)) + Tally(u, {Chunk(r)}) > 0 => Tally(toUi, Answers(r)) + Tally(toUi, {Chunk(r)}) > 0
  BY <1>2, <1>3, <1>6
<1>8. \A i, j \in 1 .. Len(u) : i < j /\ u[i] \in Answers(r) => u[j] # Chunk(r)
  <2> SUFFICES ASSUME NEW i \in 1 .. Len(u), NEW j \in 1 .. Len(u), i < j, u[i] \in Answers(r)
               PROVE  u[j] # Chunk(r)
    OBVIOUS
  <2>1. i + 1 \in 1 .. Len(toUi) /\ j + 1 \in 1 .. Len(toUi) /\ i + 1 < j + 1
    BY <1>1
  <2> QED
    BY <1>1, <1>6, <2>1
<1>9. /\ Tally(u, {Done(r)}) > 0 => n = FileChunks
      /\ Tally(u, Answers(r)) + Tally(u, {Chunk(r)}) > 0 => n <= FileChunks
      /\ Tally(toWorker, {Op(r)}) > 0 => n = 0
  BY <1>6, <1>7
<1>10. \A l \in Lanes : \A i \in 1 .. Len(queue[l]) : queue[l][i].req = r => queue[l][i].sent = n
  BY <1>6
<1>11. c + Tally(u, {Chunk(r)}) = n
  BY <1>5
<1> HIDE DEF n
<1>12. Flow(r, c, toWorker, queue, u)
  BY <1>7, <1>8, <1>9, <1>10, <1>11 DEF Flow
<1> QED
  BY <1>4, <1>12 DEF Tracks

\* When the success is delivered, every chunk was.
LEMMA DoneIsLast ==
    ASSUME LanesTypeOK, NEW r \in Requests, NEW b \in Nat, Tracks(r, b), toUi # <<>>, Head(toUi) = Done(r)
    PROVE  b = FileChunks
<1>1. toUi \in Seq(Signals) /\ toUi[1] = Done(r) /\ Len(toUi) \in Nat \ {0}
  BY EmptySeq, LenProperties DEF LanesTypeOK
<1>2. Tally(toUi, {Done(r)}) > 0
  BY <1>1, TallyType
<1>3. b + Tally(toUi, {Chunk(r)}) = FileChunks
  BY <1>2 DEF Tracks, Flow
<1>4. Done(r) \in Answers(r) /\ Done(r) # Chunk(r)
  BY AboutRequest DEF Answers
<1>5. \A j \in 1 .. Len(toUi) : toUi[j] # Chunk(r)
  <2>1. \A i, j \in 1 .. Len(toUi) : i < j /\ toUi[i] \in Answers(r) => toUi[j] # Chunk(r)
    BY DEF Tracks, Flow
  <2> QED
    BY <1>1, <1>4, <2>1
<1>6. Tally(toUi, {Chunk(r)}) \in Nat /\ ~(Tally(toUi, {Chunk(r)}) > 0)
  BY <1>1, <1>5, TallyType
<1> QED
  BY <1>3, <1>6

\* A step that adds no registration of the read and reports no success of it.
LEMMA ReadStays ==
    ASSUME NEW o \in Ops, TypeOK, WholeRead(o), KeepsFlow(<<o, 0>>),
           received'[o] = received[o],
           <<o, 0>> \in table' => <<o, 0>> \in table,
           o \in issued <=> o \in issued',
           outcome'[o] = "ok" => outcome[o] = "ok"
    PROVE  WholeRead(o)'
<1> DEFINE r == <<o, 0>>
           d == received[o]
<1>1. d \in Nat
  BY DEF TypeOK
<1>2. /\ outcome[o] = "ok" => d = FileChunks /\ o \in issued /\ r \notin table
      /\ \E b \in Nat : Tracks(r, b)
      /\ r \in table => Tracks(r, d)
      /\ o \notin issued => d = 0 /\ \A b \in Nat : Tracks(r, b)
  BY DEF WholeRead
<1>3. \A b \in Nat : Tracks(r, b) => Tracks(r, b)'
  BY DEF KeepsFlow
<1>4. \E b \in Nat : Tracks(r, b)'
  BY <1>2, <1>3
<1>5. r \in table' => Tracks(r, received[o])'
  <2> SUFFICES ASSUME r \in table' PROVE Flow(r, received'[o], toWorker', queue', toUi')
    BY DEF Tracks
  <2>1. Tracks(r, d)
    BY <1>2
  <2>2. PICK b \in Nat : b = d
    BY <1>1
  <2>3. Tracks(r, b)'
    BY <1>3, <2>1, <2>2
  <2> QED
    BY <2>2, <2>3 DEF Tracks
<1>6. o \notin issued' => received'[o] = 0 /\ \A b \in Nat : Tracks(r, b)'
  BY <1>2, <1>3
<1>7. outcome'[o] = "ok" => received'[o] = FileChunks /\ o \in issued' /\ r \notin table'
  BY <1>2
<1> QED
  BY <1>4, <1>5, <1>6, <1>7 DEF WholeRead

\* What callbacks invoked with a failure leave of the outcomes.
LEMMA FailedFire ==
    ASSUME NEW S, Fire(S, "failed") \/ Unfired, NEW o \in Ops
    PROVE  outcome'[o] = "ok" => outcome[o] = "ok"
  BY DEF Fire, Unfired

\* Calls, retries and cancels.
LEMMA PostRead ==
    ASSUME SystemInv, NEW o \in Ops, Kind[o] = "stream", WholeRead(o),
           NEW c \in Ops, NEW s \in Requests, Call(c) \/ CancelRead(c) \/ Retry(s)
    PROVE  WholeRead(o)'
<1> DEFINE r == <<o, 0>>
<1>1. TypeOK /\ LanesTypeOK /\ r \in Requests
  BY RequestParts DEF SystemInv, TypeOK
<1>2. LanesTypeOK'
  BY IssueSystem, CancelSystem DEF TypeOK
<1>3. /\ UNCHANGED <<workerVars, toUi, received>>
      /\ queue' = queue /\ toUi' = toUi /\ received' = received
  BY DEF Call, CancelRead, Retry, workerVars
<1>4. ASSUME toWorker' = toWorker PROVE KeepsFlow(r)
  BY <1>3, <1>4 DEF KeepsFlow, Tracks
<1>5. CASE CancelRead(c)
  <2>1. Post(Cancel(<<c, 0>>)) /\ Cancel(<<c, 0>>) \in Posts /\ Cancel(<<c, 0>>) # Op(r)
    BY <1>1, <1>5, RequestParts, AboutRequest DEF CancelRead, Posts
  <2>2. KeepsFlow(r)
    BY <1>1, <1>3, <2>1, PostFlows
  <2>3. table' \subseteq table /\ issued' = issued /\ outcome' = outcome
    BY <1>5 DEF CancelRead
  <2> QED
    BY <1>1, <1>3, <2>2, <2>3, ReadStays
<1>6. CASE Retry(s)
  <2>1. /\ <<s[1], s[2] + 1>> \in Requests /\ <<s[1], s[2] + 1>> # r /\ issued' = issued
    BY <1>6, RequestParts DEF SystemInv, CallInv, OneAttempt, Retry, MayRetry
  <2> DEFINE a == <<s[1], s[2] + 1>>
  <2>2. outcome'[o] = "ok" => outcome[o] = "ok"
    BY <1>6, FailedFire DEF Retry
  <2>3. table' \subseteq table \union {a}
    BY <1>6 DEF Retry
  <2>4. KeepsFlow(r)
    <3>1. CASE connAlive
      <4>1. Post(Op(a))
        BY <1>6, <3>1 DEF Retry
      <4>2. Op(a) \in Posts /\ Op(a) # Op(r)
        BY <1>1, <2>1, MessageTypes, AboutRequest
      <4> HIDE DEF a
      <4> QED
        BY <1>1, <1>3, <4>1, <4>2, PostFlows
    <3>2. CASE ~connAlive
      BY <1>4, <1>6, <3>2 DEF Retry
    <3> QED
      BY <3>1, <3>2
  <2>5. r \in table' => r \in table
    BY <2>1, <2>3
  <2> QED
    BY <1>1, <1>3, <2>1, <2>2, <2>4, <2>5, ReadStays
<1>7. CASE Call(c) /\ c # o
  <2> DEFINE a == <<c, 0>>
  <2>1. a \in Requests /\ a # r /\ (o \in issued <=> o \in issued')
    BY <1>7, RequestParts DEF Call
  <2>2. outcome'[o] = "ok" => outcome[o] = "ok"
    BY <1>7, FailedFire DEF Call
  <2>3. table' \subseteq table \union {a}
    BY <1>7 DEF Call
  <2>4. KeepsFlow(r)
    <3>1. CASE connAlive
      <4>1. Post(Op(a))
        BY <1>7, <3>1 DEF Call
      <4>2. Op(a) \in Posts /\ Op(a) # Op(r)
        BY <1>1, <2>1, MessageTypes, AboutRequest
      <4> HIDE DEF a
      <4> QED
        BY <1>1, <1>3, <4>1, <4>2, PostFlows
    <3>2. CASE ~connAlive
      BY <1>4, <1>7, <3>2 DEF Call
    <3> QED
      BY <3>1, <3>2
  <2>5. r \in table' => r \in table
    BY <2>1, <2>3
  <2> QED
    BY <1>1, <1>3, <2>1, <2>2, <2>4, <2>5, ReadStays
<1>8. CASE Call(o)
  <2>1. /\ o \notin issued /\ issued' = issued \union {o} /\ received[o] = 0
        /\ outcome[o] # "ok" /\ \A b \in Nat : Tracks(r, b)
    BY <1>8 DEF Call, WholeRead
  <2>2. outcome'[o] # "ok"
    BY <1>8, <2>1, FailedFire DEF Call
  <2>3. CASE connAlive
    <3>1. Post(Op(r))
      BY <1>8, <2>3 DEF Call
    <3>2. Tracks(r, 0)'
      <4> HIDE DEF r
      <4> QED
        BY <1>1, <1>2, <1>3, <2>1, <3>1, IssueFlows
    <3>3. Tracks(r, received[o])'
      BY <1>3, <2>1, <3>2 DEF Tracks
    <3>4. \E b \in Nat : Tracks(r, b)'
      BY <3>2 DEF Tracks
    <3> QED
      BY <2>1, <2>2, <3>3, <3>4 DEF WholeRead
  <2>4. CASE ~connAlive
    <3>1. toWorker' = toWorker /\ table' = table
      BY <1>8, <2>4 DEF Call
    <3>2. \A b \in Nat : Tracks(r, b)'
      BY <1>4, <2>1, <3>1 DEF KeepsFlow
    <3>3. Tracks(r, received[o])'
      BY <1>3, <2>1, <3>2 DEF Tracks
    <3>4. \E b \in Nat : Tracks(r, b)'
      BY <3>2
    <3> QED
      BY <2>1, <2>2, <3>3, <3>4 DEF WholeRead
  <2> QED
    BY <2>3, <2>4
<1> QED
  BY <1>5, <1>6, <1>7, <1>8

\* A signal other than a chunk of r leaves its flow.
LEMMA DeliverKeepsFlow ==
    ASSUME LanesTypeOK, NEW m, Deliver(m), UNCHANGED <<workerVars, toWorker>>, NEW r, m # Chunk(r)
    PROVE  KeepsFlow(r)
<1> SUFFICES ASSUME NEW b \in Nat, Tracks(r, b) PROVE Tracks(r, b)'
  BY DEF KeepsFlow
<1>1. /\ toUi # <<>> /\ toUi' = Tail(toUi) /\ toWorker' = toWorker /\ queue' = queue
      /\ b = IF Head(toUi) = Chunk(r) THEN b + 1 ELSE b
  BY DEF Deliver, workerVars
<1> QED
  BY <1>1, DeliverFlows

\* A chunk of the read is delivered, and counted while the read is registered.
LEMMA ChunkRead ==
    ASSUME SystemInv, NEW o \in Ops, Kind[o] = "stream", WholeRead(o), OnStreamChunk(Chunk(<<o, 0>>))
    PROVE  WholeRead(o)'
<1> DEFINE r == <<o, 0>>
<1>1. TypeOK /\ LanesTypeOK /\ r \in Requests
  BY RequestParts DEF SystemInv, TypeOK
<1>2. /\ toUi # <<>> /\ Head(toUi) = Chunk(r) /\ toUi' = Tail(toUi) /\ toWorker' = toWorker /\ queue' = queue
      /\ table' = table /\ issued' = issued /\ outcome' = outcome
  BY DEF OnStreamChunk, Deliver, workerVars
<1>3. received'[o] = IF r \in table THEN received[o] + 1 ELSE received[o]
  BY DEF OnStreamChunk, Chunk
<1>4. received[o] \in Nat
  BY <1>1 DEF TypeOK
<1>5. \A b \in Nat : Tracks(r, b) => Tracks(r, b + 1)'
  <2> SUFFICES ASSUME NEW b \in Nat, Tracks(r, b) PROVE Tracks(r, b + 1)'
    OBVIOUS
  <2> DEFINE c == b + 1
  <2>1. c = IF Head(toUi) = Chunk(r) THEN b + 1 ELSE b
    BY <1>2
  <2> HIDE DEF c
  <2>2. Tracks(r, c)'
    BY <1>1, <1>2, <2>1, DeliverFlows
  <2> QED
    BY <2>2 DEF c
<1>6. \E b \in Nat : Tracks(r, b)'
  <2>1. PICK b \in Nat : Tracks(r, b)
    BY DEF WholeRead
  <2>2. b + 1 \in Nat /\ Tracks(r, b + 1)'
    BY <1>5, <2>1
  <2> QED
    BY <2>2
<1>7. r \in table => Tracks(r, received[o])'
  <2> SUFFICES ASSUME r \in table PROVE Flow(r, received'[o], toWorker', queue', toUi')
    BY DEF Tracks
  <2>1. PICK b \in Nat : b = received[o]
    BY <1>4
  <2>2. Tracks(r, b)
    BY <2>1 DEF WholeRead
  <2>3. Tracks(r, b + 1)'
    BY <1>5, <2>2
  <2> QED
    BY <1>3, <2>1, <2>3 DEF Tracks
<1>8. o \in issued
  <2> SUFFICES ASSUME o \notin issued PROVE FALSE
    OBVIOUS
  <2>1. FileChunks + 1 \in Nat /\ FileChunks \in Nat
    BY LimitAssumption
  <2>2. Tracks(r, FileChunks + 1)
    BY <2>1 DEF WholeRead
  <2>3. Tally(toUi, {Chunk(r)}) \in Nat /\ Tally(toUi, {Chunk(r)}) > 0 /\ Tally(toUi, Answers(r)) \in Nat
    <3>1. toUi \in Seq(Signals) /\ toUi[1] \in {Chunk(r)} /\ 1 \in 1 .. Len(toUi)
      BY <1>1, <1>2, EmptySeq, LenProperties DEF LanesTypeOK
    <3> QED
      BY <1>1, <3>1, TallyType, WaitsType
  <2>4. (FileChunks + 1) + Tally(toUi, {Chunk(r)}) <= FileChunks
    BY <2>2, <2>3 DEF Tracks, Flow
  <2> QED
    BY <2>1, <2>3, <2>4
<1>9. outcome[o] = "ok" => received[o] = FileChunks /\ r \notin table
  BY DEF WholeRead
<1> QED
  BY <1>2, <1>3, <1>6, <1>7, <1>8, <1>9 DEF WholeRead

\* The result of a request, of the read or of another call.
LEMMA ResultRead ==
    ASSUME SystemInv, NEW o \in Ops, Kind[o] = "stream", WholeRead(o), NEW m \in Signals, OnResult(m)
    PROVE  WholeRead(o)'
<1> DEFINE r == <<o, 0>>
<1>1. TypeOK /\ LanesTypeOK /\ r \in Requests
  BY RequestParts DEF SystemInv, TypeOK
<1>2. /\ Deliver(m) /\ UNCHANGED <<workerVars, toWorker>> /\ m.type = "done"
      /\ table' = table \ {m.req} /\ received' = received /\ issued' = issued
  BY DEF OnResult
<1>3. m # Chunk(r)
  BY <1>2 DEF Chunk
<1>4. KeepsFlow(r)
  BY <1>1, <1>2, <1>3, DeliverKeepsFlow
<1>5. CASE outcome'[o] = "ok" => outcome[o] = "ok"
  BY <1>1, <1>2, <1>4, <1>5, ReadStays
<1>6. CASE outcome'[o] = "ok" /\ outcome[o] # "ok"
  <2>1. m.req \in table /\ m.ok = TRUE /\ m.req[1] = o
    <3>1. m.req \in table /\ Fire({m.req[1]}, IF m.ok THEN "ok" ELSE "failed")
      BY <1>6 DEF OnResult, Unfired
    <3>2. m.req[1] = o /\ (IF m.ok THEN "ok" ELSE "failed") = "ok"
      BY <1>6, <3>1 DEF Fire
    <3>3. m.ok
      BY <3>2
    <3>4. m.ok = TRUE \/ m.ok = FALSE
      <4>1. m \in {Done(s) : s \in Requests} \union {Failed(s, tr) : s \in Requests, tr \in BOOLEAN}
        BY <1>2 DEF Signals, Lost, Chunk
      <4> QED
        BY <4>1 DEF Done, Failed
    <3> QED
      BY <3>1, <3>2, <3>3, <3>4
  <2>2. m.req = r
    <3>1. m.req \in Requests /\ m.req = <<m.req[1], m.req[2]>> /\ m.req[2] \in 0 .. MaxRetries
      BY <1>1, <2>1, RequestParts DEF TypeOK
    <3>2. ~(m.req[2] > 0)
      BY <2>1 DEF SystemInv, CallInv, OneAttempt, Owed, Retried
    <3>3. m.req[2] = 0
      BY <3>1, <3>2
    <3> QED
      BY <2>1, <3>1, <3>3
  <2>3. m = Done(r)
    <3>1. m.type # "lost" /\ m.type # "chunk"
      BY <1>2
    <3>2. m \in {Done(s) : s \in Requests} \union {Failed(s, tr) : s \in Requests, tr \in BOOLEAN}
      BY <3>1 DEF Signals, Lost, Chunk
    <3> QED
      BY <2>1, <2>2, <3>2 DEF Done, Failed
  <2>4. received[o] \in Nat /\ Tracks(r, received[o])
    BY <1>1, <2>1, <2>2 DEF TypeOK, WholeRead
  <2>5. received[o] = FileChunks
    BY <1>1, <1>2, <2>3, <2>4, DoneIsLast DEF Deliver
  <2>6. o \in issued
    BY <2>1 DEF SystemInv, CallInv, OneAttempt, Owed
  <2>7. \E b \in Nat : Tracks(r, b)'
    BY <1>4, <2>4 DEF KeepsFlow
  <2> QED
    BY <1>2, <2>2, <2>5, <2>6, <2>7 DEF WholeRead
<1> QED
  BY <1>5, <1>6

\* Every step preserves the invariant.
LEMMA NextReadInv == ReadInv /\ [Next]_vars => ReadInv'
<1> SUFFICES ASSUME ReadInv, [Next]_vars, NEW o \in Ops, Kind[o] = "stream" PROVE WholeRead(o)'
  BY NextSystemInv DEF ReadInv
<1> DEFINE r == <<o, 0>>
<1>1. SystemInv /\ WholeRead(o) /\ TypeOK /\ LanesTypeOK /\ r \in Requests
  BY RequestParts DEF ReadInv, SystemInv, TypeOK
<1>2. ASSUME NEW c \in Ops, Call(c) \/ CancelRead(c) PROVE WholeRead(o)'
  BY <1>1, <1>2, PostRead
<1>3. ASSUME NEW s \in Requests, Retry(s) PROVE WholeRead(o)'
  BY <1>1, <1>3, PostRead
<1>4. ASSUME NEW m \in Signals, OnResult(m) PROVE WholeRead(o)'
  BY <1>1, <1>4, ResultRead
<1>5. ASSUME NEW m \in Signals, OnStreamChunk(m) PROVE WholeRead(o)'
  <2>1. CASE m = Chunk(r)
    BY <1>1, <1>5, <2>1, ChunkRead
  <2>2. CASE m # Chunk(r)
    <3>1. /\ Deliver(m) /\ UNCHANGED <<workerVars, toWorker>>
          /\ table' = table /\ issued' = issued /\ outcome' = outcome
      BY <1>5 DEF OnStreamChunk
    <3>2. m \in {Chunk(s) : s \in Requests}
      BY <1>5 DEF OnStreamChunk, Signals, Lost, Done, Failed
    <3>3. received'[o] = received[o]
      <4>1. m.req # r \/ m.req[1] # o \/ m.req \notin table
        BY <2>2, <3>2 DEF Chunk
      <4>2. m.req \in table /\ m.req[1] = o => m.req = r
        <5> SUFFICES ASSUME m.req \in table, m.req[1] = o PROVE m.req = r
          OBVIOUS
        <5>1. m.req \in Requests /\ m.req = <<m.req[1], m.req[2]>> /\ m.req[2] \in 0 .. MaxRetries
          BY <1>1, RequestParts DEF TypeOK
        <5>2. ~(m.req[2] > 0)
          BY <1>1 DEF SystemInv, CallInv, OneAttempt, Owed, Retried
        <5>3. m.req[2] = 0
          BY <5>1, <5>2
        <5> QED
          BY <5>1, <5>3
      <4> QED
        BY <1>5, <4>1, <4>2 DEF OnStreamChunk
    <3>4. KeepsFlow(r)
      BY <1>1, <2>2, <3>1, DeliverKeepsFlow
    <3> QED
      BY <1>1, <3>1, <3>3, <3>4, ReadStays
  <2> QED
    BY <2>1, <2>2
<1>6. CASE OnConnectionLost
  <2>1. /\ Deliver(Lost) /\ UNCHANGED <<workerVars, toWorker>>
        /\ table' = {} /\ issued' = issued /\ received' = received
    BY <1>6 DEF OnConnectionLost
  <2>2. outcome'[o] = "ok" => outcome[o] = "ok"
    BY <1>6, FailedFire DEF OnConnectionLost
  <2>3. Lost # Chunk(r)
    BY DEF Lost, Chunk
  <2>4. KeepsFlow(r)
    BY <1>1, <2>1, <2>3, DeliverKeepsFlow
  <2> QED
    BY <1>1, <2>1, <2>2, <2>4, ReadStays
<1>7. CASE ConnectToHost \/ DisconnectFromHost
  <2>1. PICK m \in {Connect, Disconnect} : Post(m)
    BY <1>7 DEF ConnectToHost, DisconnectFromHost, Control
  <2>2. /\ UNCHANGED <<workerVars, toUi>> /\ table' = table /\ issued' = issued
        /\ received' = received /\ outcome' = outcome
    BY <1>7 DEF ConnectToHost, DisconnectFromHost, Control, uiVars
  <2>3. m \in Posts /\ m # Op(r)
    BY <1>1, AboutRequest DEF Posts
  <2>4. KeepsFlow(r)
    BY <1>1, <2>1, <2>2, <2>3, PostFlows
  <2> QED
    BY <1>1, <2>2, <2>4, ReadStays
<1>8. CASE ConnectionDestroyed
  <2>1. /\ queue' = NoItems /\ toWorker' = <<>> /\ toUi' = <<>>
        /\ table' = table /\ issued' = issued /\ received' = received /\ outcome' = outcome
    BY <1>8 DEF ConnectionDestroyed
  <2>2. KeepsFlow(r)
    <3> SUFFICES ASSUME NEW b \in Nat PROVE Tracks(r, b)'
      BY DEF KeepsFlow
    <3> QED
      BY <2>1, NothingFlows DEF Tracks
  <2> QED
    BY <1>1, <2>1, <2>2, ReadStays
<1>9. CASE BackendDestroyed
  <2>1. /\ UNCHANGED <<workerVars, toWorker, toUi>> /\ table' = {} /\ issued' = issued /\ received' = received
        /\ outcome'[o] = "ok" => outcome[o] = "ok"
    BY <1>9, FailedFire DEF BackendDestroyed
  <2>2. KeepsFlow(r)
    BY <2>1 DEF KeepsFlow, Tracks, workerVars
  <2> QED
    BY <1>1, <2>1, <2>2, ReadStays
<1>10. CASE Worker(WorkerStep)
  <2>1. /\ WorkerStep /\ table' = table /\ issued' = issued /\ received' = received /\ outcome' = outcome
    BY <1>10 DEF Worker, uiVars
  <2>2. r[1] = o
    OBVIOUS
  <2> HIDE DEF r
  <2>3. KeepsFlow(r)
    BY <1>1, <2>1, <2>2, WorkerFlows DEF KeepsFlow
  <2> USE DEF r
  <2> QED
    BY <1>1, <2>1, <2>3, ReadStays
<1>11. CASE UNCHANGED vars
  <2>1. /\ UNCHANGED <<workerVars, toWorker, toUi>> /\ table' = table /\ issued' = issued
        /\ received' = received /\ outcome' = outcome
    BY <1>11 DEF vars, uiVars
  <2>2. KeepsFlow(r)
    BY <2>1 DEF KeepsFlow, Tracks, workerVars
  <2> QED
    BY <1>1, <2>1, <2>2, ReadStays
<1> QED
  BY <1>2, <1>3, <1>4, <1>5, <1>6, <1>7, <1>8, <1>9, <1>10, <1>11 DEF Next, UiStep

\* Nothing is under way initially.
LEMMA InitReadInv == Init => ReadInv
<1> SUFFICES ASSUME Init, NEW o \in Ops PROVE WholeRead(o)
  BY InitSystemInv DEF ReadInv
<1>1. queue = NoItems /\ toWorker = <<>> /\ toUi = <<>>
  BY DEF Init, LanesInit
<1>2. \A b \in Nat : Tracks(<<o, 0>>, b)
  BY <1>1, NothingFlows DEF Tracks
<1> QED
  BY <1>2 DEF WholeRead, Init

\* A streaming read that reports success has delivered every chunk of the file:
\* chunks and result travel in order, and no other request is taken for it.
THEOREM ReadsAreWhole == Spec => []StreamWhole
<1>1. ReadInv => StreamWhole
  BY DEF ReadInv, WholeRead, StreamWhole
<1>2. Spec => []ReadInv
  BY InitReadInv, NextReadInv, PTL DEF Spec
<1> QED
  BY <1>1, <1>2, PTL
=============================================================================
