-------------------------- MODULE SftpLanes_proofs --------------------------
(* Lemmas about the worker's queues: what appending, taking and failing do to *)
(* their contents; that every step of the worker keeps their types and loses  *)
(* no request; and that the chunks and the answer of a streaming read flow    *)
(* through them in order, each once.                                          *)
EXTENDS SftpLanes, SequenceTheorems, FiniteSetTheorems, TLAPS

\* Appending one element adds it to the contents.
LEMMA AppendContents ==
    ASSUME NEW S, NEW s \in Seq(S), NEW e \in S
    PROVE  Append(s, e) \in Seq(S) /\ ToSet(Append(s, e)) = ToSet(s) \union {e}
<1>1. /\ Append(s, e) \in Seq(S) /\ Len(Append(s, e)) = Len(s) + 1 /\ Len(s) \in Nat
      /\ \A i \in 1 .. Len(s) : Append(s, e)[i] = s[i]
      /\ Append(s, e)[Len(s) + 1] = e
  OBVIOUS
<1>2. DOMAIN s = 1 .. Len(s) /\ DOMAIN Append(s, e) = 1 .. (Len(s) + 1)
  BY <1>1, LenProperties
<1> QED
  BY <1>1, <1>2 DEF ToSet

\* A sequence holds its head and what its tail holds.
LEMMA TailContents ==
    ASSUME NEW S, NEW s \in Seq(S), s # <<>>
    PROVE  /\ Head(s) \in S /\ Head(s) \in ToSet(s)
           /\ Tail(s) \in Seq(S)
           /\ ToSet(s) = {Head(s)} \union ToSet(Tail(s))
<1>1. /\ Head(s) \in S /\ Tail(s) \in Seq(S) /\ Len(Tail(s)) = Len(s) - 1
      /\ \A i \in 1 .. Len(Tail(s)) : Tail(s)[i] = s[i + 1]
  BY HeadTailProperties
<1>2. /\ DOMAIN s = 1 .. Len(s) /\ DOMAIN Tail(s) = 1 .. (Len(s) - 1)
      /\ Len(s) \in Nat \ {0} /\ Head(s) = s[1]
  BY <1>1, LenProperties, EmptySeq
<1>5. ToSet(s) \subseteq {Head(s)} \union ToSet(Tail(s))
  <2> SUFFICES ASSUME NEW i \in 1 .. Len(s)
               PROVE  s[i] = Head(s) \/ s[i] \in ToSet(Tail(s))
    BY <1>2 DEF ToSet
  <2>1. CASE i = 1
    BY <1>2, <2>1
  <2>2. CASE i # 1
    <3>1. (i - 1) \in 1 .. Len(Tail(s)) /\ (i - 1) + 1 = i
      BY <1>1, <1>2, <2>2
    <3>2. Tail(s)[i - 1] = s[i]
      BY <1>1, <3>1
    <3> QED
      BY <1>1, <1>2, <3>1, <3>2 DEF ToSet
  <2> QED
    BY <2>1, <2>2
<1>6. {Head(s)} \union ToSet(Tail(s)) \subseteq ToSet(s)
  BY <1>1, <1>2 DEF ToSet
<1> QED
  BY <1>1, <1>5, <1>6

\* A concatenation holds what its parts hold.
LEMMA ConcatContents ==
    ASSUME NEW S, NEW s \in Seq(S), NEW t \in Seq(S)
    PROVE  s \o t \in Seq(S) /\ ToSet(s \o t) = ToSet(s) \union ToSet(t)
<1>1. /\ s \o t \in Seq(S) /\ Len(s \o t) = Len(s) + Len(t)
      /\ Len(s) \in Nat /\ Len(t) \in Nat
      /\ DOMAIN s = 1 .. Len(s) /\ DOMAIN t = 1 .. Len(t)
      /\ DOMAIN (s \o t) = 1 .. (Len(s) + Len(t))
  BY ConcatProperties, LenProperties
<1>2. \A i \in 1 .. (Len(s) + Len(t)) :
          (s \o t)[i] = IF i <= Len(s) THEN s[i] ELSE t[i - Len(s)]
  BY ConcatProperties
<1>3. ToSet(s \o t) \subseteq ToSet(s) \union ToSet(t)
  BY <1>1, <1>2 DEF ToSet
<1>4. ToSet(s) \subseteq ToSet(s \o t)
  BY <1>1, <1>2 DEF ToSet
<1>5. ToSet(t) \subseteq ToSet(s \o t)
  <2> SUFFICES ASSUME NEW i \in 1 .. Len(t) PROVE t[i] \in ToSet(s \o t)
    BY <1>1 DEF ToSet
  <2>1. (i + Len(s)) \in 1 .. (Len(s) + Len(t)) /\ ~(i + Len(s) <= Len(s))
        /\ (i + Len(s)) - Len(s) = i
    BY <1>1
  <2> QED
    BY <1>1, <1>2, <2>1 DEF ToSet
<1> QED
  BY <1>1, <1>3, <1>4, <1>5

\* Elements of a typed sequence.
LEMMA ContentsType ==
    ASSUME NEW S, NEW s \in Seq(S)
    PROVE  /\ ToSet(s) \subseteq S
           /\ \A i \in 1 .. Len(s) : s[i] \in ToSet(s)
           /\ \A x \in ToSet(s) : \E i \in 1 .. Len(s) : x = s[i]
  BY LenProperties, ElementOfSeq DEF ToSet

-----------------------------------------------------------------------------
\* The messages are posts and signals.
LEMMA MessageTypes ==
    ASSUME NEW r \in Requests
    PROVE  /\ Op(r) \in Posts /\ Cancel(r) \in Posts
           /\ Done(r) \in Signals /\ Chunk(r) \in Signals
           /\ \A tr \in BOOLEAN : Failed(r, tr) \in Signals
  BY DEF Posts, Signals

\* FailItems answers every operation it is given.
LEMMA FailItemsContents ==
    ASSUME NEW items \in Seq(Item), NEW tr \in BOOLEAN
    PROVE  /\ FailItems(items, tr) \in Seq(Signals)
           /\ \A item \in ToSet(items) : Failed(item.req, tr) \in ToSet(FailItems(items, tr))
<1>1. Len(items) \in Nat /\ DOMAIN items = 1 .. Len(items)
  BY LenProperties
<1>2. \A i \in 1 .. Len(items) : items[i].req \in Requests
  <2> SUFFICES ASSUME NEW i \in 1 .. Len(items) PROVE items[i].req \in Requests
    OBVIOUS
  <2>1. items[i] \in Item
    BY ElementOfSeq
  <2> QED
    BY <2>1 DEF Item
<1>3. \A i \in 1 .. Len(items) : Failed(items[i].req, tr) \in Signals
  BY <1>2, MessageTypes
<1>4. FailItems(items, tr) \in Seq(Signals)
  BY <1>1, <1>3, SeqDef DEF FailItems
<1>5. DOMAIN FailItems(items, tr) = 1 .. Len(items)
  BY DEF FailItems
<1>6. \A i \in 1 .. Len(items) : FailItems(items, tr)[i] = Failed(items[i].req, tr)
  BY DEF FailItems
<1> QED
  BY <1>1, <1>4, <1>5, <1>6 DEF ToSet

\* failAllSftp answers every queued operation.
LEMMA FailAllContents ==
    ASSUME LanesTypeOK, NEW tr \in BOOLEAN
    PROVE  /\ failAllSftp(tr) \in Seq(Signals)
           /\ \A l \in Lanes : \A item \in ToSet(queue[l]) :
                 Failed(item.req, tr) \in ToSet(failAllSftp(tr))
<1>1. queue["bulk"] \in Seq(Item) /\ queue["meta"] \in Seq(Item)
  BY DEF LanesTypeOK, Lanes
<1>2. /\ FailItems(queue["bulk"], tr) \in Seq(Signals)
      /\ FailItems(queue["meta"], tr) \in Seq(Signals)
  BY <1>1, FailItemsContents
<1>3. /\ failAllSftp(tr) \in Seq(Signals)
      /\ ToSet(failAllSftp(tr))
           = ToSet(FailItems(queue["bulk"], tr)) \union ToSet(FailItems(queue["meta"], tr))
  BY <1>2, ConcatContents DEF failAllSftp
<1> QED
  BY <1>1, <1>3, FailItemsContents DEF Lanes

-----------------------------------------------------------------------------
\* Every request that is in transit stays in transit.
Keeps == \A r \in Requests : InTransit(r) => InTransit(r)'

\* What has been answered stays so while results are only added.
LEMMA RepliedStays ==
    ASSUME ToSet(toUi) \subseteq ToSet(toUi')
    PROVE  \A r \in Requests : Replied(r) => Replied(r)'
  BY DEF Replied

\* Taking a post removes it and nothing else.
LEMMA TakeContents ==
    ASSUME LanesTypeOK, NEW m, Take(m)
    PROVE  /\ toWorker' \in Seq(Posts)
           /\ ToSet(toWorker) = {m} \union ToSet(toWorker')
  BY TailContents DEF LanesTypeOK, Take

\* A finished operation leaves its lane with its answer.
LEMMA FinishKeeps ==
    ASSUME LanesTypeOK, NEW l \in Lanes, queue[l] # <<>>,
           NEW res \in Signals, res.type = "done", res.req = HeadOf(l).req,
           Finish(l, res), UNCHANGED toWorker
    PROVE  /\ queue' \in [Lanes -> Seq(Item)] /\ toUi' \in Seq(Signals)
           /\ Keeps
<1>1. queue \in [Lanes -> Seq(Item)] /\ toUi \in Seq(Signals) /\ queue[l] \in Seq(Item)
  BY DEF LanesTypeOK
<1>2. /\ Tail(queue[l]) \in Seq(Item)
      /\ ToSet(queue[l]) = {HeadOf(l)} \union ToSet(Tail(queue[l]))
  BY <1>1, TailContents DEF HeadOf
<1>3. /\ toUi' \in Seq(Signals) /\ ToSet(toUi') = ToSet(toUi) \union {res}
  BY <1>1, AppendContents DEF Finish
<1>4. /\ queue' \in [Lanes -> Seq(Item)] /\ queue'[l] = Tail(queue[l])
      /\ \A k \in Lanes \ {l} : queue'[k] = queue[k]
  BY <1>1, <1>2 DEF Finish
<1>5. \A r \in Requests : Queued(r) => Queued(r)' \/ r = HeadOf(l).req
  BY <1>2, <1>4 DEF Queued, laneForKind, Lanes
<1>6. \A r \in Requests : r = HeadOf(l).req => Replied(r)'
  BY <1>3 DEF Replied
<1>7. \A r \in Requests : Replied(r) => Replied(r)'
  BY <1>3, RepliedStays
<1>8. \A r \in Requests : Posted(r) => Posted(r)'
  BY DEF Posted
<1>9. Keeps
  BY <1>5, <1>6, <1>7, <1>8 DEF Keeps, InTransit
<1> QED
  BY <1>3, <1>4, <1>9

\* An operation that moves on stays at the head of its lane.
LEMMA AdvanceKeeps ==
    ASSUME LanesTypeOK, NEW l \in Lanes, queue[l] # <<>>,
           NEW item \in Item, item.req = HeadOf(l).req,
           Advance(l, item), UNCHANGED toWorker, ToSet(toUi) \subseteq ToSet(toUi')
    PROVE  queue' \in [Lanes -> Seq(Item)] /\ Keeps
<1>1. queue \in [Lanes -> Seq(Item)] /\ queue[l] \in Seq(Item)
  BY DEF LanesTypeOK
<1>2. /\ Tail(queue[l]) \in Seq(Item)
      /\ ToSet(queue[l]) = {HeadOf(l)} \union ToSet(Tail(queue[l]))
  BY <1>1, TailContents DEF HeadOf
<1>3. <<item>> \in Seq(Item) /\ item \in ToSet(<<item>>)
  BY DEF ToSet
<1> DEFINE one == <<item>>
           rest == Tail(queue[l])
<1>a. one \in Seq(Item) /\ rest \in Seq(Item)
  BY <1>2, <1>3
<1> HIDE DEF one, rest
<1>b. one \o rest \in Seq(Item) /\ ToSet(one \o rest) = ToSet(one) \union ToSet(rest)
  BY <1>a, ConcatContents
<1>4. /\ <<item>> \o Tail(queue[l]) \in Seq(Item)
      /\ ToSet(<<item>> \o Tail(queue[l])) = ToSet(<<item>>) \union ToSet(Tail(queue[l]))
  BY <1>b DEF one, rest
<1>5. /\ queue' \in [Lanes -> Seq(Item)] /\ queue'[l] = <<item>> \o Tail(queue[l])
      /\ \A k \in Lanes \ {l} : queue'[k] = queue[k]
  BY <1>1, <1>4 DEF Advance
<1>6. \A r \in Requests : Queued(r) => Queued(r)'
  BY <1>2, <1>3, <1>4, <1>5 DEF Queued, laneForKind, Lanes
<1>7. \A r \in Requests : Replied(r) => Replied(r)'
  BY RepliedStays
<1> QED
  BY <1>5, <1>6, <1>7 DEF Keeps, InTransit, Posted

\* Failing everything moves every queued operation to the answers.
LEMMA FailAllKeeps ==
    ASSUME LanesTypeOK, NEW tr \in BOOLEAN, queue' = NoItems,
           \A r \in Requests : Posted(r) => Posted(r)',
           toUi' = toUi \o failAllSftp(tr) \/ toUi' = Append(toUi \o failAllSftp(tr), Lost)
    PROVE  queue' \in [Lanes -> Seq(Item)] /\ toUi' \in Seq(Signals) /\ Keeps
<1> DEFINE base == toUi \o failAllSftp(tr)
<1>1. toUi \in Seq(Signals) /\ queue \in [Lanes -> Seq(Item)] /\ Lost \in Signals
  BY DEF LanesTypeOK, Signals
<1>2. failAllSftp(tr) \in Seq(Signals)
  BY FailAllContents
<1>3. base \in Seq(Signals) /\ ToSet(base) = ToSet(toUi) \union ToSet(failAllSftp(tr))
  BY <1>1, <1>2, ConcatContents
<1> HIDE DEF base
<1>4. Append(base, Lost) \in Seq(Signals) /\ ToSet(Append(base, Lost)) = ToSet(base) \union {Lost}
  BY <1>1, <1>3, AppendContents
<1>5. toUi' \in Seq(Signals) /\ ToSet(base) \subseteq ToSet(toUi')
  BY <1>3, <1>4 DEF base
<1>6. queue' \in [Lanes -> Seq(Item)]
  BY EmptySeq DEF NoItems
<1>7. ASSUME NEW r \in Requests, Queued(r) PROVE Replied(r)'
  <2>1. PICK item \in ToSet(queue[laneForKind(r)]) : item.req = r
    BY <1>7 DEF Queued
  <2>2. Failed(r, tr) \in ToSet(failAllSftp(tr))
    BY <2>1, FailAllContents DEF laneForKind, Lanes
  <2>3. Failed(r, tr) \in ToSet(toUi')
    BY <1>3, <1>5, <2>2
  <2> QED
    BY <2>3 DEF Replied, Failed
<1>8. \A r \in Requests : Replied(r) => Replied(r)'
  BY <1>3, <1>5, RepliedStays
<1> QED
  BY <1>5, <1>6, <1>7, <1>8 DEF Keeps, InTransit

-----------------------------------------------------------------------------
\* Where nothing moves, every request stays where it is.
LEMMA SameKeeps ==
    ASSUME LanesTypeOK, UNCHANGED <<queue, toUi>>,
           \A r \in Requests : Posted(r) => Posted(r)'
    PROVE  Keeps
<1>1. \A r \in Requests : (Queued(r) => Queued(r)') /\ (Replied(r) => Replied(r)')
  BY DEF Queued, Replied
<1> QED
  BY <1>1 DEF Keeps, InTransit

\* Taking a post that is no operation keeps the operations posted.
LEMMA TakeOther ==
    ASSUME LanesTypeOK, NEW m, Take(m), m.type # "op"
    PROVE  \A r \in Requests : Posted(r) => Posted(r)'
  BY TakeContents DEF Posted, Op

\* enqueueSftpOp queues the request it takes, or answers it.
LEMMA EnqueueKeeps ==
    ASSUME LanesTypeOK, NEW r \in Requests, enqueueSftpOp(r)
    PROVE  LanesTypeOK' /\ Keeps
<1>1. /\ Take(Op(r)) /\ UNCHANGED <<state, inited>>
      /\ queue \in [Lanes -> Seq(Item)] /\ toUi \in Seq(Signals)
  BY DEF enqueueSftpOp, LanesTypeOK
<1>2. toWorker' \in Seq(Posts) /\ ToSet(toWorker) = {Op(r)} \union ToSet(toWorker')
  BY <1>1, TakeContents
<1>3. \A q \in Requests : Posted(q) => q = r \/ Posted(q)'
  BY <1>2 DEF Posted, Op
<1>4. CASE state = "down"
  <2>1. toUi' = Append(toUi, Failed(r, TRUE)) /\ UNCHANGED queue
    BY <1>4 DEF enqueueSftpOp
  <2>2. toUi' \in Seq(Signals) /\ ToSet(toUi') = ToSet(toUi) \union {Failed(r, TRUE)}
    BY <1>1, <2>1, MessageTypes, AppendContents
  <2>a. Failed(r, TRUE).type = "done" /\ Failed(r, TRUE).req = r
    BY DEF Failed
  <2>3. \A q \in Requests : q = r \/ Replied(q) => Replied(q)'
    BY <2>2, <2>a DEF Replied
  <2>4. \A q \in Requests : Queued(q) => Queued(q)'
    BY <2>1 DEF Queued
  <2> QED
    BY <1>1, <1>2, <1>3, <2>1, <2>2, <2>3, <2>4 DEF Keeps, InTransit, LanesTypeOK
<1>5. CASE state # "down"
  <2> DEFINE l == laneForKind(r)
  <2>1. /\ queue' = [queue EXCEPT ![l] = Append(@, NewItem(r))] /\ UNCHANGED toUi
        /\ l \in Lanes
    BY <1>5 DEF enqueueSftpOp, laneForKind, Lanes
  <2>2. NewItem(r) \in Item /\ NewItem(r).req = r
    BY LimitAssumption DEF NewItem, Item
  <2>3. queue[l] \in Seq(Item)
    BY <1>1, <2>1
  <2>4. /\ Append(queue[l], NewItem(r)) \in Seq(Item)
        /\ ToSet(Append(queue[l], NewItem(r))) = ToSet(queue[l]) \union {NewItem(r)}
    BY <2>2, <2>3, AppendContents
  <2>5. /\ queue' \in [Lanes -> Seq(Item)] /\ queue'[l] = Append(queue[l], NewItem(r))
        /\ \A k \in Lanes \ {l} : queue'[k] = queue[k]
    BY <1>1, <2>1, <2>4
  <2>6. NewItem(r) \in ToSet(queue'[l]) /\ \A k \in Lanes : ToSet(queue[k]) \subseteq ToSet(queue'[k])
    BY <2>4, <2>5
  <2>7. Queued(r)'
    BY <2>2, <2>6 DEF Queued
  <2>8. \A q \in Requests : laneForKind(q) \in Lanes
    BY DEF laneForKind, Lanes
  <2>9. \A q \in Requests : Queued(q) => Queued(q)'
    BY <2>6, <2>8 DEF Queued
  <2>10. \A q \in Requests : Replied(q) => Replied(q)'
    BY <2>1 DEF Replied
  <2>11. LanesTypeOK'
    BY <1>1, <1>2, <2>1, <2>5 DEF LanesTypeOK
  <2> QED
    BY <1>3, <2>7, <2>9, <2>10, <2>11 DEF Keeps, InTransit
<1> QED
  BY <1>4, <1>5

\* Taking one operation out of a lane keeps the others, and their requests.
LEMMA TakeOutContents ==
    ASSUME NEW q \in Seq(Item), NEW i \in 1 .. Len(q),
           NEW rest, rest = [j \in 1 .. Len(q) - 1 |-> Orphaned(q[IF j < i THEN j ELSE j + 1])]
    PROVE  /\ rest \in Seq(Item)
           /\ \A item \in ToSet(q) : item.req = q[i].req
                 \/ \E other \in ToSet(rest) : other.req = item.req
<1>1. Len(q) \in Nat /\ DOMAIN q = 1 .. Len(q) /\ \A k \in 1 .. Len(q) : q[k] \in Item
  BY LenProperties, ElementOfSeq
<1>2. \A item \in Item : Orphaned(item) \in Item /\ Orphaned(item).req = item.req
  BY DEF Orphaned, Item
<1>3. \A j \in 1 .. Len(q) - 1 : (IF j < i THEN j ELSE j + 1) \in 1 .. Len(q)
  BY <1>1
<1>4. \A j \in 1 .. Len(q) - 1 : rest[j] \in Item
  BY <1>1, <1>2, <1>3
<1>5. Len(q) - 1 \in Nat /\ DOMAIN rest = 1 .. Len(q) - 1
  BY <1>1
<1>6. rest \in Seq(Item)
  BY <1>4, <1>5, SeqDef
<1>7. ASSUME NEW k \in 1 .. Len(q), k # i
      PROVE  \E other \in ToSet(rest) : other.req = q[k].req
  <2> DEFINE j == IF k < i THEN k ELSE k - 1
  <2>1. j \in 1 .. Len(q) - 1 /\ (IF j < i THEN j ELSE j + 1) = k
    BY <1>1, <1>7
  <2>2. rest[j] = Orphaned(q[k])
    BY <2>1
  <2>3. rest[j].req = q[k].req
    BY <1>1, <1>2, <2>2
  <2> QED
    BY <1>5, <2>1, <2>3 DEF ToSet
<1>8. ASSUME NEW item \in ToSet(q)
      PROVE  item.req = q[i].req \/ \E other \in ToSet(rest) : other.req = item.req
  <2>1. PICK k \in 1 .. Len(q) : item = q[k]
    BY <1>1, <1>8 DEF ToSet
  <2>2. CASE k = i
    BY <2>1, <2>2
  <2>3. CASE k # i
    BY <1>7, <2>1, <2>3
  <2> QED
    BY <2>2, <2>3
<1> QED
  BY <1>6, <1>8

\* requestSftpCancelBulk answers what it takes out.
LEMMA CancelBulkKeeps ==
    ASSUME LanesTypeOK, NEW r \in Requests, requestSftpCancelBulk(r)
    PROVE  LanesTypeOK' /\ Keeps
<1>1. /\ Take(Cancel(r)) /\ UNCHANGED state
      /\ queue \in [Lanes -> Seq(Item)] /\ queue["bulk"] \in Seq(Item)
      /\ toUi \in Seq(Signals) /\ inited \in [Lanes -> BOOLEAN]
  BY DEF requestSftpCancelBulk, LanesTypeOK, Lanes
<1>2. toWorker' \in Seq(Posts) /\ \A q \in Requests : Posted(q) => Posted(q)'
  BY <1>1, TakeContents, TakeOther DEF Cancel
<1>3. CASE UNCHANGED <<queue, inited, toUi>>
  BY <1>1, <1>2, <1>3, SameKeeps DEF LanesTypeOK
<1>4. ASSUME NEW i \in 1 .. Len(queue["bulk"]),
             queue["bulk"][i].req = r,
             queue' = [queue EXCEPT !["bulk"] =
                 [j \in 1 .. Len(queue["bulk"]) - 1 |->
                     Orphaned(queue["bulk"][IF j < i THEN j ELSE j + 1])]],
             inited' = [inited EXCEPT !["bulk"] = FALSE],
             toUi' = Append(toUi, Failed(r, FALSE))
      PROVE  LanesTypeOK' /\ Keeps
  <2> DEFINE rest == [j \in 1 .. Len(queue["bulk"]) - 1 |->
                         Orphaned(queue["bulk"][IF j < i THEN j ELSE j + 1])]
  <2> DEFINE bulk == queue["bulk"]
  <2>0. bulk \in Seq(Item) /\ i \in 1 .. Len(bulk) /\ bulk[i].req = r
        /\ rest = [j \in 1 .. Len(bulk) - 1 |-> Orphaned(bulk[IF j < i THEN j ELSE j + 1])]
    BY <1>1, <1>4
  <2> HIDE DEF bulk, rest
  <2>a. /\ rest \in Seq(Item)
        /\ \A item \in ToSet(bulk) : item.req = bulk[i].req
              \/ \E other \in ToSet(rest) : other.req = item.req
    BY <2>0, TakeOutContents
  <2> USE DEF rest
  <2>1. /\ rest \in Seq(Item)
        /\ \A item \in ToSet(queue["bulk"]) : item.req = r
              \/ \E other \in ToSet(rest) : other.req = item.req
    BY <2>0, <2>a DEF bulk
  <2>2. /\ queue' \in [Lanes -> Seq(Item)] /\ queue'["bulk"] = rest
        /\ queue'["meta"] = queue["meta"]
    BY <1>1, <1>4, <2>1 DEF Lanes
  <2> DEFINE res == Failed(r, FALSE)
  <2>b. res \in Signals /\ res.type = "done" /\ res.req = r /\ toUi' = Append(toUi, res)
    BY <1>4, MessageTypes DEF Failed
  <2> HIDE DEF res
  <2>3. toUi' \in Seq(Signals) /\ ToSet(toUi') = ToSet(toUi) \union {res}
    BY <1>1, <2>b, AppendContents
  <2>4. \A q \in Requests : q = r \/ Replied(q) => Replied(q)'
    BY <2>3, <2>b DEF Replied
  <2>5. \A q \in Requests : Queued(q) => Queued(q)' \/ q = r
    <3> HIDE DEF rest
    <3> QED
      BY <2>1, <2>2 DEF Queued, laneForKind, Lanes
  <2>6. inited' \in [Lanes -> BOOLEAN]
    BY <1>1, <1>4
  <2> QED
    BY <1>1, <1>2, <2>2, <2>3, <2>4, <2>5, <2>6 DEF LanesTypeOK, Keeps, InTransit
<1> QED
  BY <1>3, <1>4 DEF requestSftpCancelBulk

\* Connecting, disconnecting and losing the connection.
LEMMA SessionKeeps ==
    ASSUME LanesTypeOK,
           startConnect \/ requestDisconnect \/ SessionStep
    PROVE  LanesTypeOK' /\ Keeps
<1>1. NoLanes \in [Lanes -> BOOLEAN]
  BY DEF NoLanes
<1>2. CASE startConnect
  <2>1. Take(Connect) /\ UNCHANGED <<queue, toUi>> /\ inited' = NoLanes /\ state' = "connecting"
    BY <1>2 DEF startConnect
  <2>2. toWorker' \in Seq(Posts) /\ \A q \in Requests : Posted(q) => Posted(q)'
    BY <2>1, TakeContents, TakeOther DEF Connect
  <2> QED
    BY <1>1, <2>1, <2>2, SameKeeps DEF LanesTypeOK
<1>3. CASE requestDisconnect
  <2>1. /\ Take(Disconnect) /\ queue' = NoItems /\ inited' = NoLanes
        /\ state' = "down" /\ toUi' = toUi \o failAllSftp(TRUE)
    BY <1>3 DEF requestDisconnect
  <2>2. toWorker' \in Seq(Posts) /\ \A q \in Requests : Posted(q) => Posted(q)'
    BY <2>1, TakeContents, TakeOther DEF Disconnect
  <2>3. queue' \in [Lanes -> Seq(Item)] /\ toUi' \in Seq(Signals) /\ Keeps
    BY <2>1, <2>2, FailAllKeeps
  <2> QED
    BY <1>1, <2>1, <2>2, <2>3 DEF LanesTypeOK
<1>4. CASE Connected
  <2>1. \A q \in Requests : Posted(q) => Posted(q)'
    BY <1>4 DEF Connected, Posted
  <2> QED
    BY <1>4, <2>1, SameKeeps DEF Connected, LanesTypeOK
<1>5. ASSUME NEW tr \in BOOLEAN, enterConnectionLost(tr) PROVE LanesTypeOK' /\ Keeps
  <2>1. /\ UNCHANGED toWorker /\ queue' = NoItems /\ inited' = NoLanes
        /\ state' = "down" /\ toUi' = Append(toUi \o failAllSftp(tr), Lost)
    BY <1>5 DEF enterConnectionLost
  <2>2. \A q \in Requests : Posted(q) => Posted(q)'
    BY <2>1 DEF Posted
  <2>3. queue' \in [Lanes -> Seq(Item)] /\ toUi' \in Seq(Signals) /\ Keeps
    BY <2>1, <2>2, FailAllKeeps
  <2> QED
    BY <1>1, <2>1, <2>3 DEF LanesTypeOK
<1> QED
  BY <1>2, <1>3, <1>4, <1>5 DEF SessionStep

\* Every turn of a lane keeps or answers the operation at its head.
LEMMA LaneKeeps ==
    ASSUME LanesTypeOK, NEW l \in Lanes, LaneStep(l)
    PROVE  LanesTypeOK' /\ Keeps
<1>1. /\ queue[l] # <<>> /\ queue[l] \in Seq(Item) /\ inited \in [Lanes -> BOOLEAN]
      /\ toUi \in Seq(Signals) /\ UNCHANGED <<state, toWorker>>
  BY DEF LaneStep, LaneInited, LaneInitFailed, OperationBegun, OperationFailed, ChunkSent,
     OperationDone, Servicing, LanesTypeOK
<1>2. HeadOf(l) \in Item
  BY <1>1, TailContents DEF HeadOf
<1>3. HeadOf(l).req \in Requests /\ HeadOf(l).sent \in 0 .. FileChunks
  BY <1>2 DEF Item
<1>4. CASE LaneInited(l)
  <2>1. \A q \in Requests : Posted(q) => Posted(q)'
    BY <1>1 DEF Posted
  <2> QED
    BY <1>1, <1>4, <2>1, SameKeeps DEF LaneInited, LanesTypeOK
<1>5. ASSUME NEW res \in Signals, res.type = "done", res.req = HeadOf(l).req,
             Finish(l, res), UNCHANGED inited
      PROVE  LanesTypeOK' /\ Keeps
  <2>1. queue' \in [Lanes -> Seq(Item)] /\ toUi' \in Seq(Signals) /\ Keeps
    BY <1>1, <1>5, FinishKeeps
  <2> QED
    BY <1>1, <1>5, <2>1 DEF LanesTypeOK
<1>6. CASE LaneInitFailed(l)
  <2> DEFINE res == Failed(HeadOf(l).req, TRUE)
  <2>1. res \in Signals /\ res.type = "done" /\ res.req = HeadOf(l).req
    BY <1>3, MessageTypes DEF Failed
  <2>2. Finish(l, res) /\ UNCHANGED inited
    BY <1>6 DEF LaneInitFailed
  <2> HIDE DEF res
  <2> QED
    BY <1>5, <2>1, <2>2
<1>7. CASE OperationFailed(l)
  <2> DEFINE res == Failed(HeadOf(l).req, FALSE)
  <2>1. res \in Signals /\ res.type = "done" /\ res.req = HeadOf(l).req
    BY <1>3, MessageTypes DEF Failed
  <2>2. Finish(l, res) /\ UNCHANGED inited
    BY <1>7 DEF OperationFailed
  <2> HIDE DEF res
  <2> QED
    BY <1>5, <2>1, <2>2
<1>8. CASE OperationDone(l)
  <2> DEFINE res == Done(HeadOf(l).req)
  <2>1. res \in Signals /\ res.type = "done" /\ res.req = HeadOf(l).req
    BY <1>3, MessageTypes DEF Done
  <2>2. Finish(l, res) /\ UNCHANGED inited
    BY <1>8 DEF OperationDone
  <2> HIDE DEF res
  <2> QED
    BY <1>5, <2>1, <2>2
<1>9. CASE OperationBegun(l)
  <2> DEFINE item == [HeadOf(l) EXCEPT !.phase = "transfer"]
  <2>1. item \in Item /\ item.req = HeadOf(l).req
    BY <1>2 DEF Item
  <2>2. Advance(l, item) /\ UNCHANGED <<inited, toUi>>
    BY <1>9 DEF OperationBegun
  <2> HIDE DEF item
  <2>3. queue' \in [Lanes -> Seq(Item)] /\ Keeps
    BY <1>1, <2>1, <2>2, AdvanceKeeps
  <2> QED
    BY <1>1, <2>2, <2>3 DEF LanesTypeOK
<1>10. CASE ChunkSent(l)
  <2> DEFINE item == [HeadOf(l) EXCEPT !.sent = @ + 1]
  <2>1. HeadOf(l).sent < FileChunks
    BY <1>10 DEF ChunkSent
  <2>2. item \in Item /\ item.req = HeadOf(l).req
    BY <1>2, <1>3, <2>1, LimitAssumption DEF Item
  <2>3. Advance(l, item) /\ UNCHANGED inited /\ toUi' = Append(toUi, Chunk(HeadOf(l).req))
    BY <1>10 DEF ChunkSent
  <2>4. toUi' \in Seq(Signals) /\ ToSet(toUi) \subseteq ToSet(toUi')
    BY <1>1, <1>3, <2>3, MessageTypes, AppendContents
  <2> HIDE DEF item
  <2>5. queue' \in [Lanes -> Seq(Item)] /\ Keeps
    BY <1>1, <2>2, <2>3, <2>4, AdvanceKeeps
  <2> QED
    BY <1>1, <2>3, <2>4, <2>5 DEF LanesTypeOK
<1> QED
  BY <1>4, <1>6, <1>7, <1>8, <1>9, <1>10 DEF LaneStep

\* No step of the worker loses a request: it is queued, kept or answered.
THEOREM WorkerKeeps == LanesTypeOK /\ WorkerStep => LanesTypeOK' /\ Keeps
<1> SUFFICES ASSUME LanesTypeOK, WorkerStep PROVE LanesTypeOK' /\ Keeps
  OBVIOUS
<1>1. CASE \E r \in Requests : enqueueSftpOp(r) \/ requestSftpCancelBulk(r)
  BY <1>1, EnqueueKeeps, CancelBulkKeeps
<1>2. CASE startConnect \/ requestDisconnect \/ SessionStep
  BY <1>2, SessionKeeps
<1>3. CASE \E l \in Lanes : LaneStep(l)
  BY <1>3, LaneKeeps
<1> QED
  BY <1>1, <1>2, <1>3 DEF WorkerStep, PostedStep

-----------------------------------------------------------------------------
(* Counting: how often what a sequence holds is in a set *)

Places(s, M) == {i \in 1 .. Len(s) : s[i] \in M}
Tally(s, M) == Cardinality(Places(s, M))

\* A tally is a number, positive when the sequence holds such an element.
LEMMA TallyType ==
    ASSUME NEW S, NEW s \in Seq(S), NEW M
    PROVE  /\ IsFiniteSet(Places(s, M)) /\ Tally(s, M) \in Nat
           /\ Tally(s, M) > 0 <=> \E i \in 1 .. Len(s) : s[i] \in M
<1>1. Len(s) \in Nat /\ IsFiniteSet(1 .. Len(s))
  BY LenProperties, FS_Interval
<1>2. IsFiniteSet(Places(s, M)) /\ Tally(s, M) \in Nat
  BY <1>1, FS_Subset, FS_CardinalityType DEF Places, Tally
<1>3. Tally(s, M) = 0 <=> Places(s, M) = {}
  BY <1>2, FS_EmptySet DEF Tally
<1> QED
  BY <1>2, <1>3 DEF Places

\* Sets of places that correspond one to one have the same size.
LEMMA Corresponds ==
    ASSUME NEW A, IsFiniteSet(A), NEW B, NEW f \in [A -> B],
           \A x, y \in A : f[x] = f[y] => x = y,
           \A z \in B : \E x \in A : f[x] = z
    PROVE  IsFiniteSet(B) /\ Cardinality(B) = Cardinality(A)
<1>1. f \in Bijection(A, B)
  BY DEF Bijection, Injection, Surjection, IsInjective
<1> QED
  BY <1>1, FS_Bijection DEF ExistsBijection

\* The tally of a concatenation.
LEMMA TallyConcat ==
    ASSUME NEW S, NEW s \in Seq(S), NEW t \in Seq(S), NEW M
    PROVE  Tally(s \o t, M) = Tally(s, M) + Tally(t, M)
<1> DEFINE m == Len(s)
           n == Len(t)
           A == Places(s, M)
           B == Places(t, M)
           C == {k \in m + 1 .. m + n : t[k - m] \in M}
<1>1. /\ m \in Nat /\ n \in Nat /\ Len(s \o t) = m + n
      /\ \A i \in 1 .. m + n : (s \o t)[i] = IF i <= m THEN s[i] ELSE t[i - m]
  BY LenProperties, ConcatProperties
<1>2. A \subseteq 1 .. m /\ B \subseteq 1 .. n /\ C \subseteq m + 1 .. m + n
      /\ IsFiniteSet(A) /\ IsFiniteSet(B)
  BY TallyType DEF Places
<1>3. IsFiniteSet(C) /\ Cardinality(C) = Cardinality(B)
  <2> DEFINE f == [j \in B |-> j + m]
  <2>1. \A j \in B : j \in Nat /\ j + m \in C
    BY <1>1, <1>2 DEF Places
  <2>2. \A k \in C : k - m \in B /\ (k - m) + m = k
    BY <1>1, <1>2 DEF Places
  <2> HIDE DEF B, C
  <2>3. f \in [B -> C] /\ \A j \in B : f[j] = j + m
    BY <2>1
  <2>4. \A x, y \in B : f[x] = f[y] => x = y
    BY <1>1, <2>1, <2>3
  <2>5. \A z \in C : \E x \in B : f[x] = z
    BY <2>2, <2>3
  <2> HIDE DEF f
  <2> QED
    BY <1>2, <2>3, <2>4, <2>5, Corresponds
<1>4. Places(s \o t, M) = A \union C
  BY <1>1 DEF Places
<1>5. A \cap C = {}
  BY <1>1, <1>2
<1>6. Cardinality(A \union C) = Cardinality(A) + Cardinality(C)
  <2> HIDE DEF A, B, C
  <2>1. Cardinality(A \union C) = Cardinality(A) + Cardinality(C) - Cardinality(A \cap C)
    BY <1>2, <1>3, FS_Union
  <2>2. Cardinality(A) \in Nat /\ Cardinality(C) \in Nat
    BY <1>2, <1>3, FS_CardinalityType
  <2>3. Cardinality(A \cap C) = 0
    BY <1>5, FS_EmptySet
  <2> QED
    BY <2>1, <2>2, <2>3
<1> QED
  BY <1>3, <1>4, <1>6 DEF Tally

\* The tally of one element, and of none.
LEMMA TallyOne ==
    ASSUME NEW e, NEW M
    PROVE  Tally(<<e>>, M) = (IF e \in M THEN 1 ELSE 0) /\ Tally(<<>>, M) = 0
<1>1. Places(<<e>>, M) = IF e \in M THEN {1} ELSE {}
  BY DEF Places
<1>2. Places(<<>>, M) = {}
  BY DEF Places
<1> QED
  BY <1>1, <1>2, FS_Singleton, FS_EmptySet DEF Tally

\* Appending, and taking from the front.
LEMMA TallyAppend ==
    ASSUME NEW S, NEW s \in Seq(S), NEW e \in S, NEW M
    PROVE  Tally(Append(s, e), M) = Tally(s, M) + (IF e \in M THEN 1 ELSE 0)
<1>1. Append(s, e) = s \o <<e>> /\ <<e>> \in Seq(S)
  BY AppendIsConcat
<1>2. Tally(s \o <<e>>, M) = Tally(s, M) + Tally(<<e>>, M)
  BY <1>1, TallyConcat
<1> QED
  BY <1>1, <1>2, TallyOne

LEMMA TallyTail ==
    ASSUME NEW S, NEW s \in Seq(S), s # <<>>, NEW M
    PROVE  Tally(s, M) = Tally(Tail(s), M) + (IF Head(s) \in M THEN 1 ELSE 0)
<1>1. Head(s) \in S /\ Tail(s) \in Seq(S) /\ <<Head(s)>> \in Seq(S)
  BY HeadTailProperties
<1>2. s = <<Head(s)>> \o Tail(s)
  OBVIOUS
<1>3. Tally(s, M) = Tally(<<Head(s)>>, M) + Tally(Tail(s), M)
  BY <1>1, <1>2, TallyConcat
<1>4. Tally(<<Head(s)>>, M) = IF Head(s) \in M THEN 1 ELSE 0
  BY TallyOne
<1>5. Tally(Tail(s), M) \in Nat
  BY <1>1, TallyType
<1> QED
  BY <1>3, <1>4, <1>5

\* t is s without the element at place i: the others may have changed as long as
\* they stayed in M or out of it.
TakenOut(s, i, t, M) ==
    /\ Len(t) = Len(s) - 1
    /\ \A j \in 1 .. Len(s) - 1 : t[j] \in M <=> s[IF j < i THEN j ELSE j + 1] \in M

LEMMA TallyTakeOut ==
    ASSUME NEW S, NEW s \in Seq(S), NEW i \in 1 .. Len(s), NEW t \in Seq(S), NEW M, TakenOut(s, i, t, M)
    PROVE  Tally(s, M) = Tally(t, M) + (IF s[i] \in M THEN 1 ELSE 0)
<1> USE DEF TakenOut
<1> DEFINE n == Len(s)
           A == Places(s, M)
           R == A \ {i}
           B == Places(t, M)
           g == [j \in B |-> IF j < i THEN j ELSE j + 1]
<1>1. n \in Nat /\ i \in 1 .. n /\ IsFiniteSet(A) /\ IsFiniteSet(B) /\ A \subseteq 1 .. n /\ B \subseteq 1 .. n - 1
  <2>1. n \in Nat /\ IsFiniteSet(A) /\ IsFiniteSet(B)
    BY LenProperties, TallyType
  <2> QED
    BY <2>1 DEF Places
<1>2. \A j \in B : (IF j < i THEN j ELSE j + 1) \in R
  BY <1>1 DEF Places
<1>3. \A k \in R : (IF k < i THEN k ELSE k - 1) \in B
  <2> SUFFICES ASSUME NEW k \in R PROVE (IF k < i THEN k ELSE k - 1) \in B
    OBVIOUS
  <2> DEFINE j == IF k < i THEN k ELSE k - 1
  <2>1. j \in 1 .. n - 1 /\ (IF j < i THEN j ELSE j + 1) = k
    BY <1>1
  <2>2. s[k] \in M
    BY DEF Places
  <2>3. t[j] \in M
    BY <2>1, <2>2
  <2> QED
    BY <2>1, <2>3 DEF Places
<1>4. g \in [B -> R] /\ \A j \in B : g[j] = IF j < i THEN j ELSE j + 1
  BY <1>2
<1> HIDE DEF g
<1>5. \A x, y \in B : g[x] = g[y] => x = y
  BY <1>1, <1>4
<1>6. \A z \in R : \E x \in B : g[x] = z
  <2> SUFFICES ASSUME NEW z \in R PROVE \E x \in B : g[x] = z
    OBVIOUS
  <2> DEFINE x == IF z < i THEN z ELSE z - 1
  <2>1. x \in B /\ z \in 1 .. n /\ z # i
    BY <1>1, <1>3
  <2>2. (IF x < i THEN x ELSE x + 1) = z
    BY <1>1, <2>1
  <2> HIDE DEF x
  <2> QED
    BY <1>4, <2>1, <2>2
<1>7. Cardinality(R) = Cardinality(B)
  BY <1>1, <1>4, <1>5, <1>6, Corresponds
<1>8. Cardinality(R) = IF i \in A THEN Cardinality(A) - 1 ELSE Cardinality(A)
  BY <1>1, FS_RemoveElement
<1>9. i \in A <=> s[i] \in M
  BY <1>1 DEF Places
<1> QED
  BY <1>1, <1>7, <1>8, <1>9, FS_CardinalityType DEF Tally

\* Two sequences that agree, place by place, on what is counted.
LEMMA TallySame ==
    ASSUME NEW s, NEW t, NEW M, NEW N, Len(s) = Len(t),
           \A i \in 1 .. Len(s) : s[i] \in M <=> t[i] \in N
    PROVE  Tally(s, M) = Tally(t, N)
<1>1. Places(s, M) = Places(t, N)
  BY DEF Places
<1> QED
  BY <1>1 DEF Tally

-----------------------------------------------------------------------------
(* What is under way of a request *)

Answers(r) == {Done(r)} \union {Failed(r, tr) : tr \in BOOLEAN}
ItemsOf(r) == {item \in Item : item.req = r}

\* How often r is posted in w or queued in q.
Waits(r, w, q) ==
    Tally(w, {Op(r)}) + Tally(q["bulk"], ItemsOf(r)) + Tally(q["meta"], ItemsOf(r))

\* With w posted, q queued and u on the way back, b chunks of r were delivered:
\* r is in one place; the chunks under way and delivered are those sent, all
\* of them once r is done; and no chunk follows an answer.
Flow(r, b, w, q, u) ==
    LET n == b + Tally(u, {Chunk(r)})
    IN  /\ Waits(r, w, q) + Tally(u, Answers(r)) <= 1
        /\ Tally(w, {Op(r)}) > 0 => n = 0
        /\ \A l \in Lanes : \A i \in 1 .. Len(q[l]) : q[l][i].req = r => q[l][i].sent = n
        /\ Tally(u, {Done(r)}) > 0 => n = FileChunks
        /\ Tally(u, Answers(r)) + Tally(u, {Chunk(r)}) > 0 => n <= FileChunks
        /\ \A i, j \in 1 .. Len(u) : i < j /\ u[i] \in Answers(r) => u[j] # Chunk(r)

Pipes(w, q, u) == w \in Seq(Posts) /\ q \in [Lanes -> Seq(Item)] /\ u \in Seq(Signals)

\* Which messages are about r.
LEMMA AboutRequest ==
    ASSUME NEW r \in Requests, NEW m \in Requests
    PROVE  /\ Done(m) \in Answers(r) <=> m = r
           /\ \A tr \in BOOLEAN : Failed(m, tr) \in Answers(r) <=> m = r
           /\ Chunk(m) \notin Answers(r) /\ Lost \notin Answers(r)
           /\ Chunk(m) \in {Chunk(r)} <=> m = r
           /\ Done(m) \notin {Chunk(r)} /\ Lost \notin {Chunk(r)}
           /\ \A tr \in BOOLEAN : Failed(m, tr) \notin {Chunk(r)} /\ Failed(m, tr) \notin {Done(r)}
           /\ Done(m) \in {Done(r)} <=> m = r
           /\ Chunk(m) \notin {Done(r)} /\ Lost \notin {Done(r)}
           /\ Op(m) \in {Op(r)} <=> m = r
           /\ Cancel(m) \notin {Op(r)} /\ Connect \notin {Op(r)} /\ Disconnect \notin {Op(r)}
<1>1. /\ Done(m).type = "done" /\ Done(m).req = m /\ Done(m).ok = TRUE
      /\ \A tr \in BOOLEAN : Failed(m, tr).type = "done" /\ Failed(m, tr).req = m /\ Failed(m, tr).ok = FALSE
      /\ Chunk(m).type = "chunk" /\ Chunk(m).req = m /\ Lost.type = "lost"
      /\ Op(m).type = "op" /\ Op(m).req = m /\ Cancel(m).type = "cancel"
      /\ Connect.type = "connect" /\ Disconnect.type = "disconnect"
  BY DEF Done, Failed, Chunk, Lost, Op, Cancel, Connect, Disconnect
<1>2. /\ Done(r).type = "done" /\ Done(r).req = r /\ Done(r).ok = TRUE
      /\ \A tr \in BOOLEAN : Failed(r, tr).type = "done" /\ Failed(r, tr).req = r /\ Failed(r, tr).ok = FALSE
      /\ Chunk(r).type = "chunk" /\ Chunk(r).req = r
      /\ Op(r).type = "op" /\ Op(r).req = r
  BY DEF Done, Failed, Chunk, Lost, Op
<1>3. m = r => Done(m) = Done(r) /\ Chunk(m) = Chunk(r) /\ Op(m) = Op(r) /\ \A tr \in BOOLEAN : Failed(m, tr) = Failed(r, tr)
  OBVIOUS
<1> QED
  BY <1>1, <1>2, <1>3 DEF Answers

\* Tallies are numbers.
LEMMA FlowTypes ==
    ASSUME NEW r, NEW w, NEW q, NEW u, Pipes(w, q, u)
    PROVE  /\ Tally(w, {Op(r)}) \in Nat /\ Tally(u, Answers(r)) \in Nat
           /\ Tally(u, {Chunk(r)}) \in Nat /\ Tally(u, {Done(r)}) \in Nat
           /\ \A l \in Lanes : Tally(q[l], ItemsOf(r)) \in Nat
           /\ Tally(q["bulk"], ItemsOf(r)) \in Nat /\ Tally(q["meta"], ItemsOf(r)) \in Nat
<1>1. w \in Seq(Posts) /\ u \in Seq(Signals) /\ \A l \in Lanes : q[l] \in Seq(Item)
  BY DEF Pipes
<1>2. \A l \in Lanes : Tally(q[l], ItemsOf(r)) \in Nat
  BY <1>1, TallyType
<1> QED
  BY <1>1, <1>2, TallyType DEF Lanes

\* A step that moves r at most from one place to the next, and sends v: a chunk
\* only while r is queued, a success only when all were sent.
LEMMA FlowStep ==
    ASSUME NEW r, NEW b \in Nat, NEW w, NEW q, NEW u, NEW w2, NEW q2, NEW v,
           Pipes(w, q, u), Pipes(w2, q2, v), Flow(r, b, w, q, u),
           NEW n, n = b + Tally(u, {Chunk(r)}) + Tally(v, {Chunk(r)}),
           Waits(r, w2, q2) + Tally(v, Answers(r)) <= Waits(r, w, q),
           Tally(w2, {Op(r)}) > 0 => Tally(w, {Op(r)}) > 0 /\ Tally(v, {Chunk(r)}) = 0,
           \A l \in Lanes : \A i \in 1 .. Len(q2[l]) : q2[l][i].req = r => q2[l][i].sent = n,
           Tally(v, {Done(r)}) > 0 => n = FileChunks,
           Tally(v, Answers(r)) + Tally(v, {Chunk(r)}) > 0 => n <= FileChunks,
           Tally(v, {Chunk(r)}) > 0 => Len(v) = 1 /\ Waits(r, w, q) > 0
    PROVE  Flow(r, b, w2, q2, u \o v)
<1>1. /\ Tally(w, {Op(r)}) \in Nat /\ Tally(w2, {Op(r)}) \in Nat
      /\ Tally(u, Answers(r)) \in Nat /\ Tally(v, Answers(r)) \in Nat
      /\ Tally(u, {Chunk(r)}) \in Nat /\ Tally(v, {Chunk(r)}) \in Nat
      /\ Tally(u, {Done(r)}) \in Nat /\ Tally(v, {Done(r)}) \in Nat
      /\ Waits(r, w, q) \in Nat /\ Waits(r, w2, q2) \in Nat /\ FileChunks \in Nat
  <2>1. /\ Tally(w, {Op(r)}) \in Nat /\ Tally(u, Answers(r)) \in Nat
        /\ Tally(u, {Chunk(r)}) \in Nat /\ Tally(u, {Done(r)}) \in Nat
        /\ Tally(q["bulk"], ItemsOf(r)) \in Nat /\ Tally(q["meta"], ItemsOf(r)) \in Nat
    BY FlowTypes
  <2>2. /\ Tally(w2, {Op(r)}) \in Nat /\ Tally(v, Answers(r)) \in Nat
        /\ Tally(v, {Chunk(r)}) \in Nat /\ Tally(v, {Done(r)}) \in Nat
        /\ Tally(q2["bulk"], ItemsOf(r)) \in Nat /\ Tally(q2["meta"], ItemsOf(r)) \in Nat
    BY FlowTypes
  <2>3. Waits(r, w, q) \in Nat
    BY <2>1 DEF Waits
  <2>4. Waits(r, w2, q2) \in Nat
    BY <2>2 DEF Waits
  <2> QED
    BY <2>1, <2>2, <2>3, <2>4, LimitAssumption
<1>2. u \in Seq(Signals) /\ v \in Seq(Signals)
  BY DEF Pipes
<1>3. /\ Tally(u \o v, Answers(r)) = Tally(u, Answers(r)) + Tally(v, Answers(r))
      /\ Tally(u \o v, {Chunk(r)}) = Tally(u, {Chunk(r)}) + Tally(v, {Chunk(r)})
      /\ Tally(u \o v, {Done(r)}) = Tally(u, {Done(r)}) + Tally(v, {Done(r)})
  BY <1>2, TallyConcat
<1>4. n = b + Tally(u \o v, {Chunk(r)})
  BY <1>1, <1>3
<1>5. /\ Waits(r, w, q) + Tally(u, Answers(r)) <= 1
      /\ Tally(w, {Op(r)}) > 0 => b + Tally(u, {Chunk(r)}) = 0
      /\ Tally(u, {Done(r)}) > 0 => b + Tally(u, {Chunk(r)}) = FileChunks
      /\ Tally(u, Answers(r)) + Tally(u, {Chunk(r)}) > 0 => b + Tally(u, {Chunk(r)}) <= FileChunks
      /\ \A i, j \in 1 .. Len(u) : i < j /\ u[i] \in Answers(r) => u[j] # Chunk(r)
  BY DEF Flow
<1>6. Tally(u, {Done(r)}) > 0 => Tally(u, Answers(r)) > 0
  BY <1>2, TallyType DEF Answers
<1>7. Waits(r, w2, q2) + Tally(u \o v, Answers(r)) <= 1
  BY <1>1, <1>3, <1>5
<1>8. Tally(w2, {Op(r)}) > 0 => n = 0
  BY <1>1, <1>5
<1> DEFINE A == Tally(u, Answers(r))
           C == Tally(u, {Chunk(r)})
           D == Tally(u, {Done(r)})
           A2 == Tally(v, Answers(r))
           C2 == Tally(v, {Chunk(r)})
           D2 == Tally(v, {Done(r)})
<1>9. Tally(v, {Chunk(r)}) > 0 => Tally(u, Answers(r)) = 0 /\ Tally(u, {Done(r)}) = 0
  <2>1. Tally(v, {Chunk(r)}) > 0 => Waits(r, w, q) > 0
    OBVIOUS
  <2>2. Waits(r, w, q) + A <= 1
    BY <1>5
  <2>3. Waits(r, w, q) > 0 => A = 0
    <3> HIDE DEF A
    <3> QED
      BY <1>1, <2>2 DEF A
  <2> QED
    BY <1>1, <1>6, <2>1, <2>3
<1>13. /\ A \in Nat /\ C \in Nat /\ D \in Nat /\ A2 \in Nat /\ C2 \in Nat /\ D2 \in Nat
       /\ b \in Nat /\ FileChunks \in Nat /\ n = b + C + C2
       /\ C2 > 0 => A = 0 /\ D = 0
       /\ D > 0 => b + C = FileChunks
       /\ D2 > 0 => n = FileChunks
       /\ A + C > 0 => b + C <= FileChunks
       /\ A2 + C2 > 0 => n <= FileChunks
  BY <1>1, <1>5, <1>9
<1>14. D + D2 > 0 => n = FileChunks
  <2> HIDE DEF A, C, D, A2, C2, D2
  <2> QED
    BY <1>13
<1>15. (A + A2) + (C + C2) > 0 => n <= FileChunks
  <2> HIDE DEF A, C, D, A2, C2, D2
  <2> QED
    BY <1>13
<1>10. Tally(u \o v, {Done(r)}) > 0 => n = FileChunks
  BY <1>3, <1>14
<1>11. Tally(u \o v, Answers(r)) + Tally(u \o v, {Chunk(r)}) > 0 => n <= FileChunks
  BY <1>3, <1>15
<1>12. ASSUME NEW i \in 1 .. Len(u \o v), NEW j \in 1 .. Len(u \o v), i < j, (u \o v)[i] \in Answers(r)
       PROVE  (u \o v)[j] # Chunk(r)
  <2>1. /\ Len(u) \in Nat /\ Len(v) \in Nat /\ Len(u \o v) = Len(u) + Len(v)
        /\ \A k \in 1 .. Len(u) + Len(v) : (u \o v)[k] = IF k <= Len(u) THEN u[k] ELSE v[k - Len(u)]
    BY <1>2, LenProperties, ConcatProperties
  <2>2. CASE j <= Len(u)
    BY <1>5, <1>12, <2>1, <2>2
  <2>3. CASE j > Len(u)
    <3> SUFFICES ASSUME (u \o v)[j] = Chunk(r) PROVE FALSE
      OBVIOUS
    <3>1. j - Len(u) \in 1 .. Len(v) /\ v[j - Len(u)] = Chunk(r)
      BY <2>1, <2>3
    <3>2. Tally(v, {Chunk(r)}) > 0
      BY <1>2, <3>1, TallyType
    <3>3. i \in 1 .. Len(u) /\ u[i] \in Answers(r)
      <4>1. Len(v) = 1
        BY <3>2
      <4>2. i \in 1 .. Len(u)
        BY <1>12, <2>1, <2>3, <3>1, <4>1
      <4> QED
        BY <1>12, <2>1, <4>2
    <3>4. Tally(u, Answers(r)) > 0
      BY <1>2, <3>3, TallyType
    <3> QED
      BY <1>9, <3>2, <3>4
  <2> QED
    BY <2>1, <2>2, <2>3
<1> QED
  BY <1>4, <1>7, <1>8, <1>10, <1>11, <1>12 DEF Flow

-----------------------------------------------------------------------------
(* The steps of the worker *)

\* The flow of r through the queues of the two threads as they are now.
Tracks(r, b) == Flow(r, b, toWorker, queue, toUi)

\* Answers are sent: of r only if it stops waiting, and a success only once all
\* its chunks were sent.
LEMMA FlowAnswer ==
    ASSUME LanesTypeOK, LanesTypeOK', NEW r \in Requests, NEW b \in Nat, Tracks(r, b),
           NEW v \in Seq(Signals), toUi' = toUi \o v,
           Tally(v, {Chunk(r)}) = 0,
           Tally(toWorker', {Op(r)}) <= Tally(toWorker, {Op(r)}),
           Waits(r, toWorker', queue') + Tally(v, Answers(r)) <= Waits(r, toWorker, queue),
           \A l \in Lanes : \A i \in 1 .. Len(queue'[l]) :
              queue'[l][i].req = r => queue'[l][i].sent = b + Tally(toUi, {Chunk(r)}),
           Tally(v, {Done(r)}) > 0 => b + Tally(toUi, {Chunk(r)}) = FileChunks
    PROVE  Tracks(r, b)'
<1>1. Pipes(toWorker, queue, toUi) /\ Pipes(toWorker', queue', v)
  BY DEF Pipes, LanesTypeOK
<1>2. /\ Tally(toWorker, {Op(r)}) \in Nat /\ Tally(toUi, {Chunk(r)}) \in Nat
      /\ Tally(queue["bulk"], ItemsOf(r)) \in Nat /\ Tally(queue["meta"], ItemsOf(r)) \in Nat
  BY <1>1, FlowTypes
<1>3. /\ Tally(toWorker', {Op(r)}) \in Nat /\ Tally(v, Answers(r)) \in Nat
      /\ Tally(queue'["bulk"], ItemsOf(r)) \in Nat /\ Tally(queue'["meta"], ItemsOf(r)) \in Nat
  BY <1>1, FlowTypes
<1>4. Waits(r, toWorker, queue) \in Nat /\ FileChunks \in Nat
  BY <1>2, LimitAssumption DEF Waits
<1>5. Waits(r, toWorker', queue') \in Nat
  BY <1>3 DEF Waits
<1> DEFINE n == b + Tally(toUi, {Chunk(r)}) + Tally(v, {Chunk(r)})
<1>6. n = b + Tally(toUi, {Chunk(r)})
  BY <1>2
\* What waits has sent no more than the file has.
<1>7. Waits(r, toWorker, queue) > 0 => b + Tally(toUi, {Chunk(r)}) <= FileChunks
  <2>1. CASE Tally(toWorker, {Op(r)}) > 0
    <3>1. b + Tally(toUi, {Chunk(r)}) = 0
      BY <2>1 DEF Tracks, Flow
    <3> QED
      BY <1>4, <3>1
  <2>2. ASSUME NEW l \in Lanes, Tally(queue[l], ItemsOf(r)) > 0
        PROVE  b + Tally(toUi, {Chunk(r)}) <= FileChunks
    <3>1. queue[l] \in Seq(Item)
      BY DEF LanesTypeOK
    <3>2. PICK i \in 1 .. Len(queue[l]) : queue[l][i] \in ItemsOf(r)
      BY <2>2, <3>1, TallyType
    <3>3. queue[l][i].req = r /\ queue[l][i].sent \in 0 .. FileChunks
      BY <3>2 DEF ItemsOf, Item
    <3>4. queue[l][i].sent = b + Tally(toUi, {Chunk(r)})
      BY <3>3 DEF Tracks, Flow
    <3> QED
      BY <1>4, <3>3, <3>4
  <2>3. Waits(r, toWorker, queue) > 0 =>
           Tally(toWorker, {Op(r)}) > 0 \/ \E l \in Lanes : Tally(queue[l], ItemsOf(r)) > 0
    BY <1>2 DEF Waits, Lanes
  <2> QED
    BY <2>1, <2>2, <2>3
<1>10. n = b + Tally(toUi, {Chunk(r)}) + Tally(v, {Chunk(r)})
  BY DEF n
<1> HIDE DEF n
<1>8. /\ Tally(toWorker', {Op(r)}) > 0 => Tally(toWorker, {Op(r)}) > 0 /\ Tally(v, {Chunk(r)}) = 0
      /\ ~(Tally(v, {Chunk(r)}) > 0)
  BY <1>2, <1>3
<1>11. \A l \in Lanes : \A i \in 1 .. Len(queue'[l]) : queue'[l][i].req = r => queue'[l][i].sent = n
  BY <1>6
<1>12. Tally(v, {Done(r)}) > 0 => n = FileChunks
  BY <1>6
<1>9. Tally(v, Answers(r)) + Tally(v, {Chunk(r)}) > 0 => n <= FileChunks
  BY <1>2, <1>3, <1>4, <1>5, <1>6, <1>7
<1> QED
  BY <1>1, <1>8, <1>9, <1>10, <1>11, <1>12, FlowStep DEF Tracks

\* Nothing is sent, nothing about r changes its place.
LEMMA FlowQuiet ==
    ASSUME LanesTypeOK, LanesTypeOK', NEW r \in Requests, NEW b \in Nat, Tracks(r, b), toUi' = toUi,
           Tally(toWorker', {Op(r)}) <= Tally(toWorker, {Op(r)}),
           Waits(r, toWorker', queue') <= Waits(r, toWorker, queue),
           \A l \in Lanes : \A i \in 1 .. Len(queue'[l]) :
              queue'[l][i].req = r => queue'[l][i].sent = b + Tally(toUi, {Chunk(r)})
    PROVE  Tracks(r, b)'
<1> DEFINE v == <<>>
<1>1. v \in Seq(Signals) /\ toUi' = toUi \o v
  BY EmptySeq, ConcatEmptySeq DEF LanesTypeOK
<1>2. Tally(v, {Chunk(r)}) = 0 /\ Tally(v, Answers(r)) = 0 /\ Tally(v, {Done(r)}) = 0
  BY TallyOne
<1> HIDE DEF v
<1>3. Waits(r, toWorker', queue') \in Nat
  <2>1. Pipes(toWorker', queue', toUi')
    BY DEF Pipes, LanesTypeOK
  <2>2. /\ Tally(toWorker', {Op(r)}) \in Nat
        /\ Tally(queue'["bulk"], ItemsOf(r)) \in Nat /\ Tally(queue'["meta"], ItemsOf(r)) \in Nat
    BY <2>1, FlowTypes
  <2> QED
    BY <2>2 DEF Waits
<1>4. Waits(r, toWorker', queue') + Tally(v, Answers(r)) <= Waits(r, toWorker, queue)
  BY <1>2, <1>3
<1>5. ~(Tally(v, {Done(r)}) > 0)
  BY <1>2
<1> QED
  BY <1>1, <1>2, <1>4, <1>5, FlowAnswer

\* A request is posted at most as often after the worker took a message.
LEMMA TakeTally ==
    ASSUME LanesTypeOK, NEW m \in Posts, Take(m), NEW r
    PROVE  Tally(toWorker, {Op(r)}) = Tally(toWorker', {Op(r)}) + (IF m = Op(r) THEN 1 ELSE 0)
  BY TallyTail DEF Take, LanesTypeOK

\* One answer is sent, to m.
LEMMA FlowOneAnswer ==
    ASSUME LanesTypeOK, LanesTypeOK', NEW m \in Requests, NEW e \in Answers(m), toUi' = Append(toUi, e),
           NEW r \in Requests, NEW b \in Nat, Tracks(r, b),
           Tally(toWorker', {Op(r)}) <= Tally(toWorker, {Op(r)}),
           Waits(r, toWorker', queue') + (IF m = r THEN 1 ELSE 0) <= Waits(r, toWorker, queue),
           \A l \in Lanes : \A i \in 1 .. Len(queue'[l]) :
              queue'[l][i].req = r => queue'[l][i].sent = b + Tally(toUi, {Chunk(r)}),
           e = Done(m) /\ m = r => b + Tally(toUi, {Chunk(r)}) = FileChunks
    PROVE  Tracks(r, b)'
<1> DEFINE v == <<e>>
<1>1. e \in Signals
  BY MessageTypes DEF Answers
<1>2. v \in Seq(Signals) /\ toUi' = toUi \o v
  <2>1. toUi \in Seq(Signals)
    BY DEF LanesTypeOK
  <2> QED
    BY <1>1, <2>1, AppendIsConcat
<1>3. /\ e \in Answers(r) <=> m = r
      /\ e \notin {Chunk(r)}
      /\ e \in {Done(r)} => e = Done(m) /\ m = r
  BY AboutRequest DEF Answers
<1>4. Tally(v, Answers(r)) = IF e \in Answers(r) THEN 1 ELSE 0
  BY TallyOne
<1>5. Tally(v, {Chunk(r)}) = IF e \in {Chunk(r)} THEN 1 ELSE 0
  BY TallyOne
<1>6. Tally(v, {Done(r)}) = IF e \in {Done(r)} THEN 1 ELSE 0
  BY TallyOne
<1> HIDE DEF v
<1>7. Tally(v, Answers(r)) = (IF m = r THEN 1 ELSE 0)
  BY <1>3, <1>4
<1>8. Tally(v, {Chunk(r)}) = 0
  BY <1>3, <1>5
<1>9. Tally(v, {Done(r)}) > 0 => b + Tally(toUi, {Chunk(r)}) = FileChunks
  BY <1>3, <1>6
<1>10. Waits(r, toWorker', queue') + Tally(v, Answers(r)) <= Waits(r, toWorker, queue)
  BY <1>7
<1> QED
  BY <1>2, <1>8, <1>9, <1>10, FlowAnswer

\* How much waits is a number.
LEMMA WaitsType ==
    ASSUME LanesTypeOK, NEW r
    PROVE  /\ Waits(r, toWorker, queue) \in Nat /\ Tally(toWorker, {Op(r)}) \in Nat
           /\ Tally(toUi, {Chunk(r)}) \in Nat /\ Tally(toUi, Answers(r)) \in Nat
           /\ Tally(queue["bulk"], ItemsOf(r)) \in Nat /\ Tally(queue["meta"], ItemsOf(r)) \in Nat
<1>1. Pipes(toWorker, queue, toUi)
  BY DEF Pipes, LanesTypeOK
<1>2. /\ Tally(toWorker, {Op(r)}) \in Nat /\ Tally(toUi, {Chunk(r)}) \in Nat /\ Tally(toUi, Answers(r)) \in Nat
      /\ Tally(queue["bulk"], ItemsOf(r)) \in Nat /\ Tally(queue["meta"], ItemsOf(r)) \in Nat
  BY <1>1, FlowTypes
<1> QED
  BY <1>2 DEF Waits

\* A change in one lane only.
LEMMA WaitsLane ==
    ASSUME LanesTypeOK, LanesTypeOK', NEW r, NEW l \in Lanes, NEW d \in Int,
           \A k \in Lanes \ {l} : queue'[k] = queue[k],
           Tally(queue'[l], ItemsOf(r)) = Tally(queue[l], ItemsOf(r)) + d
    PROVE  Waits(r, toWorker', queue') - Tally(toWorker', {Op(r)})
             = Waits(r, toWorker, queue) - Tally(toWorker, {Op(r)}) + d
<1>1. /\ Tally(queue["bulk"], ItemsOf(r)) \in Nat /\ Tally(queue["meta"], ItemsOf(r)) \in Nat
      /\ Tally(toWorker, {Op(r)}) \in Nat
  BY WaitsType
<1>2. Tally(toWorker', {Op(r)}) \in Nat
  BY TallyType DEF LanesTypeOK
<1>3. CASE l = "bulk"
  <2>1. queue'["meta"] = queue["meta"]
    BY <1>3 DEF Lanes
  <2> QED
    BY <1>1, <1>2, <1>3, <2>1 DEF Waits
<1>4. CASE l = "meta"
  <2>1. queue'["bulk"] = queue["bulk"]
    BY <1>4 DEF Lanes
  <2> QED
    BY <1>1, <1>2, <1>4, <2>1 DEF Waits
<1> QED
  BY <1>3, <1>4 DEF Lanes

\* A request reaches its lane, or is answered because the session is down.
LEMMA EnqueueFlows ==
    ASSUME LanesTypeOK, LanesTypeOK', NEW m \in Requests, enqueueSftpOp(m),
           NEW r \in Requests, NEW b \in Nat, Tracks(r, b)
    PROVE  Tracks(r, b)'
<1>1. Take(Op(m)) /\ Op(m) \in Posts /\ (Op(m) = Op(r) <=> m = r)
  BY MessageTypes, AboutRequest DEF enqueueSftpOp
<1>2. Tally(toWorker, {Op(r)}) = Tally(toWorker', {Op(r)}) + (IF m = r THEN 1 ELSE 0)
  BY <1>1, TakeTally
<1>3. Pipes(toWorker, queue, toUi) /\ Pipes(toWorker', queue', toUi')
  BY DEF Pipes, LanesTypeOK
<1>4. /\ Tally(toWorker, {Op(r)}) \in Nat /\ Tally(toUi, {Chunk(r)}) \in Nat
      /\ Tally(queue["bulk"], ItemsOf(r)) \in Nat /\ Tally(queue["meta"], ItemsOf(r)) \in Nat
  BY <1>3, FlowTypes
<1>5. Tally(toWorker', {Op(r)}) \in Nat
  BY <1>3, FlowTypes
<1>6. CASE state = "down"
  <2> DEFINE e == Failed(m, TRUE)
  <2>1. toUi' = Append(toUi, e) /\ queue' = queue
    BY <1>6 DEF enqueueSftpOp
  <2>2. e \in Answers(m) /\ e # Done(m)
    BY AboutRequest
  <2> HIDE DEF e
  <2>3. Tally(toWorker', {Op(r)}) <= Tally(toWorker, {Op(r)})
    BY <1>2, <1>5
  <2>4. Waits(r, toWorker', queue') + (IF m = r THEN 1 ELSE 0) <= Waits(r, toWorker, queue)
    BY <1>2, <1>4, <1>5, <2>1 DEF Waits
  <2>5. \A l \in Lanes : \A i \in 1 .. Len(queue'[l]) :
           queue'[l][i].req = r => queue'[l][i].sent = b + Tally(toUi, {Chunk(r)})
    BY <2>1 DEF Tracks, Flow
  <2> QED
    BY <2>1, <2>2, <2>3, <2>4, <2>5, FlowOneAnswer
<1>7. CASE state # "down"
  <2> DEFINE l == laneForKind(m)
             k == IF l = "bulk" THEN "meta" ELSE "bulk"
  <2>1. queue' = [queue EXCEPT ![l] = Append(@, NewItem(m))] /\ toUi' = toUi
    BY <1>7 DEF enqueueSftpOp
  <2>2. l \in Lanes /\ queue \in [Lanes -> Seq(Item)] /\ queue[l] \in Seq(Item)
    BY DEF LanesTypeOK, Lanes, laneForKind
  <2>3. /\ NewItem(m) \in Item /\ NewItem(m).req = m /\ NewItem(m).sent = 0
        /\ NewItem(m) \in ItemsOf(r) <=> m = r
    BY LimitAssumption DEF NewItem, Item, ItemsOf
  <2> HIDE DEF l
  <2>4. queue'[l] = Append(queue[l], NewItem(m)) /\ queue'[k] = queue[k] /\ k \in Lanes /\ Lanes = {l, k} /\ k # l
    BY <2>1, <2>2 DEF Lanes
  <2> HIDE DEF k
  <2>5. Tally(queue'[l], ItemsOf(r)) = Tally(queue[l], ItemsOf(r)) + (IF m = r THEN 1 ELSE 0)
    BY <2>2, <2>3, <2>4, TallyAppend
  <2>7. Waits(r, toWorker', queue') <= Waits(r, toWorker, queue)
    <3> DEFINE d == IF m = r THEN 1 ELSE 0
    <3>1. /\ \A h \in Lanes \ {l} : queue'[h] = queue[h]
          /\ Tally(queue'[l], ItemsOf(r)) = Tally(queue[l], ItemsOf(r)) + d /\ d \in Int
      BY <2>4, <2>5
    <3>2. Tally(toWorker, {Op(r)}) = Tally(toWorker', {Op(r)}) + d
      BY <1>2
    <3> HIDE DEF d
    <3>3. Waits(r, toWorker', queue') - Tally(toWorker', {Op(r)})
             = Waits(r, toWorker, queue) - Tally(toWorker, {Op(r)}) + d
      BY <2>2, <3>1, WaitsLane
    <3>4. Waits(r, toWorker, queue) \in Nat
      BY WaitsType
    <3>5. Waits(r, toWorker', queue') \in Nat
      <4>1. /\ Tally(toWorker', {Op(r)}) \in Nat
            /\ Tally(queue'["bulk"], ItemsOf(r)) \in Nat /\ Tally(queue'["meta"], ItemsOf(r)) \in Nat
        BY <1>3, FlowTypes
      <4> QED
        BY <4>1 DEF Waits
    <3> QED
      BY <1>4, <1>5, <3>1, <3>2, <3>3, <3>4, <3>5
  <2>8. ASSUME NEW j \in Lanes, NEW i \in 1 .. Len(queue'[j]), queue'[j][i].req = r
        PROVE  queue'[j][i].sent = b + Tally(toUi, {Chunk(r)})
    <3>1. \A h \in Lanes : \A e \in 1 .. Len(queue[h]) : queue[h][e].req = r => queue[h][e].sent = b + Tally(toUi, {Chunk(r)})
      BY DEF Tracks, Flow
    <3>2. CASE j = k
      BY <2>4, <2>8, <3>1, <3>2
    <3>3. CASE j = l /\ i <= Len(queue[l])
      <4>1. i \in 1 .. Len(queue[l]) /\ queue'[j][i] = queue[l][i]
        BY <2>2, <2>3, <2>4, <3>3, LenProperties, AppendProperties
      <4> QED
        BY <2>2, <2>8, <3>1, <4>1
    <3>4. CASE j = l /\ ~(i <= Len(queue[l]))
      <4>1. Len(queue'[l]) = Len(queue[l]) + 1 /\ Len(queue[l]) \in Nat
            /\ queue'[l][Len(queue[l]) + 1] = NewItem(m)
        BY <2>2, <2>3, <2>4, LenProperties, AppendProperties
      <4>2. i = Len(queue[l]) + 1
        BY <3>4, <4>1
      <4>3. queue'[j][i] = NewItem(m) /\ m = r
        BY <2>3, <2>8, <3>4, <4>1, <4>2
      <4>4. Tally(toWorker, {Op(r)}) > 0
        BY <1>2, <1>5, <4>3
      <4>5. b + Tally(toUi, {Chunk(r)}) = 0
        BY <4>4 DEF Tracks, Flow
      <4> QED
        BY <2>3, <4>3, <4>5
    <3> QED
      BY <2>4, <3>2, <3>3, <3>4
  <2>9. Tally(toWorker', {Op(r)}) <= Tally(toWorker, {Op(r)})
    BY <1>2, <1>5
  <2> QED
    BY <2>1, <2>7, <2>8, <2>9, FlowQuiet
<1> QED
  BY <1>6, <1>7

\* A message other than a request is taken: nothing posted changes for r.
LEMMA TakeNoOp ==
    ASSUME LanesTypeOK, LanesTypeOK', NEW m \in Posts, Take(m), NEW r, m # Op(r)
    PROVE  /\ Tally(toWorker', {Op(r)}) = Tally(toWorker, {Op(r)}) /\ Tally(toWorker', {Op(r)}) \in Nat
           /\ Tally(toWorker', {Op(r)}) <= Tally(toWorker, {Op(r)})
<1>1. Tally(toWorker', {Op(r)}) \in Nat
  BY TallyType DEF LanesTypeOK
<1> QED
  BY <1>1, TakeTally

\* Taking an operation out of a lane, the others keep their requests and what they sent.
Without(q, i) == [j \in 1 .. Len(q) - 1 |-> Orphaned(q[IF j < i THEN j ELSE j + 1])]

\* Each item of t is one of q, as far as request and chunks sent go.
Among(t, q) == \A j \in 1 .. Len(t) : \E k \in 1 .. Len(q) : t[j].req = q[k].req /\ t[j].sent = q[k].sent

LEMMA TakeOutItems ==
    ASSUME NEW q \in Seq(Item), NEW i \in 1 .. Len(q), NEW r
    PROVE  /\ Tally(q, ItemsOf(r)) = Tally(Without(q, i), ItemsOf(r)) + (IF q[i].req = r THEN 1 ELSE 0)
           /\ Among(Without(q, i), q)
<1> DEFINE t == Without(q, i)
<1>1. Len(q) \in Nat /\ i \in 1 .. Len(q) /\ \A j \in 1 .. Len(q) : q[j] \in Item
  BY LenProperties, ElementOfSeq
<1>2. \A item \in Item : Orphaned(item) \in Item /\ Orphaned(item).req = item.req /\ Orphaned(item).sent = item.sent
  BY DEF Orphaned, Item
<1>3. \A j \in 1 .. Len(q) - 1 : (IF j < i THEN j ELSE j + 1) \in 1 .. Len(q)
  BY <1>1
<1>4. /\ \A j \in 1 .. Len(q) - 1 : t[j] = Orphaned(q[IF j < i THEN j ELSE j + 1])
      /\ Len(q) - 1 \in Nat /\ DOMAIN t = 1 .. Len(q) - 1
  BY <1>1 DEF Without
<1> HIDE DEF t
<1>5. ASSUME NEW j \in 1 .. Len(q) - 1, NEW k, k = IF j < i THEN j ELSE j + 1
      PROVE  k \in 1 .. Len(q) /\ q[k] \in Item /\ t[j] \in Item /\ t[j].req = q[k].req /\ t[j].sent = q[k].sent
  <2>1. k \in 1 .. Len(q) /\ t[j] = Orphaned(q[k])
    BY <1>3, <1>4, <1>5
  <2>2. q[k] \in Item
    BY <1>1, <2>1
  <2> QED
    BY <1>2, <2>1, <2>2
<1>6. t \in Seq(Item)
  <2>1. \A j \in 1 .. Len(q) - 1 : t[j] \in Item
    BY <1>5
  <2>2. t = [j \in 1 .. Len(q) - 1 |-> t[j]]
    BY DEF t, Without
  <2> QED
    BY <1>4, <2>1, <2>2, SeqDef
<1>7. Len(t) = Len(q) - 1
  BY <1>4, <1>6, LenProperties
<1> DEFINE M == ItemsOf(r)
<1>8. \A item \in Item : item \in M <=> item.req = r
  BY DEF ItemsOf
<1> HIDE DEF M
<1>9. TakenOut(q, i, t, M)
  <2>1. ASSUME NEW j \in 1 .. Len(q) - 1
        PROVE  t[j] \in M <=> q[IF j < i THEN j ELSE j + 1] \in M
    <3> DEFINE k == IF j < i THEN j ELSE j + 1
    <3>1. k = IF j < i THEN j ELSE j + 1
      OBVIOUS
    <3> HIDE DEF k
    <3>2. q[k] \in Item /\ t[j] \in Item /\ t[j].req = q[k].req
      BY <1>5, <3>1
    <3>3. t[j] \in M <=> q[k] \in M
      BY <1>8, <3>2
    <3> QED
      BY <3>1, <3>3
  <2> QED
    BY <1>7, <2>1 DEF TakenOut
<1>10. Tally(q, M) = Tally(t, M) + (IF q[i] \in M THEN 1 ELSE 0)
  BY <1>6, <1>9, TallyTakeOut
<1>11. q[i] \in M <=> q[i].req = r
  BY <1>1, <1>8
<1>12. \A j \in 1 .. Len(t) : \E k \in 1 .. Len(q) : t[j].req = q[k].req /\ t[j].sent = q[k].sent
  BY <1>5, <1>7
<1> QED
  BY <1>10, <1>11, <1>12 DEF M, t, Among

\* Cancelling takes one operation out and answers it; the others keep what they sent.
LEMMA CancelFlows ==
    ASSUME LanesTypeOK, LanesTypeOK', NEW m \in Requests, requestSftpCancelBulk(m),
           NEW r \in Requests, NEW b \in Nat, Tracks(r, b)
    PROVE  Tracks(r, b)'
<1>1. Take(Cancel(m)) /\ Cancel(m) \in Posts /\ Cancel(m) # Op(r)
  BY MessageTypes, AboutRequest DEF requestSftpCancelBulk
<1>2. /\ Tally(toWorker', {Op(r)}) = Tally(toWorker, {Op(r)}) /\ Tally(toWorker', {Op(r)}) \in Nat
      /\ Tally(toWorker', {Op(r)}) <= Tally(toWorker, {Op(r)})
  BY <1>1, TakeNoOp
<1>3. Pipes(toWorker, queue, toUi) /\ Pipes(toWorker', queue', toUi')
  BY DEF Pipes, LanesTypeOK
<1>4. Tally(queue["bulk"], ItemsOf(r)) \in Nat /\ Tally(queue["meta"], ItemsOf(r)) \in Nat
  BY <1>3, FlowTypes
<1>5. \A h \in Lanes : \A e \in 1 .. Len(queue[h]) : queue[h][e].req = r => queue[h][e].sent = b + Tally(toUi, {Chunk(r)})
  BY DEF Tracks, Flow
<1>6. CASE UNCHANGED <<queue, toUi>>
  <2>1. Waits(r, toWorker', queue') <= Waits(r, toWorker, queue)
    BY <1>2, <1>4, <1>6 DEF Waits
  <2>2. \A l \in Lanes : \A i \in 1 .. Len(queue'[l]) :
           queue'[l][i].req = r => queue'[l][i].sent = b + Tally(toUi, {Chunk(r)})
    BY <1>5, <1>6
  <2>3. toUi' = toUi
    BY <1>6
  <2> QED
    BY <1>2, <2>1, <2>2, <2>3, FlowQuiet
<1>7. ASSUME NEW i \in 1 .. Len(queue["bulk"]),
             queue["bulk"][i].req = m,
             queue' = [queue EXCEPT !["bulk"] =
                 [j \in 1 .. Len(queue["bulk"]) - 1 |->
                     Orphaned(queue["bulk"][IF j < i THEN j ELSE j + 1])]],
             toUi' = Append(toUi, Failed(m, FALSE))
      PROVE  Tracks(r, b)'
  <2> DEFINE q == queue["bulk"]
             t == Without(q, i)
             e == Failed(m, FALSE)
  <2>1. queue \in [Lanes -> Seq(Item)] /\ q \in Seq(Item) /\ i \in 1 .. Len(q) /\ q[i].req = m
    BY <1>7 DEF LanesTypeOK, Lanes
  <2>2. queue'["bulk"] = t /\ \A k \in Lanes \ {"bulk"} : queue'[k] = queue[k]
    BY <1>7, <2>1 DEF Lanes, Without
  <2>4. toUi' = Append(toUi, e) /\ e \in Answers(m) /\ e # Done(m)
    BY <1>7, AboutRequest
  <2> HIDE DEF e
  <2>5. /\ Tally(q, ItemsOf(r)) = Tally(t, ItemsOf(r)) + (IF m = r THEN 1 ELSE 0)
        /\ \A j \in 1 .. Len(t) : \E k \in 1 .. Len(q) : t[j].req = q[k].req /\ t[j].sent = q[k].sent
    <3> HIDE DEF q, t
    <3>1. /\ Tally(q, ItemsOf(r)) = Tally(Without(q, i), ItemsOf(r)) + (IF q[i].req = r THEN 1 ELSE 0)
          /\ Among(Without(q, i), q)
      BY <2>1, TakeOutItems
    <3> QED
      BY <2>1, <3>1 DEF t, Among
  <2> HIDE DEF t
  <2> DEFINE d == IF m = r THEN -1 ELSE 0
  <2>6. Tally(queue'["bulk"], ItemsOf(r)) \in Nat
    BY TallyType DEF LanesTypeOK, Lanes
  <2>7. Tally(queue'["bulk"], ItemsOf(r)) = Tally(queue["bulk"], ItemsOf(r)) + d /\ d \in Int
    BY <1>4, <2>2, <2>5, <2>6
  <2>8. Waits(r, toWorker', queue') - Tally(toWorker', {Op(r)})
           = Waits(r, toWorker, queue) - Tally(toWorker, {Op(r)}) + d
    <3> HIDE DEF d
    <3>1. "bulk" \in Lanes
      BY DEF Lanes
    <3> QED
      BY <2>2, <2>7, <3>1, WaitsLane
  <2>9. Waits(r, toWorker', queue') + (IF m = r THEN 1 ELSE 0) <= Waits(r, toWorker, queue)
    <3>1. Waits(r, toWorker, queue) \in Nat
      BY WaitsType
    <3>2. Waits(r, toWorker', queue') \in Nat
      <4>1. /\ Tally(toWorker', {Op(r)}) \in Nat
            /\ Tally(queue'["bulk"], ItemsOf(r)) \in Nat /\ Tally(queue'["meta"], ItemsOf(r)) \in Nat
        BY <1>3, FlowTypes
      <4> QED
        BY <4>1 DEF Waits
    <3> QED
      BY <1>2, <2>8, <3>1, <3>2
  <2>10. ASSUME NEW l \in Lanes, NEW j \in 1 .. Len(queue'[l]), queue'[l][j].req = r
         PROVE  queue'[l][j].sent = b + Tally(toUi, {Chunk(r)})
    <3>1. CASE l = "bulk"
      <4>1. PICK k \in 1 .. Len(q) : queue'[l][j].req = q[k].req /\ queue'[l][j].sent = q[k].sent
        BY <2>2, <2>5, <2>10, <3>1
      <4> QED
        BY <1>5, <2>10, <3>1, <4>1
    <3>2. CASE l # "bulk"
      BY <1>5, <2>2, <2>10, <3>2
    <3> QED
      BY <3>1, <3>2
  <2> QED
    BY <1>2, <2>4, <2>9, <2>10, FlowOneAnswer
<1> QED
  BY <1>6, <1>7 DEF requestSftpCancelBulk

\* failAllSftp answers each operation once and sends nothing else about it.
LEMMA FailItemsTally ==
    ASSUME NEW items \in Seq(Item), NEW tr \in BOOLEAN, NEW r \in Requests
    PROVE  /\ FailItems(items, tr) \in Seq(Signals)
           /\ Tally(FailItems(items, tr), Answers(r)) = Tally(items, ItemsOf(r))
           /\ Tally(FailItems(items, tr), {Chunk(r)}) = 0
           /\ Tally(FailItems(items, tr), {Done(r)}) = 0
<1> DEFINE F == FailItems(items, tr)
<1>1. F \in Seq(Signals)
  BY FailItemsContents
<1>2. Len(items) \in Nat /\ \A i \in 1 .. Len(items) : items[i] \in Item /\ items[i].req \in Requests
  <2>1. Len(items) \in Nat /\ \A i \in 1 .. Len(items) : items[i] \in Item
    BY LenProperties, ElementOfSeq
  <2>2. \A item \in Item : item.req \in Requests
    BY DEF Item
  <2> QED
    BY <2>1, <2>2
<1>3. Len(F) = Len(items) /\ \A i \in 1 .. Len(items) : F[i] = Failed(items[i].req, tr)
  <2>1. DOMAIN F = 1 .. Len(items)
    BY DEF FailItems
  <2>2. DOMAIN F = 1 .. Len(F) /\ Len(F) \in Nat
    BY <1>1, LenProperties
  <2>3. Len(F) = Len(items)
    <3> HIDE DEF F
    <3> QED
      BY <1>2, <2>1, <2>2
  <2> QED
    BY <2>3 DEF FailItems
<1> HIDE DEF F
<1>4. \A i \in 1 .. Len(F) : /\ F[i] \in Answers(r) <=> items[i] \in ItemsOf(r)
                             /\ F[i] \notin {Chunk(r)} /\ F[i] \notin {Done(r)}
  BY <1>2, <1>3, AboutRequest DEF ItemsOf
<1>5. Tally(F, Answers(r)) = Tally(items, ItemsOf(r))
  BY <1>3, <1>4, TallySame
<1>6. Tally(F, {Chunk(r)}) = 0
  BY <1>1, <1>4, TallyType
<1>7. Tally(F, {Done(r)}) = 0
  BY <1>1, <1>4, TallyType
<1> QED
  BY <1>1, <1>5, <1>6, <1>7 DEF F

LEMMA FailAllTally ==
    ASSUME LanesTypeOK, NEW tr \in BOOLEAN, NEW r \in Requests
    PROVE  /\ failAllSftp(tr) \in Seq(Signals)
           /\ Tally(failAllSftp(tr), Answers(r)) = Tally(queue["bulk"], ItemsOf(r)) + Tally(queue["meta"], ItemsOf(r))
           /\ Tally(failAllSftp(tr), {Chunk(r)}) = 0
           /\ Tally(failAllSftp(tr), {Done(r)}) = 0
<1> DEFINE B == FailItems(queue["bulk"], tr)
           M == FailItems(queue["meta"], tr)
<1>1. queue["bulk"] \in Seq(Item) /\ queue["meta"] \in Seq(Item)
  BY DEF LanesTypeOK, Lanes
<1>2. /\ B \in Seq(Signals) /\ Tally(B, Answers(r)) = Tally(queue["bulk"], ItemsOf(r))
      /\ Tally(B, {Chunk(r)}) = 0 /\ Tally(B, {Done(r)}) = 0
  BY <1>1, FailItemsTally
<1>3. /\ M \in Seq(Signals) /\ Tally(M, Answers(r)) = Tally(queue["meta"], ItemsOf(r))
      /\ Tally(M, {Chunk(r)}) = 0 /\ Tally(M, {Done(r)}) = 0
  BY <1>1, FailItemsTally
<1>4. failAllSftp(tr) = B \o M
  BY DEF failAllSftp
<1> HIDE DEF B, M
<1>5. B \o M \in Seq(Signals)
  BY <1>2, <1>3, ConcatProperties
<1>6. /\ Tally(B \o M, Answers(r)) = Tally(B, Answers(r)) + Tally(M, Answers(r))
      /\ Tally(B \o M, {Chunk(r)}) = Tally(B, {Chunk(r)}) + Tally(M, {Chunk(r)})
      /\ Tally(B \o M, {Done(r)}) = Tally(B, {Done(r)}) + Tally(M, {Done(r)})
  BY <1>2, <1>3, TallyConcat
<1> QED
  BY <1>2, <1>3, <1>4, <1>5, <1>6

\* Everything queued is failed.
LEMMA FailAllFlows ==
    ASSUME LanesTypeOK, LanesTypeOK', NEW r \in Requests, NEW b \in Nat, Tracks(r, b),
           queue' = NoItems, Tally(toWorker', {Op(r)}) = Tally(toWorker, {Op(r)}),
           NEW v \in Seq(Signals), toUi' = toUi \o v,
           Tally(v, Answers(r)) = Tally(queue["bulk"], ItemsOf(r)) + Tally(queue["meta"], ItemsOf(r)),
           Tally(v, {Chunk(r)}) = 0, Tally(v, {Done(r)}) = 0
    PROVE  Tracks(r, b)'
<1>1. queue'["bulk"] = <<>> /\ queue'["meta"] = <<>> /\ \A l \in Lanes : queue'[l] = <<>>
  BY DEF NoItems, Lanes
<1>2. Tally(queue'["bulk"], ItemsOf(r)) = 0 /\ Tally(queue'["meta"], ItemsOf(r)) = 0
  BY <1>1, TallyOne
<1>3. /\ Tally(toWorker, {Op(r)}) \in Nat
      /\ Tally(queue["bulk"], ItemsOf(r)) \in Nat /\ Tally(queue["meta"], ItemsOf(r)) \in Nat
  BY WaitsType
<1>4. Waits(r, toWorker', queue') + Tally(v, Answers(r)) <= Waits(r, toWorker, queue)
  BY <1>2, <1>3 DEF Waits
<1>5. Tally(toWorker', {Op(r)}) <= Tally(toWorker, {Op(r)}) /\ ~(Tally(v, {Done(r)}) > 0)
  BY <1>3
<1>6. \A l \in Lanes : \A i \in 1 .. Len(queue'[l]) :
         queue'[l][i].req = r => queue'[l][i].sent = b + Tally(toUi, {Chunk(r)})
  <2>1. \A l \in Lanes : Len(queue'[l]) = 0
    BY <1>1
  <2> QED
    BY <2>1
<1> QED
  BY <1>4, <1>5, <1>6, FlowAnswer

\* Connecting, disconnecting and losing the connection.
LEMMA SessionFlows ==
    ASSUME LanesTypeOK, LanesTypeOK', startConnect \/ requestDisconnect \/ SessionStep,
           NEW r \in Requests, NEW b \in Nat, Tracks(r, b)
    PROVE  Tracks(r, b)'
<1>1. \A h \in Lanes : \A e \in 1 .. Len(queue[h]) : queue[h][e].req = r => queue[h][e].sent = b + Tally(toUi, {Chunk(r)})
  BY DEF Tracks, Flow
<1>2. /\ Waits(r, toWorker, queue) \in Nat /\ Tally(toWorker, {Op(r)}) \in Nat
      /\ Tally(queue["bulk"], ItemsOf(r)) \in Nat /\ Tally(queue["meta"], ItemsOf(r)) \in Nat
  BY WaitsType
<1>3. Connect \in Posts /\ Disconnect \in Posts /\ Connect # Op(r) /\ Disconnect # Op(r)
  BY AboutRequest DEF Posts
<1>4. ASSUME queue' = queue, toUi' = toUi, Tally(toWorker', {Op(r)}) = Tally(toWorker, {Op(r)})
      PROVE  Tracks(r, b)'
  <2>1. Waits(r, toWorker', queue') <= Waits(r, toWorker, queue)
    BY <1>2, <1>4 DEF Waits
  <2>2. \A l \in Lanes : \A i \in 1 .. Len(queue'[l]) :
           queue'[l][i].req = r => queue'[l][i].sent = b + Tally(toUi, {Chunk(r)})
    BY <1>1, <1>4
  <2>3. Tally(toWorker', {Op(r)}) <= Tally(toWorker, {Op(r)})
    BY <1>2, <1>4
  <2> QED
    BY <1>4, <2>1, <2>2, <2>3, FlowQuiet
<1>5. CASE startConnect
  <2>1. Take(Connect) /\ UNCHANGED <<queue, toUi>>
    BY <1>5 DEF startConnect
  <2>2. Tally(toWorker', {Op(r)}) = Tally(toWorker, {Op(r)})
    BY <1>3, <2>1, TakeNoOp
  <2> QED
    BY <1>4, <2>1, <2>2
<1>6. CASE Connected
  BY <1>4, <1>6 DEF Connected
<1>7. CASE requestDisconnect
  <2>1. Take(Disconnect) /\ queue' = NoItems /\ toUi' = toUi \o failAllSftp(TRUE)
    BY <1>7 DEF requestDisconnect
  <2>2. Tally(toWorker', {Op(r)}) = Tally(toWorker, {Op(r)})
    BY <1>3, <2>1, TakeNoOp
  <2> DEFINE v == failAllSftp(TRUE)
  <2>3. /\ v \in Seq(Signals)
        /\ Tally(v, Answers(r)) = Tally(queue["bulk"], ItemsOf(r)) + Tally(queue["meta"], ItemsOf(r))
        /\ Tally(v, {Chunk(r)}) = 0 /\ Tally(v, {Done(r)}) = 0
    BY FailAllTally
  <2> HIDE DEF v
  <2>4. toUi' = toUi \o v
    BY <2>1 DEF v
  <2> QED
    BY <2>1, <2>2, <2>3, <2>4, FailAllFlows
<1>8. ASSUME NEW tr \in BOOLEAN, enterConnectionLost(tr) PROVE Tracks(r, b)'
  <2> DEFINE F == failAllSftp(tr)
             v == Append(F, Lost)
  <2>1. toWorker' = toWorker /\ queue' = NoItems /\ toUi' = Append(toUi \o F, Lost)
    BY <1>8 DEF enterConnectionLost
  <2>2. /\ F \in Seq(Signals)
        /\ Tally(F, Answers(r)) = Tally(queue["bulk"], ItemsOf(r)) + Tally(queue["meta"], ItemsOf(r))
        /\ Tally(F, {Chunk(r)}) = 0 /\ Tally(F, {Done(r)}) = 0
    BY FailAllTally
  <2> HIDE DEF F
  <2>3. Lost \in Signals /\ Lost \notin Answers(r) /\ Lost \notin {Chunk(r)} /\ Lost \notin {Done(r)}
    BY AboutRequest DEF Signals
  <2>4. v \in Seq(Signals) /\ toUi' = toUi \o v
    <3>1. toUi \in Seq(Signals) /\ <<Lost>> \in Seq(Signals)
      BY <2>3 DEF LanesTypeOK
    <3>2. v = F \o <<Lost>> /\ v \in Seq(Signals)
      BY <2>2, <2>3, AppendIsConcat, AppendProperties
    <3>3. toUi \o F \in Seq(Signals)
      BY <2>2, <3>1, ConcatProperties
    <3>4. toUi' = (toUi \o F) \o <<Lost>>
      BY <2>1, <2>3, <3>3, AppendIsConcat
    <3>5. (toUi \o F) \o <<Lost>> = toUi \o (F \o <<Lost>>)
      BY <2>2, <3>1, ConcatAssociative
    <3> QED
      BY <3>2, <3>4, <3>5
  <2>5. /\ Tally(v, Answers(r)) = Tally(F, Answers(r)) + (IF Lost \in Answers(r) THEN 1 ELSE 0)
        /\ Tally(v, {Chunk(r)}) = Tally(F, {Chunk(r)}) + (IF Lost \in {Chunk(r)} THEN 1 ELSE 0)
        /\ Tally(v, {Done(r)}) = Tally(F, {Done(r)}) + (IF Lost \in {Done(r)} THEN 1 ELSE 0)
    BY <2>2, <2>3, TallyAppend
  <2> HIDE DEF v
  <2>6. /\ Tally(v, Answers(r)) = Tally(queue["bulk"], ItemsOf(r)) + Tally(queue["meta"], ItemsOf(r))
        /\ Tally(v, {Chunk(r)}) = 0 /\ Tally(v, {Done(r)}) = 0
    BY <1>2, <2>2, <2>3, <2>5
  <2>7. Tally(toWorker', {Op(r)}) = Tally(toWorker, {Op(r)})
    BY <2>1
  <2> QED
    BY <2>1, <2>4, <2>6, <2>7, FailAllFlows
<1> QED
  BY <1>5, <1>6, <1>7, <1>8 DEF SessionStep

\* The head of a lane, and what taking it off or replacing it does to the counts.
LEMMA HeadItem ==
    ASSUME LanesTypeOK, NEW l \in Lanes, queue[l] # <<>>, NEW r
    PROVE  /\ queue[l] \in Seq(Item) /\ HeadOf(l) \in Item /\ HeadOf(l) = queue[l][1] /\ 1 \in 1 .. Len(queue[l])
           /\ HeadOf(l).req \in Requests /\ HeadOf(l).sent \in 0 .. FileChunks
           /\ Tail(queue[l]) \in Seq(Item) /\ Len(Tail(queue[l])) = Len(queue[l]) - 1 /\ Len(queue[l]) \in Nat
           /\ \A i \in 1 .. Len(Tail(queue[l])) : Tail(queue[l])[i] = queue[l][i + 1]
           /\ Tally(queue[l], ItemsOf(r)) = Tally(Tail(queue[l]), ItemsOf(r)) + (IF HeadOf(l).req = r THEN 1 ELSE 0)
           /\ Tally(Tail(queue[l]), ItemsOf(r)) \in Nat
<1>1. queue[l] \in Seq(Item)
  BY DEF LanesTypeOK
<1> DEFINE q == queue[l]
<1>2. q \in Seq(Item) /\ q # <<>>
  BY <1>1
<1>3. HeadOf(l) = Head(q)
  BY DEF HeadOf
<1> HIDE DEF q
<1>4. /\ Head(q) \in Item /\ Tail(q) \in Seq(Item) /\ Len(Tail(q)) = Len(q) - 1
      /\ \A i \in 1 .. Len(Tail(q)) : Tail(q)[i] = q[i + 1]
  BY <1>2, HeadTailProperties
<1>5. Len(q) \in Nat \ {0} /\ Head(q) = q[1]
  BY <1>2, EmptySeq
<1>6. Head(q).req \in Requests /\ Head(q).sent \in 0 .. FileChunks /\ (Head(q) \in ItemsOf(r) <=> Head(q).req = r)
  BY <1>4 DEF Item, ItemsOf
<1>7. Tally(q, ItemsOf(r)) = Tally(Tail(q), ItemsOf(r)) + (IF Head(q) \in ItemsOf(r) THEN 1 ELSE 0)
  BY <1>2, TallyTail
<1>8. Tally(Tail(q), ItemsOf(r)) \in Nat
  BY <1>4, TallyType
<1>9. Tally(q, ItemsOf(r)) = Tally(Tail(q), ItemsOf(r)) + (IF Head(q).req = r THEN 1 ELSE 0)
  BY <1>6, <1>7
<1> QED
  BY <1>2, <1>3, <1>4, <1>5, <1>6, <1>8, <1>9 DEF q

\* The operation at the head ends with an answer.
LEMMA FinishFlows ==
    ASSUME LanesTypeOK, LanesTypeOK', NEW l \in Lanes, queue[l] # <<>>, toWorker' = toWorker,
           NEW e \in Answers(HeadOf(l).req), Finish(l, e),
           NEW r \in Requests, NEW b \in Nat, Tracks(r, b),
           e = Done(HeadOf(l).req) /\ HeadOf(l).req = r => HeadOf(l).sent = FileChunks
    PROVE  Tracks(r, b)'
<1> DEFINE m == HeadOf(l).req
           q == queue[l]
           d == IF m = r THEN -1 ELSE 0
<1>1. \A h \in Lanes : \A i \in 1 .. Len(queue[h]) : queue[h][i].req = r => queue[h][i].sent = b + Tally(toUi, {Chunk(r)})
  BY DEF Tracks, Flow
<1>2. /\ HeadOf(l) = q[1] /\ 1 \in 1 .. Len(q) /\ m \in Requests
      /\ Len(Tail(q)) = Len(q) - 1 /\ Len(q) \in Nat
      /\ \A i \in 1 .. Len(Tail(q)) : Tail(q)[i] = q[i + 1]
      /\ Tally(q, ItemsOf(r)) = Tally(Tail(q), ItemsOf(r)) + (IF m = r THEN 1 ELSE 0)
      /\ Tally(Tail(q), ItemsOf(r)) \in Nat
  BY HeadItem
<1>3. queue'[l] = Tail(q) /\ (\A k \in Lanes \ {l} : queue'[k] = queue[k]) /\ toUi' = Append(toUi, e)
  BY DEF Finish, LanesTypeOK
<1>4. Tally(queue'[l], ItemsOf(r)) = Tally(queue[l], ItemsOf(r)) + d /\ d \in Int
  BY <1>2, <1>3
<1>5. Waits(r, toWorker', queue') - Tally(toWorker', {Op(r)}) = Waits(r, toWorker, queue) - Tally(toWorker, {Op(r)}) + d
  <2> HIDE DEF d
  <2> QED
    BY <1>3, <1>4, WaitsLane
<1>6. Waits(r, toWorker, queue) \in Nat /\ Tally(toWorker, {Op(r)}) \in Nat
  BY WaitsType
<1>7. Waits(r, toWorker', queue') \in Nat
  <2>1. Pipes(toWorker', queue', toUi')
    BY DEF Pipes, LanesTypeOK
  <2>2. /\ Tally(toWorker', {Op(r)}) \in Nat
        /\ Tally(queue'["bulk"], ItemsOf(r)) \in Nat /\ Tally(queue'["meta"], ItemsOf(r)) \in Nat
    BY <2>1, FlowTypes
  <2> QED
    BY <2>2 DEF Waits
<1>8. Waits(r, toWorker', queue') + (IF m = r THEN 1 ELSE 0) <= Waits(r, toWorker, queue)
  BY <1>5, <1>6, <1>7
<1>9. Tally(toWorker', {Op(r)}) <= Tally(toWorker, {Op(r)})
  BY <1>6
<1>10. ASSUME NEW h \in Lanes, NEW i \in 1 .. Len(queue'[h]), queue'[h][i].req = r
       PROVE  queue'[h][i].sent = b + Tally(toUi, {Chunk(r)})
  <2>1. CASE h = l
    <3>1. i \in 1 .. Len(Tail(q)) /\ queue'[h][i] = Tail(q)[i]
      BY <1>3, <1>10, <2>1
    <3>2. i + 1 \in 1 .. Len(q)
      <4>1. Len(q) \in Nat /\ Len(Tail(q)) = Len(q) - 1
        BY <1>2
      <4> HIDE DEF q
      <4> QED
        BY <3>1, <4>1
    <3>3. Tail(q)[i] = q[i + 1]
      BY <1>2, <3>1
    <3> QED
      BY <1>1, <1>10, <2>1, <3>1, <3>2, <3>3
  <2>2. CASE h # l
    BY <1>1, <1>3, <1>10, <2>2
  <2> QED
    BY <2>1, <2>2
<1>11. e = Done(m) /\ m = r => b + Tally(toUi, {Chunk(r)}) = FileChunks
  BY <1>1, <1>2
<1> HIDE DEF m
<1>12. e \in Answers(m)
  BY DEF m
<1> QED
  BY <1>2, <1>3, <1>8, <1>9, <1>10, <1>11, <1>12, FlowOneAnswer

\* The operation at the head goes on; the counts stay.
LEMMA AdvanceKeepsCounts ==
    ASSUME LanesTypeOK, LanesTypeOK', NEW l \in Lanes, queue[l] # <<>>, toWorker' = toWorker,
           NEW item \in Item, item.req = HeadOf(l).req, Advance(l, item), NEW r
    PROVE  /\ queue'[l] = <<item>> \o Tail(queue[l]) /\ \A k \in Lanes \ {l} : queue'[k] = queue[k]
           /\ Tally(toWorker', {Op(r)}) = Tally(toWorker, {Op(r)})
           /\ Waits(r, toWorker', queue') = Waits(r, toWorker, queue)
           /\ queue'[l][1] = item
           /\ \A i \in 2 .. Len(queue'[l]) : i \in 1 .. Len(queue[l]) /\ queue'[l][i] = queue[l][i]
<1> DEFINE q == queue[l]
           t == Tail(q)
<1>1. /\ 1 \in 1 .. Len(q) /\ t \in Seq(Item) /\ Len(t) = Len(q) - 1 /\ Len(q) \in Nat
      /\ \A i \in 1 .. Len(t) : t[i] = q[i + 1]
      /\ Tally(q, ItemsOf(r)) = Tally(t, ItemsOf(r)) + (IF HeadOf(l).req = r THEN 1 ELSE 0)
      /\ Tally(t, ItemsOf(r)) \in Nat
  BY HeadItem
<1>2. queue'[l] = <<item>> \o t /\ \A k \in Lanes \ {l} : queue'[k] = queue[k]
  BY DEF Advance, LanesTypeOK
<1> HIDE DEF t
<1>3. <<item>> \in Seq(Item) /\ Len(<<item>>) = 1 /\ <<item>>[1] = item
  OBVIOUS
<1>4. Tally(<<item>> \o t, ItemsOf(r)) = Tally(<<item>>, ItemsOf(r)) + Tally(t, ItemsOf(r))
  BY <1>1, <1>3, TallyConcat
<1>5. Tally(<<item>>, ItemsOf(r)) = IF item \in ItemsOf(r) THEN 1 ELSE 0
  BY TallyOne
<1>6. item \in ItemsOf(r) <=> HeadOf(l).req = r
  BY DEF ItemsOf
<1> DEFINE d == 0
<1>7. d \in Int /\ Tally(queue'[l], ItemsOf(r)) = Tally(queue[l], ItemsOf(r)) + d
  BY <1>1, <1>2, <1>4, <1>5, <1>6
<1>8. Waits(r, toWorker', queue') - Tally(toWorker', {Op(r)}) = Waits(r, toWorker, queue) - Tally(toWorker, {Op(r)}) + d
  <2> HIDE DEF d
  <2> QED
    BY <1>2, <1>7, WaitsLane
<1>9. Waits(r, toWorker, queue) \in Nat /\ Tally(toWorker, {Op(r)}) \in Nat
  BY WaitsType
<1>10. Waits(r, toWorker', queue') \in Nat
  <2>1. Pipes(toWorker', queue', toUi')
    BY DEF Pipes, LanesTypeOK
  <2>2. /\ Tally(toWorker', {Op(r)}) \in Nat
        /\ Tally(queue'["bulk"], ItemsOf(r)) \in Nat /\ Tally(queue'["meta"], ItemsOf(r)) \in Nat
    BY <2>1, FlowTypes
  <2> QED
    BY <2>2 DEF Waits
<1>11. Waits(r, toWorker', queue') = Waits(r, toWorker, queue)
  BY <1>8, <1>9, <1>10
<1>12. /\ Len(<<item>> \o t) = 1 + Len(t)
       /\ \A i \in 1 .. 1 + Len(t) : (<<item>> \o t)[i] = IF i <= 1 THEN item ELSE t[i - 1]
  BY <1>1, <1>3, ConcatProperties
<1>13. \A i \in 2 .. Len(queue'[l]) : i \in 1 .. Len(q) /\ queue'[l][i] = q[i]
  <2> SUFFICES ASSUME NEW i \in 2 .. Len(queue'[l]) PROVE i \in 1 .. Len(q) /\ queue'[l][i] = q[i]
    OBVIOUS
  <2>1. i \in 2 .. Len(q) /\ i - 1 \in 1 .. Len(t)
    BY <1>1, <1>2, <1>12
  <2>2. t[i - 1] = q[(i - 1) + 1] /\ (i - 1) + 1 = i
    BY <1>1, <2>1
  <2> QED
    BY <1>1, <1>2, <1>12, <2>1, <2>2
<1>14. queue'[l][1] = item
  BY <1>1, <1>2, <1>12
<1> QED
  BY <1>2, <1>11, <1>13, <1>14 DEF t

\* The handle is opened.
LEMMA OpenFlows ==
    ASSUME LanesTypeOK, LanesTypeOK', NEW l \in Lanes, OperationBegun(l),
           NEW r \in Requests, NEW b \in Nat, Tracks(r, b)
    PROVE  Tracks(r, b)'
<1> DEFINE item == [HeadOf(l) EXCEPT !.phase = "transfer"]
<1>1. queue[l] # <<>> /\ toWorker' = toWorker /\ toUi' = toUi /\ Advance(l, item)
  BY DEF OperationBegun, Servicing
<1>2. HeadOf(l) \in Item /\ HeadOf(l) = queue[l][1] /\ 1 \in 1 .. Len(queue[l])
  BY <1>1, HeadItem
<1>3. item \in Item /\ item.req = HeadOf(l).req /\ item.sent = HeadOf(l).sent
  BY <1>2 DEF Item
<1> HIDE DEF item
<1>4. /\ \A k \in Lanes \ {l} : queue'[k] = queue[k]
      /\ Tally(toWorker', {Op(r)}) = Tally(toWorker, {Op(r)})
      /\ Waits(r, toWorker', queue') = Waits(r, toWorker, queue)
      /\ queue'[l][1] = item
      /\ \A i \in 2 .. Len(queue'[l]) : i \in 1 .. Len(queue[l]) /\ queue'[l][i] = queue[l][i]
  BY <1>1, <1>3, AdvanceKeepsCounts
<1>5. \A h \in Lanes : \A i \in 1 .. Len(queue[h]) : queue[h][i].req = r => queue[h][i].sent = b + Tally(toUi, {Chunk(r)})
  BY DEF Tracks, Flow
<1>6. ASSUME NEW h \in Lanes, NEW i \in 1 .. Len(queue'[h]), queue'[h][i].req = r
      PROVE  queue'[h][i].sent = b + Tally(toUi, {Chunk(r)})
  <2>1. CASE h = l /\ i = 1
    BY <1>2, <1>3, <1>4, <1>5, <1>6, <2>1
  <2>2. CASE h = l /\ i # 1
    <3>1. i \in 2 .. Len(queue'[l])
      BY <2>2
    <3> QED
      BY <1>4, <1>5, <1>6, <2>2, <3>1
  <2>3. CASE h # l
    BY <1>4, <1>5, <1>6, <2>3
  <2> QED
    BY <2>1, <2>2, <2>3
<1>7. Waits(r, toWorker, queue) \in Nat /\ Tally(toWorker, {Op(r)}) \in Nat
  BY WaitsType
<1>8. /\ Waits(r, toWorker', queue') <= Waits(r, toWorker, queue)
      /\ Tally(toWorker', {Op(r)}) <= Tally(toWorker, {Op(r)})
  BY <1>4, <1>7
<1> QED
  BY <1>1, <1>6, <1>8, FlowQuiet

\* r stands at the head of lane l and nowhere else in a lane.
OnlyHead(r, l) == \A h \in Lanes : \A i \in 1 .. Len(queue[h]) : queue[h][i].req = r => h = l /\ i = 1

\* A request with one place that heads a lane is nowhere else.
LEMMA HeadAlone ==
    ASSUME LanesTypeOK, NEW l \in Lanes, queue[l] # <<>>, NEW r, NEW b,
           Tracks(r, b), HeadOf(l).req = r
    PROVE  /\ Waits(r, toWorker, queue) > 0 /\ Tally(toWorker, {Op(r)}) = 0
           /\ OnlyHead(r, l)
<1> DEFINE q == queue[l]
           T == Tally(Tail(q), ItemsOf(r))
<1>1. /\ q \in Seq(Item) /\ Tail(q) \in Seq(Item) /\ Len(Tail(q)) = Len(q) - 1 /\ Len(q) \in Nat
      /\ \A i \in 1 .. Len(Tail(q)) : Tail(q)[i] = q[i + 1]
      /\ Tally(q, ItemsOf(r)) = T + 1 /\ T \in Nat
  BY HeadItem
<1>2. /\ Tally(toWorker, {Op(r)}) \in Nat /\ Tally(toUi, Answers(r)) \in Nat
      /\ Tally(queue["bulk"], ItemsOf(r)) \in Nat /\ Tally(queue["meta"], ItemsOf(r)) \in Nat
  BY WaitsType
<1>3. Waits(r, toWorker, queue) + Tally(toUi, Answers(r)) <= 1
  BY DEF Tracks, Flow
<1> HIDE DEF T
<1>4. /\ Waits(r, toWorker, queue) > 0 /\ Tally(toWorker, {Op(r)}) = 0 /\ T = 0
      /\ \A k \in Lanes \ {l} : Tally(queue[k], ItemsOf(r)) = 0
  <2>1. CASE l = "bulk"
    <3>1. Tally(queue["bulk"], ItemsOf(r)) = T + 1
      BY <1>1, <2>1
    <3> QED
      BY <1>1, <1>2, <1>3, <2>1, <3>1 DEF Waits, Lanes
  <2>2. CASE l = "meta"
    <3>1. Tally(queue["meta"], ItemsOf(r)) = T + 1
      BY <1>1, <2>2
    <3> QED
      BY <1>1, <1>2, <1>3, <2>2, <3>1 DEF Waits, Lanes
  <2> QED
    BY <2>1, <2>2 DEF Lanes
<1>5. ASSUME NEW h \in Lanes, NEW i \in 1 .. Len(queue[h]), queue[h][i].req = r
      PROVE  h = l /\ i = 1
  <2>1. queue[h] \in Seq(Item)
    BY DEF LanesTypeOK
  <2>2. queue[h][i] \in ItemsOf(r)
    BY <1>5, <2>1, ElementOfSeq DEF ItemsOf
  <2>3. h = l
    <3>1. Tally(queue[h], ItemsOf(r)) > 0
      BY <2>1, <2>2, TallyType
    <3> QED
      BY <1>4, <3>1
  <2>4. i = 1
    <3> SUFFICES ASSUME i # 1 PROVE FALSE
      OBVIOUS
    <3>1. i - 1 \in 1 .. Len(Tail(q)) /\ (i - 1) + 1 = i
      BY <1>1, <2>3
    <3>2. Tail(q)[i - 1] \in ItemsOf(r)
      BY <1>1, <2>2, <2>3, <3>1
    <3>3. T > 0
      BY <1>1, <3>1, <3>2, TallyType DEF T
    <3> QED
      BY <1>4, <3>3
  <2> QED
    BY <2>3, <2>4
<1> QED
  BY <1>4, <1>5 DEF OnlyHead

\* A chunk is sent: of r, or of another request.
LEMMA ChunkFlows ==
    ASSUME LanesTypeOK, LanesTypeOK', NEW l \in Lanes, ChunkSent(l),
           NEW r \in Requests, NEW b \in Nat, Tracks(r, b)
    PROVE  Tracks(r, b)'
<1> DEFINE m == HeadOf(l).req
           item == [HeadOf(l) EXCEPT !.sent = @ + 1]
           v == <<Chunk(m)>>
           T == Tally(toUi, {Chunk(r)})
<1>1. /\ queue[l] # <<>> /\ toWorker' = toWorker /\ toUi' = Append(toUi, Chunk(m))
      /\ Advance(l, item) /\ HeadOf(l).sent < FileChunks
  BY DEF ChunkSent, Servicing
<1>2. /\ HeadOf(l) \in Item /\ HeadOf(l) = queue[l][1] /\ 1 \in 1 .. Len(queue[l])
      /\ m \in Requests /\ HeadOf(l).sent \in 0 .. FileChunks
  BY <1>1, HeadItem
<1>3. item \in Item /\ item.req = m /\ item.sent = HeadOf(l).sent + 1
  BY <1>1, <1>2, LimitAssumption DEF Item
<1> HIDE DEF item
<1>4. /\ \A k \in Lanes \ {l} : queue'[k] = queue[k]
      /\ Tally(toWorker', {Op(r)}) = Tally(toWorker, {Op(r)})
      /\ Waits(r, toWorker', queue') = Waits(r, toWorker, queue)
      /\ queue'[l][1] = item
      /\ \A i \in 2 .. Len(queue'[l]) : i \in 1 .. Len(queue[l]) /\ queue'[l][i] = queue[l][i]
  BY <1>1, <1>3, AdvanceKeepsCounts
<1>5. \A h \in Lanes : \A i \in 1 .. Len(queue[h]) : queue[h][i].req = r => queue[h][i].sent = b + T
  BY DEF Tracks, Flow
<1>6. /\ Waits(r, toWorker, queue) \in Nat /\ Tally(toWorker, {Op(r)}) \in Nat /\ T \in Nat
  BY WaitsType
<1>7. v \in Seq(Signals) /\ toUi' = toUi \o v
  <2>1. toUi \in Seq(Signals) /\ Chunk(m) \in Signals
    BY <1>2, MessageTypes DEF LanesTypeOK
  <2> HIDE DEF m
  <2> QED
    BY <1>1, <2>1, AppendIsConcat
<1>8. /\ Tally(v, Answers(r)) = 0 /\ Tally(v, {Done(r)}) = 0
      /\ Tally(v, {Chunk(r)}) = (IF m = r THEN 1 ELSE 0) /\ Len(v) = 1
  <2>1. /\ Chunk(m) \notin Answers(r) /\ Chunk(m) \notin {Done(r)}
        /\ Chunk(m) \in {Chunk(r)} <=> m = r
    BY <1>2, AboutRequest
  <2>2. /\ Tally(v, Answers(r)) = IF Chunk(m) \in Answers(r) THEN 1 ELSE 0
        /\ Tally(v, {Done(r)}) = IF Chunk(m) \in {Done(r)} THEN 1 ELSE 0
        /\ Tally(v, {Chunk(r)}) = IF Chunk(m) \in {Chunk(r)} THEN 1 ELSE 0
    BY TallyOne
  <2> QED
    BY <2>1, <2>2
<1> HIDE DEF v, m, T
<1>9. CASE m # r
  <2>1. ASSUME NEW h \in Lanes, NEW i \in 1 .. Len(queue'[h]), queue'[h][i].req = r
        PROVE  queue'[h][i].sent = b + T
    <3>1. CASE h = l /\ i = 1
      BY <1>3, <1>4, <1>9, <2>1, <3>1
    <3>2. CASE h = l /\ i # 1
      <4>1. i \in 2 .. Len(queue'[l])
        BY <3>2
      <4> QED
        BY <1>4, <1>5, <2>1, <3>2, <4>1
    <3>3. CASE h # l
      BY <1>4, <1>5, <2>1, <3>3
    <3> QED
      BY <3>1, <3>2, <3>3
  <2>2. /\ Tally(v, {Chunk(r)}) = 0 /\ ~(Tally(v, {Done(r)}) > 0)
        /\ Waits(r, toWorker', queue') + Tally(v, Answers(r)) <= Waits(r, toWorker, queue)
        /\ Tally(toWorker', {Op(r)}) <= Tally(toWorker, {Op(r)})
    BY <1>4, <1>6, <1>8, <1>9
  <2> QED
    BY <1>7, <2>1, <2>2, FlowAnswer DEF T
<1>10. CASE m = r
  <2> DEFINE n == b + T + 1
  <2>1. /\ Waits(r, toWorker, queue) > 0 /\ Tally(toWorker, {Op(r)}) = 0
        /\ \A h \in Lanes : \A i \in 1 .. Len(queue[h]) : queue[h][i].req = r => h = l /\ i = 1
    <3>1. HeadOf(l).req = r /\ queue[l] # <<>>
      BY <1>1, <1>10 DEF m
    <3>2. /\ Waits(r, toWorker, queue) > 0 /\ Tally(toWorker, {Op(r)}) = 0
          /\ OnlyHead(r, l)
      BY <3>1, HeadAlone
    <3> QED
      BY <3>2 DEF OnlyHead
  <2>2. HeadOf(l).sent = b + T
    BY <1>2, <1>5, <1>10 DEF m
  <2>3. ASSUME NEW h \in Lanes, NEW i \in 1 .. Len(queue'[h]), queue'[h][i].req = r
        PROVE  queue'[h][i].sent = n
    <3>1. CASE h = l /\ i = 1
      BY <1>3, <1>4, <2>2, <3>1
    <3>2. CASE h = l /\ i # 1
      <4>1. i \in 2 .. Len(queue'[l])
        BY <3>2
      <4> QED
        BY <1>4, <2>1, <2>3, <3>2, <4>1
    <3>3. CASE h # l
      BY <1>4, <2>1, <2>3, <3>3
    <3> QED
      BY <3>1, <3>2, <3>3
  <2>4. Pipes(toWorker, queue, toUi) /\ Pipes(toWorker', queue', v)
    BY <1>7 DEF Pipes, LanesTypeOK
  <2>5. n = b + T + Tally(v, {Chunk(r)}) /\ n <= FileChunks
    BY <1>1, <1>2, <1>6, <1>8, <1>10, <2>2, LimitAssumption
  <2> HIDE DEF n
  <2>6. /\ Waits(r, toWorker', queue') + Tally(v, Answers(r)) <= Waits(r, toWorker, queue)
        /\ ~(Tally(toWorker', {Op(r)}) > 0) /\ ~(Tally(v, {Done(r)}) > 0)
    BY <1>4, <1>6, <1>8, <2>1
  <2>7. n = b + Tally(toUi, {Chunk(r)}) + Tally(v, {Chunk(r)}) /\ Flow(r, b, toWorker, queue, toUi)
    BY <2>5 DEF T, Tracks
  <2>8. Flow(r, b, toWorker', queue', toUi \o v)
    BY <1>8, <2>1, <2>3, <2>4, <2>5, <2>6, <2>7, FlowStep
  <2> QED
    BY <1>7, <2>8 DEF Tracks
<1> QED
  BY <1>9, <1>10

\* A turn of a lane.
LEMMA LaneFlows ==
    ASSUME LanesTypeOK, LanesTypeOK', NEW l \in Lanes, LaneStep(l),
           NEW r \in Requests, Kind[r[1]] = "stream", NEW b \in Nat, Tracks(r, b)
    PROVE  Tracks(r, b)'
<1>1. CASE LaneInited(l)
  <2>1. UNCHANGED <<queue, toWorker, toUi>>
    BY <1>1 DEF LaneInited
  <2> QED
    BY <2>1 DEF Tracks
<1>2. ASSUME NEW tr \in BOOLEAN, Servicing(l), Finish(l, Failed(HeadOf(l).req, tr)), toWorker' = toWorker
      PROVE  Tracks(r, b)'
  <2> DEFINE e == Failed(HeadOf(l).req, tr)
  <2>1. queue[l] # <<>> /\ HeadOf(l).req \in Requests
    BY <1>2, HeadItem DEF Servicing
  <2>2. e \in Answers(HeadOf(l).req) /\ e # Done(HeadOf(l).req)
    BY DEF Answers, Failed, Done
  <2>3. Finish(l, e)
    BY <1>2
  <2> HIDE DEF e
  <2> QED
    BY <1>2, <2>1, <2>2, <2>3, FinishFlows
<1>3. CASE LaneInitFailed(l)
  BY <1>2, <1>3 DEF LaneInitFailed
<1>4. CASE OperationFailed(l)
  BY <1>2, <1>4 DEF OperationFailed
<1>5. CASE OperationDone(l)
  <2> DEFINE e == Done(HeadOf(l).req)
  <2>1. /\ queue[l] # <<>> /\ Finish(l, e) /\ toWorker' = toWorker /\ e \in Answers(HeadOf(l).req)
        /\ HeadOf(l).req = r => HeadOf(l).sent = FileChunks
    BY <1>5 DEF OperationDone, Servicing, Answers
  <2> HIDE DEF e
  <2> QED
    BY <2>1, FinishFlows
<1> QED
  BY <1>1, <1>3, <1>4, <1>5, OpenFlows, ChunkFlows DEF LaneStep

\* No step of the worker, on whatever request, breaks the flow of a streaming read.
THEOREM WorkerFlows ==
    ASSUME LanesTypeOK, WorkerStep,
           NEW r \in Requests, Kind[r[1]] = "stream", NEW b \in Nat, Tracks(r, b)
    PROVE  Tracks(r, b)'
<1>1. LanesTypeOK'
  BY WorkerKeeps
<1>2. CASE PostedStep
  <2>1. CASE \E m \in Requests : enqueueSftpOp(m) \/ requestSftpCancelBulk(m)
    BY <1>1, <2>1, EnqueueFlows, CancelFlows
  <2>2. CASE startConnect \/ requestDisconnect
    BY <1>1, <2>2, SessionFlows
  <2> QED
    BY <1>2, <2>1, <2>2 DEF PostedStep
<1>3. CASE SessionStep
  BY <1>1, <1>3, SessionFlows
<1>4. CASE \E l \in Lanes : LaneStep(l)
  BY <1>1, <1>4, LaneFlows
<1> QED
  BY <1>2, <1>3, <1>4 DEF WorkerStep

-----------------------------------------------------------------------------
(* What the worker served does not wait again *)

OpenItemsOf(r) == {item \in Item : item.req = r /\ item.phase = "open"}

\* How often r waits to be begun, and whether it was served already.
Unbegun(r) ==
    Tally(toWorker, {Op(r)}) + Tally(queue["bulk"], OpenItemsOf(r))
                             + Tally(queue["meta"], OpenItemsOf(r))
Turns(r) == Unbegun(r) + (IF r \in served THEN 1 ELSE 0)

\* What left the open phase was begun.
BegunServed ==
    \A l \in Lanes : \A i \in 1 .. Len(queue[l]) :
        queue[l][i].phase # "open" => queue[l][i].req \in served

\* A step that gives no request another turn.
NoNewTurn == \A r \in Requests : Turns(r)' <= Turns(r)

LEMMA UnbegunType ==
    ASSUME LanesTypeOK, NEW r
    PROVE  /\ Tally(toWorker, {Op(r)}) \in Nat /\ Unbegun(r) \in Nat /\ Turns(r) \in Nat
           /\ Tally(queue["bulk"], OpenItemsOf(r)) \in Nat /\ Tally(queue["meta"], OpenItemsOf(r)) \in Nat
<1>1. toWorker \in Seq(Posts) /\ queue["bulk"] \in Seq(Item) /\ queue["meta"] \in Seq(Item)
  BY DEF LanesTypeOK, Lanes
<1>2. /\ Tally(toWorker, {Op(r)}) \in Nat
      /\ Tally(queue["bulk"], OpenItemsOf(r)) \in Nat /\ Tally(queue["meta"], OpenItemsOf(r)) \in Nat
  BY <1>1, TallyType
<1>3. Unbegun(r) \in Nat
  BY <1>2 DEF Unbegun
<1> QED
  BY <1>2, <1>3 DEF Turns

\* The same after a step.
LEMMA UnbegunTypeNext ==
    ASSUME LanesTypeOK', NEW r
    PROVE  /\ Tally(toWorker', {Op(r)}) \in Nat
           /\ Tally(queue'["bulk"], OpenItemsOf(r)) \in Nat /\ Tally(queue'["meta"], OpenItemsOf(r)) \in Nat
<1>1. toWorker' \in Seq(Posts) /\ queue'["bulk"] \in Seq(Item) /\ queue'["meta"] \in Seq(Item)
  BY DEF LanesTypeOK, Lanes
<1> QED
  BY <1>1, TallyType

\* A step that changes one lane only, and of it takes d waiting requests r.
LEMMA OneLane ==
    ASSUME LanesTypeOK, LanesTypeOK', NEW r, NEW l \in Lanes, NEW d \in Int,
           \A k \in Lanes \ {l} : queue'[k] = queue[k],
           Tally(queue'[l], OpenItemsOf(r)) = Tally(queue[l], OpenItemsOf(r)) - d
    PROVE  Unbegun(r)' - Tally(toWorker', {Op(r)}) = Unbegun(r) - Tally(toWorker, {Op(r)}) - d
<1>1. /\ Tally(toWorker, {Op(r)}) \in Nat
      /\ Tally(queue["bulk"], OpenItemsOf(r)) \in Nat /\ Tally(queue["meta"], OpenItemsOf(r)) \in Nat
  BY UnbegunType
<1>2. Tally(toWorker', {Op(r)}) \in Nat
  BY UnbegunTypeNext
<1>3. CASE l = "bulk"
  <2>1. queue'["meta"] = queue["meta"]
    BY <1>3 DEF Lanes
  <2> QED
    BY <1>1, <1>2, <1>3, <2>1 DEF Unbegun
<1>4. CASE l = "meta"
  <2>1. queue'["bulk"] = queue["bulk"]
    BY <1>4 DEF Lanes
  <2> QED
    BY <1>1, <1>2, <1>4, <2>1 DEF Unbegun
<1> QED
  BY <1>3, <1>4 DEF Lanes

\* A request reaches its lane, or is answered at once.
LEMMA EnqueueTurns ==
    ASSUME LanesTypeOK, LanesTypeOK', BegunServed, NEW m \in Requests, enqueueSftpOp(m)
    PROVE  BegunServed' /\ NoNewTurn
<1>1. Take(Op(m)) /\ Op(m) \in Posts
  BY MessageTypes DEF enqueueSftpOp
<1>2. ASSUME NEW r \in Requests
      PROVE  Tally(toWorker, {Op(r)}) = Tally(toWorker', {Op(r)}) + (IF m = r THEN 1 ELSE 0)
  <2>1. Op(m) = Op(r) <=> m = r
    BY AboutRequest
  <2> QED
    BY <1>1, <2>1, TakeTally
<1>3. CASE state = "down"
  <2>1. queue' = queue /\ served' = served \union {m}
    BY <1>3 DEF enqueueSftpOp
  <2>2. BegunServed'
    BY <2>1 DEF BegunServed
  <2>3. ASSUME NEW r \in Requests PROVE Turns(r)' <= Turns(r)
    <3>1. /\ Tally(toWorker, {Op(r)}) \in Nat /\ Tally(toWorker', {Op(r)}) \in Nat
          /\ Tally(queue["bulk"], OpenItemsOf(r)) \in Nat /\ Tally(queue["meta"], OpenItemsOf(r)) \in Nat
      BY UnbegunType, UnbegunTypeNext
    <3>2. Unbegun(r) = Unbegun(r)' + (IF m = r THEN 1 ELSE 0)
      BY <1>2, <2>1, <3>1 DEF Unbegun
    <3>3. Unbegun(r)' \in Nat
      BY <2>1, <3>1 DEF Unbegun
    <3> QED
      BY <2>1, <3>2, <3>3 DEF Turns
  <2> QED
    BY <2>2, <2>3 DEF NoNewTurn
<1>4. CASE state # "down"
  <2> DEFINE l == laneForKind(m)
             e == NewItem(m)
  <2>1. queue' = [queue EXCEPT ![l] = Append(@, e)] /\ served' = served
    BY <1>4 DEF enqueueSftpOp
  <2>2. l \in Lanes /\ queue \in [Lanes -> Seq(Item)] /\ queue[l] \in Seq(Item)
    BY DEF LanesTypeOK, Lanes, laneForKind
  <2>3. /\ e \in Item /\ e.req = m /\ e.phase = "open"
        /\ \A r : e \in OpenItemsOf(r) <=> m = r
    BY LimitAssumption DEF NewItem, Item, OpenItemsOf
  <2> HIDE DEF l, e
  <2>4. queue'[l] = Append(queue[l], e) /\ \A k \in Lanes \ {l} : queue'[k] = queue[k]
    BY <2>1, <2>2
  <2>5. ASSUME NEW k \in Lanes, NEW i \in 1 .. Len(queue'[k]), queue'[k][i].phase # "open"
        PROVE  queue'[k][i].req \in served'
    <3>1. CASE k # l
      BY <2>1, <2>4, <2>5, <3>1 DEF BegunServed
    <3>2. CASE k = l
      <4>1. /\ Len(queue'[l]) = Len(queue[l]) + 1 /\ Len(queue[l]) \in Nat
            /\ queue'[l][Len(queue[l]) + 1] = e
            /\ \A j \in 1 .. Len(queue[l]) : queue'[l][j] = queue[l][j]
        BY <2>2, <2>3, <2>4, LenProperties, AppendProperties
      <4>2. i \in 1 .. Len(queue[l])
        BY <2>3, <2>5, <3>2, <4>1
      <4> QED
        BY <2>1, <2>2, <2>5, <3>2, <4>1, <4>2 DEF BegunServed
    <3> QED
      BY <3>1, <3>2
  <2>6. ASSUME NEW r \in Requests PROVE Turns(r)' <= Turns(r)
    <3> DEFINE d == IF m = r THEN -1 ELSE 0
    <3>1. Tally(queue'[l], OpenItemsOf(r)) = Tally(queue[l], OpenItemsOf(r)) + (IF e \in OpenItemsOf(r) THEN 1 ELSE 0)
      BY <2>2, <2>3, <2>4, TallyAppend
    <3>2. Tally(queue[l], OpenItemsOf(r)) \in Nat
      BY <2>2, TallyType
    <3>3. Tally(queue'[l], OpenItemsOf(r)) = Tally(queue[l], OpenItemsOf(r)) - d /\ d \in Int
      BY <2>3, <3>1, <3>2
    <3>4. Unbegun(r)' - Tally(toWorker', {Op(r)}) = Unbegun(r) - Tally(toWorker, {Op(r)}) - d
      <4> HIDE DEF d
      <4> QED
        BY <2>2, <2>4, <3>3, OneLane
    <3>5. Tally(toWorker, {Op(r)}) \in Nat /\ Tally(toWorker', {Op(r)}) \in Nat /\ Unbegun(r) \in Nat
      BY UnbegunType, UnbegunTypeNext
    <3>6. Unbegun(r)' \in Nat
      <4>1. /\ Tally(queue'["bulk"], OpenItemsOf(r)) \in Nat /\ Tally(queue'["meta"], OpenItemsOf(r)) \in Nat
        BY UnbegunTypeNext
      <4> QED
        BY <3>5, <4>1 DEF Unbegun
    <3>7. Unbegun(r)' = Unbegun(r)
      BY <1>2, <3>4, <3>5, <3>6
    <3> QED
      BY <2>1, <3>5, <3>7 DEF Turns
  <2> QED
    BY <2>5, <2>6 DEF BegunServed, NoNewTurn
<1> QED
  BY <1>3, <1>4

\* Nothing waits more often, and what is served stays so.
LEMMA SameTurns ==
    ASSUME NEW r \in Requests, Unbegun(r)' <= Unbegun(r), Unbegun(r) \in Nat, Unbegun(r)' \in Nat,
           r \in served' => r \in served \/ Unbegun(r)' < Unbegun(r)
    PROVE  Turns(r)' <= Turns(r)
  BY DEF Turns

\* Both lanes are emptied, everything on them is answered.
LEMMA FailAllTurns ==
    ASSUME LanesTypeOK, LanesTypeOK', BegunServed, queue' = NoItems,
           served' = served \union QueuedRequests,
           \A r \in Requests : Tally(toWorker', {Op(r)}) = Tally(toWorker, {Op(r)})
    PROVE  BegunServed' /\ NoNewTurn
<1>1. BegunServed'
  BY EmptySeq DEF BegunServed, NoItems
<1>2. ASSUME NEW r \in Requests PROVE Turns(r)' <= Turns(r)
  <2>1. /\ Tally(toWorker, {Op(r)}) \in Nat /\ Unbegun(r) \in Nat
        /\ Tally(queue["bulk"], OpenItemsOf(r)) \in Nat /\ Tally(queue["meta"], OpenItemsOf(r)) \in Nat
    BY UnbegunType
  <2>2. Tally(queue'["bulk"], OpenItemsOf(r)) = 0 /\ Tally(queue'["meta"], OpenItemsOf(r)) = 0
    BY TallyOne DEF NoItems, Lanes
  <2>3. Unbegun(r)' = Tally(toWorker, {Op(r)})
    <3>1. Tally(toWorker', {Op(r)}) = Tally(toWorker, {Op(r)})
      BY <1>2
    <3>2. Unbegun(r)' = Tally(toWorker', {Op(r)}) + Tally(queue'["bulk"], OpenItemsOf(r))
                                                  + Tally(queue'["meta"], OpenItemsOf(r))
      BY DEF Unbegun
    <3> QED
      BY <2>1, <2>2, <3>1, <3>2
  <2>4. ASSUME r \in QueuedRequests, r \notin served PROVE Unbegun(r)' < Unbegun(r)
    <3>1. PICK l \in Lanes : \E i \in 1 .. Len(queue[l]) : queue[l][i].req = r
      BY <2>4 DEF QueuedRequests
    <3>2. PICK i \in 1 .. Len(queue[l]) : queue[l][i].req = r
      BY <3>1
    <3>3. queue[l][i].phase = "open"
      BY <2>4, <3>2 DEF BegunServed
    <3>4. queue[l] \in Seq(Item)
      BY DEF LanesTypeOK
    <3>5. queue[l][i] \in Item
      BY <3>2, <3>4, ElementOfSeq
    <3>6. queue[l][i] \in OpenItemsOf(r)
      BY <3>2, <3>3, <3>5 DEF OpenItemsOf
    <3>7. Tally(queue[l], OpenItemsOf(r)) > 0
      BY <3>2, <3>4, <3>6, TallyType
    <3> QED
      BY <2>1, <2>3, <3>7 DEF Unbegun, Lanes
  <2> QED
    BY <2>1, <2>3, <2>4, SameTurns DEF Unbegun
<1> QED
  BY <1>1, <1>2 DEF NoNewTurn

\* Connecting, disconnecting and losing the connection.
LEMMA SessionTurns ==
    ASSUME LanesTypeOK, LanesTypeOK', BegunServed, startConnect \/ requestDisconnect \/ SessionStep
    PROVE  BegunServed' /\ NoNewTurn
<1>1. ASSUME NEW m \in Posts, Take(m), m.type # "op", NEW r \in Requests
      PROVE  Tally(toWorker', {Op(r)}) = Tally(toWorker, {Op(r)})
  <2>1. m # Op(r)
    BY <1>1 DEF Op
  <2> QED
    BY <1>1, <2>1, TakeNoOp
<1>2. Connect \in Posts /\ Disconnect \in Posts /\ Connect.type # "op" /\ Disconnect.type # "op"
  BY DEF Posts, Connect, Disconnect
<1>3. CASE (startConnect \/ Connected)
  <2>1. UNCHANGED <<queue, served>>
    BY <1>3 DEF startConnect, Connected
  <2>2. \A r \in Requests : Tally(toWorker', {Op(r)}) = Tally(toWorker, {Op(r)})
    BY <1>1, <1>2, <1>3 DEF startConnect, Connected
  <2>3. \A r \in Requests : Unbegun(r)' = Unbegun(r)
    BY <2>1, <2>2 DEF Unbegun
  <2>4. \A r \in Requests : Turns(r)' = Turns(r) /\ Turns(r) \in Nat
    BY <2>1, <2>3, UnbegunType DEF Turns
  <2> QED
    BY <2>1, <2>4 DEF BegunServed, NoNewTurn
<1>4. CASE requestDisconnect
  <2>1. queue' = NoItems /\ served' = served \union QueuedRequests /\ Take(Disconnect)
    BY <1>4 DEF requestDisconnect
  <2> QED
    BY <1>1, <1>2, <2>1, FailAllTurns
<1>5. CASE \E tr \in BOOLEAN : enterConnectionLost(tr)
  <2>1. queue' = NoItems /\ served' = served \union QueuedRequests /\ toWorker' = toWorker
    BY <1>5 DEF enterConnectionLost
  <2> QED
    BY <2>1, FailAllTurns
<1> QED
  BY <1>3, <1>4, <1>5 DEF SessionStep

\* A cancel takes one operation out; the reset of the lane begins none anew.
LEMMA CancelTurns ==
    ASSUME LanesTypeOK, LanesTypeOK', BegunServed, NEW m \in Requests, requestSftpCancelBulk(m)
    PROVE  BegunServed' /\ NoNewTurn
<1>1. Take(Cancel(m)) /\ Cancel(m) \in Posts /\ \A r \in Requests : Cancel(m) # Op(r)
  BY MessageTypes, AboutRequest DEF requestSftpCancelBulk
<1>2. \A r \in Requests : Tally(toWorker', {Op(r)}) = Tally(toWorker, {Op(r)})
  BY <1>1, TakeNoOp
<1>3. CASE UNCHANGED <<queue, served>>
  <2>1. \A r \in Requests : Unbegun(r)' = Unbegun(r)
    BY <1>2, <1>3 DEF Unbegun
  <2>2. \A r \in Requests : Turns(r)' = Turns(r) /\ Turns(r) \in Nat
    BY <1>3, <2>1, UnbegunType DEF Turns
  <2> QED
    BY <1>3, <2>2 DEF BegunServed, NoNewTurn
<1>4. ASSUME NEW i \in 1 .. Len(queue["bulk"]),
             queue["bulk"][i].req = m,
             queue' = [queue EXCEPT !["bulk"] =
                 [j \in 1 .. Len(queue["bulk"]) - 1 |->
                     Orphaned(queue["bulk"][IF j < i THEN j ELSE j + 1])]],
             served' = served \union {m}
      PROVE  BegunServed' /\ NoNewTurn
  <2> DEFINE q == queue["bulk"]
             t == queue'["bulk"]
  <2>1. queue \in [Lanes -> Seq(Item)] /\ q \in Seq(Item) /\ i \in 1 .. Len(q) /\ q[i].req = m /\ "bulk" \in Lanes
    BY <1>4 DEF LanesTypeOK, Lanes
  <2>2. /\ t = [j \in 1 .. Len(q) - 1 |-> Orphaned(q[IF j < i THEN j ELSE j + 1])]
        /\ \A k \in Lanes \ {"bulk"} : queue'[k] = queue[k]
    BY <1>4, <2>1
  <2>3. t \in Seq(Item)
    BY <2>1 DEF LanesTypeOK
  <2>4. \A item \in Item : /\ Orphaned(item).req = item.req
                           /\ Orphaned(item).phase = "open" <=> item.phase = "open"
                           /\ \A r : Orphaned(item) \in OpenItemsOf(r) <=> item \in OpenItemsOf(r)
    BY DEF Orphaned, Item, OpenItemsOf
  <2> HIDE DEF q, t
  <2>5. Len(q) \in Nat /\ \A j \in 1 .. Len(q) : q[j] \in Item
    BY <2>1, LenProperties, ElementOfSeq
  <2>6. Len(t) = Len(q) - 1
    BY <2>1, <2>2, <2>3, <2>5, LenProperties
  <2>7. \A j \in 1 .. Len(q) - 1 : (IF j < i THEN j ELSE j + 1) \in 1 .. Len(q)
    BY <2>1, <2>5
  <2>8. \A j \in 1 .. Len(q) - 1 : t[j] = Orphaned(q[IF j < i THEN j ELSE j + 1])
    BY <2>2
  <2>9. ASSUME NEW k \in Lanes, NEW j \in 1 .. Len(queue'[k]), queue'[k][j].phase # "open"
        PROVE  queue'[k][j].req \in served'
    <3>1. CASE k # "bulk"
      BY <1>4, <2>2, <2>9, <3>1 DEF BegunServed
    <3>2. CASE k = "bulk"
      <4>1. j \in 1 .. Len(q) - 1
        BY <2>6, <2>9, <3>2 DEF t
      <4> DEFINE h == IF j < i THEN j ELSE j + 1
      <4>2. h \in 1 .. Len(q) /\ t[j] = Orphaned(q[h])
        BY <2>7, <2>8, <4>1
      <4> HIDE DEF h
      <4>3. q[h] \in Item
        BY <2>5, <4>2
      <4>4. q[h].phase # "open" /\ q[h].req = t[j].req
        BY <2>4, <2>9, <3>2, <4>2, <4>3 DEF t
      <4>5. q[h].req \in served
        BY <2>1, <4>2, <4>4 DEF BegunServed, q
      <4> QED
        BY <1>4, <3>2, <4>4, <4>5 DEF t
    <3> QED
      BY <3>1, <3>2
  <2>10. ASSUME NEW r \in Requests PROVE Turns(r)' <= Turns(r)
    <3> DEFINE M == OpenItemsOf(r)
               d == IF q[i] \in M THEN 1 ELSE 0
    <3>1. TakenOut(q, i, t, M)
      <4>1. ASSUME NEW j \in 1 .. Len(q) - 1
            PROVE  t[j] \in M <=> q[IF j < i THEN j ELSE j + 1] \in M
        BY <2>4, <2>5, <2>7, <2>8
      <4> QED
        BY <2>6, <4>1 DEF TakenOut
    <3>2. Tally(q, M) = Tally(t, M) + d
      <4> HIDE DEF M
      <4> QED
        BY <2>1, <2>3, <3>1, TallyTakeOut
    <3>3. Tally(t, M) \in Nat /\ Tally(q, M) \in Nat
      BY <2>1, <2>3, TallyType
    <3>4. d \in Int /\ Tally(queue'["bulk"], M) = Tally(queue["bulk"], M) - d
      BY <3>2, <3>3 DEF q, t
    <3>5. Unbegun(r)' - Tally(toWorker', {Op(r)}) = Unbegun(r) - Tally(toWorker, {Op(r)}) - d
      <4> HIDE DEF d
      <4> QED
        BY <2>1, <2>2, <3>4, OneLane
    <3>6. Tally(toWorker, {Op(r)}) \in Nat /\ Tally(toWorker', {Op(r)}) \in Nat /\ Unbegun(r) \in Nat
      BY UnbegunType, UnbegunTypeNext
    <3>7. Unbegun(r)' \in Nat
      <4>1. /\ Tally(queue'["bulk"], OpenItemsOf(r)) \in Nat /\ Tally(queue'["meta"], OpenItemsOf(r)) \in Nat
        BY UnbegunTypeNext
      <4> QED
        BY <3>6, <4>1 DEF Unbegun
    <3>8. Unbegun(r)' = Unbegun(r) - d
      <4>1. Tally(toWorker', {Op(r)}) = Tally(toWorker, {Op(r)})
        BY <1>2
      <4> HIDE DEF d
      <4> QED
        BY <3>4, <3>5, <3>6, <3>7, <4>1
    <3>9. r \in served' => r \in served \/ d = 1
      <4>1. ASSUME r = m, r \notin served PROVE d = 1
        <5>1. q[i] \in Item /\ q[i].phase = "open"
          BY <2>1, <2>5, <4>1 DEF BegunServed, q
        <5> QED
          BY <2>1, <4>1, <5>1 DEF OpenItemsOf
      <4> QED
        BY <1>4, <4>1
    <3> HIDE DEF M
    <3> QED
      BY <3>6, <3>7, <3>8, <3>9, SameTurns
  <2> QED
    BY <2>9, <2>10 DEF BegunServed, NoNewTurn
<1> QED
  BY <1>3, <1>4 DEF requestSftpCancelBulk

\* One turn of a lane: the head becomes item, or leaves, and then it was served.
LEMMA HeadTurns ==
    ASSUME LanesTypeOK, LanesTypeOK', BegunServed, NEW l \in Lanes, queue[l] # <<>>,
           toWorker' = toWorker, NEW front \in Seq(Item),
           queue' = [queue EXCEPT ![l] = front \o Tail(@)],
           \/ front = <<>>
           \/ \E item \in Item : front = <<item>> /\ item.req = HeadOf(l).req /\ item.phase = "transfer",
           \/ served' = served \union {HeadOf(l).req}
           \/ served' = served /\ HeadOf(l).phase # "open"
    PROVE  BegunServed' /\ NoNewTurn
<1> DEFINE q == queue[l]
           s == Tail(queue[l])
           t == queue'[l]
           h == HeadOf(l)
<1>1. q \in Seq(Item) /\ q # <<>> /\ queue \in [Lanes -> Seq(Item)]
  BY DEF LanesTypeOK
<1>2. /\ h \in Item /\ h = q[1] /\ 1 \in 1 .. Len(q) /\ h.req \in Requests
      /\ s \in Seq(Item) /\ Len(s) = Len(q) - 1 /\ Len(q) \in Nat
      /\ \A i \in 1 .. Len(s) : s[i] = q[i + 1]
  BY HeadItem
<1>3. t = front \o s /\ \A k \in Lanes \ {l} : queue'[k] = queue[k]
  BY <1>1
<1>4. h.req \in served' /\ (h.phase # "open" => h.req \in served)
  BY <1>1, <1>2 DEF BegunServed
<1>5. served \subseteq served'
  OBVIOUS
<1> HIDE DEF q, s, t, h
<1>6. /\ Len(front) \in Nat /\ Len(t) = Len(front) + Len(s)
      /\ \A i \in 1 .. Len(front) + Len(s) : t[i] = IF i <= Len(front) THEN front[i] ELSE s[i - Len(front)]
  BY <1>2, <1>3, ConcatProperties, LenProperties
<1>7. \A i \in 1 .. Len(front) : front[i].req = h.req /\ front[i].phase = "transfer"
  BY DEF h
<1>8. ASSUME NEW k \in Lanes, NEW i \in 1 .. Len(queue'[k]), queue'[k][i].phase # "open"
      PROVE  queue'[k][i].req \in served'
  <2>1. CASE k # l
    BY <1>3, <1>5, <1>8, <2>1 DEF BegunServed
  <2>2. CASE k = l /\ i <= Len(front)
    <3>1. t[i] = front[i] /\ i \in 1 .. Len(front)
      BY <1>6, <1>8, <2>2 DEF t
    <3> QED
      BY <1>4, <1>7, <2>2, <3>1 DEF t
  <2>3. CASE k = l /\ ~(i <= Len(front))
    <3> DEFINE j == i - Len(front)
    <3>1. t[i] = s[j] /\ j \in 1 .. Len(s)
      BY <1>2, <1>6, <1>8, <2>3 DEF t
    <3> HIDE DEF j
    <3>2. s[j] = q[j + 1] /\ j + 1 \in 1 .. Len(q)
      BY <1>2, <3>1
    <3>3. q[j + 1].req \in served
      BY <1>8, <2>3, <3>1, <3>2 DEF BegunServed, q, t
    <3> QED
      BY <1>5, <2>3, <3>1, <3>2, <3>3 DEF t
  <2> QED
    BY <2>1, <2>2, <2>3
<1>9. ASSUME NEW r \in Requests PROVE Turns(r)' <= Turns(r)
  <2> DEFINE M == OpenItemsOf(r)
             d == IF h \in M THEN 1 ELSE 0
  <2>1. Tally(front, M) = 0
    <3>1. \A i \in 1 .. Len(front) : front[i] \notin M
      BY <1>7 DEF OpenItemsOf
    <3> HIDE DEF M
    <3>2. Tally(front, M) \in Nat /\ ~(Tally(front, M) > 0)
      BY <3>1, TallyType
    <3> QED
      BY <3>2
  <2>2. Tally(q, M) = Tally(s, M) + d
    <3> HIDE DEF M
    <3> QED
      BY <1>1, TallyTail DEF s, q, h, HeadOf
  <2>3. Tally(t, M) = Tally(front, M) + Tally(s, M)
    <3> HIDE DEF M
    <3> QED
      BY <1>2, <1>3, TallyConcat
  <2>4. Tally(s, M) \in Nat
    BY <1>2, TallyType
  <2>5. d \in Int /\ Tally(queue'[l], M) = Tally(queue[l], M) - d
    BY <2>1, <2>2, <2>3, <2>4 DEF q, t
  <2>6. Unbegun(r)' - Tally(toWorker', {Op(r)}) = Unbegun(r) - Tally(toWorker, {Op(r)}) - d
    <3> HIDE DEF d
    <3> QED
      BY <1>3, <2>5, OneLane
  <2>7. Tally(toWorker, {Op(r)}) \in Nat /\ Unbegun(r) \in Nat
    BY UnbegunType
  <2>8. Unbegun(r)' \in Nat
    <3>1. /\ Tally(toWorker', {Op(r)}) \in Nat
          /\ Tally(queue'["bulk"], OpenItemsOf(r)) \in Nat /\ Tally(queue'["meta"], OpenItemsOf(r)) \in Nat
      BY UnbegunTypeNext
    <3> QED
      BY <3>1 DEF Unbegun
  <2>9. Unbegun(r)' = Unbegun(r) - d
    <3>1. Tally(toWorker', {Op(r)}) = Tally(toWorker, {Op(r)})
      OBVIOUS
    <3> HIDE DEF d
    <3> QED
      BY <2>5, <2>6, <2>7, <2>8, <3>1
  <2>10. r \in served' => r \in served \/ d = 1
    <3>1. ASSUME r \in served', r \notin served PROVE d = 1
      <4>1. r = h.req /\ h.phase = "open"
        BY <1>4, <3>1 DEF h
      <4> QED
        BY <1>2, <4>1 DEF OpenItemsOf
    <3> QED
      BY <3>1
  <2> HIDE DEF M
  <2> QED
    BY <2>7, <2>8, <2>9, <2>10, SameTurns
<1> QED
  BY <1>8, <1>9 DEF BegunServed, NoNewTurn

\* Every turn of a lane.
LEMMA LaneTurns ==
    ASSUME LanesTypeOK, LanesTypeOK', BegunServed, NEW l \in Lanes, LaneStep(l)
    PROVE  BegunServed' /\ NoNewTurn
<1>1. queue[l] # <<>> /\ toWorker' = toWorker /\ queue \in [Lanes -> Seq(Item)]
  BY DEF LaneStep, LaneInited, LaneInitFailed, OperationBegun, OperationFailed, ChunkSent,
     OperationDone, Servicing, LanesTypeOK
<1>2. HeadOf(l) \in Item /\ HeadOf(l).req \in Requests /\ HeadOf(l).sent \in 0 .. FileChunks /\ Tail(queue[l]) \in Seq(Item)
  BY <1>1, HeadItem
<1>3. ASSUME NEW e, Finish(l, e) PROVE BegunServed' /\ NoNewTurn
  <2> DEFINE front == <<>>
  <2>1. front \in Seq(Item) /\ front \o Tail(queue[l]) = Tail(queue[l])
    BY <1>2, EmptySeq, ConcatEmptySeq
  <2>2. queue' = [queue EXCEPT ![l] = front \o Tail(@)] /\ served' = served \union {HeadOf(l).req}
    BY <1>1, <1>3, <2>1 DEF Finish
  <2>3. front = <<>>
    OBVIOUS
  <2> HIDE DEF front
  <2> QED
    BY <1>1, <2>1, <2>2, <2>3, HeadTurns
<1>4. CASE LaneInitFailed(l) \/ OperationFailed(l) \/ OperationDone(l)
  BY <1>3, <1>4 DEF LaneInitFailed, OperationFailed, OperationDone
<1>5. CASE LaneInited(l)
  <2>1. UNCHANGED <<queue, toWorker, served>>
    BY <1>5 DEF LaneInited
  <2>2. \A r \in Requests : Turns(r)' = Turns(r) /\ Turns(r) \in Nat
    BY <2>1, UnbegunType DEF Turns, Unbegun
  <2> QED
    BY <2>1, <2>2 DEF BegunServed, NoNewTurn
<1>6. ASSUME NEW item \in Item, item.req = HeadOf(l).req, item.phase = "transfer", Advance(l, item),
             \/ served' = served \union {HeadOf(l).req}
             \/ served' = served /\ HeadOf(l).phase # "open"
      PROVE  BegunServed' /\ NoNewTurn
  <2> DEFINE front == <<item>>
  <2>1. /\ front \in Seq(Item) /\ queue' = [queue EXCEPT ![l] = front \o Tail(@)]
        /\ \E i \in Item : front = <<i>> /\ i.req = HeadOf(l).req /\ i.phase = "transfer"
    BY <1>6 DEF Advance
  <2> HIDE DEF front
  <2> QED
    BY <1>1, <1>6, <2>1, HeadTurns
<1>7. CASE OperationBegun(l)
  <2> DEFINE item == [HeadOf(l) EXCEPT !.phase = "transfer"]
  <2>1. item \in Item /\ item.req = HeadOf(l).req /\ item.phase = "transfer"
    BY <1>2 DEF Item
  <2>2. Advance(l, item) /\ served' = served \union {HeadOf(l).req}
    BY <1>7 DEF OperationBegun
  <2> HIDE DEF item
  <2> QED
    BY <1>6, <2>1, <2>2
<1>8. CASE ChunkSent(l)
  <2> DEFINE item == [HeadOf(l) EXCEPT !.sent = @ + 1]
  <2>1. HeadOf(l).sent < FileChunks /\ HeadOf(l).phase = "transfer"
    BY <1>8 DEF ChunkSent
  <2>2. item \in Item /\ item.req = HeadOf(l).req /\ item.phase = "transfer"
    BY <1>2, <2>1, LimitAssumption DEF Item
  <2>3. Advance(l, item) /\ served' = served
    BY <1>8 DEF ChunkSent
  <2> HIDE DEF item
  <2> QED
    BY <1>6, <2>1, <2>2, <2>3
<1> QED
  BY <1>4, <1>5, <1>7, <1>8 DEF LaneStep

\* Only requests are served.
LEMMA ServedType ==
    ASSUME LanesTypeOK, WorkerStep, served \subseteq Requests
    PROVE  served' \subseteq Requests
<1>1. CASE PostedStep
  BY <1>1 DEF PostedStep, enqueueSftpOp, requestSftpCancelBulk, startConnect, requestDisconnect, QueuedRequests
<1>2. CASE SessionStep
  BY <1>2 DEF SessionStep, Connected, enterConnectionLost, QueuedRequests
<1>3. ASSUME NEW l \in Lanes, LaneStep(l) PROVE served' \subseteq Requests
  <2>1. queue[l] # <<>>
    BY <1>3 DEF LaneStep, LaneInited, LaneInitFailed, OperationBegun, OperationFailed, ChunkSent,
       OperationDone, Servicing
  <2>2. HeadOf(l).req \in Requests
    BY <2>1, HeadItem
  <2>3. served' = served \/ served' = served \union {HeadOf(l).req}
    BY <1>3 DEF LaneStep, LaneInited, LaneInitFailed, OperationBegun, OperationFailed, ChunkSent,
       OperationDone, Finish
  <2> QED
    BY <2>2, <2>3
<1> QED
  BY <1>1, <1>2, <1>3 DEF WorkerStep

\* No step of the worker lets a request wait again that it began or answered:
\* losses, disconnects and resets of a lane begin nothing anew.
THEOREM WorkerServesOnce ==
    ASSUME LanesTypeOK, BegunServed, WorkerStep
    PROVE  BegunServed' /\ NoNewTurn
<1>1. LanesTypeOK'
  BY WorkerKeeps
<1>2. CASE PostedStep
  <2>1. CASE \E m \in Requests : enqueueSftpOp(m) \/ requestSftpCancelBulk(m)
    BY <1>1, <2>1, EnqueueTurns, CancelTurns
  <2>2. CASE startConnect \/ requestDisconnect
    BY <1>1, <2>2, SessionTurns
  <2> QED
    BY <1>2, <2>1, <2>2 DEF PostedStep
<1>3. CASE SessionStep
  BY <1>1, <1>3, SessionTurns
<1>4. CASE \E l \in Lanes : LaneStep(l)
  BY <1>1, <1>4, LaneTurns
<1> QED
  BY <1>2, <1>3, <1>4 DEF WorkerStep
=============================================================================
