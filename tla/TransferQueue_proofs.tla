------------------------ MODULE TransferQueue_proofs ------------------------
(* Proofs about TransferQueue: that a walk counts its calls, for any number   *)
(* of transfers and files and with callbacks of cancelled transfers among     *)
(* them.                                                                      *)
EXTENDS TransferQueue, FiniteSetTheorems, SequenceTheorems, TLAPS

Outcomes == {"new", "queued", "completed", "failed", "cancelled", "lost"}

\* The queue holds the transfers that are queued, each once.
QueueOf(q, results) ==
    /\ q \in Seq(Transfers) /\ results \in [Transfers -> Outcomes]
    /\ \A i, j \in 1..Len(q) : q[i] = q[j] => i = j
    /\ \A t \in Transfers : results[t] = "queued" <=> \E i \in 1..Len(q) : q[i] = t

\* The files found so far.
Sized(sz) == sz \in [Transfers -> 0..MaxFiles]

WalkCalls(C, t) == {c \in C : c.of = t /\ c.op \in WalkOps}

\* A transfer that has not started has no call of a walk.
Unstarted(C, q, results) ==
    \A t \in Transfers :
        results[t] = "new" \/ (\E i \in 2..Len(q) : q[i] = t) => WalkCalls(C, t) = {}

\* Directories are listed one after the other, and the .gitignore of one is
\* read while those below it are listed.
Chain(C) ==
    /\ \A c \in C : c.op \in WalkOps => c.of \in Transfers /\ c.dir \in Nat
    /\ \A c, d \in C :
         c.op \in {"list", "find"} /\ d.op \in WalkOps /\ c.of = d.of /\ c # d
           => d.op = "rules" /\ d.dir < c.dir

Exactly(C, p) ==
    /\ IsFiniteSet(C) /\ p \in [Transfers -> Int]
    /\ \A t \in Transfers : p[t] = Cardinality(WalkCalls(C, t))

\* What a callback goes on from: its own call is over and counted off.
Counted(s) ==
    /\ s = [calls |-> s.calls, pending |-> s.pending, reading |-> s.reading]
    /\ Exactly(s.calls, s.pending) /\ Chain(s.calls) /\ Unstarted(s.calls, queue, outcome)
    /\ s.reading.op \notin WalkOps

\* The inductive invariant of the walks.
Walks ==
    /\ QueueOf(queue, outcome) /\ (active <=> queue # <<>>)
    /\ Exactly(calls, pending) /\ Chain(calls) /\ Unstarted(calls, queue, outcome)
    /\ reading.op \notin WalkOps
WalkInv == Walks /\ Sized(size)

-----------------------------------------------------------------------------
(* Calls and counters *)

\* The fields of a call.
LEMMA CallIs ==
    ASSUME NEW o, NEW t, NEW k, NEW d
    PROVE  /\ Call(o, t, k, d).op = o /\ Call(o, t, k, d).of = t
           /\ Call(o, t, k, d).file = k /\ Call(o, t, k, d).dir = d
  BY DEF Call

\* Calls that are not of a walk change nothing about walks.
LEMMA MoreCalls ==
    ASSUME NEW C, NEW p, NEW D, NEW q, NEW r,
           Exactly(C, p), Chain(C), Unstarted(C, q, r),
           IsFiniteSet(D), \A c \in D : c.op \notin WalkOps
    PROVE  Exactly(C \union D, p) /\ Chain(C \union D) /\ Unstarted(C \union D, q, r)
<1>1. \A t : WalkCalls(C \union D, t) = WalkCalls(C, t)
  BY DEF WalkCalls
<1>2. Chain(C \union D)
  <2>1. {"list", "find"} \subseteq WalkOps
    BY DEF WalkOps
  <2> QED
    BY <2>1 DEF Chain
<1>3. IsFiniteSet(C \union D)
  BY FS_Union DEF Exactly
<1> QED
  BY <1>1, <1>2, <1>3 DEF Exactly, Unstarted

\* The same for one that ends.
LEMMA FewerCalls ==
    ASSUME NEW C, NEW p, NEW D, NEW q, NEW r,
           Exactly(C, p), Chain(C), Unstarted(C, q, r),
           \A c \in D : c.op \notin WalkOps
    PROVE  Exactly(C \ D, p) /\ Chain(C \ D) /\ Unstarted(C \ D, q, r)
<1>1. \A t : WalkCalls(C \ D, t) = WalkCalls(C, t)
  BY DEF WalkCalls
<1>2. Chain(C \ D)
  BY DEF Chain
<1>3. IsFiniteSet(C \ D)
  BY FS_Subset DEF Exactly
<1> QED
  BY <1>1, <1>2, <1>3 DEF Exactly, Unstarted

\* A callback of a walk is counted off, and the calls M it makes are counted.
LEMMA WalkCounted ==
    ASSUME NEW C, NEW p, Exactly(C, p), NEW c \in C, c.op \in WalkOps, c.of \in Transfers,
           NEW M, IsFiniteSet(M),
           \A m \in M : m \notin C /\ m.op \in WalkOps /\ m.of = c.of
    PROVE  /\ Cardinality(M) \in Nat
           /\ Exactly((C \ {c}) \union M,
                      [[p EXCEPT ![c.of] = @ - 1] EXCEPT ![c.of] = @ + Cardinality(M)])
<1> DEFINE t == c.of
           n == [[p EXCEPT ![c.of] = @ - 1] EXCEPT ![c.of] = @ + Cardinality(M)]
           D == (C \ {c}) \union M
           W == WalkCalls(C, t)
<1>1. IsFiniteSet(C \ {c}) /\ IsFiniteSet(D) /\ Cardinality(M) \in Nat
  BY FS_RemoveElement, FS_Union, FS_CardinalityType DEF Exactly
<1>2. IsFiniteSet(W)
  BY FS_Subset DEF Exactly, WalkCalls
<1>3. Cardinality(W \ {c}) = Cardinality(W) - 1 /\ IsFiniteSet(W \ {c}) /\ Cardinality(W \ {c}) \in Nat
  <2>1. c \in W
    BY DEF WalkCalls
  <2> QED
    BY <1>2, <2>1, FS_RemoveElement, FS_CardinalityType
<1>4. WalkCalls(D, t) = (W \ {c}) \union M
  BY DEF WalkCalls
<1>5. (W \ {c}) \intersect M = {}
  BY DEF WalkCalls
<1>6. Cardinality(WalkCalls(D, t)) = Cardinality(W) - 1 + Cardinality(M)
  <2>1. Cardinality((W \ {c}) \union M)
          = Cardinality(W \ {c}) + Cardinality(M) - Cardinality((W \ {c}) \intersect M)
    BY <1>3, FS_Union
  <2>2. Cardinality((W \ {c}) \intersect M) = 0
    BY <1>5, FS_EmptySet
  <2>3. Cardinality(W) \in Nat
    BY <1>2, FS_CardinalityType
  <2>4. Cardinality(WalkCalls(D, t)) = Cardinality((W \ {c}) \union M)
    BY <1>4
  <2> HIDE DEF W, D
  <2> QED
    BY <1>1, <1>3, <2>1, <2>2, <2>3, <2>4
<1>7. \A u \in Transfers \ {t} : WalkCalls(D, u) = WalkCalls(C, u)
  BY DEF WalkCalls
<1>8. n \in [Transfers -> Int] /\ n[t] = p[t] - 1 + Cardinality(M)
  BY <1>1 DEF Exactly
<1>9. \A u \in Transfers \ {t} : n[u] = p[u]
  BY DEF Exactly
<1>10. p[t] = Cardinality(W)
  BY DEF Exactly
<1>11. \A u \in Transfers : n[u] = Cardinality(WalkCalls(D, u))
  <2> SUFFICES ASSUME NEW u \in Transfers PROVE n[u] = Cardinality(WalkCalls(D, u))
    OBVIOUS
  <2>1. CASE u = t
    BY <2>1, <1>6, <1>8, <1>10
  <2>2. CASE u # t
    BY <2>2, <1>7, <1>9 DEF Exactly
  <2> QED
    BY <2>1, <2>2
<1> HIDE DEF n, D
<1> QED
  BY <1>1, <1>8, <1>11 DEF Exactly, n, D

-----------------------------------------------------------------------------
(* What the manager does next *)

\* The first calls of a transfer.
LEMMA FirstAre ==
    ASSUME NEW t \in Transfers, Sized(size)
    PROVE  /\ IsFiniteSet(FirstCalls(t))
           /\ kind[t] \in {"tree", "filtered"} => FirstCalls(t) = {Call("list", t, 0, 0)}
           /\ kind[t] \notin {"tree", "filtered"} => \A c \in FirstCalls(t) : c.op \notin WalkOps
<1>1. IsFiniteSet({Call("scan", t, 0, DirOf[k]) : k \in 1..size[t]})
  <2> DEFINE S == {Call("scan", t, 0, DirOf[k]) : k \in 1..size[t]}
             f == [k \in 1..size[t] |-> Call("scan", t, 0, DirOf[k])]
  <2>1. f \in Surjection(1..size[t], S)
    BY DEF Surjection
  <2>2. IsFiniteSet(1..size[t])
    BY FS_Interval DEF Sized
  <2> QED
    BY <2>1, <2>2, FS_Surjection
<1>2. \A c : IsFiniteSet({c})
  BY FS_Singleton
<1>3. IsFiniteSet(FirstCalls(t))
  BY <1>1, <1>2 DEF FirstCalls
<1>4. kind[t] \in {"tree", "filtered"} => FirstCalls(t) = {Call("list", t, 0, 0)}
  BY DEF FirstCalls
<1>5. ASSUME kind[t] \notin {"tree", "filtered"}, NEW c \in FirstCalls(t)
      PROVE  c.op \notin WalkOps
  <2>1. c.op \in {"read", "mkdir", "scan"}
    BY <1>5, CallIs DEF FirstCalls
  <2> QED
    BY <2>1 DEF WalkOps
<1> QED
  BY <1>3, <1>4, <1>5

\* Starting the next transfer of a queue of transfers that have not started.
LEMMA StartCounts ==
    ASSUME NEW q, NEW r, NEW s, QueueOf(q, r), Sized(size),
           Exactly(s.calls, s.pending), Chain(s.calls), s.reading.op \notin WalkOps,
           \A t \in Transfers :
             r[t] = "new" \/ (\E i \in 1..Len(q) : q[i] = t) => WalkCalls(s.calls, t) = {},
           StartNext(q, s, r)
    PROVE  Walks'
<1>1. PICK n \in 0..Len(q) :
        /\ queue' = SubSeq(q, n + 1, Len(q))
        /\ active' = (n < Len(q))
        /\ outcome' = [u \in Transfers |-> IF \E i \in 1..n : q[i] = u THEN "completed" ELSE r[u]]
        /\ IF n = Len(q)
           THEN calls' = s.calls /\ reading' = s.reading /\ pending' = s.pending
           ELSE LET t == Head(SubSeq(q, n + 1, Len(q)))
                IN  /\ calls' = s.calls \union FirstCalls(t)
                    /\ reading' = IF kind[t] = "file" THEN Call("read", t, 1, 0) ELSE s.reading
                    /\ pending' = IF kind[t] \in {"tree", "filtered"} THEN [s.pending EXCEPT ![t] = 1]
                                  ELSE s.pending
  BY Zenon DEF StartNext
<1>2. q \in Seq(Transfers) /\ Len(q) \in Nat /\ \A i \in 1..Len(q) : q[i] \in Transfers
  BY ElementOfSeq DEF QueueOf
<1>3. /\ queue' \in Seq(Transfers) /\ Len(queue') = Len(q) - n
      /\ \A i \in 1..Len(queue') : queue'[i] = q[i + n]
  BY <1>1, <1>2, SubSeqProperties
<1>4. active' <=> queue' # <<>>
  <2>1. queue' = <<>> <=> Len(queue') = 0
    BY <1>3, EmptySeq
  <2>2. n < Len(q) <=> Len(queue') # 0
    BY <1>2, <1>3
  <2>3. active' <=> n < Len(q)
    BY <1>1, Zenon
  <2> QED
    BY <2>1, <2>2, <2>3
<1>5. outcome' \in [Transfers -> Outcomes]
  BY <1>1 DEF QueueOf, Outcomes
<1>6. QueueOf(queue', outcome')
  <2>1. \A i, j \in 1..Len(queue') : queue'[i] = queue'[j] => i = j
    BY <1>2, <1>3 DEF QueueOf
  <2>2. ASSUME NEW t \in Transfers
        PROVE  outcome'[t] = "queued" <=> \E i \in 1..Len(queue') : queue'[i] = t
    <3>1. CASE \E i \in 1..n : q[i] = t
      <4>1. ASSUME NEW i \in 1..Len(queue'), queue'[i] = t PROVE FALSE
        <5>1. PICK j \in 1..n : q[j] = t
          BY <3>1
        <5>2. i + n \in 1..Len(q) /\ j \in 1..Len(q) /\ i + n # j /\ q[i + n] = t
          BY <1>2, <1>3, <4>1
        <5> QED
          BY <5>1, <5>2 DEF QueueOf
      <4> QED
        BY <1>1, <3>1, <4>1
    <3>2. CASE ~\E i \in 1..n : q[i] = t
      <4>1. outcome'[t] = r[t]
        BY <1>1, <3>2
      <4>2. (\E i \in 1..Len(q) : q[i] = t) <=> \E i \in 1..Len(queue') : queue'[i] = t
        <5>1. ASSUME NEW i \in 1..Len(q), q[i] = t PROVE \E j \in 1..Len(queue') : queue'[j] = t
          <6>1. i - n \in 1..Len(queue') /\ queue'[i - n] = t
            BY <1>2, <1>3, <3>2, <5>1
          <6> QED
            BY <6>1
        <5>2. ASSUME NEW i \in 1..Len(queue'), queue'[i] = t PROVE \E j \in 1..Len(q) : q[j] = t
          <6>1. i + n \in 1..Len(q) /\ q[i + n] = t
            BY <1>2, <1>3, <5>2
          <6> QED
            BY <6>1
        <5> QED
          BY <5>1, <5>2
      <4> QED
        BY <4>1, <4>2 DEF QueueOf
    <3> QED
      BY <3>1, <3>2
  <2> QED
    BY <1>3, <1>5, <2>1, <2>2 DEF QueueOf
<1>7. \A t \in Transfers : (\E i \in 1..Len(queue') : queue'[i] = t) \/ outcome'[t] = "new"
          => WalkCalls(s.calls, t) = {}
  <2>1. \A t \in Transfers : outcome'[t] = "new" => r[t] = "new"
    BY <1>1
  <2>2. \A t \in Transfers : (\E i \in 1..Len(queue') : queue'[i] = t) => \E i \in 1..Len(q) : q[i] = t
    BY <1>2, <1>3
  <2> QED
    BY <2>1, <2>2
<1>8. Unstarted(s.calls, queue', outcome')
  BY <1>7, <1>3 DEF Unstarted
<1>9. reading'.op \notin WalkOps
  <2> DEFINE t == Head(SubSeq(q, n + 1, Len(q)))
             c == Call("read", t, 1, 0)
  <2>1. c.op \notin WalkOps
    <3> HIDE DEF t
    <3> QED
      BY CallIs DEF WalkOps
  <2>2. reading' = c \/ reading' = s.reading
    BY <1>1
  <2> HIDE DEF c
  <2> QED
    BY <2>1, <2>2
<1>10. CASE n = Len(q)
  BY <1>1, <1>4, <1>6, <1>8, <1>10, <1>9 DEF Walks
<1>11. CASE n < Len(q)
  <2> DEFINE t == Head(SubSeq(q, n + 1, Len(q)))
  <2>1. t \in Transfers /\ t = queue'[1] /\ 1 \in 1..Len(queue') /\ t = q[n + 1]
    BY <1>1, <1>2, <1>3, <1>11, HeadTailOfSubSeq
  <2>2. WalkCalls(s.calls, t) = {}
    BY <1>7, <2>1
  <2>3. /\ calls' = s.calls \union FirstCalls(t)
        /\ pending' = IF kind[t] \in {"tree", "filtered"} THEN [s.pending EXCEPT ![t] = 1] ELSE s.pending
    BY <1>1, <1>11
  <2> HIDE DEF t
  <2>4. CASE kind[t] \notin {"tree", "filtered"}
    <3>1. IsFiniteSet(FirstCalls(t)) /\ \A c \in FirstCalls(t) : c.op \notin WalkOps
      BY <2>1, <2>4, FirstAre
    <3>2. calls' = s.calls \union FirstCalls(t) /\ pending' = s.pending
      BY <2>3, <2>4
    <3> QED
      BY <1>4, <1>6, <1>8, <1>9, <3>1, <3>2, MoreCalls DEF Walks
  <2>5. CASE kind[t] \in {"tree", "filtered"}
    <3> DEFINE m == Call("list", t, 0, 0)
    <3>1. calls' = s.calls \union {m} /\ pending' = [s.pending EXCEPT ![t] = 1]
      BY <2>1, <2>3, <2>5, FirstAre
    <3>2. m.op = "list" /\ m.of = t /\ m.dir = 0 /\ "list" \in WalkOps
      BY CallIs DEF WalkOps
    <3> HIDE DEF m
    <3>3. WalkCalls(calls', t) = {m}
      BY <2>2, <3>1, <3>2 DEF WalkCalls
    <3>4. \A u \in Transfers \ {t} : WalkCalls(calls', u) = WalkCalls(s.calls, u)
      BY <3>1, <3>2 DEF WalkCalls
    <3>5. Exactly(calls', pending')
      <4>1. IsFiniteSet(calls')
        BY <3>1, FS_AddElement DEF Exactly
      <4>2. pending' \in [Transfers -> Int] /\ pending'[t] = 1
        BY <2>1, <3>1 DEF Exactly
      <4>3. \A u \in Transfers \ {t} : pending'[u] = s.pending[u]
        BY <3>1 DEF Exactly
      <4>4. Cardinality({m}) = 1
        BY FS_Singleton
      <4> QED
        BY <3>3, <3>4, <4>1, <4>2, <4>3, <4>4 DEF Exactly
    <3>6. Chain(calls')
      <4>1. \A d \in s.calls : d.of = t => d.op \notin WalkOps
        BY <2>2 DEF WalkCalls
      <4>2. {"list", "find"} \subseteq WalkOps
        BY DEF WalkOps
      <4> QED
        BY <2>1, <3>1, <3>2, <4>1, <4>2 DEF Chain
    <3>7. Unstarted(calls', queue', outcome')
      <4>1. outcome'[t] # "new"
        BY <1>6, <2>1 DEF QueueOf
      <4>2. ASSUME NEW i \in 2..Len(queue'), queue'[i] = t PROVE FALSE
        <5>1. Len(queue') \in Nat /\ i \in 1..Len(queue') /\ i # 1
          BY <1>2, <1>3
        <5> QED
          BY <1>6, <2>1, <4>2, <5>1 DEF QueueOf
      <4> QED
        BY <1>8, <3>4, <4>1, <4>2 DEF Unstarted
    <3> QED
      BY <1>4, <1>6, <1>9, <3>5, <3>6, <3>7 DEF Walks
  <2> QED
    BY <2>4, <2>5
<1> QED
  BY <1>2, <1>10, <1>11

\* The head of a queue is out of it once it has a result.
LEMMA HeadOut ==
    ASSUME NEW q, NEW r, QueueOf(q, r), q # <<>>, NEW o \in Outcomes \ {"queued"}
    PROVE  /\ QueueOf(Tail(q), [r EXCEPT ![Head(q)] = o])
           /\ Head(q) \in Transfers /\ Head(q) = q[1] /\ 1 \in 1..Len(q)
           /\ \A t : (\E i \in 1..Len(Tail(q)) : Tail(q)[i] = t) <=> \E i \in 2..Len(q) : q[i] = t
<1> DEFINE u == [r EXCEPT ![Head(q)] = o]
<1>1. /\ q \in Seq(Transfers) /\ Len(q) \in Nat \ {0}
      /\ Head(q) \in Transfers /\ Head(q) = q[1]
      /\ Tail(q) \in Seq(Transfers) /\ Len(Tail(q)) = Len(q) - 1
      /\ \A i \in 1..Len(q) - 1 : Tail(q)[i] = q[i + 1]
  BY HeadTailProperties, EmptySeq DEF QueueOf
<1>2. 1 \in 1..Len(q)
  BY <1>1
<1>3. ASSUME NEW t
      PROVE  (\E i \in 1..Len(Tail(q)) : Tail(q)[i] = t) <=> \E i \in 2..Len(q) : q[i] = t
  <2>1. ASSUME NEW i \in 1..Len(Tail(q)), Tail(q)[i] = t PROVE \E j \in 2..Len(q) : q[j] = t
    <3>1. i + 1 \in 2..Len(q) /\ q[i + 1] = t
      BY <1>1, <2>1
    <3> QED
      BY <3>1
  <2>2. ASSUME NEW i \in 2..Len(q), q[i] = t PROVE \E j \in 1..Len(Tail(q)) : Tail(q)[j] = t
    <3>1. i - 1 \in 1..Len(Tail(q)) /\ Tail(q)[i - 1] = t
      BY <1>1, <2>2
    <3> QED
      BY <3>1
  <2> QED
    BY <2>1, <2>2
<1>4. u \in [Transfers -> Outcomes]
  BY <1>1 DEF QueueOf
<1>5. \A i, j \in 1..Len(Tail(q)) : Tail(q)[i] = Tail(q)[j] => i = j
  BY <1>1 DEF QueueOf
<1>6. ASSUME NEW t \in Transfers
      PROVE  u[t] = "queued" <=> \E i \in 1..Len(Tail(q)) : Tail(q)[i] = t
  <2>1. CASE t = Head(q)
    <3>1. u[t] # "queued"
      BY <1>1, <2>1 DEF QueueOf
    <3>2. ~\E i \in 2..Len(q) : q[i] = t
      BY <1>1, <1>2, <2>1 DEF QueueOf
    <3> QED
      BY <1>3, <3>1, <3>2
  <2>2. CASE t # Head(q)
    <3>1. u[t] = r[t]
      BY <2>2 DEF QueueOf
    <3>2. (\E i \in 1..Len(q) : q[i] = t) <=> \E i \in 2..Len(q) : q[i] = t
      BY <1>1, <2>2
    <3> QED
      BY <1>3, <3>1, <3>2 DEF QueueOf
  <2> QED
    BY <2>1, <2>2
<1> HIDE DEF u
<1>7. QueueOf(Tail(q), u)
  BY <1>1, <1>4, <1>5, <1>6 DEF QueueOf
<1> QED
  BY <1>1, <1>2, <1>3, <1>7 DEF u

\* The head ends and the queue goes on.
LEMMA FinishCounts ==
    ASSUME WalkInv, NEW s, Counted(s), NEW o \in Outcomes \ {"new", "queued"}, FinishHead(o, s)
    PROVE  Walks'
<1> DEFINE q == Tail(queue)
           r == [outcome EXCEPT ![Head(queue)] = o]
<1>1. queue # <<>> /\ StartNext(q, s, r)
  BY DEF FinishHead
<1>2. /\ QueueOf(q, r) /\ Head(queue) \in Transfers
      /\ \A t : (\E i \in 1..Len(q) : q[i] = t) <=> \E i \in 2..Len(queue) : queue[i] = t
  BY <1>1, HeadOut DEF WalkInv, Walks
<1>3. \A t \in Transfers : r[t] = "new" => outcome[t] = "new"
  BY <1>2 DEF WalkInv, Walks, QueueOf
<1>4. \A t \in Transfers :
        r[t] = "new" \/ (\E i \in 1..Len(q) : q[i] = t) => WalkCalls(s.calls, t) = {}
  BY <1>2, <1>3 DEF Counted, Unstarted
<1> HIDE DEF q, r
<1> QED
  BY <1>1, <1>2, <1>4, StartCounts DEF Counted, WalkInv

\* The head goes on with calls that are not of a walk.
LEMMA ContinueCounts ==
    ASSUME WalkInv, NEW s, Counted(s), NEW w, NEW D, IsFiniteSet(D),
           \A c \in D : c.op \notin WalkOps, Continue(w, D, s)
    PROVE  Walks'
<1>1. /\ calls' = s.calls \union D /\ pending' = s.pending /\ reading' = s.reading
      /\ queue' = queue /\ active' = active /\ outcome' = outcome
  BY DEF Continue
<1>2. /\ Exactly(s.calls \union D, s.pending) /\ Chain(s.calls \union D)
      /\ Unstarted(s.calls \union D, queue, outcome)
  BY MoreCalls DEF Counted
<1> QED
  BY <1>1, <1>2 DEF WalkInv, Walks, Counted

\* One call more, or none.
LEMMA CallCounts ==
    ASSUME WalkInv, NEW s, Counted(s), NEW w, NEW c, c.op \notin WalkOps,
           Continue(w, {c}, s) \/ ContinueReading(w, c, s) \/ Continue(w, {}, s)
    PROVE  Walks'
<1>1. IsFiniteSet({c}) /\ IsFiniteSet({})
  BY FS_Singleton, FS_EmptySet
<1>2. ASSUME ContinueReading(w, c, s) PROVE Walks'
  <2> DEFINE d == [s EXCEPT !.reading = c]
  <2>1. d.calls = s.calls /\ d.pending = s.pending /\ d.reading = c
    BY DEF Counted
  <2>2. d = [calls |-> d.calls, pending |-> d.pending, reading |-> d.reading]
    BY DEF Counted
  <2>3. Continue(w, {c}, d)
    BY <1>2 DEF ContinueReading
  <2>4. Counted(d)
    BY <2>1, <2>2 DEF Counted
  <2> HIDE DEF d
  <2> QED
    BY <1>1, <2>3, <2>4, ContinueCounts
<1> QED
  BY <1>1, <1>2, ContinueCounts

\* downloadNextFile.
LEMMA DownloadCounts ==
    ASSUME WalkInv, NEW s, Counted(s), NEW w, NEW i, DownloadFrom(i, w, s)
    PROVE  Walks'
<1> DEFINE c == Call("read", w.downloads[i][1], w.downloads[i][2], 0)
           v == [w EXCEPT !.didx = i]
<1>1. c.op \notin WalkOps
  BY CallIs DEF WalkOps
<1>2. Continue(w, {}, s) \/ FinishHead("completed", s) \/ ContinueReading(v, c, s)
  BY DEF DownloadFrom
<1> HIDE DEF c, v
<1>3. "completed" \in Outcomes \ {"new", "queued"}
  BY DEF Outcomes
<1> QED
  BY <1>1, <1>2, <1>3, CallCounts, FinishCounts

\* downloadWalkDone.
LEMMA WalkDoneCounts ==
    ASSUME WalkInv, NEW s, Counted(s), NEW w, WalkDone(w, s)
    PROVE  Walks'
<1> DEFINE c == Call("probe", Owner, 0, 0)
           d == Call("pack", Owner, 0, 0)
<1>1. c.op \notin WalkOps /\ d.op \notin WalkOps
  BY CallIs DEF WalkOps
<1>2. \/ FinishHead("completed", s) \/ DownloadFrom(w.didx, w, s)
      \/ Continue(w, {c}, s) \/ Continue(w, {d}, s)
  BY DEF WalkDone
<1> HIDE DEF c, d
<1>3. "completed" \in Outcomes \ {"new", "queued"}
  BY DEF Outcomes
<1> QED
  BY <1>1, <1>2, <1>3, CallCounts, FinishCounts, DownloadCounts

\* uploadNextFile.
LEMMA UploadCounts ==
    ASSUME WalkInv, NEW s, Counted(s), NEW w, NEW i, NEW p, UploadFrom(i, w, s, p)
    PROVE  Walks'
<1>1. PICK j \in i..Len(w.uploads) + 1 :
        IF j > Len(w.uploads)
        THEN FinishHead("completed", s)
        ELSE LET t == w.uploads[j][1]
                 k == w.uploads[j][2]
                 c == IF DirOf[k] \in w.made THEN Call("write", t, k, 0)
                      ELSE Call("mkdir", t, k, IF 0 \in w.made THEN DirOf[k] ELSE 0)
             IN w.uploads[j] \notin w.skip /\ Continue([w EXCEPT !.uidx = j], {c}, s)
  BY Zenon DEF UploadFrom
<1> DEFINE t == w.uploads[j][1]
           k == w.uploads[j][2]
           c == IF DirOf[k] \in w.made THEN Call("write", t, k, 0)
                ELSE Call("mkdir", t, k, IF 0 \in w.made THEN DirOf[k] ELSE 0)
           v == [w EXCEPT !.uidx = j]
<1>2. c.op \notin WalkOps
  <2> HIDE DEF t, k
  <2> QED
    BY CallIs DEF WalkOps
<1>3. FinishHead("completed", s) \/ Continue(v, {c}, s)
  BY <1>1, Zenon
<1> HIDE DEF c, v
<1>4. "completed" \in Outcomes \ {"new", "queued"}
  BY DEF Outcomes
<1> QED
  BY <1>2, <1>3, <1>4, CallCounts, FinishCounts

\* A callback that is not of a walk is answered.
LEMMA AfterCounted ==
    ASSUME WalkInv, NEW c \in calls, c.op \notin WalkOps
    PROVE  Counted(After(c))
<1> DEFINE s == After(c)
<1>1. /\ s.calls = calls \ {c} /\ s.pending = pending
      /\ s.reading = (IF c.op \in {"read", "stream"} THEN NoCall ELSE reading)
      /\ s = [calls |-> s.calls, pending |-> s.pending, reading |-> s.reading]
  BY DEF After
<1>2. NoCall.op \notin WalkOps
  BY CallIs DEF NoCall, WalkOps
<1>3. Exactly(calls \ {c}, pending) /\ Chain(calls \ {c}) /\ Unstarted(calls \ {c}, queue, outcome)
  BY FewerCalls DEF WalkInv, Walks
<1> HIDE DEF s
<1> QED
  BY <1>1, <1>2, <1>3 DEF Counted, s, WalkInv, Walks

\* A callback of a walk finds n files and makes calls M, which are new; what is
\* left are listings below one another.
Goes(c, n, M) ==
    /\ IsFiniteSet(M) /\ \A m \in M : m \notin calls /\ m.op \in WalkOps /\ m.of = c.of
    /\ Chain((calls \ {c}) \union M)
    /\ WalkStep(c, n, M)

Left(c, M) == [After(c) EXCEPT !.pending[c.of] = @ + Cardinality(M)]

\* What the callback goes on from, and that the counter tells it whether it is
\* the last of its walk.
LEMMA WalkLeaves ==
    ASSUME WalkInv, NEW c \in calls, c.op \in WalkOps, NEW n, NEW M, Goes(c, n, M)
    PROVE  LET s == Left(c, M)
           IN  /\ c.of \in Transfers
               /\ s.calls = calls \ {c} /\ s.reading = reading
               /\ s = [calls |-> s.calls, pending |-> s.pending, reading |-> s.reading]
               /\ Exactly((calls \ {c}) \union M, s.pending)
               /\ s.pending[c.of] = 0 => M = {}
<1> DEFINE s == Left(c, M)
           t == c.of
           D == (calls \ {c}) \union M
           p == [[pending EXCEPT ![t] = @ - 1] EXCEPT ![t] = @ + Cardinality(M)]
<1>1. t \in Transfers
  BY DEF WalkInv, Walks, Chain
<1>2. Exactly(D, p)
  BY <1>1, WalkCounted DEF WalkInv, Walks, Goes
<1>3. /\ s.calls = calls \ {c} /\ s.pending = p /\ s.reading = reading
      /\ s = [calls |-> s.calls, pending |-> s.pending, reading |-> s.reading]
  <2>1. c.op \notin {"read", "stream"}
    BY DEF WalkOps
  <2>2. After(c) = [calls |-> calls \ {c}, pending |-> [pending EXCEPT ![t] = @ - 1], reading |-> reading]
    BY <2>1 DEF After
  <2> DEFINE b == [pending EXCEPT ![t] = @ - 1]
  <2>3. s = [calls |-> calls \ {c}, pending |-> p, reading |-> reading]
    <3> DEFINE x == Cardinality(M)
               C == calls \ {c}
    <3>1. s = [[calls |-> C, pending |-> b, reading |-> reading] EXCEPT !.pending[t] = @ + x]
      BY <2>2 DEF Left
    <3> HIDE DEF b, x, C, t, s
    <3>2. s = [calls |-> C, pending |-> [b EXCEPT ![t] = @ + x], reading |-> reading]
      BY <3>1
    <3> QED
      BY <3>2 DEF b, x, C, t
  <2> HIDE DEF p, s
  <2> QED
    BY ONLY <2>3
<1>4. ASSUME s.pending[t] = 0 PROVE M = {}
  <2>1. IsFiniteSet(WalkCalls(D, t)) /\ M \subseteq WalkCalls(D, t)
    BY <1>2, FS_Subset DEF Exactly, WalkCalls, Goes
  <2>2. Cardinality(WalkCalls(D, t)) = 0
    BY <1>1, <1>2, <1>3, <1>4 DEF Exactly
  <2> QED
    BY <2>1, <2>2, FS_EmptySet
<1> HIDE DEF p, s
<1> QED
  BY <1>1, <1>2, <1>3, <1>4 DEF s

\* Its step keeps the counts.
LEMMA WalkStepCounts ==
    ASSUME WalkInv, NEW c \in calls, c.op \in WalkOps, NEW n \in 0..MaxFiles, NEW M, Goes(c, n, M)
    PROVE  WalkInv'
<1> DEFINE t == c.of
           D == (calls \ {c}) \union M
           w == [work EXCEPT !.downloads = @ \o Entries(t, size[t] + 1, size[t] + n)]
           s == Left(c, M)
<1>1. /\ t \in Transfers /\ Exactly(D, s.pending)
      /\ s.calls = calls \ {c} /\ s.reading = reading
      /\ s = [calls |-> s.calls, pending |-> s.pending, reading |-> s.reading]
      /\ s.pending[t] = 0 => M = {}
  BY WalkLeaves
<1>2. /\ size[t] + n <= MaxFiles /\ size' = [size EXCEPT ![t] = @ + n]
      /\ IF s.pending[t] = 0 THEN WalkDone(w, s) ELSE Continue(w, M, s)
  BY Zenon DEF WalkStep, Goes, Left
<1>3. Sized(size)'
  BY <1>1, <1>2, FilesAssumption DEF WalkInv, Sized
<1>4. Unstarted(D, queue, outcome)
  <2>1. c \in WalkCalls(calls, t)
    BY DEF WalkCalls
  <2>2. outcome[t] # "new" /\ ~\E i \in 2..Len(queue) : queue[i] = t
    BY <1>1, <2>1 DEF WalkInv, Walks, Unstarted
  <2>3. \A u \in Transfers \ {t} : WalkCalls(D, u) = WalkCalls(calls, u)
    BY DEF WalkCalls, Goes
  <2> QED
    BY <2>2, <2>3 DEF WalkInv, Walks, Unstarted
<1>5. reading.op \notin WalkOps /\ Chain(D)
  BY DEF WalkInv, Walks, Goes
<1> HIDE DEF s, D, w
<1>6. CASE s.pending[t] = 0
  <2>1. s.calls = D
    BY <1>1, <1>6 DEF D
  <2>2. Counted(s)
    BY <1>1, <1>4, <1>5, <2>1 DEF Counted
  <2> QED
    BY <1>2, <1>3, <1>6, <2>2, WalkDoneCounts DEF WalkInv
<1>7. CASE s.pending[t] # 0
  <2>1. Continue(w, M, s)
    BY <1>2, <1>7
  <2>2. /\ calls' = D /\ pending' = s.pending /\ reading' = reading
        /\ queue' = queue /\ active' = active /\ outcome' = outcome
    BY <1>1, <2>1 DEF Continue, D
  <2>3. Walks'
    BY <1>1, <1>4, <1>5, <2>2 DEF WalkInv, Walks
  <2> QED
    BY <1>3, <2>3 DEF WalkInv
<1> QED
  BY <1>6, <1>7

\* No other call of the walk is a listing, and the .gitignore files being read
\* are those of directories above.
LEMMA Others ==
    ASSUME WalkInv, NEW c \in calls, c.op \in {"list", "find"}
    PROVE  /\ c.op \in WalkOps /\ c.of \in Transfers /\ c.dir \in Nat
           /\ \A d \in calls : d.of = c.of /\ d.op \in WalkOps /\ d # c
                => d.op = "rules" /\ d.dir \in Nat /\ d.dir < c.dir
  BY DEF WalkInv, Walks, Chain, WalkOps

\* A listing of the next directory and the .gitignore of this one are new.
LEMMA ListingsAre ==
    ASSUME WalkInv, NEW c \in calls, c.op \in {"list", "find"},
           NEW o \in {"list", "find"}, NEW e \in Nat,
           e = c.dir + 1 \/ (e = c.dir /\ o # c.op),
           NEW A, A = {} \/ A = {Call(o, c.of, 0, e)},
           NEW B, B = {} \/ (B = {Call("rules", c.of, 0, c.dir)} /\ e = c.dir + 1)
    PROVE  /\ IsFiniteSet(A \union B)
           /\ \A m \in A \union B : m \notin calls /\ m.op \in WalkOps /\ m.of = c.of
           /\ Chain((calls \ {c}) \union (A \union B))
<1> DEFINE l == Call(o, c.of, 0, e)
           r == Call("rules", c.of, 0, c.dir)
<1>1. l.op = o /\ l.of = c.of /\ l.dir = e /\ r.op = "rules" /\ r.of = c.of /\ r.dir = c.dir
  BY CallIs
<1> HIDE DEF l, r
<1>2. (A = {} \/ A = {l}) /\ (B = {} \/ (B = {r} /\ e = c.dir + 1))
  BY DEF l, r
<1>3. IsFiniteSet(A \union B)
  BY <1>2, FS_EmptySet, FS_Singleton, FS_Union
<1>4. /\ c.op \in WalkOps /\ c.of \in Transfers /\ c.dir \in Nat
      /\ \A d \in calls : d.of = c.of /\ d.op \in WalkOps /\ d # c
            => d.op = "rules" /\ d.dir \in Nat /\ d.dir < c.dir
  BY Others
<1>5. {"list", "find", "rules"} = WalkOps
  BY DEF WalkOps
<1>6. l \notin calls
  <2>1. l # c
    BY <1>1, <1>4
  <2> QED
    BY <1>1, <1>4, <1>5, <2>1
<1>7. r \notin calls
  <2>1. r # c
    BY <1>1
  <2> QED
    BY <1>1, <1>4, <1>5, <2>1
<1>8. Chain((calls \ {c}) \union (A \union B))
  <2> DEFINE D == (calls \ {c}) \union (A \union B)
  <2>1. \A d \in D : d.op \in WalkOps => d.of \in Transfers /\ d.dir \in Nat
    BY <1>1, <1>2, <1>4 DEF WalkInv, Walks, Chain
  <2>2. ASSUME NEW d \in D, NEW f \in D, d.op \in {"list", "find"}, f.op \in WalkOps,
               d.of = f.of, d # f
        PROVE  f.op = "rules" /\ f.dir < d.dir
    <3>1. CASE d = l
      <4>1. f = r \/ f \in calls \ {c}
        BY <1>2, <2>2, <3>1
      <4>2. e \in {c.dir, c.dir + 1}
        OBVIOUS
      <4>3. CASE f = r /\ f \notin calls
        <5>1. e = c.dir + 1
          BY <1>2, <2>2, <3>1, <4>3
        <5> QED
          BY <1>1, <1>4, <3>1, <4>3, <5>1
      <4>4. CASE f \in calls \ {c}
        BY <1>1, <1>4, <2>2, <3>1, <4>2, <4>4
      <4> QED
        BY <1>7, <4>1, <4>3, <4>4
    <3>2. CASE d # l
      <4>1. d \in calls \ {c}
        BY <1>1, <1>2, <2>2, <3>2
      <4>2. d.of # c.of
        BY <1>4, <1>5, <2>2, <4>1
      <4>3. f \in calls
        BY <1>1, <1>2, <2>2, <4>2
      <4> QED
        BY <2>2, <4>1, <4>3 DEF WalkInv, Walks, Chain
    <3> QED
      BY <3>1, <3>2
  <2> HIDE DEF D
  <2>3. Chain(D)
    BY <2>1, <2>2 DEF Chain
  <2> QED
    BY <2>3 DEF D
<1>9. \A m \in A \union B : m \notin calls /\ m.op \in WalkOps /\ m.of = c.of
  BY <1>1, <1>2, <1>5, <1>6, <1>7
<1> QED
  BY <1>3, <1>8, <1>9

\* Fewer calls of a walk keep its chain.
LEMMA ChainLess ==
    ASSUME NEW C, NEW D, Chain(C)
    PROVE  Chain(C \ D) /\ Chain((C \ D) \union {})
<1>1. (C \ D) \union {} = C \ D
  OBVIOUS
<1>2. Chain(C \ D)
  BY DEF Chain
<1> QED
  BY <1>1, <1>2

-----------------------------------------------------------------------------
(* Every step *)

\* The callbacks of a walk.
LEMMA ListGoes ==
    ASSUME WalkInv, NEW c \in calls, ListAnswered(c)
    PROVE  \E n \in 0..MaxFiles : \E M : Goes(c, n, M)
<1>1. c.op = "list" /\ c.op \in WalkOps
  BY DEF ListAnswered, WalkOps
<1>2. ASSUME WalkStep(c, 0, {}) PROVE \E n \in 0..MaxFiles : \E M : Goes(c, n, M)
  <2>1. Chain((calls \ {c}) \union {})
    BY ChainLess DEF WalkInv, Walks
  <2>2. 0 \in 0..MaxFiles
    BY FilesAssumption
  <2>3. Goes(c, 0, {})
    BY <1>2, <2>1, FS_EmptySet DEF Goes
  <2> QED
    BY <2>2, <2>3, Zenon
<1>3. ASSUME NEW n \in 0..MaxFiles, NEW sub \in BOOLEAN, NEW ignores \in BOOLEAN,
             WalkStep(c, n,
               (IF sub THEN {Call(IF c.dir = 0 /\ kind[c.of] = "tree" THEN "find" ELSE "list",
                                  c.of, 0, c.dir + 1)} ELSE {})
               \union (IF ignores THEN {Call("rules", c.of, 0, c.dir)} ELSE {}))
      PROVE  \E N \in 0..MaxFiles : \E M : Goes(c, N, M)
  <2> DEFINE o == IF c.dir = 0 /\ kind[c.of] = "tree" THEN "find" ELSE "list"
             A == IF sub THEN {Call(o, c.of, 0, c.dir + 1)} ELSE {}
             B == IF ignores THEN {Call("rules", c.of, 0, c.dir)} ELSE {}
  <2>1. c.dir \in Nat /\ c.dir + 1 \in Nat /\ o \in {"list", "find"}
    BY <1>1, Others
  <2> HIDE DEF o
  <2>2. A = {} \/ A = {Call(o, c.of, 0, c.dir + 1)}
    OBVIOUS
  <2>3. B = {} \/ (B = {Call("rules", c.of, 0, c.dir)} /\ c.dir + 1 = c.dir + 1)
    OBVIOUS
  <2>4. WalkStep(c, n, A \union B)
    BY <1>3 DEF o
  <2> HIDE DEF A, B
  <2>5. /\ IsFiniteSet(A \union B)
        /\ \A m \in A \union B : m \notin calls /\ m.op \in WalkOps /\ m.of = c.of
        /\ Chain((calls \ {c}) \union (A \union B))
    BY <1>1, <2>1, <2>2, <2>3, ListingsAre
  <2>6. Goes(c, n, A \union B)
    BY <2>4, <2>5 DEF Goes
  <2> QED
    BY <2>6, Zenon
<1> QED
  BY <1>2, <1>3, Zenon DEF ListAnswered

LEMMA FindGoes ==
    ASSUME WalkInv, NEW c \in calls, FindAnswered(c)
    PROVE  \E n \in 0..MaxFiles : \E M : Goes(c, n, M)
<1>1. c.op = "find" /\ c.op \in WalkOps
  BY DEF FindAnswered, WalkOps
<1>2. ASSUME NEW n \in 0..MaxFiles, WalkStep(c, n, {}) PROVE Goes(c, n, {})
  <2>1. Chain((calls \ {c}) \union {})
    BY ChainLess DEF WalkInv, Walks
  <2> QED
    BY <1>2, <2>1, FS_EmptySet DEF Goes
<1>3. ASSUME WalkStep(c, 0, {Call("list", c.of, 0, c.dir)})
      PROVE  Goes(c, 0, {Call("list", c.of, 0, c.dir)})
  <2> DEFINE o == "list"
             e == c.dir
             A == {Call("list", c.of, 0, c.dir)}
             B == {}
  <2>1. /\ o \in {"list", "find"} /\ c.op \in {"list", "find"} /\ e \in Nat
        /\ (e = c.dir + 1 \/ (e = c.dir /\ o # c.op))
        /\ (A = {} \/ A = {Call(o, c.of, 0, e)})
        /\ (B = {} \/ (B = {Call("rules", c.of, 0, c.dir)} /\ e = c.dir + 1))
    BY <1>1, Others
  <2>2. A \union B = A
    OBVIOUS
  <2>3. WalkStep(c, 0, A)
    BY <1>3
  <2> HIDE DEF o, e, A, B
  <2>4. /\ IsFiniteSet(A \union B)
        /\ \A m \in A \union B : m \notin calls /\ m.op \in WalkOps /\ m.of = c.of
        /\ Chain((calls \ {c}) \union (A \union B))
    BY <2>1, ListingsAre
  <2>5. Goes(c, 0, A)
    BY <2>2, <2>3, <2>4 DEF Goes
  <2> QED
    BY <2>5 DEF A
<1>4. 0 \in 0..MaxFiles
  BY FilesAssumption
<1> QED
  BY <1>2, <1>3, <1>4, Zenon DEF FindAnswered

LEMMA RulesGoes ==
    ASSUME WalkInv, NEW c \in calls, RulesAnswered(c)
    PROVE  \E n \in 0..MaxFiles : \E M : Goes(c, n, M)
<1>1. WalkStep(c, 0, {})
  BY DEF RulesAnswered
<1>2. Chain((calls \ {c}) \union {})
  BY ChainLess DEF WalkInv, Walks
<1>3. Goes(c, 0, {})
  BY <1>1, <1>2, FS_EmptySet DEF Goes
<1>4. 0 \in 0..MaxFiles
  BY FilesAssumption
<1> QED
  BY <1>3, <1>4, Zenon

LEMMA WalkAnswers ==
    ASSUME WalkInv, NEW c \in calls, ListAnswered(c) \/ FindAnswered(c) \/ RulesAnswered(c)
    PROVE  c.op \in WalkOps /\ \E n \in 0..MaxFiles : \E M : Goes(c, n, M)
<1>1. c.op \in WalkOps
  BY DEF ListAnswered, FindAnswered, RulesAnswered, WalkOps
<1> QED
  BY <1>1, ListGoes, FindGoes, RulesGoes

\* A callback that finds m_cancelled set, of a walk or not.
LEMMA CancelledCounts ==
    ASSUME WalkInv, NEW c \in calls, AnsweredCancelled(c)
    PROVE  WalkInv'
<1> DEFINE w == IF c.op = "mkdir" THEN [work EXCEPT !.made = @ \union {c.dir}] ELSE work
<1>1. Continue(w, {}, After(c)) /\ size' = size
  BY Zenon DEF AnsweredCancelled
<1> HIDE DEF w
<1>2. Counted(After(c))
  <2>1. CASE c.op \notin WalkOps
    BY <2>1, AfterCounted
  <2>2. CASE c.op \in WalkOps
    <3>1. c.of \in Transfers
      BY <2>2 DEF WalkInv, Walks, Chain
    <3>2. After(c) = [calls |-> calls \ {c}, pending |-> [pending EXCEPT ![c.of] = @ - 1],
                      reading |-> reading]
      BY <2>2 DEF After, WalkOps
    <3> DEFINE p == [pending EXCEPT ![c.of] = @ - 1]
    <3>3. Exactly(calls \ {c}, p)
      <4>1. Cardinality({}) = 0
        BY FS_EmptySet
      <4>2. Exactly((calls \ {c}) \union {}, [p EXCEPT ![c.of] = @ + Cardinality({})])
        BY <2>2, <3>1, WalkCounted, FS_EmptySet DEF WalkInv, Walks
      <4>3. [p EXCEPT ![c.of] = @ + Cardinality({})] = p
        <5>1. p \in [Transfers -> Int] /\ p[c.of] \in Int
          BY <3>1 DEF WalkInv, Walks, Exactly
        <5> HIDE DEF p
        <5> QED
          BY <3>1, <4>1, <5>1
      <4>4. (calls \ {c}) \union {} = calls \ {c}
        OBVIOUS
      <4> QED
        BY <4>2, <4>3, <4>4
    <3>4. Chain(calls \ {c})
      BY ChainLess DEF WalkInv, Walks
    <3>5. Unstarted(calls \ {c}, queue, outcome)
      BY DEF WalkInv, Walks, Unstarted, WalkCalls
    <3>6. reading.op \notin WalkOps
      BY DEF WalkInv, Walks
    <3> HIDE DEF p
    <3>7. After(c) = [calls |-> calls \ {c}, pending |-> p, reading |-> reading]
      BY <3>2 DEF p
    <3> QED
      BY <3>3, <3>4, <3>5, <3>6, <3>7 DEF Counted
  <2> QED
    BY <2>1, <2>2
<1>3. Walks'
  BY <1>1, <1>2, FS_EmptySet, ContinueCounts
<1> QED
  BY <1>1, <1>3 DEF WalkInv, Sized

\* The archive, and reading file by file.
LEMMA ArchiveCounts ==
    ASSUME WalkInv, NEW c \in calls,
           ProbeAnswered(c) \/ PackAnswered(c) \/ StreamAnswered(c) \/ ExtractAnswered(c) \/ ReadAnswered(c)
    PROVE  WalkInv'
<1>1. c.op \notin WalkOps
  BY DEF ProbeAnswered, PackAnswered, StreamAnswered, ExtractAnswered, ReadAnswered, WalkOps
<1>2. Counted(After(c))
  BY <1>1, AfterCounted
<1>3. {"completed", "failed"} \subseteq Outcomes \ {"new", "queued"}
  BY DEF Outcomes
<1>4. size' = size
  BY DEF ProbeAnswered, PackAnswered, StreamAnswered, ExtractAnswered, ReadAnswered
<1> DEFINE d == Call("pack", Owner, 0, 0)
           e == Call("stream", c.of, 0, 0)
           f == Call("extract", c.of, 0, 0)
           v == [work EXCEPT !.archive = c.of]
           u == [work EXCEPT !.archive = NoTransfer, !.didx = 1]
<1>5. d.op \notin WalkOps /\ e.op \notin WalkOps /\ f.op \notin WalkOps
  BY CallIs DEF WalkOps
<1>6. \/ Continue(work, {d}, After(c)) \/ ContinueReading(v, e, After(c))
      \/ Continue(work, {f}, After(c))
      \/ FinishHead("failed", After(c)) \/ FinishHead("completed", After(c))
      \/ DownloadFrom(work.didx, work, After(c)) \/ DownloadFrom(1, u, After(c))
      \/ DownloadFrom(work.didx + 1, work, After(c))
  BY Zenon DEF ProbeAnswered, PackAnswered, StreamAnswered, ExtractAnswered, ReadAnswered
<1> HIDE DEF d, e, f, v, u
<1>7. Walks'
  BY <1>2, <1>3, <1>5, <1>6, CallCounts, FinishCounts, DownloadCounts
<1> QED
  BY <1>4, <1>7 DEF WalkInv, Sized

\* cancel and onConnectionLost.
LEMMA DropCounts ==
    ASSUME WalkInv, NEW s, Counted(s), NEW o \in Outcomes \ {"new", "queued"}, DropQueue(o),
           calls' \in {s.calls, s.calls \ {s.reading}}, pending' = s.pending,
           reading'.op \notin WalkOps
    PROVE  Walks'
<1>1. /\ queue' = <<>> /\ ~active'
      /\ outcome' = [t \in Transfers |-> IF \E i \in 1..Len(queue) : queue[i] = t THEN o ELSE outcome[t]]
  BY DEF DropQueue
<1>2. QueueOf(queue', outcome')
  BY <1>1 DEF QueueOf, WalkInv, Walks
<1>3. Exactly(calls', pending') /\ Chain(calls')
  <2>1. Exactly(s.calls, s.pending) /\ Chain(s.calls) /\ Unstarted(s.calls, queue, outcome)
    BY DEF Counted
  <2>2. \A c \in {s.reading} : c.op \notin WalkOps
    BY DEF Counted
  <2>3. Exactly(s.calls \ {s.reading}, s.pending) /\ Chain(s.calls \ {s.reading})
    BY <2>1, <2>2, FewerCalls
  <2> QED
    BY <2>1, <2>3
<1>4. Unstarted(calls', queue', outcome')
  <2>1. calls' \subseteq s.calls
    OBVIOUS
  <2>2. \A t \in Transfers : outcome'[t] = "new" => outcome[t] = "new"
    BY <1>1
  <2>3. Len(queue') = 0
    BY <1>1, EmptySeq
  <2>4. \A t : WalkCalls(calls', t) \subseteq WalkCalls(s.calls, t)
    BY <2>1 DEF WalkCalls
  <2> QED
    BY <2>2, <2>3, <2>4 DEF Unstarted, Counted
<1> QED
  BY <1>1, <1>2, <1>3, <1>4 DEF Walks

LEMMA CancelCounts ==
    ASSUME WalkInv, NEW s, Counted(s), CancelAll(s)
    PROVE  Walks'
<1>1. "cancelled" \in Outcomes \ {"new", "queued"}
  BY DEF Outcomes
<1>2. /\ DropQueue("cancelled") /\ calls' \in {s.calls, s.calls \ {s.reading}}
      /\ reading' = NoCall /\ pending' = s.pending
  BY DEF CancelAll
<1>3. NoCall.op \notin WalkOps
  BY CallIs DEF NoCall, WalkOps
<1> QED
  BY <1>1, <1>2, <1>3, DropCounts

\* The conflict scan and the upload.
LEMMA ScanCounts ==
    ASSUME WalkInv, NEW c \in calls, ScanAnswered(c)
    PROVE  WalkInv'
<1>1. c.op \notin WalkOps /\ size' = size
  BY DEF ScanAnswered, WalkOps
<1>2. Counted(After(c))
  BY <1>1, AfterCounted
<1>3. PICK C : LET w == [work EXCEPT !.scans = @ - 1, !.found = @ \union C]
               IN  \/ Continue(w, {}, After(c)) \/ UploadFrom(1, w, After(c), passed)
                   \/ UploadFrom(1, [w EXCEPT !.skip = w.found], After(c), passed)
                   \/ CancelAll(After(c))
  BY Zenon DEF ScanAnswered
<1>4. Walks'
  BY <1>2, <1>3, FS_EmptySet, ContinueCounts, UploadCounts, CancelCounts, Zenon
<1> QED
  BY <1>1, <1>4 DEF WalkInv, Sized

LEMMA FileCounts ==
    ASSUME WalkInv, NEW c \in calls, MkdirAnswered(c) \/ WriteAnswered(c)
    PROVE  WalkInv'
<1>1. c.op \notin WalkOps /\ size' = size
  BY DEF MkdirAnswered, WriteAnswered, WalkOps
<1>2. Counted(After(c))
  BY <1>1, AfterCounted
<1> DEFINE w == [work EXCEPT !.made = @ \union {c.dir}]
           d == Call("mkdir", c.of, c.file, DirOf[c.file])
           e == Call("write", c.of, c.file, 0)
           p == Pass(passed, {<<c.of, c.file>>})
<1>3. d.op \notin WalkOps /\ e.op \notin WalkOps
  BY CallIs DEF WalkOps
<1>4. \/ Continue(w, {d}, After(c)) \/ Continue(w, {e}, After(c))
      \/ UploadFrom(w.uidx + 1, w, After(c), p) \/ UploadFrom(work.uidx + 1, work, After(c), p)
  BY Zenon DEF MkdirAnswered, WriteAnswered
<1> HIDE DEF w, d, e, p
<1>5. Walks'
  BY <1>2, <1>3, <1>4, CallCounts, UploadCounts, Zenon
<1> QED
  BY <1>1, <1>5 DEF WalkInv, Sized

\* What the user and the commands do goes on from the state they find.
LEMMA NowCounted ==
    ASSUME WalkInv
    PROVE  Counted(Now) /\ Now.calls = calls /\ Now.pending = pending /\ Now.reading = reading
<1>1. Now.calls = calls /\ Now.pending = pending /\ Now.reading = reading
  BY DEF Now
<1>2. Now = [calls |-> Now.calls, pending |-> Now.pending, reading |-> Now.reading]
  BY DEF Now
<1> QED
  BY <1>1, <1>2 DEF Counted, WalkInv, Walks

\* The queue with one more transfer.
LEMMA Appended ==
    ASSUME WalkInv, NEW t \in Transfers, outcome[t] = "new"
    PROVE  LET q == Append(queue, t)
               r == [outcome EXCEPT ![t] = "queued"]
           IN  /\ QueueOf(q, r) /\ q # <<>>
               /\ queue \in Seq(Transfers) /\ Len(queue) \in Nat /\ Len(q) = Len(queue) + 1
               /\ q[Len(q)] = t /\ \A i \in 1..Len(queue) : q[i] = queue[i]
               /\ \A u : (\E i \in 1..Len(q) : q[i] = u) <=> u = t \/ \E i \in 1..Len(queue) : queue[i] = u
               /\ \A u \in Transfers : r[u] = "new" => outcome[u] = "new" /\ u # t
<1> DEFINE q == Append(queue, t)
           r == [outcome EXCEPT ![t] = "queued"]
<1>1. /\ queue \in Seq(Transfers) /\ Len(queue) \in Nat /\ q \in Seq(Transfers)
      /\ Len(q) = Len(queue) + 1 /\ q[Len(q)] = t /\ \A i \in 1..Len(queue) : q[i] = queue[i]
  BY AppendProperties DEF WalkInv, Walks, QueueOf
<1>2. ~\E i \in 1..Len(queue) : queue[i] = t
  BY DEF WalkInv, Walks, QueueOf
<1>3. \A u : (\E i \in 1..Len(q) : q[i] = u) <=> u = t \/ \E i \in 1..Len(queue) : queue[i] = u
  <2> SUFFICES ASSUME NEW u
      PROVE  (\E i \in 1..Len(q) : q[i] = u) <=> u = t \/ \E i \in 1..Len(queue) : queue[i] = u
    OBVIOUS
  <2>1. ASSUME NEW i \in 1..Len(q), q[i] = u PROVE u = t \/ \E j \in 1..Len(queue) : queue[j] = u
    <3>1. i \in 1..Len(queue) \/ i = Len(q)
      BY <1>1
    <3> QED
      BY <1>1, <2>1, <3>1
  <2>2. ASSUME NEW i \in 1..Len(queue), queue[i] = u PROVE \E j \in 1..Len(q) : q[j] = u
    <3>1. i \in 1..Len(q) /\ q[i] = u
      BY <1>1, <2>2
    <3> QED
      BY <3>1
  <2>3. Len(q) \in 1..Len(q)
    BY <1>1
  <2> QED
    BY <1>1, <2>1, <2>2, <2>3
<1>4. QueueOf(q, r)
  <2>1. r \in [Transfers -> Outcomes]
    BY DEF WalkInv, Walks, QueueOf, Outcomes
  <2>2. ASSUME NEW i \in 1..Len(q), NEW j \in 1..Len(q), q[i] = q[j] PROVE i = j
    <3>1. (i \in 1..Len(queue) \/ i = Len(q)) /\ (j \in 1..Len(queue) \/ j = Len(q))
      BY <1>1
    <3> QED
      BY <1>1, <1>2, <2>2, <3>1 DEF WalkInv, Walks, QueueOf
  <2>3. \A u \in Transfers : r[u] = "queued" <=> \E i \in 1..Len(q) : q[i] = u
    BY <1>3 DEF WalkInv, Walks, QueueOf
  <2> QED
    BY <1>1, <2>1, <2>2, <2>3 DEF QueueOf
<1>5. \A u \in Transfers : r[u] = "new" => outcome[u] = "new" /\ u # t
  BY DEF WalkInv, Walks, QueueOf
<1>6. q # <<>>
  BY <1>1, EmptySeq
<1> HIDE DEF q, r
<1> QED
  BY <1>1, <1>3, <1>4, <1>5, <1>6 DEF q, r

LEMMA RequestCounts ==
    ASSUME WalkInv, NEW t \in Transfers, Request(t)
    PROVE  WalkInv'
<1> DEFINE q == Append(queue, t)
           r == [outcome EXCEPT ![t] = "queued"]
<1>1. outcome[t] = "new" /\ size' = size
  BY DEF Request
<1>2. /\ QueueOf(q, r) /\ q # <<>>
      /\ queue \in Seq(Transfers) /\ Len(queue) \in Nat /\ Len(q) = Len(queue) + 1
      /\ q[Len(q)] = t /\ \A i \in 1..Len(queue) : q[i] = queue[i]
      /\ \A u : (\E i \in 1..Len(q) : q[i] = u) <=> u = t \/ \E i \in 1..Len(queue) : queue[i] = u
      /\ \A u \in Transfers : r[u] = "new" => outcome[u] = "new"
  BY <1>1, Appended
<1> HIDE DEF q, r
<1>3. CASE active
  <2>1. queue' = q /\ outcome' = r /\ UNCHANGED <<active, reading, pending, calls>>
    BY <1>3, Zenon DEF Request, q, r
  <2>2. Unstarted(calls, q, r)
    <3>1. queue # <<>>
      BY <1>3 DEF WalkInv, Walks
    <3>2. WalkCalls(calls, t) = {}
      BY <1>1 DEF WalkInv, Walks, Unstarted
    <3>3. ASSUME NEW u \in Transfers, NEW i \in 2..Len(q), q[i] = u PROVE WalkCalls(calls, u) = {}
      <4>1. i \in 2..Len(queue) \/ i = Len(q)
        BY <1>2
      <4>2. CASE i \in 2..Len(queue)
        <5>1. queue[i] = u
          BY <1>2, <3>3, <4>2
        <5> QED
          BY <4>2, <5>1 DEF WalkInv, Walks, Unstarted
      <4> QED
        BY <1>2, <3>2, <3>3, <4>1, <4>2
    <3> QED
      BY <1>2, <3>3 DEF Unstarted, WalkInv, Walks
  <2> QED
    BY <1>2, <1>1, <1>3, <2>1, <2>2 DEF WalkInv, Walks, Sized
<1>4. CASE ~active
  <2>1. StartNext(q, Now, r)
    BY <1>4, Zenon DEF Request, q, r
  <2>2. Len(queue) = 0
    BY <1>4, EmptySeq DEF WalkInv, Walks
  <2>3. \A u \in Transfers :
          r[u] = "new" \/ (\E i \in 1..Len(q) : q[i] = u) => WalkCalls(calls, u) = {}
    <3>1. ~\E i \in 1..Len(queue) : TRUE
      BY <2>2
    <3>2. ASSUME NEW u \in Transfers, r[u] = "new" \/ \E i \in 1..Len(q) : q[i] = u
          PROVE  outcome[u] = "new"
      BY <1>2, <1>1, <3>1, <3>2
    <3> QED
      BY <3>2 DEF WalkInv, Walks, Unstarted
  <2>4. Walks'
    BY <1>2, <2>1, <2>3, NowCounted, StartCounts DEF Counted, WalkInv
  <2> QED
    BY <1>1, <2>4 DEF WalkInv, Sized
<1> QED
  BY <1>3, <1>4

\* Every step preserves the invariant.
LEMMA WalkStepsInv == WalkInv /\ [Next]_vars => WalkInv'
<1> SUFFICES ASSUME WalkInv, [Next]_vars PROVE WalkInv'
  OBVIOUS
<1>1. ASSUME UNCHANGED <<manager, calls, history>> PROVE WalkInv'
  BY <1>1 DEF manager, history, WalkInv, Walks, Sized
<1>2. ASSUME Cancel PROVE WalkInv'
  <2>1. CancelAll(Now) /\ size' = size
    BY <1>2 DEF Cancel
  <2> QED
    BY <2>1, NowCounted, CancelCounts DEF WalkInv, Sized
<1>3. ASSUME Accept PROVE WalkInv'
  <2>1. /\ size' = size
        /\ \/ Continue(work, {}, Now)
           \/ \E S : UploadFrom(1, [work EXCEPT !.skip = S], Now, passed)
    BY <1>3, Zenon DEF Accept
  <2>2. Walks'
    BY <2>1, NowCounted, FS_EmptySet, ContinueCounts, UploadCounts, Zenon
  <2> QED
    BY <2>1, <2>2 DEF WalkInv, Sized
<1>4. ASSUME ConnectionLost PROVE WalkInv'
  <2>1. size' = size /\ reading' = reading /\ pending' = pending /\ calls' = calls
    BY <1>4 DEF ConnectionLost
  <2>2. CASE active
    <3>1. DropQueue("lost")
      BY <1>4, <2>2 DEF ConnectionLost
    <3>2. "lost" \in Outcomes \ {"new", "queued"} /\ reading'.op \notin WalkOps
      BY <2>1 DEF Outcomes, WalkInv, Walks
    <3> QED
      BY <2>1, <3>1, <3>2, NowCounted, DropCounts DEF WalkInv, Sized
  <2>3. CASE ~active
    <3>1. UNCHANGED <<queue, active, outcome>>
      BY <1>4, <2>3 DEF ConnectionLost
    <3> QED
      BY <2>1, <3>1 DEF WalkInv, Walks, Sized
  <2> QED
    BY <2>2, <2>3
<1>5. ASSUME Dismiss \/ LinkDrops \/ UNCHANGED vars PROVE WalkInv'
  BY <1>1, <1>5 DEF Dismiss, LinkDrops, vars, world
<1>6. ASSUME NEW c \in calls, Answered(c) PROVE WalkInv'
  <2>1. CASE ListAnswered(c) \/ FindAnswered(c) \/ RulesAnswered(c)
    BY <2>1, WalkAnswers, WalkStepCounts
  <2> QED
    BY <1>6, <2>1, CancelledCounts, ArchiveCounts, ScanCounts, FileCounts DEF Answered
<1>7. ASSUME NEW t \in Transfers, Request(t) PROVE WalkInv'
  BY <1>7, RequestCounts
<1> QED
  BY <1>2, <1>3, <1>4, <1>5, <1>6, <1>7 DEF Next

LEMMA WalkInit == Init => WalkInv
<1> SUFFICES ASSUME Init PROVE WalkInv
  OBVIOUS
<1>1. /\ queue = <<>> /\ ~active /\ calls = {} /\ pending = [t \in Transfers |-> 0]
      /\ reading = NoCall /\ size \in [Transfers -> 0..MaxFiles]
      /\ outcome = [t \in Transfers |-> "new"]
  BY DEF Init
<1>2. Len(queue) = 0 /\ queue \in Seq(Transfers)
  BY <1>1, EmptySeq
<1>3. QueueOf(queue, outcome)
  BY <1>1, <1>2 DEF QueueOf, Outcomes
<1>4. \A t : WalkCalls(calls, t) = {}
  BY <1>1 DEF WalkCalls
<1>5. Exactly(calls, pending) /\ Chain(calls) /\ Unstarted(calls, queue, outcome)
  <2>1. Cardinality({}) = 0 /\ IsFiniteSet({})
    BY FS_EmptySet
  <2>2. Exactly(calls, pending)
    BY <1>1, <1>4, <2>1 DEF Exactly
  <2>3. Chain(calls)
    BY <1>1 DEF Chain
  <2>4. Unstarted(calls, queue, outcome)
    BY <1>4 DEF Unstarted
  <2> QED
    BY <2>2, <2>3, <2>4
<1>6. reading.op \notin WalkOps
  BY <1>1, CallIs DEF NoCall, WalkOps
<1> QED
  BY <1>1, <1>3, <1>5, <1>6 DEF WalkInv, Walks, Sized

\* The counter that the callbacks of a walk share is the number of its calls in
\* flight, for any number of transfers and files, and although transfers that
\* were cancelled in their walk still have callbacks to come while the next
\* ones walk: m_pending never goes below zero and a walk ends once.
THEOREM WalkCallsCounted == Spec => []PendingExact
<1>1. WalkInv => PendingExact
  <2>1. \A t : {c \in CallsOf(t) : c.op \in WalkOps} = WalkCalls(calls, t)
    BY DEF CallsOf, WalkCalls
  <2> QED
    BY <2>1 DEF WalkInv, Walks, Exactly, PendingExact
<1> QED
  BY <1>1, WalkInit, WalkStepsInv, PTL DEF Spec

=============================================================================
