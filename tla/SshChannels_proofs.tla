------------------------- MODULE SshChannels_proofs -------------------------
(* Proofs about SshChannels: type correctness; no path of the worker overruns *)
(* the channel budget or the reserve for short-lived commands; the queues     *)
(* match the openers; and no free slot is left idle while an opener waits.    *)
EXTENDS SshChannels, SequenceTheorems, FiniteSetTheorems, TLAPS

\* The counts of a phase function fit the budget.
Within(ph) ==
    /\ liveDynamicCount(ph) <= dynamicBudget
    /\ liveLongLivedCount(ph) <= maxLong

\* QueuesExact, queue by queue.
Exact(ph, sq, lq) ==
    /\ IsInjective(sq) /\ IsInjective(lq)
    /\ \A o \in ToSet(sq) \union ToSet(lq) : ph[o] = "queued"
    /\ \A x \in Execs : ph[x] = "queued" => x \in ToSet(sq) \union ToSet(lq)

\* What every action keeps, in every state of the session.
Good(ph, sq, lq) ==
    /\ ph \in [Openers -> Phases]
    /\ sq \in Seq(ShortExecs) /\ lq \in Seq(LongLived)
    /\ Within(ph)
    /\ Exact(ph, sq, lq)

\* No opener waits for a slot that is free.
Full(ph, sq, lq) ==
    /\ sq # <<>> => liveDynamicCount(ph) >= dynamicBudget
    /\ lq # <<>> => \/ liveDynamicCount(ph) >= dynamicBudget
                   \/ liveLongLivedCount(ph) >= maxLong

\* What admitPending lets in: short-lived commands first, each queue from its
\* front, and no fewer than fit.
HandedOut(after, sq, lq) ==
    \E n \in 0 .. Len(sq), m \in 0 .. Len(lq) :
        /\ phase' = [o \in Openers |->
                       IF o \in ToSet(SubSeq(sq, 1, n)) \union ToSet(SubSeq(lq, 1, m))
                         THEN "opening" ELSE after[o]]
        /\ shortQueue' = SubSeq(sq, n + 1, Len(sq))
        /\ longQueue' = SubSeq(lq, m + 1, Len(lq))
        /\ n < Len(sq) => m = 0 /\ liveDynamicCount(phase') >= dynamicBudget
        /\ m < Len(lq) => \/ liveDynamicCount(phase') >= dynamicBudget
                          \/ liveLongLivedCount(phase') >= maxLong

\* The inductive invariant.
AdmissionInv ==
    /\ TypeOK
    /\ Good(phase, shortQueue, longQueue)
    /\ session = "ready" => Full(phase, shortQueue, longQueue)

-----------------------------------------------------------------------------
(* Data *)

\* The minimum of a nonempty finite set of integers, as admitPending takes it.
LEMMA MinTwo ==
    ASSUME NEW a \in Int, NEW b \in Int
    PROVE  Min({a, b}) \in {a, b} /\ Min({a, b}) <= a /\ Min({a, b}) <= b
<1>1. \E x \in {a, b} : \A y \in {a, b} : x =< y
  <2>1. CASE a <= b
    BY <2>1
  <2>2. CASE ~(a <= b)
    BY <2>2
  <2> QED
    BY <2>1, <2>2
<1> QED
  BY <1>1 DEF Min

LEMMA MinThree ==
    ASSUME NEW a \in Int, NEW b \in Int, NEW c \in Int
    PROVE  /\ Min({a, b, c}) \in {a, b, c}
           /\ Min({a, b, c}) <= a /\ Min({a, b, c}) <= b /\ Min({a, b, c}) <= c
<1>1. \E x \in {a, b, c} : \A y \in {a, b, c} : x =< y
  <2>1. CASE a <= b /\ a <= c
    BY <2>1
  <2>2. CASE b <= a /\ b <= c
    BY <2>2
  <2>3. CASE c <= a /\ c <= b
    BY <2>3
  <2> QED
    BY <2>1, <2>2, <2>3
<1> QED
  BY <1>1 DEF Min

\* What a bound leaves open, for leaves that mix arithmetic and sequences.
LEMMA AtMost ==
    ASSUME NEW a \in Int, NEW b \in Int, a <= b
    PROVE  a = b \/ (a < b /\ a + 1 <= b)
  OBVIOUS

\* Taking an element out leaves a sequence.
LEMMA WithoutType ==
    ASSUME NEW S, NEW q \in Seq(S), NEW o
    PROVE  Without(q, o) \in Seq(S)
<1>1. CASE o \notin ToSet(q)
  BY <1>1 DEF Without
<1>2. CASE o \in ToSet(q)
  <2> DEFINE k == IndexOf(q, o)
  <2>1. Len(q) \in Nat /\ DOMAIN q = 1 .. Len(q)
    BY LenProperties
  <2>2. k \in 1 .. Len(q)
    BY <2>1, <1>2 DEF IndexOf, ToSet
  <2>3. /\ \A i \in 1 .. k - 1 : q[i] \in S
        /\ \A i \in k + 1 .. Len(q) : q[i] \in S
        /\ k \in Int /\ Len(q) \in Int
    BY <2>1, <2>2, ElementOfSeq
  <2> HIDE DEF k
  <2>4. SubSeq(q, 1, k - 1) \in Seq(S) /\ SubSeq(q, k + 1, Len(q)) \in Seq(S)
    BY <2>3, SubSeqProperties
  <2>5. SubSeq(q, 1, k - 1) \o SubSeq(q, k + 1, Len(q)) \in Seq(S)
    BY <2>4, ConcatProperties
  <2> QED
    BY <1>2, <2>5 DEF Without, RemoveAt, k
<1> QED
  BY <1>1, <1>2

\* A sequence without repetitions, cut after n elements.
LEMMA CutContents ==
    ASSUME NEW S, NEW q \in Seq(S), NEW n \in 0 .. Len(q), IsInjective(q)
    PROVE  LET p == SubSeq(q, 1, n)
               r == SubSeq(q, n + 1, Len(q))
           IN  /\ r \in Seq(S) /\ IsFiniteSet(ToSet(p))
               /\ ToSet(q) = ToSet(p) \union ToSet(r)
               /\ ToSet(p) \intersect ToSet(r) = {}
               /\ IsInjective(r)
               /\ Cardinality(ToSet(p)) = n
               /\ r # <<>> => n < Len(q)
<1> DEFINE p == SubSeq(q, 1, n)
           r == SubSeq(q, n + 1, Len(q))
<1>1. Len(q) \in Nat /\ n \in Nat /\ n <= Len(q) /\ DOMAIN q = 1 .. Len(q)
  BY LenProperties
<1>2. \A i \in 1 .. n : q[i] \in S
  BY <1>1, ElementOfSeq
<1>3. /\ p \in Seq(S) /\ Len(p) = n
      /\ \A i \in 1 .. n : p[i] = q[i]
  BY <1>1, <1>2, SubSeqProperties
<1>4. \A i \in n + 1 .. Len(q) : q[i] \in S
  BY <1>1, ElementOfSeq
<1>5. /\ r \in Seq(S) /\ Len(r) = Len(q) - n
      /\ \A i \in 1 .. Len(q) - n : r[i] = q[n + i]
  <2>1. /\ r \in Seq(S)
        /\ Len(r) = IF n + 1 <= Len(q) THEN Len(q) - (n + 1) + 1 ELSE 0
        /\ \A i \in 1 .. Len(q) - (n + 1) + 1 : r[i] = q[n + 1 + i - 1]
    BY <1>1, <1>4, SubSeqProperties
  <2> QED
    BY <1>1, <2>1
<1>6. DOMAIN p = 1 .. n /\ DOMAIN r = 1 .. Len(q) - n
  BY <1>3, <1>5, LenProperties
<1> HIDE DEF p, r
<1>7. \A i, j \in 1 .. Len(q) : q[i] = q[j] => i = j
  BY <1>1 DEF IsInjective
<1>8. ToSet(p) = {q[i] : i \in 1 .. n}
  BY <1>3, <1>6 DEF ToSet
<1>9. ToSet(r) = {q[i] : i \in n + 1 .. Len(q)}
  <2>1. ASSUME NEW i \in n + 1 .. Len(q) PROVE q[i] \in ToSet(r)
    <3>1. i - n \in 1 .. Len(q) - n /\ n + (i - n) = i
      BY <1>1
    <3>2. r[i - n] = q[i]
      BY <1>5, <3>1
    <3> QED
      BY <1>6, <3>1, <3>2 DEF ToSet
  <2>2. ASSUME NEW i \in 1 .. Len(q) - n PROVE r[i] \in {q[j] : j \in n + 1 .. Len(q)}
    <3>1. n + i \in n + 1 .. Len(q)
      BY <1>1
    <3> QED
      BY <1>5, <3>1
  <2> QED
    BY <1>6, <2>1, <2>2 DEF ToSet
<1>10. ToSet(q) = ToSet(p) \union ToSet(r)
  <2>1. 1 .. Len(q) = (1 .. n) \union (n + 1 .. Len(q))
    BY <1>1
  <2>2. ToSet(q) = {q[i] : i \in 1 .. Len(q)}
    BY <1>1 DEF ToSet
  <2> QED
    BY <1>8, <1>9, <2>1, <2>2, Zenon
<1>11. ToSet(p) \intersect ToSet(r) = {}
  BY <1>1, <1>7, <1>8, <1>9
<1>12. IsInjective(r)
  BY <1>1, <1>5, <1>6, <1>7 DEF IsInjective
<1>13. IsFiniteSet(ToSet(p)) /\ Cardinality(ToSet(p)) = n
  <2> DEFINE f == [i \in 1 .. n |-> q[i]]
  <2>1. f \in Surjection(1 .. n, ToSet(p))
    BY <1>8 DEF Surjection
  <2>2. f \in Injection(1 .. n, ToSet(p))
    BY <1>1, <1>7, <2>1 DEF Injection, IsInjective, Surjection
  <2>3. IsFiniteSet(1 .. n) /\ Cardinality(1 .. n) = n
    BY <1>1, FS_Interval
  <2> QED
    BY <2>1, <2>2, <2>3, FS_Surjection
<1>14. r # <<>> => n < Len(q)
  <2>1. CASE n = Len(q)
    BY <1>1, <2>1, SubSeqEmpty DEF r
  <2>2. n = Len(q) \/ n < Len(q)
    <3>1. n \in Int /\ Len(q) \in Int
      BY <1>1
    <3> QED
      BY <1>1, <3>1, AtMost, Zenon
  <2> QED
    BY <2>1, <2>2, Zenon
<1> QED
  BY <1>5, <1>10, <1>11, <1>12, <1>13, <1>14 DEF p, r

\* Taking an opener out of a queue without repetitions.
LEMMA WithoutContents ==
    ASSUME NEW S, NEW q \in Seq(S), NEW o, IsInjective(q)
    PROVE  /\ IsInjective(Without(q, o))
           /\ ToSet(Without(q, o)) = ToSet(q) \ {o}
<1>1. CASE o \notin ToSet(q)
  BY <1>1 DEF Without
<1>2. CASE o \in ToSet(q)
  <2> DEFINE k == IndexOf(q, o)
             a == SubSeq(q, 1, k - 1)
             b == SubSeq(q, k + 1, Len(q))
  <2>1. Len(q) \in Nat /\ DOMAIN q = 1 .. Len(q)
    BY LenProperties
  <2>2. k \in 1 .. Len(q) /\ q[k] = o
    BY <2>1, <1>2 DEF IndexOf, ToSet
  <2> HIDE DEF k
  <2>3. \A i, j \in 1 .. Len(q) : q[i] = q[j] => i = j
    BY <2>1 DEF IsInjective
  <2>4. \A i \in 1 .. Len(q) : q[i] \in S
    BY ElementOfSeq
  <2>5. /\ a \in Seq(S) /\ Len(a) = k - 1
        /\ \A i \in 1 .. k - 1 : a[i] = q[i]
    <3>1. /\ k - 1 \in Int /\ 1 \in Int /\ \A i \in 1 .. k - 1 : q[i] \in S
      BY <2>1, <2>2, <2>4
    <3>2. /\ a \in Seq(S) /\ Len(a) = IF 1 <= k - 1 THEN k - 1 - 1 + 1 ELSE 0
          /\ \A i \in 1 .. k - 1 - 1 + 1 : a[i] = q[1 + i - 1]
      BY <3>1, SubSeqProperties
    <3> QED
      BY <2>1, <2>2, <3>2
  <2>6. /\ b \in Seq(S) /\ Len(b) = Len(q) - k
        /\ \A i \in 1 .. Len(q) - k : b[i] = q[k + i]
    <3>1. /\ k + 1 \in Int /\ Len(q) \in Int /\ \A i \in k + 1 .. Len(q) : q[i] \in S
      BY <2>1, <2>2, <2>4
    <3>2. /\ b \in Seq(S) /\ Len(b) = IF k + 1 <= Len(q) THEN Len(q) - (k + 1) + 1 ELSE 0
          /\ \A i \in 1 .. Len(q) - (k + 1) + 1 : b[i] = q[k + 1 + i - 1]
      BY <3>1, SubSeqProperties
    <3>3. k \in Int /\ k <= Len(q)
      BY <2>1, <2>2
    <3>4. Len(b) = Len(q) - k
      <4>1. k + 1 <= Len(q) \/ k = Len(q)
        <5>1. Len(q) \in Int
          BY <2>1
        <5> QED
          BY <3>3, <5>1, AtMost, Zenon
      <4>2. CASE k + 1 <= Len(q)
        BY <2>1, <3>2, <3>3, <4>2
      <4>3. CASE k = Len(q)
        <5>1. ~(k + 1 <= k) /\ k - k = 0
          BY <3>3
        <5> QED
          BY <3>2, <4>3, <5>1
      <4> QED
        BY <4>1, <4>2, <4>3
    <3>5. \A i \in 1 .. Len(q) - k : b[i] = q[k + i]
      BY <2>1, <3>2, <3>3
    <3> QED
      BY <3>2, <3>4, <3>5
  <2> DEFINE s == a \o b
  <2>7. s = Without(q, o)
    BY <1>2 DEF Without, RemoveAt, k
  <2> HIDE DEF a, b
  <2>8. /\ s \in Seq(S) /\ Len(s) = Len(q) - 1 /\ DOMAIN s = 1 .. Len(q) - 1
        /\ \A i \in 1 .. k - 1 : s[i] = a[i]
        /\ \A i \in k .. Len(q) - 1 : s[i] = b[i - (k - 1)]
    <3>1. /\ s \in Seq(S) /\ Len(s) = Len(a) + Len(b)
          /\ \A i \in 1 .. Len(a) + Len(b) :
                s[i] = IF i <= Len(a) THEN a[i] ELSE b[i - Len(a)]
      BY <2>5, <2>6, ConcatProperties
    <3>2. DOMAIN s = 1 .. Len(s)
      BY <3>1, LenProperties
    <3> QED
      BY <2>1, <2>2, <2>5, <2>6, <3>1, <3>2
  <2> HIDE DEF s
  <2>9. \A i \in 1 .. Len(q) - 1 : s[i] = q[IF i < k THEN i ELSE i + 1]
    <3> SUFFICES ASSUME NEW i \in 1 .. Len(q) - 1
                 PROVE  s[i] = q[IF i < k THEN i ELSE i + 1]
      OBVIOUS
    <3>1. CASE i < k
      <4>1. i \in 1 .. k - 1
        BY <2>1, <2>2, <3>1
      <4> QED
        BY <2>5, <2>8, <3>1, <4>1
    <3>2. CASE ~(i < k)
      <4>1. /\ i \in k .. Len(q) - 1 /\ i - (k - 1) \in 1 .. Len(q) - k
            /\ k + (i - (k - 1)) = i + 1
        BY <2>1, <2>2, <3>2
      <4>2. s[i] = b[i - (k - 1)] /\ b[i - (k - 1)] = q[k + (i - (k - 1))]
        BY <2>6, <2>8, <4>1
      <4> QED
        BY <3>2, <4>1, <4>2
    <3> QED
      BY <3>1, <3>2
  <2>10. IsInjective(s)
    <3> SUFFICES ASSUME NEW i \in 1 .. Len(q) - 1, NEW j \in 1 .. Len(q) - 1, s[i] = s[j]
                 PROVE  i = j
      BY <2>8 DEF IsInjective
    <3> DEFINE at(m) == IF m < k THEN m ELSE m + 1
    <3>1. at(i) \in 1 .. Len(q) /\ at(j) \in 1 .. Len(q)
      BY <2>1, <2>2
    <3>2. at(i) = at(j)
      BY <2>3, <2>9, <3>1
    <3>3. i \in Int /\ j \in Int /\ k \in Int
      BY <2>1, <2>2
    <3> QED
      BY <3>2, <3>3
  <2>11. ToSet(s) \subseteq ToSet(q) \ {o}
    <3> SUFFICES ASSUME NEW i \in 1 .. Len(q) - 1
                 PROVE  s[i] \in ToSet(q) /\ s[i] # o
      BY <2>8 DEF ToSet
    <3> DEFINE m == IF i < k THEN i ELSE i + 1
    <3>1. m \in 1 .. Len(q) /\ m # k /\ s[i] = q[m]
      BY <2>1, <2>2, <2>9
    <3> QED
      BY <2>1, <2>2, <2>3, <3>1 DEF ToSet
  <2>12. ToSet(q) \ {o} \subseteq ToSet(s)
    <3> SUFFICES ASSUME NEW i \in 1 .. Len(q), q[i] # o
                 PROVE  q[i] \in ToSet(s)
      BY <2>1 DEF ToSet
    <3> DEFINE m == IF i < k THEN i ELSE i - 1
    <3>1. m \in 1 .. Len(q) - 1 /\ (IF m < k THEN m ELSE m + 1) = i
      BY <2>1, <2>2
    <3>2. s[m] = q[i]
      BY <2>9, <3>1
    <3> QED
      BY <2>8, <3>1, <3>2 DEF ToSet
  <2> QED
    BY <2>7, <2>10, <2>11, <2>12
<1> QED
  BY <1>1, <1>2

\* Appending an opener that is not in the queue.
LEMMA AppendExact ==
    ASSUME NEW S, NEW q \in Seq(S), NEW o \in S, IsInjective(q), o \notin ToSet(q)
    PROVE  /\ IsInjective(Append(q, o))
           /\ ToSet(Append(q, o)) = ToSet(q) \union {o}
<1>1. /\ Append(q, o) \in Seq(S) /\ Len(Append(q, o)) = Len(q) + 1
      /\ \A i \in 1 .. Len(q) : Append(q, o)[i] = q[i]
      /\ Append(q, o)[Len(q) + 1] = o
  BY AppendProperties
<1>2. /\ Len(q) \in Nat /\ DOMAIN q = 1 .. Len(q)
      /\ DOMAIN Append(q, o) = 1 .. Len(q) + 1
  BY <1>1, LenProperties
<1> QED
  BY <1>1, <1>2 DEF ToSet, IsInjective

-----------------------------------------------------------------------------
(* Counting *)

\* The budget and the counts are natural numbers.
LEMMA Counts ==
    ASSUME NEW ph
    PROVE  /\ dynamicBudget \in Nat /\ maxLong \in Nat
           /\ IsFiniteSet(At(ph, Live)) /\ IsFiniteSet(At(ph, Live) \intersect LongLived)
           /\ liveDynamicCount(ph) \in Nat /\ liveLongLivedCount(ph) \in Nat
<1>1. dynamicBudget \in Nat /\ maxLong \in Nat
  BY BudgetAssumption DEF dynamicBudget, maxLong
<1>2. IsFiniteSet(At(ph, Live)) /\ IsFiniteSet(At(ph, Live) \intersect LongLived)
  BY OpenersAssumption, FS_Subset DEF At
<1> QED
  BY <1>1, <1>2, FS_CardinalityType DEF liveDynamicCount, liveLongLivedCount

\* A disjoint union has as many elements as its parts together.
LEMMA DisjointUnion ==
    ASSUME NEW S, NEW T, IsFiniteSet(S), IsFiniteSet(T), S \intersect T = {}
    PROVE  /\ IsFiniteSet(S \union T)
           /\ Cardinality(S \union T) = Cardinality(S) + Cardinality(T)
<1>1. /\ IsFiniteSet(S \union T)
      /\ Cardinality(S \union T) = Cardinality(S) + Cardinality(T) - Cardinality(S \cap T)
  BY FS_Union
<1>2. Cardinality(S \cap T) = 0
  BY FS_EmptySet
<1>3. Cardinality(S) \in Nat /\ Cardinality(T) \in Nat
  BY FS_CardinalityType
<1> QED
  BY <1>1, <1>2, <1>3

\* Fewer live openers fit the budget as well.
LEMMA FewerFit ==
    ASSUME NEW ph, NEW after, Within(ph),
           At(after, Live) \subseteq At(ph, Live)
    PROVE  Within(after)
<1>1. IsFiniteSet(At(ph, Live)) /\ IsFiniteSet(At(ph, Live) \intersect LongLived)
  BY OpenersAssumption, FS_Subset DEF At
<1>2. /\ liveDynamicCount(after) <= liveDynamicCount(ph)
      /\ liveLongLivedCount(after) <= liveLongLivedCount(ph)
  BY <1>1, FS_Subset DEF liveDynamicCount, liveLongLivedCount
<1>3. /\ liveDynamicCount(after) \in Nat /\ liveDynamicCount(ph) \in Nat
      /\ liveLongLivedCount(after) \in Nat /\ liveLongLivedCount(ph) \in Nat
  BY <1>1, FS_Subset, FS_CardinalityType DEF liveDynamicCount, liveLongLivedCount
<1>4. dynamicBudget \in Nat /\ maxLong \in Nat
  BY BudgetAssumption DEF dynamicBudget, maxLong
<1> QED
  BY <1>2, <1>3, <1>4 DEF Within

\* A step that adds no live opener and leaves the waiting ones alone.
LEMMA GoodSame ==
    ASSUME NEW ph, NEW sq, NEW lq, Good(ph, sq, lq),
           NEW after \in [Openers -> Phases],
           At(after, Live) \subseteq At(ph, Live),
           \A o \in Openers : after[o] = "queued" <=> ph[o] = "queued"
    PROVE  Good(after, sq, lq)
<1>1. Within(after)
  BY FewerFit DEF Good
<1>2. ToSet(sq) \union ToSet(lq) \subseteq Openers
  <2>1. ToSet(sq) \subseteq ShortExecs /\ ToSet(lq) \subseteq LongLived
    BY LenProperties, ElementOfSeq DEF Good, ToSet
  <2> QED
    BY <2>1 DEF Openers, LongLived, Execs
<1>3. Exact(after, sq, lq)
  BY <1>2 DEF Good, Exact, Openers
<1> QED
  BY <1>1, <1>3 DEF Good

\* A step that empties the queues and ends the commands that wait.
LEMMA GoodEmpty ==
    ASSUME NEW ph, Within(ph), NEW after \in [Openers -> Phases],
           At(after, Live) \subseteq At(ph, Live),
           \A x \in Execs : after[x] # "queued"
    PROVE  Good(after, <<>>, <<>>)
<1>1. Within(after)
  BY FewerFit
<1>2. /\ <<>> \in Seq(ShortExecs) /\ <<>> \in Seq(LongLived)
      /\ Len(<<>>) = 0 /\ DOMAIN <<>> = 1 .. Len(<<>>)
  BY EmptySeq, LenProperties
<1>3. DOMAIN <<>> = {}
  BY <1>2
<1>4. ToSet(<<>>) = {} /\ IsInjective(<<>>)
  BY <1>3 DEF ToSet, IsInjective
<1> QED
  BY <1>1, <1>2, <1>4 DEF Good, Exact

\* An opener that ends leaves the queues.
LEMMA GoodGone ==
    ASSUME NEW ph, NEW sq, NEW lq, Good(ph, sq, lq), NEW o \in Openers
    PROVE  Good([ph EXCEPT ![o] = "gone"], Without(sq, o), Without(lq, o))
<1> DEFINE after == [ph EXCEPT ![o] = "gone"]
<1>1. /\ after \in [Openers -> Phases]
      /\ At(after, Live) \subseteq At(ph, Live)
      /\ after[o] = "gone" /\ \A other \in Openers \ {o} : after[other] = ph[other]
  BY DEF Good, Phases, At, Live, Asking, Held, Dead
<1> HIDE DEF after
<1>2. Within(after)
  BY <1>1, FewerFit DEF Good
<1>3. Without(sq, o) \in Seq(ShortExecs) /\ Without(lq, o) \in Seq(LongLived)
  BY WithoutType DEF Good
<1>4. /\ IsInjective(Without(sq, o)) /\ ToSet(Without(sq, o)) = ToSet(sq) \ {o}
      /\ IsInjective(Without(lq, o)) /\ ToSet(Without(lq, o)) = ToSet(lq) \ {o}
  BY WithoutContents DEF Good, Exact
<1>5. ToSet(sq) \union ToSet(lq) \subseteq Openers
  <2>1. ToSet(sq) \subseteq ShortExecs /\ ToSet(lq) \subseteq LongLived
    BY LenProperties, ElementOfSeq DEF Good, ToSet
  <2> QED
    BY <2>1 DEF Openers, LongLived, Execs
<1>6. Exact(after, Without(sq, o), Without(lq, o))
  BY <1>1, <1>4, <1>5 DEF Good, Exact, Openers
<1> QED
  BY <1>1, <1>2, <1>3, <1>6 DEF Good, after

\* A new opener joins the queue of its kind.
LEMMA GoodEnqueued ==
    ASSUME NEW ph, NEW sq, NEW lq, Good(ph, sq, lq),
           NEW o \in Openers, ph[o] = "new", NEW sq2, NEW lq2,
           \/ o \in ShortExecs /\ sq2 = Append(sq, o) /\ lq2 = lq
           \/ o \in LongLived /\ sq2 = sq /\ lq2 = Append(lq, o)
    PROVE  Good([ph EXCEPT ![o] = "queued"], sq2, lq2)
<1> DEFINE after == [ph EXCEPT ![o] = "queued"]
<1>1. /\ after \in [Openers -> Phases]
      /\ At(after, Live) \subseteq At(ph, Live)
      /\ after[o] = "queued" /\ \A other \in Openers \ {o} : after[other] = ph[other]
  BY DEF Good, Phases, At, Live, Asking, Held, Dead
<1> HIDE DEF after
<1>2. Within(after)
  BY <1>1, FewerFit DEF Good
<1>3. o \notin ToSet(sq) /\ o \notin ToSet(lq)
  BY DEF Good, Exact
<1>4. ToSet(sq) \union ToSet(lq) \subseteq Openers
  <2>1. ToSet(sq) \subseteq ShortExecs /\ ToSet(lq) \subseteq LongLived
    BY LenProperties, ElementOfSeq DEF Good, ToSet
  <2> QED
    BY <2>1 DEF Openers, LongLived, Execs
<1>5. /\ sq2 \in Seq(ShortExecs) /\ lq2 \in Seq(LongLived)
      /\ IsInjective(sq2) /\ IsInjective(lq2)
      /\ ToSet(sq2) \union ToSet(lq2) = ToSet(sq) \union ToSet(lq) \union {o}
  <2>1. CASE o \in ShortExecs /\ sq2 = Append(sq, o) /\ lq2 = lq
    <3>1. IsInjective(sq2) /\ ToSet(sq2) = ToSet(sq) \union {o}
      BY <1>3, <2>1, AppendExact DEF Good, Exact
    <3> QED
      BY <2>1, <3>1, AppendProperties DEF Good, Exact
  <2>2. CASE o \in LongLived /\ sq2 = sq /\ lq2 = Append(lq, o)
    <3>1. IsInjective(lq2) /\ ToSet(lq2) = ToSet(lq) \union {o}
      BY <1>3, <2>2, AppendExact DEF Good, Exact
    <3> QED
      BY <2>2, <3>1, AppendProperties DEF Good, Exact
  <2> QED
    BY <2>1, <2>2
<1>6. Exact(after, sq2, lq2)
  BY <1>1, <1>4, <1>5 DEF Good, Exact, Openers
<1> QED
  BY <1>1, <1>2, <1>5, <1>6 DEF Good, after

\* What a sweep may touch.
LEMMA SweepParts ==
    ASSUME NEW ph, NEW V, NEW w \in Sweeps(ph, V)
    PROVE  /\ w.ended \subseteq At(ph, Asking \union Held)
           /\ w.refused \subseteq At(ph, Asking) /\ w.granted \subseteq At(ph, Asking)
           /\ \A o \in w.started : ph[o] = "setup"
  BY DEF Sweeps

\* A sweep adds no live opener and leaves the waiting ones alone.
LEMMA GoodSwept ==
    ASSUME NEW ph, NEW sq, NEW lq, Good(ph, sq, lq),
           NEW V \in SUBSET Openers, NEW w \in Sweeps(ph, V)
    PROVE  Good(Swept(ph, w), sq, lq)
<1>1. /\ w.ended \subseteq At(ph, Asking \union Held)
      /\ w.refused \subseteq At(ph, Asking) /\ w.granted \subseteq At(ph, Asking)
      /\ \A o \in w.started : ph[o] = "setup"
  BY SweepParts
<1>2. Swept(ph, w) \in [Openers -> Phases]
  BY DEF Good, Swept, Phases, Live, Held
<1>3. At(Swept(ph, w), Live) \subseteq At(ph, Live)
  BY <1>1 DEF Swept, At, Live, Asking, Held, Dead
<1>4. \A o \in Openers : Swept(ph, w)[o] = "queued" <=> ph[o] = "queued"
  BY <1>1 DEF Swept, At, Asking, Held
<1> QED
  BY <1>2, <1>3, <1>4, GoodSame

\* admitPending lets in no more than fit, takes them off the queues, and leaves
\* no opener waiting for a free slot.
LEMMA AdmitGood ==
    ASSUME NEW after, NEW sq, NEW lq, Good(after, sq, lq),
           admitPending(after, sq, lq)
    PROVE  /\ Good(phase', shortQueue', longQueue')
           /\ Full(phase', shortQueue', longQueue')
           /\ HandedOut(after, sq, lq)
<1> DEFINE n == admittedShort(after, sq)
           m == admittedLong(after, sq, lq)
           short == ToSet(SubSeq(sq, 1, n))
           long == ToSet(SubSeq(lq, 1, m))
           shortRest == SubSeq(sq, n + 1, Len(sq))
           longRest == SubSeq(lq, m + 1, Len(lq))
           live == At(after, Live)
           longLive == live \intersect LongLived
           free == dynamicBudget - liveDynamicCount(after)
           freeLong == maxLong - liveLongLivedCount(after)
<1>0. /\ sq \in Seq(ShortExecs) /\ lq \in Seq(LongLived)
      /\ after \in [Openers -> Phases] /\ Within(after) /\ Exact(after, sq, lq)
  BY DEF Good
<1>1. /\ phase' = [o \in Openers |-> IF o \in short \union long THEN "opening" ELSE after[o]]
      /\ shortQueue' = shortRest
      /\ longQueue' = longRest
  BY DEF admitPending
<1>2. /\ dynamicBudget \in Nat /\ maxLong \in Nat
      /\ IsFiniteSet(live) /\ IsFiniteSet(longLive)
      /\ liveDynamicCount(after) \in Nat /\ liveLongLivedCount(after) \in Nat
  BY Counts
<1>3. Len(sq) \in Nat /\ Len(lq) \in Nat
  BY <1>0, LenProperties
<1>4. free \in Nat /\ freeLong \in Nat
  BY <1>0, <1>2 DEF Within
<1>5. AtLeastZero(free) = free /\ AtLeastZero(freeLong) = freeLong
  BY <1>4 DEF AtLeastZero
<1>6. n = Min({Len(sq), free})
  BY <1>5 DEF admittedShort
<1>7. m = Min({Len(lq), AtLeastZero(free - n), freeLong})
  BY <1>5 DEF admittedLong
<1> HIDE DEF n, m, free, freeLong
<1>8. n \in 0 .. Len(sq) /\ n <= free /\ (n = Len(sq) \/ n = free)
  <2>1. Len(sq) \in Int /\ free \in Int
    BY <1>3, <1>4
  <2>2. n \in {Len(sq), free} /\ n <= Len(sq) /\ n <= free
    BY <1>6, <2>1, MinTwo, Zenon
  <2> QED
    BY <1>3, <1>4, <2>2
<1>9. /\ m \in 0 .. Len(lq) /\ m <= free - n /\ m <= freeLong
      /\ m = Len(lq) \/ m = free - n \/ m = freeLong
  <2> DEFINE left == free - n
  <2>1. left \in Nat /\ AtLeastZero(left) = left
    BY <1>4, <1>8 DEF AtLeastZero
  <2>2. m = Min({Len(lq), left, freeLong})
    BY <1>7, <2>1
  <2> HIDE DEF left
  <2>3. Len(lq) \in Int /\ left \in Int /\ freeLong \in Int
    BY <1>3, <1>4, <2>1
  <2>4. m \in {Len(lq), left, freeLong} /\ m <= Len(lq) /\ m <= left /\ m <= freeLong
    BY <2>2, <2>3, MinThree, Zenon
  <2>5. /\ m \in 0 .. Len(lq) /\ m <= left /\ m <= freeLong
        /\ m = Len(lq) \/ m = left \/ m = freeLong
    BY <1>3, <1>4, <2>1, <2>4
  <2> QED
    BY <2>5 DEF left
<1>10. /\ shortRest \in Seq(ShortExecs) /\ IsFiniteSet(short) /\ Cardinality(short) = n
       /\ ToSet(sq) = short \union ToSet(shortRest)
       /\ short \intersect ToSet(shortRest) = {}
       /\ IsInjective(shortRest) /\ (shortRest # <<>> => n < Len(sq))
  BY <1>0, <1>8, CutContents DEF Exact
<1>11. /\ longRest \in Seq(LongLived) /\ IsFiniteSet(long) /\ Cardinality(long) = m
       /\ ToSet(lq) = long \union ToSet(longRest)
       /\ long \intersect ToSet(longRest) = {}
       /\ IsInjective(longRest) /\ (longRest # <<>> => m < Len(lq))
  BY <1>0, <1>9, CutContents DEF Exact
<1>12. /\ ToSet(sq) \subseteq ShortExecs /\ ToSet(lq) \subseteq LongLived
       /\ ShortExecs \intersect LongLived = {}
       /\ ShortExecs \subseteq Openers /\ LongLived \subseteq Openers
  <2>1. ToSet(sq) \subseteq ShortExecs /\ ToSet(lq) \subseteq LongLived
    BY <1>0, LenProperties, ElementOfSeq DEF ToSet
  <2> QED
    BY <2>1, OpenersAssumption DEF LongLived, Execs, Openers
<1>13. \A o \in short \union long : after[o] = "queued"
  BY <1>0, <1>10, <1>11 DEF Exact
<1> HIDE DEF short, long, shortRest, longRest
<1>14. phase' \in [Openers -> Phases]
  BY <1>0, <1>1 DEF Phases, Live, Asking
<1>15. /\ At(phase', Live) = live \union (short \union long)
       /\ live \intersect (short \union long) = {}
  BY <1>1, <1>10, <1>11, <1>12, <1>13 DEF At, Live, Asking, Held, Dead
<1>16. /\ At(phase', Live) \intersect LongLived = longLive \union long
       /\ longLive \intersect long = {}
       /\ short \intersect long = {}
  BY <1>10, <1>11, <1>12, <1>15
<1> HIDE DEF live, longLive
<1>17. liveDynamicCount(phase') = liveDynamicCount(after) + n + m
  <2>1. /\ IsFiniteSet(short \union long)
        /\ Cardinality(short \union long) = n + m
    BY <1>10, <1>11, <1>16, DisjointUnion
  <2>2. Cardinality(live \union (short \union long)) = Cardinality(live) + (n + m)
    BY <1>2, <1>15, <2>1, DisjointUnion
  <2>3. Cardinality(live) = liveDynamicCount(after)
    BY DEF liveDynamicCount, live
  <2> QED
    BY <1>2, <1>3, <1>8, <1>9, <1>15, <2>2, <2>3 DEF liveDynamicCount
<1>18. liveLongLivedCount(phase') = liveLongLivedCount(after) + m
  <2>1. Cardinality(longLive \union long) = Cardinality(longLive) + m
    BY <1>2, <1>11, <1>16, DisjointUnion
  <2>2. Cardinality(longLive) = liveLongLivedCount(after)
    BY DEF liveLongLivedCount, longLive, live
  <2> QED
    BY <1>16, <2>1, <2>2 DEF liveLongLivedCount
<1>19. /\ n \in Nat /\ m \in Nat
       /\ n + m <= dynamicBudget - liveDynamicCount(after)
       /\ m <= maxLong - liveLongLivedCount(after)
  BY <1>2, <1>3, <1>4, <1>8, <1>9 DEF free, freeLong
<1>20. Within(phase')
  BY <1>2, <1>17, <1>18, <1>19 DEF Within
<1>21. Exact(phase', shortRest, longRest)
  <2>1. \A o \in ToSet(shortRest) \union ToSet(longRest) :
           o \in Openers /\ o \notin short \union long /\ after[o] = "queued"
    BY <1>0, <1>10, <1>11, <1>12 DEF Exact
  <2>2. \A o \in ToSet(shortRest) \union ToSet(longRest) : phase'[o] = "queued"
    BY <1>1, <2>1
  <2>3. \A x \in Execs : phase'[x] = "queued"
                        => x \notin short \union long /\ after[x] = "queued"
    BY <1>1 DEF Openers
  <2>4. \A x \in Execs : phase'[x] = "queued"
                        => x \in ToSet(shortRest) \union ToSet(longRest)
    BY <1>0, <1>10, <1>11, <2>3 DEF Exact
  <2> QED
    BY <1>10, <1>11, <2>2, <2>4 DEF Exact
<1>22. n < Len(sq) => m = 0 /\ liveDynamicCount(phase') >= dynamicBudget
  <2> SUFFICES ASSUME n < Len(sq) PROVE m = 0 /\ liveDynamicCount(phase') >= dynamicBudget
    OBVIOUS
  <2>1. n = free
    BY <1>3, <1>8
  <2>2. m = 0
    BY <1>4, <1>9, <1>19, <2>1
  <2> QED
    BY <1>2, <1>17, <1>19, <2>1, <2>2 DEF free
<1>23. m < Len(lq) => \/ liveDynamicCount(phase') >= dynamicBudget
                      \/ liveLongLivedCount(phase') >= maxLong
  <2> SUFFICES ASSUME m < Len(lq)
               PROVE  \/ liveDynamicCount(phase') >= dynamicBudget
                      \/ liveLongLivedCount(phase') >= maxLong
    OBVIOUS
  <2>1. m = free - n \/ m = freeLong
    BY <1>3, <1>9
  <2> QED
    BY <1>2, <1>17, <1>18, <1>19, <2>1 DEF free, freeLong
<1>24. Full(phase', shortRest, longRest)
  BY <1>10, <1>11, <1>22, <1>23 DEF Full
<1>25. HandedOut(after, sq, lq)
  BY <1>1, <1>8, <1>9, <1>22, <1>23 DEF HandedOut, short, long, shortRest, longRest
<1> QED
  BY <1>1, <1>10, <1>11, <1>14, <1>20, <1>21, <1>24, <1>25 DEF Good

-----------------------------------------------------------------------------
(* The actions *)

\* The invariant in the next state, variable by variable.
LEMMA InvNext ==
    ASSUME session' \in {"idle", "connecting", "ready", "down"},
           Good(phase', shortQueue', longQueue'),
           session' = "ready" => Full(phase', shortQueue', longQueue'),
           timer' \in BOOLEAN, closing' \in BOOLEAN, connects' \in 0 .. MaxConnects
    PROVE  AdmissionInv'
<1>1. TypeOK'
  BY DEF TypeOK, Good
<1>2. Good(phase, shortQueue, longQueue)'
  BY DEF Good, Within, Exact, liveDynamicCount, liveLongLivedCount, At
<1>3. Full(phase, shortQueue, longQueue)' <=> Full(phase', shortQueue', longQueue')
  BY DEF Full, liveDynamicCount, liveLongLivedCount, At
<1> QED
  BY <1>1, <1>2, <1>3 DEF AdmissionInv

\* What every action reaches that ends in admitPending on a swept phase function.
LEMMA AdmitSwept ==
    ASSUME NEW ph, NEW sq, NEW lq, Good(ph, sq, lq),
           NEW V \in SUBSET Openers, NEW w \in Sweeps(ph, V),
           admitPending(Swept(ph, w), sq, lq)
    PROVE  /\ Good(phase', shortQueue', longQueue')
           /\ Full(phase', shortQueue', longQueue')
           /\ HandedOut(Swept(ph, w), sq, lq)
<1>1. Good(Swept(ph, w), sq, lq)
  BY GoodSwept
<1> QED
  BY <1>1, AdmitGood

\* Nothing is live or queued at the start.
LEMMA InitAdmission == Init => AdmissionInv
<1> SUFFICES ASSUME Init PROVE AdmissionInv
  OBVIOUS
<1>1. phase \in [Openers -> Phases] /\ connects \in 0 .. MaxConnects
  BY BudgetAssumption DEF Init, Phases
<1>2. At(phase, Live) = {} /\ At(phase, Live) \intersect LongLived = {}
  BY DEF Init, At, Live, Asking, Held, Dead
<1>3. liveDynamicCount(phase) = 0 /\ liveLongLivedCount(phase) = 0
  BY <1>2, FS_EmptySet DEF liveDynamicCount, liveLongLivedCount
<1>4. Within(phase)
  <2>1. dynamicBudget \in Nat /\ maxLong \in Nat
    BY Counts
  <2> QED
    BY <1>3, <2>1 DEF Within
<1>5. \A x \in Execs : phase[x] # "queued"
  BY DEF Init, Openers
<1>6. Good(phase, <<>>, <<>>)
  BY <1>1, <1>4, <1>5, GoodEmpty
<1> QED
  BY <1>1, <1>6, EmptySeq DEF Init, AdmissionInv, TypeOK

\* Losing the session empties the queues and ends every opener.
LEMMA LossKeeps == ASSUME AdmissionInv, enterConnectionLost PROVE AdmissionInv'
<1>1. /\ phase \in [Openers -> Phases] /\ Within(phase) /\ connects \in 0 .. MaxConnects
  BY DEF AdmissionInv, TypeOK, Good
<1>2. /\ phase' \in [Openers -> Phases]
      /\ At(phase', Live) \subseteq At(phase, Live)
      /\ \A x \in Execs : phase'[x] # "queued"
  BY <1>1 DEF enterConnectionLost, Phases, At, Live, Asking, Held, Dead, Openers
<1>3. Good(phase', <<>>, <<>>)
  BY <1>1, <1>2, GoodEmpty
<1> QED
  BY <1>1, <1>3, InvNext DEF enterConnectionLost

\* A request keeps the invariant.
LEMMA RequestsKeep == ASSUME AdmissionInv, Requests PROVE AdmissionInv'
<1>0. /\ Good(phase, shortQueue, longQueue)
      /\ session = "ready" => Full(phase, shortQueue, longQueue)
      /\ phase \in [Openers -> Phases] /\ Within(phase)
      /\ session \in {"idle", "connecting", "ready", "down"}
      /\ shortQueue \in Seq(ShortExecs) /\ longQueue \in Seq(LongLived)
      /\ timer \in BOOLEAN /\ closing \in BOOLEAN /\ connects \in 0 .. MaxConnects
  BY DEF AdmissionInv, TypeOK, Good
<1>1. ASSUME NEW o \in Openers, RequestRefused(o) PROVE AdmissionInv'
  <2>1. /\ phase' \in [Openers -> Phases]
        /\ At(phase', Live) \subseteq At(phase, Live)
        /\ \A other \in Openers : phase'[other] = "queued" <=> phase[other] = "queued"
    BY <1>0, <1>1 DEF RequestRefused, Phases, At, Live, Asking, Held, Dead
  <2>2. Good(phase', shortQueue, longQueue)
    BY <1>0, <2>1, GoodSame
  <2> QED
    BY <1>0, <1>1, <2>2, InvNext DEF RequestRefused
<1>2. ASSUME NEW p \in Ptys, requestOpenChannel(p) PROVE AdmissionInv'
  <2> DEFINE ph == [phase EXCEPT ![p] = "queued"]
             lq == Append(longQueue, p)
  <2>1. p \in Openers /\ p \in LongLived /\ phase[p] = "new"
    BY <1>2 DEF requestOpenChannel, Openers, LongLived
  <2>2. Good(ph, shortQueue, lq)
    BY <1>0, <2>1, GoodEnqueued
  <2> HIDE DEF ph, lq
  <2>3. CASE session = "ready" /\ pump(ph, shortQueue, lq)
    <3>1. PICK w \in Sweeps(ph, Openers) :
             /\ admitPending(Swept(ph, w), shortQueue, lq)
             /\ closing' \in BOOLEAN
             /\ timer' = (timer \/ w.refused # {} \/ closing')
      BY <2>3 DEF pump
    <3>2. /\ Good(phase', shortQueue', longQueue')
          /\ Full(phase', shortQueue', longQueue')
      BY <2>2, <3>1, AdmitSwept
    <3> QED
      BY <1>0, <1>2, <3>1, <3>2, InvNext DEF requestOpenChannel
  <2>4. CASE session # "ready" /\ phase' = ph /\ longQueue' = lq
             /\ UNCHANGED <<shortQueue, timer, closing>>
    BY <1>0, <1>2, <2>2, <2>4, InvNext DEF requestOpenChannel
  <2> QED
    BY <1>2, <2>3, <2>4 DEF requestOpenChannel, ph, lq
<1>3. ASSUME NEW x \in Execs, requestExec(x) PROVE AdmissionInv'
  <2> DEFINE ph == [phase EXCEPT ![x] = "queued"]
             sq == Enqueue(x).short
             lq == Enqueue(x).long
  <2>1. x \in Openers /\ phase[x] = "new"
    BY <1>3 DEF requestExec, Openers
  <2>2. \/ x \in ShortExecs /\ sq = Append(shortQueue, x) /\ lq = longQueue
        \/ x \in LongLived /\ sq = shortQueue /\ lq = Append(longQueue, x)
    BY DEF Enqueue, LongLived, Execs
  <2> HIDE DEF sq, lq
  <2>3. Good(ph, sq, lq)
    BY <1>0, <2>1, <2>2, GoodEnqueued
  <2> HIDE DEF ph
  <2>4. CASE session = "ready" /\ serviceExec(ph, sq, lq)
    <3>1. PICK w \in Sweeps(ph, Execs) :
             /\ admitPending(Swept(ph, w), sq, lq)
             /\ closing' \in BOOLEAN
             /\ timer' = (timer \/ w.refused # {})
      BY <2>4 DEF serviceExec
    <3>2. Execs \in SUBSET Openers
      BY DEF Openers
    <3>3. /\ Good(phase', shortQueue', longQueue')
          /\ Full(phase', shortQueue', longQueue')
      BY <2>3, <3>1, <3>2, AdmitSwept
    <3> QED
      BY <1>0, <1>3, <3>1, <3>3, InvNext DEF requestExec
  <2>5. CASE session # "ready" /\ phase' = ph /\ shortQueue' = sq /\ longQueue' = lq
             /\ UNCHANGED <<timer, closing>>
    BY <1>0, <1>3, <2>3, <2>5, InvNext DEF requestExec
  <2> QED
    BY <1>3, <2>4, <2>5 DEF requestExec, ph, sq, lq
<1>4. ASSUME NEW x \in Execs, requestExecCancel(x) PROVE AdmissionInv'
  <2> DEFINE ph == [phase EXCEPT ![x] = "gone"]
             sq == Without(shortQueue, x)
             lq == Without(longQueue, x)
  <2>1. Good(ph, sq, lq)
    BY <1>0, GoodGone DEF Openers
  <2> HIDE DEF ph, sq, lq
  <2>2. \/ session = "ready" /\ admitPending(ph, sq, lq)
        \/ session # "ready" /\ phase' = ph /\ shortQueue' = sq /\ longQueue' = lq
    BY <1>4 DEF requestExecCancel, ph, sq, lq
  <2>3. /\ Good(phase', shortQueue', longQueue')
        /\ session = "ready" => Full(phase', shortQueue', longQueue')
    BY <2>1, <2>2, AdmitGood
  <2> QED
    BY <1>0, <1>4, <2>3, InvNext DEF requestExecCancel
<1>5. ASSUME NEW p \in Ptys, requestCloseChannel(p) PROVE AdmissionInv'
  <2> DEFINE ph == [phase EXCEPT ![p] = "gone"]
             lq == Without(longQueue, p)
             V == Openers \ {q \in Ptys : ph[q] = "open"}
  <2>1. p \notin ToSet(shortQueue)
    <3>1. ToSet(shortQueue) \subseteq ShortExecs
      BY <1>0, LenProperties, ElementOfSeq DEF ToSet
    <3> QED
      BY <3>1, OpenersAssumption DEF Execs
  <2>2. Good(ph, shortQueue, lq)
    <3>1. Good(ph, Without(shortQueue, p), lq)
      BY <1>0, GoodGone DEF Openers
    <3> QED
      BY <2>1, <3>1 DEF Without
  <2> HIDE DEF ph, lq, V
  <2>3. CASE /\ session = "ready"
             /\ \E w \in Sweeps(ph, V) :
                   /\ admitPending(Swept(ph, w), shortQueue, lq)
                   /\ closing' \in BOOLEAN
                   /\ timer' = (timer \/ w.refused # {} \/ closing')
    <3>1. V \in SUBSET Openers
      BY DEF V
    <3>2. /\ Good(phase', shortQueue', longQueue')
          /\ Full(phase', shortQueue', longQueue')
      BY <2>2, <2>3, <3>1, AdmitSwept
    <3> QED
      BY <1>0, <1>5, <2>3, <3>2, InvNext DEF requestCloseChannel
  <2>4. CASE session # "ready" /\ phase' = ph /\ longQueue' = lq
             /\ UNCHANGED <<shortQueue, timer, closing>>
    BY <1>0, <1>5, <2>2, <2>4, InvNext DEF requestCloseChannel
  <2> QED
    BY <1>5, <2>3, <2>4 DEF requestCloseChannel, ph, lq, V
<1>6. CASE requestExecWrite
  <2>1. PICK w \in Sweeps(phase, Execs) :
           /\ admitPending(Swept(phase, w), shortQueue, longQueue)
           /\ closing' \in BOOLEAN
           /\ timer' = (timer \/ w.refused # {})
    BY <1>6 DEF requestExecWrite, serviceExec
  <2>2. Execs \in SUBSET Openers
    BY DEF Openers
  <2>3. /\ Good(phase', shortQueue', longQueue')
        /\ Full(phase', shortQueue', longQueue')
    BY <1>0, <2>1, <2>2, AdmitSwept
  <2> QED
    BY <1>0, <1>6, <2>1, <2>3, InvNext DEF requestExecWrite
<1>7. CASE startConnect
  <2>1. connects' \in 0 .. MaxConnects
    BY <1>0, <1>7, BudgetAssumption DEF startConnect
  <2> QED
    BY <1>0, <1>7, <2>1, InvNext DEF startConnect
<1>8. CASE requestDisconnect
  <2>1. /\ phase' \in [Openers -> Phases]
        /\ At(phase', Live) \subseteq At(phase, Live)
        /\ \A x \in Execs : phase'[x] # "queued"
    <3>1. Execs \subseteq Openers /\ Execs \intersect Ptys = {}
      BY OpenersAssumption DEF Openers
    <3> QED
      BY <1>0, <1>8, <3>1 DEF requestDisconnect, Phases, At, Live, Asking, Held, Dead
  <2>2. Good(phase', <<>>, <<>>)
    BY <1>0, <2>1, GoodEmpty
  <2> QED
    BY <1>0, <1>8, <2>2, InvNext DEF requestDisconnect
<1>9. CASE WriteToDead
  BY <1>9, LossKeeps DEF WriteToDead
<1> QED
  BY <1>1, <1>2, <1>3, <1>4, <1>5, <1>6, <1>7, <1>8, <1>9 DEF Requests

\* An event keeps the invariant.
LEMMA EventsKeep == ASSUME AdmissionInv, Events PROVE AdmissionInv'
<1>0. /\ Good(phase, shortQueue, longQueue)
      /\ session = "ready" => Full(phase, shortQueue, longQueue)
      /\ phase \in [Openers -> Phases]
      /\ session \in {"idle", "connecting", "ready", "down"}
      /\ timer \in BOOLEAN /\ closing \in BOOLEAN /\ connects \in 0 .. MaxConnects
  BY DEF AdmissionInv, TypeOK, Good
<1>1. CASE Connected
  <2>1. PICK w \in Sweeps(phase, Openers) :
           /\ admitPending([o \in Openers |-> IF phase[o] = "deadsetup" THEN "gone"
                                              ELSE Swept(phase, w)[o]],
                           shortQueue, longQueue)
           /\ timer' = (w.refused # {})
    BY <1>1 DEF Connected
  <2> DEFINE swept == Swept(phase, w)
             after == [o \in Openers |-> IF phase[o] = "deadsetup" THEN "gone"
                                         ELSE swept[o]]
  <2>2. Good(swept, shortQueue, longQueue)
    BY <1>0, GoodSwept
  <2>3. \A o \in Openers : phase[o] = "deadsetup" => swept[o] # "queued"
    BY DEF Swept
  <2> HIDE DEF swept
  <2>4. /\ after \in [Openers -> Phases]
        /\ At(after, Live) \subseteq At(swept, Live)
        /\ \A o \in Openers : after[o] = "queued" <=> swept[o] = "queued"
    BY <2>2, <2>3 DEF Good, Phases, At, Live, Asking, Held, Dead
  <2> HIDE DEF after
  <2>5. Good(after, shortQueue, longQueue)
    BY <2>2, <2>4, GoodSame
  <2>6. admitPending(after, shortQueue, longQueue)
    BY <2>1 DEF after, swept
  <2>7. /\ Good(phase', shortQueue', longQueue')
        /\ Full(phase', shortQueue', longQueue')
    BY <2>5, <2>6, AdmitGood
  <2> QED
    BY <1>0, <1>1, <2>1, <2>7, InvNext DEF Connected
<1>2. CASE Lost
  BY <1>2, LossKeeps DEF Lost
<1>3. CASE SocketActivity
  <2>1. PICK w \in Sweeps(phase, Openers) : SocketSweep(w)
    BY <1>3 DEF SocketActivity
  <2>2. /\ Good(phase', shortQueue', longQueue')
        /\ Full(phase', shortQueue', longQueue')
    BY <1>0, <2>1, AdmitSwept DEF SocketSweep
  <2> QED
    BY <1>0, <2>1, <2>2, InvNext DEF SocketSweep
<1>4. CASE TickRetries
  <2> DEFINE V == Openers \ {p \in Ptys : phase[p] = "open"}
  <2>1. PICK w \in Sweeps(phase, V) :
           /\ admitPending(Swept(phase, w), shortQueue, longQueue)
           /\ KeepTicking(WithChannel(phase, w.ended))
    BY <1>4 DEF TickRetries
  <2>2. V \in SUBSET Openers
    OBVIOUS
  <2> HIDE DEF V
  <2>3. /\ Good(phase', shortQueue', longQueue')
        /\ Full(phase', shortQueue', longQueue')
    BY <1>0, <2>1, <2>2, AdmitSwept
  <2> QED
    BY <1>0, <2>1, <2>3, InvNext DEF KeepTicking
<1>5. CASE TickIdle
  BY <1>0, <1>5, InvNext DEF TickIdle, KeepTicking
<1>6. ASSUME NEW o \in Openers, BackoffElapsed(o) PROVE AdmissionInv'
  <2>1. /\ phase' \in [Openers -> Phases]
        /\ At(phase', Live) = At(phase, Live)
        /\ \A other \in Openers : phase'[other] = "queued" <=> phase[other] = "queued"
    BY <1>0, <1>6 DEF BackoffElapsed, Phases, At, Live, Asking, Held, Dead
  <2>2. Good(phase', shortQueue, longQueue)
    BY <1>0, <2>1, GoodSame
  <2>3. session = "ready" => Full(phase', shortQueue, longQueue)
    BY <1>0, <2>1 DEF Full, liveDynamicCount, liveLongLivedCount
  <2> QED
    BY <1>0, <1>6, <2>2, <2>3, InvNext DEF BackoffElapsed
<1> QED
  BY <1>1, <1>2, <1>3, <1>4, <1>5, <1>6 DEF Events

\* Every step keeps the invariant.
LEMMA NextAdmission == AdmissionInv /\ [Next]_vars => AdmissionInv'
<1>1. ASSUME AdmissionInv, Next PROVE AdmissionInv'
  BY <1>1, RequestsKeep, EventsKeep DEF Next
<1>2. ASSUME AdmissionInv, UNCHANGED vars PROVE AdmissionInv'
  BY <1>2, InvNext DEF AdmissionInv, TypeOK, vars
<1> QED
  BY <1>1, <1>2

-----------------------------------------------------------------------------
(* The service that Admission promises *)

ServiceStep == Service!Next \/ UNCHANGED <<session = "ready", Standing(phase), shortQueue, longQueue>>

\* The library's operators are the same on both sides.
LEMMA SameLibrary ==
    /\ \A S : Service!Cardinality(S) = Cardinality(S)
    /\ \A q : Service!ToSet(q) = ToSet(q)
    /\ \A q, i : Service!RemoveAt(q, i) = RemoveAt(q, i)
<1>1. \A S : Service!Cardinality(S) = Cardinality(S)
  BY DEF Service!Cardinality, Cardinality
<1>2. \A q : Service!ToSet(q) = ToSet(q)
  BY DEF Service!ToSet, ToSet
<1>3. \A q, i : Service!RemoveAt(q, i) = RemoveAt(q, i)
  BY DEF Service!RemoveAt, RemoveAt
<1> QED
  BY <1>1, <1>2, <1>3

\* Clients and those inside, in the worker's terms.
LEMMA ClientsAre == Service!Clients = Openers
  BY DEF Service!Clients, Openers, LongLived, Execs

LEMMA InsideAre ==
    ASSUME NEW ph \in [Openers -> Phases]
    PROVE  Service!Inside(Standing(ph)) = At(ph, Live)
<1>1. \A o \in Openers : Standing(ph)[o] = "inside" <=> ph[o] \in Live
  BY DEF Standing, Phases, Live, Asking, Held, Dead
<1> QED
  BY <1>1, ClientsAre DEF Service!Inside, At

\* The places are counted as the worker counts its channels.
LEMMA CountsAre ==
    ASSUME NEW ph \in [Openers -> Phases]
    PROVE  /\ Service!Crowded(Standing(ph)) <=> liveDynamicCount(ph) >= dynamicBudget
           /\ Service!LongCrowded(Standing(ph)) <=> liveLongLivedCount(ph) >= maxLong
           /\ Service!Fits(Standing(ph)) <=> Within(ph)
<1>1. Service!Inside(Standing(ph)) = At(ph, Live)
  BY InsideAre
<1>2. /\ Cardinality(Service!Inside(Standing(ph))) = liveDynamicCount(ph)
      /\ Cardinality(Service!Inside(Standing(ph)) \intersect LongLived) = liveLongLivedCount(ph)
  BY <1>1 DEF liveDynamicCount, liveLongLivedCount
<1> QED
  BY <1>2, SameLibrary DEF Service!Crowded, Service!LongCrowded, Service!Fits, Within

\* On a session that is up admitPending serves the lines.
LEMMA Serves ==
    ASSUME session' = "ready", NEW after \in [Openers -> Phases],
           NEW sq, NEW lq, NEW st, st = Standing(after),
           HandedOut(after, sq, lq), Good(phase', shortQueue', longQueue')
    PROVE  Service!Serve(st, sq, lq)
<1>1. PICK n \in 0 .. Len(sq), m \in 0 .. Len(lq) :
         /\ phase' = [o \in Openers |->
                       IF o \in ToSet(SubSeq(sq, 1, n)) \union ToSet(SubSeq(lq, 1, m))
                         THEN "opening" ELSE after[o]]
         /\ shortQueue' = SubSeq(sq, n + 1, Len(sq))
         /\ longQueue' = SubSeq(lq, m + 1, Len(lq))
         /\ n < Len(sq) => m = 0 /\ liveDynamicCount(phase') >= dynamicBudget
         /\ m < Len(lq) => \/ liveDynamicCount(phase') >= dynamicBudget
                           \/ liveLongLivedCount(phase') >= maxLong
  BY DEF HandedOut
<1> DEFINE taken == ToSet(SubSeq(sq, 1, n)) \union ToSet(SubSeq(lq, 1, m))
<1>2. phase' = [o \in Openers |-> IF o \in taken THEN "opening" ELSE after[o]]
  BY <1>1
<1> HIDE DEF taken
<1>3. Standing(phase') = [c \in Service!Clients |-> IF c \in taken THEN "inside" ELSE st[c]]
  BY <1>2, ClientsAre DEF Standing
<1>4. phase' \in [Openers -> Phases] /\ Within(phase')
  BY DEF Good
<1>5. /\ Service!Fits(Standing(phase'))
      /\ n < Len(sq) => m = 0 /\ Service!Crowded(Standing(phase'))
      /\ m < Len(lq) => \/ Service!Crowded(Standing(phase'))
                        \/ Service!LongCrowded(Standing(phase'))
  BY <1>1, <1>4, CountsAre
<1>6. Standing(phase)' = Standing(phase')
  BY DEF Standing
<1>7. Service!Admit(st, sq, lq)
  BY <1>1, <1>3, <1>5, <1>6, SameLibrary DEF Service!Admit, taken
<1> QED
  BY <1>7 DEF Service!Serve

\* Without a session nobody is served.
LEMMA ServesNobody ==
    ASSUME session' # "ready", NEW sq, NEW lq, NEW st, st = Standing(phase'),
           shortQueue' = sq, longQueue' = lq
    PROVE  Service!Serve(st, sq, lq)
<1>1. Standing(phase)' = Standing(phase')
  BY DEF Standing
<1> QED
  BY <1>1 DEF Service!Serve

\* A sweep sends those away that ended, and moves nobody else.
LEMMA SweptStanding ==
    ASSUME NEW ph \in [Openers -> Phases], NEW V \in SUBSET Openers,
           NEW w \in Sweeps(ph, V), Possible(w)
    PROVE  /\ w.ended \in SUBSET At(ph, Live)
           /\ Standing(Swept(ph, w)) =
                [o \in Openers |-> IF o \in w.ended THEN "gone" ELSE Standing(ph)[o]]
           /\ Swept(ph, w) \in [Openers -> Phases]
<1>1. /\ w.ended \subseteq At(ph, Asking \union Held)
      /\ w.refused \subseteq At(ph, Asking) /\ w.granted \subseteq At(ph, Asking)
      /\ \A o \in w.started : ph[o] = "setup"
  BY SweepParts
<1>2. w.ended \in SUBSET At(ph, Live)
  BY <1>1 DEF At, Live
<1>3. ASSUME NEW o \in Openers
      PROVE  Standing(Swept(ph, w))[o] = IF o \in w.ended THEN "gone" ELSE Standing(ph)[o]
  <2> DEFINE now == Swept(ph, w)[o]
  <2>1. /\ o \in w.ended => now = "gone"
        /\ o \notin w.ended => now = ph[o] \/ (now \in {"waiting", "setup", "open"} /\ ph[o] \in Asking \union Held)
    <3> DEFINE e == o \in w.ended
               r == o \in w.refused
               g == o \in w.granted
               t == o \in w.started
    <3>1. now = CASE e -> "gone" [] r -> "waiting" [] g -> "setup" [] t -> "open" [] OTHER -> ph[o]
      BY DEF Swept
    <3>2. r \/ g \/ t => ph[o] \in Asking \union Held /\ ~e
      BY <1>1 DEF At, Held, Possible
    <3> HIDE DEF now, e, r, g, t
    <3> QED
      BY <3>1, <3>2 DEF e
  <2>2. Standing(Swept(ph, w))[o] = CASE now = "new" -> "new" [] now = "queued" -> "waiting"
                                      [] now = "gone" -> "gone" [] OTHER -> "inside"
    BY DEF Standing
  <2>3. Standing(ph)[o] = CASE ph[o] = "new" -> "new" [] ph[o] = "queued" -> "waiting"
                            [] ph[o] = "gone" -> "gone" [] OTHER -> "inside"
    BY DEF Standing
  <2> HIDE DEF now
  <2> QED
    BY <2>1, <2>2, <2>3 DEF Asking, Held
<1>4. Standing(Swept(ph, w)) = [o \in Openers |-> Standing(Swept(ph, w))[o]]
  BY DEF Standing
<1>5. Swept(ph, w) \in [Openers -> Phases]
  BY DEF Swept, Phases, Live, Held
<1> QED
  BY <1>2, <1>3, <1>4, <1>5

\* The three kinds of a turn: clients leave, one comes, one gives up.
LEMMA SomeLeave ==
    ASSUME phase \in [Openers -> Phases], session = "ready" => session' = "ready",
           NEW L \in SUBSET At(phase, Live), NEW st,
           st = [o \in Openers |-> IF o \in L THEN "gone" ELSE Standing(phase)[o]],
           Service!Serve(st, shortQueue, longQueue)
    PROVE  ServiceStep
<1>1. L \in SUBSET Service!Inside(Standing(phase))
  BY InsideAre
<1>2. st = Service!Left(Standing(phase), L)
  BY ClientsAre DEF Service!Left
<1>3. Service!Turn
  BY <1>1, <1>2 DEF Service!Turn
<1> QED
  BY <1>3 DEF ServiceStep, Service!Next

LEMMA OneComes ==
    ASSUME phase \in [Openers -> Phases], session = "ready" => session' = "ready",
           NEW L \in SUBSET At(phase, Live), NEW c \in Openers, phase[c] = "new",
           NEW st, NEW sq, NEW lq,
           st = [o \in Openers |-> IF o = c THEN "waiting"
                                   ELSE IF o \in L THEN "gone" ELSE Standing(phase)[o]],
           sq = IF c \in ShortExecs THEN Append(shortQueue, c) ELSE shortQueue,
           lq = IF c \in LongLived THEN Append(longQueue, c) ELSE longQueue,
           Service!Serve(st, sq, lq)
    PROVE  ServiceStep
<1>1. L \in SUBSET Service!Inside(Standing(phase))
  BY InsideAre
<1>2. st = [Service!Left(Standing(phase), L) EXCEPT ![c] = "waiting"]
  BY ClientsAre DEF Service!Left
<1>3. /\ sq = Service!Joined(shortQueue, ShortExecs, c)
      /\ lq = Service!Joined(longQueue, LongLived, c)
  BY DEF Service!Joined
<1>4. c \in Service!Clients /\ Standing(phase)[c] = "new"
  BY ClientsAre DEF Standing
<1>5. Service!Serve([Service!Left(Standing(phase), L) EXCEPT ![c] = "waiting"],
                    Service!Joined(shortQueue, ShortExecs, c),
                    Service!Joined(longQueue, LongLived, c))
  BY <1>2, <1>3
<1>6. Service!Turn
  BY <1>1, <1>4, <1>5 DEF Service!Turn
<1> QED
  BY <1>6 DEF ServiceStep, Service!Next

\* Taking an opener out of a line is written twice.
LEMMA WithoutAgree ==
    ASSUME NEW S, NEW q \in Seq(S), NEW o
    PROVE  Service!Without(q, o) = Without(q, o)
<1>1. DOMAIN q = 1 .. Len(q)
  BY LenProperties
<1>2. o \in ToSet(q) <=> \E i \in 1 .. Len(q) : q[i] = o
  BY <1>1 DEF ToSet
<1>3. CASE o \in ToSet(q)
  BY <1>2, <1>3, SameLibrary, Zenon DEF Service!Without, Without, IndexOf
<1>4. CASE o \notin ToSet(q)
  BY <1>2, <1>4, Zenon DEF Service!Without, Without
<1> QED
  BY <1>3, <1>4

LEMMA OneGivesUp ==
    ASSUME Good(phase, shortQueue, longQueue), session = "ready" => session' = "ready",
           NEW L \in SUBSET At(phase, Live), NEW c \in Openers, phase[c] = "queued",
           NEW st,
           st = [o \in Openers |-> IF o = c \/ o \in L THEN "gone" ELSE Standing(phase)[o]],
           Service!Serve(st, Without(shortQueue, c), Without(longQueue, c))
    PROVE  ServiceStep
<1>0. /\ phase \in [Openers -> Phases]
      /\ shortQueue \in Seq(ShortExecs) /\ longQueue \in Seq(LongLived)
  BY DEF Good
<1>1. L \in SUBSET Service!Inside(Standing(phase))
  BY <1>0, InsideAre
<1>2. st = [Service!Left(Standing(phase), L) EXCEPT ![c] = "gone"]
  BY ClientsAre DEF Service!Left
<1>3. /\ Without(shortQueue, c) = Service!Without(shortQueue, c)
      /\ Without(longQueue, c) = Service!Without(longQueue, c)
  BY <1>0, WithoutAgree
<1>4. c \in Service!Clients /\ Standing(phase)[c] = "waiting"
  BY ClientsAre DEF Standing
<1>5. Service!Serve([Service!Left(Standing(phase), L) EXCEPT ![c] = "gone"],
                    Service!Without(shortQueue, c), Service!Without(longQueue, c))
  BY <1>2, <1>3
<1>6. Service!Turn
  BY <1>1, <1>4, <1>5 DEF Service!Turn
<1> QED
  BY <1>6 DEF ServiceStep, Service!Next

\* A sweep of the openers as they are is a turn of the service.
LEMMA SweepServes ==
    ASSUME Good(phase, shortQueue, longQueue), session' = "ready",
           NEW V \in SUBSET Openers, NEW w \in Sweeps(phase, V), Possible(w),
           admitPending(Swept(phase, w), shortQueue, longQueue)
    PROVE  ServiceStep
<1>1. phase \in [Openers -> Phases]
  BY DEF Good
<1>2. /\ w.ended \in SUBSET At(phase, Live)
      /\ Standing(Swept(phase, w)) =
           [o \in Openers |-> IF o \in w.ended THEN "gone" ELSE Standing(phase)[o]]
      /\ Swept(phase, w) \in [Openers -> Phases]
  BY <1>1, SweptStanding
<1>3. /\ Good(phase', shortQueue', longQueue')
      /\ HandedOut(Swept(phase, w), shortQueue, longQueue)
  BY AdmitSwept
<1>4. Service!Serve(Standing(Swept(phase, w)), shortQueue, longQueue)
  BY <1>2, <1>3, Serves
<1> QED
  BY <1>1, <1>2, <1>4, SomeLeave

\* An opener that asks joins its line; who ended in the same slot leaves.
LEMMA AskServes ==
    ASSUME Good(phase, shortQueue, longQueue), session' = session,
           NEW c \in Openers, phase[c] = "new", NEW ph, ph = [phase EXCEPT ![c] = "queued"],
           NEW sq, NEW lq,
           \/ c \in ShortExecs /\ sq = Append(shortQueue, c) /\ lq = longQueue
           \/ c \in LongLived /\ sq = shortQueue /\ lq = Append(longQueue, c),
           NEW V \in SUBSET Openers,
           \/ /\ session = "ready"
              /\ \E w \in Sweeps(ph, V) : Possible(w) /\ admitPending(Swept(ph, w), sq, lq)
           \/ /\ session # "ready"
              /\ phase' = ph /\ shortQueue' = sq /\ longQueue' = lq
    PROVE  ServiceStep
<1>1. phase \in [Openers -> Phases] /\ ph \in [Openers -> Phases]
  BY DEF Good, Phases
<1>2. /\ sq = IF c \in ShortExecs THEN Append(shortQueue, c) ELSE shortQueue
      /\ lq = IF c \in LongLived THEN Append(longQueue, c) ELSE longQueue
  BY OpenersAssumption DEF LongLived, Execs
<1>3. Standing(ph) = [o \in Openers |-> IF o = c THEN "waiting" ELSE Standing(phase)[o]]
  BY <1>1 DEF Standing
<1>4. CASE session # "ready" /\ phase' = ph /\ shortQueue' = sq /\ longQueue' = lq
  <2> DEFINE st == Standing(ph)
  <2>1. Service!Serve(st, sq, lq)
    BY <1>4, ServesNobody
  <2>2. st = [o \in Openers |-> IF o = c THEN "waiting"
                                ELSE IF o \in {} THEN "gone" ELSE Standing(phase)[o]]
    BY <1>3
  <2>3. {} \in SUBSET At(phase, Live)
    OBVIOUS
  <2> HIDE DEF st
  <2> QED
    BY <1>1, <1>2, <2>1, <2>2, <2>3, OneComes
<1>5. CASE /\ session = "ready"
           /\ \E w \in Sweeps(ph, V) : Possible(w) /\ admitPending(Swept(ph, w), sq, lq)
  <2>1. PICK w \in Sweeps(ph, V) : Possible(w) /\ admitPending(Swept(ph, w), sq, lq)
    BY <1>5
  <2>2. Good(ph, sq, lq)
    BY GoodEnqueued
  <2>3. /\ w.ended \in SUBSET At(ph, Live)
        /\ Standing(Swept(ph, w)) =
             [o \in Openers |-> IF o \in w.ended THEN "gone" ELSE Standing(ph)[o]]
        /\ Swept(ph, w) \in [Openers -> Phases]
    BY <1>1, <2>1, SweptStanding
  <2>4. /\ Good(phase', shortQueue', longQueue')
        /\ HandedOut(Swept(ph, w), sq, lq)
    BY <2>1, <2>2, AdmitSwept
  <2> DEFINE st == Standing(Swept(ph, w))
             L == w.ended
  <2>5. Service!Serve(st, sq, lq)
    BY <1>5, <2>3, <2>4, Serves
  <2>6. L \in SUBSET At(phase, Live) /\ c \notin L
    BY <1>1, <2>3 DEF At, Live, Asking, Held, Dead
  <2>7. st = [o \in Openers |-> IF o = c THEN "waiting"
                                ELSE IF o \in L THEN "gone" ELSE Standing(phase)[o]]
    BY <1>3, <2>3, <2>6
  <2> HIDE DEF st, L
  <2> QED
    BY <1>1, <1>2, <2>5, <2>6, <2>7, OneComes
<1> QED
  BY <1>4, <1>5

\* Those of E, and nobody else, were sent away from where they stood in ph.
SentAway(after, E, ph) ==
    Standing(after) = [o \in Openers |-> IF o \in E THEN "gone" ELSE Standing(ph)[o]]

\* What became of openers and queues: served if the session is up.
Settled(after, sq, lq) ==
    \/ /\ session = "ready" /\ HandedOut(after, sq, lq)
       /\ Good(phase', shortQueue', longQueue')
    \/ /\ session # "ready"
       /\ phase' = after /\ shortQueue' = sq /\ longQueue' = lq

\* An opener that is cancelled or closed leaves, or gives up its place in a
\* line; after is what the slot makes of the openers before it serves.
LEMMA EndServes ==
    ASSUME Good(phase, shortQueue, longQueue), session' = session,
           NEW c \in Openers, phase[c] \in {"queued"} \union Live,
           NEW ph, ph = [phase EXCEPT ![c] = "gone"],
           NEW sq, sq = Without(shortQueue, c), NEW lq, lq = Without(longQueue, c),
           NEW after \in [Openers -> Phases], NEW E \in SUBSET At(ph, Live),
           SentAway(after, E, ph), Settled(after, sq, lq)
    PROVE  ServiceStep
<1>1. phase \in [Openers -> Phases] /\ ph \in [Openers -> Phases]
  BY DEF Good, Phases
<1> DEFINE st == Standing(after)
<1>2. Service!Serve(st, sq, lq)
  BY Serves, ServesNobody DEF Settled
<1>3. Standing(ph) = [o \in Openers |-> IF o = c THEN "gone" ELSE Standing(phase)[o]]
  BY <1>1 DEF Standing
<1>4. st = [o \in Openers |-> IF o = c \/ o \in E THEN "gone" ELSE Standing(phase)[o]]
  BY <1>3 DEF SentAway
<1>5. E \in SUBSET At(phase, Live)
  BY <1>1 DEF At, Live, Asking, Held, Dead
<1> HIDE DEF st
<1>6. CASE phase[c] = "queued"
  BY <1>2, <1>4, <1>5, <1>6, OneGivesUp
<1>7. CASE phase[c] \in Live
  <2>1. c \notin ToSet(shortQueue) /\ c \notin ToSet(longQueue)
    BY <1>7 DEF Good, Exact, Live, Asking, Held, Dead
  <2>2. sq = shortQueue /\ lq = longQueue
    BY <2>1 DEF Without
  <2> DEFINE L == E \union {c}
  <2>3. L \in SUBSET At(phase, Live)
    BY <1>5, <1>7 DEF At
  <2>4. st = [o \in Openers |-> IF o \in L THEN "gone" ELSE Standing(phase)[o]]
    BY <1>4
  <2> HIDE DEF L
  <2> QED
    BY <1>1, <1>2, <2>2, <2>3, <2>4, SomeLeave
<1> QED
  BY <1>6, <1>7

\* Losing the session closes the service.
LEMMA LossCloses ==
    ASSUME phase \in [Openers -> Phases], enterConnectionLost
    PROVE  ServiceStep
<1> DEFINE L == {c \in Service!Clients : Standing(phase)[c] # "new"}
<1>1. \A c \in Openers : Standing(phase)[c] # "new" <=> phase[c] # "new"
  BY DEF Standing
<1>2. Standing(phase') = Service!Left(Standing(phase), L)
  <2>1. \A c \in Openers : Standing(phase')[c] = IF c \in L THEN "gone" ELSE Standing(phase)[c]
    BY <1>1, ClientsAre DEF Standing, enterConnectionLost
  <2>2. Standing(phase') = [c \in Openers |-> Standing(phase')[c]]
    BY DEF Standing
  <2> QED
    BY <2>1, <2>2, ClientsAre DEF Service!Left
<1>3. Standing(phase)' = Standing(phase')
  BY DEF Standing
<1>4. {c \in ShortExecs : Standing(phase)[c] # "new"} \subseteq L
  BY DEF Service!Clients
<1>5. L \in SUBSET {c \in Service!Clients : Standing(phase)[c] # "new"}
  OBVIOUS
<1>6. session' = "down" /\ shortQueue' = <<>> /\ longQueue' = <<>>
  BY DEF enterConnectionLost
<1> HIDE DEF L
<1>7. Service!Close
  BY <1>2, <1>3, <1>4, <1>5, <1>6 DEF Service!Close
<1> QED
  BY <1>7 DEF ServiceStep, Service!Next

\* So does a disconnect, which leaves the terminals where they stand.
LEMMA DisconnectCloses ==
    ASSUME phase \in [Openers -> Phases], requestDisconnect
    PROVE  ServiceStep
<1> DEFINE L == {c \in Execs : Standing(phase)[c] # "new"}
<1>0. Execs \subseteq Openers /\ Execs \intersect Ptys = {} /\ ShortExecs \subseteq Execs
  BY OpenersAssumption DEF Openers, Execs
<1>1. \A c \in Openers : Standing(phase)[c] # "new" <=> phase[c] # "new"
  BY DEF Standing
<1>2. Standing(phase') = Service!Left(Standing(phase), L)
  <2>1. ASSUME NEW c \in Openers
        PROVE  Standing(phase')[c] = IF c \in L THEN "gone" ELSE Standing(phase)[c]
    <3>1. CASE c \in Execs
      BY <1>0, <1>1, <3>1 DEF Standing, requestDisconnect
    <3>2. CASE c \notin Execs
      BY <1>0, <1>1, <3>2 DEF Standing, requestDisconnect
    <3> QED
      BY <3>1, <3>2
  <2>2. Standing(phase') = [c \in Openers |-> Standing(phase')[c]]
    BY DEF Standing
  <2> QED
    BY <2>1, <2>2, ClientsAre DEF Service!Left
<1>3. Standing(phase)' = Standing(phase')
  BY DEF Standing
<1>4. {c \in ShortExecs : Standing(phase)[c] # "new"} \subseteq L
  BY <1>0
<1>5. L \in SUBSET {c \in Service!Clients : Standing(phase)[c] # "new"}
  BY <1>0, ClientsAre
<1>6. session' = "down" /\ shortQueue' = <<>> /\ longQueue' = <<>>
  BY DEF requestDisconnect
<1> HIDE DEF L
<1>7. Service!Close
  BY <1>2, <1>3, <1>4, <1>5, <1>6 DEF Service!Close
<1> QED
  BY <1>7 DEF ServiceStep, Service!Next

\* A request is a step of the service.
LEMMA RequestsServe == ASSUME AdmissionInv, Requests PROVE ServiceStep
<1>0. /\ Good(phase, shortQueue, longQueue) /\ phase \in [Openers -> Phases]
      /\ shortQueue \in Seq(ShortExecs)
  BY DEF AdmissionInv, Good
<1>1. ASSUME NEW o \in Openers, RequestRefused(o) PROVE ServiceStep
  <2>1. /\ Standing(phase') = [Standing(phase) EXCEPT ![o] = "gone"]
        /\ Standing(phase)[o] = "new"
    BY <1>0, <1>1 DEF RequestRefused, Standing
  <2>2. Standing(phase)' = Standing(phase')
    BY DEF Standing
  <2>3. Service!Refuse(o)
    BY <1>1, <2>1, <2>2 DEF RequestRefused, Service!Refuse
  <2> QED
    BY <2>3, ClientsAre DEF ServiceStep, Service!Next
<1>2. ASSUME NEW p \in Ptys, requestOpenChannel(p) PROVE ServiceStep
  <2> DEFINE ph == [phase EXCEPT ![p] = "queued"]
             lq == Append(longQueue, p)
  <2>1. /\ p \in Openers /\ p \in LongLived /\ phase[p] = "new"
        /\ Openers \in SUBSET Openers /\ session' = session
    BY <1>2 DEF requestOpenChannel, Openers, LongLived
  <2>2. \/ /\ session = "ready"
           /\ \E w \in Sweeps(ph, Openers) :
                 Possible(w) /\ admitPending(Swept(ph, w), shortQueue, lq)
        \/ /\ session # "ready"
           /\ phase' = ph /\ shortQueue' = shortQueue /\ longQueue' = lq
    BY <1>2 DEF requestOpenChannel, pump
  <2>3. ph = [phase EXCEPT ![p] = "queued"] /\ lq = Append(longQueue, p)
    OBVIOUS
  <2> HIDE DEF ph, lq
  <2> QED
    BY <1>0, <2>1, <2>2, <2>3, AskServes
<1>3. ASSUME NEW x \in Execs, requestExec(x) PROVE ServiceStep
  <2> DEFINE ph == [phase EXCEPT ![x] = "queued"]
             sq == Enqueue(x).short
             lq == Enqueue(x).long
  <2>1. x \in Openers /\ phase[x] = "new" /\ Execs \in SUBSET Openers /\ session' = session
    BY <1>3 DEF requestExec, Openers
  <2>2. \/ /\ session = "ready"
           /\ \E w \in Sweeps(ph, Execs) :
                 Possible(w) /\ admitPending(Swept(ph, w), sq, lq)
        \/ /\ session # "ready"
           /\ phase' = ph /\ shortQueue' = sq /\ longQueue' = lq
    BY <1>3 DEF requestExec, serviceExec
  <2>3. \/ x \in ShortExecs /\ sq = Append(shortQueue, x) /\ lq = longQueue
        \/ x \in LongLived /\ sq = shortQueue /\ lq = Append(longQueue, x)
    BY DEF Enqueue, LongLived, Execs
  <2>4. ph = [phase EXCEPT ![x] = "queued"]
    OBVIOUS
  <2> HIDE DEF ph, sq, lq
  <2> QED
    BY <1>0, <2>1, <2>2, <2>3, <2>4, AskServes
<1>4. ASSUME NEW x \in Execs, requestExecCancel(x) PROVE ServiceStep
  <2> DEFINE ph == [phase EXCEPT ![x] = "gone"]
             sq == Without(shortQueue, x)
             lq == Without(longQueue, x)
  <2>1. x \in Openers /\ phase[x] \in {"queued"} \union Live /\ session' = session
    BY <1>4 DEF requestExecCancel, Openers
  <2>2. \/ session = "ready" /\ admitPending(ph, sq, lq)
        \/ session # "ready" /\ phase' = ph /\ shortQueue' = sq /\ longQueue' = lq
    BY <1>4 DEF requestExecCancel
  <2>3. Good(ph, sq, lq)
    BY <1>0, <2>1, GoodGone
  <2>4. /\ ph = [phase EXCEPT ![x] = "gone"]
        /\ sq = Without(shortQueue, x) /\ lq = Without(longQueue, x)
    OBVIOUS
  <2> HIDE DEF ph, sq, lq
  <2>5. Settled(ph, sq, lq)
    BY <2>2, <2>3, AdmitGood DEF Settled
  <2> DEFINE E == {}
  <2>6. /\ ph \in [Openers -> Phases] /\ E \in SUBSET At(ph, Live)
        /\ SentAway(ph, E, ph)
    BY <2>3 DEF Good, Standing, SentAway
  <2> HIDE DEF E
  <2> QED
    BY <1>0, <2>1, <2>4, <2>5, <2>6, EndServes
<1>5. ASSUME NEW p \in Ptys, requestCloseChannel(p) PROVE ServiceStep
  <2> DEFINE ph == [phase EXCEPT ![p] = "gone"]
             sq == Without(shortQueue, p)
             lq == Without(longQueue, p)
             V == Openers \ {q \in Ptys : ph[q] = "open"}
  <2>1. p \in Openers /\ phase[p] \in {"queued"} \union Live /\ session' = session
    BY <1>5 DEF requestCloseChannel, Openers
  <2>2. sq = shortQueue
    <3>1. ToSet(shortQueue) \subseteq ShortExecs
      BY <1>0, LenProperties, ElementOfSeq DEF ToSet
    <3> QED
      BY <3>1, OpenersAssumption DEF Execs, Without
  <2>3. Good(ph, sq, lq)
    BY <1>0, <2>1, GoodGone
  <2>4. /\ ph = [phase EXCEPT ![p] = "gone"] /\ V \in SUBSET Openers
        /\ sq = Without(shortQueue, p) /\ lq = Without(longQueue, p)
    OBVIOUS
  <2>5. \/ /\ session = "ready"
           /\ \E w \in Sweeps(ph, V) : Possible(w) /\ admitPending(Swept(ph, w), shortQueue, lq)
        \/ /\ session # "ready"
           /\ phase' = ph /\ shortQueue' = shortQueue /\ longQueue' = lq
    BY <1>5 DEF requestCloseChannel
  <2> HIDE DEF ph, sq, lq, V
  <2>6. ph \in [Openers -> Phases]
    BY <2>3 DEF Good
  <2>7. CASE /\ session = "ready"
             /\ \E w \in Sweeps(ph, V) : Possible(w) /\ admitPending(Swept(ph, w), shortQueue, lq)
    <3>1. PICK w \in Sweeps(ph, V) : Possible(w) /\ admitPending(Swept(ph, w), sq, lq)
      BY <2>2, <2>7
    <3>2. /\ w.ended \in SUBSET At(ph, Live)
          /\ Standing(Swept(ph, w)) =
               [o \in Openers |-> IF o \in w.ended THEN "gone" ELSE Standing(ph)[o]]
          /\ Swept(ph, w) \in [Openers -> Phases]
      BY <2>4, <2>6, <3>1, SweptStanding
    <3>3. /\ Good(phase', shortQueue', longQueue')
          /\ HandedOut(Swept(ph, w), sq, lq)
      BY <2>3, <2>4, <3>1, AdmitSwept
    <3> DEFINE after == Swept(ph, w)
               E == w.ended
    <3>4. /\ E \in SUBSET At(ph, Live) /\ after \in [Openers -> Phases]
          /\ SentAway(after, E, ph) /\ Settled(after, sq, lq)
      BY <2>7, <3>2, <3>3 DEF Settled, SentAway
    <3> HIDE DEF after, E
    <3> QED
      BY <1>0, <2>1, <2>4, <3>4, EndServes
  <2>8. CASE session # "ready" /\ phase' = ph /\ shortQueue' = shortQueue /\ longQueue' = lq
    <3> DEFINE E == {}
    <3>1. /\ E \in SUBSET At(ph, Live)
          /\ SentAway(ph, E, ph) /\ Settled(ph, sq, lq)
      BY <2>2, <2>8 DEF Standing, Settled, SentAway
    <3> HIDE DEF E
    <3> QED
      BY <1>0, <2>1, <2>4, <2>6, <3>1, EndServes
  <2> QED
    BY <2>5, <2>7, <2>8
<1>6. CASE requestExecWrite
  <2>1. /\ session' = "ready" /\ Execs \in SUBSET Openers
        /\ \E w \in Sweeps(phase, Execs) :
              Possible(w) /\ admitPending(Swept(phase, w), shortQueue, longQueue)
    BY <1>6 DEF requestExecWrite, serviceExec, Openers
  <2> QED
    BY <1>0, <2>1, SweepServes
<1>7. CASE startConnect
  <2>1. Standing(phase') = Standing(phase) /\ Standing(phase)' = Standing(phase')
    BY <1>7 DEF startConnect, Standing
  <2> QED
    BY <1>7, <2>1 DEF startConnect, ServiceStep
<1>8. CASE requestDisconnect
  BY <1>0, <1>8, DisconnectCloses
<1>9. CASE WriteToDead
  BY <1>0, <1>9, LossCloses DEF WriteToDead
<1> QED
  BY <1>1, <1>2, <1>3, <1>4, <1>5, <1>6, <1>7, <1>8, <1>9 DEF Requests

\* So is an event.
LEMMA EventsServe == ASSUME AdmissionInv, Events PROVE ServiceStep
<1>0. Good(phase, shortQueue, longQueue) /\ phase \in [Openers -> Phases]
  BY DEF AdmissionInv, Good
<1>1. CASE Connected
  <2>1. PICK w \in Sweeps(phase, Openers) :
           /\ Possible(w)
           /\ admitPending([o \in Openers |-> IF phase[o] = "deadsetup" THEN "gone"
                                              ELSE Swept(phase, w)[o]],
                           shortQueue, longQueue)
    BY <1>1 DEF Connected
  <2> DEFINE swept == Swept(phase, w)
             after == [o \in Openers |-> IF phase[o] = "deadsetup" THEN "gone"
                                         ELSE swept[o]]
             L == w.ended \union At(phase, {"deadsetup"})
  <2>2. /\ w.ended \in SUBSET At(phase, Live)
        /\ Standing(swept) =
             [o \in Openers |-> IF o \in w.ended THEN "gone" ELSE Standing(phase)[o]]
        /\ swept \in [Openers -> Phases]
    BY <1>0, <2>1, SweptStanding
  <2>3. admitPending(after, shortQueue, longQueue)
    BY <2>1
  <2>4. Good(swept, shortQueue, longQueue)
    BY <1>0, <2>1, GoodSwept
  <2>5. \A o \in Openers : phase[o] = "deadsetup" => swept[o] # "queued"
    BY DEF Swept
  <2> HIDE DEF swept
  <2>6. /\ after \in [Openers -> Phases]
        /\ At(after, Live) \subseteq At(swept, Live)
        /\ \A o \in Openers : after[o] = "queued" <=> swept[o] = "queued"
    BY <2>2, <2>5 DEF Phases, At, Live, Asking, Held, Dead
  <2>7. Standing(after) = [o \in Openers |-> IF o \in L THEN "gone" ELSE Standing(phase)[o]]
    <3>1. ASSUME NEW o \in Openers
          PROVE  Standing(after)[o] = IF phase[o] = "deadsetup" THEN "gone" ELSE Standing(swept)[o]
      BY DEF Standing
    <3>2. Standing(after) = [o \in Openers |-> Standing(after)[o]]
      BY DEF Standing
    <3>3. \A o \in Openers : phase[o] = "deadsetup" <=> o \in At(phase, {"deadsetup"})
      BY DEF At
    <3> HIDE DEF after
    <3> QED
      BY <2>2, <3>1, <3>2, <3>3
  <2>8. L \in SUBSET At(phase, Live)
    BY <2>2 DEF At, Live, Dead
  <2> HIDE DEF after, L
  <2>9. Good(after, shortQueue, longQueue)
    BY <2>4, <2>6, GoodSame
  <2>10. /\ Good(phase', shortQueue', longQueue')
         /\ HandedOut(after, shortQueue, longQueue)
    BY <2>3, <2>9, AdmitGood
  <2>11. session' = "ready"
    BY <1>1 DEF Connected
  <2>12. Service!Serve(Standing(after), shortQueue, longQueue)
    BY <2>6, <2>10, <2>11, Serves
  <2> QED
    BY <1>0, <2>7, <2>8, <2>11, <2>12, SomeLeave
<1>2. CASE Lost
  BY <1>0, <1>2, LossCloses DEF Lost
<1>3. CASE SocketActivity
  <2>1. /\ session' = "ready" /\ Openers \in SUBSET Openers
        /\ \E w \in Sweeps(phase, Openers) :
              Possible(w) /\ admitPending(Swept(phase, w), shortQueue, longQueue)
    BY <1>3 DEF SocketActivity, SocketSweep
  <2> QED
    BY <1>0, <2>1, SweepServes
<1>4. CASE TickRetries
  <2> DEFINE V == Openers \ {p \in Ptys : phase[p] = "open"}
  <2>1. /\ session' = "ready" /\ V \in SUBSET Openers
        /\ \E w \in Sweeps(phase, V) :
              Possible(w) /\ admitPending(Swept(phase, w), shortQueue, longQueue)
    BY <1>4 DEF TickRetries, KeepTicking
  <2> HIDE DEF V
  <2> QED
    BY <1>0, <2>1, SweepServes
<1>5. CASE TickIdle
  <2>1. Standing(phase') = Standing(phase) /\ Standing(phase)' = Standing(phase')
    BY <1>5 DEF TickIdle, Standing
  <2> QED
    BY <1>5, <2>1 DEF TickIdle, KeepTicking, ServiceStep
<1>6. ASSUME NEW o \in Openers, BackoffElapsed(o) PROVE ServiceStep
  <2>1. Standing(phase') = Standing(phase) /\ Standing(phase)' = Standing(phase')
    BY <1>0, <1>6 DEF BackoffElapsed, Standing
  <2> QED
    BY <1>6, <2>1 DEF BackoffElapsed, ServiceStep
<1> QED
  BY <1>1, <1>2, <1>3, <1>4, <1>5, <1>6 DEF Events

-----------------------------------------------------------------------------
(* The theorems *)

\* The inductive invariant of channel admission, for any set of openers, any
\* cap, reserve and limit, and any number of reconnects.
THEOREM AdmissionInvariance == Spec => []AdmissionInv
  BY InitAdmission, NextAdmission, PTL DEF Spec

\* Types of the worker's openers, queues and timer.
THEOREM TypeCorrect == Spec => []TypeOK
<1>1. AdmissionInv => TypeOK
  BY DEF AdmissionInv
<1> QED
  BY <1>1, AdmissionInvariance, PTL

\* No path of the worker (request, sweep, retry, cancel, loss, reconnect with
\* terminals of an old session left over) overruns the dynamic budget or takes
\* the slots kept for short-lived commands.
THEOREM BudgetHolds == Spec => []BudgetRespected
<1>1. AdmissionInv => BudgetRespected
  BY DEF AdmissionInv, Good, Within, BudgetRespected
<1> QED
  BY <1>1, AdmissionInvariance, PTL

\* Every path of the worker that frees a slot gives it out: no opener waits on
\* a session that is up while a slot is free for it.
THEOREM SlotsGivenOut == Spec => []NoIdleSlot
<1>1. AdmissionInv => NoIdleSlot
  BY DEF AdmissionInv, Full, NoIdleSlot
<1> QED
  BY <1>1, AdmissionInvariance, PTL

\* The two queues together hold exactly the commands that wait, once each, and
\* nothing that was closed, cancelled or admitted.
THEOREM QueuesMatch == Spec => []QueuesExact
<1>1. ASSUME AdmissionInv PROVE QueuesExact
  <2> DEFINE waiting == shortQueue \o longQueue
             a == Len(shortQueue)
             b == Len(longQueue)
  <2>1. /\ shortQueue \in Seq(ShortExecs) /\ longQueue \in Seq(LongLived)
        /\ Exact(phase, shortQueue, longQueue)
    BY <1>1 DEF AdmissionInv, Good
  <2>2. /\ a \in Nat /\ DOMAIN shortQueue = 1 .. a
        /\ b \in Nat /\ DOMAIN longQueue = 1 .. b
    BY <2>1, LenProperties
  <2>3. /\ shortQueue \in Seq(Openers) /\ longQueue \in Seq(Openers)
        /\ \A i \in 1 .. a : shortQueue[i] \in ShortExecs
        /\ \A i \in 1 .. b : longQueue[i] \in LongLived
        /\ ShortExecs \intersect LongLived = {}
    <3>1. ShortExecs \subseteq Openers /\ LongLived \subseteq Openers
      BY DEF Openers, LongLived, Execs
    <3>2. ShortExecs \intersect LongLived = {}
      BY OpenersAssumption DEF LongLived, Execs
    <3> QED
      BY <2>1, <2>2, <3>1, <3>2, ElementOfSeq
  <2>4. /\ waiting \in Seq(Openers) /\ Len(waiting) = a + b
        /\ \A i \in 1 .. a + b :
              waiting[i] = IF i <= a THEN shortQueue[i] ELSE longQueue[i - a]
    BY <2>3, ConcatProperties
  <2>5. DOMAIN waiting = 1 .. a + b
    BY <2>4, LenProperties
  <2> HIDE DEF waiting, a, b
  <2>6. /\ \A i \in 1 .. a : waiting[i] = shortQueue[i]
        /\ \A i \in 1 .. b : waiting[a + i] = longQueue[i]
    BY <2>2, <2>4
  <2>7. /\ \A i, j \in 1 .. a : shortQueue[i] = shortQueue[j] => i = j
        /\ \A i, j \in 1 .. b : longQueue[i] = longQueue[j] => i = j
    BY <2>1, <2>2 DEF Exact, IsInjective
  <2>8. IsInjective(waiting)
    <3> SUFFICES ASSUME NEW i \in 1 .. a + b, NEW j \in 1 .. a + b,
                        waiting[i] = waiting[j]
                 PROVE  i = j
      BY <2>5 DEF IsInjective
    <3>1. CASE i <= a /\ j <= a
      <4>1. i \in 1 .. a /\ j \in 1 .. a
        BY <2>2, <3>1
      <4> QED
        BY <2>6, <2>7, <4>1
    <3>2. CASE ~(i <= a) /\ ~(j <= a)
      <4>1. i - a \in 1 .. b /\ j - a \in 1 .. b
        BY <2>2, <3>2
      <4>2. waiting[i] = longQueue[i - a] /\ waiting[j] = longQueue[j - a]
        BY <2>4, <3>2
      <4>3. i - a = j - a
        BY <2>7, <4>1, <4>2
      <4> QED
        BY <2>2, <4>3
    <3>3. CASE i <= a /\ ~(j <= a)
      <4>1. i \in 1 .. a /\ j - a \in 1 .. b
        BY <2>2, <3>3
      <4>2. waiting[i] = shortQueue[i] /\ waiting[j] = longQueue[j - a]
        BY <2>4, <3>3
      <4> QED
        BY <2>3, <4>1, <4>2
    <3>4. CASE ~(i <= a) /\ j <= a
      <4>1. i - a \in 1 .. b /\ j \in 1 .. a
        BY <2>2, <3>4
      <4>2. waiting[i] = longQueue[i - a] /\ waiting[j] = shortQueue[j]
        BY <2>4, <3>4
      <4> QED
        BY <2>3, <4>1, <4>2
    <3> QED
      BY <3>1, <3>2, <3>3, <3>4
  <2>9. ToSet(waiting) = ToSet(shortQueue) \union ToSet(longQueue)
    <3>1. ASSUME NEW i \in 1 .. a + b
          PROVE  waiting[i] \in ToSet(shortQueue) \union ToSet(longQueue)
      <4>1. CASE i <= a
        <5>1. i \in 1 .. a /\ waiting[i] = shortQueue[i]
          BY <2>2, <2>4, <4>1
        <5> QED
          BY <2>2, <5>1 DEF ToSet
      <4>2. CASE ~(i <= a)
        <5>1. i - a \in 1 .. b /\ waiting[i] = longQueue[i - a]
          BY <2>2, <2>4, <4>2
        <5> QED
          BY <2>2, <5>1 DEF ToSet
      <4> QED
        BY <4>1, <4>2
    <3>2. ASSUME NEW i \in 1 .. a PROVE shortQueue[i] \in ToSet(waiting)
      <4>1. i \in 1 .. a + b
        BY <2>2
      <4> QED
        BY <2>5, <2>6, <4>1 DEF ToSet
    <3>3. ASSUME NEW i \in 1 .. b PROVE longQueue[i] \in ToSet(waiting)
      <4>1. a + i \in 1 .. a + b
        BY <2>2
      <4> QED
        BY <2>5, <2>6, <4>1 DEF ToSet
    <3> QED
      BY <2>2, <2>5, <3>1, <3>2, <3>3 DEF ToSet
  <2> QED
    BY <2>1, <2>8, <2>9 DEF Exact, QueuesExact, waiting
<1> QED
  BY <1>1, AdmissionInvariance, PTL

\* The worker is a service as Admission promises it, whatever is refused,
\* cancelled or lost: each class is let in in the order of its requests, short
\* commands first, as many as fit, and as soon as there is a channel.
THEOREM AdmissionOrder == Spec => AdmitsInOrder
<1>1. Init => Service!Init
  BY ClientsAre DEF Init, Service!Init, Standing
<1>2. AdmissionInv /\ [Next]_vars => [Service!Next]_(Service!vars)
  <2> SUFFICES ASSUME AdmissionInv, [Next]_vars PROVE [Service!Next]_(Service!vars)
    OBVIOUS
  <2>1. CASE Next
    <3>1. ServiceStep
      BY <2>1, RequestsServe, EventsServe DEF Next
    <3> QED
      BY <3>1 DEF ServiceStep, Service!vars
  <2>2. CASE UNCHANGED vars
    BY <2>2 DEF vars, Service!vars, Standing
  <2> QED
    BY <2>1, <2>2
<1> QED
  BY <1>1, <1>2, AdmissionInvariance, PTL DEF Spec, AdmitsInOrder, Service!Spec
=============================================================================
