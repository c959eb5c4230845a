------------------------ MODULE GitController_proofs ------------------------
(* Proofs about GitController: no change is forgotten, a burst is bounded, and *)
(* a panel at rest shows the entries and counts of a checkout that exists.     *)
EXTENDS GitController, SequenceTheorems, FiniteSetTheorems, TLAPS

OpType == [kind : Kinds, at : Checkouts]
Places == Checkouts \union {None}
Losses == {"tree", "head", "rows"} \union Sides

\* The controller's record.
Ctl == [queue : Seq(OpType), current : OpType \union {Idle}, busy : BOOLEAN,
        marker : BOOLEAN, repo : Places, rows : SUBSET Checkouts, wish : Places,
        saved : Places, dirty : BOOLEAN, immediate : BOOLEAN, since : 0..Quiet,
        burst : Nat, timer : -1..Quiet, full : BOOLEAN, signals : SUBSET Signals,
        known : BOOLEAN, parsing : Places, outdated : SUBSET Checkouts,
        numstat : Sides \union {"off"}, again : BOOLEAN, blank : SUBSET Sides,
        overflow : BOOLEAN, unread : SUBSET {"tree", "head"},
        lost : SUBSET Losses, shown : Places, stale : SUBSET (Sides \union {"pass"})]

\* The predicates below are about a controller c in the middle of a handler:
\* cur is the process that still counts as running, E the checkouts on disk.

\* Nothing is queued, running or wished for while the controller is idle.
Shape(c) == ~c.busy => c.queue = <<>> /\ c.current = Idle /\ c.wish = None

\* There is a repository exactly when there are rows, the main checkout among
\* them; it is found by the first process only; worktrees alone are removed.
Rooted(c, cur) ==
    /\ c.rows = {} <=> c.repo = None
    /\ c.rows # {} => Main \in c.rows
    /\ c.repo = None => /\ c.unread = {} /\ c.wish = None /\ c.signals = {}
                        /\ c.queue = <<>> /\ cur.kind \in {"toplevel", "idle"}
    /\ cur.kind = "toplevel" => c.repo = None
    /\ \A op \in Range(c.queue) : op.kind # "toplevel"
    /\ \A op \in Range(c.queue) \union {cur} :
          op.kind \in {"merge", "remove"} => op.at \in Worktrees

\* A status of another checkout than r is followed by one of r.
Trailing(q, r) ==
    \A i \in 1..Len(q) :
        q[i].kind = "status" /\ q[i].at # r =>
            \E j \in (i + 1)..Len(q) : q[j] = Op("status", r)
Ordered(c, cur) ==
    /\ Trailing(c.queue, c.repo)
    /\ cur.kind = "status" /\ cur.at # c.repo => Op("status", c.repo) \in Range(c.queue)

\* NothingForgotten, timers aside.
TreeComing(c) ==
    "tree" \in c.unread => \/ "tree" \in c.signals \union c.lost \/ Pending(c)
                           \/ Op("status", c.repo) \in Range(c.queue)
HeadComing(c) ==
    "head" \in c.unread => \/ "head" \in c.signals \union c.lost
                           \/ Pending(c) /\ c.full
                           \/ Op("head", c.repo) \in Range(c.queue)

\* A status of the current checkout is due, or failed; else it is being parsed,
\* or its entries are shown.
Due(c, cur) ==
    \/ "tree" \in c.lost \union c.unread
    \/ Op("status", c.repo) \in Range(c.queue) \union {cur}
Panel(c, cur) ==
    \/ Due(c, cur)
    \/ c.parsing = c.repo
    \/ c.parsing = None /\ c.shown = c.repo

\* The counts of a side belong to the entries, or their process failed; while
\* a pass runs, what it has not counted yet is before it, or it is repeated.
Fine(c, s) == s \in c.lost \/ s \notin c.blank \union c.stale
PassCovers(c) ==
    /\ c.numstat = "off" => \A s \in Sides : Fine(c, s)
    /\ c.numstat = "unstaged" => c.again \/ "pass" \notin c.stale
    /\ c.numstat = "staged" => c.again \/ ("pass" \notin c.stale /\ Fine(c, "unstaged"))
Counted(c, cur) ==
    c.repo = None \/ Due(c, cur) \/ c.parsing # None \/ PassCovers(c)

\* A controller on a checkout that is gone will look at the list of worktrees.
Listed(c, E, cur) ==
    c.repo \notin E \union {None} =>
        \/ "rows" \in c.lost \/ "trees" \in c.signals \/ c.overflow
        \/ Op("worktrees", Main) \in Range(c.queue) \union {cur}
        \/ c.wish \notin {None, c.repo}

\* An idle controller with a burst under way has armed the quiet timer.
Armed(c) ==
    ~c.busy =>
        /\ ~c.immediate
        /\ c.dirty => /\ c.timer >= 0
                      /\ c.burst + c.timer < MaxWait + Quiet
                      /\ c.since + c.timer >= Quiet

Loose(c, E, cur) ==
    /\ c \in Ctl /\ Rooted(c, cur) /\ Ordered(c, cur) /\ TreeComing(c) /\ HeadComing(c)
    /\ Panel(c, cur) /\ Counted(c, cur) /\ Listed(c, E, cur)

\* Between two handlers, and inside one: cur is the process the controller
\* holds, or none once it has ended.
Tight(c, E) == Loose(c, E, c.current) /\ Shape(c) /\ Armed(c)
Ready(c, E, cur) ==
    /\ Loose(c, E, cur) /\ Shape(c) /\ cur \in OpType \union {Idle}
    /\ c.busy \/ cur = c.current

World(E) == E \subseteq Checkouts /\ {Main} \union Submodules \subseteq E

-----------------------------------------------------------------------------
(* Sequences of processes *)

\* A process is told by its kind and its checkout.
LEMMA OpIs == \A op \in OpType : op = Op(op.kind, op.at)
  BY DEF OpType, Op

\* The two fields of a process.
LEMMA OpEq == ASSUME NEW k, NEW a PROVE Op(k, a).kind = k /\ Op(k, a).at = a
  BY DEF Op

\* No process is the idle one.
LEMMA IdleKind == Idle.kind = "idle" /\ Idle \notin OpType /\ "idle" \notin Kinds
  BY DEF Idle, Op, OpType, Kinds, RefreshKinds, UserKinds

\* Contents of a sequence, with and without its head.
LEMMA Contents ==
    ASSUME NEW S, NEW q \in Seq(S)
    PROVE  Range(q) = {q[i] : i \in 1..Len(q)} /\ \A e : Contains(q, e) <=> e \in Range(q)
<1>1. Range(q) = {q[i] : i \in 1..Len(q)}
  BY RangeEquality
<1> QED
  BY <1>1 DEF Contains

\* An empty queue contains nothing.
LEMMA EmptyRange == <<>> \in Seq(OpType) /\ Len(<<>>) = 0 /\ Range(<<>>) = {}
<1>1. <<>> \in Seq(OpType) /\ Len(<<>>) = 0
  OBVIOUS
<1>2. Range(<<>>) = {<<>>[i] : i \in 1..Len(<<>>)}
  BY <1>1, Contents
<1> QED
  BY <1>1, <1>2

\* Starting the head of a queue: what remains, and that a status of the
\* current checkout still follows a status of another one.
LEMMA TakeHead ==
    ASSUME NEW q \in Seq(OpType), q # <<>>, NEW r
    PROVE  /\ Head(q) \in OpType /\ Tail(q) \in Seq(OpType)
           /\ Range(q) = {Head(q)} \union Range(Tail(q))
           /\ Trailing(q, r) =>
                /\ Trailing(Tail(q), r)
                /\ Head(q).kind = "status" /\ Head(q).at # r => Op("status", r) \in Range(Tail(q))
<1>1. /\ Head(q) \in OpType /\ Tail(q) \in Seq(OpType) /\ Len(Tail(q)) = Len(q) - 1
      /\ \A i \in 1 .. Len(Tail(q)) : Tail(q)[i] = q[i + 1]
  BY HeadTailProperties
<1>2. Len(q) \in Nat \ {0} /\ Head(q) = q[1]
  BY EmptySeq
<1>3. Range(q) = {q[i] : i \in 1..Len(q)} /\ Range(Tail(q)) = {Tail(q)[i] : i \in 1..Len(Tail(q))}
  BY <1>1, Contents
<1>4. \A i \in 1..Len(q) : i # 1 => i - 1 \in 1..Len(Tail(q)) /\ Tail(q)[i - 1] = q[i]
  BY <1>1, <1>2
<1>5. Range(q) = {Head(q)} \union Range(Tail(q))
  <2>1. Range(q) \subseteq {Head(q)} \union Range(Tail(q))
    BY <1>2, <1>3, <1>4
  <2>2. Range(Tail(q)) \subseteq Range(q)
    <3> SUFFICES ASSUME NEW i \in 1..Len(Tail(q)) PROVE Tail(q)[i] \in Range(q)
      BY <1>3
    <3>1. i + 1 \in 1..Len(q) /\ Tail(q)[i] = q[i + 1]
      BY <1>1, <1>2
    <3> QED
      BY <1>3, <3>1
  <2>3. 1 \in 1..Len(q)
    BY <1>2
  <2> QED
    BY <1>2, <1>3, <2>1, <2>2, <2>3
<1>6. ASSUME Trailing(q, r) PROVE Trailing(Tail(q), r)
  <2> SUFFICES ASSUME NEW i \in 1..Len(Tail(q)),
                      Tail(q)[i].kind = "status" /\ Tail(q)[i].at # r
               PROVE  \E j \in (i + 1)..Len(Tail(q)) : Tail(q)[j] = Op("status", r)
    BY DEF Trailing
  <2>1. i + 1 \in 1..Len(q) /\ Tail(q)[i] = q[i + 1]
    BY <1>1, <1>2
  <2>2. PICK j \in (i + 1 + 1)..Len(q) : q[j] = Op("status", r)
    BY <1>6, <2>1 DEF Trailing
  <2>3. j - 1 \in (i + 1)..Len(Tail(q)) /\ j \in 1..Len(q) /\ j # 1
    BY <1>1, <1>2, <2>1
  <2> QED
    BY <1>4, <2>2, <2>3
<1>7. ASSUME Trailing(q, r), Head(q).kind = "status", Head(q).at # r
      PROVE  Op("status", r) \in Range(Tail(q))
  <2>1. PICK j \in 2..Len(q) : q[j] = Op("status", r)
    BY <1>2, <1>7 DEF Trailing
  <2>2. j - 1 \in 1..Len(Tail(q)) /\ Tail(q)[j - 1] = Op("status", r)
    BY <1>2, <1>4, <2>1
  <2> QED
    BY <1>3, <2>2
<1> QED
  BY <1>1, <1>5, <1>6, <1>7

\* Appending processes to a queue.
LEMMA AddOps ==
    ASSUME NEW q \in Seq(OpType), NEW t \in Seq(OpType), NEW r
    PROVE  /\ q \o t \in Seq(OpType)
           /\ Range(q \o t) = Range(q) \union Range(t)
           /\ (\A e \in Range(t) : e.kind = "status" => e.at = r)
              /\ (Trailing(q, r) \/ Op("status", r) \in Range(t)) => Trailing(q \o t, r)
           /\ q \o t = <<>> <=> q = <<>> /\ t = <<>>
<1>1. /\ q \o t \in Seq(OpType) /\ Len(q \o t) = Len(q) + Len(t)
      /\ \A i \in 1 .. Len(q) + Len(t) :
            (q \o t)[i] = IF i <= Len(q) THEN q[i] ELSE t[i - Len(q)]
      /\ Len(q) \in Nat /\ Len(t) \in Nat
  BY ConcatProperties, LenProperties
<1>2. Range(q \o t) = Range(q) \union Range(t)
  BY RangeConcatenation
<1>3. ASSUME \A e \in Range(t) : e.kind = "status" => e.at = r,
             Trailing(q, r) \/ Op("status", r) \in Range(t)
      PROVE  Trailing(q \o t, r)
  <2> SUFFICES ASSUME NEW i \in 1..Len(q \o t),
                      (q \o t)[i].kind = "status" /\ (q \o t)[i].at # r
               PROVE  \E j \in (i + 1)..Len(q \o t) : (q \o t)[j] = Op("status", r)
    BY DEF Trailing
  <2>1. i <= Len(q)
    <3> SUFFICES ASSUME ~(i <= Len(q)) PROVE FALSE
      OBVIOUS
    <3>1. i - Len(q) \in 1..Len(t) /\ (q \o t)[i] = t[i - Len(q)]
      BY <1>1
    <3>2. (q \o t)[i] \in Range(t)
      BY <3>1, Contents
    <3> QED
      BY <1>3, <3>2
  <2>2. i \in 1..Len(q) /\ (q \o t)[i] = q[i]
    BY <1>1, <2>1
  <2>3. CASE Trailing(q, r)
    <3>1. PICK j \in (i + 1)..Len(q) : q[j] = Op("status", r)
      BY <2>2, <2>3 DEF Trailing
    <3>2. j \in (i + 1)..Len(q \o t) /\ (q \o t)[j] = q[j]
      BY <1>1, <2>2
    <3> QED
      BY <3>1, <3>2
  <2>4. CASE Op("status", r) \in Range(t)
    <3>1. PICK k \in 1..Len(t) : t[k] = Op("status", r)
      BY <2>4, Contents
    <3>2. k + Len(q) \in (i + 1)..Len(q \o t) /\ (q \o t)[k + Len(q)] = t[k]
      <4>1. k + Len(q) \in 1..Len(q) + Len(t) /\ ~(k + Len(q) <= Len(q)) /\ (k + Len(q)) - Len(q) = k
        BY <1>1
      <4> QED
        BY <1>1, <2>2, <4>1
    <3> QED
      BY <3>1, <3>2
  <2> QED
    BY <1>3, <2>3, <2>4
<1>4. q \o t = <<>> <=> q = <<>> /\ t = <<>>
  BY ConcatEqualIffEmpty
<1> QED
  BY <1>1, <1>2, <1>3, <1>4

-----------------------------------------------------------------------------
(* The queue *)

\* runNext: the fields it leaves alone, and what the process reads.
LEMMA BeginFields ==
    ASSUME NEW c \in Ctl, c.queue # <<>>
    PROVE  LET b == Begin(c)
               op == Head(c.queue)
           IN  /\ b \in Ctl /\ op \in OpType
               /\ b.queue = Tail(c.queue) /\ b.current = op /\ b.busy /\ ~b.marker
               /\ b.repo = c.repo /\ b.rows = c.rows /\ b.wish = c.wish
               /\ b.dirty = c.dirty /\ b.immediate = c.immediate /\ b.full = c.full
               /\ b.signals = c.signals /\ b.overflow = c.overflow
               /\ b.parsing = c.parsing /\ b.shown = c.shown
               /\ b.numstat = c.numstat /\ b.again = c.again
               /\ b.blank = c.blank /\ b.stale = c.stale
               /\ "tree" \in b.unread <=> "tree" \in c.unread /\ op # Op("status", c.repo)
               /\ "head" \in b.unread <=> "head" \in c.unread /\ op # Op("head", c.repo)
               /\ "tree" \in b.lost <=> "tree" \in c.lost /\ op # Op("status", c.repo)
               /\ "head" \in b.lost <=> "head" \in c.lost /\ op # Op("head", c.repo)
               /\ "rows" \in b.lost <=> "rows" \in c.lost /\ op # Op("worktrees", Main)
               /\ \A s \in Sides : s \in b.lost <=> s \in c.lost
               /\ c.unread = {} => b.unread = {}
<1> DEFINE op == Head(c.queue)
           b == Begin(c)
           reads == CASE op.kind \in {"head", "status"} -> IF op.at = c.repo THEN ReadBy(op) ELSE {}
                      [] op.kind = "worktrees" -> IF op.at = Main THEN {"rows"} ELSE {}
                      [] OTHER -> {}
<1>1. op \in OpType /\ Tail(c.queue) \in Seq(OpType) /\ op = Op(op.kind, op.at)
  BY TakeHead, OpIs DEF Ctl
<1>2. b = [c EXCEPT !.queue = Tail(c.queue), !.current = op, !.busy = TRUE, !.marker = FALSE,
                    !.unread = @ \ reads, !.lost = @ \ reads]
  BY DEF Begin
<1>3. \A k, a : op = Op(k, a) <=> op.kind = k /\ op.at = a
  BY <1>1, OpEq
<1> HIDE DEF op, b
<1>4. /\ "tree" \in reads <=> op = Op("status", c.repo)
      /\ "head" \in reads <=> op = Op("head", c.repo)
      /\ "rows" \in reads <=> op = Op("worktrees", Main)
      /\ \A s \in Sides : s \notin reads
  <2>1. reads = CASE op.kind = "status" -> (IF op.at = c.repo THEN {"tree"} ELSE {})
                  [] op.kind = "head" -> (IF op.at = c.repo THEN {"head"} ELSE {})
                  [] op.kind = "worktrees" -> (IF op.at = Main THEN {"rows"} ELSE {})
                  [] OTHER -> {}
    BY DEF ReadBy
  <2> QED
    BY <1>3, <2>1 DEF Sides
<1> HIDE DEF reads
<1>5. /\ c.unread \ reads \in SUBSET {"tree", "head"}
      /\ c.lost \ reads \in SUBSET Losses
  BY DEF Ctl
<1>6. b \in Ctl
  BY <1>1, <1>2, <1>5 DEF Ctl
<1>7. /\ b.queue = Tail(c.queue) /\ b.current = op /\ b.busy /\ ~b.marker
      /\ b.repo = c.repo /\ b.rows = c.rows /\ b.wish = c.wish
      /\ b.dirty = c.dirty /\ b.immediate = c.immediate /\ b.full = c.full
      /\ b.signals = c.signals /\ b.overflow = c.overflow
      /\ b.parsing = c.parsing /\ b.shown = c.shown
      /\ b.numstat = c.numstat /\ b.again = c.again
      /\ b.blank = c.blank /\ b.stale = c.stale
      /\ b.unread = c.unread \ reads /\ b.lost = c.lost \ reads
  BY <1>2 DEF Ctl
<1> QED
  BY <1>1, <1>4, <1>6, <1>7 DEF op, b

\* The process at the head begins: what was due is due still.
LEMMA BeginLoose ==
    ASSUME NEW c, NEW E, Loose(c, E, Idle), c.queue # <<>>
    PROVE  /\ Loose(Begin(c), E, Begin(c).current)
           /\ Begin(c).busy /\ Begin(c).current \in OpType
<1> DEFINE op == Head(c.queue)
           b == Begin(c)
<1>1. c \in Ctl
  BY DEF Loose
<1>2. /\ b \in Ctl /\ op \in OpType
      /\ b.queue = Tail(c.queue) /\ b.current = op /\ b.busy /\ ~b.marker
      /\ b.repo = c.repo /\ b.rows = c.rows /\ b.wish = c.wish
      /\ b.dirty = c.dirty /\ b.immediate = c.immediate /\ b.full = c.full
      /\ b.signals = c.signals /\ b.overflow = c.overflow
      /\ b.parsing = c.parsing /\ b.shown = c.shown
      /\ b.numstat = c.numstat /\ b.again = c.again
      /\ b.blank = c.blank /\ b.stale = c.stale
      /\ "tree" \in b.unread <=> "tree" \in c.unread /\ op # Op("status", c.repo)
      /\ "head" \in b.unread <=> "head" \in c.unread /\ op # Op("head", c.repo)
      /\ "tree" \in b.lost <=> "tree" \in c.lost /\ op # Op("status", c.repo)
      /\ "head" \in b.lost <=> "head" \in c.lost /\ op # Op("head", c.repo)
      /\ "rows" \in b.lost <=> "rows" \in c.lost /\ op # Op("worktrees", Main)
      /\ \A s \in Sides : s \in b.lost <=> s \in c.lost
      /\ c.unread = {} => b.unread = {}
  BY <1>1, BeginFields
<1>3. /\ Range(c.queue) = {op} \union Range(b.queue)
      /\ Trailing(c.queue, c.repo) =>
            /\ Trailing(b.queue, c.repo)
            /\ op.kind = "status" /\ op.at # c.repo => Op("status", c.repo) \in Range(b.queue)
  BY <1>1, <1>2, TakeHead DEF Ctl
<1>4. Idle.kind = "idle" /\ \A k, a : Op(k, a) = Idle => k = "idle"
  BY IdleKind, OpEq
<1> HIDE DEF op, b
<1>5. Rooted(b, b.current)
  BY <1>2, <1>3 DEF Loose, Rooted
<1>6. Ordered(b, b.current)
  BY <1>2, <1>3 DEF Loose, Ordered
<1>7. TreeComing(b)
  BY <1>2, <1>3 DEF Loose, TreeComing, Pending
<1>8. HeadComing(b)
  BY <1>2, <1>3 DEF Loose, HeadComing, Pending
<1>9. Due(c, Idle) => Due(b, b.current)
  BY <1>2, <1>3, <1>4 DEF Due
<1>10. Panel(b, b.current)
  BY <1>2, <1>9 DEF Loose, Panel
<1>11. PassCovers(c) => PassCovers(b)
  BY <1>2 DEF PassCovers, Fine, Sides
<1>12. Counted(b, b.current)
  BY <1>2, <1>9, <1>11 DEF Loose, Counted
<1>13. Listed(b, E, b.current)
  BY <1>2, <1>3, <1>4 DEF Loose, Listed
<1> QED
  BY <1>2, <1>5, <1>6, <1>7, <1>8, <1>10, <1>12, <1>13 DEF Loose, b

\* What may be queued at any time, and the process held after a step from c.
OpsFit(c, t) ==
    /\ t \in Seq(OpType) /\ (c.repo = None => t = <<>>)
    /\ \A e \in Range(t) : /\ e.kind # "toplevel"
                           /\ e.kind \in {"merge", "remove"} => e.at \in Worktrees
                           /\ e.kind = "status" => e.at = c.repo
Held(c, cur, r) == IF c.busy THEN cur ELSE r.current
Carries(c, cur, r, E) ==
    /\ Ready(r, E, Held(c, cur, r))
    /\ c.busy => r.busy /\ r.current = c.current

\* More processes in the queue take nothing away.
LEMMA Grown ==
    ASSUME NEW c, NEW E, NEW cur, Loose(c, E, cur), NEW t, OpsFit(c, t)
    PROVE  Loose([c EXCEPT !.queue = @ \o t], E, cur)
<1> DEFINE q == [c EXCEPT !.queue = @ \o t]
<1>1. c \in Ctl /\ c.queue \in Seq(OpType) /\ t \in Seq(OpType)
  BY DEF Loose, OpsFit, Ctl
<1>2. /\ c.queue \o t \in Seq(OpType)
      /\ Range(c.queue \o t) = Range(c.queue) \union Range(t)
      /\ Trailing(c.queue, c.repo) => Trailing(c.queue \o t, c.repo)
  BY <1>1, AddOps DEF OpsFit
<1>3. q \in Ctl
  BY <1>1, <1>2 DEF Ctl
<1>4. /\ q.queue = c.queue \o t
      /\ q.repo = c.repo /\ q.rows = c.rows /\ q.wish = c.wish
      /\ q.dirty = c.dirty /\ q.immediate = c.immediate /\ q.full = c.full
      /\ q.signals = c.signals /\ q.overflow = c.overflow
      /\ q.parsing = c.parsing /\ q.shown = c.shown
      /\ q.numstat = c.numstat /\ q.again = c.again
      /\ q.blank = c.blank /\ q.stale = c.stale
      /\ q.unread = c.unread /\ q.lost = c.lost
  BY <1>1 DEF Ctl
<1> HIDE DEF q
<1>5. Rooted(q, cur)
  BY <1>2, <1>4 DEF Loose, Rooted, OpsFit
<1>6. Ordered(q, cur)
  BY <1>2, <1>4 DEF Loose, Ordered
<1>7. TreeComing(q) /\ HeadComing(q)
  BY <1>2, <1>4 DEF Loose, TreeComing, HeadComing, Pending
<1>8. Due(c, cur) => Due(q, cur)
  BY <1>2, <1>4 DEF Due
<1>9. Panel(q, cur)
  BY <1>4, <1>8 DEF Loose, Panel
<1>10. Counted(q, cur)
  BY <1>4, <1>8 DEF Loose, Counted, PassCovers, Fine
<1>11. Listed(q, E, cur)
  BY <1>2, <1>4 DEF Loose, Listed
<1> QED
  BY <1>3, <1>5, <1>6, <1>7, <1>9, <1>10, <1>11 DEF Loose, q

\* A status of the current checkout in the queue makes up for what was not due.
LEMMA GrownByRefresh ==
    ASSUME NEW c \in Ctl, NEW E, NEW cur, NEW t, OpsFit(c, t),
           Rooted(c, cur), Listed(c, E, cur),
           Op("status", c.repo) \in Range(t),
           Op("head", c.repo) \in Range(t) \/ HeadComing(c)
    PROVE  Loose([c EXCEPT !.queue = @ \o t], E, cur)
<1> DEFINE q == [c EXCEPT !.queue = @ \o t]
<1>1. c.queue \in Seq(OpType) /\ t \in Seq(OpType)
  BY DEF OpsFit, Ctl
<1>2. /\ c.queue \o t \in Seq(OpType)
      /\ Range(c.queue \o t) = Range(c.queue) \union Range(t)
      /\ Trailing(c.queue \o t, c.repo)
  BY <1>1, AddOps DEF OpsFit
<1>3. q \in Ctl
  BY <1>1, <1>2 DEF Ctl
<1>4. /\ q.queue = c.queue \o t
      /\ q.repo = c.repo /\ q.rows = c.rows /\ q.wish = c.wish
      /\ q.dirty = c.dirty /\ q.immediate = c.immediate /\ q.full = c.full
      /\ q.signals = c.signals /\ q.overflow = c.overflow
      /\ q.unread = c.unread /\ q.lost = c.lost
  BY <1>1 DEF Ctl
<1> HIDE DEF q
<1>5. Rooted(q, cur)
  BY <1>2, <1>4 DEF Rooted, OpsFit
<1>6. Ordered(q, cur)
  BY <1>2, <1>4 DEF Ordered
<1>7. TreeComing(q)
  BY <1>2, <1>4 DEF TreeComing
<1>8. HeadComing(q)
  BY <1>2, <1>4 DEF HeadComing, Pending
<1>9. Panel(q, cur) /\ Counted(q, cur)
  BY <1>2, <1>4 DEF Due, Panel, Counted
<1>10. Listed(q, E, cur)
  BY <1>2, <1>4 DEF Listed
<1> QED
  BY <1>3, <1>5, <1>6, <1>7, <1>8, <1>9, <1>10 DEF Loose, q

\* enqueue, once the longer queue is known to be sound.
LEMMA EnqueueFrom ==
    ASSUME NEW c \in Ctl, Shape(c), NEW E, NEW cur \in OpType \union {Idle},
           c.busy \/ cur = c.current,
           NEW t \in Seq(OpType), Loose([c EXCEPT !.queue = @ \o t], E, cur)
    PROVE  LET r == Enqueue(c, t)
           IN  /\ Carries(c, cur, r, E)
               /\ t # <<>> => r.busy
               /\ Range(c.queue) \union Range(t) \subseteq Range(r.queue) \union {Held(c, cur, r)}
               /\ r.repo = c.repo /\ r.rows = c.rows /\ r.wish = c.wish /\ r.overflow = c.overflow
               /\ r.dirty = c.dirty /\ r.immediate = c.immediate /\ r.full = c.full
               /\ r.numstat = c.numstat /\ r.again = c.again
               /\ Armed(c) => Armed(r)
<1> DEFINE q == [c EXCEPT !.queue = @ \o t]
           r == Enqueue(c, t)
<1>1. q \in Ctl
  BY DEF Loose
<1>2. /\ q.queue = c.queue \o t /\ q.busy = c.busy /\ q.current = c.current
      /\ q.repo = c.repo /\ q.rows = c.rows /\ q.wish = c.wish /\ q.overflow = c.overflow
      /\ q.dirty = c.dirty /\ q.immediate = c.immediate /\ q.full = c.full
      /\ q.numstat = c.numstat /\ q.again = c.again
      /\ q.timer = c.timer /\ q.burst = c.burst /\ q.since = c.since
  BY DEF Ctl
<1>3. Range(c.queue \o t) = Range(c.queue) \union Range(t) /\ c.queue \in Seq(OpType)
  BY AddOps DEF Ctl
<1>4. r = IF c.busy \/ t = <<>> THEN q ELSE Begin(q)
  BY DEF Enqueue
<1> HIDE DEF q, r
<1>5. CASE c.busy
  <2>1. r = q
    BY <1>4, <1>5
  <2> QED
    BY <1>1, <1>2, <1>3, <1>5, <2>1 DEF Carries, Ready, Held, Shape, Armed, q, r
<1>6. CASE ~c.busy /\ t = <<>>
  <2>1. r = q
    BY <1>4, <1>6
  <2>2. c.queue = <<>> /\ c.current = Idle /\ c.wish = None /\ c.queue \o t = <<>>
    BY <1>3, <1>6, ConcatEmptySeq DEF Shape
  <2> QED
    BY <1>1, <1>2, <1>3, <1>6, <2>1, <2>2 DEF Carries, Ready, Held, Shape, Armed, q, r
<1>7. CASE ~c.busy /\ t # <<>>
  <2>1. r = Begin(q) /\ cur = Idle
    BY <1>4, <1>7 DEF Shape
  <2>2. q.queue # <<>>
    BY <1>2, <1>3, <1>7, AddOps
  <2>3. Loose(r, E, r.current) /\ r.busy /\ r.current \in OpType
    BY <2>1, <2>2, BeginLoose DEF q
  <2>4. /\ r.queue = Tail(q.queue) /\ r.current = Head(q.queue)
        /\ r.repo = q.repo /\ r.rows = q.rows /\ r.wish = q.wish /\ r.overflow = q.overflow
        /\ r.dirty = q.dirty /\ r.immediate = q.immediate /\ r.full = q.full
        /\ r.numstat = q.numstat /\ r.again = q.again
    BY <1>1, <2>1, <2>2, BeginFields
  <2>5. Range(q.queue) = {Head(q.queue)} \union Range(Tail(q.queue))
    BY <1>1, <2>2, TakeHead DEF Ctl
  <2> QED
    BY <1>2, <1>3, <1>7, <2>3, <2>4, <2>5 DEF Carries, Ready, Held, Shape, Armed, r
<1> QED
  BY <1>5, <1>6, <1>7

\* enqueue keeps everything Ready asks for, and loses no process.
LEMMA EnqueueReady ==
    ASSUME NEW c, NEW E, NEW cur, Ready(c, E, cur), NEW t, OpsFit(c, t)
    PROVE  LET r == Enqueue(c, t)
           IN  /\ Carries(c, cur, r, E)
               /\ t # <<>> => r.busy
               /\ Range(c.queue) \union Range(t) \subseteq Range(r.queue) \union {Held(c, cur, r)}
               /\ r.repo = c.repo /\ r.rows = c.rows /\ r.wish = c.wish /\ r.overflow = c.overflow
               /\ r.dirty = c.dirty /\ r.immediate = c.immediate /\ r.full = c.full
               /\ r.numstat = c.numstat /\ r.again = c.again
               /\ Armed(c) => Armed(r)
<1>1. /\ c \in Ctl /\ Loose(c, E, cur) /\ Shape(c) /\ cur \in OpType \union {Idle}
      /\ c.busy \/ cur = c.current
      /\ t \in Seq(OpType)
  BY DEF Ready, Loose, OpsFit
<1>2. Loose([c EXCEPT !.queue = @ \o t], E, cur)
  BY <1>1, Grown
<1> QED
  BY <1>1, <1>2, EnqueueFrom

-----------------------------------------------------------------------------
(* Refreshes *)

\* The processes of a refresh.
RefreshOps(r, full) ==
    <<Op("ignored", r)>>
      \o (IF full THEN <<Op("head", r), Op("refs", r)>> ELSE <<>>)
      \o <<Op("status", r)>>

\* What the processes of a refresh are.
LEMMA RefreshContents ==
    ASSUME NEW r \in Checkouts, NEW full \in BOOLEAN
    PROVE  LET t == RefreshOps(r, full)
           IN  /\ t \in Seq(OpType) /\ t # <<>>
               /\ Op("status", r) \in Range(t)
               /\ full => Op("head", r) \in Range(t)
               /\ \A e \in Range(t) : e.kind \in RefreshKinds /\ e.at = r
<1> DEFINE a == <<Op("ignored", r)>>
           m == IF full THEN <<Op("head", r), Op("refs", r)>> ELSE <<>>
           s == <<Op("status", r)>>
<1>1. \A k \in RefreshKinds : Op(k, r) \in OpType /\ Op(k, r).kind = k /\ Op(k, r).at = r
  BY OpEq DEF OpType, Op, Kinds
<1>2. {"ignored", "head", "refs", "status"} = RefreshKinds
  BY DEF RefreshKinds
<1> HIDE DEF Op, RefreshKinds
<1>3. a \in Seq(OpType) /\ s \in Seq(OpType) /\ m \in Seq(OpType)
  BY <1>1, <1>2
<1>4. Range(a) = {Op("ignored", r)} /\ Range(s) = {Op("status", r)}
  <2>1. \A x : x \in OpType => Range(<<x>>) = {x}
    <3> SUFFICES ASSUME NEW x \in OpType PROVE Range(<<x>>) = {x}
      OBVIOUS
    <3>1. <<x>> \in Seq(OpType) /\ Len(<<x>>) = 1 /\ <<x>>[1] = x
      OBVIOUS
    <3>2. Range(<<x>>) = {<<x>>[i] : i \in 1..Len(<<x>>)}
      BY <3>1, Contents
    <3> QED
      BY <3>1, <3>2
  <2> QED
    BY <1>1, <1>2, <2>1
<1>5. Range(m) = IF full THEN {Op("head", r), Op("refs", r)} ELSE {}
  <2>1. /\ full => Len(m) = 2 /\ m[1] = Op("head", r) /\ m[2] = Op("refs", r)
        /\ ~full => Len(m) = 0
    OBVIOUS
  <2> HIDE DEF m
  <2>2. Range(m) = {m[i] : i \in 1..Len(m)}
    BY <1>3, Contents
  <2>3. full => Range(m) = {m[1], m[2]}
    <3> SUFFICES ASSUME full PROVE Range(m) = {m[1], m[2]}
      OBVIOUS
    <3>1. Range(m) = {m[i] : i \in 1..2}
      BY <2>1, <2>2
    <3> QED
      BY <3>1
  <2> QED
    BY <2>1, <2>2, <2>3
<1>6. RefreshOps(r, full) = a \o m \o s
  BY DEF RefreshOps
<1>7. s # <<>>
  OBVIOUS
<1> HIDE DEF a, m, s
<1>8. /\ a \o m \in Seq(OpType) /\ Range(a \o m) = Range(a) \union Range(m)
      /\ (a \o m) \o s \in Seq(OpType)
      /\ Range((a \o m) \o s) = Range(a \o m) \union Range(s)
      /\ (a \o m) \o s # <<>>
  BY <1>3, <1>7, AddOps
<1> QED
  BY <1>1, <1>2, <1>4, <1>5, <1>6, <1>8

\* enqueueRefresh: whatever was not due before is due now.
LEMMA RefreshReady ==
    ASSUME NEW c \in Ctl, NEW E, NEW cur \in OpType \union {Idle},
           Shape(c), Rooted(c, cur), Listed(c, E, cur), c.busy \/ cur = c.current,
           c.repo # None, NEW full \in BOOLEAN, full \/ HeadComing(c)
    PROVE  LET r == enqueueRefresh(c, full)
           IN  /\ Carries(c, cur, r, E) /\ r.busy
               /\ r.repo = c.repo /\ r.rows = c.rows /\ r.wish = c.wish /\ r.overflow = c.overflow
               /\ Range(c.queue) \subseteq Range(r.queue) \union {Held(c, cur, r)}
<1> DEFINE t == RefreshOps(c.repo, full)
           r == enqueueRefresh(c, full)
<1>1. c.repo \in Checkouts
  BY DEF Ctl, Places
<1>2. /\ t \in Seq(OpType) /\ t # <<>>
      /\ Op("status", c.repo) \in Range(t)
      /\ full => Op("head", c.repo) \in Range(t)
      /\ \A e \in Range(t) : e.kind \in RefreshKinds /\ e.at = c.repo
  BY <1>1, RefreshContents
<1>3. r = Enqueue(c, t)
  BY DEF enqueueRefresh, RefreshOps
<1> HIDE DEF t, r
<1>4. OpsFit(c, t)
  BY <1>2 DEF OpsFit, RefreshKinds
<1>5. Loose([c EXCEPT !.queue = @ \o t], E, cur)
  BY <1>2, <1>4, GrownByRefresh
<1>6. /\ Carries(c, cur, r, E) /\ r.busy
      /\ r.repo = c.repo /\ r.rows = c.rows /\ r.wish = c.wish /\ r.overflow = c.overflow
      /\ Range(c.queue) \union Range(t) \subseteq Range(r.queue) \union {Held(c, cur, r)}
  BY <1>2, <1>3, <1>5, EnqueueFrom
<1> QED
  BY <1>6 DEF r

\* What decides Loose, the coalescer's fields apart.
Alike(c, d) ==
    /\ d \in Ctl
    /\ d.queue = c.queue /\ d.repo = c.repo /\ d.rows = c.rows /\ d.wish = c.wish
    /\ d.signals = c.signals /\ d.overflow = c.overflow
    /\ d.parsing = c.parsing /\ d.shown = c.shown
    /\ d.numstat = c.numstat /\ d.again = c.again
    /\ d.blank = c.blank /\ d.stale = c.stale
    /\ d.unread = c.unread /\ d.lost = c.lost

\* Loose carries over to a controller that differs in its burst or pass only,
\* provided no burst and no full refresh is given up.
LEMMA AlikeLoose ==
    ASSUME NEW c, NEW d, NEW E, NEW cur, Loose(c, E, cur), Alike(c, d),
           Pending(c) => Pending(d), c.full => d.full
    PROVE  Loose(d, E, cur)
<1>1. Rooted(d, cur) /\ Ordered(d, cur) /\ Panel(d, cur) /\ Listed(d, E, cur)
  BY DEF Loose, Alike, Rooted, Ordered, Panel, Due, Listed
<1>2. Counted(d, cur)
  BY DEF Loose, Alike, Counted, Due, PassCovers, Fine
<1>3. TreeComing(d) /\ HeadComing(d)
  BY DEF Loose, Alike, TreeComing, HeadComing
<1> QED
  BY <1>1, <1>2, <1>3 DEF Loose, Alike

\* Loose, but for changes nobody has promised to read.
Nearly(c, E, cur) ==
    /\ c \in Ctl /\ Rooted(c, cur) /\ Ordered(c, cur)
    /\ Panel(c, cur) /\ Counted(c, cur) /\ Listed(c, E, cur)

\* The same for Nearly, which does not read the burst.
LEMMA AlikeNearly ==
    ASSUME NEW c, NEW d, NEW E, NEW cur, Nearly(c, E, cur), Alike(c, d)
    PROVE  Nearly(d, E, cur)
<1>1. Rooted(d, cur) /\ Ordered(d, cur) /\ Panel(d, cur) /\ Listed(d, E, cur)
  BY DEF Nearly, Alike, Rooted, Ordered, Panel, Due, Listed
<1>2. Counted(d, cur)
  BY DEF Nearly, Alike, Counted, Due, PassCovers, Fine
<1> QED
  BY <1>1, <1>2 DEF Nearly, Alike

\* startRefresh of an idle controller.
LEMMA StartReady ==
    ASSUME NEW c \in Ctl, NEW E, ~c.busy, Shape(c), Rooted(c, c.current),
           Listed(c, E, c.current), c.repo # None,
           c.full \/ HeadComing(c) \/ "head" \notin c.unread
                  \/ "head" \in c.signals \union c.lost
    PROVE  LET r == startRefresh(c)
           IN  /\ Carries(c, c.current, r, E) /\ r.busy
               /\ r.repo = c.repo /\ r.rows = c.rows /\ r.wish = c.wish /\ r.overflow = c.overflow
<1> DEFINE x == [Acknowledged(c) EXCEPT !.timer = -1, !.full = FALSE]
           r == startRefresh(c)
<1>1. 0 \in 0..Quiet /\ 0 \in Nat /\ -1 \in -1..Quiet
  BY GitAssumption
<1>2. /\ x \in Ctl
      /\ x.queue = c.queue /\ x.busy = c.busy /\ x.current = c.current
      /\ x.repo = c.repo /\ x.rows = c.rows /\ x.wish = c.wish
      /\ x.signals = c.signals /\ x.overflow = c.overflow
      /\ x.unread = c.unread /\ x.lost = c.lost
  BY <1>1 DEF Ctl, Acknowledged
<1>3. r = enqueueRefresh(x, c.full)
  BY DEF startRefresh
<1>4. c.full \in BOOLEAN /\ c.current \in OpType \union {Idle}
  BY DEF Ctl
<1> HIDE DEF x, r
<1>5. Shape(x) /\ Rooted(x, c.current) /\ Listed(x, E, c.current)
  BY <1>2 DEF Shape, Rooted, Listed
<1>6. c.full \/ HeadComing(x)
  <2>1. c.queue = <<>> /\ Range(c.queue) = {}
    <3>1. c.queue = <<>>
      BY DEF Shape
    <3> QED
      BY <3>1, EmptyRange
  <2> QED
    BY <1>2, <2>1 DEF HeadComing
<1>7. /\ Carries(x, c.current, r, E) /\ r.busy
      /\ r.repo = x.repo /\ r.rows = x.rows /\ r.wish = x.wish /\ r.overflow = x.overflow
  BY <1>2, <1>3, <1>4, <1>5, <1>6, RefreshReady
<1>8. Carries(c, c.current, r, E)
  BY <1>2, <1>7 DEF Carries, Held
<1> QED
  BY <1>2, <1>7, <1>8 DEF r

\* refresh: everything unread is read by a refresh queued or asked for.
LEMMA RefreshAll ==
    ASSUME NEW c, NEW E, NEW cur \in OpType \union {Idle}, Nearly(c, E, cur), Shape(c),
           c.busy \/ cur = c.current, c.repo = None => Loose(c, E, cur)
    PROVE  LET r == refresh(c)
           IN  /\ Carries(c, cur, r, E)
               /\ c.repo # None => r.busy
               /\ r.repo = c.repo /\ r.rows = c.rows /\ r.wish = c.wish /\ r.overflow = c.overflow
               /\ Armed(c) => Armed(r)
<1> DEFINE f == [c EXCEPT !.full = TRUE]
           d == [f EXCEPT !.immediate = TRUE]
           r == refresh(c)
<1>1. c \in Ctl
  BY DEF Nearly
<1>2. /\ Alike(c, f) /\ f.busy = c.busy /\ f.current = c.current /\ f.full = TRUE
      /\ Alike(c, d) /\ d.busy = c.busy /\ d.current = c.current /\ d.full = TRUE
      /\ d.immediate = TRUE
  BY <1>1 DEF Ctl, Alike
<1>3. r = IF c.repo = None THEN c ELSE startRefresh(f)
  BY DEF refresh
<1>4. f.busy => startRefresh(f) = d
  BY DEF startRefresh
<1> HIDE DEF f, d, r
<1>5. CASE c.repo = None
  BY <1>3, <1>5 DEF Carries, Ready, Held, r
<1>6. CASE c.repo # None /\ c.busy
  <2>1. r = d
    BY <1>2, <1>3, <1>4, <1>6
  <2>2. Nearly(d, E, cur)
    BY <1>2, AlikeNearly
  <2>3. TreeComing(d) /\ HeadComing(d)
    BY <1>2 DEF TreeComing, HeadComing, Pending
  <2> QED
    BY <1>2, <1>6, <2>1, <2>2, <2>3
       DEF Carries, Ready, Held, Shape, Armed, Alike, Nearly, Loose, r
<1>7. CASE c.repo # None /\ ~c.busy
  <2>1. r = startRefresh(f) /\ cur = c.current
    BY <1>3, <1>7
  <2>2. Nearly(f, E, cur)
    BY <1>2, AlikeNearly
  <2>3. f \in Ctl /\ ~f.busy /\ Shape(f) /\ Rooted(f, f.current) /\ Listed(f, E, f.current)
        /\ f.repo # None
    BY <1>2, <1>7, <2>1, <2>2 DEF Shape, Nearly, Alike
  <2>4. /\ Carries(f, f.current, r, E) /\ r.busy
        /\ r.repo = f.repo /\ r.rows = f.rows /\ r.wish = f.wish /\ r.overflow = f.overflow
    BY <1>2, <2>1, <2>3, StartReady
  <2>5. Carries(c, cur, r, E)
    BY <1>2, <2>1, <2>4 DEF Carries, Held
  <2> QED
    BY <1>2, <1>7, <2>4, <2>5 DEF Alike, Armed, r
<1> QED
  BY <1>5, <1>6, <1>7

\* applyCoalescedRefresh: the burst is refreshed, or the quiet timer armed.
LEMMA CoalesceReady ==
    ASSUME NEW c, NEW E, Loose(c, E, c.current), Shape(c), NEW fires \in BOOLEAN,
           fires => ~c.busy,
           ~c.busy /\ ~fires => ~c.immediate /\ (c.dirty => c.burst < MaxWait)
    PROVE  LET r == applyCoalescedRefresh(c, fires)
           IN  /\ Carries(c, c.current, r, E) /\ Armed(r)
               /\ r.repo = c.repo /\ r.rows = c.rows /\ r.wish = c.wish /\ r.overflow = c.overflow
<1> DEFINE f == [Acknowledged(c) EXCEPT !.timer = -1]
           d == [c EXCEPT !.timer = Quiet]
           r == applyCoalescedRefresh(c, fires)
<1>1. c \in Ctl /\ c.current \in OpType \union {Idle}
  BY DEF Loose, Ctl
<1>2. 0 \in 0..Quiet /\ 0 \in Nat /\ -1 \in -1..Quiet /\ Quiet \in -1..Quiet /\ Quiet \in Nat
  BY GitAssumption
<1>3. /\ Alike(c, f) /\ f.busy = c.busy /\ f.current = c.current /\ f.full = c.full
      /\ f.dirty = FALSE /\ f.immediate = FALSE
  BY <1>1, <1>2 DEF Ctl, Alike, Acknowledged
<1>4. /\ Alike(c, d) /\ d.busy = c.busy /\ d.current = c.current /\ d.full = c.full
      /\ d.dirty = c.dirty /\ d.immediate = c.immediate
      /\ d.timer = Quiet /\ d.burst = c.burst /\ d.since = c.since
  BY <1>1, <1>2 DEF Ctl, Alike
<1>5. r = IF fires THEN IF c.repo = None THEN f ELSE startRefresh(f)
          ELSE IF Pending(c) THEN d ELSE c
  BY DEF applyCoalescedRefresh
<1> HIDE DEF f, d, r
<1>6. CASE fires /\ c.repo = None
  <2>1. r = f
    BY <1>5, <1>6
  <2>2. Nearly(c, E, c.current) /\ c.unread = {}
    BY <1>6 DEF Loose, Nearly, Rooted
  <2>3. Nearly(f, E, c.current)
    BY <1>3, <2>2, AlikeNearly
  <2>4. TreeComing(f) /\ HeadComing(f)
    BY <1>3, <2>2 DEF Alike, TreeComing, HeadComing
  <2>5. Loose(f, E, c.current)
    BY <2>3, <2>4 DEF Nearly, Loose
  <2> QED
    BY <1>1, <1>3, <2>1, <2>5 DEF Carries, Ready, Held, Shape, Armed, Alike, r
<1>7. CASE fires /\ c.repo # None
  <2>1. r = startRefresh(f) /\ ~c.busy
    BY <1>5, <1>7
  <2>2. Nearly(c, E, c.current)
    BY DEF Loose, Nearly
  <2>3. Nearly(f, E, c.current)
    BY <1>3, <2>2, AlikeNearly
  <2>4. /\ f \in Ctl /\ ~f.busy /\ Shape(f) /\ Rooted(f, f.current) /\ Listed(f, E, f.current)
        /\ f.repo # None
    BY <1>3, <1>7, <2>1, <2>3 DEF Shape, Nearly, Alike
  <2>5. f.full \/ HeadComing(f)
    BY <1>3 DEF Loose, Alike, HeadComing
  <2>6. /\ Carries(f, f.current, r, E) /\ r.busy
        /\ r.repo = f.repo /\ r.rows = f.rows /\ r.wish = f.wish /\ r.overflow = f.overflow
    BY <2>1, <2>4, <2>5, StartReady
  <2> QED
    BY <1>3, <2>6 DEF Carries, Held, Alike, Armed, r
<1>8. CASE ~fires /\ Pending(c)
  <2>1. r = d
    BY <1>5, <1>8
  <2>2. Loose(d, E, c.current)
    BY <1>4, AlikeLoose DEF Pending
  <2>3. Armed(d)
    BY <1>1, <1>2, <1>4, <1>8, GitAssumption DEF Armed, Ctl
  <2> QED
    BY <1>1, <1>4, <2>1, <2>2, <2>3 DEF Carries, Ready, Held, Shape, Alike, r
<1>9. CASE ~fires /\ ~Pending(c)
  <2>1. r = c
    BY <1>5, <1>9
  <2> QED
    BY <1>1, <1>9, <2>1 DEF Carries, Ready, Held, Armed, Pending, r
<1> QED
  BY <1>6, <1>7, <1>8, <1>9

\* onDirty, for a change of the tree, or of anything if the refresh is full.
LEMMA DirtyReady ==
    ASSUME NEW c, NEW E, Nearly(c, E, c.current), Shape(c), Armed(c),
           c.full \/ HeadComing(c)
    PROVE  LET r == onDirty(c)
           IN  /\ Carries(c, c.current, r, E) /\ Armed(r)
               /\ r.repo = c.repo /\ r.rows = c.rows /\ r.wish = c.wish /\ r.overflow = c.overflow
<1> DEFINE d == [c EXCEPT !.dirty = TRUE, !.since = 0, !.burst = IF c.dirty THEN @ ELSE 0]
           fires == ~d.busy /\ d.burst >= MaxWait
           r == onDirty(c)
<1>1. c \in Ctl /\ c.current \in OpType \union {Idle} /\ c.burst \in Nat
  BY DEF Nearly, Ctl
<1>2. 0 \in 0..Quiet /\ 0 \in Nat
  BY GitAssumption
<1>3. /\ Alike(c, d) /\ d.busy = c.busy /\ d.current = c.current /\ d.full = c.full
      /\ d.dirty = TRUE /\ d.immediate = c.immediate /\ d.burst \in Nat
  BY <1>1, <1>2 DEF Ctl, Alike
<1>4. r = applyCoalescedRefresh(d, fires)
  BY DEF onDirty
<1> HIDE DEF d, r
<1>5. Nearly(d, E, c.current)
  BY <1>3, AlikeNearly
<1>6. TreeComing(d) /\ HeadComing(d)
  BY <1>3 DEF Alike, TreeComing, HeadComing, Pending
<1>7. Loose(d, E, d.current) /\ Shape(d)
  BY <1>3, <1>5, <1>6 DEF Nearly, Loose, Shape, Alike
<1>8. /\ fires \in BOOLEAN /\ fires => ~d.busy
      /\ ~d.busy /\ ~fires => ~d.immediate /\ (d.dirty => d.burst < MaxWait)
  BY <1>3, GitAssumption DEF Armed
<1>9. /\ Carries(d, d.current, r, E) /\ Armed(r)
      /\ r.repo = d.repo /\ r.rows = d.rows /\ r.wish = d.wish /\ r.overflow = d.overflow
  <2>1. PICK b \in BOOLEAN : b = fires
    BY <1>8
  <2>2. /\ b => ~d.busy
        /\ ~d.busy /\ ~b => ~d.immediate /\ (d.dirty => d.burst < MaxWait)
    BY <1>8, <2>1
  <2>3. r = applyCoalescedRefresh(d, b)
    BY <1>4, <2>1
  <2> QED
    BY <1>7, <2>2, <2>3, CoalesceReady
<1> QED
  BY <1>3, <1>9 DEF Carries, Held, Alike, r

-----------------------------------------------------------------------------
(* The list of checkouts *)

\* SetToSeq of a finite set is a sequence over it.
LEMMA SequenceOf ==
    ASSUME NEW S, IsFiniteSet(S)
    PROVE  SetToSeq(S) \in Seq(S) /\ (S # {} => SetToSeq(S) # <<>>)
<1> DEFINE n == Cardinality(S)
<1>1. n \in Nat /\ ExistsBijection(1..n, S) /\ (n = 0 <=> S = {})
  BY FS_CardinalityType, FS_EmptySet
<1> HIDE DEF n
<1>2. \E f \in [1..n -> S] : IsInjective(f)
  BY <1>1 DEF ExistsBijection, Bijection, Injection
<1>3. SetToSeq(S) = CHOOSE f \in [1..n -> S] : IsInjective(f)
  BY DEF SetToSeq, n
<1>4. SetToSeq(S) \in [1..n -> S]
  BY <1>2, <1>3
<1> HIDE DEF SetToSeq
<1>5. SetToSeq(S) \in Seq(S) /\ Len(SetToSeq(S)) = n
  BY <1>1, <1>4
<1> QED
  BY <1>1, <1>5, EmptySeq

\* A worktree list of each owner is queued already or is asked for.
LEMMA ListsContents ==
    ASSUME NEW c \in Ctl, NEW owners \in SUBSET Checkouts, IsFiniteSet(owners)
    PROVE  LET t == WorktreeLists(c, owners)
           IN  /\ t \in Seq(OpType)
               /\ \A e \in Range(t) : e.kind = "worktrees"
               /\ \A o \in owners : Op("worktrees", o) \in Range(c.queue) \/ t # <<>>
<1> DEFINE I == {Op("worktrees", o) : o \in owners}
           S == {op \in I : op \notin Range(c.queue)}
           f == [o \in owners |-> Op("worktrees", o)]
           t == WorktreeLists(c, owners)
<1>1. f \in Surjection(owners, I)
  BY DEF Surjection
<1>2. IsFiniteSet(I)
  BY <1>1, FS_Surjection
<1>3. IsFiniteSet(S)
  BY <1>2, FS_Subset
<1>4. t = SetToSeq(S)
  BY DEF WorktreeLists
<1>5. \A e \in S : e \in OpType /\ e.kind = "worktrees"
  BY OpEq DEF OpType, Op, Kinds
<1>6. \A o \in owners : Op("worktrees", o) \in Range(c.queue) \/ S # {}
  OBVIOUS
<1> HIDE DEF S, t
<1>7. t \in Seq(S) /\ (S # {} => t # <<>>)
  BY <1>3, <1>4, SequenceOf
<1>8. Range(t) \subseteq S
  BY <1>7, RangeOfSeq
<1>9. t \in Seq(OpType)
  BY <1>5, <1>7, SeqMonotonic
<1> QED
  BY <1>5, <1>6, <1>7, <1>8, <1>9 DEF t

\* The main checkout's list is queued, or was already.
LEMMA MainListed ==
    ASSUME NEW c \in Ctl
    PROVE  LET t == WorktreeLists(c, {Main})
           IN  Op("worktrees", Main) \in Range(c.queue) \union Range(t)
<1> DEFINE t == WorktreeLists(c, {Main})
           S == {op \in {Op("worktrees", o) : o \in {Main}} : op \notin Range(c.queue)}
<1>1. {Main} \in SUBSET Checkouts /\ IsFiniteSet({Main})
  BY FS_Singleton DEF Checkouts
<1>2. t \in Seq(OpType) /\ (Op("worktrees", Main) \in Range(c.queue) \/ t # <<>>)
  BY <1>1, ListsContents
<1>3. IsFiniteSet(S) /\ S \subseteq {Op("worktrees", Main)} /\ t = SetToSeq(S)
  <2>1. S \subseteq {Op("worktrees", Main)}
    OBVIOUS
  <2> QED
    BY <2>1, FS_Singleton, FS_Subset DEF WorktreeLists
<1> HIDE DEF S, t
<1>4. CASE t # <<>>
  <2>1. t \in Seq(S)
    BY <1>3, SequenceOf
  <2>2. 1 \in 1..Len(t) /\ t[1] \in S
    BY <1>4, <2>1, EmptySeq
  <2>3. t[1] \in Range(t)
    BY <1>2, <2>2, Contents
  <2> QED
    BY <1>3, <2>2, <2>3 DEF t
<1> QED
  BY <1>2, <1>4 DEF t

\* enqueueWorktreeList, on whatever the controller promised of the lists before.
LEMMA ListReady ==
    ASSUME NEW c, NEW E, NEW D, NEW cur, Ready(c, D, cur), c.rows # {}
    PROVE  LET r == enqueueWorktreeList(c)
           IN  /\ Carries(c, cur, r, E)
               /\ c.queue = <<>> => r.busy
               /\ r.repo = c.repo /\ r.rows = c.rows /\ r.wish = c.wish /\ r.overflow = c.overflow
               /\ Op("worktrees", Main) \in Range(r.queue) \union {Held(c, cur, r)}
               /\ Armed(c) => Armed(r)
<1> DEFINE a == WorktreeLists(c, {Main})
           s == WorktreeLists(c, Submodules \intersect c.rows)
           t == a \o s
           r == enqueueWorktreeList(c)
<1>1. c \in Ctl /\ c.queue \in Seq(OpType)
  BY DEF Ready, Loose, Ctl
<1>2. /\ a \in Seq(OpType) /\ \A e \in Range(a) : e.kind = "worktrees"
      /\ Op("worktrees", Main) \in Range(c.queue) \union Range(a)
  <2>1. {Main} \in SUBSET Checkouts /\ IsFiniteSet({Main})
    BY FS_Singleton DEF Checkouts
  <2> QED
    BY <1>1, <2>1, ListsContents, MainListed
<1>3. s \in Seq(OpType) /\ \A e \in Range(s) : e.kind = "worktrees"
  <2>1. Submodules \intersect c.rows \in SUBSET Checkouts
    BY DEF Checkouts
  <2>2. IsFiniteSet(Submodules \intersect c.rows)
    BY GitAssumption, FS_Intersection
  <2> QED
    BY <1>1, <2>1, <2>2, ListsContents
<1>4. r = Enqueue(c, t)
  BY DEF enqueueWorktreeList
<1> HIDE DEF a, s, r
<1>5. t \in Seq(OpType) /\ Range(t) = Range(a) \union Range(s)
  BY <1>2, <1>3, AddOps
<1> HIDE DEF t
<1>6. OpsFit(c, t)
  <2>1. c.repo # None
    BY DEF Ready, Loose, Rooted
  <2> QED
    BY <1>2, <1>3, <1>5, <2>1 DEF OpsFit
<1>7. /\ Carries(c, cur, r, D)
      /\ t # <<>> => r.busy
      /\ Range(c.queue) \union Range(t) \subseteq Range(r.queue) \union {Held(c, cur, r)}
      /\ r.repo = c.repo /\ r.rows = c.rows /\ r.wish = c.wish /\ r.overflow = c.overflow
      /\ Armed(c) => Armed(r)
  BY <1>4, <1>6, EnqueueReady
<1>8. Op("worktrees", Main) \in Range(r.queue) \union {Held(c, cur, r)}
  BY <1>2, <1>5, <1>7
<1>9. Carries(c, cur, r, E)
  BY <1>7, <1>8 DEF Carries, Ready, Loose, Listed
<1>10. ASSUME c.queue = <<>> PROVE r.busy
  <2>1. Range(<<>>) = {} /\ (t = <<>> => Range(t) = {})
    BY EmptyRange
  <2> QED
    BY <1>2, <1>5, <1>7, <1>10, <2>1
<1> QED
  BY <1>7, <1>8, <1>9, <1>10 DEF r

\* A controller on a list of checkouts nobody has looked at yet.
LEMMA AnyList ==
    ASSUME NEW c, NEW E, NEW cur, Loose(c, E, cur)
    PROVE  Loose(c, Checkouts, cur)
  BY DEF Loose, Listed, Ctl, Places

\* reposUpdated, while a process still counts as running: the tab leaves a wish
\* for a checkout that exists, or is on one.
LEMMA ReposReady ==
    ASSUME NEW c, NEW E, NEW D, NEW cur, Ready(c, D, cur), c.busy, c.repo # None, World(E)
    PROVE  LET r == onReposUpdated(c, E)
           IN  /\ Carries(c, cur, r, E) /\ r.busy
               /\ r.repo = c.repo /\ r.rows = c.rows /\ r.queue = c.queue
<1> DEFINE p == CASE c.repo \in c.rows -> c.repo
                  [] c.repo \notin c.rows /\ c.saved \in c.rows -> c.saved
                  [] OTHER -> Main
           o == [c EXCEPT !.overflow = TRUE]
           v == IF p = c.repo THEN None ELSE p
           w == [c EXCEPT !.wish = v]
           r == onReposUpdated(c, E)
<1>1. c \in Ctl /\ c.rows # {} /\ c.rows \subseteq Checkouts
  BY DEF Ready, Loose, Rooted, Ctl
<1>2. p \in Checkouts
  BY <1>1 DEF Checkouts
<1>3. r = IF p \notin E THEN o ELSE w
  BY <1>1 DEF onReposUpdated
<1>4. None \notin Checkouts
  BY GitAssumption DEF Checkouts, Main, None
<1> HIDE DEF p, r
<1>7. v \in Places
  BY <1>2 DEF Places
<1>5. CASE p \notin E
  <2>1. /\ o \in Ctl /\ o.overflow = TRUE /\ o.wish = c.wish
        /\ o.queue = c.queue /\ o.busy = c.busy /\ o.current = c.current
        /\ o.repo = c.repo /\ o.rows = c.rows
        /\ o.signals = c.signals /\ o.unread = c.unread /\ o.lost = c.lost
        /\ o.dirty = c.dirty /\ o.immediate = c.immediate /\ o.full = c.full
        /\ o.parsing = c.parsing /\ o.shown = c.shown
        /\ o.numstat = c.numstat /\ o.again = c.again
        /\ o.blank = c.blank /\ o.stale = c.stale
    BY <1>1 DEF Ctl
  <2> HIDE DEF o
  <2>2. r = o
    BY <1>3, <1>5
  <2>3. Rooted(o, cur) /\ Ordered(o, cur) /\ TreeComing(o) /\ HeadComing(o)
        /\ Panel(o, cur) /\ Listed(o, E, cur)
    BY <2>1 DEF Ready, Loose, Rooted, Ordered, TreeComing, HeadComing, Pending, Panel, Due, Listed
  <2>4. Counted(o, cur)
    BY <2>1 DEF Ready, Loose, Counted, Due, PassCovers, Fine
  <2> QED
    BY <2>1, <2>2, <2>3, <2>4 DEF Carries, Ready, Held, Loose, Shape, r
<1>6. CASE p \in E
  <2> HIDE DEF v
  <2>1. /\ w \in Ctl /\ w.overflow = c.overflow /\ w.wish = v
        /\ w.queue = c.queue /\ w.busy = c.busy /\ w.current = c.current
        /\ w.repo = c.repo /\ w.rows = c.rows
        /\ w.signals = c.signals /\ w.unread = c.unread /\ w.lost = c.lost
        /\ w.dirty = c.dirty /\ w.immediate = c.immediate /\ w.full = c.full
        /\ w.parsing = c.parsing /\ w.shown = c.shown
        /\ w.numstat = c.numstat /\ w.again = c.again
        /\ w.blank = c.blank /\ w.stale = c.stale
    BY <1>1, <1>7 DEF Ctl
  <2>2. r = w
    BY <1>3, <1>6 DEF v
  <2> HIDE DEF w
  <2> USE DEF v
  <2>3. Rooted(w, cur) /\ Ordered(w, cur) /\ TreeComing(w) /\ HeadComing(w)
        /\ Panel(w, cur)
    BY <2>1 DEF Ready, Loose, Rooted, Ordered, TreeComing, HeadComing, Pending, Panel, Due
  <2>4. Counted(w, cur)
    BY <2>1 DEF Ready, Loose, Counted, Due, PassCovers, Fine
  <2>5. Listed(w, E, cur)
    BY <1>2, <1>4, <1>6, <2>1 DEF Listed
  <2> QED
    BY <2>1, <2>2, <2>3, <2>4, <2>5 DEF Carries, Ready, Held, Loose, Shape, r
<1> QED
  BY <1>5, <1>6

\* recoverMissingCheckout: the list it asks for is running or queued.
LEMMA RecoverReady ==
    ASSUME NEW c, NEW E, NEW D, NEW cur, Ready(c, D, cur), c.repo # None, World(E),
           c.busy \/ c.queue = <<>>
    PROVE  LET r == recoverMissingCheckout(c, E)
           IN  Carries(c, cur, r, E) /\ r.busy
<1> DEFINE l == enqueueWorktreeList(c)
           m == IF c.repo = Main THEN l ELSE [l EXCEPT !.wish = Main]
           h == Held(c, cur, l)
           r == recoverMissingCheckout(c, E)
<1>1. c.rows # {}
  BY DEF Ready, Loose, Rooted
<1>2. Carries(c, cur, l, Checkouts) /\ (c.queue = <<>> => l.busy) /\ l.repo = c.repo
  BY <1>1, ListReady
<1>3. l.busy /\ Ready(l, Checkouts, h)
  BY <1>2 DEF Carries
<1>4. r = onReposUpdated(m, E)
  BY DEF recoverMissingCheckout
<1> HIDE DEF l, r
<1>5. Ready(m, Checkouts, h) /\ m.busy /\ m.repo = c.repo /\ m.current = l.current
  <2>1. CASE c.repo = Main
    BY <1>2, <1>3, <2>1
  <2>2. CASE c.repo # Main
    <3> DEFINE w == [l EXCEPT !.wish = Main]
    <3>1. l \in Ctl /\ Main \in Places
      BY <1>3 DEF Ready, Loose, Checkouts, Places
    <3>2. /\ w \in Ctl /\ w.wish = Main /\ w.overflow = l.overflow
          /\ w.queue = l.queue /\ w.busy = l.busy /\ w.current = l.current
          /\ w.repo = l.repo /\ w.rows = l.rows
          /\ w.signals = l.signals /\ w.unread = l.unread /\ w.lost = l.lost
          /\ w.dirty = l.dirty /\ w.immediate = l.immediate /\ w.full = l.full
          /\ w.parsing = l.parsing /\ w.shown = l.shown
          /\ w.numstat = l.numstat /\ w.again = l.again
          /\ w.blank = l.blank /\ w.stale = l.stale
      BY <3>1 DEF Ctl
    <3>3. m = w
      BY <2>2
    <3> HIDE DEF w, m
    <3>4. Rooted(w, h) /\ Ordered(w, h) /\ TreeComing(w) /\ HeadComing(w)
          /\ Panel(w, h)
      BY <1>2, <1>3, <3>2 DEF Ready, Loose, Rooted, Ordered, TreeComing, HeadComing, Pending, Panel, Due
    <3>5. Counted(w, h)
      BY <1>3, <3>2 DEF Ready, Loose, Counted, Due, PassCovers, Fine
    <3>6. Listed(w, Checkouts, h)
      BY <3>2 DEF Listed, Ctl, Places
    <3> QED
      BY <1>2, <1>3, <3>2, <3>3, <3>4, <3>5, <3>6 DEF Ready, Loose, Shape
  <2> QED
    BY <2>1, <2>2
<1> HIDE DEF m
<1>6. Carries(m, h, r, E) /\ r.busy
  BY <1>4, <1>5, ReposReady
<1> QED
  BY <1>2, <1>5, <1>6 DEF Carries, Held, r, h

\* applySelectRepo: the new checkout is refreshed in full, or the missing one
\* is looked for.
LEMMA SelectReady ==
    ASSUME NEW c, NEW E, NEW D, NEW cur, Ready(c, D, cur), c.repo # None, World(E),
           c.busy \/ c.queue = <<>>, NEW p \in Checkouts
    PROVE  LET r == applySelectRepo(c, p, E)
           IN  Carries(c, cur, r, E) /\ r.busy
<1> DEFINE a == Acknowledged(c)
           out == c.outdated \union ({c.parsing} \ {None})
           lost == c.lost \ {"tree", "head"}
           s == [a EXCEPT !.repo = p, !.timer = -1, !.full = FALSE, !.signals = {}]
           y == [s EXCEPT !.known = FALSE, !.parsing = None, !.outdated = out]
           x == [y EXCEPT !.numstat = "off", !.again = FALSE, !.blank = Sides,
                          !.unread = {"tree", "head"}, !.lost = lost]
           r == applySelectRepo(c, p, E)
<1>1. CASE p \notin E
  BY <1>1, RecoverReady DEF applySelectRepo
<1>2. CASE p \in E
  <2>1. r = enqueueRefresh(x, TRUE)
    <3>1. a.outdated = c.outdated /\ a.lost = c.lost
      BY DEF Ready, Loose, Ctl, Acknowledged
    <3> DEFINE z == [a EXCEPT !.repo = p, !.timer = -1, !.full = FALSE,
                        !.signals = {}, !.known = FALSE, !.parsing = None,
                        !.outdated = a.outdated \union ({c.parsing} \ {None}),
                        !.numstat = "off", !.again = FALSE, !.blank = Sides,
                        !.unread = {"tree", "head"}, !.lost = a.lost \ {"tree", "head"}]
    <3>2. r = enqueueRefresh(z, TRUE)
      BY <1>2 DEF applySelectRepo
    <3>3. z = x
      <4>1. z = [a EXCEPT !.repo = p, !.timer = -1, !.full = FALSE,
                        !.signals = {}, !.known = FALSE, !.parsing = None,
                        !.outdated = out,
                        !.numstat = "off", !.again = FALSE, !.blank = Sides,
                        !.unread = {"tree", "head"}, !.lost = lost]
        BY <3>1
      <4> HIDE DEF a, out, lost, z
      <4> QED
        BY <4>1
    <3> QED
      BY <3>2, <3>3
  <2>2. /\ c \in Ctl /\ 0 \in 0..Quiet /\ 0 \in Nat /\ -1 \in -1..Quiet
        /\ p \in Places /\ None \in Places /\ p # None
        /\ out \in SUBSET Checkouts
        /\ {} \in SUBSET Signals /\ Sides \in SUBSET Sides
        /\ {"tree", "head"} \in SUBSET {"tree", "head"}
        /\ lost \in SUBSET Losses /\ "off" \in Sides \union {"off"}
    BY GitAssumption DEF Ready, Loose, Ctl, Places, Checkouts, Main, None
  <2>3. /\ x \in Ctl /\ x.queue = c.queue /\ x.busy = c.busy /\ x.current = c.current
        /\ x.rows = c.rows /\ x.wish = c.wish /\ x.repo = p
    <3>1. /\ a \in Ctl /\ a.queue = c.queue /\ a.busy = c.busy /\ a.current = c.current
          /\ a.rows = c.rows /\ a.wish = c.wish
      BY <2>2 DEF Ctl, Acknowledged
    <3> HIDE DEF a, out, lost
    <3>4. /\ s \in Ctl /\ s.queue = a.queue /\ s.busy = a.busy /\ s.current = a.current
          /\ s.rows = a.rows /\ s.wish = a.wish /\ s.repo = p
      BY <2>2, <3>1 DEF Ctl
    <3> HIDE DEF s
    <3>2. /\ y \in Ctl /\ y.queue = s.queue /\ y.busy = s.busy /\ y.current = s.current
          /\ y.rows = s.rows /\ y.wish = s.wish /\ y.repo = s.repo
      BY <2>2, <3>4 DEF Ctl
    <3> HIDE DEF y
    <3>3. /\ x \in Ctl /\ x.queue = y.queue /\ x.busy = y.busy /\ x.current = y.current
          /\ x.rows = y.rows /\ x.wish = y.wish /\ x.repo = y.repo
      BY <2>2, <3>2 DEF Ctl
    <3> QED
      BY <3>1, <3>2, <3>3, <3>4
  <2> HIDE DEF x, r
  <2>4. Shape(x) /\ Rooted(x, cur) /\ Listed(x, E, cur) /\ x.repo # None
    BY <1>2, <2>2, <2>3 DEF Ready, Loose, Shape, Rooted, Listed
  <2>5. Carries(x, cur, r, E) /\ r.busy
    BY <2>1, <2>3, <2>4, RefreshReady DEF Ready
  <2> QED
    BY <2>3, <2>5 DEF Carries, Held, r
<1> QED
  BY <1>1, <1>2

-----------------------------------------------------------------------------
(* popAndAdvance *)

\* A controller that carries its own process, with the timer armed, is at rest
\* between two handlers.
LEMMA TightFrom ==
    ASSUME NEW c, NEW E, NEW cur, Ready(c, E, cur), cur = c.current, Armed(c)
    PROVE  Tight(c, E)
  BY DEF Tight, Ready

\* The end of the last process: a wish, a burst or nothing follows.
LEMMA DrainedTight ==
    ASSUME NEW c, NEW E, Loose(c, E, Idle), World(E), c.busy, c.queue = <<>>
    PROVE  Tight(Drained(c, E), E)
<1> DEFINE d == [c EXCEPT !.busy = FALSE, !.current = Idle, !.wish = None]
           r == Drained(c, E)
<1>1. c \in Ctl /\ None \in Places
  BY DEF Loose, Places
<1>2. /\ d \in Ctl /\ d.wish = None /\ d.overflow = c.overflow
      /\ d.queue = c.queue /\ ~d.busy /\ d.current = Idle
      /\ d.repo = c.repo /\ d.rows = c.rows
      /\ d.signals = c.signals /\ d.unread = c.unread /\ d.lost = c.lost
      /\ d.dirty = c.dirty /\ d.immediate = c.immediate /\ d.full = c.full
      /\ d.parsing = c.parsing /\ d.shown = c.shown
      /\ d.numstat = c.numstat /\ d.again = c.again
      /\ d.blank = c.blank /\ d.stale = c.stale
      /\ d.since = c.since /\ d.burst = c.burst
  BY <1>1 DEF Ctl
<1>3. r = IF c.wish \notin {None, c.repo} THEN applySelectRepo(d, c.wish, E)
          ELSE IF Pending(d) THEN applyCoalescedRefresh(d, DrainFires(d)) ELSE d
  BY DEF Drained
<1> HIDE DEF d, r
<1>4. Rooted(d, Idle) /\ Ordered(d, Idle) /\ TreeComing(d) /\ HeadComing(d) /\ Panel(d, Idle)
  BY <1>2 DEF Loose, Rooted, Ordered, TreeComing, HeadComing, Pending, Panel, Due
<1>5. Counted(d, Idle)
  BY <1>2 DEF Loose, Counted, Due, PassCovers, Fine
<1>6. Shape(d)
  BY <1>2 DEF Shape
<1>7. CASE c.wish \notin {None, c.repo}
  <2>1. r = applySelectRepo(d, c.wish, E)
    BY <1>3, <1>7
  <2>2. c.wish \in Checkouts /\ d.repo # None
    BY <1>1, <1>2, <1>7 DEF Loose, Rooted, Ctl, Places
  <2>3. Listed(d, Checkouts, Idle)
    BY <1>2 DEF Listed, Ctl, Places
  <2>4. Ready(d, Checkouts, Idle)
    BY <1>2, <1>4, <1>5, <1>6, <2>3 DEF Ready, Loose
  <2>5. Carries(d, Idle, r, E) /\ r.busy
    BY <1>2, <2>1, <2>2, <2>4, SelectReady
  <2> QED
    BY <1>2, <2>5 DEF Carries, Held, Ready, Tight, Armed, r
<1>8. ASSUME c.wish \in {None, c.repo} PROVE Loose(d, E, Idle)
  <2>1. Listed(d, E, Idle)
    BY <1>2, <1>8 DEF Loose, Listed
  <2> QED
    BY <1>2, <1>4, <1>5, <2>1 DEF Loose
<1>9. CASE c.wish \in {None, c.repo} /\ Pending(d)
  <2>1. PICK b \in BOOLEAN : b = DrainFires(d)
    BY <1>2 DEF DrainFires, Ctl
  <2>2. r = applyCoalescedRefresh(d, b)
    BY <1>3, <1>9, <2>1
  <2>3. ~b => ~d.immediate /\ (d.dirty => d.burst < MaxWait)
    BY <1>2, <2>1, GitAssumption DEF DrainFires, Ctl
  <2>4. Loose(d, E, d.current)
    BY <1>2, <1>8, <1>9
  <2>5. Carries(d, d.current, r, E) /\ Armed(r)
    BY <1>2, <1>6, <2>2, <2>3, <2>4, CoalesceReady
  <2> QED
    BY <1>2, <2>5 DEF Carries, Held, Ready, Tight, r
<1>10. CASE c.wish \in {None, c.repo} /\ ~Pending(d)
  <2>1. r = d
    BY <1>3, <1>10
  <2> QED
    BY <1>2, <1>6, <1>8, <1>10, <2>1 DEF Tight, Armed, Pending, r
<1> QED
  BY <1>7, <1>9, <1>10

\* popAndAdvance restores the whole invariant after any handler.
LEMMA AdvanceTight ==
    ASSUME NEW c, NEW E, Loose(c, E, Idle), World(E), c.busy
    PROVE  Tight(Advance(c, E), E)
<1>1. CASE c.queue = <<>>
  BY <1>1, DrainedTight DEF Advance
<1>2. CASE c.queue # <<>>
  <2> DEFINE b == Begin(c)
  <2>1. Loose(b, E, b.current) /\ b.busy
    BY <1>2, BeginLoose
  <2>2. Advance(c, E) = b
    BY <1>2 DEF Advance
  <2> HIDE DEF b
  <2> QED
    BY <2>1, <2>2 DEF Tight, Shape, Armed
<1> QED
  BY <1>1, <1>2

\* What a dropped process would have read is known to be unread.
LEMMA AbandonTight ==
    ASSUME NEW c, NEW E, Loose(c, E, c.current), World(E), c.busy
    PROVE  Tight(Abandon(c, E), E)
<1> DEFINE dropped == {c.current} \union Range(c.queue)
           gone == UNION {ReadBy(op) : op \in {o \in dropped : o.at = c.repo \/ "rows" \in ReadBy(o)}}
           lost == c.lost \union gone
           d == [c EXCEPT !.queue = <<>>, !.lost = lost]
<1>1. c \in Ctl
  BY DEF Loose
<1>2. \A k, a : ReadBy(Op(k, a)) =
        CASE k = "status" -> {"tree"}
          [] k \in {"head", "refs"} -> {"head"}
          [] k \in {"toplevel", "submodules", "worktrees"} -> {"rows"}
          [] OTHER -> {}
  BY OpEq DEF ReadBy
<1>3. /\ Op("status", c.repo) \in dropped => "tree" \in gone
      /\ Op("head", c.repo) \in dropped => "head" \in gone
      /\ Op("worktrees", Main) \in dropped => "rows" \in gone
  <2>1. ASSUME NEW o \in dropped, o.at = c.repo \/ "rows" \in ReadBy(o) PROVE ReadBy(o) \subseteq gone
    BY <2>1
  <2> HIDE DEF gone, dropped
  <2> QED
    BY <1>2, <2>1, OpEq
<1>4. gone \subseteq {"tree", "head", "rows"}
  <2>1. \A o : ReadBy(o) \subseteq {"tree", "head", "rows"}
    BY DEF ReadBy
  <2> QED
    BY <2>1
<1> HIDE DEF gone
<1>5. lost \in SUBSET Losses /\ <<>> \in Seq(OpType)
  <2>1. c.lost \subseteq Losses
    BY <1>1 DEF Ctl
  <2>2. gone \subseteq Losses
    BY <1>4 DEF Losses
  <2> QED
    BY <2>1, <2>2
<1>6. lost = c.lost \union gone
  OBVIOUS
<1> HIDE DEF lost
<1>7. /\ d \in Ctl /\ d.wish = c.wish /\ d.overflow = c.overflow
      /\ d.queue = <<>> /\ d.busy = c.busy
      /\ d.repo = c.repo /\ d.rows = c.rows
      /\ d.signals = c.signals /\ d.unread = c.unread /\ d.lost = lost
      /\ d.dirty = c.dirty /\ d.immediate = c.immediate /\ d.full = c.full
      /\ d.parsing = c.parsing /\ d.shown = c.shown
      /\ d.numstat = c.numstat /\ d.again = c.again
      /\ d.blank = c.blank /\ d.stale = c.stale
  BY <1>1, <1>5 DEF Ctl
<1>8. Abandon(c, E) = Advance(d, E)
  BY <1>6 DEF Abandon, gone
<1> HIDE DEF d
<1>9. Range(<<>>) = {} /\ Len(<<>>) = 0
  BY EmptyRange
<1>10. Rooted(d, Idle) /\ Ordered(d, Idle)
  BY <1>7, <1>9, IdleKind DEF Loose, Rooted, Ordered, Trailing
<1>11. TreeComing(d) /\ HeadComing(d)
  BY <1>3, <1>6, <1>7 DEF Loose, TreeComing, HeadComing, Pending
<1>12. Due(c, c.current) => Due(d, Idle)
  BY <1>3, <1>6, <1>7 DEF Due
<1>13. Panel(d, Idle)
  BY <1>7, <1>12 DEF Loose, Panel
<1>14. Counted(d, Idle)
  BY <1>6, <1>7, <1>12 DEF Loose, Counted, PassCovers, Fine
<1>15. Listed(d, E, Idle)
  BY <1>3, <1>6, <1>7 DEF Loose, Listed
<1> QED
  BY <1>7, <1>8, <1>10, <1>11, <1>13, <1>14, <1>15, AdvanceTight DEF Loose

-----------------------------------------------------------------------------
(* Status entries and line counts *)

\* requestNumstat: a pass begins, or the one that runs is repeated.
LEMMA PassRequested ==
    ASSUME NEW c \in Ctl
    PROVE  LET r == requestNumstat(c)
           IN  /\ r \in Ctl /\ PassCovers(r)
               /\ r.queue = c.queue /\ r.busy = c.busy /\ r.current = c.current
               /\ r.repo = c.repo /\ r.rows = c.rows /\ r.wish = c.wish /\ r.overflow = c.overflow
               /\ r.signals = c.signals /\ r.unread = c.unread /\ r.lost = c.lost
               /\ r.dirty = c.dirty /\ r.immediate = c.immediate /\ r.full = c.full
               /\ r.parsing = c.parsing /\ r.shown = c.shown
               /\ r.timer = c.timer /\ r.burst = c.burst /\ r.since = c.since
<1> DEFINE g == [c EXCEPT !.again = TRUE]
           stale == c.stale \ {"pass"}
           n == [c EXCEPT !.again = FALSE, !.numstat = "unstaged", !.stale = stale]
           r == requestNumstat(c)
<1>1. r = IF c.numstat # "off" THEN g ELSE n
  BY DEF requestNumstat
<1>2. stale \in SUBSET (Sides \union {"pass"}) /\ "unstaged" \in Sides \union {"off"}
      /\ "pass" \notin stale
  BY DEF Ctl, Sides
<1> HIDE DEF stale, r
<1>3. /\ g \in Ctl /\ g.again = TRUE /\ g.numstat = c.numstat
      /\ g.queue = c.queue /\ g.busy = c.busy /\ g.current = c.current
      /\ g.repo = c.repo /\ g.rows = c.rows /\ g.wish = c.wish /\ g.overflow = c.overflow
      /\ g.signals = c.signals /\ g.unread = c.unread /\ g.lost = c.lost
      /\ g.dirty = c.dirty /\ g.immediate = c.immediate /\ g.full = c.full
      /\ g.parsing = c.parsing /\ g.shown = c.shown
      /\ g.timer = c.timer /\ g.burst = c.burst /\ g.since = c.since
  BY DEF Ctl
<1>4. /\ n \in Ctl /\ n.again = FALSE /\ n.numstat = "unstaged" /\ n.stale = stale
      /\ n.queue = c.queue /\ n.busy = c.busy /\ n.current = c.current
      /\ n.repo = c.repo /\ n.rows = c.rows /\ n.wish = c.wish /\ n.overflow = c.overflow
      /\ n.signals = c.signals /\ n.unread = c.unread /\ n.lost = c.lost
      /\ n.dirty = c.dirty /\ n.immediate = c.immediate /\ n.full = c.full
      /\ n.parsing = c.parsing /\ n.shown = c.shown
      /\ n.timer = c.timer /\ n.burst = c.burst /\ n.since = c.since
  BY <1>2 DEF Ctl
<1> HIDE DEF g, n
<1>5. c.numstat # "off" => PassCovers(g)
  BY <1>3 DEF PassCovers
<1>6. PassCovers(n)
  BY <1>2, <1>4 DEF PassCovers
<1> QED
  BY <1>1, <1>3, <1>4, <1>5, <1>6 DEF r

\* New entries, of any checkout.
Shows(c, at, blank) == requestNumstat([Outdate(c) EXCEPT !.shown = at, !.blank = blank])

\* New entries come with blank counts and a pass that will fill them.
LEMMA Shown ==
    ASSUME NEW c \in Ctl, NEW at \in Checkouts, NEW blank \in SUBSET Sides
    PROVE  LET r == Shows(c, at, blank) IN
           /\ r \in Ctl /\ PassCovers(r) /\ r.shown = at
           /\ r.queue = c.queue /\ r.busy = c.busy /\ r.current = c.current
           /\ r.repo = c.repo /\ r.rows = c.rows /\ r.wish = c.wish /\ r.overflow = c.overflow
           /\ r.signals = c.signals /\ r.unread = c.unread /\ r.lost = c.lost \ Sides
           /\ r.dirty = c.dirty /\ r.immediate = c.immediate /\ r.full = c.full
           /\ r.parsing = c.parsing
           /\ r.timer = c.timer /\ r.burst = c.burst /\ r.since = c.since
<1> DEFINE o == Outdate(c)
           d == [o EXCEPT !.shown = at, !.blank = blank]
           lost == c.lost \ Sides
           stale == Sides \union {"pass"}
<1>1. lost \in SUBSET Losses /\ stale \in SUBSET (Sides \union {"pass"}) /\ at \in Places
  BY DEF Ctl, Places
<1>2. o = [c EXCEPT !.stale = stale, !.lost = lost]
  BY DEF Outdate, Ctl
<1>3. lost = c.lost \ Sides
  OBVIOUS
<1> HIDE DEF o, lost, stale
<1>4. d \in Ctl /\ o \in Ctl
  BY <1>1, <1>2 DEF Ctl
<1>5. /\ d.shown = at
      /\ d.queue = c.queue /\ d.busy = c.busy /\ d.current = c.current
      /\ d.repo = c.repo /\ d.rows = c.rows /\ d.wish = c.wish /\ d.overflow = c.overflow
      /\ d.signals = c.signals /\ d.unread = c.unread /\ d.lost = lost
      /\ d.dirty = c.dirty /\ d.immediate = c.immediate /\ d.full = c.full
      /\ d.parsing = c.parsing
      /\ d.timer = c.timer /\ d.burst = c.burst /\ d.since = c.since
  BY <1>1, <1>2, <1>4 DEF Ctl
<1>6. Shows(c, at, blank) = requestNumstat(d)
  BY DEF Shows, o
<1> HIDE DEF d
<1> QED
  BY <1>3, <1>4, <1>5, <1>6, PassRequested

\* submit: the status of the current checkout is parsed or shown; the status of
\* another is followed by one of the current checkout.
LEMMA SubmitLoose ==
    ASSUME NEW c, NEW E, Loose(c, E, c.current),
           c.current.kind = "status", c.current.at \in Checkouts, NEW same
    PROVE  /\ Loose(submit(c, c.current.at, same), E, Idle)
           /\ c.busy => submit(c, c.current.at, same).busy
<1> DEFINE at == c.current.at
           r == submit(c, at, same)
           d == [Outdate(c) EXCEPT !.shown = at, !.blank = c.blank]
           out == c.outdated \union ({c.parsing} \ {None})
           p == [c EXCEPT !.known = TRUE, !.parsing = at, !.outdated = out]
           k == [c EXCEPT !.known = c.known, !.parsing = at, !.outdated = c.outdated]
<1>1. c \in Ctl /\ out \in SUBSET Checkouts /\ c.known \in BOOLEAN /\ c.blank \in SUBSET Sides
      /\ c.outdated \in SUBSET Checkouts
  BY DEF Loose, Ctl, Places
<1>2. d = [Outdate(c) EXCEPT !.shown = at] /\ k = [c EXCEPT !.parsing = at]
  BY <1>1 DEF Outdate, Ctl
<1>3. r = IF same /\ c.parsing # None THEN k
          ELSE IF same THEN requestNumstat(d) ELSE p
  BY <1>2 DEF submit
<1>4. at \in Checkouts /\ at \in Places
  BY DEF Places
<1>12. /\ r \in Ctl
       /\ r.queue = c.queue /\ r.busy = c.busy /\ r.current = c.current
       /\ r.repo = c.repo /\ r.rows = c.rows /\ r.wish = c.wish /\ r.overflow = c.overflow
       /\ r.signals = c.signals /\ r.unread = c.unread
       /\ r.dirty = c.dirty /\ r.immediate = c.immediate /\ r.full = c.full
       /\ c.lost \ Sides \subseteq r.lost
       /\ r.parsing = at \/ (r.parsing = None /\ r.shown = at /\ PassCovers(r))
  <2>1. CASE same /\ c.parsing # None
    <3>1. r = k
      BY <1>3, <2>1
    <3> HIDE DEF at, out
    <3>2. /\ k \in Ctl /\ k.parsing = at
          /\ k.queue = c.queue /\ k.busy = c.busy /\ k.current = c.current
          /\ k.repo = c.repo /\ k.rows = c.rows /\ k.wish = c.wish /\ k.overflow = c.overflow
          /\ k.signals = c.signals /\ k.unread = c.unread /\ k.lost = c.lost
          /\ k.dirty = c.dirty /\ k.immediate = c.immediate /\ k.full = c.full
      BY <1>1, <1>4 DEF Ctl
    <3> HIDE DEF k, r
    <3> QED
      BY <3>1, <3>2
  <2>2. CASE same /\ c.parsing = None
    <3>1. r = requestNumstat(d)
      BY <1>3, <2>2
    <3> HIDE DEF r
    <3>3. r = Shows(c, at, c.blank)
      BY <3>1 DEF Shows
    <3> HIDE DEF at
    <3>2. /\ r \in Ctl /\ r.parsing = c.parsing /\ r.shown = at /\ PassCovers(r)
          /\ r.queue = c.queue /\ r.busy = c.busy /\ r.current = c.current
          /\ r.repo = c.repo /\ r.rows = c.rows /\ r.wish = c.wish /\ r.overflow = c.overflow
          /\ r.signals = c.signals /\ r.unread = c.unread /\ r.lost = c.lost \ Sides
          /\ r.dirty = c.dirty /\ r.immediate = c.immediate /\ r.full = c.full
      BY <1>1, <1>4, <3>3, Shown
    <3> QED
      BY <2>2, <3>2
  <2>3. CASE ~same
    <3>1. r = p
      BY <1>3, <2>3
    <3> HIDE DEF at, out
    <3>2. /\ p \in Ctl /\ p.parsing = at
          /\ p.queue = c.queue /\ p.busy = c.busy /\ p.current = c.current
          /\ p.repo = c.repo /\ p.rows = c.rows /\ p.wish = c.wish /\ p.overflow = c.overflow
          /\ p.signals = c.signals /\ p.unread = c.unread /\ p.lost = c.lost
          /\ p.dirty = c.dirty /\ p.immediate = c.immediate /\ p.full = c.full
      BY <1>1, <1>4 DEF Ctl
    <3> HIDE DEF p, r
    <3> QED
      BY <3>1, <3>2
  <2> QED
    BY <2>1, <2>2, <2>3
<1> HIDE DEF r, d, p, k
<1>5. \A x \in {"tree", "head", "rows"} : x \in c.lost => x \in r.lost
  BY <1>12 DEF Sides
<1>6. None \notin Checkouts
  BY GitAssumption DEF Checkouts, Main, None
<1>7. at # c.repo => Due(r, Idle)
  BY <1>12, IdleKind DEF Loose, Ordered, Due
<1>8. Rooted(r, Idle) /\ Ordered(r, Idle)
  BY <1>12, IdleKind DEF Loose, Rooted, Ordered
<1>9. TreeComing(r) /\ HeadComing(r)
  BY <1>12, <1>5 DEF Loose, TreeComing, HeadComing, Pending
<1>10. Panel(r, Idle) /\ Counted(r, Idle)
  BY <1>12, <1>6, <1>7 DEF Panel, Counted
<1>11. Listed(r, E, Idle)
  <2>1. c.current # Op("worktrees", Main)
    BY OpEq
  <2> QED
    BY <1>12, <1>5, <2>1 DEF Loose, Listed
<1> QED
  BY <1>12, <1>8, <1>9, <1>10, <1>11 DEF Loose, r

-----------------------------------------------------------------------------
(* The end of a process *)

\* A process that reads neither entries nor checkouts leaves nothing behind.
LEMMA Ended ==
    ASSUME NEW c, NEW E, Loose(c, E, c.current), c.current.kind \notin {"status", "worktrees"}
    PROVE  Loose(c, E, Idle)
<1>1. \A k \in {"status", "worktrees"} : \A a : c.current # Op(k, a)
  BY OpEq
<1>2. Rooted(c, Idle) /\ Ordered(c, Idle)
  BY IdleKind DEF Loose, Rooted, Ordered
<1>3. Due(c, c.current) => Due(c, Idle)
  BY <1>1 DEF Due
<1>4. Panel(c, Idle) /\ Counted(c, Idle)
  BY <1>3 DEF Loose, Panel, Counted
<1>5. Listed(c, E, Idle)
  BY <1>1 DEF Loose, Listed
<1> QED
  BY <1>2, <1>4, <1>5 DEF Loose

\* A list of worktrees that failed is known to be unread.
LEMMA ListFailed ==
    ASSUME NEW c, NEW E, Loose(c, E, c.current), c.current.kind = "worktrees"
    PROVE  LET r == [c EXCEPT !.lost = @ \union {"rows"}]
           IN  Loose(r, E, Idle) /\ (c.busy => r.busy)
<1> DEFINE lost == c.lost \union {"rows"}
           r == [c EXCEPT !.lost = lost]
<1>1. c \in Ctl /\ lost \in SUBSET Losses
  BY DEF Loose, Ctl, Losses
<1>2. \A a : c.current # Op("status", a)
  BY OpEq
<1> HIDE DEF lost
<1>3. /\ r \in Ctl /\ r.wish = c.wish /\ r.overflow = c.overflow
      /\ r.queue = c.queue /\ r.busy = c.busy /\ r.current = c.current
      /\ r.repo = c.repo /\ r.rows = c.rows
      /\ r.signals = c.signals /\ r.unread = c.unread /\ r.lost = lost
      /\ r.dirty = c.dirty /\ r.immediate = c.immediate /\ r.full = c.full
      /\ r.parsing = c.parsing /\ r.shown = c.shown
      /\ r.numstat = c.numstat /\ r.again = c.again
      /\ r.blank = c.blank /\ r.stale = c.stale
  BY <1>1 DEF Ctl
<1> HIDE DEF r
<1>4. lost = c.lost \union {"rows"}
  BY DEF lost
<1>5. Rooted(r, Idle) /\ Ordered(r, Idle) /\ TreeComing(r) /\ HeadComing(r)
  BY <1>3, <1>4, IdleKind DEF Loose, Rooted, Ordered, TreeComing, HeadComing, Pending
<1>6. Due(c, c.current) => Due(r, Idle)
  BY <1>2, <1>3, <1>4 DEF Due
<1>7. Panel(r, Idle)
  BY <1>3, <1>6 DEF Loose, Panel
<1>8. Counted(r, Idle)
  BY <1>3, <1>4, <1>6 DEF Loose, Counted, PassCovers, Fine
<1>9. Listed(r, E, Idle)
  BY <1>3, <1>4 DEF Listed
<1> QED
  BY <1>3, <1>5, <1>7, <1>8, <1>9 DEF Loose, r, lost

\* What a process that runs adds to the queue.
LEMMA BusyEnqueue ==
    ASSUME NEW c \in Ctl, NEW cur, Rooted(c, cur), NEW t, OpsFit(c, t), c.busy
    PROVE  LET r == Enqueue(c, t)
           IN  /\ r \in Ctl /\ r.busy /\ Rooted(r, cur)
               /\ r.repo = c.repo /\ r.rows = c.rows
<1> DEFINE s == c.queue \o t
           q == [c EXCEPT !.queue = s]
           r == Enqueue(c, t)
<1>1. c.queue \in Seq(OpType) /\ t \in Seq(OpType)
  BY DEF OpsFit, Ctl
<1>2. s \in Seq(OpType) /\ Range(s) = Range(c.queue) \union Range(t)
  BY <1>1, AddOps
<1>3. r = q
  BY DEF Enqueue
<1>4. c.repo = None => s = <<>>
  BY <1>1, AddOps DEF Rooted, OpsFit
<1> HIDE DEF s, r
<1>5. /\ q \in Ctl /\ q.queue = s /\ q.busy
      /\ q.repo = c.repo /\ q.rows = c.rows /\ q.unread = c.unread /\ q.wish = c.wish
      /\ q.signals = c.signals
  BY <1>2 DEF Ctl
<1> HIDE DEF q
<1>6. Rooted(q, cur)
  BY <1>2, <1>4, <1>5 DEF Rooted, OpsFit
<1> QED
  BY <1>3, <1>5, <1>6 DEF r

\* A queue of one process.
LEMMA OneOp ==
    ASSUME NEW k \in Kinds, NEW a \in Checkouts
    PROVE  <<Op(k, a)>> \in Seq(OpType) /\ Range(<<Op(k, a)>>) = {Op(k, a)} /\ <<Op(k, a)>> # <<>>
<1>1. Op(k, a) \in OpType
  BY DEF OpType, Op
<1> HIDE DEF Op
<1>2. <<Op(k, a)>> \in Seq(OpType) /\ Len(<<Op(k, a)>>) = 1 /\ <<Op(k, a)>>[1] = Op(k, a)
      /\ <<Op(k, a)>> # <<>>
  BY <1>1
<1>3. Range(<<Op(k, a)>>) = {<<Op(k, a)>>[i] : i \in 1..Len(<<Op(k, a)>>)}
  BY <1>2, Contents
<1> QED
  BY <1>2, <1>3

\* handleToplevelDone: the main checkout is read in full.
LEMMA ToplevelLoose ==
    ASSUME NEW c, NEW E, Loose(c, E, c.current), World(E), c.busy, c.current.kind = "toplevel"
    PROVE  Loose(handleToplevelDone(c, E), E, Idle) /\ handleToplevelDone(c, E).busy
<1> DEFINE a == [c EXCEPT !.rows = {Main}]
           w == [a EXCEPT !.wish = Main]
           at == [w EXCEPT !.repo = Main, !.signals = {}, !.unread = {"tree", "head"}]
           t == <<Op("submodules", Main)>>
           x == Enqueue(at, t)
           y == enqueueWorktreeList(x)
           z == [y EXCEPT !.full = FALSE]
           r == handleToplevelDone(c, E)
<1>1. /\ c \in Ctl /\ c.repo = None /\ c.rows = {} /\ c.queue = <<>>
      /\ Main \in Checkouts /\ Main \in Places /\ Main # None /\ {Main} \in SUBSET Checkouts
      /\ {} \in SUBSET Signals /\ {"tree", "head"} \in SUBSET {"tree", "head"}
  BY DEF Loose, Rooted, Checkouts, Places, Main, None
<1>2. /\ a \in Ctl /\ a.repo = None /\ a.rows = {Main} /\ a.queue = <<>> /\ a.saved = c.saved
      /\ a.busy
  BY <1>1 DEF Ctl
<1> HIDE DEF a
<1>3. /\ w \in Ctl /\ w.rows = {Main} /\ w.queue = <<>> /\ w.busy
  BY <1>1, <1>2 DEF Ctl
<1>4. onReposUpdated(a, E) = w
  <2>1. None \notin a.rows /\ (a.saved \in a.rows => a.saved = Main) /\ a.rows # {} /\ Main \in E
    BY <1>1, <1>2 DEF World
  <2>2. a.repo # Main
    BY <1>1, <1>2
  <2> QED
    BY <1>2, <2>1, <2>2 DEF onReposUpdated
<1> HIDE DEF w
<1>5. /\ at \in Ctl /\ at.rows = {Main} /\ at.queue = <<>> /\ at.busy
      /\ at.repo = Main
  BY <1>1, <1>3 DEF Ctl
<1>6. r = enqueueRefresh(z, TRUE)
  BY <1>4 DEF handleToplevelDone, a, w
<1> HIDE DEF at
<1>7. Range(<<>>) = {}
  BY EmptyRange
<1>8. Rooted(at, Idle)
  BY <1>1, <1>5, <1>7, IdleKind DEF Rooted
<1>9. OpsFit(at, t)
  <2>1. "submodules" \in Kinds /\ Op("submodules", Main).kind = "submodules"
    BY OpEq DEF Kinds
  <2>2. t \in Seq(OpType) /\ Range(t) = {Op("submodules", Main)}
    BY <1>1, <2>1, OneOp
  <2> HIDE DEF t
  <2> QED
    BY <1>1, <1>5, <2>1, <2>2 DEF OpsFit
<1>10. /\ x \in Ctl /\ x.busy /\ Rooted(x, Idle) /\ x.repo = Main /\ x.rows = {Main}
  BY <1>5, <1>8, <1>9, BusyEnqueue
<1> HIDE DEF x
<1> DEFINE u == WorktreeLists(x, {Main})
           v == WorktreeLists(x, Submodules \intersect x.rows)
<1>11. /\ u \in Seq(OpType) /\ \A e \in Range(u) : e.kind = "worktrees"
       /\ v \in Seq(OpType) /\ \A e \in Range(v) : e.kind = "worktrees"
  <2>1. IsFiniteSet({Main}) /\ IsFiniteSet(Submodules \intersect x.rows)
        /\ Submodules \intersect x.rows \in SUBSET Checkouts
    BY GitAssumption, FS_Singleton, FS_Intersection DEF Checkouts
  <2> QED
    BY <1>1, <1>10, <2>1, ListsContents
<1>12. y = Enqueue(x, u \o v)
  BY <1>10 DEF enqueueWorktreeList
<1> HIDE DEF u, v, y
<1>13. OpsFit(x, u \o v)
  <2>1. u \o v \in Seq(OpType) /\ Range(u \o v) = Range(u) \union Range(v)
    BY <1>11, AddOps
  <2> QED
    BY <1>1, <1>10, <1>11, <2>1 DEF OpsFit
<1>14. /\ y \in Ctl /\ y.busy /\ Rooted(y, Idle) /\ y.repo = Main
  BY <1>10, <1>12, <1>13, BusyEnqueue
<1>15. /\ z \in Ctl /\ z.busy /\ z.repo = Main
       /\ z.rows = y.rows /\ z.queue = y.queue /\ z.unread = y.unread /\ z.wish = y.wish
       /\ z.signals = y.signals
  BY <1>14 DEF Ctl
<1> HIDE DEF z, r
<1>16. Rooted(z, Idle) /\ Shape(z) /\ Listed(z, E, Idle)
  BY <1>14, <1>15 DEF Rooted, Shape, Listed, World
<1>17. Carries(z, Idle, r, E) /\ r.busy
  BY <1>1, <1>6, <1>15, <1>16, RefreshReady
<1> QED
  BY <1>15, <1>17 DEF Carries, Held, Ready, r

\* What the tab answers to is never decided by the rows alone.
Relisted(c, R, w) == [c EXCEPT !.rows = R, !.wish = w]

\* A new list of checkouts, with a wish for where to go.
LEMMA RowsLoose ==
    ASSUME NEW c, NEW E, Loose(c, E, Idle), c.repo # None,
           NEW R \in SUBSET Checkouts, Main \in R, NEW w \in Places
    PROVE  LET r == Relisted(c, R, w)
           IN  /\ Loose(r, Checkouts, Idle)
               /\ c.busy => r.busy
               /\ r.repo = c.repo /\ r.rows = R /\ r.wish = w
               /\ r.queue = c.queue /\ r.signals = c.signals /\ r.lost = c.lost
               /\ r.overflow = c.overflow
<1> DEFINE r == [c EXCEPT !.rows = R, !.wish = w]
<1>1. c \in Ctl
  BY DEF Loose
<1>2. /\ r \in Ctl /\ r.wish = w /\ r.overflow = c.overflow
      /\ r.queue = c.queue /\ r.busy = c.busy /\ r.current = c.current
      /\ r.repo = c.repo /\ r.rows = R
      /\ r.signals = c.signals /\ r.unread = c.unread /\ r.lost = c.lost
      /\ r.dirty = c.dirty /\ r.immediate = c.immediate /\ r.full = c.full
      /\ r.parsing = c.parsing /\ r.shown = c.shown
      /\ r.numstat = c.numstat /\ r.again = c.again
      /\ r.blank = c.blank /\ r.stale = c.stale
  BY <1>1 DEF Ctl
<1> HIDE DEF r
<1>3. /\ Rooted(r, Idle) /\ Ordered(r, Idle) /\ TreeComing(r) /\ HeadComing(r) /\ Panel(r, Idle)
  BY <1>2 DEF Loose, Rooted, Ordered, TreeComing, HeadComing, Pending, Panel, Due
<1>4. Counted(r, Idle)
  BY <1>2 DEF Loose, Counted, Due, PassCovers, Fine
<1>5. Listed(r, Checkouts, Idle)
  BY <1>2 DEF Listed, Ctl, Places
<1> QED
  BY <1>2, <1>3, <1>4, <1>5 DEF Loose, Relisted, r

\* handleSubmodulesDone lists submodules and asks for their worktrees.
LEMMA SubmodulesLoose ==
    ASSUME NEW c, NEW E, Loose(c, E, c.current), World(E), c.busy, c.current.kind = "submodules"
    PROVE  Loose(handleSubmodulesDone(c, E), E, Idle) /\ handleSubmodulesDone(c, E).busy
<1> DEFINE R == c.rows \union Submodules
           d == [c EXCEPT !.rows = R]
           l == onReposUpdated(d, E)
           t == WorktreeLists(l, Submodules)
           r == handleSubmodulesDone(c, E)
<1>1. c \in Ctl /\ c.repo # None /\ Main \in c.rows /\ Loose(c, E, Idle)
  <2>1. c.repo # None
    BY DEF Loose, Rooted
  <2> QED
    BY <2>1, Ended DEF Loose, Rooted
<1>2. R \in SUBSET Checkouts /\ Main \in R /\ c.wish \in Places
  BY <1>1 DEF Ctl, Checkouts
<1>3. r = Enqueue(l, t)
  BY DEF handleSubmodulesDone
<1>4. Loose(d, Checkouts, Idle) /\ d.busy /\ d.repo = c.repo
  <2> HIDE DEF R
  <2>1. d = Relisted(c, R, c.wish)
    BY <1>1 DEF Ctl, Relisted
  <2>2. LET b == Relisted(c, R, c.wish)
        IN  Loose(b, Checkouts, Idle) /\ b.repo = c.repo
    BY <1>1, <1>2, RowsLoose
  <2>3. d.busy
    BY <1>1 DEF Ctl
  <2> QED
    BY <2>1, <2>2, <2>3
<1> HIDE DEF d
<1>5. Ready(d, Checkouts, Idle)
  BY <1>4 DEF Ready, Shape
<1>6. Carries(d, Idle, l, E) /\ l.busy /\ l.repo = c.repo
  BY <1>1, <1>4, <1>5, ReposReady
<1> HIDE DEF l
<1>7. Ready(l, E, Idle) /\ l \in Ctl
  BY <1>4, <1>6 DEF Carries, Held, Ready, Loose
<1>8. t \in Seq(OpType) /\ \A e \in Range(t) : e.kind = "worktrees"
  <2>1. Submodules \in SUBSET Checkouts /\ IsFiniteSet(Submodules)
    BY GitAssumption DEF Checkouts
  <2> QED
    BY <1>7, <2>1, ListsContents
<1> HIDE DEF t, r
<1>9. OpsFit(l, t)
  BY <1>1, <1>6, <1>8 DEF OpsFit
<1>10. Carries(l, Idle, r, E)
  BY <1>3, <1>7, <1>9, EnqueueReady
<1> QED
  BY <1>6, <1>10 DEF Carries, Held, Ready, r

\* handleWorktreesDone: a current checkout that is gone is not listed any more.
LEMMA WorktreesLoose ==
    ASSUME NEW c, NEW E, NEW same \in BOOLEAN, Loose(c, E, c.current), World(E), c.busy,
           c.current.kind = "worktrees", c.current.at \in E
    PROVE  LET r == handleWorktreesDone(c, c.current.at, E, same)
           IN  Loose(r, E, Idle) /\ r.busy
<1> DEFINE owner == c.current.at
           R == IF owner = Main THEN (c.rows \ Worktrees) \union (Worktrees \intersect E)
                ELSE c.rows
           w == IF c.repo \in R THEN c.wish ELSE owner
           n == [c EXCEPT !.rows = R, !.wish = w]
           f == [c EXCEPT !.lost = @ \union {"rows"}]
           quiet == R = c.rows /\ ~(~same /\ owner = Main /\ R \intersect Worktrees # {})
           r == handleWorktreesDone(c, owner, E, same)
<1>1. c \in Ctl /\ c.repo # None /\ Main \in c.rows /\ c.rows \subseteq Checkouts
  <2>1. c.repo # None
    BY DEF Loose, Rooted
  <2> QED
    BY <2>1 DEF Loose, Rooted, Ctl
<1>2. owner \in Checkouts /\ None \notin Checkouts /\ Main \notin Worktrees
  BY GitAssumption DEF World, Checkouts, Main, None
<1>3. R \in SUBSET Checkouts /\ Main \in R /\ w \in Places
  BY <1>1, <1>2 DEF Checkouts, Places, Ctl
<1>4. r = IF quiet THEN n ELSE onReposUpdated(n, E)
  <2>1. n = [c EXCEPT !.rows = R, !.wish = IF c.repo \in R THEN @ ELSE owner]
    BY <1>1 DEF Ctl
  <2> QED
    BY <2>1 DEF handleWorktreesDone
<1>5. Loose(c, Checkouts, Idle)
  <2>1. \A a : c.current # Op("status", a)
    BY OpEq
  <2>2. Rooted(c, Idle) /\ Ordered(c, Idle)
    BY IdleKind DEF Loose, Rooted, Ordered
  <2>3. Due(c, c.current) => Due(c, Idle)
    BY <2>1 DEF Due
  <2>4. Panel(c, Idle) /\ Counted(c, Idle)
    BY <2>3 DEF Loose, Panel, Counted
  <2>5. Listed(c, Checkouts, Idle)
    BY DEF Loose, Listed, Ctl, Places
  <2> QED
    BY <2>2, <2>4, <2>5 DEF Loose
<1>6. c.repo \notin E \union {None} => c.repo \in Worktrees
  BY <1>1 DEF Ctl, Places, Checkouts, World
<1>7. owner = Main => (R \intersect Worktrees \subseteq E)
  OBVIOUS
<1>8. c.repo \notin E => owner # c.repo
  OBVIOUS
<1>9. c.current = Op("worktrees", Main) => owner = Main
  BY OpEq
<1> HIDE DEF R, owner, quiet
<1>10. Loose(n, Checkouts, Idle) /\ n.repo = c.repo /\ n.wish = w
       /\ n.queue = c.queue /\ n.signals = c.signals /\ n.lost = c.lost /\ n.overflow = c.overflow
  <2>1. n = Relisted(c, R, w)
    BY DEF Relisted
  <2> HIDE DEF w, n
  <2> QED
    BY <1>1, <1>3, <1>5, <2>1, RowsLoose
<1>11. n.busy
  BY <1>1 DEF Ctl
<1> HIDE DEF n, r
<1>12. Listed(n, E, Idle)
  <2> SUFFICES ASSUME c.repo \notin E \union {None}
               PROVE  \/ "rows" \in c.lost \/ "trees" \in c.signals \/ c.overflow
                      \/ Op("worktrees", Main) \in Range(c.queue) \union {Idle}
                      \/ w \notin {None, c.repo}
    BY <1>10 DEF Listed
  <2>1. CASE c.repo \notin R
    BY <1>2, <1>8, <2>1
  <2>2. CASE c.repo \in R
    <3>1. owner # Main
      BY <1>6, <1>7, <2>2
    <3> QED
      BY <1>9, <2>2, <3>1 DEF Loose, Listed
  <2> QED
    BY <2>1, <2>2
<1>13. CASE quiet
  BY <1>4, <1>10, <1>11, <1>12, <1>13 DEF Loose, r, owner
<1>14. CASE ~quiet
  <2>1. r = onReposUpdated(n, E)
    BY <1>4, <1>14
  <2>2. Ready(n, Checkouts, Idle)
    BY <1>10, <1>11 DEF Ready, Shape
  <2>3. Carries(n, Idle, r, E) /\ r.busy
    BY <1>1, <1>10, <1>11, <2>1, <2>2, ReposReady
  <2> QED
    BY <1>11, <2>3 DEF Carries, Held, Ready, r, owner
<1> QED
  BY <1>13, <1>14

\* A change, or a conflict it left behind, is refreshed.
LEMMA ChangeLoose ==
    ASSUME NEW c, NEW E, Loose(c, E, c.current), c.busy, c.current.kind = "change"
    PROVE  Loose(refresh(Touched(c)), E, Idle) /\ refresh(Touched(c)).busy
<1> DEFINE u == IF c.current.at = c.repo THEN {"tree", "head"} ELSE c.unread
           d == [c EXCEPT !.unread = u]
           r == refresh(Touched(c))
<1>1. c \in Ctl /\ c.repo # None /\ Loose(c, E, Idle) /\ u \in SUBSET {"tree", "head"}
  <2>1. c.repo # None
    BY DEF Loose, Rooted
  <2> QED
    BY <2>1, Ended DEF Loose, Ctl
<1>2. Touched(c) = d
  BY <1>1 DEF Touched, Ctl
<1>3. c.unread \subseteq u
  BY <1>1 DEF Ctl
<1> HIDE DEF u
<1>4. /\ d \in Ctl /\ d.wish = c.wish /\ d.overflow = c.overflow
      /\ d.queue = c.queue /\ d.busy /\ d.current = c.current
      /\ d.repo = c.repo /\ d.rows = c.rows
      /\ d.signals = c.signals /\ d.unread = u /\ d.lost = c.lost
      /\ d.parsing = c.parsing /\ d.shown = c.shown
      /\ d.numstat = c.numstat /\ d.again = c.again
      /\ d.blank = c.blank /\ d.stale = c.stale
  BY <1>1 DEF Ctl
<1> HIDE DEF d, r
<1>5. Rooted(d, Idle) /\ Ordered(d, Idle) /\ Listed(d, E, Idle)
  BY <1>1, <1>4 DEF Loose, Rooted, Ordered, Listed
<1>6. Due(c, Idle) => Due(d, Idle)
  BY <1>3, <1>4 DEF Due
<1>7. Panel(d, Idle)
  BY <1>1, <1>4, <1>6 DEF Loose, Panel
<1>8. Counted(d, Idle)
  BY <1>1, <1>4, <1>6 DEF Loose, Counted, PassCovers, Fine
<1>9. Nearly(d, E, Idle) /\ Shape(d)
  BY <1>4, <1>5, <1>7, <1>8 DEF Nearly, Shape
<1>10. r = refresh(d)
  BY <1>2 DEF r
<1>11. Carries(d, Idle, r, E)
  <2>1. Idle \in OpType \union {Idle} /\ d.repo # None
    BY <1>1, <1>4
  <2> QED
    BY <1>4, <1>9, <1>10, <2>1, RefreshAll
<1> QED
  BY <1>4, <1>11 DEF Carries, Held, Ready, r

\* A merged worktree is removed next.
LEMMA MergeLoose ==
    ASSUME NEW c, NEW E, Loose(c, E, c.current), c.busy, c.current.kind = "merge"
    PROVE  LET r == Enqueue(c, <<Op("remove", c.current.at)>>) IN Loose(r, E, Idle) /\ r.busy
<1> DEFINE at == c.current.at
           t == <<Op("remove", at)>>
           r == Enqueue(c, t)
<1>1. c.repo # None /\ Loose(c, E, Idle) /\ at \in Worktrees
  <2>1. c.repo # None /\ at \in Worktrees
    BY DEF Loose, Rooted
  <2> QED
    BY <2>1, Ended
<1>2. "remove" \in Kinds /\ at \in Checkouts
  BY <1>1 DEF Kinds, UserKinds, Checkouts
<1>3. Op("remove", at).kind = "remove" /\ Op("remove", at).at = at
  BY OpEq
<1>4. t \in Seq(OpType) /\ Range(t) = {Op("remove", at)}
  BY <1>2, OneOp
<1> HIDE DEF at, t, r
<1>5. OpsFit(c, t)
  BY <1>1, <1>3, <1>4 DEF OpsFit
<1>6. Ready(c, E, Idle)
  BY <1>1 DEF Ready, Shape
<1>7. Carries(c, Idle, r, E)
  BY <1>5, <1>6, EnqueueReady DEF r
<1> QED
  BY <1>7 DEF Carries, Held, Ready, r, t, at

\* A removed worktree is missed on the next list; if it was the current one, the
\* main checkout is wished for.
LEMMA RemoveLoose ==
    ASSUME NEW c, NEW E, NEW F, Loose(c, E, c.current), c.busy, c.current.kind = "remove",
           NEW at
    PROVE  LET l == enqueueWorktreeList(c)
               r == IF c.repo = at THEN [l EXCEPT !.wish = Main] ELSE refresh(l)
           IN  Loose(r, F, Idle) /\ r.busy
<1> DEFINE l == enqueueWorktreeList(c)
           w == [l EXCEPT !.wish = Main]
           r == IF c.repo = at THEN w ELSE refresh(l)
<1> SUFFICES Loose(r, F, Idle) /\ r.busy
  OBVIOUS
<1>1. c.repo # None /\ c.rows # {} /\ Loose(c, E, Idle)
  <2>1. c.repo # None
    BY DEF Loose, Rooted
  <2> QED
    BY <2>1, Ended DEF Loose, Rooted
<1>2. Ready(c, E, Idle)
  BY <1>1 DEF Ready, Shape
<1>3. /\ Carries(c, Idle, l, F) /\ l.repo = c.repo
      /\ Op("worktrees", Main) \in Range(l.queue) \union {Held(c, Idle, l)}
  BY <1>1, <1>2, ListReady
<1> HIDE DEF l
<1>4. Ready(l, F, Idle) /\ l.busy /\ l \in Ctl
  BY <1>3 DEF Carries, Held, Ready, Loose
<1>5. Op("worktrees", Main) \in Range(l.queue)
  BY <1>3, OpEq, IdleKind DEF Held
<1>6. CASE c.repo = at
  <2>1. Main \in Places
    BY DEF Places, Checkouts
  <2>2. /\ w \in Ctl /\ w.wish = Main /\ w.overflow = l.overflow
        /\ w.queue = l.queue /\ w.busy /\ w.current = l.current
        /\ w.repo = l.repo /\ w.rows = l.rows
        /\ w.signals = l.signals /\ w.unread = l.unread /\ w.lost = l.lost
        /\ w.dirty = l.dirty /\ w.immediate = l.immediate /\ w.full = l.full
        /\ w.parsing = l.parsing /\ w.shown = l.shown
        /\ w.numstat = l.numstat /\ w.again = l.again
        /\ w.blank = l.blank /\ w.stale = l.stale
    BY <1>4, <2>1 DEF Ctl
  <2>3. r = w
    BY <1>6
  <2> HIDE DEF w, r
  <2>4. /\ Rooted(w, Idle) /\ Ordered(w, Idle) /\ TreeComing(w) /\ HeadComing(w) /\ Panel(w, Idle)
    BY <1>1, <1>3, <1>4, <2>2
       DEF Ready, Loose, Rooted, Ordered, TreeComing, HeadComing, Pending, Panel, Due
  <2>5. Counted(w, Idle)
    BY <1>4, <2>2 DEF Ready, Loose, Counted, Due, PassCovers, Fine
  <2>6. Listed(w, F, Idle)
    BY <1>5, <2>2 DEF Listed
  <2> QED
    BY <2>2, <2>3, <2>4, <2>5, <2>6 DEF Loose
<1>7. CASE c.repo # at
  <2>1. r = refresh(l)
    BY <1>7
  <2>2. Nearly(l, F, Idle) /\ Shape(l) /\ Idle \in OpType \union {Idle}
    BY <1>4 DEF Ready, Loose, Nearly
  <2> HIDE DEF r
  <2>3. Carries(l, Idle, r, F)
    BY <1>1, <1>3, <1>4, <2>1, <2>2, RefreshAll
  <2> QED
    BY <1>4, <2>3 DEF Carries, Held, Ready
<1> QED
  BY <1>6, <1>7

\* Every process that succeeds leaves a controller that can go on; E and F are
\* the checkouts before and after it.
LEMMA SuccessTight ==
    ASSUME NEW c, NEW E, NEW F, NEW same \in BOOLEAN,
           Loose(c, E, c.current), World(F), c.busy, c.current \in OpType,
           same => c.current.kind \in {"status", "toplevel", "worktrees"},
           c.current.kind = "remove" \/ F = E,
           c.current.at \in E \/ c.current.kind = "merge"
    PROVE  Tight(Advance(HandleSuccess(c, F, same), F), F)
<1> DEFINE h == HandleSuccess(c, F, same)
<1> SUFFICES Loose(h, F, Idle) /\ h.busy
  BY AdvanceTight
<1>1. CASE c.current.kind = "toplevel"
  <2>1. CASE same
    <3>1. h = c /\ E = F
      BY <1>1, <2>1 DEF HandleSuccess
    <3> QED
      BY <1>1, <3>1, Ended
  <2>2. CASE ~same
    BY <1>1, <2>2, ToplevelLoose DEF HandleSuccess
  <2> QED
    BY <2>1, <2>2
<1>2. CASE c.current.kind = "submodules"
  BY <1>2, SubmodulesLoose DEF HandleSuccess
<1>3. CASE c.current.kind = "worktrees"
  BY <1>3, WorktreesLoose DEF HandleSuccess
<1>4. CASE c.current.kind = "status"
  <2>1. c.current.at \in Checkouts
    BY DEF OpType
  <2>2. h = submit(c, c.current.at, same) /\ E = F
    BY <1>4 DEF HandleSuccess
  <2> QED
    BY <1>4, <2>1, <2>2, SubmitLoose
<1>5. CASE c.current.kind = "change"
  BY <1>5, ChangeLoose DEF HandleSuccess
<1>6. CASE c.current.kind = "merge"
  BY <1>6, MergeLoose DEF HandleSuccess
<1>7. CASE c.current.kind = "remove"
  <2>1. h = IF c.repo = c.current.at THEN [enqueueWorktreeList(c) EXCEPT !.wish = Main]
            ELSE refresh(enqueueWorktreeList(c))
    BY <1>7 DEF HandleSuccess
  <2> HIDE DEF h
  <2> QED
    BY <1>7, <2>1, RemoveLoose
<1>8. CASE c.current.kind \notin {"toplevel", "submodules", "worktrees", "status", "change",
                                  "merge", "remove"}
  <2>1. h = c /\ E = F
    BY <1>8 DEF HandleSuccess
  <2> QED
    BY <1>8, <2>1, Ended
<1> QED
  BY <1>1, <1>2, <1>3, <1>4, <1>5, <1>6, <1>7, <1>8

\* A process that fails, whatever it was for.
LEMMA FailureTight ==
    ASSUME NEW c, NEW E, Loose(c, E, c.current), World(E), c.busy, c.current \in OpType,
           NEW d \in HandleFailure(c, E)
    PROVE  Tight(d, E)
<1>1. ASSUME c.current.kind \notin {"status", "worktrees"} PROVE Tight(Advance(c, E), E)
  BY <1>1, Ended, AdvanceTight
<1>2. Tight(Abandon(c, E), E)
  BY AbandonTight
<1>3. CASE c.current.kind = "toplevel"
  <2> DEFINE b == [c EXCEPT !.repo = None, !.rows = {}, !.signals = {}]
  <2>1. d = Advance(b, E)
    BY <1>3 DEF HandleFailure
  <2>2. c \in Ctl /\ c.repo = None /\ c.rows = {} /\ c.signals = {}
    BY <1>3 DEF Loose, Rooted
  <2>3. b = c
    BY <2>2 DEF Ctl
  <2> QED
    BY <1>1, <1>3, <2>1, <2>3
<1>4. CASE c.current.kind \in {"ignored", "head", "query"}
  BY <1>1, <1>4 DEF HandleFailure
<1>5. CASE c.current.kind = "worktrees"
  <2> DEFINE b == [c EXCEPT !.lost = @ \union {"rows"}]
  <2>1. d = Advance(b, E)
    BY <1>5 DEF HandleFailure
  <2>2. Loose(b, E, Idle) /\ b.busy
    BY <1>5, ListFailed
  <2> HIDE DEF b
  <2> QED
    BY <2>1, <2>2, AdvanceTight
<1>6. CASE c.current.kind = "change"
  <2>1. d \in {Advance(c, E), Advance(refresh(Touched(c)), E), Abandon(c, E)}
    BY <1>6 DEF HandleFailure
  <2>2. Tight(Advance(refresh(Touched(c)), E), E)
    BY <1>6, ChangeLoose, AdvanceTight
  <2> QED
    BY <1>1, <1>2, <1>6, <2>1, <2>2
<1>7. CASE c.current.kind = "merge"
  <2> DEFINE m == applySelectRepo(c, Main, E)
  <2>1. d \in {Advance(m, E), Abandon(c, E)}
    BY <1>7 DEF HandleFailure
  <2>2. c.repo # None /\ Main \in Checkouts
    BY <1>7 DEF Loose, Rooted, Checkouts
  <2>3. Ready(c, E, Idle)
    BY <1>7, Ended DEF Ready, Shape
  <2> HIDE DEF m
  <2>4. Carries(c, Idle, m, E) /\ m.busy
    BY <2>2, <2>3, SelectReady DEF m
  <2>5. Loose(m, E, Idle)
    BY <2>4 DEF Carries, Held, Ready
  <2> QED
    BY <1>2, <2>1, <2>4, <2>5, AdvanceTight
<1>8. CASE c.current.kind \notin {"toplevel", "ignored", "head", "query", "worktrees", "change",
                                  "merge"}
  BY <1>2, <1>8 DEF HandleFailure
<1> QED
  BY <1>3, <1>4, <1>5, <1>6, <1>7, <1>8

-----------------------------------------------------------------------------
(* The invariant *)

\* The controller between two handlers, with the checkouts on disk.
GitInv == Tight(ctl, exists) /\ World(exists)

\* What a running process may rely on when it ends.
LEMMA RunningProcess ==
    ASSUME GitInv, Running
    PROVE  /\ Loose(ctl, exists, ctl.current) /\ World(exists) /\ ctl.busy
           /\ ctl.current \in OpType
  BY DEF GitInv, Tight, Loose, Running, Ctl

\* The controller starts with the invariant.
LEMMA InitGit == Init => GitInv
<1> SUFFICES ASSUME Init PROVE GitInv
  OBVIOUS
<1>1. /\ ctl.queue = <<>> /\ ctl.current = Op("toplevel", Main) /\ ctl.busy
      /\ ctl.repo = None /\ ctl.rows = {} /\ ctl.wish = None
      /\ ctl.signals = {} /\ ctl.unread = {} /\ ctl.lost = {}
      /\ ctl.parsing = None /\ ctl.shown = None /\ exists = Checkouts
  BY DEF Init
<1>2. ctl \in Ctl
  <2>1. /\ <<>> \in Seq(OpType) /\ 0 \in 0..Quiet /\ 0 \in Nat /\ -1 \in -1..Quiet
        /\ Op("toplevel", Main) \in OpType /\ None \in Places
        /\ {} \in SUBSET Checkouts /\ {} \in SUBSET Signals /\ {} \in SUBSET {"tree", "head"}
        /\ {} \in SUBSET Losses /\ {} \in SUBSET (Sides \union {"pass"}) /\ Sides \in SUBSET Sides
        /\ "off" \in Sides \union {"off"}
    BY GitAssumption DEF OpType, Op, Kinds, Checkouts, Places
  <2> QED
    BY <2>1 DEF Init, Ctl
<1>3. Range(<<>>) = {} /\ Len(<<>>) = 0
  BY EmptyRange
<1>4. ctl.current.kind = "toplevel" /\ ctl.current.at = Main
  BY <1>1, OpEq
<1>5. Rooted(ctl, ctl.current)
  BY <1>1, <1>3, <1>4 DEF Rooted
<1>6. Ordered(ctl, ctl.current) /\ TreeComing(ctl) /\ HeadComing(ctl)
  BY <1>1, <1>3, <1>4 DEF Ordered, Trailing, TreeComing, HeadComing
<1>7. Panel(ctl, ctl.current) /\ Counted(ctl, ctl.current) /\ Listed(ctl, exists, ctl.current)
  BY <1>1 DEF Panel, Counted, Listed
<1>8. Shape(ctl) /\ Armed(ctl)
  BY <1>1 DEF Shape, Armed
<1>9. World(exists)
  BY <1>1 DEF World, Checkouts
<1> QED
  BY <1>2, <1>5, <1>6, <1>7, <1>8, <1>9 DEF GitInv, Tight, Loose

\* A process that succeeds, of every kind.
LEMMA KeepsSucceeds == ASSUME GitInv, Succeeds PROVE GitInv'
<1>1. /\ Loose(ctl, exists, ctl.current) /\ World(exists) /\ ctl.busy
      /\ ctl.current \in OpType
  BY RunningProcess DEF Succeeds
<1>2. PICK same \in BOOLEAN :
        /\ same => ctl.current.kind \in {"status", "toplevel", "worktrees"}
        /\ ctl' = Advance(HandleSuccess(ctl, exists', same), exists')
  BY DEF Succeeds
<1>3. /\ ctl.current.at \in exists \/ ctl.current.kind = "merge"
      /\ exists' = IF ctl.current.kind = "remove" THEN exists \ {ctl.current.at} ELSE exists
  BY DEF Succeeds
<1>4. World(exists')
  <2>1. ctl.current.kind = "remove" => ctl.current.at \in Worktrees
    BY <1>1 DEF Loose, Rooted
  <2>2. Main \notin Worktrees /\ Worktrees \intersect Submodules = {}
    BY GitAssumption
  <2> QED
    BY <1>1, <1>3, <2>1, <2>2 DEF World
<1>5. ctl.current.kind = "remove" \/ exists' = exists
  BY <1>3
<1>6. Tight(ctl', exists')
  BY <1>1, <1>2, <1>3, <1>4, <1>5, SuccessTight
<1> QED
  BY <1>4, <1>6 DEF GitInv

\* A process that fails, is cancelled or was marked as timed out.
LEMMA KeepsProcessEnds ==
    ASSUME GitInv, Fails \/ Cancel \/ Marked PROVE GitInv'
<1>1. /\ Loose(ctl, exists, ctl.current) /\ World(exists) /\ ctl.busy
      /\ ctl.current \in OpType /\ exists' = exists
  BY RunningProcess DEF Fails, Cancel, Marked
<1>2. \/ ctl' \in HandleFailure(ctl, exists)
      \/ ctl' = Abandon(ctl, exists)
  BY DEF Fails, Cancel, Marked
<1> QED
  BY <1>1, <1>2, FailureTight, AbandonTight DEF GitInv

\* A process that times out, with its callback run inside cancel().
LEMMA KeepsTimeout == ASSUME GitInv, onTimeout PROVE GitInv'
<1> DEFINE c == Abandon(ctl, exists)
           m == [c EXCEPT !.marker = c.busy]
<1>1. /\ Loose(ctl, exists, ctl.current) /\ World(exists) /\ ctl.busy
      /\ exists' = exists /\ ctl' = m
  BY RunningProcess DEF onTimeout
<1>2. Tight(c, exists)
  BY <1>1, AbandonTight
<1> HIDE DEF c
<1>3. c \in Ctl
  BY <1>2 DEF Tight, Loose
<1>4. /\ Alike(c, m) /\ m.busy = c.busy /\ m.current = c.current
      /\ m.dirty = c.dirty /\ m.immediate = c.immediate /\ m.full = c.full
      /\ m.timer = c.timer /\ m.burst = c.burst /\ m.since = c.since
  <2>1. c.busy \in BOOLEAN
    BY <1>3 DEF Ctl
  <2> QED
    BY <1>3, <2>1 DEF Ctl, Alike
<1> HIDE DEF m
<1>5. Loose(m, exists, m.current)
  BY <1>2, <1>4, AlikeLoose DEF Tight, Pending
<1>6. Shape(m) /\ Armed(m)
  BY <1>2, <1>4 DEF Tight, Shape, Armed, Alike
<1> QED
  BY <1>1, <1>5, <1>6 DEF GitInv, Tight

\* A step that carries a controller at rest leaves one at rest.
LEMMA TightCarried ==
    ASSUME NEW c, NEW r, NEW E, Carries(c, c.current, r, E), Armed(c) => Armed(r), Armed(c)
    PROVE  Tight(r, E)
  BY DEF Tight, Carries, Held, Ready

\* Time passes for a burst.
LEMMA KeepsTick == ASSUME GitInv, Tick PROVE GitInv'
<1> DEFINE t == ctl.timer - 1
           s == IF ctl.dirty /\ ctl.since < Quiet THEN ctl.since + 1 ELSE ctl.since
           u == IF ctl.dirty /\ ctl.burst <= MaxWait + Quiet THEN ctl.burst + 1 ELSE ctl.burst
           d == [ctl EXCEPT !.timer = t, !.since = s, !.burst = u]
<1>1. /\ ctl \in Ctl /\ Loose(ctl, exists, ctl.current) /\ Shape(ctl) /\ Armed(ctl)
      /\ World(exists) /\ exists' = exists /\ ctl.timer > 0
  BY DEF GitInv, Tight, Loose, Tick, unchangedWorld
<1>2. ctl' = d
  <2>1. /\ ctl.dirty /\ ctl.since < Quiet <=> ctl.dirty /\ ctl.since < Quiet
    OBVIOUS
  <2> QED
    BY <1>1 DEF Tick, Ctl
<1>3. /\ ctl.timer \in -1..Quiet /\ ctl.since \in 0..Quiet /\ ctl.burst \in Nat
      /\ Quiet \in Nat /\ MaxWait \in Nat /\ ctl.dirty \in BOOLEAN
  BY <1>1, GitAssumption DEF Ctl
<1>4. t \in -1..Quiet /\ s \in 0..Quiet /\ u \in Nat
  BY <1>1, <1>3
<1>5. /\ t >= 0
      /\ ctl.burst + ctl.timer < MaxWait + Quiet => u + t < MaxWait + Quiet
      /\ ctl.dirty /\ ctl.since + ctl.timer >= Quiet => s + t >= Quiet
  BY <1>1, <1>3
<1> HIDE DEF t, s, u
<1>6. /\ Alike(ctl, d) /\ d.busy = ctl.busy /\ d.current = ctl.current
      /\ d.dirty = ctl.dirty /\ d.immediate = ctl.immediate /\ d.full = ctl.full
      /\ d.timer = t /\ d.burst = u /\ d.since = s
  BY <1>1, <1>4 DEF Ctl, Alike
<1> HIDE DEF d
<1>7. Loose(d, exists, d.current)
  BY <1>1, <1>6, AlikeLoose DEF Pending
<1>8. Shape(d) /\ Armed(d)
  BY <1>1, <1>5, <1>6 DEF Shape, Armed, Alike
<1> QED
  BY <1>1, <1>2, <1>7, <1>8 DEF GitInv, Tight

\* The quiet timer fires.
LEMMA KeepsQuietElapsed == ASSUME GitInv, QuietElapsed PROVE GitInv'
<1> DEFINE t == [ctl EXCEPT !.timer = -1]
<1>1. /\ ctl \in Ctl /\ Loose(ctl, exists, ctl.current) /\ Shape(ctl) /\ Armed(ctl)
      /\ World(exists) /\ exists' = exists /\ ctl.timer = 0
      /\ ctl' = applyCoalescedRefresh(t, QuietFires(t))
      /\ -1 \in -1..Quiet
  BY GitAssumption DEF GitInv, Tight, Loose, QuietElapsed, unchangedWorld
<1>2. /\ Alike(ctl, t) /\ t.busy = ctl.busy /\ t.current = ctl.current
      /\ t.dirty = ctl.dirty /\ t.immediate = ctl.immediate /\ t.full = ctl.full
      /\ t.burst = ctl.burst /\ t.since = ctl.since
  BY <1>1 DEF Ctl, Alike
<1>3. ctl.since \in 0..Quiet /\ ctl.dirty \in BOOLEAN /\ ctl.busy \in BOOLEAN
  BY <1>1 DEF Ctl
<1> HIDE DEF t
<1>4. Loose(t, exists, t.current) /\ Shape(t)
  BY <1>1, <1>2, AlikeLoose DEF Pending, Shape, Alike
<1>5. PICK b \in BOOLEAN : b = QuietFires(t)
  BY <1>2, <1>3 DEF QuietFires
<1>6. /\ b => ~t.busy
      /\ ~t.busy /\ ~b => ~t.immediate /\ (t.dirty => t.burst < MaxWait)
  <2>1. b <=> ctl.dirty /\ ~ctl.busy /\ ctl.since >= Quiet
    BY <1>2, <1>5 DEF QuietFires
  <2>2. ~ctl.busy => ~ctl.immediate /\ (ctl.dirty => ctl.since + 0 >= Quiet)
    BY <1>1 DEF Armed
  <2>3. Quiet \in Nat
    BY GitAssumption
  <2>4. ctl.since + 0 = ctl.since
    BY <1>3, <2>3
  <2> QED
    BY <1>2, <2>1, <2>2, <2>4
<1>7. Carries(t, t.current, ctl', exists) /\ Armed(ctl')
  BY <1>1, <1>4, <1>5, <1>6, CoalesceReady
<1>8. Tight(ctl', exists)
  BY <1>7 DEF Tight, Carries, Held, Ready
<1> QED
  BY <1>1, <1>8 DEF GitInv

\* The watcher's debounce fires and opens or extends a burst.
LEMMA KeepsDebounce == ASSUME GitInv, onDebounce PROVE GitInv'
<1> DEFINE a == [ctl EXCEPT !.signals = {}]
           f == [a EXCEPT !.full = TRUE]
           b == IF "head" \in ctl.signals THEN scheduleFullRefresh(a) ELSE a
           d == IF "tree" \in ctl.signals THEN onDirty(b) ELSE b
           r == IF "trees" \in ctl.signals THEN enqueueWorktreeList(d) ELSE d
           D == IF "trees" \in ctl.signals THEN Checkouts ELSE exists
<1>1. /\ ctl \in Ctl /\ Loose(ctl, exists, ctl.current) /\ Shape(ctl) /\ Armed(ctl)
      /\ World(exists) /\ exists' = exists /\ ctl' = r /\ ctl.signals # {}
      /\ {} \in SUBSET Signals
  BY DEF GitInv, Tight, Loose, onDebounce, unchangedWorld
<1>2. ctl.repo # None /\ ctl.rows # {}
  BY <1>1 DEF Loose, Rooted
<1>3. /\ a \in Ctl /\ a.signals = {} /\ a.wish = ctl.wish /\ a.overflow = ctl.overflow
      /\ a.queue = ctl.queue /\ a.busy = ctl.busy /\ a.current = ctl.current
      /\ a.repo = ctl.repo /\ a.rows = ctl.rows
      /\ a.unread = ctl.unread /\ a.lost = ctl.lost
      /\ a.dirty = ctl.dirty /\ a.immediate = ctl.immediate /\ a.full = ctl.full
      /\ a.timer = ctl.timer /\ a.burst = ctl.burst /\ a.since = ctl.since
      /\ a.parsing = ctl.parsing /\ a.shown = ctl.shown
      /\ a.numstat = ctl.numstat /\ a.again = ctl.again
      /\ a.blank = ctl.blank /\ a.stale = ctl.stale
  BY <1>1 DEF Ctl
<1> HIDE DEF a
<1>4. /\ Alike(a, f) /\ f.full = TRUE /\ f.busy = a.busy /\ f.current = a.current
      /\ f.dirty = a.dirty /\ f.immediate = a.immediate
      /\ f.timer = a.timer /\ f.burst = a.burst /\ f.since = a.since
  BY <1>3 DEF Ctl, Alike
<1>5. scheduleFullRefresh(a) = onDirty(f)
  BY DEF scheduleFullRefresh
<1> HIDE DEF f
<1>6. Nearly(a, D, a.current) /\ Shape(a) /\ Armed(a)
  <2>1. Rooted(a, a.current) /\ Ordered(a, a.current) /\ Panel(a, a.current)
    BY <1>1, <1>2, <1>3 DEF Loose, Rooted, Ordered, Panel, Due
  <2>2. Counted(a, a.current)
    BY <1>1, <1>3 DEF Loose, Counted, Due, PassCovers, Fine
  <2>3. Listed(a, D, a.current)
    BY <1>1, <1>3 DEF Loose, Listed, Ctl, Places
  <2>4. Shape(a) /\ Armed(a)
    BY <1>1, <1>3 DEF Shape, Armed
  <2> QED
    BY <1>3, <2>1, <2>2, <2>3, <2>4 DEF Nearly
<1> HIDE DEF D
<1>7. /\ Nearly(b, D, b.current) /\ Shape(b) /\ Armed(b)
      /\ HeadComing(b) /\ b.repo = ctl.repo /\ b.rows = ctl.rows
      /\ "tree" \notin ctl.signals => TreeComing(b)
  <2>1. CASE "head" \in ctl.signals
    <3>1. b = onDirty(f)
      BY <1>5, <2>1
    <3>2. Nearly(f, D, f.current) /\ Shape(f) /\ Armed(f)
      BY <1>4, <1>6, AlikeNearly DEF Shape, Armed, Alike
    <3> HIDE DEF b
    <3>3. Carries(f, f.current, b, D) /\ Armed(b) /\ b.repo = f.repo /\ b.rows = f.rows
      BY <1>4, <3>1, <3>2, DirtyReady
    <3>4. Loose(b, D, b.current) /\ Shape(b)
      BY <3>3 DEF Carries, Held, Ready
    <3> QED
      BY <1>3, <1>4, <3>3, <3>4 DEF Loose, Nearly, Alike
  <2>2. CASE "head" \notin ctl.signals
    <3>1. b = a
      BY <2>2
    <3> HIDE DEF b
    <3>2. HeadComing(a) /\ ("tree" \notin ctl.signals => TreeComing(a))
      BY <1>1, <1>3, <2>2 DEF Loose, HeadComing, TreeComing, Pending
    <3> QED
      BY <1>3, <1>6, <3>1, <3>2
  <2> QED
    BY <2>1, <2>2
<1> HIDE DEF b
<1>8. Loose(d, D, d.current) /\ Shape(d) /\ Armed(d) /\ d.repo = ctl.repo /\ d.rows = ctl.rows
  <2>1. CASE "tree" \in ctl.signals
    <3>1. d = onDirty(b)
      BY <2>1
    <3> HIDE DEF d
    <3>2. Carries(b, b.current, d, D) /\ Armed(d) /\ d.repo = b.repo /\ d.rows = b.rows
      BY <1>7, <3>1, DirtyReady
    <3>3. Loose(d, D, d.current) /\ Shape(d)
      BY <3>2 DEF Carries, Held, Ready
    <3> QED
      BY <1>7, <3>2, <3>3
  <2>2. CASE "tree" \notin ctl.signals
    <3>1. d = b
      BY <2>2
    <3> HIDE DEF d
    <3> QED
      BY <1>7, <2>2, <3>1 DEF Nearly, Loose
  <2> QED
    BY <2>1, <2>2
<1> HIDE DEF d
<1>9. Tight(r, exists)
  <2>1. CASE "trees" \in ctl.signals
    <3>1. r = enqueueWorktreeList(d)
      BY <2>1
    <3>2. Ready(d, D, d.current) /\ d.rows # {}
      BY <1>2, <1>8 DEF Ready, Loose, Ctl
    <3> HIDE DEF r
    <3>3. Carries(d, d.current, r, exists) /\ (Armed(d) => Armed(r))
      BY <3>1, <3>2, ListReady
    <3> QED
      BY <1>8, <3>3, TightCarried
  <2>2. CASE "trees" \notin ctl.signals
    BY <1>8, <2>2 DEF Tight, D
  <2> QED
    BY <2>1, <2>2
<1> QED
  BY <1>1, <1>9 DEF GitInv

\* The counts may change as long as they are counted.
LEMMA Recounted ==
    ASSUME NEW c, NEW d \in Ctl, NEW E, NEW cur, Loose(c, E, cur),
           d.queue = c.queue, d.repo = c.repo, d.rows = c.rows, d.wish = c.wish,
           Pending(d) <=> Pending(c), d.full <=> c.full,
           d.signals = c.signals, d.overflow <=> c.overflow,
           d.parsing = c.parsing, d.shown = c.shown, d.unread = c.unread,
           \A x \in {"tree", "head", "rows"} : x \in c.lost => x \in d.lost,
           PassCovers(c) => PassCovers(d)
    PROVE  Loose(d, E, cur)
<1>1. Rooted(d, cur) /\ Ordered(d, cur) /\ TreeComing(d) /\ HeadComing(d)
  BY DEF Loose, Rooted, Ordered, TreeComing, HeadComing
<1>2. Due(c, cur) => Due(d, cur)
  BY DEF Due
<1>3. Panel(d, cur) /\ Counted(d, cur) /\ Listed(d, E, cur)
  BY <1>2 DEF Loose, Panel, Counted, Listed
<1> QED
  BY <1>1, <1>3 DEF Loose

\* A parsed status arrives, current or outdated.
LEMMA KeepsStatusApplied == ASSUME GitInv, StatusApplied PROVE GitInv'
<1>1. /\ ctl \in Ctl /\ Loose(ctl, exists, ctl.current) /\ Shape(ctl) /\ Armed(ctl)
      /\ World(exists) /\ exists' = exists /\ None \in Places
  BY DEF GitInv, Tight, Loose, StatusApplied, unchangedWorld, Places
<1>2. ASSUME NEW at \in ctl.outdated, ctl' = [ctl EXCEPT !.outdated = @ \ {at}]
      PROVE  GitInv'
  <2> DEFINE out == ctl.outdated \ {at}
             d == [ctl EXCEPT !.outdated = out]
  <2>1. out \in SUBSET Checkouts
    BY <1>1 DEF Ctl
  <2>2. ctl' = d
    BY <1>2
  <2> HIDE DEF out
  <2>3. /\ Alike(ctl, d) /\ d.busy = ctl.busy /\ d.current = ctl.current
        /\ d.dirty = ctl.dirty /\ d.immediate = ctl.immediate /\ d.full = ctl.full
        /\ d.timer = ctl.timer /\ d.burst = ctl.burst /\ d.since = ctl.since
    BY <1>1, <2>1 DEF Ctl, Alike
  <2> HIDE DEF d
  <2>4. Loose(d, exists, d.current)
    BY <1>1, <2>3, AlikeLoose DEF Pending
  <2>5. Shape(d) /\ Armed(d)
    BY <1>1, <2>3 DEF Shape, Armed, Alike
  <2> QED
    BY <1>1, <2>2, <2>4, <2>5 DEF GitInv, Tight
<1>3. ASSUME ctl.parsing # None, ctl' = onStatusApplied([ctl EXCEPT !.parsing = None], ctl.parsing)
      PROVE  GitInv'
  <2> DEFINE p == [ctl EXCEPT !.parsing = None]
             at == ctl.parsing
             r == Shows(p, at, Sides)
  <2>1. at \in Checkouts /\ Sides \in SUBSET Sides
    BY <1>1, <1>3 DEF Ctl, Places
  <2>2. ctl' = r
    BY <1>3 DEF onStatusApplied, Shows
  <2>3. /\ p \in Ctl /\ p.parsing = None
        /\ p.queue = ctl.queue /\ p.busy = ctl.busy /\ p.current = ctl.current
        /\ p.repo = ctl.repo /\ p.rows = ctl.rows /\ p.wish = ctl.wish /\ p.overflow = ctl.overflow
        /\ p.signals = ctl.signals /\ p.unread = ctl.unread /\ p.lost = ctl.lost
        /\ p.dirty = ctl.dirty /\ p.immediate = ctl.immediate /\ p.full = ctl.full
        /\ p.timer = ctl.timer /\ p.burst = ctl.burst /\ p.since = ctl.since
    BY <1>1 DEF Ctl
  <2> HIDE DEF p, at, r
  <2>4. /\ r \in Ctl /\ PassCovers(r) /\ r.shown = at /\ r.parsing = None
        /\ r.queue = ctl.queue /\ r.busy = ctl.busy /\ r.current = ctl.current
        /\ r.repo = ctl.repo /\ r.rows = ctl.rows /\ r.wish = ctl.wish
        /\ r.overflow = ctl.overflow
        /\ r.signals = ctl.signals /\ r.unread = ctl.unread /\ r.lost = ctl.lost \ Sides
        /\ r.dirty = ctl.dirty /\ r.immediate = ctl.immediate /\ r.full = ctl.full
        /\ r.timer = ctl.timer /\ r.burst = ctl.burst /\ r.since = ctl.since
    BY <2>1, <2>3, Shown DEF r
  <2>5. \A x \in {"tree", "head", "rows"} : x \in ctl.lost <=> x \in r.lost
    BY <2>4 DEF Sides
  <2>6. Rooted(r, r.current) /\ Ordered(r, r.current) /\ TreeComing(r) /\ HeadComing(r)
        /\ Listed(r, exists, r.current)
    BY <1>1, <2>4, <2>5 DEF Loose, Rooted, Ordered, TreeComing, HeadComing, Pending, Listed
  <2>7. Panel(r, r.current)
    BY <1>1, <1>3, <2>4, <2>5 DEF Loose, Panel, Due, at
  <2>8. Counted(r, r.current)
    BY <2>4 DEF Counted
  <2>9. Shape(r) /\ Armed(r)
    BY <1>1, <2>4 DEF Shape, Armed
  <2> QED
    BY <1>1, <2>2, <2>4, <2>6, <2>7, <2>8, <2>9 DEF GitInv, Tight, Loose
<1> QED
  BY <1>2, <1>3 DEF StatusApplied

\* A side that has been counted, or whose process failed.
LEMMA SideCounted ==
    ASSUME NEW c \in Ctl, c.numstat \in Sides, NEW ok \in BOOLEAN, NEW same \in BOOLEAN,
           same => c.numstat \notin c.blank
    PROVE  LET r == NumstatSide(c, ok, same)
           IN  /\ r \in Ctl
               /\ r.queue = c.queue /\ r.busy = c.busy /\ r.current = c.current
               /\ r.repo = c.repo /\ r.rows = c.rows /\ r.wish = c.wish /\ r.overflow = c.overflow
               /\ r.signals = c.signals /\ r.unread = c.unread
               /\ r.dirty = c.dirty /\ r.immediate = c.immediate /\ r.full = c.full
               /\ r.parsing = c.parsing /\ r.shown = c.shown
               /\ r.timer = c.timer /\ r.burst = c.burst /\ r.since = c.since
               /\ r.numstat = c.numstat /\ r.again = c.again
               /\ c.lost \subseteq r.lost
               /\ "pass" \notin c.stale =>
                     /\ "pass" \notin r.stale /\ Fine(r, c.numstat)
                     /\ \A s \in Sides : Fine(c, s) => Fine(r, s)
<1> DEFINE side == c.numstat
           lost == c.lost \union {side}
           blank == IF same THEN c.blank ELSE c.blank \ {side}
           stale == IF "pass" \in c.stale THEN c.stale \union {side} ELSE c.stale \ {side}
           f == [c EXCEPT !.lost = lost]
           g == [c EXCEPT !.blank = blank, !.stale = stale]
           r == NumstatSide(c, ok, same)
<1>1. lost \in SUBSET Losses /\ blank \in SUBSET Sides /\ stale \in SUBSET (Sides \union {"pass"})
  <2>1. lost \in SUBSET Losses
    BY DEF Ctl, Losses
  <2>2. blank \in SUBSET Sides
    BY DEF Ctl
  <2>3. stale \in SUBSET (Sides \union {"pass"})
    <3>1. c.stale \in SUBSET (Sides \union {"pass"})
      BY DEF Ctl
    <3> QED
      BY <3>1
  <2> QED
    BY <2>1, <2>2, <2>3
<1>2. side \in lost /\ c.lost \subseteq lost /\ side \notin blank /\ blank \subseteq c.blank
  OBVIOUS
<1>3. "pass" \notin c.stale => "pass" \notin stale /\ side \notin stale /\ stale \subseteq c.stale
  OBVIOUS
<1>4. r = IF ~ok THEN f ELSE g
  BY DEF NumstatSide, Ctl
<1> HIDE DEF lost, blank, stale, r
<1>5. /\ f \in Ctl /\ f.lost = lost /\ f.blank = c.blank /\ f.stale = c.stale
      /\ f.queue = c.queue /\ f.busy = c.busy /\ f.current = c.current
      /\ f.repo = c.repo /\ f.rows = c.rows /\ f.wish = c.wish /\ f.overflow = c.overflow
      /\ f.signals = c.signals /\ f.unread = c.unread
      /\ f.dirty = c.dirty /\ f.immediate = c.immediate /\ f.full = c.full
      /\ f.parsing = c.parsing /\ f.shown = c.shown
      /\ f.timer = c.timer /\ f.burst = c.burst /\ f.since = c.since
      /\ f.numstat = c.numstat /\ f.again = c.again
  BY <1>1 DEF Ctl
<1>6. /\ g \in Ctl /\ g.lost = c.lost /\ g.blank = blank /\ g.stale = stale
      /\ g.queue = c.queue /\ g.busy = c.busy /\ g.current = c.current
      /\ g.repo = c.repo /\ g.rows = c.rows /\ g.wish = c.wish /\ g.overflow = c.overflow
      /\ g.signals = c.signals /\ g.unread = c.unread
      /\ g.dirty = c.dirty /\ g.immediate = c.immediate /\ g.full = c.full
      /\ g.parsing = c.parsing /\ g.shown = c.shown
      /\ g.timer = c.timer /\ g.burst = c.burst /\ g.since = c.since
      /\ g.numstat = c.numstat /\ g.again = c.again
  BY <1>1 DEF Ctl
<1> HIDE DEF f, g, side
<1>7. Fine(f, side) /\ \A s \in Sides : Fine(c, s) => Fine(f, s)
  BY <1>2, <1>5 DEF Fine
<1>8. "pass" \notin c.stale => Fine(g, side) /\ \A s \in Sides : Fine(c, s) => Fine(g, s)
  BY <1>2, <1>3, <1>6 DEF Fine
<1>9. CASE ~ok
  BY <1>2, <1>4, <1>5, <1>7, <1>9 DEF r, side
<1>10. CASE ok
  BY <1>3, <1>4, <1>6, <1>8, <1>10 DEF r, side
<1> QED
  BY <1>9, <1>10

\* A pass that begins does not touch the queue.
LEMMA PassThenQueue ==
    ASSUME NEW c \in Ctl, c.numstat = "off", NEW t \in Seq(OpType)
    PROVE  /\ requestNumstat(Enqueue(c, t)) = Enqueue(requestNumstat(c), t)
           /\ Enqueue(c, t).again = c.again
<1> DEFINE stale == c.stale \ {"pass"}
           n == [c EXCEPT !.again = FALSE, !.numstat = "unstaged", !.stale = stale]
           q == [c EXCEPT !.queue = @ \o t]
           m == [n EXCEPT !.queue = @ \o t]
<1>1. requestNumstat(c) = n
  BY DEF requestNumstat, Ctl
<1>2. /\ q \in Ctl /\ q.numstat = "off" /\ q.again = c.again /\ q.stale = c.stale
      /\ q.queue = c.queue \o t /\ q.repo = c.repo /\ q.unread = c.unread /\ q.lost = c.lost
  <2>1. c.queue \o t \in Seq(OpType)
    BY AddOps DEF Ctl
  <2> QED
    BY <2>1 DEF Ctl
<1>3. n.busy = c.busy /\ m = [q EXCEPT !.again = FALSE, !.numstat = "unstaged", !.stale = stale]
  BY DEF Ctl
<1>4. CASE c.busy \/ t = <<>>
  <2>1. Enqueue(c, t) = q /\ Enqueue(n, t) = m
    BY <1>3, <1>4 DEF Enqueue
  <2>2. requestNumstat(q) = [q EXCEPT !.again = FALSE, !.numstat = "unstaged", !.stale = q.stale \ {"pass"}]
    BY <1>2 DEF requestNumstat
  <2> HIDE DEF q, m
  <2> QED
    BY <1>1, <1>2, <1>3, <2>1, <2>2
<1>5. CASE ~(c.busy \/ t = <<>>)
  <2>1. Enqueue(c, t) = Begin(q) /\ Enqueue(n, t) = Begin(m)
    BY <1>3, <1>5 DEF Enqueue
  <2> DEFINE op == Head(q.queue)
             reads == CASE op.kind \in {"head", "status"} -> IF op.at = q.repo THEN ReadBy(op) ELSE {}
                        [] op.kind = "worktrees" -> IF op.at = Main THEN {"rows"} ELSE {}
                        [] OTHER -> {}
             u == q.unread \ reads
             l == q.lost \ reads
             b == [q EXCEPT !.queue = Tail(q.queue), !.current = op, !.busy = TRUE,
                            !.marker = FALSE, !.unread = u, !.lost = l]
             d == [m EXCEPT !.queue = Tail(q.queue), !.current = op, !.busy = TRUE,
                            !.marker = FALSE, !.unread = u, !.lost = l]
  <2>2. m.queue = q.queue /\ m.repo = q.repo /\ m.unread = q.unread /\ m.lost = q.lost
    BY <1>2, <1>3 DEF Ctl
  <2> HIDE DEF q, m
  <2>3. Begin(q) = b
    BY <1>2 DEF Begin, Ctl
  <2>4. Begin(m) = d
    BY <2>2 DEF Begin
  <2> HIDE DEF op, reads, u, l
  <2>5. b.numstat = "off" /\ b.again = q.again /\ b.stale = q.stale
    BY <1>2 DEF Ctl
  <2>6. requestNumstat(b) = [b EXCEPT !.again = FALSE, !.numstat = "unstaged", !.stale = b.stale \ {"pass"}]
    BY <2>5 DEF requestNumstat
  <2>7. requestNumstat(b) = [b EXCEPT !.again = FALSE, !.numstat = "unstaged", !.stale = stale]
    BY <1>2, <2>5, <2>6
  <2>8. [b EXCEPT !.again = FALSE, !.numstat = "unstaged", !.stale = stale] = d
    BY <1>3 DEF Ctl
  <2> QED
    BY <1>1, <1>2, <2>1, <2>3, <2>4, <2>5, <2>7, <2>8
<1> QED
  BY <1>4, <1>5

\* What may be queued for a submodule that is counted.
LEMMA SubsFit ==
    ASSUME NEW c \in Ctl, NEW t \in {<<>>} \union {<<Op("query", s)>> : s \in c.rows \intersect Submodules},
           t # <<>> => c.repo = Main
    PROVE  OpsFit(c, t)
<1>1. CASE t = <<>>
  BY <1>1, EmptyRange DEF OpsFit
<1>2. CASE t # <<>>
  <2>1. PICK s \in c.rows \intersect Submodules : t = <<Op("query", s)>>
    BY <1>2
  <2>2. s \in Checkouts /\ "query" \in Kinds
    BY DEF Checkouts, Kinds, UserKinds
  <2>3. t \in Seq(OpType) /\ Range(t) = {Op("query", s)}
    BY <2>1, <2>2, OneOp
  <2>4. Op("query", s).kind = "query"
    BY OpEq
  <2>5. c.repo # None
    BY <1>2 DEF Main, None
  <2> QED
    BY <2>3, <2>4, <2>5 DEF OpsFit
<1> QED
  BY <1>1, <1>2

\* A numstat pass ends, and may have to run again.
LEMMA KeepsNumstatDone == ASSUME GitInv, NumstatDone PROVE GitInv'
<1>1. /\ ctl \in Ctl /\ Loose(ctl, exists, ctl.current) /\ Shape(ctl) /\ Armed(ctl)
      /\ World(exists) /\ exists' = exists /\ ctl.numstat \in Sides
  BY DEF GitInv, Tight, Loose, NumstatDone, Ctl
<1>2. PICK ok \in IF Room /\ failures < MaxFailures THEN BOOLEAN ELSE {TRUE} :
      \E same \in IF ctl.numstat \in ctl.blank THEN {FALSE} ELSE BOOLEAN :
      \E subs \in {<<>>} \union {<<Op("query", s)>> : s \in ctl.rows \intersect Submodules} :
         LET c == NumstatSide(ctl, ok, same)
             e == Enqueue([c EXCEPT !.numstat = "off"], subs)
         IN  /\ subs # <<>> => ctl.repo = Main /\ ctl.numstat = "staged"
             /\ failures' = IF ok THEN failures ELSE failures + 1
             /\ ctl' = IF ctl.numstat = "unstaged"
                         THEN [c EXCEPT !.numstat = "staged", !.stale = @ \ {"pass"}]
                         ELSE IF e.again THEN requestNumstat(e) ELSE e
  BY Zenon DEF NumstatDone
<1>7. PICK same \in IF ctl.numstat \in ctl.blank THEN {FALSE} ELSE BOOLEAN :
      \E subs \in {<<>>} \union {<<Op("query", s)>> : s \in ctl.rows \intersect Submodules} :
         LET c == NumstatSide(ctl, ok, same)
             e == Enqueue([c EXCEPT !.numstat = "off"], subs)
         IN  /\ subs # <<>> => ctl.repo = Main /\ ctl.numstat = "staged"
             /\ ctl' = IF ctl.numstat = "unstaged"
                         THEN [c EXCEPT !.numstat = "staged", !.stale = @ \ {"pass"}]
                         ELSE IF e.again THEN requestNumstat(e) ELSE e
  BY <1>2, Zenon
<1>8. PICK subs \in {<<>>} \union {<<Op("query", s)>> : s \in ctl.rows \intersect Submodules} :
         LET c == NumstatSide(ctl, ok, same)
             e == Enqueue([c EXCEPT !.numstat = "off"], subs)
         IN  /\ subs # <<>> => ctl.repo = Main /\ ctl.numstat = "staged"
             /\ ctl' = IF ctl.numstat = "unstaged"
                         THEN [c EXCEPT !.numstat = "staged", !.stale = @ \ {"pass"}]
                         ELSE IF e.again THEN requestNumstat(e) ELSE e
  BY <1>7, Zenon
<1>9. /\ ok \in BOOLEAN /\ same \in BOOLEAN
      /\ same => ctl.numstat \notin ctl.blank
      /\ subs # <<>> => ctl.repo = Main
  <2>1. ok \in BOOLEAN
    BY <1>2
  <2>2. same \in BOOLEAN /\ (same => ctl.numstat \notin ctl.blank)
    BY <1>7
  <2> QED
    BY <1>8, <2>1, <2>2, Zenon
<1> DEFINE c == NumstatSide(ctl, ok, same)
           stale == c.stale \ {"pass"}
           d == [c EXCEPT !.numstat = "staged", !.stale = stale]
           x == [c EXCEPT !.numstat = "off"]
           e == Enqueue(x, subs)
<1>3. /\ c \in Ctl
      /\ c.queue = ctl.queue /\ c.busy = ctl.busy /\ c.current = ctl.current
      /\ c.repo = ctl.repo /\ c.rows = ctl.rows /\ c.wish = ctl.wish
      /\ c.overflow = ctl.overflow
      /\ c.signals = ctl.signals /\ c.unread = ctl.unread
      /\ c.dirty = ctl.dirty /\ c.immediate = ctl.immediate /\ c.full = ctl.full
      /\ c.parsing = ctl.parsing /\ c.shown = ctl.shown
      /\ c.timer = ctl.timer /\ c.burst = ctl.burst /\ c.since = ctl.since
      /\ c.numstat = ctl.numstat /\ c.again = ctl.again
      /\ ctl.lost \subseteq c.lost
      /\ "pass" \notin ctl.stale =>
            /\ "pass" \notin c.stale /\ Fine(c, ctl.numstat)
            /\ \A s \in Sides : Fine(ctl, s) => Fine(c, s)
  BY <1>1, <1>9, SideCounted
<1>4. ctl' = IF ctl.numstat = "unstaged" THEN d
             ELSE IF e.again THEN requestNumstat(e) ELSE e
  BY <1>8
<1> HIDE DEF c
<1>5. CASE ctl.numstat = "unstaged"
  <2>1. stale \in SUBSET (Sides \union {"pass"}) /\ "staged" \in Sides \union {"off"}
        /\ "pass" \notin stale /\ stale \subseteq c.stale
    BY <1>3 DEF Ctl, Sides
  <2> HIDE DEF stale
  <2>2. /\ d \in Ctl /\ d.numstat = "staged" /\ d.stale = stale /\ d.blank = c.blank
        /\ d.lost = c.lost /\ d.again = c.again
        /\ d.queue = c.queue /\ d.busy = c.busy /\ d.current = c.current
        /\ d.repo = c.repo /\ d.rows = c.rows /\ d.wish = c.wish /\ d.overflow = c.overflow
        /\ d.signals = c.signals /\ d.unread = c.unread
        /\ d.dirty = c.dirty /\ d.immediate = c.immediate /\ d.full = c.full
        /\ d.parsing = c.parsing /\ d.shown = c.shown
        /\ d.timer = c.timer /\ d.burst = c.burst /\ d.since = c.since
    BY <1>3, <2>1 DEF Ctl
  <2>3. ctl' = d
    BY <1>4, <1>5
  <2> HIDE DEF d
  <2>4. PassCovers(ctl) => PassCovers(d)
    BY <1>3, <1>5, <2>1, <2>2 DEF PassCovers, Fine
  <2>5. Loose(d, exists, d.current)
    BY <1>1, <1>3, <2>2, <2>4, Recounted DEF Pending
  <2>6. Shape(d) /\ Armed(d)
    BY <1>1, <1>3, <2>2 DEF Shape, Armed
  <2> QED
    BY <1>1, <2>3, <2>5, <2>6 DEF GitInv, Tight
<1>6. CASE ctl.numstat = "staged"
  <2>1. /\ x \in Ctl /\ x.numstat = "off" /\ x.again = c.again
        /\ x.lost = c.lost /\ x.stale = c.stale /\ x.blank = c.blank
        /\ x.queue = c.queue /\ x.busy = c.busy /\ x.current = c.current
        /\ x.repo = c.repo /\ x.rows = c.rows /\ x.wish = c.wish /\ x.overflow = c.overflow
        /\ x.signals = c.signals /\ x.unread = c.unread
        /\ x.dirty = c.dirty /\ x.immediate = c.immediate /\ x.full = c.full
        /\ x.parsing = c.parsing /\ x.shown = c.shown
        /\ x.timer = c.timer /\ x.burst = c.burst /\ x.since = c.since
    <3>1. "off" \in Sides \union {"off"}
      OBVIOUS
    <3> QED
      BY <1>3, <3>1 DEF Ctl
  <2> HIDE DEF x
  <2>2. x.again \in BOOLEAN
    BY <2>1 DEF Ctl
  <2> DEFINE n == requestNumstat(x)
             y == IF x.again THEN n ELSE x
             r == Enqueue(y, subs)
  <2>3. ctl' = r
    <3>1. subs \in Seq(OpType)
      BY <1>1, <1>9, SubsFit DEF OpsFit
    <3>2. requestNumstat(e) = Enqueue(n, subs) /\ e.again = x.again
      BY <2>1, <3>1, PassThenQueue
    <3> HIDE DEF e, n
    <3> QED
      BY <1>4, <1>6, <2>2, <3>2 DEF e
  <2>4. /\ n \in Ctl /\ PassCovers(n)
        /\ n.queue = x.queue /\ n.busy = x.busy /\ n.current = x.current
        /\ n.repo = x.repo /\ n.rows = x.rows /\ n.wish = x.wish /\ n.overflow = x.overflow
        /\ n.signals = x.signals /\ n.unread = x.unread /\ n.lost = x.lost
        /\ n.dirty = x.dirty /\ n.immediate = x.immediate /\ n.full = x.full
        /\ n.parsing = x.parsing /\ n.shown = x.shown
        /\ n.timer = x.timer /\ n.burst = x.burst /\ n.since = x.since
    BY <2>1, PassRequested
  <2> HIDE DEF n
  <2>5. ~x.again /\ PassCovers(ctl) => PassCovers(x)
    BY <1>3, <1>6, <2>1 DEF PassCovers, Fine, Sides
  <2>6. /\ y \in Ctl /\ (PassCovers(ctl) => PassCovers(y))
        /\ y.queue = x.queue /\ y.busy = x.busy /\ y.current = x.current
        /\ y.repo = x.repo /\ y.rows = x.rows /\ y.wish = x.wish /\ y.overflow = x.overflow
        /\ y.signals = x.signals /\ y.unread = x.unread /\ y.lost = x.lost
        /\ y.dirty = x.dirty /\ y.immediate = x.immediate /\ y.full = x.full
        /\ y.parsing = x.parsing /\ y.shown = x.shown
        /\ y.timer = x.timer /\ y.burst = x.burst /\ y.since = x.since
    BY <2>1, <2>4, <2>5
  <2> HIDE DEF y
  <2>7. Loose(y, exists, y.current)
    BY <1>1, <1>3, <2>1, <2>6, Recounted DEF Pending
  <2>8. Shape(y) /\ Armed(y)
    BY <1>1, <1>3, <2>1, <2>6 DEF Shape, Armed
  <2>9. Ready(y, exists, y.current)
    BY <2>6, <2>7, <2>8 DEF Ready, Ctl
  <2>10. OpsFit(y, subs)
    BY <1>9, <1>3, <2>1, <2>6, SubsFit
  <2> HIDE DEF r
  <2>11. Carries(y, y.current, r, exists) /\ (Armed(y) => Armed(r))
    BY <2>9, <2>10, EnqueueReady DEF r
  <2>12. Tight(r, exists)
    BY <2>8, <2>11, TightCarried
  <2> QED
    BY <1>1, <2>3, <2>12 DEF GitInv
<1> QED
  BY <1>1, <1>5, <1>6 DEF Sides

\* The watcher sees a change.
LEMMA KeepsTouch == ASSUME GitInv, Touch PROVE GitInv'
<1>1. /\ ctl \in Ctl /\ Loose(ctl, exists, ctl.current) /\ Shape(ctl) /\ Armed(ctl)
      /\ World(exists) /\ exists' = exists /\ ctl.repo # None
  BY DEF GitInv, Tight, Loose, Touch, Change
<1>2. PICK what \in {"tree", "head"} :
        ctl' = [ctl EXCEPT !.unread = @ \union {what}, !.lost = @ \ {what},
                           !.signals = @ \union {what}]
  BY DEF Touch
<1> DEFINE unread == ctl.unread \union {what}
           lost == ctl.lost \ {what}
           signals == ctl.signals \union {what}
           d == [ctl EXCEPT !.unread = unread, !.lost = lost, !.signals = signals]
<1>3. /\ unread \in SUBSET {"tree", "head"} /\ lost \in SUBSET Losses
      /\ signals \in SUBSET Signals
  BY <1>1 DEF Ctl, Signals
<1>4. /\ ctl.unread \subseteq unread /\ ctl.signals \subseteq signals
      /\ what \in unread /\ what \in signals
      /\ \A x : x # what => /\ x \in lost <=> x \in ctl.lost
                            /\ x \in unread <=> x \in ctl.unread
                            /\ x \in signals <=> x \in ctl.signals
  OBVIOUS
<1>5. ctl' = d
  BY <1>2
<1> HIDE DEF unread, lost, signals
<1>6. /\ d \in Ctl /\ d.signals = signals /\ d.unread = unread /\ d.lost = lost
      /\ d.wish = ctl.wish /\ d.overflow = ctl.overflow
      /\ d.queue = ctl.queue /\ d.busy = ctl.busy /\ d.current = ctl.current
      /\ d.repo = ctl.repo /\ d.rows = ctl.rows
      /\ d.dirty = ctl.dirty /\ d.immediate = ctl.immediate /\ d.full = ctl.full
      /\ d.timer = ctl.timer /\ d.burst = ctl.burst /\ d.since = ctl.since
      /\ d.parsing = ctl.parsing /\ d.shown = ctl.shown
      /\ d.numstat = ctl.numstat /\ d.again = ctl.again
      /\ d.blank = ctl.blank /\ d.stale = ctl.stale
  BY <1>1, <1>3 DEF Ctl
<1> HIDE DEF d
<1>7. Rooted(d, d.current) /\ Ordered(d, d.current)
  BY <1>1, <1>6 DEF Loose, Rooted, Ordered
<1>8. TreeComing(d) /\ HeadComing(d)
  BY <1>1, <1>4, <1>6 DEF Loose, TreeComing, HeadComing, Pending
<1>9. Due(ctl, ctl.current) => Due(d, d.current)
  BY <1>4, <1>6 DEF Due
<1>10. Panel(d, d.current)
  BY <1>1, <1>6, <1>9 DEF Loose, Panel
<1>11. \A s \in Sides : Fine(ctl, s) <=> Fine(d, s)
  BY <1>4, <1>6 DEF Fine, Sides
<1>12. Counted(d, d.current)
  BY <1>1, <1>6, <1>9, <1>11 DEF Loose, Counted, PassCovers, Sides
<1>13. Listed(d, exists, d.current)
  BY <1>1, <1>4, <1>6 DEF Loose, Listed
<1>14. Shape(d) /\ Armed(d)
  BY <1>1, <1>6 DEF Shape, Armed
<1> QED
  BY <1>1, <1>5, <1>6, <1>7, <1>8, <1>10, <1>12, <1>13, <1>14 DEF GitInv, Tight, Loose

\* A worktree disappears from disk.
LEMMA KeepsWorktreeGone == ASSUME GitInv, WorktreeGone PROVE GitInv'
<1>1. /\ ctl \in Ctl /\ Loose(ctl, exists, ctl.current) /\ Shape(ctl) /\ Armed(ctl)
      /\ World(exists)
  BY DEF GitInv, Tight, Loose
<1>2. PICK w \in Worktrees \intersect exists :
        /\ exists' = exists \ {w}
        /\ \/ ctl' = [ctl EXCEPT !.signals = @ \union {"trees"}]
           \/ ctl' = [ctl EXCEPT !.lost = @ \union {"rows"}]
  BY DEF WorktreeGone
<1>3. World(exists')
  <2>1. Main \notin Worktrees /\ Worktrees \intersect Submodules = {}
    BY GitAssumption
  <2> QED
    BY <1>1, <1>2, <2>1 DEF World
<1>4. ctl.repo # None
  BY DEF WorktreeGone, Change
<1> DEFINE signals == ctl.signals \union {"trees"}
           lost == ctl.lost \union {"rows"}
<1>5. PICK s \in SUBSET Signals, l \in SUBSET Losses :
        /\ ctl' = [ctl EXCEPT !.signals = s, !.lost = l]
        /\ ctl.signals \subseteq s /\ ctl.lost \subseteq l
        /\ "trees" \in s \/ "rows" \in l
        /\ \A x \in Sides \union {"tree", "head"} : x \in l <=> x \in ctl.lost
  <2>1. signals \in SUBSET Signals /\ lost \in SUBSET Losses
        /\ ctl.signals \in SUBSET Signals /\ ctl.lost \in SUBSET Losses
    BY <1>1 DEF Ctl, Signals, Losses
  <2>2. CASE ctl' = [ctl EXCEPT !.signals = signals]
    <3>1. ctl' = [ctl EXCEPT !.signals = signals, !.lost = ctl.lost]
      BY <1>1, <2>2 DEF Ctl
    <3>2. ctl.signals \subseteq signals /\ "trees" \in signals
      OBVIOUS
    <3> HIDE DEF signals
    <3> QED
      BY <2>1, <3>1, <3>2
  <2>3. CASE ctl' = [ctl EXCEPT !.lost = lost]
    <3>1. ctl' = [ctl EXCEPT !.signals = ctl.signals, !.lost = lost]
      BY <1>1, <2>3 DEF Ctl
    <3>2. ctl.lost \subseteq lost /\ "rows" \in lost
          /\ \A x \in Sides \union {"tree", "head"} : x \in lost <=> x \in ctl.lost
      BY DEF Sides
    <3> HIDE DEF lost
    <3> QED
      BY <2>1, <3>1, <3>2
  <2> QED
    BY <1>2, <2>2, <2>3
<1> DEFINE d == [ctl EXCEPT !.signals = s, !.lost = l]
<1>6. /\ d \in Ctl /\ d.signals = s /\ d.unread = ctl.unread /\ d.lost = l
      /\ d.wish = ctl.wish /\ d.overflow = ctl.overflow
      /\ d.queue = ctl.queue /\ d.busy = ctl.busy /\ d.current = ctl.current
      /\ d.repo = ctl.repo /\ d.rows = ctl.rows
      /\ d.dirty = ctl.dirty /\ d.immediate = ctl.immediate /\ d.full = ctl.full
      /\ d.timer = ctl.timer /\ d.burst = ctl.burst /\ d.since = ctl.since
      /\ d.parsing = ctl.parsing /\ d.shown = ctl.shown
      /\ d.numstat = ctl.numstat /\ d.again = ctl.again
      /\ d.blank = ctl.blank /\ d.stale = ctl.stale
  BY <1>1 DEF Ctl
<1>7. ctl' = d
  BY <1>5
<1> HIDE DEF d
<1>8. Rooted(d, d.current) /\ Ordered(d, d.current) /\ TreeComing(d) /\ HeadComing(d)
  BY <1>1, <1>4, <1>5, <1>6
     DEF Loose, Rooted, Ordered, TreeComing, HeadComing, Pending
<1>9. Due(ctl, ctl.current) => Due(d, d.current)
  BY <1>5, <1>6 DEF Due
<1>10. Panel(d, d.current)
  BY <1>1, <1>6, <1>9 DEF Loose, Panel
<1>11. \A t \in Sides : Fine(ctl, t) <=> Fine(d, t)
  BY <1>5, <1>6 DEF Fine
<1>12. Counted(d, d.current)
  BY <1>1, <1>6, <1>9, <1>11 DEF Loose, Counted, PassCovers, Sides
<1>13. Listed(d, exists', d.current)
  BY <1>5, <1>6 DEF Listed
<1>14. Shape(d) /\ Armed(d)
  BY <1>1, <1>6 DEF Shape, Armed
<1> QED
  BY <1>3, <1>6, <1>7, <1>8, <1>10, <1>12, <1>13, <1>14 DEF GitInv, Tight, Loose

\* The user runs an operation or asks for a query.
LEMMA KeepsOperate == ASSUME GitInv, Operate PROVE GitInv'
<1>1. /\ ctl \in Ctl /\ Loose(ctl, exists, ctl.current) /\ Shape(ctl) /\ Armed(ctl)
      /\ World(exists) /\ exists' = exists /\ ctl.repo \in Checkouts /\ ctl.repo # None
  BY DEF GitInv, Tight, Loose, Operate, Request, Ctl, Places
<1>2. Ready(ctl, exists, ctl.current) /\ ctl.rows # {}
  BY <1>1 DEF Ready, Loose, Rooted, Ctl
<1>3. ASSUME NEW kind \in {"change", "query"}, ctl' = Enqueue(ctl, <<Op(kind, ctl.repo)>>)
      PROVE  Tight(ctl', exists)
  <2> DEFINE t == <<Op(kind, ctl.repo)>>
  <2>1. kind \in Kinds /\ Op(kind, ctl.repo).kind = kind
    BY OpEq DEF Kinds, UserKinds
  <2>2. t \in Seq(OpType) /\ Range(t) = {Op(kind, ctl.repo)}
    BY <1>1, <2>1, OneOp
  <2>3. ctl' = Enqueue(ctl, t)
    BY <1>3
  <2> HIDE DEF t
  <2>4. OpsFit(ctl, t)
    BY <1>1, <2>1, <2>2 DEF OpsFit
  <2>5. Carries(ctl, ctl.current, ctl', exists) /\ (Armed(ctl) => Armed(ctl'))
    BY <1>2, <2>3, <2>4, EnqueueReady
  <2> QED
    BY <1>1, <2>5, TightCarried
<1>4. ASSUME ctl' = refresh(enqueueWorktreeList(ctl)) PROVE Tight(ctl', exists)
  <2> DEFINE l == enqueueWorktreeList(ctl)
  <2>1. ctl' = refresh(l)
    BY <1>4
  <2>2. Carries(ctl, ctl.current, l, exists) /\ (Armed(ctl) => Armed(l)) /\ l.repo = ctl.repo
    BY <1>2, ListReady
  <2> HIDE DEF l
  <2>3. Tight(l, exists)
    BY <1>1, <2>2, TightCarried
  <2>4. Nearly(l, exists, l.current) /\ Shape(l) /\ Armed(l) /\ l.current \in OpType \union {Idle}
    BY <2>3 DEF Tight, Loose, Nearly, Ctl
  <2>5. Carries(l, l.current, ctl', exists) /\ (Armed(l) => Armed(ctl'))
    BY <1>1, <2>1, <2>2, <2>4, RefreshAll
  <2> QED
    BY <2>4, <2>5, TightCarried
<1> QED
  BY <1>1, <1>3, <1>4 DEF GitInv, Operate

\* The user removes a worktree.
LEMMA KeepsRemoveWorktree == ASSUME GitInv, RemoveWorktree PROVE GitInv'
<1>1. /\ ctl \in Ctl /\ Loose(ctl, exists, ctl.current) /\ Shape(ctl) /\ Armed(ctl)
      /\ World(exists) /\ exists' = exists /\ ctl.repo # None
  BY DEF GitInv, Tight, Loose, RemoveWorktree, Request
<1>2. PICK w \in Worktrees \intersect ctl.rows, kind \in {"remove", "merge"} :
        ctl' = Enqueue(ctl, <<Op(kind, w)>>)
  BY DEF RemoveWorktree
<1> DEFINE t == <<Op(kind, w)>>
<1>3. kind \in Kinds /\ w \in Checkouts /\ Op(kind, w).kind = kind /\ Op(kind, w).at = w
  BY OpEq DEF Kinds, UserKinds, Checkouts
<1>4. t \in Seq(OpType) /\ Range(t) = {Op(kind, w)}
  BY <1>3, OneOp
<1>5. ctl' = Enqueue(ctl, t)
  BY <1>2
<1> HIDE DEF t
<1>6. OpsFit(ctl, t)
  BY <1>1, <1>3, <1>4 DEF OpsFit
<1>7. Ready(ctl, exists, ctl.current)
  BY <1>1 DEF Ready, Ctl
<1>8. Carries(ctl, ctl.current, ctl', exists) /\ (Armed(ctl) => Armed(ctl'))
  BY <1>5, <1>6, <1>7, EnqueueReady
<1> QED
  BY <1>1, <1>8, TightCarried DEF GitInv

\* A wish of the user, or none.
LEMMA WishTight ==
    ASSUME NEW c, NEW E, Tight(c, E), c.repo # None, NEW w \in Places, c.busy \/ w = None,
           c.repo \in E \/ w \notin {None, c.repo}
    PROVE  Tight([c EXCEPT !.wish = w], E)
<1> DEFINE d == [c EXCEPT !.wish = w]
<1>1. c \in Ctl /\ Loose(c, E, c.current) /\ Shape(c) /\ Armed(c)
  BY DEF Tight, Loose
<1>2. /\ d \in Ctl /\ d.wish = w
      /\ d.signals = c.signals /\ d.unread = c.unread /\ d.lost = c.lost
      /\ d.overflow = c.overflow
      /\ d.queue = c.queue /\ d.busy = c.busy /\ d.current = c.current
      /\ d.repo = c.repo /\ d.rows = c.rows
      /\ d.dirty = c.dirty /\ d.immediate = c.immediate /\ d.full = c.full
      /\ d.timer = c.timer /\ d.burst = c.burst /\ d.since = c.since
      /\ d.parsing = c.parsing /\ d.shown = c.shown
      /\ d.numstat = c.numstat /\ d.again = c.again
      /\ d.blank = c.blank /\ d.stale = c.stale
  BY <1>1 DEF Ctl
<1> HIDE DEF d
<1>3. Rooted(d, d.current) /\ Ordered(d, d.current) /\ TreeComing(d) /\ HeadComing(d)
      /\ Panel(d, d.current)
  BY <1>1, <1>2 DEF Loose, Rooted, Ordered, TreeComing, HeadComing, Pending, Panel, Due
<1>4. Counted(d, d.current)
  BY <1>1, <1>2 DEF Loose, Counted, Due, PassCovers, Fine
<1>5. Listed(d, E, d.current)
  BY <1>2 DEF Listed
<1>6. Shape(d) /\ Armed(d)
  BY <1>1, <1>2 DEF Shape, Armed
<1> QED
  BY <1>2, <1>3, <1>4, <1>5, <1>6 DEF Tight, Loose, d

\* selectRepo, at once or as a wish, keeps the whole invariant.
LEMMA SelectTight ==
    ASSUME NEW c, NEW E, Tight(c, E), World(E), c.repo # None, NEW p \in Checkouts
    PROVE  Tight(selectRepo(c, p, E), E)
<1>1. /\ Ready(c, E, c.current) /\ Armed(c)
      /\ c.busy \/ c.queue = <<>>
  BY DEF Tight, Ready, Loose, Shape, Ctl
<1>2. ASSUME NEW r, Carries(c, c.current, r, E), r.busy PROVE Tight(r, E)
  BY <1>1, <1>2, TightCarried DEF Armed
<1>3. CASE p \notin E
  BY <1>1, <1>2, <1>3, RecoverReady DEF selectRepo
<1>4. CASE p \in E /\ p = c.repo
  <2>1. selectRepo(c, p, E) = [c EXCEPT !.wish = None]
    BY <1>4 DEF selectRepo
  <2>2. None \in Places
    BY DEF Places
  <2> QED
    BY <1>4, <2>1, <2>2, WishTight
<1>5. CASE p \in E /\ p # c.repo /\ c.busy
  <2>1. selectRepo(c, p, E) = [c EXCEPT !.wish = p]
    BY <1>5 DEF selectRepo
  <2>2. p \in Places /\ p # None
    BY GitAssumption DEF Places, Checkouts, Main, None
  <2> QED
    BY <1>5, <2>1, <2>2, WishTight
<1>6. CASE p \in E /\ p # c.repo /\ ~c.busy
  <2>1. selectRepo(c, p, E) = applySelectRepo(c, p, E)
    BY <1>6 DEF selectRepo
  <2> QED
    BY <1>1, <1>2, <2>1, SelectReady
<1> QED
  BY <1>3, <1>4, <1>5, <1>6

\* The user picks a checkout.
LEMMA KeepsRepoSelected == ASSUME GitInv, onRepoSelected PROVE GitInv'
<1>1. PICK r \in ctl.rows : ctl' = [selectRepo(ctl, r, exists) EXCEPT !.saved = selectRepo(ctl, r, exists).repo]
  BY DEF onRepoSelected
<1> DEFINE c == selectRepo(ctl, r, exists)
           d == [c EXCEPT !.saved = c.repo]
<1>2. /\ Tight(ctl, exists) /\ World(exists) /\ exists' = exists /\ ctl.repo # None
      /\ r \in Checkouts
  BY DEF GitInv, Tight, Loose, Ctl, onRepoSelected, Request
<1>3. Tight(c, exists)
  BY <1>2, SelectTight
<1>4. ctl' = d
  BY <1>1
<1> HIDE DEF c
<1>5. c \in Ctl /\ c.repo \in Places
  BY <1>3 DEF Tight, Loose, Ctl
<1>6. /\ Alike(c, d) /\ d.busy = c.busy /\ d.current = c.current
      /\ d.dirty = c.dirty /\ d.immediate = c.immediate /\ d.full = c.full
      /\ d.timer = c.timer /\ d.burst = c.burst /\ d.since = c.since
  BY <1>5 DEF Ctl, Alike
<1> HIDE DEF d
<1>7. Loose(d, exists, d.current)
  BY <1>3, <1>6, AlikeLoose DEF Tight, Pending
<1>8. Shape(d) /\ Armed(d)
  BY <1>3, <1>6 DEF Tight, Shape, Armed, Alike
<1> QED
  BY <1>2, <1>4, <1>7, <1>8 DEF GitInv, Tight

\* The controller keeps its promises between any two handlers.
THEOREM GitInvariance == Spec => []GitInv
<1>1. Init => GitInv
  BY InitGit
<1>2. GitInv /\ [Next]_vars => GitInv'
  <2> SUFFICES ASSUME GitInv, [Next]_vars PROVE GitInv'
    OBVIOUS
  <2>1. CASE UNCHANGED vars
    BY <2>1 DEF GitInv, vars
  <2>2. ASSUME ProcessEnds \/ Cancel \/ onTimeout PROVE GitInv'
    BY <2>2, KeepsSucceeds, KeepsProcessEnds, KeepsTimeout DEF ProcessEnds
  <2>3. ASSUME Tick \/ QuietElapsed \/ onDebounce PROVE GitInv'
    BY <2>3, KeepsTick, KeepsQuietElapsed, KeepsDebounce
  <2>4. ASSUME StatusApplied \/ NumstatDone PROVE GitInv'
    BY <2>4, KeepsStatusApplied, KeepsNumstatDone
  <2>5. ASSUME Touch \/ WorktreeGone PROVE GitInv'
    BY <2>5, KeepsTouch, KeepsWorktreeGone
  <2>6. ASSUME onRepoSelected \/ Operate \/ RemoveWorktree PROVE GitInv'
    BY <2>6, KeepsRepoSelected, KeepsOperate, KeepsRemoveWorktree
  <2> QED
    BY <2>1, <2>2, <2>3, <2>4, <2>5, <2>6 DEF Next
<1> QED
  BY <1>1, <1>2, PTL DEF Spec

-----------------------------------------------------------------------------
(* What follows *)

\* The fields of the controller hold what the code can put in them.
THEOREM TypeCorrect == Spec => []TypeOK
<1>1. GitInv => TypeOK
  <2> SUFFICES ASSUME GitInv PROVE TypeOK
    OBVIOUS
  <2>1. ctl \in Ctl /\ exists \subseteq Checkouts
    BY DEF GitInv, Tight, Loose, World
  <2>2. /\ ctl.queue \in Seq([kind : Kinds, at : Checkouts])
        /\ ctl.current \in [kind : Kinds, at : Checkouts] \union {Idle}
    BY <2>1 DEF Ctl, OpType
  <2>3. ctl.lost \subseteq {"tree", "head", "rows"} \union Sides
    BY <2>1 DEF Ctl, Losses
  <2>4. {ctl.repo, ctl.wish, ctl.saved, ctl.parsing, ctl.shown} \subseteq Checkouts \union {None}
    BY <2>1 DEF Ctl, Places
  <2> QED
    BY <2>1, <2>2, <2>3, <2>4 DEF Ctl, TypeOK
<1> QED
  BY <1>1, GitInvariance, PTL

\* No change of the current checkout is forgotten: every one that is unread is
\* signalled, timed, queued, or was left behind by a failure.
THEOREM ChangesKept == Spec => []NothingForgotten
<1>1. GitInv => NothingForgotten
  <2> SUFFICES ASSUME GitInv PROVE NothingForgotten
    OBVIOUS
  <2>1. ctl \in Ctl /\ TreeComing(ctl) /\ HeadComing(ctl) /\ Armed(ctl)
    BY DEF GitInv, Tight, Loose
  <2>2. \A e : Contains(ctl.queue, e) <=> e \in Range(ctl.queue)
    BY <2>1, Contents DEF Ctl
  <2>3. Pending(ctl) => Coming(ctl)
    BY <2>1 DEF Pending, Coming, Armed
  <2> QED
    BY <2>1, <2>2, <2>3 DEF NothingForgotten, TreeComing, HeadComing
<1> QED
  BY <1>1, GitInvariance, PTL

\* A burst that never pauses is refreshed all the same.
THEOREM BurstsBounded == Spec => []BurstBounded
<1>1. GitInv => BurstBounded
  <2> SUFFICES ASSUME GitInv, ctl.dirty, ~ctl.busy PROVE ctl.burst < MaxWait + Quiet
    BY DEF BurstBounded
  <2>1. ctl.timer >= 0 /\ ctl.burst + ctl.timer < MaxWait + Quiet
    BY DEF GitInv, Tight, Armed
  <2>2. ctl.timer \in -1..Quiet /\ ctl.burst \in Nat /\ Quiet \in Nat /\ MaxWait \in Nat
    BY GitAssumption DEF GitInv, Tight, Loose, Ctl
  <2> QED
    BY <2>1, <2>2
<1> QED
  BY <1>1, GitInvariance, PTL

\* What a panel at rest is made of.
LEMMA Resting ==
    ASSUME GitInv, AtRest
    PROVE  /\ Due(ctl, ctl.current) => "tree" \in ctl.lost
           /\ ctl.queue = <<>> /\ Range(ctl.queue) = {} /\ ctl.current = Idle /\ ctl.wish = None
<1>1. ctl.queue = <<>> /\ ctl.current = Idle /\ ctl.wish = None
  BY DEF GitInv, Tight, Shape, AtRest
<1>2. Range(ctl.queue) = {}
  BY <1>1, EmptyRange
<1>3. "tree" \in ctl.unread => "tree" \in ctl.lost
  BY <1>2 DEF GitInv, Tight, Loose, TreeComing, AtRest
<1>4. Op("status", ctl.repo) # Idle
  BY OpEq, IdleKind
<1> QED
  BY <1>1, <1>2, <1>3, <1>4 DEF Due

\* The entries a panel at rest shows are those of the checkout it is on.
THEOREM EntriesCurrent == Spec => []PanelShowsRepo
<1>1. GitInv => PanelShowsRepo
  <2> SUFFICES ASSUME GitInv, AtRest PROVE ctl.shown = ctl.repo \/ "tree" \in ctl.lost
    BY DEF PanelShowsRepo
  <2>1. Panel(ctl, ctl.current)
    BY DEF GitInv, Tight, Loose
  <2> QED
    BY <2>1, Resting DEF Panel, AtRest
<1> QED
  BY <1>1, GitInvariance, PTL

\* The line counts of a panel at rest belong to these entries.
THEOREM CountsCurrent == Spec => []CountsFollowEntries
<1>1. GitInv => CountsFollowEntries
  <2> SUFFICES ASSUME GitInv, AtRest, ctl.numstat = "off", "tree" \notin ctl.lost
               PROVE  Sides \subseteq ctl.lost \union (Sides \ (ctl.blank \union ctl.stale))
    BY DEF CountsFollowEntries
  <2>1. PassCovers(ctl)
    BY Resting DEF GitInv, Tight, Loose, Counted, AtRest
  <2> QED
    BY <2>1 DEF PassCovers, Fine
<1> QED
  BY <1>1, GitInvariance, PTL

\* A panel does not stay on a checkout that is gone.
THEOREM OnlyWhatExists == Spec => []NeverRestsOnRemoved
<1>1. GitInv => NeverRestsOnRemoved
  <2> SUFFICES ASSUME GitInv, AtRest, ctl.repo \notin exists PROVE "rows" \in ctl.lost
    BY DEF NeverRestsOnRemoved
  <2>1. Listed(ctl, exists, ctl.current)
    BY DEF GitInv, Tight, Loose
  <2>2. Op("worktrees", Main) # Idle
    BY OpEq, IdleKind
  <2> QED
    BY <2>1, <2>2, Resting DEF Listed, AtRest
<1> QED
  BY <1>1, GitInvariance, PTL
=============================================================================
