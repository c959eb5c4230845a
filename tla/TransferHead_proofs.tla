------------------------- MODULE TransferHead_proofs -------------------------
(* Proofs about TransferQueue when no transfer starts while a cancelled one    *)
(* has calls in flight: what the manager waits for is always a call or a       *)
(* dialog of the head, the head's files are done in order and each once, and   *)
(* its archive is removed, for any number of transfers and files.              *)
EXTENDS TransferQueue_proofs

\* Transfers do not overlap, and a menu's conflict handler, which stays connected
\* when there was no conflict, is not left over for another upload that scans.
Separate ==
    /\ MayOverlap = FALSE
    /\ \A t, u \in Transfers :
         t # u /\ "menu" \in Offers[t] => Offers[u] \intersect {"menu", "skip", "refuse"} = {}

Kinds == kind \in [Transfers -> DownloadKinds \union UploadKinds] /\ \A t \in Transfers : kind[t] \in Offers[t]

Progress == [Transfers -> [1..MaxFiles -> Nat]]

\* The manager was done with the first n files of t, and with no other.
Upto(p, t, n) == \A k \in 1..MaxFiles : p[t][k] = IF k <= n THEN 1 ELSE 0

Fields(w) ==
    DOMAIN w = {"downloads", "didx", "uploads", "uidx", "skip", "found", "scans", "made", "archive"}

\* What the head t of kind kd waits for: n of its files are known, C are its calls.
Walking(kd, t, w, C, p, n) ==
    /\ kd \in {"tree", "filtered"} /\ C # {} /\ \A c \in C : c.op \in WalkOps
    /\ w.downloads = Entries(t, 1, n) /\ w.didx = 1 /\ Upto(p, t, 0)
Packing(kd, t, w, C, p, n) ==
    /\ kd \in {"tree", "filtered"}
    /\ \E o \in {"probe", "pack", "stream", "extract"} : C = {Call(o, t, 0, 0)}
    /\ w.downloads = Entries(t, 1, n) /\ w.didx = 1 /\ Upto(p, t, 0)
Reading(kd, t, w, C, p, n) ==
    /\ kd \in DownloadKinds /\ w.didx \in 1..n /\ C = {Call("read", t, w.didx, 0)}
    /\ w.downloads = Entries(t, 1, n) /\ Upto(p, t, w.didx - 1)
Scanning(kd, t, w, C, p, n) ==
    /\ kd \in {"menu", "skip", "refuse"} /\ C # {} /\ \A c \in C : c.op = "scan"
    /\ w.scans = Cardinality(C) /\ w.uploads = Entries(t, 1, n) /\ Upto(p, t, 0)
Asking(kd, t, w, C, p, n) ==
    /\ kd = "menu" /\ C = {} /\ w.found # {}
    /\ w.uploads = Entries(t, 1, n) /\ Upto(p, t, 0)
Uploading(kd, t, w, C, p, n) ==
    /\ kd \in UploadKinds /\ w.uidx \in 1..n
    /\ \E c \in C : C = {c} /\ c.op \in {"mkdir", "write"} /\ c.file = w.uidx
    /\ w.uploads = Entries(t, 1, n) /\ Upto(p, t, w.uidx - 1)
Phase(kd, t, w, C, p, n) ==
    \/ Walking(kd, t, w, C, p, n) \/ Packing(kd, t, w, C, p, n) \/ Reading(kd, t, w, C, p, n)
    \/ Scanning(kd, t, w, C, p, n) \/ Asking(kd, t, w, C, p, n) \/ Uploading(kd, t, w, C, p, n)

\* All calls are the head's; between transfers there are none, except those that
\* a cancel or a lost connection left in flight.
Alone ==
    /\ Fields(work)
    /\ active =>
         /\ ~cancelled /\ \A c \in calls : c.of = Head(queue)
         /\ Phase(kind[Head(queue)], Head(queue), work, calls, passed, size[Head(queue)])
    /\ ~active /\ ~cancelled => calls = {}
    /\ ~active /\ cancelled =>
         work.downloads = <<>> /\ \A c \in calls : c.of \in Transfers /\ outcome[c.of] \in {"cancelled", "lost"}

Apart(C) ==
    \A c, d \in C :
        c # d => (c.op \in WalkOps /\ d.op \in WalkOps) \/ (c.op = "scan" /\ d.op = "scan")

\* Transfers that have not started are as they were requested, completed ones whole.
Fresher(kd, p, t, n) == Upto(p, t, 0) /\ n \in FirstSizes(kd)
Waiting(kd, q, r, p, sz) ==
    \A t \in Transfers :
        r[t] = "new" \/ (\E i \in 2..Len(q) : q[i] = t) => Fresher(kd[t], p, t, sz[t])
Done(r, p, sz) == \A t \in Transfers : r[t] = "completed" => \A k \in 1..sz[t] : p[t][k] = 1

Driven ==
    /\ Alone /\ Apart(calls)
    /\ passed \in Progress /\ Waiting(kind, queue, outcome, passed, size) /\ Done(outcome, passed, size)

\* One menu handler or dialog at most; an open dialog is about the head.
Asked ==
    /\ handlers \in Nat /\ dialogs \in Nat /\ handlers + dialogs <= 1
    /\ handlers + dialogs > 0 => \E t \in Transfers : kind[t] = "menu" /\ outcome[t] # "new"
    /\ active /\ dialogs > 0 =>
         Asking(kind[Head(queue)], Head(queue), work, calls, passed, size[Head(queue)])

\* While connected, an archive on the server is one that is being read or unpacked.
Kept ==
    link = "up" => \A t \in stored \ orphans :
        active /\ t = Head(queue) /\ work.archive = t /\ \E c \in calls : c.op \in {"stream", "extract"}

\* No transfer becomes new again.
OldStay == \A t \in Transfers : outcome'[t] = "new" => outcome[t] = "new"

QueueInv == WalkInv /\ Kinds /\ Driven /\ Asked /\ Kept

\* The step is one of the job queue, or none of its business.
JobStep == AsJobs!Next \/ UNCHANGED <<queue, outcome, size, passed>>

-----------------------------------------------------------------------------
(* Manifests and progress *)

LEMMA EntriesAre ==
    ASSUME NEW t, NEW a \in Nat, NEW n \in Nat
    PROVE  /\ Entries(t, a + 1, a + n) \in Seq({t} \X Nat) /\ Len(Entries(t, a + 1, a + n)) = n
           /\ \A i \in 1..n : Entries(t, a + 1, a + n)[i] = <<t, a + i>>
<1> DEFINE e == Entries(t, a + 1, a + n)
<1>1. e = [i \in 1..n |-> <<t, a + i>>]
  <2>1. (a + n) - (a + 1) + 1 = n /\ \A i \in 1..n : (a + 1) + i - 1 = a + i
    OBVIOUS
  <2> QED
    BY <2>1 DEF Entries
<1>2. e \in [1..n -> {t} \X Nat]
  BY <1>1
<1>3. e \in Seq({t} \X Nat) /\ Len(e) = n
  <2>1. e \in Seq({t} \X Nat)
    BY <1>2, SeqDef
  <2>2. DOMAIN e = 1..n /\ DOMAIN e = 1..Len(e) /\ Len(e) \in Nat
    BY <1>2, <2>1, LenProperties
  <2> QED
    BY <2>1, <2>2
<1> QED
  BY <1>1, <1>3

\* The manifest of the first n files.
LEMMA ManifestIs ==
    ASSUME NEW t, NEW n \in Nat
    PROVE  /\ Entries(t, 1, n) \in Seq({t} \X Nat) /\ Len(Entries(t, 1, n)) = n
           /\ \A i \in 1..n : Entries(t, 1, n)[i] = <<t, i>>
           /\ Entries(t, 1, n) = <<>> <=> n = 0
<1>1. 0 + 1 = 1 /\ 0 + n = n /\ \A i \in 1..n : 0 + i = i
  OBVIOUS
<1>2. /\ Entries(t, 1, n) \in Seq({t} \X Nat) /\ Len(Entries(t, 1, n)) = n
      /\ \A i \in 1..n : Entries(t, 1, n)[i] = <<t, i>>
  <2>1. /\ Entries(t, 0 + 1, 0 + n) \in Seq({t} \X Nat) /\ Len(Entries(t, 0 + 1, 0 + n)) = n
        /\ \A i \in 1..n : Entries(t, 0 + 1, 0 + n)[i] = <<t, 0 + i>>
    BY EntriesAre
  <2> QED
    BY <1>1, <2>1
<1>3. Entries(t, 1, n) = <<>> <=> n = 0
  BY <1>2, EmptySeq
<1> QED
  BY <1>2, <1>3

\* Files that are found later come after those known.
LEMMA ManifestGrows ==
    ASSUME NEW t, NEW n \in Nat, NEW m \in Nat
    PROVE  Entries(t, 1, n) \o Entries(t, n + 1, n + m) = Entries(t, 1, n + m)
<1> DEFINE a == Entries(t, 1, n)
           b == Entries(t, n + 1, n + m)
           c == Entries(t, 1, n + m)
           S == {t} \X Nat
<1>1. a \in Seq(S) /\ Len(a) = n /\ \A i \in 1..n : a[i] = <<t, i>>
  BY ManifestIs
<1>2. b \in Seq(S) /\ Len(b) = m /\ \A i \in 1..m : b[i] = <<t, n + i>>
  BY EntriesAre
<1>3. c \in Seq(S) /\ Len(c) = n + m /\ \A i \in 1..n + m : c[i] = <<t, i>>
  <2> DEFINE l == n + m
  <2>1. l \in Nat
    OBVIOUS
  <2> HIDE DEF l
  <2>2. Entries(t, 1, l) \in Seq(S) /\ Len(Entries(t, 1, l)) = l /\ \A i \in 1..l : Entries(t, 1, l)[i] = <<t, i>>
    BY <2>1, ManifestIs
  <2> QED
    BY <2>2 DEF l
<1> DEFINE d == a \o b
<1> HIDE DEF a, b, c, S
<1>4. /\ d \in Seq(S) /\ Len(d) = n + m
      /\ \A i \in 1..n + m : d[i] = IF i <= n THEN a[i] ELSE b[i - n]
  BY <1>1, <1>2, ConcatProperties
<1> HIDE DEF d
<1>5. ASSUME NEW i \in 1..n + m PROVE d[i] = c[i]
  <2>1. CASE i <= n
    <3>1. i \in 1..n
      BY <2>1
    <3>2. d[i] = a[i] /\ a[i] = <<t, i>> /\ c[i] = <<t, i>>
      BY <1>1, <1>3, <1>4, <2>1, <3>1
    <3> QED
      BY <3>2
  <2>2. CASE ~(i <= n)
    <3>1. i - n \in 1..m /\ n + (i - n) = i
      BY <2>2
    <3>2. d[i] = b[i - n] /\ b[i - n] = <<t, n + (i - n)>> /\ c[i] = <<t, i>>
      BY <1>2, <1>3, <1>4, <2>2, <3>1
    <3> QED
      BY <3>1, <3>2
  <2> QED
    BY <2>1, <2>2
<1>6. d = c
  BY <1>3, <1>4, <1>5, SeqEqual
<1> QED
  BY <1>6 DEF a, b, c, d

LEMMA PassIs ==
    ASSUME NEW p \in Progress, NEW S
    PROVE  /\ Pass(p, S) \in Progress
           /\ \A t \in Transfers : \A k \in 1..MaxFiles :
                Pass(p, S)[t][k] = p[t][k] + (IF <<t, k>> \in S THEN 1 ELSE 0)
<1> DEFINE P == Pass(p, S)
<1>1. \A t \in Transfers : \A k \in 1..MaxFiles : p[t][k] \in Nat
  BY DEF Progress
<1>2. P = [t \in Transfers |-> [k \in 1..MaxFiles |-> p[t][k] + (IF <<t, k>> \in S THEN 1 ELSE 0)]]
  BY DEF Pass
<1> HIDE DEF P
<1>3. ASSUME NEW t \in Transfers
      PROVE  /\ P[t] \in [1..MaxFiles -> Nat]
             /\ \A k \in 1..MaxFiles : P[t][k] = p[t][k] + (IF <<t, k>> \in S THEN 1 ELSE 0)
  <2>1. P[t] = [k \in 1..MaxFiles |-> p[t][k] + (IF <<t, k>> \in S THEN 1 ELSE 0)]
    BY <1>2
  <2>2. \A k \in 1..MaxFiles : p[t][k] + (IF <<t, k>> \in S THEN 1 ELSE 0) \in Nat
    BY <1>1
  <2> QED
    BY <2>1, <2>2
<1>4. P \in Progress
  <2>1. P = [t \in Transfers |-> P[t]]
    BY <1>2
  <2> QED
    BY <1>3, <2>1 DEF Progress
<1> QED
  BY <1>3, <1>4 DEF P

\* What is passed as often in each file is passed as often.
LEMMA SameProgress ==
    ASSUME NEW p \in Progress, NEW P \in Progress, NEW v \in Transfers,
           \A k \in 1..MaxFiles : P[v][k] = p[v][k]
    PROVE  P[v] = p[v]
<1> DEFINE f == p[v]
           g == P[v]
<1>1. f \in [1..MaxFiles -> Nat] /\ g \in [1..MaxFiles -> Nat] /\ \A k \in 1..MaxFiles : g[k] = f[k]
  BY DEF Progress
<1> HIDE DEF f, g
<1>2. f = [k \in 1..MaxFiles |-> f[k]] /\ g = [k \in 1..MaxFiles |-> g[k]]
  BY <1>1
<1>3. [k \in 1..MaxFiles |-> f[k]] = [k \in 1..MaxFiles |-> g[k]]
  BY <1>1
<1> QED
  BY <1>2, <1>3 DEF f, g

Slice(u, i, j) == {u[m] : m \in i..j - 1}

\* Passing by the files from i on, up to before j.
LEMMA PassRange ==
    ASSUME NEW p \in Progress, NEW t \in Transfers, NEW n \in 0..MaxFiles,
           NEW i \in 1..n + 1, NEW j \in i..n + 1, Upto(p, t, i - 1),
           NEW u, u = Entries(t, 1, n)
    PROVE  LET P == Pass(p, Slice(u, i, j))
           IN  /\ P \in Progress /\ Upto(P, t, j - 1)
               /\ \A v \in Transfers : v # t => P[v] = p[v]
<1> DEFINE S == Slice(u, i, j)
           P == Pass(p, S)
<1>1. MaxFiles \in Nat /\ n \in Nat
  BY FilesAssumption
<1>2. \A m \in i..j - 1 : u[m] = <<t, m>>
  <2>1. \A m \in i..j - 1 : m \in 1..n
    BY <1>1
  <2>2. \A m \in 1..n : u[m] = <<t, m>>
    BY <1>1, ManifestIs
  <2> QED
    BY <2>1, <2>2
<1>3. \A v, k : <<v, k>> \in S <=> v = t /\ k \in i..j - 1
  BY <1>2 DEF Slice
<1> HIDE DEF S
<1>4. /\ P \in Progress
      /\ \A v \in Transfers : \A k \in 1..MaxFiles : P[v][k] = p[v][k] + (IF <<v, k>> \in S THEN 1 ELSE 0)
  BY PassIs
<1> HIDE DEF P
<1>5. Upto(P, t, j - 1)
  <2> SUFFICES ASSUME NEW k \in 1..MaxFiles PROVE P[t][k] = IF k <= j - 1 THEN 1 ELSE 0
    BY DEF Upto
  <2>1. p[t][k] = IF k <= i - 1 THEN 1 ELSE 0
    BY DEF Upto
  <2>2. P[t][k] = p[t][k] + (IF k \in i..j - 1 THEN 1 ELSE 0)
    BY <1>3, <1>4
  <2> QED
    BY <1>1, <2>1, <2>2
<1>6. ASSUME NEW v \in Transfers, v # t PROVE P[v] = p[v]
  <2>1. \A k \in 1..MaxFiles : P[v][k] = p[v][k]
    <3>1. \A k \in 1..MaxFiles : p[v][k] \in Nat
      BY DEF Progress
    <3>2. ASSUME NEW k \in 1..MaxFiles PROVE P[v][k] = p[v][k]
      <4>1. P[v][k] = p[v][k] + (IF <<v, k>> \in S THEN 1 ELSE 0) /\ p[v][k] \in Nat
        BY <1>4, <3>1
      <4>2. <<v, k>> \notin S
        BY <1>3, <1>6
      <4> QED
        BY <4>1, <4>2
    <3> QED
      BY <3>2
  <2> QED
    BY <1>4, <2>1, SameProgress
<1> QED
  BY <1>4, <1>5, <1>6 DEF P, S

\* The same for one file.
LEMMA PassOne ==
    ASSUME NEW p \in Progress, NEW t \in Transfers, NEW i \in 1..MaxFiles, Upto(p, t, i - 1),
           NEW k, k = i
    PROVE  LET P == Pass(p, {<<t, k>>})
           IN  /\ P \in Progress /\ Upto(P, t, i)
               /\ \A v \in Transfers : v # t => P[v] = p[v]
<1> DEFINE S == {<<t, k>>}
           P == Pass(p, S)
<1>1. MaxFiles \in Nat
  BY FilesAssumption
<1>2. \A v, m : <<v, m>> \in S <=> v = t /\ m = i
  OBVIOUS
<1> HIDE DEF S
<1>3. /\ P \in Progress
      /\ \A v \in Transfers : \A m \in 1..MaxFiles : P[v][m] = p[v][m] + (IF <<v, m>> \in S THEN 1 ELSE 0)
  BY PassIs
<1> HIDE DEF P
<1>4. Upto(P, t, i)
  <2> SUFFICES ASSUME NEW m \in 1..MaxFiles PROVE P[t][m] = IF m <= i THEN 1 ELSE 0
    BY DEF Upto
  <2>1. p[t][m] = IF m <= i - 1 THEN 1 ELSE 0
    BY DEF Upto
  <2>2. P[t][m] = p[t][m] + (IF m = i THEN 1 ELSE 0)
    BY <1>3, <1>2
  <2> QED
    BY <1>1, <2>1, <2>2
<1>5. ASSUME NEW v \in Transfers, v # t PROVE P[v] = p[v]
  <2>1. \A m \in 1..MaxFiles : P[v][m] = p[v][m]
    <3>1. \A m \in 1..MaxFiles : p[v][m] \in Nat
      BY DEF Progress
    <3>2. ASSUME NEW m \in 1..MaxFiles PROVE P[v][m] = p[v][m]
      <4>1. P[v][m] = p[v][m] + (IF <<v, m>> \in S THEN 1 ELSE 0) /\ p[v][m] \in Nat
        BY <1>3, <3>1
      <4>2. <<v, m>> \notin S
        BY <1>2, <1>5
      <4> QED
        BY <4>1, <4>2
    <3> QED
      BY <3>2
  <2> QED
    BY <1>3, <2>1, SameProgress
<1> QED
  BY <1>3, <1>4, <1>5 DEF P, S

\* A head does one thing at a time.
LEMMA PhaseApart ==
    ASSUME NEW kd, NEW t, NEW w, NEW C, NEW p, NEW n, Phase(kd, t, w, C, p, n)
    PROVE  Apart(C)
  BY DEF Phase, Walking, Packing, Reading, Scanning, Asking, Uploading, Apart

-----------------------------------------------------------------------------
(* How the queue moves on *)

\* The members as startNextTransfer leaves them for a transfer.
LEMMA FirstWorkIs ==
    ASSUME NEW t
    PROVE  /\ Fields(Fresh) /\ Fields(FirstWork(t))
           /\ kind[t] = "file" => FirstWork(t).downloads = Entries(t, 1, 1) /\ FirstWork(t).didx = 1
           /\ kind[t] \in {"tree", "filtered"} => FirstWork(t).downloads = <<>> /\ FirstWork(t).didx = 1
           /\ kind[t] = "overwrite" =>
                FirstWork(t).uploads = Entries(t, 1, size[t]) /\ FirstWork(t).uidx = 1
           /\ kind[t] \in {"menu", "skip", "refuse"} =>
                /\ FirstWork(t).uploads = Entries(t, 1, size[t])
                /\ FirstWork(t).scans = Cardinality(FirstCalls(t))
<1>1. Fields(Fresh) /\ Fresh.downloads = <<>> /\ Fresh.didx = 1 /\ Fresh.uidx = 1
  BY DEF Fresh, Fields
<1> HIDE DEF Fresh
<1>2. CASE kind[t] = "file"
  BY <1>1, <1>2 DEF FirstWork, Fields
<1>3. CASE kind[t] \in {"tree", "filtered"}
  BY <1>1, <1>3 DEF FirstWork
<1>4. CASE kind[t] = "overwrite"
  BY <1>1, <1>4 DEF FirstWork, Fields
<1>5. CASE kind[t] \notin {"file", "tree", "filtered", "overwrite"}
  BY <1>1, <1>5 DEF FirstWork, Fields
<1> QED
  BY <1>1, <1>2, <1>3, <1>4, <1>5

\* A transfer that is started waits for its first calls.
LEMMA FirstPhase ==
    ASSUME NEW t \in Transfers, Kinds, Sized(size), NEW p, Fresher(kind[t], p, t, size[t]), ~Instant(t)
    PROVE  /\ \A c \in FirstCalls(t) : c.of = t
           /\ Phase(kind[t], t, FirstWork(t), FirstCalls(t), p, size[t])
<1>1. MaxFiles \in Nat /\ size[t] \in Nat
  BY FilesAssumption DEF Sized
<1>2. Upto(p, t, 0) /\ size[t] \in FirstSizes(kind[t])
  BY DEF Fresher
<1>3. kind[t] \in UploadKinds => size[t] \in 1..size[t]
  BY <1>1, <1>2 DEF Instant
<1>4. ASSUME NEW c \in FirstCalls(t) PROVE c.of = t
  BY CallIs DEF FirstCalls
<1>5. CASE kind[t] = "file"
  <2>1. size[t] = 1 /\ 1 \in 1..1 /\ 1 - 1 = 0
    BY <1>2, <1>5 DEF FirstSizes, UploadKinds
  <2>2. FirstCalls(t) = {Call("read", t, 1, 0)}
    BY <1>5 DEF FirstCalls
  <2>3. Reading(kind[t], t, FirstWork(t), FirstCalls(t), p, size[t])
    BY <1>2, <1>5, <2>1, <2>2, FirstWorkIs DEF Reading, DownloadKinds
  <2> QED
    BY <1>4, <2>3 DEF Phase
<1>6. CASE kind[t] \in {"tree", "filtered"}
  <2>1. size[t] = 0
    BY <1>2, <1>6 DEF FirstSizes, UploadKinds
  <2>2. FirstCalls(t) = {Call("list", t, 0, 0)} /\ Call("list", t, 0, 0).op \in WalkOps
    BY <1>6, CallIs DEF FirstCalls, WalkOps
  <2>3. Entries(t, 1, size[t]) = <<>>
    BY <1>1, <2>1, ManifestIs
  <2>4. Walking(kind[t], t, FirstWork(t), FirstCalls(t), p, size[t])
    BY <1>2, <1>6, <2>2, <2>3, FirstWorkIs DEF Walking
  <2> QED
    BY <1>4, <2>4 DEF Phase
<1>7. CASE kind[t] = "overwrite"
  <2>1. 1 \in 1..size[t] /\ 1 - 1 = 0
    BY <1>1, <1>3, <1>7 DEF UploadKinds
  <2> DEFINE c == Call("mkdir", t, 1, 0)
  <2>2. FirstCalls(t) = {c} /\ c.op = "mkdir" /\ c.file = 1
    BY <1>7, CallIs DEF FirstCalls
  <2> HIDE DEF c
  <2>3. Uploading(kind[t], t, FirstWork(t), FirstCalls(t), p, size[t])
    BY <1>2, <1>7, <2>1, <2>2, FirstWorkIs DEF Uploading, UploadKinds
  <2> QED
    BY <1>4, <2>3 DEF Phase
<1>8. CASE kind[t] \in {"menu", "skip", "refuse"}
  <2>1. FirstCalls(t) = {Call("scan", t, 0, DirOf[k]) : k \in 1..size[t]}
    BY <1>8 DEF FirstCalls
  <2>2. FirstCalls(t) # {} /\ \A c \in FirstCalls(t) : c.op = "scan"
    BY <1>3, <1>8, <2>1, CallIs DEF UploadKinds
  <2>3. Scanning(kind[t], t, FirstWork(t), FirstCalls(t), p, size[t])
    BY <1>2, <1>8, <2>2, FirstWorkIs DEF Scanning
  <2> QED
    BY <1>4, <2>3 DEF Phase
<1> QED
  BY <1>5, <1>6, <1>7, <1>8 DEF Kinds, DownloadKinds, UploadKinds

\* startNextTransfer: nothing is in flight, what waits has not started.
LEMMA StartHead ==
    ASSUME NEW q, NEW r, NEW s, QueueOf(q, r), Sized(size), Sized(size)', Kinds, kind' = kind,
           Fields(work), s.calls = {}, passed' \in Progress,
           \A t \in Transfers :
             r[t] = "new" \/ (\E i \in 1..Len(q) : q[i] = t)
               => Fresher(kind[t], passed', t, size[t]) /\ size'[t] = size[t],
           Done(r, passed', size'), ~cancelled \/ q # <<>>, StartNext(q, s, r)
    PROVE  Driven' /\ \A t \in Transfers : outcome'[t] = "new" => r[t] = "new"
<1>1. PICK n \in 0..Len(q) :
        LET rest == SubSeq(q, n + 1, Len(q))
            t == Head(rest)
        IN  /\ \A i \in 1..n : Instant(q[i])
            /\ n < Len(q) => ~Instant(q[n + 1])
            /\ queue' = rest
            /\ active' = (n < Len(q))
            /\ cancelled' = (cancelled /\ q = <<>>)
            /\ outcome' = [u \in Transfers |-> IF \E i \in 1..n : q[i] = u THEN "completed" ELSE r[u]]
            /\ IF n = Len(q)
               THEN work' = (IF q = <<>> THEN work ELSE Fresh) /\ calls' = s.calls
               ELSE work' = FirstWork(t) /\ calls' = s.calls \union FirstCalls(t)
  BY Zenon DEF StartNext
<1>2. q \in Seq(Transfers) /\ Len(q) \in Nat /\ \A i \in 1..Len(q) : q[i] \in Transfers
  BY ElementOfSeq DEF QueueOf
<1>3. /\ queue' \in Seq(Transfers) /\ Len(queue') = Len(q) - n
      /\ \A i \in 1..Len(queue') : queue'[i] = q[i + n]
  BY <1>1, <1>2, SubSeqProperties
<1>4. ~cancelled'
  BY <1>1
<1>5. \A t \in Transfers : outcome'[t] = "new" => r[t] = "new"
  BY <1>1
<1>6. \A t \in Transfers : (\E i \in 1..Len(queue') : queue'[i] = t) => \E i \in 1..Len(q) : q[i] = t
  BY <1>2, <1>3
<1>7. Waiting(kind', queue', outcome', passed', size')
  <2>1. ASSUME NEW t \in Transfers, outcome'[t] = "new" \/ \E i \in 2..Len(queue') : queue'[i] = t
        PROVE  Fresher(kind[t], passed', t, size'[t])
    <3>1. r[t] = "new" \/ \E i \in 1..Len(q) : q[i] = t
      <4>1. 2..Len(queue') \subseteq 1..Len(queue')
        BY <1>2, <1>3
      <4> QED
        BY <1>5, <1>6, <2>1, <4>1
    <3> QED
      BY <3>1
  <2> QED
    BY <2>1 DEF Waiting
<1>8. Done(outcome', passed', size')
  <2>1. ASSUME NEW t \in Transfers, outcome'[t] = "completed", NEW k \in 1..size'[t]
        PROVE  passed'[t][k] = 1
    <3>1. CASE \E i \in 1..n : q[i] = t
      <4>1. PICK i \in 1..n : q[i] = t
        BY <3>1
      <4>2. size[t] = 0 /\ i \in 1..Len(q)
        BY <1>1, <1>2, <4>1 DEF Instant
      <4>3. size'[t] = 0
        BY <4>1, <4>2
      <4> QED
        BY <2>1, <4>3
    <3>2. CASE ~\E i \in 1..n : q[i] = t
      BY <1>1, <2>1, <3>2 DEF Done
    <3> QED
      BY <3>1, <3>2
  <2> QED
    BY <2>1 DEF Done
<1>9. Alone' /\ Apart(calls')
  <2>1. CASE n = Len(q)
    <3>1. calls' = {} /\ (work' = work \/ work' = Fresh)
      BY <1>1, <2>1
    <3>2. ~active'
      <4>1. ~(n < Len(q))
        BY <1>2, <2>1
      <4> QED
        BY <1>1, <4>1, Zenon
    <3>3. Fields(work')
      BY <3>1, FirstWorkIs
    <3> QED
      BY <1>4, <3>1, <3>2, <3>3 DEF Alone, Apart
  <2>2. CASE n < Len(q)
    <3> DEFINE t == Head(SubSeq(q, n + 1, Len(q)))
    <3>1. t \in Transfers /\ t = q[n + 1] /\ n + 1 \in 1..Len(q)
      BY <1>2, <2>2, HeadTailOfSubSeq
    <3>2. /\ active' /\ t = Head(queue') /\ work' = FirstWork(t)
          /\ calls' = FirstCalls(t) /\ ~Instant(t)
      BY <1>1, <1>2, <2>2, <3>1
    <3> HIDE DEF t
    <3>3. Fresher(kind[t], passed', t, size[t]) /\ size'[t] = size[t]
      BY <3>1
    <3>4. /\ \A c \in FirstCalls(t) : c.of = t
          /\ Phase(kind[t], t, FirstWork(t), FirstCalls(t), passed', size[t])
      BY <3>1, <3>2, <3>3, FirstPhase
    <3>5. Fields(work')
      BY <3>2, FirstWorkIs
    <3>6. Apart(calls')
      BY <3>2, <3>4, PhaseApart
    <3>7. Phase(kind'[t], t, work', calls', passed', size'[t])
      BY <3>2, <3>3, <3>4
    <3> QED
      BY <1>4, <3>2, <3>4, <3>5, <3>6, <3>7 DEF Alone
  <2> QED
    BY <1>2, <2>1, <2>2
<1> QED
  BY <1>5, <1>7, <1>8, <1>9 DEF Driven

\* The transfer at the head of a queue that is running.
LEMMA HeadIs ==
    ASSUME QueueInv, active
    PROVE  /\ queue # <<>> /\ Head(queue) \in Transfers /\ Head(queue) = queue[1] /\ 1 \in 1..Len(queue)
           /\ outcome[Head(queue)] = "queued" /\ ~cancelled /\ Owner = Head(queue)
           /\ \A c \in calls : c.of = Head(queue)
           /\ size[Head(queue)] \in Nat /\ size[Head(queue)] <= MaxFiles
           /\ Phase(kind[Head(queue)], Head(queue), work, calls, passed, size[Head(queue)])
<1>1. queue # <<>> /\ QueueOf(queue, outcome)
  BY DEF QueueInv, WalkInv, Walks
<1>2. Head(queue) \in Transfers /\ Head(queue) = queue[1] /\ 1 \in 1..Len(queue)
  <2>1. "new" \in Outcomes \ {"queued"}
    BY DEF Outcomes
  <2> QED
    BY <1>1, <2>1, HeadOut
<1>3. outcome[Head(queue)] = "queued"
  BY <1>1, <1>2 DEF QueueOf
<1>4. size[Head(queue)] \in Nat /\ size[Head(queue)] <= MaxFiles
  BY <1>2, FilesAssumption DEF QueueInv, WalkInv, Sized
<1> QED
  BY <1>1, <1>2, <1>3, <1>4 DEF QueueInv, Driven, Alone, Owner

\* The head finds files and is done with them in order.
Forward ==
    /\ size'[Head(queue)] >= size[Head(queue)]
    /\ \E m, n \in 0..MaxFiles : m <= n /\ Upto(passed, Head(queue), m) /\ Upto(passed', Head(queue), n)

\* A step of the head changes no other transfer.
HeadOnly ==
    /\ kind' = kind /\ Sized(size)' /\ passed' \in Progress /\ Forward
    /\ \A u \in Transfers \ {Head(queue)} : passed'[u] = passed[u] /\ size'[u] = size[u]

LEMMA NothingDone ==
    ASSUME passed' = passed, size'[Head(queue)] >= size[Head(queue)],
           NEW n \in 0..MaxFiles, Upto(passed, Head(queue), n)
    PROVE  Forward
<1>1. n <= n
  OBVIOUS
<1> QED
  BY <1>1 DEF Forward, Upto

\* What the head does is what the job at the front does, and it may end.
LEMMA HeadWorks ==
    ASSUME QueueInv, active, HeadOnly,
           \E n \in 0..Len(queue), first \in {"completed", "failed"} : AsJobs!End(n, first)
    PROVE  JobStep
<1> DEFINE h == Head(queue)
           d == passed'[h]
           z == size'[h]
<1>1. queue # <<>> /\ h \in Transfers
  BY HeadIs
<1>2. PICK m, n \in 0..MaxFiles : m <= n /\ Upto(passed, h, m) /\ Upto(passed', h, n)
  BY DEF HeadOnly, Forward
<1>3. z \in 0..MaxFiles /\ z >= size[h]
  BY <1>1 DEF HeadOnly, Forward, Sized
<1>4. d \in [1..MaxFiles -> 0..1]
  <2>1. d \in [1..MaxFiles -> Nat]
    BY <1>1 DEF HeadOnly, Progress
  <2>2. \A k \in 1..MaxFiles : d[k] \in 0..1
    BY <1>2 DEF Upto
  <2> HIDE DEF d
  <2> QED
    BY <2>1, <2>2
<1>5. \A k \in 1..MaxFiles : d[k] >= passed[h][k]
  BY <1>2, FilesAssumption DEF Upto
<1>6. size' = [size EXCEPT ![h] = z]
  <2>1. size \in [Transfers -> 0..MaxFiles] /\ size' \in [Transfers -> 0..MaxFiles]
    BY DEF HeadOnly, Sized, QueueInv, WalkInv
  <2>2. \A u \in Transfers \ {h} : size'[u] = size[u]
    BY DEF HeadOnly
  <2> QED
    BY <2>1, <2>2
<1>7. passed' = [passed EXCEPT ![h] = d]
  <2>1. passed \in Progress /\ passed' \in Progress
    BY DEF HeadOnly, QueueInv, Driven
  <2>2. \A u \in Transfers \ {h} : passed'[u] = passed[u]
    BY DEF HeadOnly
  <2> QED
    BY <2>1, <2>2 DEF Progress
<1> HIDE DEF d, z
<1>8. AsJobs!Work
  BY <1>3, <1>4, <1>5, <1>6, <1>7 DEF AsJobs!Work, h
<1>9. AsJobs!Proceed
  BY <1>1, <1>8 DEF AsJobs!Proceed
<1> QED
  BY <1>9 DEF AsJobs!Next, JobStep

\* It goes on, still at the front.
LEMMA HeadStays ==
    ASSUME QueueInv, active, HeadOnly, UNCHANGED <<queue, outcome>>
    PROVE  JobStep
<1>1. /\ queue \in Seq(Transfers) /\ Len(queue) \in Nat /\ outcome \in [Transfers -> Outcomes]
      /\ SubSeq(queue, 0 + 1, Len(queue)) = queue
  <2>1. queue \in Seq(Transfers) /\ outcome \in [Transfers -> Outcomes]
    BY DEF QueueInv, WalkInv, Walks, QueueOf
  <2> QED
    BY <2>1
<1>2. {queue[i] : i \in 1..0} = {}
  OBVIOUS
<1>3. AsJobs!End(0, "failed")
  BY <1>1, <1>2 DEF AsJobs!End
<1>4. 0 \in 0..Len(queue) /\ "failed" \in {"completed", "failed"}
  BY <1>1
<1> QED
  BY <1>3, <1>4, HeadWorks

\* What is left of a sequence.
LEMMA Suffix ==
    ASSUME NEW S, NEW q \in Seq(S), NEW n \in 0..Len(q)
    PROVE  /\ SubSeq(q, n + 1, Len(q)) \in Seq(S) /\ Len(SubSeq(q, n + 1, Len(q))) = Len(q) - n
           /\ \A i \in 1..Len(q) - n : SubSeq(q, n + 1, Len(q))[i] = q[i + n]
<1>1. Len(q) \in Nat /\ n + 1 \in 1..Len(q) + 1 /\ Len(q) \in (n + 1) - 1..Len(q)
  OBVIOUS
<1> QED
  BY <1>1, SubSeqProperties

\* It ends, and after it those that have nothing to do.
LEMMA HeadEnds ==
    ASSUME QueueInv, active, HeadOnly, NEW s, NEW o \in {"completed", "failed"}, FinishHead(o, s),
           Done(outcome', passed', size')
    PROVE  JobStep
<1> DEFINE h == Head(queue)
           q == Tail(queue)
           r == [outcome EXCEPT ![h] = o]
<1>1. PICK n \in 0..Len(q) :
        /\ queue' = SubSeq(q, n + 1, Len(q))
        /\ outcome' = [u \in Transfers |-> IF \E i \in 1..n : q[i] = u THEN "completed" ELSE r[u]]
  BY Zenon DEF FinishHead, StartNext
<1>2. /\ queue # <<>> /\ h \in Transfers /\ h = queue[1]
      /\ queue \in Seq(Transfers) /\ Len(queue) \in Nat /\ outcome \in [Transfers -> Outcomes]
      /\ \A i, j \in 1..Len(queue) : queue[i] = queue[j] => i = j
  BY HeadIs DEF QueueInv, WalkInv, Walks, QueueOf
<1>3. /\ q \in Seq(Transfers) /\ Len(q) = Len(queue) - 1 /\ 1 <= Len(queue)
      /\ \A i \in 1..Len(q) : q[i] = queue[i + 1]
  BY <1>2
<1>4. n \in Nat /\ n <= Len(queue) - 1 /\ n + 1 \in 0..Len(queue)
  BY <1>2, <1>3
<1>5. \A i \in 1..n : q[i] = queue[i + 1]
  BY <1>2, <1>3, <1>4
<1>6. queue' = SubSeq(queue, (n + 1) + 1, Len(queue))
  <2>1. /\ SubSeq(q, n + 1, Len(q)) \in Seq(Transfers)
        /\ Len(SubSeq(q, n + 1, Len(q))) = Len(q) - n
        /\ \A i \in 1..Len(q) - n : SubSeq(q, n + 1, Len(q))[i] = q[i + n]
    BY <1>3, Suffix
  <2>2. /\ SubSeq(queue, (n + 1) + 1, Len(queue)) \in Seq(Transfers)
        /\ Len(SubSeq(queue, (n + 1) + 1, Len(queue))) = Len(q) - n
        /\ \A i \in 1..Len(q) - n : SubSeq(queue, (n + 1) + 1, Len(queue))[i] = queue[i + (n + 1)]
    <3> DEFINE m == n + 1
    <3>1. m \in 0..Len(queue) /\ Len(queue) - m = Len(q) - n
      BY <1>2, <1>3, <1>4
    <3> HIDE DEF m
    <3>2. /\ SubSeq(queue, m + 1, Len(queue)) \in Seq(Transfers)
          /\ Len(SubSeq(queue, m + 1, Len(queue))) = Len(queue) - m
          /\ \A i \in 1..Len(queue) - m : SubSeq(queue, m + 1, Len(queue))[i] = queue[i + m]
      BY <1>2, <3>1, Suffix
    <3> QED
      BY <3>1, <3>2 DEF m
  <2>3. \A i \in 1..Len(q) - n : q[i + n] = queue[i + (n + 1)]
    BY <1>2, <1>3, <1>4
  <2> QED
    BY <1>1, <2>1, <2>2, <2>3, SeqEqual
<1> DEFINE ended == {queue[i] : i \in 1..n + 1}
<1>7. \A u : u \in ended <=> u = h \/ \E i \in 1..n : q[i] = u
  <2>1. ASSUME NEW i \in 1..n + 1 PROVE queue[i] = h \/ \E j \in 1..n : q[j] = queue[i]
    <3>1. CASE i = 1
      BY <1>2, <3>1
    <3>2. CASE i # 1
      <4>1. i - 1 \in 1..n /\ (i - 1) + 1 = i
        BY <1>4, <3>2
      <4> QED
        BY <1>5, <4>1
    <3> QED
      BY <3>1, <3>2
  <2>2. ASSUME NEW i \in 1..n PROVE i + 1 \in 1..n + 1 /\ queue[i + 1] = q[i]
    BY <1>4, <1>5
  <2>3. 1 \in 1..n + 1
    BY <1>4
  <2> QED
    BY <1>2, <2>1, <2>2, <2>3
<1>8. ~\E i \in 1..n : q[i] = h
  <2> SUFFICES ASSUME NEW i \in 1..n, q[i] = h PROVE FALSE
    OBVIOUS
  <2>1. i + 1 \in 1..Len(queue) /\ 1 \in 1..Len(queue) /\ i + 1 # 1 /\ queue[i + 1] = queue[1]
    BY <1>2, <1>3, <1>4, <1>5
  <2> QED
    BY <1>2, <2>1
<1>9. r[h] = o /\ \A u \in Transfers : u # h => r[u] = outcome[u]
  BY <1>2
<1> HIDE DEF ended, r, h, q
<1>10. outcome' = [j \in Transfers |-> IF j \notin ended THEN outcome[j]
                                       ELSE IF j = h THEN o ELSE "completed"]
  <2>1. ASSUME NEW j \in Transfers
        PROVE  (IF \E i \in 1..n : q[i] = j THEN "completed" ELSE r[j])
                 = (IF j \notin ended THEN outcome[j] ELSE IF j = h THEN o ELSE "completed")
    BY <1>7, <1>8, <1>9
  <2> QED
    BY <1>1, <2>1
<1>11. ended \subseteq Transfers
  BY <1>2, <1>7, <1>3, <1>4, ElementOfSeq
<1>12. \A j \in ended : outcome'[j] = "completed" => \A k \in 1..size'[j] : passed'[j][k] = 1
  BY <1>11 DEF Done
<1>13. AsJobs!End(n + 1, o)
  BY <1>6, <1>10, <1>12 DEF AsJobs!End, ended, h
<1> QED
  BY <1>4, <1>13, HeadWorks

\* The head ends, all its files done with if it is completed.
LEMMA EndHead ==
    ASSUME QueueInv, active, HeadOnly, NEW s, s.calls = {},
           NEW o \in {"completed", "failed"}, FinishHead(o, s),
           o = "completed" => \A k \in 1..size'[Head(queue)] : passed'[Head(queue)][k] = 1
    PROVE  Driven' /\ OldStay /\ JobStep
<1> DEFINE h == Head(queue)
           q == Tail(queue)
           r == [outcome EXCEPT ![h] = o]
<1>1. StartNext(q, s, r)
  BY DEF FinishHead
<1>2. /\ QueueOf(q, r) /\ h \in Transfers /\ h = queue[1] /\ 1 \in 1..Len(queue)
      /\ \A t : (\E i \in 1..Len(q) : q[i] = t) <=> \E i \in 2..Len(queue) : queue[i] = t
  <2>1. o \in Outcomes \ {"queued"}
    BY DEF Outcomes
  <2> QED
    BY <2>1, HeadIs, HeadOut DEF QueueInv, WalkInv, Walks
<1>3. r \in [Transfers -> Outcomes] /\ r[h] = o /\ r[h] # "new" /\ \A t \in Transfers : t # h => r[t] = outcome[t]
  BY <1>2 DEF QueueInv, WalkInv, Walks, QueueOf, Outcomes
<1>4. ~\E i \in 2..Len(queue) : queue[i] = h
  BY <1>2 DEF QueueInv, WalkInv, Walks, QueueOf
<1> HIDE DEF q, r, h
<1>5. ASSUME NEW t \in Transfers, r[t] = "new" \/ \E i \in 1..Len(q) : q[i] = t
      PROVE  Fresher(kind[t], passed', t, size[t]) /\ size'[t] = size[t]
  <2>1. t # h
    BY <1>2, <1>3, <1>4, <1>5
  <2>2. outcome[t] = "new" \/ \E i \in 2..Len(queue) : queue[i] = t
    BY <1>2, <1>3, <1>5, <2>1
  <2>3. Fresher(kind[t], passed, t, size[t])
    BY <2>2 DEF QueueInv, Driven, Waiting
  <2>4. passed'[t] = passed[t] /\ size'[t] = size[t]
    BY <2>1 DEF HeadOnly, h
  <2> QED
    BY <2>3, <2>4 DEF Fresher, Upto
<1>6. Done(r, passed', size')
  <2>1. ASSUME NEW t \in Transfers, r[t] = "completed", NEW k \in 1..size'[t] PROVE passed'[t][k] = 1
    <3>1. CASE t = h
      BY <1>3, <2>1, <3>1 DEF h
    <3>2. CASE t # h
      <4>1. outcome[t] = "completed" /\ passed'[t] = passed[t] /\ size'[t] = size[t]
        BY <1>3, <2>1, <3>2 DEF HeadOnly, h
      <4> QED
        BY <2>1, <4>1 DEF QueueInv, Driven, Done
    <3> QED
      BY <3>1, <3>2
  <2> QED
    BY <2>1 DEF Done
<1>7. ~cancelled /\ Kinds /\ Sized(size) /\ Fields(work)
  BY DEF QueueInv, Driven, Alone, WalkInv
<1>8. Driven' /\ \A t \in Transfers : outcome'[t] = "new" => r[t] = "new"
  BY <1>1, <1>2, <1>5, <1>6, <1>7, StartHead DEF HeadOnly
<1>9. JobStep
  BY <1>8, HeadEnds DEF Driven
<1> QED
  BY <1>3, <1>8, <1>9 DEF OldStay

\* The head goes on, waiting for something else.
LEMMA GoOn ==
    ASSUME QueueInv, active, HeadOnly, UNCHANGED <<queue, active, cancelled, outcome>>,
           Fields(work'), \A c \in calls' : c.of = Head(queue),
           Phase(kind[Head(queue)], Head(queue), work', calls', passed', size'[Head(queue)])
    PROVE  Driven' /\ OldStay /\ JobStep
<1> DEFINE h == Head(queue)
<1>1. h \in Transfers /\ h = queue[1] /\ outcome[h] = "queued" /\ ~cancelled /\ 1 \in 1..Len(queue)
  BY HeadIs
<1> HIDE DEF h
<1>2. Alone'
  BY <1>1 DEF Alone, HeadOnly
<1>3. Apart(calls')
  BY PhaseApart
<1>4. Waiting(kind', queue', outcome', passed', size')
  <2>1. ASSUME NEW t \in Transfers, outcome[t] = "new" \/ \E i \in 2..Len(queue) : queue[i] = t
        PROVE  Fresher(kind[t], passed', t, size'[t])
    <3>1. t # h
      BY <1>1, <2>1 DEF QueueInv, WalkInv, Walks, QueueOf
    <3>2. Fresher(kind[t], passed, t, size[t])
      BY <2>1 DEF QueueInv, Driven, Waiting
    <3>3. passed'[t] = passed[t] /\ size'[t] = size[t]
      BY <3>1 DEF HeadOnly, h
    <3> QED
      BY <3>2, <3>3 DEF Fresher, Upto
  <2> QED
    BY <2>1 DEF Waiting, HeadOnly
<1>5. Done(outcome', passed', size')
  <2>1. ASSUME NEW t \in Transfers, outcome[t] = "completed" PROVE passed'[t] = passed[t] /\ size'[t] = size[t]
    BY <1>1, <2>1 DEF HeadOnly, h
  <2> QED
    BY <2>1 DEF Done, QueueInv, Driven
<1> QED
  BY <1>2, <1>3, <1>4, <1>5, HeadStays DEF Driven, HeadOnly, OldStay

\* downloadNextFile with the files before i done.
LEMMA DownloadDriven ==
    ASSUME QueueInv, active, HeadOnly, NEW s, s.calls = {}, NEW w, Fields(w),
           kind[Head(queue)] \in DownloadKinds, w.downloads = Entries(Head(queue), 1, size'[Head(queue)]),
           NEW i \in 1..size'[Head(queue)] + 1, Upto(passed', Head(queue), i - 1), DownloadFrom(i, w, s)
    PROVE  Driven' /\ OldStay /\ JobStep
<1> DEFINE h == Head(queue)
           n == size'[h]
<1>1. /\ h \in Transfers /\ ~cancelled /\ n \in Nat /\ n <= MaxFiles /\ MaxFiles \in Nat
  BY HeadIs, FilesAssumption DEF HeadOnly, Sized
<1>2. Len(w.downloads) = n /\ \A k \in 1..n : w.downloads[k] = <<h, k>>
  <2>1. w.downloads = Entries(h, 1, n)
    OBVIOUS
  <2> HIDE DEF h, n
  <2> QED
    BY <1>1, <2>1, ManifestIs
<1>3. CASE i > n
  <2>1. FinishHead("completed", s)
    BY <1>1, <1>2, <1>3 DEF DownloadFrom
  <2>2. \A k \in 1..n : passed'[h][k] = 1
    BY <1>1, <1>3 DEF Upto
  <2>3. "completed" \in {"completed", "failed"}
    OBVIOUS
  <2> QED
    BY <2>1, <2>2, <2>3, EndHead
<1>4. CASE ~(i > n)
  <2> DEFINE v == [w EXCEPT !.didx = i]
             c == Call("read", h, i, 0)
  <2>1. i \in 1..n
    BY <1>1, <1>4
  <2>2. ContinueReading(v, c, s)
    <3>1. w.downloads[i] = <<h, i>>
      BY <1>2, <2>1
    <3>2. ContinueReading(v, Call("read", w.downloads[i][1], w.downloads[i][2], 0), s)
      BY <1>1, <1>2, <1>4 DEF DownloadFrom
    <3> QED
      BY <3>1, <3>2
  <2>3. Fields(v) /\ v.didx = i /\ v.downloads = w.downloads
    BY DEF Fields
  <2>4. c.of = h
    BY CallIs
  <2>5. Reading(kind[h], h, v, {c}, passed', n)
    BY <2>1, <2>3 DEF Reading
  <2> HIDE DEF v, c, h, n
  <2>6. /\ work' = v /\ calls' = {c}
        /\ UNCHANGED <<queue, active, cancelled, outcome>>
    <3>1. Continue(v, {c}, [s EXCEPT !.reading = c])
      BY <2>2 DEF ContinueReading
    <3>2. [s EXCEPT !.reading = c].calls = {}
      OBVIOUS
    <3> QED
      BY <3>1, <3>2 DEF Continue
  <2>7. Phase(kind[h], h, work', calls', passed', n)
    BY <2>5, <2>6 DEF Phase
  <2> QED
    BY <2>3, <2>4, <2>6, <2>7, GoOn DEF h, n
<1> QED
  BY <1>3, <1>4

\* downloadWalkDone with every file found.
LEMMA WalkDoneDriven ==
    ASSUME QueueInv, active, HeadOnly, NEW s, s.calls = {}, NEW w, Fields(w),
           kind[Head(queue)] \in {"tree", "filtered"}, w.didx = 1,
           w.downloads = Entries(Head(queue), 1, size'[Head(queue)]), Upto(passed', Head(queue), 0),
           WalkDone(w, s)
    PROVE  Driven' /\ OldStay /\ JobStep
<1> DEFINE h == Head(queue)
           n == size'[h]
<1>1. h \in Transfers /\ ~cancelled /\ n \in Nat /\ Owner = h
  BY HeadIs, FilesAssumption DEF HeadOnly, Sized
<1>2. CASE w.downloads = <<>>
  <2>1. FinishHead("completed", s)
    BY <1>2 DEF WalkDone
  <2>2. n = 0
    <3>1. Entries(h, 1, n) = <<>>
      BY <1>2
    <3> HIDE DEF h, n
    <3> QED
      BY <1>1, <3>1, ManifestIs
  <2>3. "completed" \in Outcomes \ {"new", "queued"} /\ \A k \in 1..n : passed'[h][k] = 1
    BY <2>2 DEF Outcomes
  <2> QED
    BY <2>1, <2>3, EndHead
<1>3. ASSUME NEW o \in {"probe", "pack"}, Continue(w, {Call(o, h, 0, 0)}, s) PROVE Driven' /\ OldStay /\ JobStep
  <2> DEFINE c == Call(o, h, 0, 0)
  <2>1. Packing(kind[h], h, w, {c}, passed', n) /\ c.of = h
    BY CallIs DEF Packing
  <2> HIDE DEF c, h, n
  <2>2. work' = w /\ calls' = {c} /\ UNCHANGED <<queue, active, cancelled, outcome>>
    BY <1>3 DEF Continue, c
  <2>3. Phase(kind[h], h, work', calls', passed', n)
    BY <2>1, <2>2 DEF Phase
  <2> QED
    BY <2>1, <2>2, <2>3, GoOn DEF h, n
<1>4. ASSUME DownloadFrom(w.didx, w, s) PROVE Driven' /\ OldStay /\ JobStep
  <2>1. 1 \in 1..n + 1 /\ 1 - 1 = 0 /\ kind[h] \in DownloadKinds
    BY <1>1 DEF DownloadKinds
  <2> QED
    BY <1>4, <2>1, DownloadDriven
<1>5. \/ w.downloads = <<>>
      \/ Continue(w, {Call("probe", h, 0, 0)}, s) \/ Continue(w, {Call("pack", h, 0, 0)}, s)
      \/ DownloadFrom(w.didx, w, s)
  BY <1>1 DEF WalkDone
<1> QED
  BY <1>2, <1>3, <1>4, <1>5

\* uploadNextFile with the files before i done.
LEMMA UploadDriven ==
    ASSUME QueueInv, active, HeadOnly, NEW s, s.calls = {}, NEW w, Fields(w), size' = size,
           kind[Head(queue)] \in UploadKinds, w.uploads = Entries(Head(queue), 1, size[Head(queue)]),
           NEW i \in 1..size[Head(queue)] + 1,
           NEW p \in Progress, Upto(p, Head(queue), i - 1),
           \A u \in Transfers \ {Head(queue)} : p[u] = passed[u],
           UploadFrom(i, w, s, p)
    PROVE  Driven' /\ OldStay /\ JobStep
<1> DEFINE h == Head(queue)
           n == size[h]
<1>1. h \in Transfers /\ ~cancelled /\ n \in Nat /\ n <= MaxFiles /\ MaxFiles \in Nat
  BY HeadIs, FilesAssumption
<1>2. Len(w.uploads) = n /\ \A k \in 1..n : w.uploads[k] = <<h, k>>
  <2>1. w.uploads = Entries(h, 1, n)
    OBVIOUS
  <2> HIDE DEF h, n
  <2> QED
    BY <1>1, <2>1, ManifestIs
<1>3. PICK j \in i..n + 1 :
        /\ passed' = Pass(p, Slice(w.uploads, i, j))
        /\ IF j > n
           THEN FinishHead("completed", s)
           ELSE LET t == w.uploads[j][1]
                    k == w.uploads[j][2]
                    c == IF DirOf[k] \in w.made THEN Call("write", t, k, 0)
                         ELSE Call("mkdir", t, k, IF 0 \in w.made THEN DirOf[k] ELSE 0)
                IN w.uploads[j] \notin w.skip /\ Continue([w EXCEPT !.uidx = j], {c}, s)
  BY <1>2, Zenon DEF UploadFrom, Slice
<1>4. Upto(passed', h, j - 1)
  <2>1. n \in 0..MaxFiles
    BY <1>1
  <2> QED
    BY <1>1, <1>3, <2>1, PassRange
<1>5. CASE j > n
  <2>1. \A k \in 1..n : passed'[h][k] = 1
    BY <1>1, <1>4, <1>5 DEF Upto
  <2>2. "completed" \in {"completed", "failed"}
    OBVIOUS
  <2> QED
    BY <1>3, <1>5, <2>1, <2>2, EndHead
<1>6. CASE ~(j > n)
  <2> DEFINE v == [w EXCEPT !.uidx = j]
             c == IF DirOf[j] \in w.made THEN Call("write", h, j, 0)
                  ELSE Call("mkdir", h, j, IF 0 \in w.made THEN DirOf[j] ELSE 0)
  <2>1. j \in 1..n
    BY <1>1, <1>6
  <2>2. Continue(v, {c}, s)
    <3>1. w.uploads[j] = <<h, j>>
      BY <1>2, <2>1
    <3>2. w.uploads[j][1] = h /\ w.uploads[j][2] = j
      BY <3>1
    <3> QED
      BY <1>3, <1>6, <3>2, Zenon
  <2>3. Fields(v) /\ v.uidx = j /\ v.uploads = w.uploads
    BY DEF Fields
  <2> HIDE DEF h
  <2>4. c.of = h /\ c.file = j /\ c.op \in {"mkdir", "write"}
    BY CallIs
  <2> HIDE DEF v, c, n
  <2>5. Uploading(kind[h], h, v, {c}, passed', n)
    BY <1>4, <2>1, <2>3, <2>4 DEF Uploading, h, n
  <2>6. /\ work' = v /\ calls' = {c}
        /\ UNCHANGED <<queue, active, cancelled, outcome>>
    BY <2>2 DEF Continue
  <2>7. Phase(kind[h], h, work', calls', passed', n)
    BY <2>5, <2>6 DEF Phase
  <2> QED
    BY <2>3, <2>4, <2>6, <2>7, GoOn DEF h, n
<1> QED
  BY <1>5, <1>6

\* cancel and onConnectionLost: what is in flight is the head's.
LEMMA DropDriven ==
    ASSUME QueueInv, active, NEW o \in {"cancelled", "lost"}, DropQueue(o), calls' \subseteq calls,
           kind' = kind, size' = size, passed' = passed
    PROVE  Driven' /\ OldStay /\ JobStep
<1>1. /\ queue' = <<>> /\ ~active' /\ cancelled'
      /\ outcome' = [t \in Transfers |-> IF \E i \in 1..Len(queue) : queue[i] = t THEN o ELSE outcome[t]]
      /\ work' = [work EXCEPT !.downloads = <<>>, !.uploads = <<>>, !.archive = NoTransfer]
  BY DEF DropQueue
<1>2. Fields(work') /\ work'.downloads = <<>>
  <2>1. Fields(work)
    BY DEF QueueInv, Driven, Alone
  <2> QED
    BY <1>1, <2>1 DEF Fields
<1>3. \A c \in calls' : c.of \in Transfers /\ outcome'[c.of] = o
  BY <1>1, HeadIs
<1>4. Apart(calls')
  BY DEF QueueInv, Driven, Apart
<1>5. OldStay /\ \A t \in Transfers : outcome'[t] = "completed" => outcome[t] = "completed"
  BY <1>1 DEF OldStay
<1>6. Done(outcome', passed', size')
  BY <1>5 DEF Done, QueueInv, Driven
<1>7. Waiting(kind', queue', outcome', passed', size')
  <2>1. Len(queue') = 0
    BY <1>1, EmptySeq
  <2> QED
    BY <1>5, <2>1 DEF Waiting, QueueInv, Driven, OldStay
<1>8. JobStep
  <2>1. AsJobs!Drop(o)
    BY <1>1 DEF AsJobs!Drop
  <2> QED
    BY <2>1 DEF AsJobs!Next, JobStep
<1> QED
  BY <1>1, <1>2, <1>3, <1>4, <1>5, <1>6, <1>7, <1>8 DEF Driven, Alone, QueueInv

\* Calls that a cancel left in flight are answered, and nothing else happens.
LEMMA StillDriven ==
    ASSUME QueueInv, ~active, UNCHANGED <<queue, active, cancelled, outcome, kind, size, passed>>,
           calls' \subseteq calls, Fields(work'), work'.downloads = work.downloads
    PROVE  Driven' /\ OldStay /\ JobStep
<1>1. Alone'
  BY DEF QueueInv, Driven, Alone
<1>2. Apart(calls')
  BY DEF QueueInv, Driven, Apart
<1> QED
  BY <1>1, <1>2 DEF QueueInv, Driven, OldStay, JobStep

-----------------------------------------------------------------------------
(* Callbacks *)

\* The phase a callback tells of.
LEMMA CallbackIs ==
    ASSUME QueueInv, NEW c \in calls, ~cancelled
    PROVE  LET h == Head(queue)
               n == size[h]
           IN  /\ active /\ c.of = h /\ dialogs = 0
               /\ c.op \in WalkOps => Walking(kind[h], h, work, calls, passed, n)
               /\ c.op \in {"probe", "pack", "stream", "extract"} =>
                    Packing(kind[h], h, work, calls, passed, n) /\ calls = {c}
               /\ c.op = "read" =>
                    Reading(kind[h], h, work, calls, passed, n) /\ calls = {c} /\ c.file = work.didx
               /\ c.op = "scan" => Scanning(kind[h], h, work, calls, passed, n)
               /\ c.op \in {"mkdir", "write"} =>
                    Uploading(kind[h], h, work, calls, passed, n) /\ calls = {c} /\ c.file = work.uidx
<1> DEFINE h == Head(queue)
           n == size[h]
<1>1. active
  BY DEF QueueInv, Driven, Alone
<1>2. c.of = h /\ Phase(kind[h], h, work, calls, passed, n)
  BY <1>1, HeadIs
<1>3. dialogs = 0
  <2>1. CASE dialogs > 0
    BY <1>1, <2>1 DEF QueueInv, Asked, Asking
  <2> QED
    BY <2>1 DEF QueueInv, Asked
<1> HIDE DEF h, n
<1>4. /\ c.op \in WalkOps => Walking(kind[h], h, work, calls, passed, n)
      /\ c.op \in {"probe", "pack", "stream", "extract"} =>
           Packing(kind[h], h, work, calls, passed, n) /\ calls = {c}
      /\ c.op = "read" =>
           Reading(kind[h], h, work, calls, passed, n) /\ calls = {c} /\ c.file = work.didx
      /\ c.op = "scan" => Scanning(kind[h], h, work, calls, passed, n)
      /\ c.op \in {"mkdir", "write"} =>
           Uploading(kind[h], h, work, calls, passed, n) /\ calls = {c} /\ c.file = work.uidx
  <2>1. CASE Walking(kind[h], h, work, calls, passed, n)
    BY <2>1 DEF Walking, WalkOps
  <2>2. CASE Packing(kind[h], h, work, calls, passed, n)
    <3>1. calls = {c} /\ c.op \in {"probe", "pack", "stream", "extract"}
      BY <2>2, CallIs DEF Packing
    <3> QED
      BY <2>2, <3>1 DEF WalkOps
  <2>3. CASE Reading(kind[h], h, work, calls, passed, n)
    <3>1. calls = {c} /\ c.op = "read" /\ c.file = work.didx
      BY <2>3, CallIs DEF Reading
    <3> QED
      BY <2>3, <3>1 DEF WalkOps
  <2>4. CASE Scanning(kind[h], h, work, calls, passed, n)
    BY <2>4 DEF Scanning, WalkOps
  <2>5. CASE Asking(kind[h], h, work, calls, passed, n)
    BY <2>5 DEF Asking
  <2>6. CASE Uploading(kind[h], h, work, calls, passed, n)
    <3>1. calls = {c} /\ c.op \in {"mkdir", "write"} /\ c.file = work.uidx
      BY <2>6 DEF Uploading
    <3> QED
      BY <2>6, <3>1 DEF WalkOps
  <2> QED
    BY <1>2, <2>1, <2>2, <2>3, <2>4, <2>5, <2>6 DEF Phase
<1> QED
  BY <1>1, <1>2, <1>3, <1>4 DEF h, n

\* What is left of the calls.
LEMMA AfterIs ==
    ASSUME NEW c
    PROVE  After(c).calls = calls \ {c}
  BY DEF After

LEMMA WalkDriven ==
    ASSUME QueueInv, NEW c \in calls, ListAnswered(c) \/ FindAnswered(c) \/ RulesAnswered(c)
    PROVE  Driven' /\ OldStay /\ JobStep
<1>1. c.op \in WalkOps /\ ~cancelled
  BY WalkAnswers DEF QueueInv, ListAnswered, FindAnswered, RulesAnswered
<1>2. PICK n \in 0..MaxFiles : \E M : Goes(c, n, M)
  BY WalkAnswers DEF QueueInv
<1>3. PICK M : Goes(c, n, M)
  BY <1>2
<1> DEFINE h == Head(queue)
           w == [work EXCEPT !.downloads = @ \o Entries(c.of, size[c.of] + 1, size[c.of] + n)]
           s == Left(c, M)
           D == (calls \ {c}) \union M
<1>4. /\ c.of \in Transfers /\ s.calls = calls \ {c} /\ Exactly(D, s.pending)
      /\ s.pending[c.of] = 0 => M = {}
  BY <1>1, <1>3, WalkLeaves DEF QueueInv
<1>5. /\ size[c.of] + n <= MaxFiles /\ size' = [size EXCEPT ![c.of] = @ + n]
      /\ IF s.pending[c.of] = 0 THEN WalkDone(w, s) ELSE Continue(w, M, s)
      /\ kind' = kind /\ passed' = passed
  BY <1>3, Zenon DEF WalkStep, Goes, Left
<1>6. WalkInv'
  BY <1>1, <1>3, WalkStepCounts DEF QueueInv
<1>7. active /\ c.of = h /\ Walking(kind[h], h, work, calls, passed, size[h])
  BY <1>1, CallbackIs
<1>8. /\ Fields(work) /\ size[h] \in Nat /\ n \in Nat /\ passed \in Progress
      /\ \A d \in calls : d.of = h
  BY <1>7, HeadIs, FilesAssumption DEF QueueInv, Driven, Alone
<1> HIDE DEF h, s, D
<1>10. size'[h] = size[h] + n
  BY <1>4, <1>5, <1>7 DEF QueueInv, WalkInv, Sized
<1>9. HeadOnly
  <2>1. size'[h] >= size[h] /\ 0 \in 0..MaxFiles /\ Upto(passed, h, 0)
    BY <1>7, <1>8, <1>10, FilesAssumption DEF Walking
  <2>2. Forward
    BY <1>5, <2>1, NothingDone DEF h
  <2> QED
    BY <1>5, <1>6, <1>7, <1>8, <2>2 DEF HeadOnly, WalkInv, h
<1>11. Fields(w) /\ w.didx = 1 /\ w.downloads = Entries(h, 1, size'[h])
  <2>1. w.downloads = Entries(h, 1, size[h]) \o Entries(h, size[h] + 1, size[h] + n)
    BY <1>7, <1>8 DEF Fields, Walking
  <2>2. w.downloads = Entries(h, 1, size[h] + n)
    BY <1>8, <2>1, ManifestGrows
  <2>3. Fields(w) /\ w.didx = 1
    BY <1>7, <1>8 DEF Fields, Walking
  <2> QED
    BY <1>10, <2>2, <2>3
<1> HIDE DEF w
<1>12. kind[h] \in {"tree", "filtered"} /\ Upto(passed', h, 0) /\ \A d \in D : d.op \in WalkOps /\ d.of = h
  BY <1>3, <1>5, <1>7, <1>8 DEF Walking, Goes, D
<1>13. CASE s.pending[c.of] = 0
  <2>1. WalkCalls(D, h) = {}
    <3>1. IsFiniteSet(WalkCalls(D, h))
      BY <1>4, FS_Subset DEF Exactly, WalkCalls
    <3>2. Cardinality(WalkCalls(D, h)) = 0
      BY <1>4, <1>7, <1>13 DEF Exactly
    <3> QED
      BY <3>1, <3>2, FS_EmptySet
  <2>2. s.calls = {}
    BY <1>4, <1>12, <2>1 DEF WalkCalls, D
  <2>3. WalkDone(w, s)
    BY <1>5, <1>13
  <2> QED
    BY <1>7, <1>9, <1>11, <1>12, <2>2, <2>3, WalkDoneDriven DEF h
<1>14. CASE s.pending[c.of] # 0
  <2>1. Continue(w, M, s)
    BY <1>5, <1>14
  <2>2. work' = w /\ calls' = D /\ UNCHANGED <<queue, active, cancelled, outcome>>
    BY <1>4, <2>1 DEF Continue, D
  <2>3. D # {}
    <3>1. CASE D = {}
      <4>1. WalkCalls(D, h) = {} /\ Cardinality({}) = 0
        BY <3>1, FS_EmptySet DEF WalkCalls
      <4> QED
        BY <1>4, <1>7, <1>14, <4>1 DEF Exactly
    <3> QED
      BY <3>1
  <2>4. Walking(kind[h], h, work', calls', passed', size'[h])
    BY <1>11, <1>12, <2>2, <2>3 DEF Walking
  <2> QED
    BY <1>7, <1>9, <1>11, <1>12, <2>2, <2>4, GoOn DEF Phase, h
<1> QED
  BY <1>13, <1>14

\* The archive: what the head waits for next.
LEMMA PackGoesOn ==
    ASSUME QueueInv, active, HeadOnly, size' = size, passed' = passed,
           Packing(kind[Head(queue)], Head(queue), work, calls, passed, size[Head(queue)]),
           NEW w, Fields(w), w.downloads = work.downloads, w.didx = work.didx,
           NEW o \in {"probe", "pack", "stream", "extract"}, NEW s, s.calls = {},
           Continue(w, {Call(o, Head(queue), 0, 0)}, s)
    PROVE  Driven' /\ OldStay /\ JobStep
<1> DEFINE h == Head(queue)
           c == Call(o, h, 0, 0)
<1>1. c.of = h
  BY CallIs
<1>2. work' = w /\ calls' = {c} /\ UNCHANGED <<queue, active, cancelled, outcome>>
  BY DEF Continue
<1>3. Packing(kind[h], h, work', calls', passed', size'[h])
  BY <1>2 DEF Packing
<1> HIDE DEF h, c
<1> QED
  BY <1>1, <1>2, <1>3, GoOn DEF Phase, h

LEMMA ArchiveDriven ==
    ASSUME QueueInv, NEW c \in calls, ~cancelled, Sized(size)',
           ProbeAnswered(c) \/ PackAnswered(c) \/ StreamAnswered(c) \/ ExtractAnswered(c)
    PROVE  Driven' /\ OldStay /\ JobStep
<1> DEFINE h == Head(queue)
           n == size[h]
           s == After(c)
<1>1. c.op \in {"probe", "pack", "stream", "extract"}
  BY DEF ProbeAnswered, PackAnswered, StreamAnswered, ExtractAnswered
<1>2. active /\ c.of = h /\ Packing(kind[h], h, work, calls, passed, n) /\ calls = {c}
  BY <1>1, CallbackIs
<1>3. /\ h \in Transfers /\ n \in Nat /\ n <= MaxFiles /\ MaxFiles \in Nat /\ Owner = h
      /\ Fields(work) /\ passed \in Progress
  BY <1>2, HeadIs, FilesAssumption DEF QueueInv, Driven, Alone
<1>4. kind' = kind /\ size' = size
  BY Zenon DEF ProbeAnswered, PackAnswered, StreamAnswered, ExtractAnswered
<1>5. s.calls = {}
  BY <1>2, AfterIs
<1>6. ASSUME passed' = passed PROVE HeadOnly
  <2>1. size'[h] >= size[h] /\ 0 \in 0..MaxFiles /\ Upto(passed, h, 0)
    BY <1>2, <1>3, <1>4 DEF Packing
  <2>2. Forward
    BY <1>6, <2>1, NothingDone
  <2> QED
    BY <1>3, <1>4, <1>6, <2>2 DEF HeadOnly
<1>7. ASSUME passed' = passed, NEW w, Fields(w), w.downloads = work.downloads, w.didx = work.didx,
             NEW o \in {"probe", "pack", "stream", "extract"},
             Continue(w, {Call(o, h, 0, 0)}, s) \/ ContinueReading(w, Call(o, h, 0, 0), s)
      PROVE  Driven' /\ OldStay /\ JobStep
  <2> HIDE DEF s
  <2>1. CASE Continue(w, {Call(o, h, 0, 0)}, s)
    BY <1>2, <1>4, <1>5, <1>6, <1>7, <2>1, PackGoesOn
  <2>2. CASE ContinueReading(w, Call(o, h, 0, 0), s)
    <3> DEFINE e == [s EXCEPT !.reading = Call(o, h, 0, 0)]
    <3>1. Continue(w, {Call(o, h, 0, 0)}, e) /\ e.calls = {}
      BY <1>5, <2>2 DEF ContinueReading
    <3> HIDE DEF e
    <3> QED
      BY <1>2, <1>4, <1>6, <1>7, <3>1, PackGoesOn
  <2> QED
    BY <1>7, <2>1, <2>2
<1>8. ASSUME passed' = passed, NEW w, Fields(w), w.downloads = work.downloads, DownloadFrom(1, w, s)
      PROVE  Driven' /\ OldStay /\ JobStep
  <2>1. 1 \in 1..n + 1 /\ 1 - 1 = 0
    BY <1>3
  <2>2. Upto(passed', h, 0) /\ kind[h] \in DownloadKinds /\ w.downloads = Entries(h, 1, size'[h])
    BY <1>2, <1>4, <1>8 DEF Packing, DownloadKinds
  <2> HIDE DEF s
  <2> QED
    BY <1>2, <1>4, <1>5, <1>6, <1>8, <2>1, <2>2, DownloadDriven
<1>9. ASSUME passed' = passed, FinishHead("failed", s) PROVE Driven' /\ OldStay /\ JobStep
  <2>1. "failed" \in {"completed", "failed"} /\ "failed" # "completed"
    OBVIOUS
  <2> HIDE DEF s
  <2> QED
    BY <1>2, <1>5, <1>6, <1>9, <2>1, EndHead
<1>10. work.didx = 1 /\ work.downloads = Entries(h, 1, n) /\ Upto(passed, h, 0)
  BY <1>2 DEF Packing
<1>11. CASE ProbeAnswered(c)
  <2>1. passed' = passed /\ (Continue(work, {Call("pack", h, 0, 0)}, s) \/ DownloadFrom(1, work, s))
    BY <1>3, <1>10, <1>11 DEF ProbeAnswered
  <2> QED
    BY <1>3, <1>7, <1>8, <2>1
<1>12. CASE PackAnswered(c)
  <2> DEFINE w == [work EXCEPT !.archive = c.of]
  <2>1. passed' = passed /\ \/ ContinueReading(w, Call("stream", h, 0, 0), s)
                            \/ FinishHead("failed", s) \/ DownloadFrom(1, work, s)
    BY <1>2, <1>10, <1>12 DEF PackAnswered
  <2>2. Fields(w) /\ w.downloads = work.downloads /\ w.didx = work.didx
    BY <1>3 DEF Fields
  <2> HIDE DEF w
  <2> QED
    BY <1>3, <1>7, <1>8, <1>9, <2>1, <2>2
<1>13. CASE StreamAnswered(c)
  <2>1. passed' = passed /\ (Continue(work, {Call("extract", h, 0, 0)}, s) \/ FinishHead("failed", s))
    BY <1>2, <1>13 DEF StreamAnswered
  <2> QED
    BY <1>3, <1>7, <1>9, <2>1
<1>14. CASE ExtractAnswered(c)
  <2> DEFINE w == [work EXCEPT !.archive = NoTransfer, !.didx = 1]
  <2>1. \/ passed' = passed /\ DownloadFrom(1, w, s)
        \/ /\ passed' = Pass(passed, {work.downloads[i] : i \in 1..Len(work.downloads)})
           /\ FinishHead("completed", s)
    BY <1>14 DEF ExtractAnswered
  <2>2. Fields(w) /\ w.downloads = work.downloads
    BY <1>3 DEF Fields
  <2> HIDE DEF w, s
  <2>3. ASSUME passed' = Pass(passed, {work.downloads[i] : i \in 1..Len(work.downloads)}),
               FinishHead("completed", s)
        PROVE  Driven' /\ OldStay /\ JobStep
    <3>1. Len(work.downloads) = n
      <4> HIDE DEF h, n
      <4> QED
        BY <1>3, <1>10, ManifestIs
    <3>2. n \in 0..MaxFiles /\ 1 \in 1..n + 1 /\ n + 1 \in 1..n + 1 /\ (n + 1) - 1 = n /\ 1 - 1 = 0
      BY <1>3
    <3>3. LET P == Pass(passed, {work.downloads[m] : m \in 1..(n + 1) - 1})
          IN  P \in Progress /\ Upto(P, h, (n + 1) - 1) /\ \A v \in Transfers : v # h => P[v] = passed[v]
      <4> DEFINE i == 1
                 j == n + 1
                 u == work.downloads
      <4>1. i \in 1..n + 1 /\ j \in i..n + 1 /\ Upto(passed, h, i - 1) /\ u = Entries(h, 1, n)
        BY <1>10, <3>2
      <4> HIDE DEF i, j, u, h, n
      <4>2. LET P == Pass(passed, Slice(u, i, j))
            IN  P \in Progress /\ Upto(P, h, j - 1) /\ \A v \in Transfers : v # h => P[v] = passed[v]
        BY <1>3, <3>2, <4>1, PassRange
      <4> QED
        BY <4>2 DEF i, j, u, Slice
    <3>4. passed' \in Progress /\ Upto(passed', h, n) /\ \A v \in Transfers : v # h => passed'[v] = passed[v]
      BY <2>3, <3>1, <3>2, <3>3
    <3>5. HeadOnly /\ \A k \in 1..size'[h] : passed'[h][k] = 1
      <4>1. 0 \in 0..MaxFiles /\ n \in 0..MaxFiles /\ 0 <= n /\ n >= n
        BY <1>3
      <4>2. Forward
        BY <1>4, <1>10, <3>4, <4>1 DEF Forward
      <4>3. \A k \in 1..size'[h] : passed'[h][k] = 1
        BY <1>3, <1>4, <3>4 DEF Upto
      <4> QED
        BY <1>3, <1>4, <3>4, <4>2, <4>3 DEF HeadOnly
    <3>6. "completed" \in {"completed", "failed"}
      OBVIOUS
    <3> QED
      BY <1>2, <1>5, <2>3, <3>5, <3>6, EndHead
  <2> QED
    BY <1>8, <2>1, <2>2, <2>3
<1> QED
  BY <1>11, <1>12, <1>13, <1>14

\* The call's file is done with, and no other transfer's.
LEMMA OneMore ==
    ASSUME QueueInv, NEW c \in calls, active, c.of = Head(queue), kind' = kind, size' = size,
           NEW i \in 1..size[Head(queue)], c.file = i, Upto(passed, Head(queue), i - 1)
    PROVE  LET P == Pass(passed, {<<c.of, c.file>>})
           IN  /\ P \in Progress /\ Upto(P, Head(queue), i)
               /\ \A v \in Transfers \ {Head(queue)} : P[v] = passed[v]
<1>1. /\ Head(queue) \in Transfers /\ size[Head(queue)] \in Nat /\ size[Head(queue)] <= MaxFiles
      /\ MaxFiles \in Nat /\ passed \in Progress
  BY HeadIs, FilesAssumption DEF QueueInv, Driven
<1>2. i \in 1..MaxFiles
  BY <1>1
<1> DEFINE h == Head(queue)
           q == passed
           k == c.file
<1>3. h \in Transfers /\ q \in Progress /\ i \in 1..MaxFiles /\ Upto(q, h, i - 1) /\ k = i
  BY <1>1, <1>2
<1> HIDE DEF h, q, k
<1>4. LET P == Pass(q, {<<h, k>>})
      IN  /\ P \in Progress /\ Upto(P, h, i)
          /\ \A v \in Transfers : v # h => P[v] = q[v]
  BY <1>3, PassOne
<1> QED
  BY <1>4 DEF h, q, k

LEMMA ReadDriven ==
    ASSUME QueueInv, NEW c \in calls, Sized(size)', ReadAnswered(c)
    PROVE  Driven' /\ OldStay /\ JobStep
<1> DEFINE h == Head(queue)
           n == size[h]
           i == work.didx
<1>1. /\ ~cancelled /\ c.op = "read" /\ kind' = kind /\ size' = size
      /\ passed' = Pass(passed, {<<c.of, c.file>>}) /\ DownloadFrom(i + 1, work, After(c))
  BY DEF ReadAnswered
<1>2. /\ active /\ c.of = h /\ calls = {c} /\ c.file = i
      /\ Reading(kind[h], h, work, calls, passed, n)
  BY <1>1, CallbackIs
<1>3. /\ i \in 1..n /\ Upto(passed, h, i - 1) /\ work.downloads = Entries(h, 1, n)
      /\ kind[h] \in DownloadKinds
  BY <1>2 DEF Reading
<1>4. n \in Nat /\ Fields(work)
  BY <1>2, HeadIs DEF QueueInv, Driven, Alone
<1>5. passed' \in Progress /\ Upto(passed', h, i) /\ \A v \in Transfers \ {h} : passed'[v] = passed[v]
  BY <1>1, <1>2, <1>3, OneMore
<1>6. HeadOnly
  <2>1. /\ i - 1 \in 0..MaxFiles /\ i \in 0..MaxFiles /\ i - 1 <= i /\ n >= n
    BY <1>2, <1>3, HeadIs, FilesAssumption
  <2>2. Forward
    BY <1>1, <1>3, <1>5, <2>1 DEF Forward
  <2> QED
    BY <1>1, <1>5, <2>2 DEF HeadOnly
<1>7. i + 1 \in 1..n + 1 /\ (i + 1) - 1 = i
  BY <1>3, <1>4
<1> DEFINE s == After(c)
           j == i + 1
<1>8. s.calls = {} /\ DownloadFrom(j, work, s) /\ j \in 1..size'[h] + 1 /\ Upto(passed', h, j - 1)
  BY <1>1, <1>2, <1>5, <1>7, AfterIs
<1> HIDE DEF s, j
<1> QED
  BY <1>1, <1>2, <1>3, <1>4, <1>6, <1>8, DownloadDriven

\* What an upload passes by is the head's.
LEMMA UploadOnly ==
    ASSUME QueueInv, active, NEW s, NEW w, kind' = kind, size' = size, Sized(size)',
           w.uploads = Entries(Head(queue), 1, size[Head(queue)]),
           NEW i \in 1..size[Head(queue)] + 1,
           NEW p \in Progress, Upto(p, Head(queue), i - 1),
           \A u \in Transfers \ {Head(queue)} : p[u] = passed[u],
           NEW m \in 0..i - 1, Upto(passed, Head(queue), m),
           UploadFrom(i, w, s, p)
    PROVE  HeadOnly
<1> DEFINE h == Head(queue)
           n == size[h]
           u == w.uploads
<1>1. h \in Transfers /\ n \in 0..MaxFiles /\ n \in Nat
  BY HeadIs, FilesAssumption
<1>2. u = Entries(h, 1, n)
  OBVIOUS
<1>3. Len(w.uploads) = n
  <2> HIDE DEF h, n
  <2> QED
    BY <1>1, <1>2, ManifestIs
<1>4. PICK j \in i..n + 1 : passed' = Pass(p, Slice(u, i, j))
  BY <1>3, Zenon DEF UploadFrom, Slice
<1> HIDE DEF u
<1>5. LET P == Pass(p, Slice(u, i, j))
      IN  P \in Progress /\ Upto(P, h, j - 1) /\ \A v \in Transfers : v # h => P[v] = p[v]
  BY <1>1, <1>2, PassRange
<1>6. passed' \in Progress /\ Upto(passed', h, j - 1) /\ \A v \in Transfers : v # h => passed'[v] = p[v]
  BY <1>4, <1>5
<1>7. m \in 0..MaxFiles /\ j - 1 \in 0..MaxFiles /\ m <= j - 1 /\ n >= n
  <2>1. i \in 1..n + 1 /\ j \in i..n + 1 /\ m \in 0..i - 1 /\ n \in 0..MaxFiles /\ MaxFiles \in Nat
    BY <1>1, FilesAssumption
  <2> HIDE DEF n
  <2> QED
    BY <2>1
<1>8. Forward
  BY <1>6, <1>7 DEF Forward
<1> QED
  BY <1>6, <1>8 DEF HeadOnly

LEMMA FileDriven ==
    ASSUME QueueInv, NEW c \in calls, Sized(size)', MkdirAnswered(c) \/ WriteAnswered(c)
    PROVE  Driven' /\ OldStay /\ JobStep
<1> DEFINE h == Head(queue)
           n == size[h]
           i == work.uidx
           s == After(c)
           p == Pass(passed, {<<c.of, c.file>>})
           w == [work EXCEPT !.made = @ \union {c.dir}]
<1>1. /\ ~cancelled /\ c.op \in {"mkdir", "write"} /\ kind' = kind /\ size' = size
  BY DEF MkdirAnswered, WriteAnswered
<1>2. /\ active /\ c.of = h /\ calls = {c} /\ c.file = i
      /\ Uploading(kind[h], h, work, calls, passed, n)
  BY <1>1, CallbackIs
<1>3. /\ i \in 1..n /\ Upto(passed, h, i - 1) /\ work.uploads = Entries(h, 1, n)
      /\ kind[h] \in UploadKinds
  BY <1>2 DEF Uploading
<1>4. n \in Nat /\ Fields(work) /\ s.calls = {} /\ passed \in Progress
  BY <1>2, HeadIs, AfterIs DEF QueueInv, Driven, Alone
<1>5. p \in Progress /\ Upto(p, h, i) /\ \A v \in Transfers \ {h} : p[v] = passed[v]
  BY <1>1, <1>2, <1>3, OneMore
<1>6. Fields(w) /\ w.uidx = i /\ w.uploads = work.uploads
  BY <1>4 DEF Fields
<1>7. i + 1 \in 1..n + 1 /\ (i + 1) - 1 = i
  BY <1>3, <1>4
<1> DEFINE j == i + 1
<1>8. \/ /\ passed' = passed
         /\ \E o \in {"mkdir", "write"} : \E d : Continue(w, {Call(o, c.of, c.file, d)}, s)
      \/ UploadFrom(j, w, s, p) \/ UploadFrom(j, work, s, p)
  BY <1>6, Zenon DEF MkdirAnswered, WriteAnswered
<1>9. j \in 1..n + 1 /\ Upto(p, h, j - 1)
  BY <1>5, <1>7
<1> HIDE DEF j, s, p, w
<1>10. ASSUME NEW v, Fields(v), v.uploads = work.uploads, UploadFrom(j, v, s, p)
       PROVE  Driven' /\ OldStay /\ JobStep
  <2>1. HeadOnly
    <3>1. i - 1 \in 0..j - 1
      BY <1>3, <1>4 DEF j
    <3> QED
      BY <1>1, <1>2, <1>3, <1>5, <1>9, <1>10, <3>1, UploadOnly
  <2> QED
    BY <1>1, <1>2, <1>3, <1>4, <1>5, <1>9, <1>10, <2>1, UploadDriven
<1>11. ASSUME passed' = passed, NEW o \in {"mkdir", "write"}, NEW d, Continue(w, {Call(o, c.of, c.file, d)}, s)
       PROVE  Driven' /\ OldStay /\ JobStep
  <2> DEFINE e == Call(o, c.of, c.file, d)
  <2>1. e.op = o /\ e.of = h /\ e.file = i
    BY <1>2, CallIs
  <2> HIDE DEF e, h, n, i
  <2>2. work' = w /\ calls' = {e} /\ UNCHANGED <<queue, active, cancelled, outcome>>
    BY <1>4, <1>11 DEF Continue, e
  <2>3. HeadOnly
    <3>1. size'[h] >= size[h] /\ i - 1 \in 0..MaxFiles /\ Upto(passed, h, i - 1)
      BY <1>1, <1>2, <1>3, <1>4, HeadIs, FilesAssumption DEF h, n
    <3>2. Forward
      BY <1>11, <3>1, NothingDone DEF h
    <3> QED
      BY <1>1, <1>4, <1>11, <3>2 DEF HeadOnly
  <2>4. Uploading(kind[h], h, work', calls', passed', size'[h])
    BY <1>1, <1>3, <1>6, <1>11, <2>1, <2>2 DEF Uploading, n
  <2> QED
    BY <1>2, <1>6, <2>1, <2>2, <2>3, <2>4, GoOn DEF Phase, h
<1> QED
  BY <1>4, <1>6, <1>8, <1>10, <1>11

\* Which kinds scan: no other upload that does is offered beside a menu's.
LEMMA MenuIs ==
    ASSUME Separate, QueueInv, active, kind[Head(queue)] \in {"menu", "skip", "refuse"}, handlers > 0
    PROVE  kind[Head(queue)] = "menu"
<1>1. PICK t \in Transfers : kind[t] = "menu"
  BY DEF QueueInv, Asked
<1>2. Head(queue) \in Transfers
  BY HeadIs
<1>3. CASE t # Head(queue)
  <2>1. "menu" \in Offers[t] /\ kind[Head(queue)] \in Offers[Head(queue)]
    BY <1>1, <1>2 DEF QueueInv, Kinds
  <2> QED
    BY <1>2, <1>3, <2>1 DEF Separate
<1> QED
  BY <1>1, <1>3

LEMMA ScanDriven ==
    ASSUME Separate, QueueInv, NEW c \in calls, Sized(size)', ScanAnswered(c)
    PROVE  Driven' /\ OldStay /\ JobStep
<1> DEFINE h == Head(queue)
           n == size[h]
           s == After(c)
<1>1. ~cancelled /\ c.op = "scan" /\ kind' = kind /\ size' = size
  BY DEF ScanAnswered
<1>2. active /\ c.of = h /\ Scanning(kind[h], h, work, calls, passed, n)
  BY <1>1, CallbackIs
<1>3. /\ h \in Transfers /\ n \in Nat /\ Fields(work) /\ s.calls = calls \ {c} /\ passed \in Progress
      /\ \A d \in calls : d.of = h
  BY <1>2, HeadIs, AfterIs DEF QueueInv, Driven, Alone
<1>4. /\ kind[h] \in {"menu", "skip", "refuse"} /\ kind[h] \in UploadKinds
      /\ work.scans = Cardinality(calls) /\ work.uploads = Entries(h, 1, n) /\ Upto(passed, h, 0)
      /\ \A d \in calls : d.op = "scan"
  BY <1>2 DEF Scanning, UploadKinds
<1>5. /\ IsFiniteSet(calls \ {c}) /\ Cardinality(calls \ {c}) = Cardinality(calls) - 1
      /\ Cardinality(calls \ {c}) \in Nat
  BY FS_RemoveElement, FS_CardinalityType DEF QueueInv, WalkInv, Walks, Exactly
<1>6. PICK C : LET w == [work EXCEPT !.scans = @ - 1, !.found = @ \union C]
               IN  \/ w.scans # 0 /\ Continue(w, {}, s) /\ passed' = passed
                   \/ w.scans = 0 /\ UploadFrom(1, w, s, passed)
                   \/ w.scans = 0 /\ w.found # {} /\ handlers > 0 /\ Continue(w, {}, s) /\ passed' = passed
                   \/ w.scans = 0 /\ UploadFrom(1, [w EXCEPT !.skip = w.found], s, passed)
                   \/ CancelAll(s) /\ passed' = passed
  BY Zenon DEF ScanAnswered
<1> DEFINE w == [work EXCEPT !.scans = @ - 1, !.found = @ \union C]
           v == [w EXCEPT !.skip = w.found]
<1>7. /\ Fields(w) /\ w.scans = Cardinality(calls \ {c}) /\ w.uploads = work.uploads
      /\ Fields(v) /\ v.uploads = work.uploads
  BY <1>3, <1>4, <1>5 DEF Fields
<1>8. \/ w.scans # 0 /\ Continue(w, {}, s) /\ passed' = passed
      \/ w.scans = 0 /\ UploadFrom(1, w, s, passed)
      \/ w.scans = 0 /\ w.found # {} /\ handlers > 0 /\ Continue(w, {}, s) /\ passed' = passed
      \/ w.scans = 0 /\ UploadFrom(1, v, s, passed)
      \/ CancelAll(s) /\ passed' = passed
  BY <1>6, Zenon
<1> HIDE DEF w, v, s
<1>9. ASSUME w.scans = 0 PROVE s.calls = {}
  BY <1>3, <1>5, <1>7, <1>9, FS_EmptySet
<1>10. ASSUME passed' = passed PROVE HeadOnly
  <2>1. size'[h] >= size[h] /\ 0 \in 0..MaxFiles
    BY <1>1, <1>3, FilesAssumption
  <2>2. Forward
    BY <1>4, <1>10, <2>1, NothingDone
  <2> QED
    BY <1>1, <1>3, <1>10, <2>2 DEF HeadOnly
<1>11. ASSUME Continue(w, {}, s)
       PROVE  work' = w /\ calls' = s.calls /\ UNCHANGED <<queue, active, cancelled, outcome>>
  BY <1>11 DEF Continue
<1>12. CASE w.scans # 0 /\ Continue(w, {}, s) /\ passed' = passed
  <2>1. calls \ {c} # {}
    BY <1>7, <1>12, FS_EmptySet
  <2>2. Scanning(kind[h], h, work', calls', passed', size'[h])
    BY <1>1, <1>3, <1>4, <1>7, <1>11, <1>12, <2>1 DEF Scanning
  <2> QED
    BY <1>2, <1>3, <1>7, <1>10, <1>11, <1>12, <2>2, GoOn DEF Phase
<1>13. CASE w.scans = 0 /\ w.found # {} /\ handlers > 0 /\ Continue(w, {}, s) /\ passed' = passed
  <2>1. kind[h] = "menu"
    BY <1>2, <1>4, <1>13, MenuIs
  <2>2. Asking(kind[h], h, work', calls', passed', size'[h])
    BY <1>1, <1>4, <1>7, <1>9, <1>11, <1>13, <2>1 DEF Asking
  <2> QED
    BY <1>2, <1>3, <1>7, <1>9, <1>10, <1>11, <1>13, <2>2, GoOn DEF Phase
<1>14. CASE CancelAll(s) /\ passed' = passed
  <2>1. DropQueue("cancelled") /\ calls' \subseteq calls
    BY <1>3, <1>14 DEF CancelAll
  <2> QED
    BY <1>1, <1>2, <1>14, <2>1, DropDriven
<1>15. ASSUME NEW u, Fields(u), u.uploads = work.uploads, w.scans = 0, UploadFrom(1, u, s, passed)
       PROVE  Driven' /\ OldStay /\ JobStep
  <2> DEFINE i == 1
  <2>1. i \in 1..n + 1 /\ i - 1 = 0 /\ 1 = i
    BY <1>3
  <2>2. UploadFrom(i, u, s, passed) /\ Upto(passed, h, i - 1)
    BY <1>4, <1>15, <2>1
  <2> HIDE DEF i
  <2>3. HeadOnly
    <3>1. 0 \in 0..i - 1
      BY <2>1
    <3> QED
      BY <1>1, <1>2, <1>3, <1>4, <1>15, <2>1, <2>2, <3>1, UploadOnly
  <2> QED
    BY <1>1, <1>2, <1>3, <1>4, <1>9, <1>15, <2>1, <2>2, <2>3, UploadDriven
<1> QED
  BY <1>7, <1>8, <1>12, <1>13, <1>14, <1>15

\* A callback of a cancelled transfer.
LEMMA CancelledDriven ==
    ASSUME QueueInv, NEW c \in calls, cancelled, AnsweredCancelled(c) \/ ExtractAnswered(c)
    PROVE  Driven' /\ OldStay /\ JobStep /\ ~active'
<1>1. ~active /\ work.downloads = <<>> /\ Fields(work)
  BY DEF QueueInv, Driven, Alone
<1> DEFINE w == IF c.op = "mkdir" THEN [work EXCEPT !.made = @ \union {c.dir}] ELSE work
           v == [work EXCEPT !.archive = NoTransfer, !.didx = 1]
<1>2. /\ Fields(w) /\ w.downloads = work.downloads
      /\ Fields(v) /\ v.downloads = work.downloads
  BY <1>1 DEF Fields
<1>3. /\ kind' = kind /\ size' = size /\ passed' = passed
      /\ Continue(w, {}, After(c)) \/ Continue(v, {}, After(c))
  <2>1. CASE AnsweredCancelled(c)
    BY <2>1, Zenon DEF AnsweredCancelled
  <2>2. CASE ExtractAnswered(c)
    BY <1>1, <2>2 DEF ExtractAnswered, DownloadFrom
  <2> QED
    BY <2>1, <2>2
<1> HIDE DEF w, v
<1>4. /\ UNCHANGED <<queue, active, cancelled, outcome>> /\ calls' \subseteq calls
      /\ Fields(work') /\ work'.downloads = work.downloads
  BY <1>2, <1>3, AfterIs DEF Continue
<1> QED
  BY <1>1, <1>3, <1>4, StillDriven

LEMMA AnswerDriven ==
    ASSUME Separate, QueueInv, NEW c \in calls, Answered(c), WalkInv'
    PROVE  Driven' /\ OldStay /\ JobStep /\ (active' => dialogs = 0)
<1>1. Sized(size)'
  BY DEF WalkInv
<1>2. CASE cancelled
  <2>1. AnsweredCancelled(c) \/ ExtractAnswered(c)
    BY <1>2 DEF Answered, ListAnswered, FindAnswered, RulesAnswered, ProbeAnswered, PackAnswered,
                StreamAnswered, ReadAnswered, ScanAnswered, MkdirAnswered, WriteAnswered
  <2> QED
    BY <1>2, <2>1, CancelledDriven
<1>3. CASE ~cancelled
  <2>1. ~AnsweredCancelled(c)
    BY <1>3 DEF AnsweredCancelled
  <2>2. dialogs = 0
    BY <1>3, CallbackIs
  <2> QED
    BY <1>1, <1>3, <2>1, <2>2, WalkDriven, ArchiveDriven, ReadDriven, ScanDriven, FileDriven DEF Answered
<1> QED
  BY <1>2, <1>3

\* A request.
LEMMA RequestDriven ==
    ASSUME Separate, QueueInv, NEW t \in Transfers, Request(t), WalkInv'
    PROVE  Driven' /\ OldStay /\ JobStep /\ outcome'[t] # "new"
<1> DEFINE q == Append(queue, t)
           r == [outcome EXCEPT ![t] = "queued"]
<1>1. outcome[t] = "new" /\ kind' = kind /\ size' = size /\ passed' = passed
  BY DEF Request
<1>2. /\ QueueOf(q, r) /\ q # <<>>
      /\ queue \in Seq(Transfers) /\ Len(queue) \in Nat /\ Len(q) = Len(queue) + 1
      /\ q[Len(q)] = t /\ \A i \in 1..Len(queue) : q[i] = queue[i]
      /\ \A u : (\E i \in 1..Len(q) : q[i] = u) <=> u = t \/ \E i \in 1..Len(queue) : queue[i] = u
      /\ \A u \in Transfers : r[u] = "new" => outcome[u] = "new" /\ u # t
  BY <1>1, Appended DEF QueueInv
<1>3. r[t] = "queued" /\ \A u \in Transfers : r[u] = "completed" => outcome[u] = "completed"
  BY DEF QueueInv, WalkInv, Walks, QueueOf
<1>4. queue # <<>> => Head(q) = Head(queue)
  BY <1>2, HeadTailAppend
<1> HIDE DEF q, r
<1>5. /\ passed \in Progress /\ Fields(work) /\ Kinds /\ Sized(size)
      /\ Waiting(kind, queue, outcome, passed, size) /\ Done(r, passed, size)
  BY <1>3 DEF QueueInv, Driven, Alone, WalkInv, Done
<1>6. CASE active
  <2>1. queue' = q /\ outcome' = r /\ UNCHANGED <<active, cancelled, work, calls>>
    BY <1>6, Zenon DEF Request, q, r
  <2>2. Head(queue') = Head(queue) /\ ~cancelled
    BY <1>4, <1>6, <2>1, HeadIs
  <2>3. Alone'
    BY <1>1, <1>6, <2>1, <2>2 DEF QueueInv, Driven, Alone
  <2>4. ASSUME NEW u \in Transfers, r[u] = "new" \/ \E i \in 2..Len(q) : q[i] = u
        PROVE  Fresher(kind[u], passed, u, size[u])
    <3>1. outcome[u] = "new" \/ \E i \in 2..Len(queue) : queue[i] = u
      <4>1. ASSUME NEW i \in 2..Len(q), q[i] = u PROVE u = t \/ \E j \in 2..Len(queue) : queue[j] = u
        <5>1. i \in 2..Len(queue) \/ i = Len(q)
          BY <1>2
        <5>2. ASSUME i \in 2..Len(queue) PROVE queue[i] = u
          BY <1>2, <4>1, <5>2
        <5> QED
          BY <1>2, <4>1, <5>1, <5>2
      <4> QED
        BY <1>1, <1>2, <2>4, <4>1
    <3> QED
      BY <1>5, <3>1 DEF Waiting
  <2>5. Waiting(kind', queue', outcome', passed', size')
    BY <1>1, <2>1, <2>4 DEF Waiting
  <2>6. Apart(calls)
    BY DEF QueueInv, Driven
  <2>7. OldStay /\ outcome'[t] # "new"
    BY <1>2, <1>3, <2>1 DEF OldStay
  <2>8. AsJobs!Submit(t)
    BY <1>1, <2>1 DEF AsJobs!Submit, q, r
  <2>9. JobStep
    BY <2>8 DEF AsJobs!Next, JobStep
  <2> QED
    BY <1>1, <1>5, <2>1, <2>3, <2>5, <2>6, <2>7, <2>9 DEF Driven
<1>7. CASE ~active
  <2>1. StartNext(q, Now, r) /\ calls = {}
    BY <1>7, Zenon DEF Request, q, r, Separate
  <2>2. queue = <<>>
    BY <1>7 DEF QueueInv, WalkInv, Walks
  <2>3. ASSUME NEW u \in Transfers, r[u] = "new" \/ \E i \in 1..Len(q) : q[i] = u
        PROVE  Fresher(kind[u], passed', u, size[u]) /\ size'[u] = size[u]
    <3>1. Len(queue) = 0
      BY <2>2, EmptySeq
    <3>2. ~\E i \in 1..Len(queue) : queue[i] = u
      BY <3>1
    <3>3. outcome[u] = "new"
      BY <1>1, <1>2, <2>3, <3>2
    <3> QED
      BY <1>1, <1>5, <3>3 DEF Waiting
  <2>4. Now.calls = {}
    BY <2>1 DEF Now
  <2>5. Sized(size)' /\ passed' \in Progress /\ Done(r, passed', size')
    BY <1>1, <1>5 DEF WalkInv
  <2>6. Driven' /\ \A u \in Transfers : outcome'[u] = "new" => r[u] = "new"
    BY <1>1, <1>2, <1>5, <2>1, <2>3, <2>4, <2>5, StartHead
  <2>7. JobStep
    <3>1. /\ Len(q) = 1 /\ q \in Seq(Transfers) /\ q[1] = t
          /\ \A u \in Transfers : (\E i \in 1..1 : q[i] = u) <=> u = t
      BY <1>2, <2>2, EmptySeq DEF QueueOf
    <3>2. PICK n \in 0..Len(q) :
            /\ \A i \in 1..n : Instant(q[i])
            /\ queue' = SubSeq(q, n + 1, Len(q))
            /\ outcome' = [u \in Transfers |-> IF \E i \in 1..n : q[i] = u THEN "completed" ELSE r[u]]
      BY <2>1, Zenon DEF StartNext
    <3>3. outcome \in [Transfers -> Outcomes] /\ r = [outcome EXCEPT ![t] = "queued"]
      BY DEF QueueInv, WalkInv, Walks, QueueOf, r
    <3>4. CASE n = 0
      <4>1. queue' = q
        BY <3>1, <3>2, <3>4
      <4>2. outcome' = r
        <5>1. ~\E i \in 1..n : TRUE
          BY <3>4
        <5>2. outcome' = [u \in Transfers |-> r[u]]
          BY <3>2, <5>1
        <5> QED
          BY <3>3, <5>2
      <4> QED
        BY <1>1, <4>1, <4>2 DEF AsJobs!Submit, AsJobs!Next, JobStep, q, r
    <3>5. CASE n = 1
      <4>1. queue' = <<>>
        BY <3>1, <3>2, <3>5
      <4>2. size[t] = 0
        BY <3>1, <3>2, <3>5 DEF Instant
      <4>3. outcome' = [outcome EXCEPT ![t] = "completed"]
        BY <3>1, <3>2, <3>3, <3>5
      <4> QED
        BY <1>1, <2>2, <4>1, <4>2, <4>3 DEF AsJobs!Submit, AsJobs!Next, JobStep
    <3> QED
      BY <3>1, <3>2, <3>4, <3>5
  <2> QED
    BY <1>2, <1>3, <2>6, <2>7 DEF OldStay
<1> QED
  BY <1>6, <1>7

\* A dialog is answered: the transfer it is about goes on, if it is still there.
LEMMA AcceptDriven ==
    ASSUME QueueInv, Accept, WalkInv'
    PROVE  Driven' /\ OldStay /\ JobStep
<1> DEFINE h == Head(queue)
           n == size[h]
<1>1. dialogs > 0 /\ kind' = kind /\ size' = size /\ Fields(work) /\ passed \in Progress
  BY DEF Accept, QueueInv, Driven, Alone
<1>2. CASE cancelled \/ queue = <<>>
  <2>1. ~active
    BY <1>2 DEF QueueInv, WalkInv, Walks, Driven, Alone
  <2>2. Continue(work, {}, Now) /\ passed' = passed
    BY <1>2 DEF Accept
  <2>3. /\ UNCHANGED <<queue, active, cancelled, outcome>> /\ calls' \subseteq calls
        /\ Fields(work') /\ work'.downloads = work.downloads
    BY <1>1, <2>2 DEF Continue, Now
  <2> QED
    BY <1>1, <2>1, <2>2, <2>3, StillDriven
<1>3. CASE ~(cancelled \/ queue = <<>>)
  <2>1. active
    BY <1>3 DEF QueueInv, WalkInv, Walks
  <2>2. Asking(kind[h], h, work, calls, passed, n)
    BY <1>1, <2>1 DEF QueueInv, Asked
  <2>3. PICK S : UploadFrom(1, [work EXCEPT !.skip = S], Now, passed)
    BY <1>3, Zenon DEF Accept
  <2> DEFINE w == [work EXCEPT !.skip = S]
             i == 1
             s == Now
  <2>4. Fields(w) /\ w.uploads = work.uploads
    BY <1>1 DEF Fields
  <2>5. s.calls = {}
    BY <2>2 DEF Now, Asking
  <2>6. h \in Transfers /\ n \in Nat
    BY <2>1, HeadIs
  <2>7. i \in 1..n + 1 /\ Upto(passed, h, i - 1) /\ kind[h] \in UploadKinds /\ w.uploads = Entries(h, 1, n)
    <3>1. 1 \in 1..n + 1 /\ 1 - 1 = 0
      BY <2>6
    <3>2. Upto(passed, h, 0) /\ kind[h] \in UploadKinds /\ work.uploads = Entries(h, 1, n)
      BY <2>2 DEF Asking, UploadKinds
    <3> QED
      BY <2>4, <3>1, <3>2
  <2>8. UploadFrom(i, w, s, passed) /\ Sized(size)'
    BY <2>3 DEF WalkInv
  <2> HIDE DEF w, i, s
  <2>9. HeadOnly
    <3>1. 0 \in 0..i - 1 /\ Upto(passed, h, 0)
      BY <2>2 DEF Asking, i
    <3> QED
      BY <1>1, <2>1, <2>7, <2>8, <3>1, UploadOnly
  <2> QED
    BY <1>1, <2>1, <2>4, <2>5, <2>7, <2>8, <2>9, UploadDriven
<1> QED
  BY <1>2, <1>3

\* The user, the commands and the connection.
LEMMA OthersDriven ==
    ASSUME QueueInv, Cancel \/ Dismiss \/ LinkDrops \/ ConnectionLost \/ UNCHANGED vars
    PROVE  Driven' /\ OldStay /\ JobStep
<1>1. ASSUME UNCHANGED <<queue, active, cancelled, work, calls, kind, size, outcome, passed>>
      PROVE  Driven' /\ OldStay /\ JobStep
  BY <1>1 DEF QueueInv, Driven, Alone, OldStay, JobStep
<1>2. CASE Cancel
  <2>1. active /\ CancelAll(Now) /\ kind' = kind /\ size' = size /\ passed' = passed
    BY <1>2 DEF Cancel
  <2>2. DropQueue("cancelled") /\ calls' \subseteq calls
    BY <2>1 DEF CancelAll, Now
  <2> QED
    BY <2>1, <2>2, DropDriven
<1>3. CASE ConnectionLost
  <2>1. kind' = kind /\ size' = size /\ passed' = passed /\ calls' = calls
    BY <1>3 DEF ConnectionLost
  <2>2. CASE active
    <3>1. DropQueue("lost")
      BY <1>3, <2>2 DEF ConnectionLost
    <3> QED
      BY <2>1, <2>2, <3>1, DropDriven
  <2>3. CASE ~active
    BY <1>1, <1>3, <2>1, <2>3 DEF ConnectionLost
  <2> QED
    BY <2>2, <2>3
<1>4. CASE Dismiss \/ LinkDrops \/ UNCHANGED vars
  BY <1>1, <1>4 DEF Dismiss, LinkDrops, vars, manager, world, history
<1> QED
  BY <1>2, <1>3, <1>4

-----------------------------------------------------------------------------
(* Dialogs *)

\* A head without a call is one whose conflicts are asked about.
LEMMA EmptyAsks ==
    ASSUME NEW kd, NEW t, NEW w, NEW p, NEW n, Phase(kd, t, w, {}, p, n)
    PROVE  Asking(kd, t, w, {}, p, n)
  BY DEF Phase, Walking, Packing, Reading, Scanning, Uploading

LEMMA AskedStays ==
    ASSUME Asked, UNCHANGED <<handlers, kind>>, OldStay,
           dialogs' = dialogs \/ dialogs' = 0, active' => dialogs' = 0
    PROVE  Asked'
  BY DEF Asked, OldStay

LEMMA AnswerAsked ==
    ASSUME Separate, QueueInv, NEW c \in calls, Answered(c), WalkInv', Driven', OldStay, active' => dialogs = 0
    PROVE  Asked'
<1>1. kind' = kind
  BY Zenon DEF Answered, AnsweredCancelled, ListAnswered, FindAnswered, RulesAnswered, WalkStep,
               ProbeAnswered, PackAnswered, StreamAnswered, ExtractAnswered, ReadAnswered,
               ScanAnswered, MkdirAnswered, WriteAnswered
<1>2. CASE UNCHANGED <<handlers, dialogs>>
  BY <1>1, <1>2, AskedStays DEF QueueInv
<1>3. CASE ~UNCHANGED <<handlers, dialogs>>
  <2>1. ScanAnswered(c)
    BY <1>3, Zenon DEF Answered, AnsweredCancelled, ListAnswered, FindAnswered, RulesAnswered, WalkStep,
                       ProbeAnswered, PackAnswered, StreamAnswered, ExtractAnswered, ReadAnswered,
                       MkdirAnswered, WriteAnswered
  <2>2. PICK C : LET w == [work EXCEPT !.scans = @ - 1, !.found = @ \union C]
                 IN  /\ w.scans = 0 /\ handlers > 0 /\ dialogs' = handlers /\ handlers' = 0
                     /\ Continue(w, {}, After(c))
    BY <1>3, <2>1, Zenon DEF ScanAnswered
  <2>3. /\ active /\ active' /\ queue' = queue /\ calls' = calls \ {c} /\ outcome' = outcome
        /\ Scanning(kind[Head(queue)], Head(queue), work, calls, passed, size[Head(queue)])
    BY <2>1, <2>2, CallbackIs, AfterIs DEF Continue, ScanAnswered
  <2>4. work.scans = 1
    <3>1. Fields(work) /\ work.scans \in Nat
      <4>1. work.scans = Cardinality(calls) /\ IsFiniteSet(calls)
        BY <2>3 DEF Scanning, QueueInv, WalkInv, Walks, Exactly
      <4> QED
        BY <4>1, FS_CardinalityType DEF QueueInv, Driven, Alone
    <3>2. work.scans - 1 = 0
      BY <2>2, <3>1 DEF Fields
    <3> QED
      BY <3>1, <3>2
  <2>5. calls' = {}
    <3>1. IsFiniteSet(calls) /\ Cardinality(calls) = 1
      BY <2>3, <2>4 DEF Scanning, QueueInv, WalkInv, Walks, Exactly
    <3>2. IsFiniteSet(calls \ {c}) /\ Cardinality(calls \ {c}) = 0
      BY <3>1, FS_RemoveElement
    <3> QED
      BY <2>3, <3>2, FS_EmptySet
  <2>6. Asking(kind'[Head(queue')], Head(queue'), work', calls', passed', size'[Head(queue')])
    <3>1. Phase(kind'[Head(queue')], Head(queue'), work', {}, passed', size'[Head(queue')])
      BY <2>3, <2>5 DEF Driven, Alone
    <3> QED
      BY <2>5, <3>1, EmptyAsks
  <2> QED
    BY <1>1, <2>2, <2>3, <2>6 DEF QueueInv, Asked
<1> QED
  BY <1>2, <1>3

LEMMA RequestAsked ==
    ASSUME Separate, QueueInv, NEW t \in Transfers, Request(t), OldStay, outcome'[t] # "new"
    PROVE  Asked'
<1>1. /\ outcome[t] = "new" /\ kind' = kind /\ size' = size /\ passed' = passed /\ dialogs' = dialogs
      /\ handlers' = IF kind[t] = "menu" THEN handlers + 1 ELSE handlers
  BY DEF Request
<1>2. ASSUME kind[t] = "menu", handlers + dialogs > 0 PROVE FALSE
  <2>1. PICK u \in Transfers : kind[u] = "menu" /\ outcome[u] # "new"
    BY <1>2 DEF QueueInv, Asked
  <2>2. u # t /\ "menu" \in Offers[u] /\ "menu" \in Offers[t]
    BY <1>1, <1>2, <2>1 DEF QueueInv, Kinds
  <2> QED
    BY <2>1, <2>2 DEF Separate
<1>3. /\ handlers' \in Nat /\ dialogs' \in Nat /\ handlers' + dialogs' <= 1
      /\ handlers' + dialogs' > 0 => \E u \in Transfers : kind'[u] = "menu" /\ outcome'[u] # "new"
  <2>1. CASE kind[t] = "menu"
    <3>1. handlers = 0 /\ dialogs = 0
      BY <1>2, <2>1 DEF QueueInv, Asked
    <3> QED
      BY <1>1, <2>1, <3>1
  <2>2. CASE kind[t] # "menu"
    BY <1>1, <2>2 DEF QueueInv, Asked, OldStay
  <2> QED
    BY <2>1, <2>2
<1>4. ASSUME active', dialogs' > 0
      PROVE  Asking(kind'[Head(queue')], Head(queue'), work', calls', passed', size'[Head(queue')])
  <2>1. active
    BY <1>1, <1>4 DEF Request, Separate
  <2>2. queue' = Append(queue, t) /\ UNCHANGED <<work, calls>>
    BY <2>1, Zenon DEF Request
  <2>3. Head(queue') = Head(queue)
    <3>1. queue # <<>> /\ queue \in Seq(Transfers)
      BY <2>1 DEF QueueInv, WalkInv, Walks, QueueOf
    <3> QED
      BY <2>2, <3>1, HeadTailAppend
  <2> QED
    BY <1>1, <1>4, <2>1, <2>2, <2>3 DEF QueueInv, Asked
<1> QED
  BY <1>3, <1>4 DEF Asked

LEMMA OthersAsked ==
    ASSUME QueueInv, OldStay,
           Cancel \/ Accept \/ Dismiss \/ LinkDrops \/ ConnectionLost \/ UNCHANGED vars
    PROVE  Asked'
<1>1. CASE Cancel
  BY <1>1, AskedStays DEF Cancel, CancelAll, DropQueue, QueueInv
<1>2. CASE Accept \/ Dismiss
  <2>1. dialogs > 0 /\ dialogs' = dialogs - 1 /\ UNCHANGED <<handlers, kind>>
    BY <1>2 DEF Accept, Dismiss, history
  <2>2. dialogs' = 0
    BY <2>1 DEF QueueInv, Asked
  <2> QED
    BY <2>1, <2>2, AskedStays DEF QueueInv
<1>3. CASE ConnectionLost
  <2>1. UNCHANGED <<handlers, dialogs, kind>>
    BY <1>3 DEF ConnectionLost
  <2>2. CASE active
    BY <1>3, <2>1, <2>2, AskedStays DEF ConnectionLost, DropQueue, QueueInv
  <2>3. CASE ~active
    BY <1>3, <2>1, <2>3 DEF ConnectionLost, QueueInv, Asked
  <2> QED
    BY <2>2, <2>3
<1>4. CASE LinkDrops \/ UNCHANGED vars
  BY <1>4 DEF LinkDrops, vars, manager, world, history, QueueInv, Asked
<1> QED
  BY <1>1, <1>2, <1>3, <1>4

-----------------------------------------------------------------------------
(* Archives *)

\* The archives on the server whose path the manager took down.
Known == stored \ orphans

\* While connected, there is at most the one the manager still remembers.
LEMMA StoredIs ==
    ASSUME QueueInv, link = "up"
    PROVE  /\ Known \ {work.archive} = {}
           /\ (\A c \in calls : c.op \notin {"stream", "extract"}) => Known = {}
           /\ ~active => Known = {}
  BY DEF QueueInv, Kept, Known

\* A step that only removes archives, or leaves some behind, makes none known.
LEMMA KnownShrinks ==
    ASSUME NEW kept, kept \subseteq stored,
           (stored' = kept /\ orphans' = orphans) \/ \E c : LeftBehind(c, kept)
    PROVE  Known' \subseteq kept \ orphans /\ Known' \subseteq Known
  BY DEF Known, LeftBehind

LEMMA AnswerKept ==
    ASSUME QueueInv, NEW c \in calls, Answered(c), Driven'
    PROVE  Kept'
<1>1. link' = link
  BY Zenon DEF Answered, AnsweredCancelled, ListAnswered, FindAnswered, RulesAnswered, WalkStep,
               ProbeAnswered, PackAnswered, StreamAnswered, ExtractAnswered, ReadAnswered,
               ScanAnswered, MkdirAnswered, WriteAnswered
<1> SUFFICES ASSUME link = "up" PROVE Kept'
  BY <1>1 DEF Kept
<1>2. ASSUME Known' = {} PROVE Kept'
  BY <1>2 DEF Kept, Known
<1>3. CASE cancelled
  <2>1. Known = {}
    BY <1>3, StoredIs DEF QueueInv, Driven, Alone
  <2>2. \E kept : (kept \subseteq stored /\ stored' = kept /\ orphans' = orphans) \/ LeftBehind(c, stored)
    BY <1>3 DEF Answered, AnsweredCancelled, ListAnswered, FindAnswered, RulesAnswered,
                ProbeAnswered, PackAnswered, StreamAnswered, ExtractAnswered, ReadAnswered,
                ScanAnswered, MkdirAnswered, WriteAnswered
  <2> QED
    BY <1>2, <2>1, <2>2, KnownShrinks
<1>4. CASE ~cancelled
  <2>1. ~AnsweredCancelled(c)
    BY <1>4 DEF AnsweredCancelled
  <2>2. active /\ c.of = Head(queue) /\ Fields(work)
    BY <1>4, CallbackIs DEF QueueInv, Driven, Alone
  <2>3. CASE PackAnswered(c)
    <3>1. c.op = "pack" /\ calls = {c}
      BY <1>4, <2>3, CallbackIs DEF PackAnswered
    <3>2. Known = {}
      BY <3>1, StoredIs
    <3>3. CASE UNCHANGED <<stored, orphans>> \/ LeftBehind(c, stored \ {work.archive})
      <4>1. Known' \subseteq Known
        BY <3>3, KnownShrinks
      <4> QED
        BY <1>2, <3>2, <4>1
    <3>4. CASE ~(UNCHANGED <<stored, orphans>> \/ LeftBehind(c, stored \ {work.archive}))
      <4> DEFINE w == [work EXCEPT !.archive = c.of]
                 d == Call("stream", c.of, 0, 0)
      <4>1. stored' = stored \union {c.of} /\ orphans' = orphans /\ ContinueReading(w, d, After(c))
        BY <2>3, <3>4, Zenon DEF PackAnswered
      <4>2. w.archive = c.of /\ d.op = "stream"
        BY <2>2, CallIs DEF Fields
      <4> HIDE DEF w, d
      <4>3. work' = w /\ d \in calls' /\ queue' = queue /\ active' = active
        <5>1. Continue(w, {d}, [After(c) EXCEPT !.reading = d])
          BY <4>1 DEF ContinueReading
        <5> QED
          BY <5>1 DEF Continue
      <4> QED
        BY <2>2, <3>2, <4>1, <4>2, <4>3 DEF Kept, Known
    <3> QED
      BY <3>3, <3>4
  <2>4. CASE StreamAnswered(c)
    <3>1. CASE stored' = stored \ {work.archive} /\ orphans' = orphans
      <4>1. Known' = Known \ {work.archive}
        BY <3>1 DEF Known
      <4> QED
        BY <1>2, <4>1, StoredIs
    <3>2. CASE ~(stored' = stored \ {work.archive} /\ orphans' = orphans)
      <4> DEFINE d == Call("extract", c.of, 0, 0)
      <4>1. stored' = stored /\ orphans' = orphans /\ Continue(work, {d}, After(c))
        BY <2>4, <3>2, Zenon DEF StreamAnswered
      <4>2. d.op = "extract"
        BY CallIs
      <4> HIDE DEF d
      <4>3. work' = work /\ d \in calls' /\ queue' = queue /\ active' = active
        BY <4>1 DEF Continue
      <4> QED
        BY <2>2, <4>1, <4>2, <4>3 DEF QueueInv, Kept
    <3> QED
      BY <3>1, <3>2
  <2>5. CASE ExtractAnswered(c)
    <3>1. Known' = Known \ {work.archive}
      BY <2>5 DEF ExtractAnswered, Known
    <3> QED
      BY <1>2, <3>1, StoredIs
  <2>6. CASE ~PackAnswered(c) /\ ~StreamAnswered(c) /\ ~ExtractAnswered(c)
    <3>1. /\ c.op \in WalkOps \union {"probe", "read", "scan", "mkdir", "write"}
          /\ stored' \subseteq stored /\ orphans' = orphans
      BY <2>1, <2>6 DEF Answered, ListAnswered, FindAnswered, RulesAnswered, WalkStep, WalkOps,
                        ProbeAnswered, ReadAnswered, ScanAnswered, MkdirAnswered, WriteAnswered, CancelAll
    <3>2. \A d \in calls : d.op \notin {"stream", "extract"}
      <4>1. CASE c.op \in WalkOps
        BY <1>4, <4>1, CallbackIs DEF Walking, WalkOps
      <4>2. CASE c.op = "scan"
        BY <1>4, <4>2, CallbackIs DEF Scanning
      <4>3. CASE c.op \in {"probe", "read", "mkdir", "write"}
        <5>1. calls = {c}
          BY <1>4, <4>3, CallbackIs
        <5> QED
          BY <4>3, <5>1
      <4> QED
        BY <3>1, <4>1, <4>2, <4>3
    <3>3. Known = {}
      BY <3>2, StoredIs
    <3> QED
      BY <1>2, <3>1, <3>3 DEF Known
  <2> QED
    BY <2>3, <2>4, <2>5, <2>6
<1> QED
  BY <1>3, <1>4

LEMMA OthersKept ==
    ASSUME QueueInv,
           (\E t \in Transfers : Request(t)) \/ Cancel \/ Accept \/ Dismiss \/ LinkDrops
             \/ ConnectionLost \/ UNCHANGED vars
    PROVE  Kept'
<1>1. ASSUME Known' = {} \/ link' # "up" PROVE Kept'
  BY <1>1 DEF Kept, Known
<1>2. ASSUME UNCHANGED <<queue, active, work, calls, link, stored, orphans>> PROVE Kept'
  BY <1>2 DEF QueueInv, Kept
<1>3. ASSUME NEW t \in Transfers, Request(t) PROVE Kept'
  <2>1. link' = link /\ stored' = stored /\ orphans' = orphans
    BY <1>3 DEF Request
  <2>2. CASE active
    <3>1. queue' = Append(queue, t) /\ UNCHANGED <<active, work, calls>>
      BY <1>3, <2>2, Zenon DEF Request
    <3>2. Head(queue') = Head(queue)
      <4>1. queue # <<>> /\ queue \in Seq(Transfers)
        BY <2>2 DEF QueueInv, WalkInv, Walks, QueueOf
      <4> QED
        BY <3>1, <4>1, HeadTailAppend
    <3> QED
      BY <2>1, <3>1, <3>2 DEF QueueInv, Kept
  <2>3. CASE ~active
    BY <1>1, <2>1, <2>3, StoredIs DEF Known
  <2> QED
    BY <2>2, <2>3
<1>4. CASE Cancel
  <2>1. link' = link /\ Known' = Known \ {work.archive}
    BY <1>4 DEF Cancel, CancelAll, Known
  <2> QED
    BY <1>1, <2>1, StoredIs
<1>5. CASE Accept
  <2>1. link' = link /\ stored' = stored /\ orphans' = orphans /\ dialogs > 0
    BY <1>5 DEF Accept
  <2>2. active => calls = {}
    BY <2>1 DEF QueueInv, Asked, Asking
  <2> QED
    BY <1>1, <2>1, <2>2, StoredIs DEF Known
<1>6. CASE Dismiss \/ UNCHANGED vars
  BY <1>2, <1>6 DEF Dismiss, vars, manager, world, history
<1>7. CASE LinkDrops \/ ConnectionLost
  BY <1>1, <1>7 DEF LinkDrops, ConnectionLost
<1> QED
  BY <1>3, <1>4, <1>5, <1>6, <1>7

-----------------------------------------------------------------------------
(* The theorems *)

LEMMA KindsKept ==
    ASSUME QueueInv, [Next]_vars
    PROVE  Kinds'
<1>1. kind' = kind
  <2>1. ASSUME NEW c \in calls, Answered(c) PROVE kind' = kind
    BY <2>1, Zenon DEF Answered, AnsweredCancelled, ListAnswered, FindAnswered, RulesAnswered, WalkStep,
                       ProbeAnswered, PackAnswered, StreamAnswered, ExtractAnswered, ReadAnswered,
                       ScanAnswered, MkdirAnswered, WriteAnswered
  <2>2. ASSUME NEW t \in Transfers, Request(t) PROVE kind' = kind
    BY <2>2, Zenon DEF Request
  <2>3. CASE Cancel
    BY <2>3, Zenon DEF Cancel
  <2>4. CASE Accept \/ Dismiss
    BY <2>4, Zenon DEF Accept, Dismiss, history
  <2>5. CASE LinkDrops \/ ConnectionLost
    BY <2>5, Zenon DEF LinkDrops, ConnectionLost, history
  <2>6. CASE UNCHANGED vars
    BY <2>6, Zenon DEF vars, history
  <2> QED
    BY <2>1, <2>2, <2>3, <2>4, <2>5, <2>6 DEF Next
<1> QED
  BY <1>1 DEF QueueInv, Kinds

LEMMA QueueInit == Init => QueueInv
<1> SUFFICES ASSUME Init PROVE QueueInv
  OBVIOUS
<1>1. WalkInv
  BY WalkInit
<1>2. /\ queue = <<>> /\ ~active /\ ~cancelled /\ work = Fresh /\ calls = {}
      /\ handlers = 0 /\ dialogs = 0 /\ stored = {} /\ orphans = {}
      /\ kind \in [Transfers -> DownloadKinds \union UploadKinds]
      /\ \A t \in Transfers : kind[t] \in Offers[t] /\ size[t] \in FirstSizes(kind[t])
      /\ outcome = [t \in Transfers |-> "new"]
      /\ passed = [t \in Transfers |-> [k \in 1..MaxFiles |-> 0]]
  BY DEF Init
<1>3. Kinds
  BY <1>2 DEF Kinds
<1>4. passed \in Progress /\ \A t \in Transfers : Upto(passed, t, 0)
  BY <1>2 DEF Progress, Upto
<1>5. Alone
  BY <1>2, FirstWorkIs DEF Alone
<1>6. Waiting(kind, queue, outcome, passed, size) /\ Done(outcome, passed, size)
  BY <1>2, <1>4 DEF Waiting, Done, Fresher
<1>7. Driven
  BY <1>2, <1>4, <1>5, <1>6 DEF Driven, Apart
<1>8. Asked /\ Kept
  BY <1>2 DEF Asked, Kept
<1> QED
  BY <1>1, <1>3, <1>7, <1>8 DEF QueueInv

LEMMA QueueStep == Separate /\ QueueInv /\ [Next]_vars => QueueInv'
<1> SUFFICES ASSUME Separate, QueueInv, [Next]_vars PROVE QueueInv'
  OBVIOUS
<1>1. WalkInv' /\ Kinds'
  BY WalkStepsInv, KindsKept DEF QueueInv
<1>2. Driven' /\ Asked' /\ Kept'
  <2>1. ASSUME NEW c \in calls, Answered(c) PROVE Driven' /\ Asked' /\ Kept'
    <3>1. Driven' /\ OldStay /\ (active' => dialogs = 0)
      BY <1>1, <2>1, AnswerDriven
    <3> QED
      BY <1>1, <2>1, <3>1, AnswerAsked, AnswerKept
  <2>2. ASSUME NEW t \in Transfers, Request(t) PROVE Driven' /\ Asked' /\ Kept'
    <3>1. Driven' /\ OldStay /\ outcome'[t] # "new"
      BY <1>1, <2>2, RequestDriven
    <3> QED
      BY <2>2, <3>1, RequestAsked, OthersKept
  <2>3. ASSUME Cancel \/ Accept \/ Dismiss \/ LinkDrops \/ ConnectionLost \/ UNCHANGED vars
        PROVE  Driven' /\ Asked' /\ Kept'
    <3>1. Driven' /\ OldStay
      BY <1>1, <2>3, AcceptDriven, OthersDriven
    <3> QED
      BY <2>3, <3>1, OthersAsked, OthersKept
  <2> QED
    BY <2>1, <2>2, <2>3 DEF Next
<1> QED
  BY <1>1, <1>2 DEF QueueInv

LEMMA QueueInvariant ==
    ASSUME Separate
    PROVE  Spec => []QueueInv
<1>1. Init => QueueInv
  BY QueueInit
<1>2. QueueInv /\ [Next]_vars => QueueInv'
  BY QueueStep
<1> QED
  BY <1>1, <1>2, PTL DEF Spec

\* The head of a running transfer and its calls.
LEMMA RunningWaits ==
    ASSUME QueueInv, active
    PROVE  /\ queue # <<>> /\ calls = CallsOf(Head(queue))
           /\ calls = {} => kind[Head(queue)] = "menu" /\ work.found # {}
<1> DEFINE h == Head(queue)
<1>1. queue # <<>> /\ \A c \in calls : c.of = h
  BY HeadIs
<1>2. calls = CallsOf(h)
  BY <1>1 DEF CallsOf
<1>3. ASSUME calls = {} PROVE kind[h] = "menu" /\ work.found # {}
  <2>1. Phase(kind[h], h, work, {}, passed, size[h])
    BY <1>3, HeadIs
  <2> QED
    BY <2>1, EmptyAsks DEF Asking
<1> QED
  BY <1>1, <1>2, <1>3

\* A transfer that is reported as completed was done with each of its files
\* exactly once and leaves nothing in flight, in any number of transfers and
\* files, whatever fails on the way.
THEOREM CompletedAreWhole ==
    ASSUME Separate
    PROVE  Spec => []CompletedWhole
<1>1. QueueInv => CompletedWhole
  <2> SUFFICES ASSUME QueueInv, NEW t \in Transfers, outcome[t] = "completed"
      PROVE  (\A k \in 1..size[t] : passed[t][k] = 1) /\ CallsOf(t) = {}
    BY DEF CompletedWhole
  <2>1. \A k \in 1..size[t] : passed[t][k] = 1
    BY DEF QueueInv, Driven, Done
  <2>2. CallsOf(t) = {}
    <3>1. CASE active
      <4>1. Head(queue) # t
        BY <3>1, HeadIs
      <4> QED
        BY <3>1, <4>1, HeadIs DEF CallsOf
    <3>2. CASE ~active
      BY <3>2 DEF QueueInv, Driven, Alone, CallsOf
    <3> QED
      BY <3>1, <3>2
  <2> QED
    BY <2>1, <2>2
<1> QED
  BY <1>1, QueueInvariant, PTL

\* No file moves before the walk or the conflict scan is complete, and files
\* move one at a time.
THEOREM OneAtATime ==
    ASSUME Separate
    PROVE  Spec => []OneThingAtATime
<1>1. QueueInv => OneThingAtATime
  BY DEF QueueInv, Driven, Apart, OneThingAtATime, CallsOf
<1> QED
  BY <1>1, QueueInvariant, PTL

\* A running transfer waits for an answer or for the user: the queue is never
\* left standing by a callback that returns early.
THEOREM RunningIsWaiting ==
    ASSUME Separate
    PROVE  Spec => []NeverForgotten
<1>1. QueueInv => NeverForgotten
  BY RunningWaits DEF NeverForgotten
<1> QED
  BY <1>1, QueueInvariant, PTL

\* While connected, the archives on the server are the one the running transfer
\* reads or unpacks and those the manager never learned the path of: of packs that
\* failed, or were answered when it was cancelled.  Every other one was removed.
THEOREM ArchivesAreRemoved ==
    ASSUME Separate
    PROVE  Spec => []ArchiveRemoved
<1>1. QueueInv => ArchiveRemoved
  BY DEF QueueInv, Kept, ArchiveRemoved, WalkInv, Walks
<1> QED
  BY <1>1, QueueInvariant, PTL

\* The transfers are a queue of jobs, whatever is answered, cancelled or lost in
\* between: no file of a transfer is done twice, or after its end, or out of turn.
THEOREM KeepsOrder ==
    ASSUME Separate
    PROVE  Spec => KeepsJobOrder
<1>1. Init => AsJobs!Init
  BY DEF Init, AsJobs!Init
<1>2. QueueInv /\ [Next]_vars => [AsJobs!Next]_(AsJobs!vars)
  <2> SUFFICES ASSUME QueueInv, [Next]_vars PROVE [AsJobs!Next]_(AsJobs!vars)
    OBVIOUS
  <2>1. WalkInv'
    BY WalkStepsInv DEF QueueInv
  <2>2. JobStep
    BY <2>1, AnswerDriven, RequestDriven, AcceptDriven, OthersDriven DEF Next
  <2> QED
    BY <2>2 DEF JobStep, AsJobs!vars
<1> QED
  BY <1>1, <1>2, QueueInvariant, PTL DEF Spec, KeepsJobOrder, AsJobs!Spec

\* "one active transfer at a time" holds of callbacks when transfers do not
\* overlap: what is answered is the head's, so no other one's progress moves.
THEOREM AnswersStayHome ==
    ASSUME Separate
    PROVE  Spec => AnswerStaysHome
<1>1. QueueInv => \A c \in calls : active => Head(queue) = c.of
  BY HeadIs
<1>2. QueueInv /\ [Next]_vars =>
        [\A c \in calls \ calls' : active /\ Head(queue) # c.of => UNCHANGED <<queue, work>>]_vars
  BY <1>1
<1> QED
  BY <1>2, QueueInvariant, PTL DEF Spec, AnswerStaysHome
=============================================================================
