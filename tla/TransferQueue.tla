--------------------------- MODULE TransferQueue ---------------------------
(***************************************************************************)
(* The transfers of one SSH workspace: a queue whose head is walked,       *)
(* packed or scanned and then moved file by file, every step of it an      *)
(* asynchronous call whose callback decides, from the manager's state at   *)
(* that time, what comes next.                                             *)
(***************************************************************************)
EXTENDS Integers, Sequences, FiniteSets

CONSTANTS
    Transfers,    \* the transfers that may be requested
    Offers,       \* Offers[t]: the kinds of request t may be
    MaxFiles,     \* files of one transfer, at most
    DirOf,        \* DirOf[k]: the remote directory an uploaded file k goes to
    MayOverlap    \* a transfer may start while a cancelled one has calls in flight

\* One file; a folder; a folder without what .gitignore ignores.
DownloadKinds == {"file", "tree", "filtered"}
\* Uploads that overwrite, ask in a dialog, or come from a command that skips
\* existing files or refuses them.
UploadKinds == {"overwrite", "menu", "skip", "refuse"}
Commands == {"skip", "refuse"}

ASSUME OffersAssumption == Offers \in [Transfers -> SUBSET (DownloadKinds \union UploadKinds)]
ASSUME FilesAssumption ==
    /\ MaxFiles \in Nat \ {0}
    /\ DirOf \in [1..MaxFiles -> Nat \ {0}]
    /\ MayOverlap \in BOOLEAN

VARIABLES
    queue, active, cancelled,   \* m_queue, m_active, m_cancelled
    work,      \* what startNextTransfer resets: manifests, indices, conflicts, archive
    reading,   \* the read that cancel() would withdraw (m_currentReadReqId)
    tar,       \* whether the server has tar, once probed
    pending,   \* pending[t]: the counter the callbacks of t's walk share
    calls,     \* calls whose callback is still to come
    handlers,  \* one-shot menu handlers connected to uploadConflictsDetected
    dialogs,   \* conflict dialogs open or still to open
    link,      \* the connection: up, down, or down and reported
    kind, size, outcome,   \* of each transfer: request, files found, result
    passed,    \* passed[t][k]: how often the manager was done with file k of t
    stored,    \* transfers with an archive on the server
    orphans    \* those among them of whose archive the manager never took down the path

manager == <<queue, active, cancelled, work, reading, tar, pending>>
world == <<calls, handlers, dialogs, link>>
history == <<kind, size, outcome, passed, stored, orphans>>
vars == <<manager, world, history>>

WalkOps == {"list", "find", "rules"}
Ops == WalkOps \union {"scan", "probe", "pack", "stream", "extract", "read", "mkdir", "write"}

Call(o, t, k, d) == [op |-> o, of |-> t, file |-> k, dir |-> d]
NoTransfer == "none"
NoCall == Call("none", NoTransfer, 0, 0)

\* The per-transfer members as startNextTransfer leaves them; indices from 1.
Fresh == [downloads |-> <<>>, didx |-> 1, uploads |-> <<>>, uidx |-> 1,
          skip |-> {}, found |-> {}, scans |-> 0, made |-> {}, archive |-> NoTransfer]

\* How many files a request starts with: the folder walk finds them later, and
\* an upload may find none of its files on disk.
FirstSizes(k) == IF k \in UploadKinds THEN 0..MaxFiles ELSE IF k = "file" THEN {1} ELSE {0}

Init ==
    /\ queue = <<>> /\ active = FALSE /\ cancelled = FALSE
    /\ work = Fresh /\ reading = NoCall /\ tar = "unknown"
    /\ pending = [t \in Transfers |-> 0]
    /\ calls = {} /\ handlers = 0 /\ dialogs = 0 /\ link = "up"
    /\ kind \in [Transfers -> DownloadKinds \union UploadKinds]
    /\ size \in [Transfers -> 0..MaxFiles]
    /\ \A t \in Transfers : kind[t] \in Offers[t] /\ size[t] \in FirstSizes(kind[t])
    /\ outcome = [t \in Transfers |-> "new"]
    /\ passed = [t \in Transfers |-> [k \in 1..MaxFiles |-> 0]]
    /\ stored = {} /\ orphans = {}

Entries(t, from, to) == [i \in 1..(to - from + 1) |-> <<t, from + i - 1>>]

\* The manager was done with the files of S once more.
Pass(p, S) == [t \in Transfers |-> [k \in 1..MaxFiles |-> p[t][k] + (IF <<t, k>> \in S THEN 1 ELSE 0)]]

-----------------------------------------------------------------------------
(* Starting the next transfer *)

\* What the callback of c finds: its call is over, its walk's counter and the
\* current read are given up.  The operators below go on from such a state.
Now == [calls |-> calls, pending |-> pending, reading |-> reading]
\* A variant: the read of a .gitignore is not counted off.
AfterRules(c) ==
    [calls |-> calls \ {c},
     pending |-> IF c.op \in {"list", "find"} THEN [pending EXCEPT ![c.of] = @ - 1] ELSE pending,
     reading |-> IF c.op \in {"read", "stream"} THEN NoCall ELSE reading]
After(c) ==
    [calls |-> calls \ {c},
     pending |-> IF c.op \in WalkOps THEN [pending EXCEPT ![c.of] = @ - 1] ELSE pending,
     reading |-> IF c.op \in {"read", "stream"} THEN NoCall ELSE reading]

\* A transfer that ends as it starts: nothing to upload.
Instant(t) == kind[t] \in UploadKinds /\ size[t] = 0

\* startDownload and startUpload up to the first calls they make.
FirstCalls(t) ==
    CASE kind[t] = "file" -> {Call("read", t, 1, 0)}
      [] kind[t] \in {"tree", "filtered"} -> {Call("list", t, 0, 0)}
      [] kind[t] = "overwrite" -> {Call("mkdir", t, 1, 0)}
      [] OTHER -> {Call("scan", t, 0, DirOf[k]) : k \in 1..size[t]}

\* A variant: the index into the manifest is not reset.
FirstWorkKeepsIndex(t) ==
    CASE kind[t] = "file" -> [Fresh EXCEPT !.downloads = Entries(t, 1, 1), !.didx = work.didx]
      [] kind[t] \in {"tree", "filtered"} -> [Fresh EXCEPT !.didx = work.didx]
      [] kind[t] = "overwrite" -> [Fresh EXCEPT !.uploads = Entries(t, 1, size[t])]
      [] OTHER -> [Fresh EXCEPT !.uploads = Entries(t, 1, size[t]), !.scans = Cardinality(FirstCalls(t))]

FirstWork(t) ==
    CASE kind[t] = "file" -> [Fresh EXCEPT !.downloads = Entries(t, 1, 1)]
      [] kind[t] \in {"tree", "filtered"} -> Fresh
      [] kind[t] = "overwrite" -> [Fresh EXCEPT !.uploads = Entries(t, 1, size[t])]
      [] OTHER -> [Fresh EXCEPT !.uploads = Entries(t, 1, size[t]), !.scans = Cardinality(FirstCalls(t))]

\* startNextTransfer on queue q: the first n transfers are uploads with nothing
\* to do and complete at once, the next one is started on members reset for it.
\* Nothing is reset when the queue is empty.
StartNext(q, s, results) ==
    \E n \in 0..Len(q) :
        LET rest == SubSeq(q, n + 1, Len(q))
            t == Head(rest)
        IN /\ \A i \in 1..n : Instant(q[i])
           /\ n < Len(q) => ~Instant(q[n + 1])
           /\ queue' = rest
           /\ active' = (n < Len(q))
           /\ cancelled' = (cancelled /\ q = <<>>)
           /\ outcome' = [u \in Transfers |-> IF \E i \in 1..n : q[i] = u THEN "completed" ELSE results[u]]
           /\ IF n = Len(q)
              THEN /\ work' = IF q = <<>> THEN work ELSE Fresh
                   /\ calls' = s.calls /\ reading' = s.reading /\ pending' = s.pending
              ELSE /\ work' = FirstWork(t)
                   /\ calls' = s.calls \union FirstCalls(t)
                   /\ reading' = IF kind[t] = "file" THEN Call("read", t, 1, 0) ELSE s.reading
                   /\ pending' = IF kind[t] \in {"tree", "filtered"} THEN [s.pending EXCEPT ![t] = 1] ELSE s.pending

\* A variant: the head is removed and the next transfer not started.
FinishHeadStops(result, s) ==
    /\ queue # <<>>
    /\ queue' = Tail(queue) /\ outcome' = [outcome EXCEPT ![Head(queue)] = result]
    /\ calls' = s.calls /\ reading' = s.reading /\ pending' = s.pending
    /\ UNCHANGED <<active, cancelled, work>>

\* The head is done, one way or the other, and the queue goes on.
FinishHead(result, s) ==
    /\ queue # <<>>
    /\ StartNext(Tail(queue), s, [outcome EXCEPT ![Head(queue)] = result])

\* The head goes on with members w and calls C.
Continue(w, C, s) ==
    /\ work' = w /\ calls' = s.calls \union C
    /\ pending' = s.pending /\ reading' = s.reading
    /\ UNCHANGED <<queue, active, cancelled, outcome>>

\* The same with a read that cancel() could withdraw.
ContinueReading(w, c, s) == Continue(w, {c}, [s EXCEPT !.reading = c])

-----------------------------------------------------------------------------
(* What the manager does next *)

\* The transfer at the head: a late callback may find none.
Owner == IF queue = <<>> THEN NoTransfer ELSE Head(queue)

\* downloadNextFile with index i.
DownloadFrom(i, w, s) ==
    IF cancelled THEN Continue(w, {}, s)
    ELSE IF i > Len(w.downloads) THEN FinishHead("completed", s)
    ELSE ContinueReading([w EXCEPT !.didx = i], Call("read", w.downloads[i][1], w.downloads[i][2], 0), s)

\* downloadWalkDone and downloadViaArchive: several files go through an
\* archive, if the server has tar.
WalkDone(w, s) ==
    CASE w.downloads = <<>> -> FinishHead("completed", s)
      [] Len(w.downloads) >= 2 /\ tar = "unknown" -> Continue(w, {Call("probe", Owner, 0, 0)}, s)
      [] Len(w.downloads) >= 2 /\ tar = "yes" -> Continue(w, {Call("pack", Owner, 0, 0)}, s)
      [] OTHER -> DownloadFrom(w.didx, w, s)

\* uploadNextFile with index i, and the upload it starts: files to skip, and
\* files that cannot be read although their directory is there, are passed by;
\* j is the next one a call is made for.
UploadFrom(i, w, s, p) ==
    \E j \in i..Len(w.uploads) + 1 :
        /\ \A m \in i..j - 1 : w.uploads[m] \in w.skip \/ DirOf[w.uploads[m][2]] \in w.made
        /\ passed' = Pass(p, {w.uploads[m] : m \in i..j - 1})
        /\ IF j > Len(w.uploads)
           THEN FinishHead("completed", s)
           ELSE LET t == w.uploads[j][1]
                    k == w.uploads[j][2]
                    c == IF DirOf[k] \in w.made THEN Call("write", t, k, 0)
                         ELSE Call("mkdir", t, k, IF 0 \in w.made THEN DirOf[k] ELSE 0)
                IN w.uploads[j] \notin w.skip /\ Continue([w EXCEPT !.uidx = j], {c}, s)

\* cancel and onConnectionLost drop the queue with this result.
DropQueue(result) ==
    /\ queue' = <<>> /\ active' = FALSE /\ cancelled' = TRUE
    /\ outcome' = [t \in Transfers |-> IF \E i \in 1..Len(queue) : queue[i] = t THEN result ELSE outcome[t]]
    /\ work' = [work EXCEPT !.downloads = <<>>, !.uploads = <<>>, !.archive = NoTransfer]

\* A variant: the archive is left on the server.
CancelAllKeeps(s) ==
    /\ DropQueue("cancelled")
    /\ calls' \in {s.calls, s.calls \ {s.reading}}
    /\ reading' = NoCall /\ pending' = s.pending /\ UNCHANGED <<stored, orphans>>

\* cancel: the current read is withdrawn, or its callback comes all the same;
\* the archive the manager knows of is removed from the server.
CancelAll(s) ==
    /\ DropQueue("cancelled")
    /\ calls' \in {s.calls, s.calls \ {s.reading}}
    /\ reading' = NoCall /\ pending' = s.pending
    /\ stored' = stored \ {work.archive} /\ UNCHANGED orphans

-----------------------------------------------------------------------------
(* Callbacks: the call c is answered *)

\* Of a pack that failed, or that onArchiveCreated did not look at, the server
\* may keep the file, and nobody has its path.
LeftBehind(c, kept) ==
    \E left \in SUBSET {c.of} : stored' = kept \union left /\ orphans' = orphans \union left

\* A callback finds m_cancelled set: it gives back what it holds and returns.
\* (The probe still tells about tar, mkdir still records the directory.)
AnsweredCancelled(c) ==
    /\ cancelled /\ c.op # "extract"
    /\ tar' \in IF c.op = "probe" THEN {"no"} \union (IF link = "up" THEN {"yes"} ELSE {}) ELSE {tar}
    /\ Continue(IF c.op = "mkdir" THEN [work EXCEPT !.made = @ \union {c.dir}] ELSE work, {}, After(c))
    /\ IF c.op = "pack" THEN LeftBehind(c, stored) ELSE UNCHANGED <<stored, orphans>>
    /\ UNCHANGED <<handlers, dialogs, link, kind, size, passed>>

\* A variant: the walk does not wait for the .gitignore it reads.
WalkStepEager(c, n, M) ==
    LET t == c.of
        w == [work EXCEPT !.downloads = @ \o Entries(t, size[t] + 1, size[t] + n)]
        s == [After(c) EXCEPT !.pending[t] = @ + Cardinality({m \in M : m.op # "rules"}),
                              !.calls = @ \union {m \in M : m.op = "rules"}]
    IN /\ size[t] + n <= MaxFiles /\ c.op # "rules"
       /\ size' = [size EXCEPT ![t] = @ + n]
       /\ IF s.pending[t] = 0 THEN WalkDone(w, s) ELSE Continue(w, M, s)
       /\ UNCHANGED <<tar, handlers, dialogs, link, kind, passed, stored, orphans>>

\* A callback of the walk adds n files to the manifest and makes calls M; the
\* last one ends the walk.
WalkStep(c, n, M) ==
    LET t == c.of
        w == [work EXCEPT !.downloads = @ \o Entries(t, size[t] + 1, size[t] + n)]
        s == [After(c) EXCEPT !.pending[t] = @ + Cardinality(M)]
    IN /\ size[t] + n <= MaxFiles
       /\ size' = [size EXCEPT ![t] = @ + n]
       /\ IF s.pending[t] = 0 THEN WalkDone(w, s) ELSE Continue(w, M, s)
       /\ UNCHANGED <<tar, handlers, dialogs, link, kind, passed, stored, orphans>>

\* readdirAsync in buildDownloadManifest (directory 0, the parent of what was
\* asked for) and in walkRemoteDirSftp (the folder, 1, and one below, 2).  A
\* folder without filter is listed by find.  A failed listing adds nothing.
ListAnswered(c) ==
    /\ ~cancelled /\ c.op = "list"
    /\ \/ WalkStep(c, 0, {})
       \/ /\ link = "up"
          /\ \E n \in 0..MaxFiles, sub \in BOOLEAN, ignores \in BOOLEAN :
                /\ sub => c.dir < 2
                /\ ignores => c.dir > 0 /\ kind[c.of] = "filtered"
                /\ WalkStep(c, n,
                     (IF sub THEN {Call(IF c.dir = 0 /\ kind[c.of] = "tree" THEN "find" ELSE "list",
                                        c.of, 0, c.dir + 1)} ELSE {})
                     \union (IF ignores THEN {Call("rules", c.of, 0, c.dir)} ELSE {}))

\* walkRemoteDirExec; without find the folder is listed instead.
FindAnswered(c) ==
    /\ ~cancelled /\ c.op = "find"
    /\ \/ WalkStep(c, 0, {Call("list", c.of, 0, c.dir)})
       \/ link = "up" /\ \E n \in 0..MaxFiles : WalkStep(c, n, {})

\* The .gitignore of a listed folder, read or not.
RulesAnswered(c) == ~cancelled /\ c.op = "rules" /\ WalkStep(c, 0, {})

\* probeRemoteTar
ProbeAnswered(c) ==
    /\ ~cancelled /\ c.op = "probe"
    /\ \/ /\ link = "up" /\ tar' = "yes"
          /\ Continue(work, {Call("pack", Owner, 0, 0)}, After(c))
       \/ tar' = "no" /\ DownloadFrom(work.didx, work, After(c))
    /\ UNCHANGED <<handlers, dialogs, link, kind, size, passed, stored, orphans>>

\* onArchiveCreated and streamArchiveToLocal: the archive is read, unless the
\* local file for it cannot be opened; without an archive file by file.
PackAnswered(c) ==
    /\ ~cancelled /\ c.op = "pack"
    /\ \/ /\ link = "up"
          /\ ContinueReading([work EXCEPT !.archive = c.of], Call("stream", c.of, 0, 0), After(c))
          /\ stored' = stored \union {c.of} /\ UNCHANGED orphans
       \/ link = "up" /\ FinishHead("failed", After(c)) /\ UNCHANGED <<stored, orphans>>
       \/ DownloadFrom(work.didx, work, After(c)) /\ LeftBehind(c, stored \ {work.archive})
    /\ UNCHANGED <<tar, handlers, dialogs, link, kind, size, passed>>

\* onArchiveStreamDone
StreamAnswered(c) ==
    /\ ~cancelled /\ c.op = "stream"
    /\ \/ link = "up" /\ Continue(work, {Call("extract", c.of, 0, 0)}, After(c)) /\ UNCHANGED <<stored, orphans>>
       \/ FinishHead("failed", After(c)) /\ stored' = stored \ {work.archive} /\ UNCHANGED orphans
    /\ UNCHANGED <<tar, handlers, dialogs, link, kind, size, passed>>

\* A variant: an archive that cannot be unpacked is read again.
ExtractAnsweredAgain(c) ==
    /\ c.op = "extract"
    /\ \/ /\ work.downloads # <<>>
          /\ passed' = Pass(passed, {work.downloads[i] : i \in 1..Len(work.downloads)})
          /\ FinishHead("completed", After(c)) /\ stored' = stored \ {work.archive} /\ UNCHANGED orphans
       \/ /\ IF cancelled THEN Continue(work, {}, After(c))
             ELSE ContinueReading(work, Call("stream", c.of, 0, 0), After(c))
          /\ UNCHANGED <<passed, stored, orphans>>
    /\ UNCHANGED <<tar, handlers, dialogs, link, kind, size>>

\* The local tar ended: every file is there, or each one is read after all.
\* Its handlers do not look at m_cancelled: a cancel emptied the manifest.
ExtractAnswered(c) ==
    /\ c.op = "extract"
    /\ \/ /\ work.downloads # <<>>
          /\ passed' = Pass(passed, {work.downloads[i] : i \in 1..Len(work.downloads)})
          /\ FinishHead("completed", After(c))
       \/ /\ DownloadFrom(1, [work EXCEPT !.archive = NoTransfer, !.didx = 1], After(c))
          /\ UNCHANGED passed
    /\ stored' = stored \ {work.archive}
    /\ UNCHANGED <<tar, handlers, dialogs, link, kind, size, orphans>>

\* A variant: a read of a cancelled transfer that is answered late counts.
ReadAnsweredLate(c) ==
    /\ c.op = "read"
    /\ passed' = Pass(passed, {<<c.of, c.file>>})
    /\ DownloadFrom(work.didx + 1, work, After(c))
    /\ UNCHANGED <<tar, handlers, dialogs, link, kind, size, stored, orphans>>

\* onFileDownloaded: saved or failed, the next file's turn.
ReadAnswered(c) ==
    /\ ~cancelled /\ c.op = "read"
    /\ passed' = Pass(passed, {<<c.of, c.file>>})
    /\ DownloadFrom(work.didx + 1, work, After(c))
    /\ UNCHANGED <<tar, handlers, dialogs, link, kind, size, stored, orphans>>

\* onConflictReaddir: the files of one directory that exist on the server; the
\* last directory decides.  The menu's handlers open dialogs, a command's
\* handler skips the files or refuses the transfer.
ScanAnswered(c) ==
    /\ ~cancelled /\ c.op = "scan"
    /\ \E C \in SUBSET {work.uploads[i] : i \in 1..Len(work.uploads)} :
          LET w == [work EXCEPT !.scans = @ - 1, !.found = @ \union C]
              ask == w.scans = 0 /\ w.found # {}
              quiet == UNCHANGED <<handlers, dialogs, stored, orphans>>
          IN /\ \A e \in C : DirOf[e[2]] = c.dir /\ link = "up"
             /\ \/ w.scans # 0 /\ Continue(w, {}, After(c)) /\ UNCHANGED passed /\ quiet
                \/ w.scans = 0 /\ w.found = {} /\ UploadFrom(1, w, After(c), passed) /\ quiet
                \/ ask /\ handlers > 0 /\ dialogs' = handlers /\ handlers' = 0
                       /\ Continue(w, {}, After(c)) /\ UNCHANGED <<passed, stored, orphans>>
                \/ ask /\ handlers = 0 /\ kind[Head(queue)] = "skip"
                       /\ UploadFrom(1, [w EXCEPT !.skip = w.found], After(c), passed) /\ quiet
                \/ ask /\ handlers = 0 /\ kind[Head(queue)] = "refuse"
                       /\ CancelAll(After(c)) /\ UNCHANGED <<passed, handlers, dialogs>>
    /\ UNCHANGED <<tar, link, kind, size>>

\* ensureRemoteDir makes the parent, 0, before the directory; an answer of any
\* kind counts as made.  Then the file is read and written.
MkdirAnswered(c) ==
    /\ ~cancelled /\ c.op = "mkdir"
    /\ LET w == [work EXCEPT !.made = @ \union {c.dir}]
       IN \/ /\ c.dir = 0
             /\ Continue(w, {Call("mkdir", c.of, c.file, DirOf[c.file])}, After(c))
             /\ UNCHANGED passed
          \/ /\ c.dir # 0
             /\ Continue(w, {Call("write", c.of, c.file, 0)}, After(c))
             /\ UNCHANGED passed
          \/ c.dir # 0 /\ UploadFrom(w.uidx + 1, w, After(c), Pass(passed, {<<c.of, c.file>>}))
    /\ UNCHANGED <<tar, handlers, dialogs, link, kind, size, stored, orphans>>

\* onFileUploaded
WriteAnswered(c) ==
    /\ ~cancelled /\ c.op = "write"
    /\ UploadFrom(work.uidx + 1, work, After(c), Pass(passed, {<<c.of, c.file>>}))
    /\ UNCHANGED <<tar, handlers, dialogs, link, kind, size, stored, orphans>>

-----------------------------------------------------------------------------
(* The user, the commands and the connection *)

\* downloadFile, downloadRecursive, uploadFiles, uploadFolder.  A command is
\* refused while a transfer runs, and its handler is the only one connected.
Request(t) ==
    /\ outcome[t] = "new"
    /\ kind[t] \in Commands => ~active /\ handlers = 0
    /\ MayOverlap \/ active \/ (calls = {} /\ dialogs = 0)
    /\ handlers' = IF kind[t] = "menu" THEN handlers + 1 ELSE handlers
    /\ IF active
       THEN /\ queue' = Append(queue, t) /\ outcome' = [outcome EXCEPT ![t] = "queued"]
            /\ UNCHANGED <<active, cancelled, work, reading, pending, calls>>
       ELSE StartNext(Append(queue, t), Now, [outcome EXCEPT ![t] = "queued"])
    /\ UNCHANGED <<tar, dialogs, link, kind, size, passed, stored, orphans>>

Cancel ==
    /\ active /\ dialogs = 0
    /\ CancelAll(Now)
    /\ UNCHANGED <<tar, handlers, dialogs, link, kind, size, passed>>

\* The conflict dialog is accepted with some of the files to be skipped:
\* resolveUploadConflicts applies to the head.
Accept ==
    /\ dialogs > 0 /\ dialogs' = dialogs - 1
    /\ IF cancelled \/ queue = <<>>
       THEN Continue(work, {}, Now) /\ UNCHANGED passed
       ELSE \E S \in SUBSET work.found : UploadFrom(1, [work EXCEPT !.skip = S], Now, passed)
    /\ UNCHANGED <<tar, handlers, link, kind, size, stored, orphans>>

\* The conflict dialog is dismissed: nobody tells the manager.
Dismiss ==
    /\ dialogs > 0 /\ dialogs' = dialogs - 1
    /\ UNCHANGED <<manager, calls, handlers, link, history>>

LinkDrops ==
    /\ link = "up" /\ link' = "down"
    /\ UNCHANGED <<manager, calls, handlers, dialogs, history>>

\* onConnectionLost; the calls in flight fail before or after it.
ConnectionLost ==
    /\ link = "down" /\ link' = "told"
    /\ IF active
       THEN DropQueue("lost")
       ELSE UNCHANGED <<queue, active, cancelled, outcome, work>>
    /\ UNCHANGED <<reading, tar, pending, calls, handlers, dialogs, kind, size, passed, stored, orphans>>

Answered(c) ==
    \/ AnsweredCancelled(c) \/ ListAnswered(c) \/ FindAnswered(c) \/ RulesAnswered(c)
    \/ ProbeAnswered(c) \/ PackAnswered(c) \/ StreamAnswered(c) \/ ExtractAnswered(c)
    \/ ReadAnswered(c) \/ ScanAnswered(c) \/ MkdirAnswered(c) \/ WriteAnswered(c)

Next ==
    \/ \E t \in Transfers : Request(t)
    \/ \E c \in calls : Answered(c)
    \/ Cancel \/ Accept \/ Dismiss \/ LinkDrops \/ ConnectionLost

\* RemoteFsBackend answers every call, exec has a timeout, the user closes the
\* dialog and a lost connection is reported.
Spec ==
    /\ Init /\ [][Next]_vars
    /\ WF_vars(\E c \in calls : Answered(c))
    /\ WF_vars(Accept \/ Dismiss)
    /\ WF_vars(ConnectionLost)

-----------------------------------------------------------------------------
(* Properties *)

TypeOK ==
    /\ queue \in Seq(Transfers) /\ active \in BOOLEAN /\ cancelled \in BOOLEAN
    /\ work.didx \in Nat /\ work.uidx \in Nat /\ work.scans \in Int
    /\ work.archive \in Transfers \union {NoTransfer}
    /\ tar \in {"unknown", "yes", "no"} /\ link \in {"up", "down", "told"}
    /\ pending \in [Transfers -> Int]
    /\ \A c \in calls : c.op \in Ops /\ c.of \in Transfers \union {NoTransfer}
    /\ handlers \in Nat /\ dialogs \in Nat
    /\ outcome \in [Transfers -> {"new", "queued", "completed", "failed", "cancelled", "lost"}]
    /\ passed \in [Transfers -> [1..MaxFiles -> Nat]]
    /\ orphans \subseteq stored /\ stored \subseteq Transfers

CallsOf(t) == {c \in calls : c.of = t}

\* A transfer reported as completed was done with each of its files exactly
\* once, and nothing of it is still under way: neither a late callback, nor a
\* second pass after a fall-back or a dialog, skips a file or takes it twice.
CompletedWhole ==
    \A t \in Transfers :
        outcome[t] = "completed" =>
            /\ \A k \in 1..size[t] : passed[t][k] = 1
            /\ CallsOf(t) = {}

\* The counter shared by the callbacks of a walk is the number of its calls in
\* flight, so the walk ends with its last answer and only once.
PendingExact ==
    \A t \in Transfers : pending[t] = Cardinality({c \in CallsOf(t) : c.op \in WalkOps})

\* The head walks, or scans, or does one thing at a time: no file moves before
\* the walk and the conflict scan are complete, nor two of them at once.
OneThingAtATime ==
    \A t \in Transfers : \A c, d \in CallsOf(t) :
        c # d => \/ c.op \in WalkOps /\ d.op \in WalkOps
                 \/ c.op = "scan" /\ d.op = "scan"

\* A running transfer always waits for something: an answer, or a dialog that
\* was opened for its conflicts (which may have been dismissed).
NeverForgotten ==
    active =>
        /\ queue # <<>>
        /\ \/ CallsOf(Head(queue)) # {}
           \/ kind[Head(queue)] = "menu" /\ work.found # {}

\* While connected, every archive on the server is the one the head is reading or
\* unpacking, except those of packs that failed or were answered to a cancelled
\* manager (onArchiveCreated): of these it never took down the path, and they stay.
ArchiveRemoved ==
    link = "up" => \A t \in stored \ orphans :
        /\ active /\ Head(queue) = t /\ work.archive = t
        /\ \E c \in calls : c.op \in {"stream", "extract"}

\* "one active transfer at a time": what is answered to one transfer's call
\* leaves the queue and the progress of another alone.
AnswerStaysHome ==
    [][\A c \in calls \ calls' :
          active /\ Head(queue) # c.of => UNCHANGED <<queue, work>>]_vars

\* The transfers are a queue of jobs as JobQueue promises it: files are done for
\* the head alone, none twice, no late callback touches a transfer that ended,
\* and a transfer ends once, in the order of the requests.
AsJobs == INSTANCE JobQueue WITH
    Jobs <- Transfers, MaxParts <- MaxFiles,
    jobs <- queue, result <- outcome, parts <- size, done <- passed
KeepsJobOrder == AsJobs!Spec

\* Every requested transfer ends, whatever fails on its way, unless the user
\* dismisses the conflict dialog: then the queue stands until it is cancelled.
Dismissed == active /\ kind[Head(queue)] = "menu" /\ work.found # {} /\ calls = {} /\ dialogs = 0
EveryTransferEnds ==
    \A t \in Transfers : outcome[t] = "queued" ~> outcome[t] # "queued" \/ Dismissed
=============================================================================
