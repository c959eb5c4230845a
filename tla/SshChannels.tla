----------------------------- MODULE SshChannels -----------------------------
(***************************************************************************)
(* Channel admission of SshSessionWorker (src/src/remote): terminals (PTY  *)
(* channels) and remote commands (exec operations) compete for the         *)
(* channels of one SSH session.  An opener waits on one of two queues, is  *)
(* admitted under a budget, asks the server for a channel, backs off when  *)
(* the server refuses (ChannelBusy), sets the channel up and runs until    *)
(* its end or a cancel.                                                    *)
(*                                                                         *)
(* The worker has a thread of its own: every action is one slot, request   *)
(* or timer of it.  A slot visits many openers; a channel open and the     *)
(* start of a command each take a round trip, so one slot moves an opener  *)
(* by at most one phase.  The two SFTP channels are outside the dynamic    *)
(* budget and are modelled in SftpLanes.                                   *)
(***************************************************************************)
EXTENDS Integers, SequencesExt

CONSTANTS
    Ptys,          \* terminals the application opens, each at most once
    LongExecs,     \* requestExec with ExecKind::LongLived (agents)
    ShortExecs,    \* requestExec with ExecKind::ShortLived (git)
    ChannelCap,    \* m_channelCap
    SftpReserved,  \* kSftpReserved
    MaxLongLived,  \* kMaxLongLived
    MaxConnects    \* bound on startConnect

Execs == LongExecs \union ShortExecs
LongLived == Ptys \union LongExecs
Openers == Ptys \union Execs

ASSUME OpenersAssumption ==
    /\ IsFiniteSet(Openers)
    /\ Ptys \intersect Execs = {} /\ LongExecs \intersect ShortExecs = {}
ASSUME BudgetAssumption ==
    /\ ChannelCap \in Nat \ {0} /\ SftpReserved \in Nat
    /\ MaxLongLived \in Nat \ {0} /\ MaxConnects \in Nat

VARIABLES
    session,     \* "idle", "connecting", "ready" or "down"
    phase,       \* where each opener stands
    shortQueue,  \* m_shortQueue
    longQueue,   \* m_longQueue
    timer,       \* m_maintenanceTimer is active
    closing,     \* the transport has closes to finish (m_closingChannels)
    connects     \* number of startConnect so far

vars == <<session, phase, shortQueue, longQueue, timer, closing, connects>>

\* "opening": admitted; "waiting" and "due" are its back-off, before and after
\* nextRetryMs.  "deadsetup" and "deadopen": the channel belonged to a session
\* that requestDisconnect has closed.  "gone": reported closed, failed or done,
\* or cancelled.
Asking == {"opening", "due"}
Held   == {"setup", "open"}
Dead   == {"deadsetup", "deadopen"}
Live   == Asking \union {"waiting"} \union Held \union Dead
Phases == {"new", "queued", "gone"} \union Live

At(ph, S) == {o \in Openers : ph[o] \in S}

-----------------------------------------------------------------------------
(* admitPending *)

dynamicBudget == IF ChannelCap > SftpReserved THEN ChannelCap - SftpReserved ELSE ChannelCap

\* A variant: no slot is kept back for short-lived commands.
noShortReserve == dynamicBudget
maxLong == IF dynamicBudget > MaxLongLived THEN MaxLongLived ELSE dynamicBudget

liveDynamicCount(ph) == Cardinality(At(ph, Live))
liveLongLivedCount(ph) == Cardinality(At(ph, Live) \intersect LongLived)

AtLeastZero(n) == IF n > 0 THEN n ELSE 0

\* How many of each queue the two passes take: short-lived ones first, in any
\* free slot, then long-lived ones up to maxLong.
admittedShort(ph, sq) == Min({Len(sq), AtLeastZero(dynamicBudget - liveDynamicCount(ph))})
\* (A variant of the second pass does not count what the first one took.)
admittedLongUnderFree(ph, sq, lq) ==
    Min({Len(lq),
         AtLeastZero(dynamicBudget - liveDynamicCount(ph)),
         AtLeastZero(maxLong - liveLongLivedCount(ph))})
admittedLong(ph, sq, lq) ==
    Min({Len(lq),
         AtLeastZero(dynamicBudget - liveDynamicCount(ph) - admittedShort(ph, sq)),
         AtLeastZero(maxLong - liveLongLivedCount(ph))})

\* (\E ph: TLC evaluates `after` once.)
admitPending(after, sq, lq) ==
    \E ph \in {after} :
        LET n == admittedShort(ph, sq)
            m == admittedLong(ph, sq, lq)
            admitted == ToSet(SubSeq(sq, 1, n)) \union ToSet(SubSeq(lq, 1, m))
        IN  /\ phase' = [o \in Openers |-> IF o \in admitted THEN "opening" ELSE ph[o]]
            /\ shortQueue' = SubSeq(sq, n + 1, Len(sq))
            /\ longQueue' = SubSeq(lq, m + 1, Len(lq))

-----------------------------------------------------------------------------
(* advanceChannelSetup, readSweep and serviceExec *)

\* What a sweep over V did: openers that ended (failed, closed by the remote),
\* that the server refused or granted a channel, that were started.
Sweeps(ph, V) ==
    {[ended |-> e, refused |-> r, granted |-> g, started |-> s] :
        e \in SUBSET (V \intersect At(ph, Asking \union Held)),
        r \in SUBSET (V \intersect At(ph, Asking)),
        g \in SUBSET (V \intersect At(ph, Asking)),
        s \in SUBSET {o \in V : ph[o] = "setup"}}

Possible(w) ==
    /\ w.ended \intersect (w.refused \union w.granted \union w.started) = {}
    /\ w.refused \intersect w.granted = {}

Swept(ph, w) ==
    [o \in Openers |-> CASE o \in w.ended   -> "gone"
                         [] o \in w.refused -> "waiting"
                         [] o \in w.granted -> "setup"
                         [] o \in w.started -> "open"
                         [] OTHER           -> ph[o]]

\* closeChannel of `closed`: the handshake may be deferred; a pump may finish
\* the deferred ones.
CloseChannels(closed, pumped) ==
    /\ closing' => closing \/ closed # {}
    /\ closing /\ ~pumped => closing'
WithChannel(ph, S) == S \intersect At(ph, Held)

\* advanceChannelSetup and readSweep end what they visit, serviceExec too; the
\* freed slots are given out.  Arms the timer for a refusal.
\*  pump: everything is visited, deferred closes are pumped and keep the timer.
pump(ph, sq, lq) ==
    \E w \in Sweeps(ph, Openers) :
        /\ Possible(w)
        /\ admitPending(Swept(ph, w), sq, lq)
        /\ closing' \in BOOLEAN
        /\ CloseChannels(WithChannel(ph, w.ended), TRUE)
        /\ timer' = (timer \/ w.refused # {} \/ closing')

\* serviceExec on its own: only commands, and no look at deferred closes.
serviceExec(ph, sq, lq) ==
    \E w \in Sweeps(ph, Execs) :
        /\ Possible(w)
        /\ admitPending(Swept(ph, w), sq, lq)
        /\ closing' \in BOOLEAN
        /\ CloseChannels(WithChannel(ph, w.ended), FALSE)
        /\ timer' = (timer \/ w.refused # {})

-----------------------------------------------------------------------------
Init ==
    /\ session = "idle"
    /\ phase = [o \in Openers |-> "new"]
    /\ shortQueue = <<>> /\ longQueue = <<>>
    /\ timer = FALSE /\ closing = FALSE
    /\ connects = 0

-----------------------------------------------------------------------------
(* Requests *)

\* requestOpenChannel and requestExec without a session to come: refused.
RequestRefused(o) ==
    /\ phase[o] = "new" /\ session = "down"
    /\ phase' = [phase EXCEPT ![o] = "gone"]
    /\ UNCHANGED <<session, shortQueue, longQueue, timer, closing, connects>>

\* requestOpenChannel.
requestOpenChannel(p) ==
    /\ phase[p] = "new" /\ session # "down"
    /\ LET ph == [phase EXCEPT ![p] = "queued"]
           lq == Append(longQueue, p)
       IN  \/ /\ session = "ready"
              /\ pump(ph, shortQueue, lq)
           \/ /\ session # "ready"
              /\ phase' = ph /\ longQueue' = lq
              /\ UNCHANGED <<shortQueue, timer, closing>>
    /\ UNCHANGED <<session, connects>>

\* The sub-queues with command x appended to the one of its kind.
\* (A variant puts it at the front.)
EnqueueAhead(x) ==
    IF x \in ShortExecs THEN [short |-> <<x>> \o shortQueue, long |-> longQueue]
                        ELSE [short |-> shortQueue, long |-> <<x>> \o longQueue]
Enqueue(x) ==
    IF x \in ShortExecs THEN [short |-> Append(shortQueue, x), long |-> longQueue]
                        ELSE [short |-> shortQueue, long |-> Append(longQueue, x)]

\* requestExec.
requestExec(x) ==
    /\ phase[x] = "new" /\ session # "down"
    /\ LET ph == [phase EXCEPT ![x] = "queued"]
           sq == Enqueue(x).short
           lq == Enqueue(x).long
       IN  \/ /\ session = "ready"
              /\ serviceExec(ph, sq, lq)
           \/ /\ session # "ready"
              /\ phase' = ph /\ shortQueue' = sq /\ longQueue' = lq
              /\ UNCHANGED <<timer, closing>>
    /\ UNCHANGED <<session, connects>>

\* requestExecWrite: any input for a command services all of them.
requestExecWrite ==
    /\ session = "ready"
    /\ \E x \in Execs : phase[x] \in {"queued"} \union Live
    /\ serviceExec(phase, shortQueue, longQueue)
    /\ UNCHANGED <<session, connects>>

\* removeAt of the match: an opener is queued once (QueuesExact).
IndexOf(q, o) == CHOOSE i \in 1 .. Len(q) : q[i] = o
Without(q, o) == IF o \in ToSet(q) THEN RemoveAt(q, IndexOf(q, o)) ELSE q

\* A variant: the freed slot is not given out.
requestExecCancelKeepsSlot(x) ==
    /\ phase[x] \in {"queued"} \union Live
    /\ phase' = [phase EXCEPT ![x] = "gone"]
    /\ shortQueue' = Without(shortQueue, x) /\ longQueue' = Without(longQueue, x)
    /\ UNCHANGED <<session, timer, closing, connects>>

\* requestExecCancel: no answer; the freed slot is given out, nobody is visited.
requestExecCancel(x) ==
    /\ phase[x] \in {"queued"} \union Live
    /\ LET ph == [phase EXCEPT ![x] = "gone"]
           sq == Without(shortQueue, x)
           lq == Without(longQueue, x)
       IN  IF session = "ready"
             THEN admitPending(ph, sq, lq)
             ELSE phase' = ph /\ shortQueue' = sq /\ longQueue' = lq
    /\ closing' \in BOOLEAN
    /\ CloseChannels(WithChannel(phase, {x}), FALSE)
    /\ timer' = (timer \/ closing')
    /\ UNCHANGED <<session, connects>>

\* requestCloseChannel: finishChannel, which sweeps the channels being set up
\* and the commands when it has a session.
requestCloseChannel(p) ==
    /\ phase[p] \in {"queued"} \union Live
    /\ LET ph == [phase EXCEPT ![p] = "gone"]
           lq == Without(longQueue, p)
       IN  \/ /\ session = "ready"
              /\ \E w \in Sweeps(ph, Openers \ {q \in Ptys : ph[q] = "open"}) :
                    /\ Possible(w)
                    /\ admitPending(Swept(ph, w), shortQueue, lq)
                    /\ closing' \in BOOLEAN
                    /\ CloseChannels(WithChannel(phase, w.ended \union {p}), FALSE)
                    /\ timer' = (timer \/ w.refused # {} \/ closing')
           \/ /\ session # "ready"
              /\ phase' = ph /\ longQueue' = lq
              /\ UNCHANGED <<shortQueue, timer, closing>>
    /\ UNCHANGED <<session, connects>>

-----------------------------------------------------------------------------
(* The session *)

\* startConnect, by a caller that saw no session (SshConnectDialog, the context
\* registry).  What m_channels holds from an earlier session stays.
startConnect ==
    /\ session \in {"idle", "down"}
    /\ connects < MaxConnects
    /\ connects' = connects + 1
    /\ session' = "connecting"
    /\ timer' = TRUE
    /\ UNCHANGED <<phase, shortQueue, longQueue, closing>>

\* advanceConnect reaches Ready and the pump goes on.  Setting up a channel of
\* the closed session fails; reading one loses the new session (Lost).
Connected ==
    /\ session = "connecting"
    /\ At(phase, {"deadopen"}) = {}
    /\ session' = "ready"
    /\ \E w \in Sweeps(phase, Openers) :
        /\ Possible(w)
        /\ admitPending([o \in Openers |-> IF phase[o] = "deadsetup" THEN "gone"
                                           ELSE Swept(phase, w)[o]], shortQueue, longQueue)
        /\ timer' = (w.refused # {})
    /\ UNCHANGED <<closing, connects>>

\* requestDisconnect: commands and queues are failed and emptied; terminals
\* keep their phase, without a channel.
requestDisconnect ==
    /\ session # "down"
    /\ session' = "down"
    /\ phase' = [o \in Openers |->
         CASE o \in Execs /\ phase[o] # "new" -> "gone"
           [] o \in Ptys /\ phase[o] = "setup" -> "deadsetup"
           [] o \in Ptys /\ phase[o] = "open"  -> "deadopen"
           [] OTHER -> phase[o]]
    /\ shortQueue' = <<>> /\ longQueue' = <<>>
    /\ timer' = FALSE /\ closing' = FALSE
    /\ UNCHANGED connects

\* A variant: the queues survive the session.
connectionLostKeepsQueues ==
    /\ session' = "down"
    /\ phase' = [o \in Openers |-> IF phase[o] = "new" THEN "new" ELSE "gone"]
    /\ timer' = FALSE /\ closing' = FALSE
    /\ UNCHANGED <<shortQueue, longQueue, connects>>

\* enterConnectionLost: everything is reported and emptied.
enterConnectionLost ==
    /\ session' = "down"
    /\ phase' = [o \in Openers |-> IF phase[o] = "new" THEN "new" ELSE "gone"]
    /\ shortQueue' = <<>> /\ longQueue' = <<>>
    /\ timer' = FALSE /\ closing' = FALSE
    /\ UNCHANGED connects

\* A read, write, keepalive, connect or time limit fails.
Lost == session \in {"connecting", "ready"} /\ enterConnectionLost

\* requestWrite to a terminal of the closed session: the write fails.
WriteToDead == At(phase, {"deadopen"}) # {} /\ enterConnectionLost

-----------------------------------------------------------------------------
(* Wake-ups *)

\* onSocketActivity: a pump, then the commands once more; their closes may be
\* deferred with no one to arm the timer.
SocketSweep(w) ==
    /\ Possible(w)
    /\ admitPending(Swept(phase, w), shortQueue, longQueue)
    /\ closing' \in BOOLEAN
    /\ CloseChannels(WithChannel(phase, w.ended), TRUE)
    /\ \/ timer' = (timer \/ w.refused # {} \/ closing')
       \/ /\ WithChannel(phase, w.ended) \intersect Execs # {}
          /\ timer' = (timer \/ w.refused # {})
    /\ UNCHANGED <<session, connects>>

SocketActivity == session = "ready" /\ \E w \in Sweeps(phase, Openers) : SocketSweep(w)

\* nextRetryMs of an opener is reached.
BackoffElapsed(o) ==
    /\ phase[o] = "waiting"
    /\ phase' = [phase EXCEPT ![o] = "due"]
    /\ UNCHANGED <<session, shortQueue, longQueue, timer, closing, connects>>

\* What onMaintenanceTick does after its sweep: pump the deferred closes, and
\* go on for a retry that is due or a close that is pending.
KeepTicking(closed) ==
    /\ closing' \in BOOLEAN
    /\ CloseChannels(closed, TRUE)
    /\ timer' = (At(phase', {"due"}) # {} \/ closing')
    /\ UNCHANGED <<session, connects>>

\* onMaintenanceTick on a session that is up, with a retry due (hasBackoffReady)
\* and without.
TickRetries ==
    /\ timer /\ session = "ready"
    /\ At(phase, {"due"}) # {}
    /\ \E w \in Sweeps(phase, Openers \ {p \in Ptys : phase[p] = "open"}) :
        /\ Possible(w)
        /\ admitPending(Swept(phase, w), shortQueue, longQueue)
        /\ KeepTicking(WithChannel(phase, w.ended))

TickIdle ==
    /\ timer /\ session = "ready"
    /\ At(phase, {"due"}) = {}
    /\ UNCHANGED <<phase, shortQueue, longQueue>>
    /\ KeepTicking({})

-----------------------------------------------------------------------------
Requests ==
    \/ \E o \in Openers : RequestRefused(o)
    \/ \E p \in Ptys : requestOpenChannel(p) \/ requestCloseChannel(p)
    \/ \E x \in Execs : requestExec(x) \/ requestExecCancel(x)
    \/ requestExecWrite
    \/ startConnect \/ requestDisconnect \/ WriteToDead

Events ==
    \/ Connected \/ Lost
    \/ SocketActivity \/ TickRetries \/ TickIdle
    \/ \E o \in Openers : BackoffElapsed(o)

Next == Requests \/ Events

Spec == Init /\ [][Next]_vars

(***************************************************************************)
(* Fairness.  A keepalive goes out every 15 s and its reply is a readable  *)
(* edge, so an idle session still has socket activity; a nextRetryMs is    *)
(* reached.  For a short-lived command the server is assumed to grant a    *)
(* channel that is asked for again and again, to start it, and to end it,  *)
(* each with an edge of its own.  Nothing is assumed about terminals and   *)
(* agents: they may wait, or run, for ever.                                *)
(***************************************************************************)
Alone(granted, started, ended) ==
    SocketSweep([ended |-> ended, refused |-> {}, granted |-> granted, started |-> started])

Progress(x) ==
    /\ session = "ready"
    /\ \/ phase[x] \in Asking /\ Alone({x}, {}, {})
       \/ phase[x] = "setup" /\ Alone({}, {x}, {})
       \/ phase[x] = "open" /\ Alone({}, {}, {x})

Fairness == \A x \in ShortExecs : SF_vars(Progress(x)) /\ WF_vars(BackoffElapsed(x))

FairSpec == Spec /\ Fairness

-----------------------------------------------------------------------------
(* Properties *)

\* The type invariant.
TypeOK ==
    /\ session \in {"idle", "connecting", "ready", "down"}
    /\ phase \in [Openers -> Phases]
    /\ shortQueue \in Seq(ShortExecs) /\ longQueue \in Seq(LongLived)
    /\ timer \in BOOLEAN /\ closing \in BOOLEAN
    /\ connects \in 0 .. MaxConnects

\* "Total cap: PTY + exec + SFTP combined": the channels held or asked for leave
\* kSftpReserved slots, and long-lived ones leave the short-lived reserve, after
\* every path that admits, and across a disconnect and reconnect that leaves
\* terminals of the old session in m_channels.
BudgetRespected ==
    /\ liveDynamicCount(phase) <= dynamicBudget
    /\ liveLongLivedCount(phase) <= maxLong

\* On a session that is up no opener waits for a slot that is free: every path
\* that frees one gives it out ("A freed slot may let a queued open proceed").
NoIdleSlot ==
    session = "ready" =>
        /\ shortQueue # <<>> => liveDynamicCount(phase) >= dynamicBudget
        /\ longQueue # <<>> => \/ liveDynamicCount(phase) >= dynamicBudget
                               \/ liveLongLivedCount(phase) >= maxLong

\* The queues hold exactly the commands that wait, once each, and no opener
\* that was closed, cancelled or admitted meanwhile (m_execOps, m_channels and
\* the two queues are kept in step by hand).
QueuesExact ==
    LET waiting == shortQueue \o longQueue
    IN  /\ IsInjective(waiting)
        /\ \A o \in ToSet(waiting) : phase[o] = "queued"
        /\ \A x \in Execs : phase[x] = "queued" => x \in ToSet(waiting)

\* Terminals, agents and commands are clients of a service as Admission promises
\* it: through every request, sweep, cancel, loss and reconnect each class is let
\* in in the order of its requests, short-lived commands first, in no more
\* channels than there are and as soon as there is one.
Standing(ph) ==
    [o \in Openers |-> CASE ph[o] = "new" -> "new" [] ph[o] = "queued" -> "waiting"
                         [] ph[o] = "gone" -> "gone" [] OTHER -> "inside"]
Service == INSTANCE Admission WITH
    Shorts <- ShortExecs, Longs <- LongLived, Places <- dynamicBudget, LongPlaces <- maxLong,
    up <- session = "ready", standing <- Standing(phase),
    shortLine <- shortQueue, longLine <- longQueue
AdmitsInOrder == Service!Spec

\* "short-lived reserve ... always available for short-lived": terminals and
\* agents that never end do not keep a short-lived command waiting.
ShortNeverStarves ==
    \A x \in ShortExecs :
        phase[x] = "queued" /\ session = "ready"
            ~> phase[x] # "queued" \/ session # "ready"

=============================================================================
