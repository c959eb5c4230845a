----------------------------- MODULE Admission -----------------------------
(***************************************************************************)
(* What a service with few places promises its clients, of whom the long   *)
(* ones may stay for ever: each waits in the line of its class and comes   *)
(* in from the front of it, nobody overtakes; there are never more inside  *)
(* than places, nor more long ones than theirs; while the service is up no *)
(* place stays free for which somebody waits, and a short one comes first. *)
(***************************************************************************)
EXTENDS Integers, SequencesExt

CONSTANTS
    Shorts, Longs,   \* the clients, by class
    Places,          \* places in all
    LongPlaces       \* of which so many may be taken by long ones

VARIABLES
    up,                    \* the service takes clients in
    standing,              \* of each client: "new", "waiting", "inside" or "gone"
    shortLine, longLine    \* those who wait to be taken in

vars == <<up, standing, shortLine, longLine>>

Clients == Shorts \union Longs
Inside(st) == {c \in Clients : st[c] = "inside"}

Init ==
    /\ up = FALSE
    /\ standing = [c \in Clients |-> "new"]
    /\ shortLine = <<>> /\ longLine = <<>>

Crowded(st) == Cardinality(Inside(st)) >= Places
LongCrowded(st) == Cardinality(Inside(st) \intersect Longs) >= LongPlaces
Fits(st) ==
    /\ Cardinality(Inside(st)) <= Places
    /\ Cardinality(Inside(st) \intersect Longs) <= LongPlaces

\* The first of each line come in: as many as fit, short ones before long ones.
Admit(st, sl, ll) ==
    \E n \in 0..Len(sl), m \in 0..Len(ll) :
        /\ standing' = [c \in Clients |-> IF c \in ToSet(SubSeq(sl, 1, n)) \union ToSet(SubSeq(ll, 1, m))
                                          THEN "inside" ELSE st[c]]
        /\ shortLine' = SubSeq(sl, n + 1, Len(sl))
        /\ longLine' = SubSeq(ll, m + 1, Len(ll))
        /\ Fits(standing')
        /\ n < Len(sl) => m = 0 /\ Crowded(standing')
        /\ m < Len(ll) => Crowded(standing') \/ LongCrowded(standing')

Serve(st, sl, ll) ==
    IF up' THEN Admit(st, sl, ll)
    ELSE standing' = st /\ shortLine' = sl /\ longLine' = ll

Joined(line, S, c) == IF c \in S THEN Append(line, c) ELSE line
Without(line, c) ==
    IF \E i \in 1..Len(line) : line[i] = c
    THEN RemoveAt(line, CHOOSE i \in 1..Len(line) : line[i] = c)
    ELSE line
Left(st, L) == [c \in Clients |-> IF c \in L THEN "gone" ELSE st[c]]

\* Some who were inside leave, one client may come or give up, and the places
\* are given out.
Turn ==
    /\ up => up'
    /\ \E L \in SUBSET Inside(standing) :
          \/ Serve(Left(standing, L), shortLine, longLine)
          \/ \E c \in Clients :
                /\ standing[c] = "new"
                /\ Serve([Left(standing, L) EXCEPT ![c] = "waiting"],
                         Joined(shortLine, Shorts, c), Joined(longLine, Longs, c))
          \/ \E c \in Clients :
                /\ standing[c] = "waiting"
                /\ Serve([Left(standing, L) EXCEPT ![c] = "gone"],
                         Without(shortLine, c), Without(longLine, c))

\* A client that comes while the service is down is sent away.
Refuse(c) ==
    /\ ~up /\ standing[c] = "new"
    /\ standing' = [standing EXCEPT ![c] = "gone"]
    /\ UNCHANGED <<up, shortLine, longLine>>

\* The service goes down: the lines are dissolved and short clients sent away.
Close ==
    /\ up' = FALSE /\ shortLine' = <<>> /\ longLine' = <<>>
    /\ \E L \in SUBSET {c \in Clients : standing[c] # "new"} :
          /\ {c \in Shorts : standing[c] # "new"} \subseteq L
          /\ standing' = Left(standing, L)

Next == Turn \/ (\E c \in Clients : Refuse(c)) \/ Close

Spec == Init /\ [][Next]_vars
=============================================================================
