----------------------------- MODULE AsyncCalls -----------------------------
(***************************************************************************)
(* What an asynchronous file API promises its callers, whatever lies       *)
(* behind it: a callback is invoked only after its call, at most once, and *)
(* not after a cancel, except for the calls whose cancel is best effort.   *)
(***************************************************************************)
EXTENDS Integers

CONSTANTS
    Calls,       \* the calls that may be made
    BestEffort   \* calls that may be answered although cancelled

VARIABLES
    called,      \* calls made
    cancelled,   \* calls cancelled
    answers      \* how often each call was answered

vars == <<called, cancelled, answers>>

Init ==
    /\ called = {} /\ cancelled = {}
    /\ answers = [c \in Calls |-> 0]

AnswerAll(S) == answers' = [c \in Calls |-> IF c \in S THEN answers[c] + 1 ELSE answers[c]]

\* A call, answered on the spot or later.
Call(c) ==
    /\ c \notin called
    /\ called' = called \union {c}
    /\ UNCHANGED cancelled
    /\ AnswerAll({}) \/ AnswerAll({c})

Cancel(c) ==
    /\ c \in called \ cancelled /\ answers[c] = 0
    /\ cancelled' = cancelled \union {c}
    /\ UNCHANGED <<called, answers>>

\* One event may answer several calls: a lost connection fails them all.
Answer(S) ==
    /\ S \subseteq called
    /\ S \cap cancelled \subseteq BestEffort
    /\ \A c \in S : answers[c] = 0
    /\ AnswerAll(S)
    /\ UNCHANGED <<called, cancelled>>

Next ==
    \/ \E c \in Calls : Call(c) \/ Cancel(c)
    \/ \E S \in SUBSET Calls : Answer(S)

Spec == Init /\ [][Next]_vars
=============================================================================
