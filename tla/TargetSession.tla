--------------------------- MODULE TargetSession ---------------------------
(***************************************************************************)
(* What a supervisor may count on at the connection it watches, and all it *)
(* sees of it: whether a turn runs, whether background work is left or its *)
(* grace period runs, and what waits for the session.  AcpTurn shows that  *)
(* a connection keeps to it, GoalSupervisor is built on its steps: what is *)
(* checked and proved of the one therefore holds next to the other.        *)
(***************************************************************************)

VARIABLES
    alive,      \* the agent process runs
    session,    \* the session is established
    pending,    \* prompts wait for the session
    processing, \* a turn is running
    background  \* hasPendingBackgroundWork: "none", "tasks", "grace"

vars == <<alive, session, pending, processing, background>>

Init ==
    /\ alive = TRUE
    /\ session \in BOOLEAN /\ processing \in BOOLEAN
    /\ processing => session
    /\ pending = FALSE /\ background = "none"

\* A turn that starts stops the grace timer: its end will be heard instead.
TurnStarts ==
    /\ processing' = TRUE
    /\ background' = IF background = "grace" /\ ~processing THEN "none" ELSE background
    /\ UNCHANGED <<session, pending>>

\* A prompt is handed over.
Deliver ==
    IF session THEN TurnStarts
               ELSE pending' = TRUE /\ UNCHANGED <<session, processing, background>>

\* The session is up and what waited for it goes out.
Ready ==
    /\ alive /\ ~session
    /\ session' = TRUE /\ pending' = FALSE /\ processing' = pending
    /\ UNCHANGED background

\* The agent starts a turn of its own.
Wake == alive /\ session /\ ~processing /\ TurnStarts

\* promptEnded.
End ==
    /\ processing /\ processing' = FALSE
    /\ UNCHANGED <<session, pending, background>>

TasksStart ==
    /\ alive /\ session
    /\ background' = "tasks"
    /\ UNCHANGED <<session, pending, processing>>

\* Work that ends leaves a grace period in which the agent may go on.
TasksFinish ==
    /\ alive /\ background = "tasks" /\ background' = "grace"
    /\ UNCHANGED <<session, pending, processing>>

\* backgroundIdle.
GraceOver ==
    /\ background = "grace" /\ background' = "none"
    /\ UNCHANGED <<session, pending, processing>>

\* The process ends, and with it a running turn and all background work.
Exit ==
    /\ alive
    /\ background' = "none" /\ processing' = FALSE
    /\ UNCHANGED <<session, pending>>

Next ==
    \/ /\ UNCHANGED alive
       /\ Deliver \/ Ready \/ Wake \/ End \/ TasksStart \/ TasksFinish \/ GraceOver
    \/ alive' = FALSE /\ Exit

Spec == Init /\ [][Next]_vars
=============================================================================
