----------------------------- MODULE GoalCourse -----------------------------
(***************************************************************************)
(* What a goal of several criteria promises, whoever works and whoever     *)
(* judges: the criteria are taken one after the other and none twice; each *)
(* is worked on in rounds that a judge ends, never more of them than the   *)
(* cap; only a judge's word moves the goal on; it is achieved at the last  *)
(* criterion and nowhere else; when it has ended it stays as it ended.     *)
(***************************************************************************)
EXTENDS Naturals

CONSTANTS
    Criteria,   \* how many criteria the goal has
    Rounds      \* the cap: rounds spent on one criterion

VARIABLES
    stage,   \* "idle", "active", or how the goal ended
    phase,   \* while it is active: "working", "judging" or "handing" over to the next criterion
    at,      \* the criterion in work
    round,   \* rounds of that criterion that were judged and sent back
    asked    \* how often a judge was asked

vars == <<stage, phase, at, round, asked>>

Init == stage = "idle" /\ phase = "none" /\ at = 1 /\ round = 0 /\ asked = 0

Active == stage = "active"

\* The goal starts; what is there already may be judged at once.
Begin ==
    /\ stage = "idle" /\ stage' \in {"active", "failed"}
    /\ IF stage' = "failed" THEN UNCHANGED phase ELSE phase' \in {"working", "judging"}
    /\ asked' = (IF phase' = "judging" THEN asked + 1 ELSE asked)
    /\ UNCHANGED <<at, round>>

Judge ==
    /\ Active /\ phase = "working" /\ phase' = "judging"
    /\ asked' = asked + 1
    /\ UNCHANGED <<stage, at, round>>

SameCriterion == UNCHANGED <<at, round>>
NextRound == phase = "judging" /\ round + 1 < Rounds /\ round' = round + 1 /\ UNCHANGED at
NextCriterion ==
    /\ phase \in {"judging", "handing"} /\ at < Criteria
    /\ at' = at + 1 /\ round' = 0

\* One more round, or the next criterion.
GoOn ==
    /\ Active /\ phase' = "working"
    /\ NextRound \/ NextCriterion
    /\ UNCHANGED <<stage, asked>>

HandOver ==
    /\ Active /\ phase = "judging" /\ phase' = "handing" /\ at < Criteria
    /\ UNCHANGED <<stage, at, round, asked>>

Achieve ==
    /\ Active /\ phase = "judging" /\ phase' = "none" /\ at = Criteria
    /\ stage' = "achieved"
    /\ UNCHANGED <<at, round, asked>>

\* The goal is given up where it stands, or on the way to what comes next.
GiveUp ==
    /\ Active /\ phase' = "none"
    /\ stage' \in {"cancelled", "failed"}
    /\ SameCriterion \/ NextRound \/ NextCriterion
    /\ UNCHANGED asked

Next == Begin \/ Judge \/ GoOn \/ HandOver \/ Achieve \/ GiveUp

Spec == Init /\ [][Next]_vars

-----------------------------------------------------------------------------
(* What follows for the number of questions a judge is asked *)

CourseOK ==
    /\ stage \in {"idle", "active", "achieved", "cancelled", "failed"}
    /\ phase \in {"none", "working", "judging", "handing"}
    /\ Active <=> phase # "none"
    /\ at \in 1 .. Criteria /\ round \in 0 .. Rounds - 1

\* Every question is paid for by a round or by a criterion.
PaidFor ==
    /\ CourseOK /\ asked \in Nat
    /\ asked <= (at - 1) * Rounds + round + (IF phase = "working" THEN 0 ELSE 1)
    /\ stage = "idle" => asked = 0
=============================================================================
