------------------------ MODULE GoalSupervisor_proofs ------------------------
(* Proofs about GoalSupervisor, for any number of criteria, iterations, user  *)
(* sends, tasks and forms and any set of goals: type correctness, a waiting   *)
(* supervisor has a waker, every evaluation is answered once, a goal that is  *)
(* over stays silent.                                                         *)
EXTENDS GoalSupervisor, TLAPS

\* Nothing has been asked of a judge before the goal starts.
FreshWhenIdle ==
    status = "idle" =>
        /\ index = 1 /\ ~Awaiting /\ ~httpBusy
        /\ judge = 0 /\ judgeOpen = 0 /\ evals = 0 /\ verdicts = 0

\* A handoff is written between two criteria, never during an evaluation, and
\* by a judge process.
WaitShape ==
    /\ ~(awaitVerdict /\ awaitAuthoring)
    /\ awaitAuthoring => index < NumCriteria /\ ~request.http

\* The endpoint and the judge process exclude each other, and an answer of the
\* endpoint is one the supervisor waits for.
HttpShape ==
    /\ request.http => judge = 0
    /\ httpBusy => request.http
    /\ Active /\ httpBusy => awaitVerdict

\* A judge that outlives the goal is one nothing is expected of, or has exited.
InertWhenOver == Over => judge = 0 \/ judgeOpen = 0 \/ ~Awaiting

JudgeShape ==
    /\ FreshWhenIdle /\ WaitShape /\ HttpShape /\ InertWhenOver
    /\ JudgePresent /\ WaitHasWaker /\ OneVerdictEach

\* The inductive invariant.
GoalInv == TypeOK /\ JudgeShape

\* The types of the supervisor's own variables, and of what surrounds it.
SupervisorTypes ==
    /\ request \in Requests
    /\ status \in {"idle", "active"} \union Terminal
    /\ index \in 1 .. NumCriteria /\ iteration \in 0 .. MaxIterations - 1
    /\ awaitVerdict \in BOOLEAN /\ awaitAuthoring \in BOOLEAN
    /\ corrected \in BOOLEAN /\ judgeTimer \in BOOLEAN
    /\ deferPrefix \in BOOLEAN /\ deferBackground \in BOOLEAN /\ deferHold \in BOOLEAN
    /\ judge \in 0 .. NumCriteria /\ judgeOpen \in Nat /\ httpBusy \in BOOLEAN
    /\ evals \in Nat /\ verdicts \in Nat /\ sent \in Nat

TargetTypes ==
    /\ target \in {"up", "exited", "replaced"}
    /\ session \in BOOLEAN /\ pending \in BOOLEAN /\ processing \in BOOLEAN
    /\ background \in {"none", "tasks", "grace"}

QueueTypes == notice \in BOOLEAN /\ queue \in Seq({"user", "goal"})

-----------------------------------------------------------------------------
\* The type invariant in three parts.
LEMMA TypeParts == TypeOK <=> SupervisorTypes /\ TargetTypes /\ QueueTypes
  BY DEF TypeOK, SupervisorTypes, TargetTypes, QueueTypes

\* The invariant after a step, from its parts.
LEMMA PartsNext ==
    ASSUME SupervisorTypes', TargetTypes', QueueTypes', JudgeShape'
    PROVE  GoalInv'
  BY DEF GoalInv, TypeOK, SupervisorTypes, TargetTypes, QueueTypes

\* What the constants give about the parameters of a goal.
LEMMA RequestFacts ==
    ASSUME TypeOK
    PROVE  /\ request.http \in BOOLEAN
           /\ NumCriteria \in Nat \ {0} /\ MaxIterations \in Nat \ {0}
           /\ index \in Nat /\ iteration \in Nat /\ judge \in Nat
  BY GoalAssumption DEF TypeOK, RequestType

\* GoalInv holds initially.
LEMMA InitGoalInv == Init => GoalInv
<1> SUFFICES ASSUME Init PROVE GoalInv
  OBVIOUS
<1>1. TypeOK
  <2>1. 1 \in 1 .. NumCriteria /\ 0 \in 0 .. MaxIterations - 1 /\ 0 \in 0 .. NumCriteria
    BY GoalAssumption
  <2>2. <<>> \in Seq({"user", "goal"})
    OBVIOUS
  <2> QED
    BY <2>1, <2>2 DEF Init, TypeOK
<1>2. JudgeShape
  BY <1>1, RequestFacts DEF Init, JudgeShape, FreshWhenIdle, WaitShape, HttpShape, InertWhenOver,
     JudgePresent, WaitHasWaker, OneVerdictEach, Awaiting, Active, Over, Terminal
<1> QED
  BY <1>1, <1>2 DEF GoalInv

-----------------------------------------------------------------------------
(* What the shared operators leave of the types *)

\* A prompt to the target leaves its variables typed.
LEMMA DeliverTypes ==
    ASSUME TypeOK, DeliverToTarget
    PROVE  /\ session' \in BOOLEAN /\ pending' \in BOOLEAN /\ processing' \in BOOLEAN
           /\ background' \in {"none", "tasks", "grace"}
  BY DEF TypeOK, DeliverToTarget, targetVars, Target!Deliver, Target!TurnStarts

\* The cursor moves to a criterion that exists, with its own judge, or the goal
\* fails without one.
LEMMA AdvanceKeeps ==
    ASSUME TypeOK, JudgeShape, index < NumCriteria, advanceCriterion
    PROVE  /\ index' = index + 1 /\ index' \in 1 .. NumCriteria
           /\ iteration' = 0 /\ iteration' \in 0 .. MaxIterations - 1
           /\ judgeTimer' = FALSE /\ judgeOpen' = 0 /\ deferBackground' \in BOOLEAN
           /\ judge' \in 0 .. NumCriteria
           /\ session' \in BOOLEAN /\ pending' \in BOOLEAN /\ processing' \in BOOLEAN
           /\ background' \in {"none", "tasks", "grace"}
           /\ sent' \in Nat
           /\ request.http => judge' = 0
           /\ \/ status' = status /\ (~request.http => judge' = index')
              \/ status' = "failed" /\ judge' = 0
<1>1. index' = index + 1 /\ index + 1 \in 1 .. NumCriteria /\ index + 1 \in 0 .. NumCriteria
  BY RequestFacts DEF advanceCriterion, TypeOK
<1>2. iteration' = 0 /\ 0 \in 0 .. MaxIterations - 1 /\ 0 \in 0 .. NumCriteria
  BY RequestFacts DEF advanceCriterion
<1>3. /\ session' \in BOOLEAN /\ pending' \in BOOLEAN /\ processing' \in BOOLEAN
      /\ background' \in {"none", "tasks", "grace"}
      /\ sent' \in Nat
  <2>1. CASE sendPromptToTarget
    BY <2>1, DeliverTypes DEF sendPromptToTarget, TypeOK
  <2>2. CASE UNCHANGED <<targetVars, sent>>
    BY <2>2 DEF targetVars, TypeOK
  <2> QED
    BY <2>1, <2>2 DEF advanceCriterion
<1>4. judgeTimer' = FALSE /\ judgeOpen' = 0 /\ deferBackground' \in BOOLEAN
  BY DEF advanceCriterion, TypeOK, markTerminal, destroyJudgeConnection
<1>5. /\ judge' = 0 \/ judge' = index + 1
      /\ request.http => judge' = 0
      /\ \/ status' = status /\ (~request.http => judge' = index')
         \/ status' = "failed" /\ judge' = 0
  BY <1>1 DEF advanceCriterion, markTerminal, destroyJudgeConnection
<1> QED
  BY <1>1, <1>2, <1>3, <1>4, <1>5
-----------------------------------------------------------------------------
(* Evaluations and verdicts *)

\* A step that leaves the judge's side alone keeps its shape.
LEMMA SameShape ==
    ASSUME JudgeShape,
           UNCHANGED <<request, status, index, awaitVerdict, awaitAuthoring, judgeTimer,
                       judge, judgeOpen, httpBusy, evals, verdicts>>
    PROVE  JudgeShape'
  BY DEF JudgeShape, FreshWhenIdle, WaitShape, HttpShape, InertWhenOver, JudgePresent,
     WaitHasWaker, OneVerdictEach, Awaiting, Active, Over

\* An evaluation that starts while nothing is awaited is counted once and has
\* its waker.
LEMMA EvaluateKeeps ==
    ASSUME GoalInv, Active, ~Awaiting, evaluateCurrentCriterion,
           deferBackground' \in BOOLEAN, deferHold' \in BOOLEAN, deferPrefix' \in BOOLEAN,
           UNCHANGED <<request, verdicts, sent>>
    PROVE  SupervisorTypes' /\ JudgeShape'
<1> USE DEF GoalInv
<1>0. request.http \in BOOLEAN /\ ~httpBusy /\ evals = verdicts /\ evals \in Nat
      /\ ~awaitVerdict /\ ~awaitAuthoring /\ judgeOpen \in Nat
  BY RequestFacts DEF JudgeShape, HttpShape, OneVerdictEach, Awaiting, TypeOK
<1>a. evals' \in Nat /\ judgeOpen + 1 \in Nat /\ UNCHANGED <<index, iteration, awaitAuthoring>>
  BY <1>0 DEF evaluateCurrentCriterion
<1>1. CASE EvaluateHttp
  <2>1. SupervisorTypes'
    BY <1>0, <1>a, <1>1, TypeParts DEF EvaluateHttp, SupervisorTypes, judgeVars, Terminal
  <2>2. JudgeShape'
    BY <1>0, <1>1 DEF EvaluateHttp, evaluateCurrentCriterion, judgeVars, Terminal,
       JudgeShape, FreshWhenIdle, WaitShape, HttpShape, InertWhenOver, JudgePresent,
       WaitHasWaker, OneVerdictEach, Awaiting, Active, Over
  <2> QED
    BY <2>1, <2>2
<1>2. CASE EvaluateAcp
  <2>1. SupervisorTypes'
    BY <1>0, <1>a, <1>2, TypeParts DEF EvaluateAcp, SupervisorTypes
  <2>2. JudgeShape'
    BY <1>0, <1>2 DEF EvaluateAcp, evaluateCurrentCriterion, Terminal,
       JudgeShape, FreshWhenIdle, WaitShape, HttpShape, InertWhenOver, JudgePresent,
       WaitHasWaker, OneVerdictEach, Awaiting, Active, Over
  <2> QED
    BY <2>1, <2>2
<1> QED
  BY <1>1, <1>2 DEF evaluateCurrentCriterion

\* No evaluation leaves the judge's side and its types alone.
LEMMA NoEvaluationKeeps ==
    ASSUME GoalInv, NoEvaluation,
           deferBackground' \in BOOLEAN, deferHold' \in BOOLEAN, deferPrefix' \in BOOLEAN,
           UNCHANGED <<request, verdicts, sent>>
    PROVE  SupervisorTypes' /\ JudgeShape'
<1>1. SupervisorTypes'
  BY TypeParts DEF GoalInv, NoEvaluation, SupervisorTypes, goalVars, waitVars, judgeVars
<1>2. JudgeShape'
  BY SameShape DEF GoalInv, NoEvaluation, goalVars, waitVars, judgeVars
<1> QED
  BY <1>1, <1>2

\* Settling evaluates or postpones.
LEMMA SettleKeeps ==
    ASSUME GoalInv, NEW work, Active, ~Awaiting, evaluateWhenTargetSettled(work),
           deferPrefix' \in BOOLEAN,
           UNCHANGED <<request, verdicts, sent>>
    PROVE  SupervisorTypes' /\ JudgeShape'
<1>1. deferBackground' \in BOOLEAN /\ deferHold' \in BOOLEAN
  BY DEF evaluateWhenTargetSettled, GoalInv, TypeOK
<1>2. NoEvaluation \/ evaluateCurrentCriterion
  BY DEF evaluateWhenTargetSettled
<1> QED
  BY <1>1, <1>2, NoEvaluationKeeps, EvaluateKeeps

\* The end of a turn settles, postpones or is ignored.
LEMMA PromptEndedKeeps ==
    ASSUME GoalInv, NEW work, onTargetPromptEnded(work),
           UNCHANGED <<request, verdicts, sent, deferPrefix>>
    PROVE  SupervisorTypes' /\ JudgeShape'
<1>0. deferPrefix' \in BOOLEAN
  BY DEF GoalInv, TypeOK
<1>1. CASE MaySettle
  BY <1>0, <1>1, SettleKeeps DEF onTargetPromptEnded, MaySettle
<1>2. CASE ~MaySettle
  BY <1>0, <1>2, NoEvaluationKeeps DEF onTargetPromptEnded, GoalInv, TypeOK
<1> QED
  BY <1>1, <1>2

\* What a verdict, a handoff or a failure must leave behind for JudgeShape.
LEMMA SettledShape ==
    ASSUME JudgeShape, request' = request, httpBusy' = FALSE, awaitVerdict' = FALSE,
           status' \in {"active"} \union Terminal,
           evals' = verdicts' \/ status' # "active",
           awaitAuthoring' => /\ index' < NumCriteria /\ ~request.http
                              /\ judgeTimer' = TRUE /\ status' = "active",
           request.http => judge' = 0,
           status' = "active" /\ ~request.http => judge' = index',
           evals' \in Nat, verdicts' \in Nat
    PROVE  JudgeShape'
<1>1. FreshWhenIdle' /\ InertWhenOver'
  BY DEF FreshWhenIdle, InertWhenOver, Awaiting, Over, Terminal
<1>2. WaitShape' /\ HttpShape'
  BY DEF WaitShape, HttpShape
<1>3. JudgePresent' /\ WaitHasWaker'
  BY DEF JudgePresent, WaitHasWaker, Awaiting, Active
<1>4. (IF awaitVerdict' THEN 1 ELSE 0) = 0
  OBVIOUS
<1>5. OneVerdictEach'
  <2>1. \A n \in Nat : n + 0 = n
    OBVIOUS
  <2> QED
    BY <1>4, <2>1 DEF OneVerdictEach, Active, Terminal
<1> QED
  BY <1>1, <1>2, <1>3, <1>5 DEF JudgeShape

\* Where a verdict finds the supervisor.
LEMMA AwaitedVerdict ==
    ASSUME GoalInv, Active, awaitVerdict
    PROVE  /\ status = "active" /\ awaitAuthoring = FALSE /\ evals = verdicts + 1
           /\ ~request.http => judge = index
           /\ request.http => judge = 0
           /\ judge # 0 => httpBusy = FALSE
           /\ evals \in Nat /\ verdicts \in Nat /\ verdicts + 1 \in Nat
           /\ sent \in Nat /\ sent + 1 \in Nat
  BY RequestFacts DEF GoalInv, TypeOK, JudgeShape, WaitShape, HttpShape, JudgePresent,
     OneVerdictEach, Active

\* The iteration that is counted stays below the cap.
LEMMA CountedIteration ==
    ASSUME TypeOK, ~LimitReached
    PROVE  iteration + 1 \in 0 .. MaxIterations - 1
  BY RequestFacts DEF TypeOK, LimitReached

\* The target a prompt was delivered to is typed.
LEMMA PromptTypes ==
    ASSUME TypeOK, sendPromptToTarget, UNCHANGED target
    PROVE  TargetTypes' /\ sent' \in Nat
  BY DeliverTypes DEF sendPromptToTarget, TypeOK, TargetTypes

\* So is the session that replaces it.
LEMMA ReplacedTypes ==
    ASSUME TypeOK, SessionReplaced
    PROVE  TargetTypes' /\ sent' \in Nat
<1>1. TargetTypes'
  BY DEF SessionReplaced, TargetTypes
<1>2. sent' \in Nat
  BY DEF SessionReplaced, TypeOK
<1> QED
  BY <1>1, <1>2

\* Moving to the next criterion, after a verdict or a handoff, keeps everything.
LEMMA AdvancedKeeps ==
    ASSUME GoalInv, Active, Awaiting, index < NumCriteria, advanceCriterion,
           awaitVerdict' = FALSE, awaitAuthoring' = FALSE, httpBusy' = FALSE,
           corrected' \in BOOLEAN,
           evals = verdicts', verdicts' \in Nat,
           UNCHANGED <<request, deferPrefix, deferHold, evals, target>>
    PROVE  SupervisorTypes' /\ TargetTypes' /\ JudgeShape'
<1> USE DEF GoalInv
<1>1. /\ index' \in 1 .. NumCriteria /\ iteration' \in 0 .. MaxIterations - 1
      /\ judgeTimer' = FALSE /\ judgeOpen' = 0 /\ deferBackground' \in BOOLEAN
      /\ judge' \in 0 .. NumCriteria
      /\ session' \in BOOLEAN /\ pending' \in BOOLEAN /\ processing' \in BOOLEAN
      /\ background' \in {"none", "tasks", "grace"}
      /\ sent' \in Nat
      /\ request.http => judge' = 0
      /\ \/ status' = status /\ (~request.http => judge' = index')
         \/ status' = "failed" /\ judge' = 0
  BY AdvanceKeeps
<1>2. SupervisorTypes' /\ TargetTypes'
  BY <1>1, TypeParts DEF SupervisorTypes, TargetTypes, Terminal, Active
<1>3. status' \in {"active"} \union Terminal
  BY <1>1 DEF Terminal, Active
<1>4. JudgeShape'
  BY <1>1, <1>2, <1>3, SettledShape DEF SupervisorTypes
<1> QED
  BY <1>2, <1>4

\* Every verdict settles its evaluation and leaves the supervisor waiting for
\* its target, authoring with a waker, or over.
LEMMA VerdictKeeps ==
    ASSUME GoalInv, NEW open \in Nat, Active, awaitVerdict, applyJudgeAction(open),
           httpBusy' = FALSE,
           UNCHANGED <<request, corrected, deferPrefix, deferHold, evals>>
    PROVE  SupervisorTypes' /\ TargetTypes' /\ JudgeShape'
<1> USE DEF GoalInv
<1>1. awaitVerdict' = FALSE /\ verdicts' = verdicts + 1 /\ evals' = verdicts'
      /\ evals' \in Nat /\ verdicts' \in Nat
  BY AwaitedVerdict DEF applyJudgeAction
<1>2. CASE Continue(open)
  <2>1. TargetTypes' /\ sent' \in Nat /\ iteration' \in 0 .. MaxIterations - 1
    BY <1>2, CountedIteration, PromptTypes DEF Continue
  <2>2. SupervisorTypes'
    BY <1>1, <1>2, <2>1, TypeParts DEF Continue, SupervisorTypes
  <2>3. JudgeShape'
    BY <1>1, <1>2, AwaitedVerdict, SettledShape DEF Continue
  <2> QED
    BY <2>1, <2>2, <2>3
<1>3. CASE Restart(open)
  <2>1. iteration' \in 0 .. MaxIterations - 1
    BY <1>3, CountedIteration DEF Restart
  <2>2. TargetTypes' /\ sent' \in Nat
    BY <1>3, ReplacedTypes, TypeParts DEF Restart, restartWatchedSession, TargetTypes,
       SupervisorTypes, targetVars
  <2>3. status' \in {"active"} \union Terminal /\ deferBackground' = FALSE
    BY <1>3 DEF Restart, restartWatchedSession, Active, Terminal
  <2>4. SupervisorTypes'
    BY <1>1, <1>3, <2>1, <2>2, <2>3, TypeParts DEF Restart, SupervisorTypes
  <2>5. JudgeShape'
    BY <1>1, <1>3, <2>3, AwaitedVerdict, SettledShape DEF Restart
  <2> QED
    BY <2>2, <2>4, <2>5
<1>4. CASE RestartEmpty(open) \/ HandBack
  <2>1. /\ status' \in Terminal /\ judgeTimer' = FALSE /\ deferBackground' = FALSE
        /\ judge' \in {0, judge} /\ judgeOpen' \in Nat
        /\ UNCHANGED <<index, iteration, awaitAuthoring, target, targetVars, sent>>
    BY <1>4 DEF RestartEmpty, HandBack, markTerminal, destroyJudgeConnection, Terminal
  <2>2. SupervisorTypes'
    <3>1. judge' \in 0 .. NumCriteria
      BY <2>1, RequestFacts DEF TypeOK
    <3> QED
      BY <1>1, <2>1, <3>1, TypeParts DEF SupervisorTypes
  <2>4. TargetTypes'
    BY <2>1, TypeParts DEF TargetTypes, targetVars
  <2>3. JudgeShape'
    BY <1>1, <2>1, AwaitedVerdict, SettledShape DEF Terminal
  <2> QED
    BY <2>2, <2>4, <2>3
<1>5. CASE NextAfterLimit \/ HandOffRaw
  <2>1. index < NumCriteria /\ advanceCriterion /\ awaitAuthoring' = FALSE /\ UNCHANGED target
    BY <1>5, AwaitedVerdict DEF NextAfterLimit, HandOffRaw
  <2>2. corrected' \in BOOLEAN /\ Awaiting
    BY DEF TypeOK, Awaiting
  <2> QED
    BY <1>1, <2>1, <2>2, AdvancedKeeps
<1>6. CASE Achieve
  <2>1. TargetTypes'
    BY <1>6, DeliverTypes, TypeParts DEF Achieve, TargetTypes, targetVars
  <2>2. SupervisorTypes'
    <3>1. judge' = 0 /\ 0 \in 0 .. NumCriteria /\ judgeOpen' = 0
      BY <1>6, RequestFacts DEF Achieve, destroyJudgeConnection
    <3>2. status' \in Terminal /\ judgeTimer' = FALSE /\ deferBackground' = FALSE
      BY <1>6 DEF Achieve, markTerminal, Terminal
    <3> QED
      BY <1>1, <1>6, <3>1, <3>2, TypeParts DEF Achieve, SupervisorTypes
  <2>3. JudgeShape'
    BY <1>1, <1>6, AwaitedVerdict, SettledShape DEF Achieve, markTerminal,
       destroyJudgeConnection, Terminal
  <2> QED
    BY <2>1, <2>2, <2>3
<1>7. CASE BeginAuthoring(open)
  <2>1. SupervisorTypes'
    <3>1. judgeOpen' \in Nat /\ awaitAuthoring' = TRUE /\ judgeTimer' = TRUE
      BY <1>7 DEF BeginAuthoring
    <3> QED
      BY <1>1, <1>7, <3>1, TypeParts DEF BeginAuthoring, SupervisorTypes, goalVars
  <2>2. TargetTypes'
    BY <1>7, TypeParts DEF BeginAuthoring, TargetTypes, targetVars
  <2>3. JudgeShape'
    BY <1>1, <1>7, AwaitedVerdict, SettledShape DEF BeginAuthoring, goalVars
  <2> QED
    BY <2>1, <2>2, <2>3
<1> QED
  BY <1>2, <1>3, <1>4, <1>5, <1>6, <1>7 DEF applyJudgeAction, Exhausted, Complete, Unmet

-----------------------------------------------------------------------------
(* The steps of the user *)

\* A goal that starts finds nothing awaited; its judge is the one of the first
\* criterion.
LEMMA StartedKeeps ==
    ASSUME GoalInv, status = "idle", Started,
           deferPrefix' \in BOOLEAN, deferBackground' \in BOOLEAN, deferHold' \in BOOLEAN,
           sent' \in Nat,
           UNCHANGED <<request, waitVars, httpBusy, evals, verdicts>>
    PROVE  SupervisorTypes' /\ JudgeShape'
<1>1. /\ index = 1 /\ awaitVerdict = FALSE /\ awaitAuthoring = FALSE /\ httpBusy = FALSE
      /\ evals = verdicts /\ evals \in Nat /\ verdicts \in Nat
      /\ status' = "active" /\ index' = 1
      /\ (request.http => judge' = 0) /\ (~request.http => judge' = 1)
  BY DEF GoalInv, TypeOK, JudgeShape, FreshWhenIdle, Awaiting, Started
<1>2. SupervisorTypes'
  <2>1. judge' \in 0 .. NumCriteria
    BY <1>1, RequestFacts DEF GoalInv
  <2> QED
    BY <1>1, <2>1, TypeParts DEF GoalInv, Started, SupervisorTypes, waitVars
<1>3. JudgeShape'
  BY <1>1, SettledShape DEF waitVars, GoalInv
<1> QED
  BY <1>2, <1>3

\* Sending the first criterion types what it sets.
LEMMA FirstGoalTypes ==
    ASSUME TypeOK, NEW busy, sendFirstCriterionGoal(busy)
    PROVE  deferPrefix' \in BOOLEAN /\ sent' \in Nat /\ queue' \in Seq({"user", "goal"})
<1>1. sent' \in Nat
  BY DEF TypeOK, sendFirstCriterionGoal
<1>2. deferPrefix' \in BOOLEAN
  BY DEF TypeOK, sendFirstCriterionGoal
<1>3. queue' \in Seq({"user", "goal"})
  BY DEF TypeOK, sendFirstCriterionGoal
<1> QED
  BY <1>1, <1>2, <1>3

\* The three ways to start that do not evaluate at once.
LEMMA StartKeeps ==
    ASSUME GoalInv, StartWithPrompt \/ StartAttachedPrefix \/ StartAttachedBusy
    PROVE  GoalInv'
<1> USE DEF GoalInv
<1>1. CASE StartWithPrompt
  <2>1. deferPrefix' \in BOOLEAN /\ sent' \in Nat /\ queue' \in Seq({"user", "goal"})
    BY <1>1, FirstGoalTypes DEF StartWithPrompt, TypeOK
  <2>2. SupervisorTypes' /\ JudgeShape'
    BY <1>1, <2>1, StartedKeeps DEF StartWithPrompt, settingVars, TypeOK
  <2>3. TargetTypes' /\ QueueTypes'
    BY <1>1, <2>1, DeliverTypes DEF StartWithPrompt, TypeOK, TargetTypes, QueueTypes
  <2> QED
    BY <2>2, <2>3, PartsNext
<1>2. CASE StartAttachedPrefix
  <2>1. deferPrefix' \in BOOLEAN /\ sent' \in Nat /\ queue' \in Seq({"user", "goal"})
    BY <1>2, FirstGoalTypes DEF StartAttachedPrefix
  <2>2. SupervisorTypes' /\ JudgeShape'
    BY <1>2, <2>1, StartedKeeps DEF StartAttachedPrefix, settingVars, TypeOK
  <2>3. TargetTypes' /\ QueueTypes'
    BY <1>2, <2>1, DeliverTypes DEF StartAttachedPrefix, TypeOK, TargetTypes, QueueTypes, targetVars
  <2> QED
    BY <2>2, <2>3, PartsNext
<1>3. CASE StartAttachedBusy
  <2>1. SupervisorTypes' /\ JudgeShape'
    BY <1>3, StartedKeeps DEF StartAttachedBusy, settingVars, pastVars, deferVars, TypeOK
  <2>2. TargetTypes' /\ QueueTypes'
    BY <1>3, TypeParts DEF StartAttachedBusy, hostVars, targetVars, queueVars, TargetTypes, QueueTypes
  <2> QED
    BY <2>1, <2>2, PartsNext
<1> QED
  BY <1>1, <1>2, <1>3

\* A goal attached to an idle target postpones, or asks the judge at once.
LEMMA StartIdleKeeps ==
    ASSUME GoalInv, StartAttachedIdle
    PROVE  GoalInv'
<1> USE DEF GoalInv
<1>1. TargetTypes' /\ QueueTypes'
  BY TypeParts DEF StartAttachedIdle, hostVars, targetVars, queueVars, TargetTypes, QueueTypes
<1>2. CASE background # "none" \/ notice
  <2>1. deferBackground' \in BOOLEAN /\ deferHold' \in BOOLEAN
    BY <1>2 DEF StartAttachedIdle
  <2>2. SupervisorTypes' /\ JudgeShape'
    BY <1>2, <2>1, StartedKeeps DEF StartAttachedIdle, settingVars, TypeOK
  <2> QED
    BY <1>1, <2>2, PartsNext
<1>3. CASE ~(background # "none" \/ notice)
  <2>1. /\ index = 1 /\ awaitVerdict = FALSE /\ awaitAuthoring = FALSE /\ httpBusy = FALSE
        /\ evals = 0 /\ verdicts = 0 /\ request.http \in BOOLEAN
    BY RequestFacts DEF StartAttachedIdle, TypeOK, JudgeShape, FreshWhenIdle, Awaiting
  <2>2. /\ judge' = (IF request.http THEN 0 ELSE 1) /\ judge' \in 0 .. NumCriteria
        /\ judgeOpen' \in Nat /\ judgeTimer' = ~request.http
        /\ index' = index /\ awaitAuthoring' = FALSE /\ request' = request
        /\ verdicts' = 0
    BY <1>3, <2>1, RequestFacts DEF StartAttachedIdle, settingVars
  <2>3. CASE /\ status' = "active" /\ awaitVerdict' = TRUE
             /\ httpBusy' = request.http
             /\ evals' = evals + 1
    <3>1. SupervisorTypes'
      BY <1>3, <2>1, <2>2, <2>3, TypeParts DEF StartAttachedIdle, SupervisorTypes, settingVars
    <3>2. JudgeShape'
      BY <2>1, <2>2, <2>3 DEF JudgeShape, FreshWhenIdle, WaitShape, HttpShape, InertWhenOver,
         JudgePresent, WaitHasWaker, OneVerdictEach, Awaiting, Active, Over, Terminal
    <3> QED
      BY <1>1, <3>1, <3>2, PartsNext
  <2>4. CASE request.http /\ status' = "failed" /\ UNCHANGED <<awaitVerdict, httpBusy, evals>>
    <3>1. SupervisorTypes'
      BY <1>3, <2>1, <2>2, <2>4, TypeParts DEF StartAttachedIdle, SupervisorTypes, settingVars, Terminal
    <3>2. JudgeShape'
      BY <2>1, <2>2, <2>4, SettledShape DEF Terminal
    <3> QED
      BY <1>1, <3>1, <3>2, PartsNext
  <2> QED
    BY <1>3, <2>3, <2>4 DEF StartAttachedIdle
<1> QED
  BY <1>2, <1>3

\* Stopping the goal, or losing its target, drops the judge.
LEMMA StopKeeps ==
    ASSUME GoalInv, Stop \/ TargetDestroyed
    PROVE  GoalInv'
<1> USE DEF GoalInv
<1>1. CASE Stop
  <2>1. /\ status' = "cancelled" /\ judge' = 0 /\ judge' \in 0 .. NumCriteria /\ judgeOpen' = 0
        /\ httpBusy' = FALSE /\ judgeTimer' = FALSE /\ deferBackground' = FALSE
        /\ UNCHANGED <<request, index, iteration, awaitVerdict, awaitAuthoring, corrected,
                       deferPrefix, deferHold, evals, verdicts, sent>>
    BY <1>1, RequestFacts DEF Stop, destroyJudgeConnection, markTerminal, settingVars, pastVars
  <2>2. SupervisorTypes'
    BY <2>1, TypeParts DEF SupervisorTypes, Terminal
  <2>3. TargetTypes' /\ QueueTypes'
    BY <1>1, TypeParts DEF Stop, hostVars, targetVars, queueVars, TargetTypes, QueueTypes
  <2>4. JudgeShape'
    BY <2>1 DEF JudgeShape, FreshWhenIdle, WaitShape, HttpShape, InertWhenOver,
       JudgePresent, WaitHasWaker, OneVerdictEach, Active, Over, Terminal
  <2> QED
    BY <2>2, <2>3, <2>4, PartsNext
<1>2. CASE TargetDestroyed
  <2>1. /\ TargetTypes' /\ QueueTypes'
        /\ UNCHANGED <<request, index, iteration, waitVars, deferVars, httpBusy, pastVars>>
    BY <1>2, TypeParts DEF TargetDestroyed, settingVars, queueVars, TargetTypes, QueueTypes
  <2>2. CASE Active
    <3>1. status' = "failed" /\ judge' = 0 /\ judge' \in 0 .. NumCriteria /\ judgeOpen' = 0
      BY <1>2, <2>2, RequestFacts DEF TargetDestroyed, destroyJudgeConnection
    <3>2. SupervisorTypes'
      BY <2>1, <3>1, TypeParts DEF SupervisorTypes, Terminal, waitVars, deferVars, pastVars
    <3>3. JudgeShape'
      BY <2>1, <3>1 DEF JudgeShape, FreshWhenIdle, WaitShape, HttpShape, InertWhenOver,
         JudgePresent, WaitHasWaker, OneVerdictEach, Active, Over, Terminal, waitVars, pastVars
    <3> QED
      BY <2>1, <3>2, <3>3, PartsNext
  <2>3. CASE ~Active
    <3>1. UNCHANGED <<status, judge, judgeOpen>>
      BY <1>2, <2>3 DEF TargetDestroyed, judgeVars
    <3>2. SupervisorTypes' /\ JudgeShape'
      BY <2>1, <3>1, TypeParts, SameShape DEF SupervisorTypes, waitVars, deferVars, pastVars
    <3> QED
      BY <2>1, <3>2, PartsNext
  <2> QED
    BY <2>2, <2>3
<1> QED
  BY <1>1, <1>2

\* Taking one item out of a queue leaves a queue.
LEMMA RemovedType ==
    ASSUME NEW S, NEW q \in Seq(S), NEW i \in DOMAIN q
    PROVE  [k \in 1 .. Len(q) - 1 |-> q[IF k < i THEN k ELSE k + 1]] \in Seq(S)
<1>1. Len(q) \in Nat /\ Len(q) - 1 \in Nat /\ i \in 1 .. Len(q)
  OBVIOUS
<1>2. \A k \in 1 .. Len(q) - 1 : q[IF k < i THEN k ELSE k + 1] \in S
  BY <1>1
<1>3. \A n \in Nat : \A f \in [1 .. n -> S] : f \in Seq(S)
  OBVIOUS
<1> QED
  BY <1>1, <1>2, <1>3

\* Removing the /goal of a goal that waits for it settles; the rest is the
\* composer's.
LEMMA RemoveKeeps ==
    ASSUME GoalInv, NEW i \in 1 .. QueueLimit, RemoveQueued(i)
    PROVE  GoalInv'
<1> USE DEF GoalInv
<1>1. TargetTypes' /\ QueueTypes'
  <2>1. i \in DOMAIN queue /\ queue \in Seq({"user", "goal"})
    BY DEF RemoveQueued, TypeOK
  <2>2. queue' \in Seq({"user", "goal"})
    BY <2>1, RemovedType DEF RemoveQueued
  <2> QED
    BY <2>2, TypeParts DEF RemoveQueued, targetVars, TargetTypes, QueueTypes
<1>2. UNCHANGED <<request, verdicts, sent>>
  BY DEF RemoveQueued, settingVars
<1>3. CASE queue[i] # "goal"
  <2>1. NoEvaluation /\ UNCHANGED deferVars
    BY <1>3 DEF RemoveQueued
  <2>2. SupervisorTypes' /\ JudgeShape'
    BY <1>2, <2>1, NoEvaluationKeeps DEF deferVars, TypeOK
  <2> QED
    BY <1>1, <2>2, PartsNext
<1>4. CASE queue[i] = "goal"
  <2>1. noteDeferredGoalDropped /\ deferPrefix' = FALSE
    BY <1>4 DEF RemoveQueued, noteDeferredGoalDropped
  <2>2. CASE evaluateWhenTargetSettled("none") /\ Active /\ ~Awaiting
    <3>2. SupervisorTypes' /\ JudgeShape'
      BY <1>2, <2>1, <2>2, SettleKeeps
    <3> QED
      BY <1>1, <3>2, PartsNext
  <2>3. CASE ~(evaluateWhenTargetSettled("none") /\ Active /\ ~Awaiting)
    <3>1. /\ NoEvaluation /\ deferHold' \in {FALSE, deferHold}
          /\ deferBackground' \in {TRUE, FALSE, deferBackground}
      BY <2>1, <2>3 DEF noteDeferredGoalDropped
    <3>2. SupervisorTypes' /\ JudgeShape'
      BY <1>2, <2>1, <3>1, NoEvaluationKeeps DEF TypeOK
    <3> QED
      BY <1>1, <3>2, PartsNext
  <2> QED
    BY <2>2, <2>3
<1> QED
  BY <1>3, <1>4

\* What the user types, a restart by the user, a form, the target's session,
\* its own turns and its tasks leave the supervisor alone.
LEMMA OthersKeep ==
    ASSUME GoalInv,
           \/ UserSends \/ UserRestarts \/ FormCancelled
           \/ SessionReady \/ WakeUpTurn \/ TaskStarts \/ TasksFinish
    PROVE  GoalInv'
<1> USE DEF GoalInv
<1>1. UNCHANGED supervisorVars
  BY DEF UserSends, UserRestarts, FormCancelled, SessionReady, WakeUpTurn, TaskStarts, TasksFinish
<1>2. SupervisorTypes' /\ JudgeShape'
  BY <1>1, TypeParts, SameShape DEF supervisorVars, goalVars, waitVars, deferVars, judgeVars,
     pastVars, SupervisorTypes
<1>3. QueueTypes'
  <2>1. CASE UserSends
    <3>1. queue' = queue \/ queue' = Append(queue, "user")
      BY <2>1 DEF UserSends
    <3>2. queue' \in Seq({"user", "goal"})
      BY <3>1 DEF TypeOK
    <3> QED
      BY <2>1, <3>2, TypeParts DEF UserSends, QueueTypes
  <2>2. CASE ~UserSends
    BY <2>2, TypeParts DEF UserRestarts, FormCancelled, SessionReady, WakeUpTurn, TaskStarts,
       TasksFinish, QueueTypes, queueVars
  <2> QED
    BY <2>1, <2>2
<1>4. TargetTypes'
  <2>1. CASE UserSends
    BY <2>1, DeliverTypes, TypeParts DEF UserSends, TargetTypes, targetVars
  <2>2. CASE UserRestarts \/ FormCancelled
    BY <2>2, TypeParts DEF UserRestarts, FormCancelled, TargetTypes, targetVars
  <2>3. CASE SessionReady \/ WakeUpTurn \/ TaskStarts \/ TasksFinish
    BY <2>3, TypeParts DEF SessionReady, WakeUpTurn, TaskStarts, TasksFinish, TargetTypes,
       Target!Ready, Target!Wake, Target!TurnStarts, Target!TasksStart, Target!TasksFinish
  <2> QED
    BY <2>1, <2>2, <2>3
<1> QED
  BY <1>2, <1>3, <1>4, PartsNext

-----------------------------------------------------------------------------
(* The steps of the target and of the composer's queue *)

\* The end of a turn, by the agent, by the end of its process or by the grace
\* timer, is where evaluations start.
LEMMA TargetKeeps ==
    ASSUME GoalInv, TurnEnds \/ TargetExits \/ backgroundIdle
    PROVE  GoalInv'
<1> USE DEF GoalInv
<1>1. /\ UNCHANGED <<request, verdicts, sent, deferPrefix>>
      /\ QueueTypes'
  BY TypeParts DEF TurnEnds, TargetExits, backgroundIdle, settingVars, queueVars, QueueTypes
<1>2. TargetTypes'
  BY TypeParts DEF TurnEnds, TargetExits, backgroundIdle, TargetTypes, Target!End, Target!Exit,
     Target!GraceOver
<1>3. \/ \E work \in {background, "none"} : onTargetPromptEnded(work)
      \/ MaySettle /\ evaluateWhenTargetSettled("none")
      \/ NoEvaluation /\ UNCHANGED <<deferBackground, deferHold>>
  BY DEF TurnEnds, TargetExits, backgroundIdle
<1>4. SupervisorTypes' /\ JudgeShape'
  <2>0. deferPrefix' \in BOOLEAN
    BY <1>1 DEF TypeOK
  <2>1. CASE \E work \in {background, "none"} : onTargetPromptEnded(work)
    BY <1>1, <2>1, PromptEndedKeeps
  <2>2. CASE MaySettle /\ evaluateWhenTargetSettled("none")
    BY <1>1, <2>0, <2>2, SettleKeeps DEF MaySettle
  <2>3. CASE NoEvaluation /\ UNCHANGED <<deferBackground, deferHold>>
    BY <1>1, <2>0, <2>3, NoEvaluationKeeps DEF TypeOK
  <2> QED
    BY <1>3, <2>1, <2>2, <2>3
<1> QED
  BY <1>1, <1>2, <1>4, PartsNext

\* The flush of the queue sends one item and lifts two postponements.
LEMMA FlushKeeps ==
    ASSUME GoalInv, flushQueuedPrompt
    PROVE  GoalInv'
<1> USE DEF GoalInv
<1>1. TargetTypes'
  BY DeliverTypes, TypeParts DEF flushQueuedPrompt, TargetTypes
<1>2. QueueTypes'
  <2>1. notice' \in BOOLEAN
    BY DEF flushQueuedPrompt, TypeOK
  <2>2. queue' = queue \/ (queue # <<>> /\ queue' = Tail(queue))
    BY DEF flushQueuedPrompt
  <2>3. queue' \in Seq({"user", "goal"})
    BY <2>2 DEF TypeOK
  <2> QED
    BY <2>1, <2>3 DEF QueueTypes
<1>3. deferPrefix' \in BOOLEAN /\ deferHold' \in BOOLEAN
  BY DEF flushQueuedPrompt, TypeOK
<1>4. SupervisorTypes' /\ JudgeShape'
  <2>1. UNCHANGED <<request, goalVars, waitVars, judgeVars, pastVars, deferBackground, httpBusy>>
    BY DEF flushQueuedPrompt, settingVars
  <2> QED
    BY <1>3, <2>1, TypeParts, SameShape DEF SupervisorTypes, goalVars, waitVars, judgeVars, pastVars
<1> QED
  BY <1>1, <1>2, <1>4, PartsNext

-----------------------------------------------------------------------------
(* The steps of the judge *)

\* A verdict by tool call.
LEMMA ToolVerdictKeeps ==
    ASSUME GoalInv, considerJudgeVerdict
    PROVE  GoalInv'
<1> USE DEF GoalInv
<1>1. Active /\ awaitVerdict /\ applyJudgeAction(judgeOpen) /\ judgeOpen \in Nat
  BY DEF considerJudgeVerdict, TypeOK
<1>2. httpBusy' = FALSE
  BY <1>1, AwaitedVerdict DEF considerJudgeVerdict
<1>3. QueueTypes'
  BY TypeParts DEF considerJudgeVerdict, queueVars, QueueTypes
<1>4. SupervisorTypes' /\ TargetTypes' /\ JudgeShape'
  BY <1>1, <1>2, VerdictKeeps DEF considerJudgeVerdict, settingVars
<1> QED
  BY <1>3, <1>4, PartsNext

\* A handoff ends the authoring step.
LEMMA HandoffFacts ==
    ASSUME GoalInv, Active, awaitAuthoring
    PROVE  /\ index < NumCriteria /\ Awaiting /\ awaitVerdict = FALSE /\ httpBusy = FALSE
           /\ evals = verdicts /\ verdicts \in Nat
<1>1. awaitVerdict = FALSE /\ index < NumCriteria /\ ~request.http
  BY DEF GoalInv, TypeOK, JudgeShape, WaitShape
<1>2. httpBusy = FALSE
  BY <1>1 DEF GoalInv, TypeOK, JudgeShape, HttpShape
<1>3. evals = verdicts /\ verdicts \in Nat
  BY <1>1 DEF GoalInv, TypeOK, JudgeShape, OneVerdictEach
<1> QED
  BY <1>1, <1>2, <1>3 DEF Awaiting

\* The judge's turn ends: a verdict, a question to it, a handoff, or the rest
\* of a turn that was cancelled.
LEMMA JudgeAnswerKeeps ==
    ASSUME GoalInv, JudgeAnswers
    PROVE  GoalInv'
<1> USE DEF GoalInv
<1>1. QueueTypes' /\ UNCHANGED <<request, deferPrefix, deferHold, httpBusy, evals>>
  BY TypeParts DEF JudgeAnswers, settingVars, queueVars, QueueTypes
<1>2. judge # 0 /\ judgeOpen > 0 /\ judgeOpen \in Nat /\ ~request.http /\ httpBusy = FALSE
  BY DEF JudgeAnswers, TypeOK, JudgeShape, HttpShape
<1>3. Awaiting => Active
  BY <1>2 DEF JudgeShape, FreshWhenIdle, InertWhenOver, Active, Over, TypeOK
<1>4. CASE awaitVerdict /\ applyJudgeAction(0) /\ UNCHANGED corrected
  <2>1. Active /\ awaitVerdict /\ 0 \in Nat /\ httpBusy' = FALSE
    BY <1>1, <1>2, <1>3, <1>4 DEF Awaiting
  <2>2. SupervisorTypes' /\ TargetTypes' /\ JudgeShape'
    BY <1>1, <1>4, <2>1, VerdictKeeps
  <2> QED
    BY <1>1, <2>2, PartsNext
<1>5. CASE awaitVerdict /\ AskAgain /\ UNCHANGED <<verdicts, sent, target, targetVars>>
  <2>1. TargetTypes'
    BY <1>5, TypeParts DEF TargetTypes, targetVars
  <2>2. SupervisorTypes'
    BY <1>1, <1>5, TypeParts DEF AskAgain, SupervisorTypes, goalVars
  <2>3. JudgeShape'
    BY <1>1, <1>2, <1>3, <1>5 DEF AskAgain, goalVars, JudgeShape, FreshWhenIdle, WaitShape,
       HttpShape, InertWhenOver, JudgePresent, WaitHasWaker, OneVerdictEach, Awaiting, Active, Over
  <2> QED
    BY <1>1, <2>1, <2>2, <2>3, PartsNext
<1>6. CASE awaitVerdict /\ ParseFailure /\ UNCHANGED <<verdicts, sent, target, targetVars>>
  <2>1. TargetTypes'
    BY <1>6, TypeParts DEF TargetTypes, targetVars
  <2>2. /\ status' = "failed" /\ judgeTimer' = FALSE /\ deferBackground' = FALSE
        /\ judge' = 0 /\ judge' \in 0 .. NumCriteria /\ judgeOpen' = 0
        /\ awaitVerdict' = FALSE /\ awaitAuthoring' = FALSE
        /\ UNCHANGED <<index, iteration, corrected>>
    BY <1>6, <1>3, AwaitedVerdict, RequestFacts DEF ParseFailure, markTerminal,
       destroyJudgeConnection, Awaiting
  <2>3. SupervisorTypes'
    BY <1>1, <1>6, <2>2, TypeParts DEF SupervisorTypes, Terminal
  <2>4. JudgeShape'
    BY <1>1, <1>2, <1>6, <2>2, <2>3, SettledShape DEF SupervisorTypes, Terminal
  <2> QED
    BY <1>1, <2>1, <2>3, <2>4, PartsNext
<1>7. CASE /\ awaitAuthoring /\ awaitAuthoring' = FALSE /\ advanceCriterion
           /\ UNCHANGED <<awaitVerdict, corrected, verdicts, target>>
  <2>1. Active
    BY <1>3, <1>7 DEF Awaiting
  <2>2. SupervisorTypes' /\ TargetTypes' /\ JudgeShape'
    BY <1>1, <1>7, <2>1, HandoffFacts, AdvancedKeeps DEF TypeOK
  <2> QED
    BY <1>1, <2>2, PartsNext
<1>8. CASE /\ judgeOpen' \in {0, judgeOpen - 1}
           /\ UNCHANGED <<goalVars, waitVars, targetVars, deferBackground, judge,
                          verdicts, sent, target>>
           /\ Awaiting => judgeOpen' # 0
  <2>1. judgeOpen' \in Nat
    BY <1>2, <1>8
  <2>2. SupervisorTypes' /\ TargetTypes'
    BY <1>1, <1>8, <2>1, TypeParts DEF SupervisorTypes, TargetTypes, goalVars, waitVars, targetVars
  <2>3. status # "idle"
    BY <1>2 DEF JudgeShape, FreshWhenIdle
  <2>4. JudgeShape'
    BY <1>1, <1>3, <1>8, <2>3 DEF goalVars, waitVars, JudgeShape, FreshWhenIdle, WaitShape,
       HttpShape, InertWhenOver, JudgePresent, WaitHasWaker, OneVerdictEach, Awaiting, Active, Over, Terminal
  <2> QED
    BY <1>1, <2>2, <2>4, PartsNext
<1>9. CASE judgeOpen = 1
  <2>1. onJudgePromptEnded
    BY <1>9 DEF JudgeAnswers
  <2>2. CASE /\ ~Awaiting \/ ~Active
             /\ judgeOpen' = 0
             /\ UNCHANGED <<goalVars, waitVars, targetVars, deferBackground, judge,
                            verdicts, sent, target>>
    BY <1>3, <1>8, <2>2
  <2> QED
    BY <1>4, <1>5, <1>6, <1>7, <2>1, <2>2 DEF onJudgePromptEnded
<1>10. CASE judgeOpen # 1
  <2>1. judgeOpen - 1 # 0
    BY <1>2, <1>10
  <2> QED
    BY <1>8, <1>10, <2>1 DEF JudgeAnswers
<1> QED
  BY <1>9, <1>10

\* The timeout gives the judge and the goal up, or finds nobody waiting.
LEMMA TimeoutKeeps ==
    ASSUME GoalInv, onJudgePromptTimedOut
    PROVE  GoalInv'
<1> USE DEF GoalInv
<1>1. TargetTypes' /\ QueueTypes'
      /\ judgeTimer' = FALSE
      /\ UNCHANGED <<request, index, iteration, corrected, deferPrefix, deferHold, httpBusy,
                     evals, verdicts, sent>>
  BY TypeParts DEF onJudgePromptTimedOut, settingVars, hostVars, targetVars, queueVars, pastVars,
     TargetTypes, QueueTypes
<1>2. CASE Active /\ Awaiting
  <2>1. /\ status' = "failed" /\ deferBackground' = FALSE
        /\ awaitVerdict' = FALSE /\ awaitAuthoring' = FALSE
        /\ judge' = 0 /\ judge' \in 0 .. NumCriteria /\ judgeOpen' = 0
    BY <1>2, RequestFacts DEF onJudgePromptTimedOut, destroyJudgeConnection
  <2>2. SupervisorTypes'
    BY <1>1, <2>1, TypeParts DEF SupervisorTypes, Terminal
  <2>3. JudgeShape'
    BY <1>1, <2>1 DEF JudgeShape, FreshWhenIdle, WaitShape, HttpShape, InertWhenOver,
       JudgePresent, WaitHasWaker, OneVerdictEach, Awaiting, Active, Over, Terminal
  <2> QED
    BY <1>1, <2>2, <2>3, PartsNext
<1>3. CASE ~(Active /\ Awaiting)
  <2>1. UNCHANGED <<status, deferBackground, awaitVerdict, awaitAuthoring, judge, judgeOpen>>
    BY <1>3 DEF onJudgePromptTimedOut, judgeVars
  <2>2. SupervisorTypes'
    BY <1>1, <2>1, TypeParts DEF SupervisorTypes
  <2>3. JudgeShape'
    BY <1>1, <1>3, <2>1 DEF JudgeShape, FreshWhenIdle, WaitShape, HttpShape, InertWhenOver,
       JudgePresent, WaitHasWaker, OneVerdictEach, Awaiting, Active, Over
  <2> QED
    BY <1>1, <2>2, <2>3, PartsNext
<1> QED
  BY <1>2, <1>3

\* Where the exit of the judge finds the supervisor.
LEMMA ExitFacts ==
    ASSUME GoalInv, onJudgeExited
    PROVE  /\ Active /\ judge # 0 /\ ~request.http /\ httpBusy = FALSE /\ judgeOpen \in Nat
           /\ httpBusy' = FALSE /\ corrected' \in BOOLEAN
           /\ QueueTypes'
           /\ UNCHANGED <<request, deferPrefix, deferHold, evals>>
<1>1. /\ Active /\ judge # 0 /\ ~request.http /\ httpBusy = FALSE /\ judgeOpen \in Nat
      /\ httpBusy' = FALSE /\ QueueTypes'
      /\ UNCHANGED <<request, deferPrefix, deferHold, evals>>
  BY TypeParts DEF GoalInv, onJudgeExited, TypeOK, JudgeShape, HttpShape, QueueTypes, queueVars,
     settingVars
<1>2. corrected' \in {corrected, TRUE}
  BY DEF onJudgeExited, ExitWithVerdict, ExitInAuthoring, ExitWithoutVerdict
<1> QED
  BY <1>1, <1>2 DEF GoalInv, TypeOK

\* The judge's process ends: its last reply counts, a handoff goes out, or the
\* goal fails.
LEMMA ExitKeeps ==
    ASSUME GoalInv, onJudgeExited
    PROVE  GoalInv'
<1> USE DEF GoalInv
<1>1. CASE ExitWithVerdict
  <2>1. /\ awaitVerdict /\ awaitAuthoring' = FALSE /\ awaitVerdict' = FALSE
        /\ corrected' = corrected /\ corrected' \in BOOLEAN
        /\ verdicts' = verdicts + 1 /\ evals' = verdicts' /\ evals' \in Nat /\ verdicts' \in Nat
    BY <1>1, ExitFacts, AwaitedVerdict DEF ExitWithVerdict
  <2>2. CASE /\ ~LimitReached /\ iteration' = iteration + 1 /\ UNCHANGED index
             /\ markTerminal("failed")
             /\ judgeOpen' = 0 /\ UNCHANGED judge
             /\ \/ sendPromptToTarget /\ UNCHANGED target
                \/ SessionReplaced
                \/ UNCHANGED <<target, targetVars, sent>>
    <3>0. ASSUME UNCHANGED <<target, targetVars, sent>>
          PROVE  TargetTypes' /\ sent' \in Nat
      BY <3>0, TypeParts DEF TargetTypes, targetVars, SupervisorTypes
    <3>1. TargetTypes' /\ sent' \in Nat /\ iteration' \in 0 .. MaxIterations - 1
      BY <2>2, <3>0, CountedIteration, PromptTypes, ReplacedTypes
    <3>2. /\ status' = "failed" /\ judgeTimer' = FALSE /\ deferBackground' = FALSE
          /\ judge' = judge /\ judge' \in 0 .. NumCriteria /\ judgeOpen' = 0
      BY <2>2 DEF markTerminal, TypeOK
    <3>3. SupervisorTypes'
      <4>1. SupervisorTypes /\ index' = index /\ UNCHANGED <<deferPrefix, deferHold, request>>
        BY ExitFacts, <2>2, TypeParts
      <4> QED
        BY ExitFacts, <2>1, <3>1, <3>2, <4>1 DEF SupervisorTypes, Terminal
    <3>4. JudgeShape'
      BY ExitFacts, <2>1, <3>2, SettledShape DEF Terminal
    <3> QED
      BY ExitFacts, <3>1, <3>3, <3>4, PartsNext
  <2>3. CASE RestartEmpty(0) \/ Exhausted \/ Achieve \/ Unmet
    <3>1. applyJudgeAction(0)
      BY ExitFacts, <2>1, <2>3 DEF applyJudgeAction, Complete
    <3>2. SupervisorTypes' /\ TargetTypes' /\ JudgeShape'
      BY ExitFacts, <2>1, <3>1, VerdictKeeps, 0 \in Nat
    <3> QED
      BY ExitFacts, <3>2, PartsNext
  <2>4. CASE index < NumCriteria /\ advanceCriterion /\ UNCHANGED target
    <3>1. SupervisorTypes' /\ TargetTypes' /\ JudgeShape'
      BY ExitFacts, <2>1, <2>4, AdvancedKeeps DEF Awaiting
    <3> QED
      BY ExitFacts, <3>1, PartsNext
  <2> QED
    BY <1>1, <2>2, <2>3, <2>4 DEF ExitWithVerdict
<1>2. CASE ExitInAuthoring
  <2>1. /\ awaitAuthoring /\ awaitAuthoring' = FALSE /\ advanceCriterion
        /\ UNCHANGED <<target, verdicts, awaitVerdict, corrected>>
    BY <1>2 DEF ExitInAuthoring
  <2>2. SupervisorTypes' /\ TargetTypes' /\ JudgeShape'
    BY ExitFacts, <2>1, HandoffFacts, AdvancedKeeps
  <2> QED
    BY ExitFacts, <2>2, PartsNext
<1>3. CASE ExitWithoutVerdict
  <2>1. /\ status' = "failed" /\ judgeTimer' = FALSE /\ deferBackground' = FALSE
        /\ judge' \in 0 .. NumCriteria /\ judgeOpen' = 0
        /\ awaitAuthoring' = FALSE /\ awaitVerdict' \in BOOLEAN
        /\ UNCHANGED <<index, iteration, target, targetVars, verdicts, sent>>
    <3>1. /\ status' = "failed" /\ judgeTimer' = FALSE /\ deferBackground' = FALSE
          /\ judge' \in {judge, 0} /\ judgeOpen' = 0
          /\ awaitAuthoring' = awaitAuthoring /\ ~awaitAuthoring
          /\ awaitVerdict' \in {awaitVerdict, FALSE}
          /\ UNCHANGED <<index, iteration, target, targetVars, verdicts, sent>>
      BY <1>3 DEF ExitWithoutVerdict, markTerminal
    <3>2. SupervisorTypes /\ 0 \in 0 .. NumCriteria
      BY TypeParts, RequestFacts
    <3> QED
      BY <3>1, <3>2 DEF SupervisorTypes
  <2>2. SupervisorTypes'
    BY ExitFacts, <2>1, TypeParts DEF SupervisorTypes, Terminal
  <2>3. TargetTypes'
    BY <2>1, TypeParts DEF TargetTypes, targetVars
  <2>4. JudgeShape'
    BY ExitFacts, <2>1, <2>2 DEF JudgeShape, FreshWhenIdle, WaitShape, HttpShape, InertWhenOver,
       JudgePresent, WaitHasWaker, OneVerdictEach, Awaiting, Active, Over
  <2> QED
    BY ExitFacts, <2>2, <2>3, <2>4, PartsNext
<1> QED
  BY <1>1, <1>2, <1>3 DEF onJudgeExited

\* The endpoint answers or fails.
LEMMA HttpKeeps ==
    ASSUME GoalInv, HttpVerdict \/ HttpFailed
    PROVE  GoalInv'
<1> USE DEF GoalInv
<1>1. /\ httpBusy /\ httpBusy' = FALSE /\ QueueTypes'
      /\ UNCHANGED <<request, corrected, deferPrefix, deferHold, evals>>
  BY TypeParts DEF HttpVerdict, HttpFailed, settingVars, hostVars, queueVars, pastVars, QueueTypes
<1>2. request.http /\ judge = 0 /\ (Active => awaitVerdict) /\ status # "idle"
  BY <1>1 DEF JudgeShape, HttpShape, FreshWhenIdle
<1>3. CASE HttpVerdict /\ Active
  <2>1. applyJudgeAction(0) /\ awaitVerdict
    BY <1>2, <1>3 DEF HttpVerdict
  <2>2. SupervisorTypes' /\ TargetTypes' /\ JudgeShape'
    BY <1>1, <1>3, <2>1, VerdictKeeps, 0 \in Nat
  <2> QED
    BY <1>1, <2>2, PartsNext
<1>4. CASE HttpFailed /\ Active
  <2>1. /\ awaitVerdict' = FALSE /\ awaitAuthoring' = FALSE /\ status' = "failed"
        /\ judgeTimer' = FALSE /\ deferBackground' = FALSE
        /\ UNCHANGED <<index, iteration, judge, judgeOpen, target, targetVars, evals, verdicts, sent>>
    BY <1>2, <1>4, AwaitedVerdict DEF HttpFailed, markTerminal, hostVars, judgeVars, pastVars
  <2>2. SupervisorTypes'
    BY <1>1, <2>1, TypeParts DEF SupervisorTypes, Terminal
  <2>3. TargetTypes'
    BY <2>1, TypeParts DEF TargetTypes, targetVars
  <2>4. JudgeShape'
    BY <1>1, <1>2, <2>1, <2>2, SettledShape DEF SupervisorTypes, Terminal
  <2> QED
    BY <1>1, <2>2, <2>3, <2>4, PartsNext
<1>5. CASE ~Active
  <2>1. UNCHANGED <<status, index, iteration, awaitVerdict, awaitAuthoring, judgeTimer,
                    deferBackground, judge, judgeOpen, target, targetVars, verdicts, sent>>
    BY <1>5 DEF HttpVerdict, HttpFailed, goalVars, judgeVars, hostVars, pastVars
  <2>2. SupervisorTypes'
    BY <1>1, <2>1, TypeParts DEF SupervisorTypes
  <2>4. TargetTypes'
    BY <2>1, TypeParts DEF TargetTypes, targetVars
  <2>3. JudgeShape'
    BY <1>1, <1>2, <1>5, <2>1 DEF JudgeShape, FreshWhenIdle, WaitShape, HttpShape, InertWhenOver,
       JudgePresent, WaitHasWaker, OneVerdictEach, Awaiting, Active, Over
  <2> QED
    BY <1>1, <2>2, <2>3, <2>4, PartsNext
<1> QED
  BY <1>3, <1>4, <1>5

-----------------------------------------------------------------------------
(* The invariance theorems *)

\* Every step preserves GoalInv.
LEMMA NextGoalInv == GoalInv /\ [Next]_vars => GoalInv'
<1> SUFFICES ASSUME GoalInv, [Next]_vars PROVE GoalInv'
  OBVIOUS
<1>1. CASE UserStep
  BY <1>1, StartKeeps, StartIdleKeeps, StopKeeps, RemoveKeeps, OthersKeep DEF UserStep
<1>2. CASE TargetStep
  BY <1>2, OthersKeep, TargetKeeps, FlushKeeps DEF TargetStep
<1>3. CASE JudgeStep
  BY <1>3, ToolVerdictKeeps, JudgeAnswerKeeps, TimeoutKeeps, ExitKeeps, HttpKeeps DEF JudgeStep
<1>4. CASE UNCHANGED vars
  <2>1. UNCHANGED <<supervisorVars, hostVars>>
    BY <1>4 DEF vars
  <2>2. SupervisorTypes' /\ JudgeShape'
    BY <2>1, TypeParts, SameShape DEF GoalInv, supervisorVars, goalVars, waitVars, deferVars,
       judgeVars, pastVars, SupervisorTypes
  <2>3. TargetTypes' /\ QueueTypes'
    BY <2>1, TypeParts DEF GoalInv, hostVars, targetVars, queueVars, TargetTypes, QueueTypes
  <2> QED
    BY <2>2, <2>3, PartsNext
<1> QED
  BY <1>1, <1>2, <1>3, <1>4 DEF Next

\* The types and the judge's side are an invariant of every execution.
THEOREM GoalInvariance == Spec => []GoalInv
  BY InitGoalInv, NextGoalInv, PTL DEF Spec

\* Every variable keeps its type; the iteration stays below the cap and the
\* cursor on a criterion (consumeIfMaxIterations, finalizeHandoff).
THEOREM TypeCorrect == Spec => []TypeOK
<1>1. GoalInv => TypeOK
  BY DEF GoalInv
<1> QED
  BY <1>1, GoalInvariance, PTL

\* A criterion is judged by the connection spawned for it.
THEOREM JudgeOfItsOwn == Spec => []JudgePresent
<1>1. GoalInv => JudgePresent
  BY DEF GoalInv, JudgeShape
<1> QED
  BY <1>1, GoalInvariance, PTL

\* A supervisor that waits for the judge has its timeout armed, or its HTTP
\* request out (armJudgePromptTimeout).
THEOREM WaiterIsWoken == Spec => []WaitHasWaker
<1>1. GoalInv => WaitHasWaker
  BY DEF GoalInv, JudgeShape
<1> QED
  BY <1>1, GoalInvariance, PTL

\* One evaluation, one verdict, in spite of tool calls, late answers, exits.
THEOREM VerdictsCounted == Spec => []OneVerdictEach
<1>1. GoalInv => OneVerdictEach
  BY DEF GoalInv, JudgeShape
<1> QED
  BY <1>1, GoalInvariance, PTL

-----------------------------------------------------------------------------
(* What a step may never do *)

\* A goal that is over is not moved by anything that is still under way.
LEMMA OverStep ==
    ASSUME GoalInv, Over, [Next]_vars
    PROVE  sent' = sent /\ evals' = evals /\ status' = status
<1>0. ~Active /\ status # "idle" /\ (judge = 0 \/ judgeOpen = 0 \/ ~Awaiting)
  BY DEF Over, Terminal, Active, GoalInv, JudgeShape, InertWhenOver
<1>1. CASE UserStep
  <2>1. CASE \E i \in 1 .. QueueLimit : RemoveQueued(i)
    BY <1>0, <2>1 DEF RemoveQueued, noteDeferredGoalDropped, NoEvaluation, goalVars
  <2>2. CASE UserSends \/ UserRestarts \/ TargetDestroyed
    BY <1>0, <2>2 DEF UserSends, UserRestarts, TargetDestroyed, supervisorVars, goalVars, pastVars
  <2> QED
    BY <1>0, <1>1, <2>1, <2>2 DEF UserStep, StartWithPrompt, StartAttachedPrefix,
       StartAttachedBusy, StartAttachedIdle, Stop
<1>2. CASE TargetStep
  <2>1. CASE TurnEnds \/ TargetExits \/ backgroundIdle
    BY <1>0, <2>1 DEF TurnEnds, TargetExits, backgroundIdle, onTargetPromptEnded, MaySettle,
       NoEvaluation, goalVars
  <2>2. CASE flushQueuedPrompt
    BY <2>2 DEF flushQueuedPrompt, goalVars, pastVars
  <2> QED
    BY <1>2, <2>1, <2>2 DEF TargetStep, FormCancelled, SessionReady, WakeUpTurn, TaskStarts,
       TasksFinish, supervisorVars, goalVars, pastVars
<1>3. CASE JudgeStep
  <2>1. CASE JudgeAnswers
    BY <1>0, <2>1, TypeParts DEF JudgeAnswers, onJudgePromptEnded, Awaiting, goalVars, GoalInv,
       SupervisorTypes
  <2>2. CASE onJudgePromptTimedOut \/ HttpVerdict \/ HttpFailed
    BY <1>0, <2>2 DEF onJudgePromptTimedOut, HttpVerdict, HttpFailed, goalVars, pastVars
  <2> QED
    BY <1>0, <1>3, <2>1, <2>2 DEF JudgeStep, considerJudgeVerdict, onJudgeExited
<1>4. CASE UNCHANGED vars
  BY <1>4 DEF vars, supervisorVars, goalVars, pastVars
<1> QED
  BY <1>1, <1>2, <1>3, <1>4 DEF Next

\* After the goal the supervisor sends nothing, asks nothing and stays as it is.
THEOREM EndIsSilent == Spec => SilentAfterEnd
<1>1. GoalInv /\ [Next]_vars
        => [Over => sent' = sent /\ evals' = evals /\ status' = status]_vars
  BY OverStep
<1> QED
  BY <1>1, GoalInvariance, PTL DEF Spec, SilentAfterEnd

\* An evaluation starts only where evaluateWhenTargetSettled finds the target
\* at rest.
LEMMA SettledStep ==
    ASSUME GoalInv, Next, evals' # evals
    PROVE  ~processing' /\ background' = "none" /\ ~notice'
<1>1. CASE StartAttachedIdle
  BY <1>1 DEF StartAttachedIdle, hostVars, targetVars, queueVars
<1>2. CASE \E i \in 1 .. QueueLimit : RemoveQueued(i)
  BY <1>2 DEF RemoveQueued, noteDeferredGoalDropped, evaluateWhenTargetSettled, NoEvaluation,
     targetVars
<1>3. CASE TurnEnds
  BY <1>3 DEF TurnEnds, onTargetPromptEnded, evaluateWhenTargetSettled, NoEvaluation, queueVars,
     Target!End
<1>4. CASE TargetExits
  BY <1>4 DEF TargetExits, onTargetPromptEnded, evaluateWhenTargetSettled, NoEvaluation, queueVars,
     Target!Exit
<1>5. CASE backgroundIdle
  BY <1>5 DEF backgroundIdle, evaluateWhenTargetSettled, NoEvaluation, queueVars, Target!GraceOver
<1>6. CASE UserStep /\ ~StartAttachedIdle /\ ~(\E i \in 1 .. QueueLimit : RemoveQueued(i))
  BY <1>6 DEF UserStep, StartWithPrompt, StartAttachedPrefix, StartAttachedBusy, Stop, UserSends,
     UserRestarts, TargetDestroyed, supervisorVars, pastVars
<1>7. CASE TargetStep /\ ~TurnEnds /\ ~TargetExits /\ ~backgroundIdle
  BY <1>7 DEF TargetStep, FormCancelled, flushQueuedPrompt, SessionReady, WakeUpTurn, TaskStarts,
     TasksFinish, supervisorVars, pastVars
<1>8. CASE JudgeStep
  BY <1>8 DEF JudgeStep, considerJudgeVerdict, JudgeAnswers, onJudgePromptTimedOut, onJudgeExited,
     HttpVerdict, HttpFailed, pastVars
<1> QED
  BY <1>1, <1>2, <1>3, <1>4, <1>5, <1>6, <1>7, <1>8 DEF Next

\* No judge is asked in the middle of a turn, over background work or ahead of
\* the notice of a cancelled form.
THEOREM SettledIsJudged == Spec => JudgesSettledTarget
<1>1. GoalInv /\ [Next]_vars
        => [evals' > evals => ~processing' /\ background' = "none" /\ ~notice']_vars
  <2> SUFFICES ASSUME GoalInv, Next, evals' > evals
               PROVE  ~processing' /\ background' = "none" /\ ~notice'
    OBVIOUS
  <2>1. evals' # evals
    BY DEF GoalInv, TypeOK
  <2> QED
    BY <2>1, SettledStep
<1> QED
  BY <1>1, GoalInvariance, PTL DEF Spec, JudgesSettledTarget

-----------------------------------------------------------------------------
(* A live goal is always driven.                                             *)

HasGoal == \E i \in DOMAIN queue : queue[i] = "goal"

\* A turn runs in a session only, and a postponed /goal is still queued: its
\* flush, its removal and the notice that goes out ahead of it clear the flag.
DriveShape ==
    /\ processing => session
    /\ deferPrefix => HasGoal

DriveInv == DriveShape /\ AlwaysDriven

\* What is sent to a target that is up runs or waits for its session.
LEMMA DeliveredRuns ==
    ASSUME DriveShape, DeliverToTarget
    PROVE  /\ processing' => session'
           /\ target = "up" => processing' \/ pending'
           /\ processing => processing'
           /\ pending => pending'
  BY DEF DriveShape, DeliverToTarget, targetVars, Target!Deliver, Target!TurnStarts

\* A settled target leaves the supervisor asking, postponing or over.
LEMMA SettleDrives ==
    ASSUME GoalInv, NEW work, evaluateWhenTargetSettled(work)
    PROVE  \/ Awaiting' \/ status' # "active"
           \/ deferBackground' /\ work # "none"
           \/ deferHold' /\ notice
  BY DEF evaluateWhenTargetSettled, evaluateCurrentCriterion, EvaluateHttp, EvaluateAcp, Awaiting

\* A step that takes no driver away keeps the goal driven.
LEMMA DriversStay ==
    ASSUME AlwaysDriven,
           target' = "up" => target = "up",
           status' = "active" => Active,
           Awaiting => Awaiting',
           processing \/ pending => processing' \/ pending' \/ Awaiting',
           deferBackground /\ background # "none" =>
               (deferBackground' /\ background' # "none") \/ processing' \/ pending',
           deferHold /\ notice => (deferHold' /\ notice') \/ processing' \/ pending',
           deferPrefix /\ (notice \/ HasGoal) =>
               (deferPrefix' /\ (notice' \/ HasGoal')) \/ processing' \/ pending'
    PROVE  AlwaysDriven'
  BY DEF AlwaysDriven, Active, HasGoal

\* What is queued stays queued when another item is added, is taken out, or
\* leaves at the head.
LEMMA AppendStays ==
    ASSUME NEW S, NEW q \in Seq(S), NEW x \in S, NEW j \in DOMAIN q
    PROVE  j \in DOMAIN Append(q, x) /\ Append(q, x)[j] = q[j]
  OBVIOUS

LEMMA RemoveStays ==
    ASSUME NEW S, NEW q \in Seq(S), NEW j \in DOMAIN q, NEW i \in DOMAIN q, i # j,
           NEW r, r = [k \in 1 .. Len(q) - 1 |-> q[IF k < i THEN k ELSE k + 1]]
    PROVE  \E k \in DOMAIN r : r[k] = q[j]
<1>1. Len(q) \in Nat /\ DOMAIN q = 1 .. Len(q) /\ j \in 1 .. Len(q) /\ i \in 1 .. Len(q)
  OBVIOUS
<1>2. CASE j < i
  <2>1. j \in DOMAIN r /\ r[j] = q[j]
    BY <1>1, <1>2
  <2> QED
    BY <2>1
<1>3. CASE j > i
  <2>1. j - 1 \in DOMAIN r /\ r[j - 1] = q[j]
    BY <1>1, <1>3
  <2> QED
    BY <2>1
<1> QED
  BY <1>1, <1>2, <1>3

LEMMA TailStays ==
    ASSUME NEW S, NEW q \in Seq(S), NEW j \in DOMAIN q, j # 1
    PROVE  j - 1 \in DOMAIN Tail(q) /\ Tail(q)[j - 1] = q[j]
  OBVIOUS

\* A goal driven by its target: what it was given runs or waits.
LEMMA DrivenByTarget ==
    ASSUME target' = "up" /\ status' = "active" => processing' \/ pending' \/ Awaiting'
    PROVE  AlwaysDriven'
  BY DEF AlwaysDriven, Active

\* Starting a goal sends something, waits for a turn or settles.
LEMMA StartDrives ==
    ASSUME GoalInv, DriveInv,
           StartWithPrompt \/ StartAttachedPrefix \/ StartAttachedBusy \/ StartAttachedIdle
    PROVE  DriveInv'
<1> USE DEF DriveInv
<1>1. CASE StartWithPrompt
  <2>1. (processing' => session') /\ (target' = "up" => processing' \/ pending')
    BY <1>1, DeliveredRuns DEF StartWithPrompt
  <2>2. deferPrefix' => HasGoal'
    <3>1. CASE queue' = Append(queue, "goal")
      BY <3>1 DEF HasGoal, GoalInv, TypeOK
    <3>2. CASE UNCHANGED <<deferPrefix, queue>>
      BY <3>2 DEF DriveShape, HasGoal
    <3> QED
      BY <1>1, <3>1, <3>2 DEF StartWithPrompt, sendFirstCriterionGoal
  <2> QED
    BY <2>1, <2>2, DrivenByTarget DEF DriveShape
<1>2. CASE StartAttachedPrefix
  <2>1. (processing' => session') /\ (target' = "up" => processing' \/ pending')
    BY <1>2, DeliveredRuns DEF StartAttachedPrefix, targetVars, DriveShape
  <2>2. deferPrefix' => HasGoal'
    <3>1. CASE queue' = Append(queue, "goal")
      BY <3>1 DEF HasGoal, GoalInv, TypeOK
    <3>2. CASE UNCHANGED <<deferPrefix, queue>>
      BY <3>2 DEF DriveShape, HasGoal
    <3> QED
      BY <1>2, <3>1, <3>2 DEF StartAttachedPrefix, sendFirstCriterionGoal
  <2> QED
    BY <2>1, <2>2, DrivenByTarget DEF DriveShape
<1>3. CASE StartAttachedBusy
  BY <1>3, DrivenByTarget DEF StartAttachedBusy, hostVars, targetVars, queueVars, deferVars,
     DriveShape, HasGoal
<1>4. CASE StartAttachedIdle
  <2>1. DriveShape'
    BY <1>4 DEF StartAttachedIdle, hostVars, targetVars, queueVars, DriveShape, HasGoal
  <2>2. \/ Awaiting' \/ status' # "active"
        \/ deferBackground' /\ background' # "none"
        \/ deferHold' /\ notice'
    BY <1>4 DEF StartAttachedIdle, hostVars, targetVars, queueVars, Awaiting
  <2> QED
    BY <2>1, <2>2 DEF AlwaysDriven, Active
<1> QED
  BY <1>1, <1>2, <1>3, <1>4

\* Taking an item out of the queue hands the goal on when the item was its own.
LEMMA RemoveDrives ==
    ASSUME GoalInv, DriveInv, NEW i \in 1 .. QueueLimit, RemoveQueued(i)
    PROVE  DriveInv'
<1> USE DEF DriveInv
<1>1. /\ queue \in Seq({"user", "goal"}) /\ i \in DOMAIN queue
      /\ UNCHANGED <<target, session, pending, processing, background, notice>>
  BY DEF RemoveQueued, GoalInv, TypeOK, targetVars
<1>2. CASE queue[i] # "goal"
  <2>1. HasGoal => HasGoal'
    <3>1. SUFFICES ASSUME NEW j \in DOMAIN queue, queue[j] = "goal" PROVE HasGoal'
      BY DEF HasGoal
    <3>2. i # j /\ queue' = [k \in 1 .. Len(queue) - 1 |-> queue[IF k < i THEN k ELSE k + 1]]
      BY <1>2, <3>1 DEF RemoveQueued
    <3>3. \E k \in DOMAIN queue' : queue'[k] = queue[j]
      <4>1. queue \in Seq({"user", "goal"}) /\ j \in DOMAIN queue /\ i \in DOMAIN queue /\ i # j
        BY <1>1, <3>1, <3>2
      <4>2. \A r : r = [k \in 1 .. Len(queue) - 1 |-> queue[IF k < i THEN k ELSE k + 1]]
                    => \E k \in DOMAIN r : r[k] = queue[j]
        BY <4>1, RemoveStays, Zenon
      <4> QED
        BY <3>2, <4>2, Zenon
    <3> QED
      BY <3>1, <3>3 DEF HasGoal
  <2>2. UNCHANGED <<deferPrefix, deferBackground, deferHold, status, awaitVerdict, awaitAuthoring>>
    BY <1>2 DEF RemoveQueued, NoEvaluation, deferVars, goalVars, waitVars
  <2>3. DriveShape'
    BY <1>1, <2>1, <2>2 DEF DriveShape
  <2>4. AlwaysDriven'
    BY <1>1, <2>1, <2>2, DriversStay DEF Active, Awaiting
  <2> QED
    BY <2>3, <2>4
<1>3. CASE queue[i] = "goal"
  <2>1. noteDeferredGoalDropped /\ deferPrefix' = FALSE
    BY <1>3 DEF RemoveQueued, noteDeferredGoalDropped
  <2>2. DriveShape'
    BY <1>1, <2>1 DEF DriveShape
  <2>3. CASE (deferPrefix \/ deferHold) /\ Active /\ ~Awaiting /\ ~processing
    <3>1. \/ evaluateWhenTargetSettled("none")
          \/ deferBackground' /\ background # "none"
      BY <2>1, <2>3 DEF noteDeferredGoalDropped
    <3>2. AlwaysDriven'
      BY <1>1, <3>1, SettleDrives DEF AlwaysDriven, Active
    <3> QED
      BY <2>2, <3>2
  <2>4. CASE ~((deferPrefix \/ deferHold) /\ Active /\ ~Awaiting /\ ~processing)
    <3>1. /\ UNCHANGED <<status, awaitVerdict, awaitAuthoring>>
          /\ deferBackground => deferBackground'
      BY <2>1, <2>4 DEF noteDeferredGoalDropped, NoEvaluation, goalVars, waitVars
    <3>2. AlwaysDriven'
      BY <1>1, <2>4, <3>1 DEF AlwaysDriven, Active, Awaiting
    <3> QED
      BY <2>2, <3>2
  <2> QED
    BY <2>3, <2>4
<1> QED
  BY <1>2, <1>3

\* The other steps of the user: what he sends runs, what he stops is over,
\* what he takes away is no longer up.
LEMMA UserDrives ==
    ASSUME GoalInv, DriveInv, Stop \/ UserSends \/ UserRestarts \/ TargetDestroyed
    PROVE  DriveInv'
<1> USE DEF DriveInv
<1>1. CASE Stop
  BY <1>1 DEF Stop, markTerminal, hostVars, targetVars, queueVars, DriveShape, HasGoal,
     AlwaysDriven, Active
<1>2. CASE UserRestarts \/ TargetDestroyed
  BY <1>2 DEF UserRestarts, TargetDestroyed, queueVars, supervisorVars, deferVars, DriveShape,
     HasGoal, AlwaysDriven
<1>3. CASE UserSends
  <2>1. UNCHANGED supervisorVars /\ UNCHANGED <<target, notice>>
    BY <1>3 DEF UserSends
  <2>2. /\ processing' => session'
        /\ target = "up" => processing' \/ pending'
    BY <1>3, DeliveredRuns DEF UserSends, DriveShape, targetVars
  <2>3. HasGoal => HasGoal'
    <3>1. SUFFICES ASSUME NEW j \in DOMAIN queue, queue[j] = "goal" PROVE HasGoal'
      BY DEF HasGoal
    <3>2. queue' = queue \/ queue' = Append(queue, "user")
      BY <1>3 DEF UserSends
    <3>3. j \in DOMAIN queue' /\ queue'[j] = "goal"
      <4>1. queue \in Seq({"user", "goal"}) /\ "user" \in {"user", "goal"}
        BY DEF GoalInv, TypeOK
      <4>2. j \in DOMAIN Append(queue, "user") /\ Append(queue, "user")[j] = queue[j]
        BY <3>1, <4>1, AppendStays
      <4> QED
        BY <3>1, <3>2, <4>2
    <3> QED
      BY <3>3 DEF HasGoal
  <2>4. DriveShape'
    BY <2>1, <2>2, <2>3 DEF DriveShape, supervisorVars, deferVars
  <2>5. AlwaysDriven'
    BY <2>1, <2>2, DrivenByTarget
  <2> QED
    BY <2>4, <2>5
<1> QED
  BY <1>1, <1>2, <1>3

\* A turn that ends, and background work that is over, hand a goal on that
\* nothing else drives.
LEMMA TurnEndDrives ==
    ASSUME GoalInv, DriveInv, TurnEnds \/ TargetExits \/ backgroundIdle
    PROVE  DriveInv'
<1> USE DEF DriveInv
<1>1. DriveShape'
  BY DEF TurnEnds, TargetExits, backgroundIdle, queueVars, DriveShape, HasGoal, Target!End,
     Target!Exit, Target!GraceOver
<1>2. CASE TargetExits
  BY <1>1, <1>2 DEF TargetExits, AlwaysDriven
<1>3. CASE TurnEnds
  <2>1. UNCHANGED <<target, background, pending, notice, queue, deferPrefix>>
    BY <1>3 DEF TurnEnds, queueVars, Target!End
  <2>2. CASE MaySettle
    BY <1>1, <1>3, <2>1, <2>2, SettleDrives DEF TurnEnds, onTargetPromptEnded, AlwaysDriven,
       Active, Target!End
  <2>3. CASE ~MaySettle
    <3>1. UNCHANGED <<status, awaitVerdict, awaitAuthoring>>
      BY <1>3, <2>3 DEF TurnEnds, onTargetPromptEnded, NoEvaluation, goalVars, waitVars
    <3>2. status' = "active" => Awaiting' \/ (deferPrefix' /\ HasGoal')
      BY <2>1, <2>3, <3>1 DEF MaySettle, Active, Awaiting, DriveShape, HasGoal
    <3> QED
      BY <1>1, <3>2 DEF AlwaysDriven, HasGoal, Active
  <2> QED
    BY <2>2, <2>3
<1>4. CASE backgroundIdle
  <2>1. UNCHANGED <<target, processing, pending, notice, queue, deferPrefix>>
    BY <1>4 DEF backgroundIdle, queueVars, Target!GraceOver
  <2>2. CASE deferBackground /\ MaySettle /\ ~processing
    <3>1. evaluateWhenTargetSettled("none")
      BY <1>4, <2>2 DEF backgroundIdle
    <3>2. Awaiting' \/ status' # "active" \/ (deferHold' /\ notice')
      <4>1. \/ Awaiting' \/ status' # "active"
            \/ deferBackground' /\ "none" # "none"
            \/ deferHold' /\ notice
        BY <3>1, SettleDrives
      <4> QED
        BY <2>1, <4>1
    <3> QED
      BY <1>1, <3>2 DEF AlwaysDriven, Active
  <2>3. CASE ~(deferBackground /\ MaySettle /\ ~processing)
    <3>1. UNCHANGED <<status, awaitVerdict, awaitAuthoring, deferBackground, deferHold>>
      BY <1>4, <2>3 DEF backgroundIdle, NoEvaluation, goalVars, waitVars
    <3>2. Active /\ deferBackground => Awaiting \/ processing \/ (deferPrefix /\ HasGoal)
      BY <2>3 DEF MaySettle, DriveShape
    <3>3. AlwaysDriven'
      BY <2>1, <3>1, <3>2 DEF AlwaysDriven, Active, Awaiting, HasGoal
    <3> QED
      BY <1>1, <3>3
  <2> QED
    BY <2>2, <2>3
<1> QED
  BY <1>2, <1>3, <1>4

\* The rest of what the target and the composer do starts a turn, or leaves
\* the drivers as they are.
LEMMA TargetDrives ==
    ASSUME GoalInv, DriveInv,
           \/ FormCancelled \/ flushQueuedPrompt \/ SessionReady \/ WakeUpTurn
           \/ TaskStarts \/ TasksFinish
    PROVE  DriveInv'
<1> USE DEF DriveInv
<1>1. CASE FormCancelled
  BY <1>1, DrivenByTarget DEF FormCancelled, supervisorVars, deferVars, targetVars, DriveShape, HasGoal
<1>2. CASE flushQueuedPrompt
  <2>1. (processing' => session') /\ (target' = "up" => processing' \/ pending')
    BY <1>2, DeliveredRuns DEF flushQueuedPrompt
  <2>2. deferPrefix' => HasGoal'
    <3>1. SUFFICES ASSUME deferPrefix' PROVE HasGoal'
      OBVIOUS
    <3>2. /\ deferPrefix /\ queue \in Seq({"user", "goal"})
          /\ queue # <<>> /\ queue' = Tail(queue) /\ Head(queue) # "goal"
      BY <1>2, <3>1 DEF flushQueuedPrompt, GoalInv, TypeOK
    <3>3. PICK j \in DOMAIN queue : queue[j] = "goal"
      BY <3>2 DEF DriveShape, HasGoal
    <3>4. j # 1
      BY <3>2, <3>3
    <3>5. j - 1 \in DOMAIN Tail(queue) /\ Tail(queue)[j - 1] = queue[j]
      BY <3>2, <3>4, TailStays
    <3> QED
      BY <3>2, <3>3, <3>5 DEF HasGoal
  <2> QED
    BY <2>1, <2>2, DrivenByTarget DEF DriveShape
<1>3. CASE WakeUpTurn
  BY <1>3, DrivenByTarget DEF WakeUpTurn, supervisorVars, deferVars, queueVars,
     DriveShape, HasGoal, Target!Wake, Target!TurnStarts
<1>4. CASE SessionReady \/ TaskStarts \/ TasksFinish
  <2>1. UNCHANGED <<supervisorVars, queueVars, target>>
    BY <1>4 DEF SessionReady, TaskStarts, TasksFinish
  <2>2. /\ processing \/ pending => processing' \/ pending'
        /\ processing' => session'
        /\ background # "none" => background' # "none"
    BY <1>4 DEF SessionReady, TaskStarts, TasksFinish, DriveShape, Target!Ready,
       Target!TasksStart, Target!TasksFinish
  <2>3. DriveShape'
    BY <2>1, <2>2 DEF DriveShape, supervisorVars, deferVars, queueVars, HasGoal
  <2>4. AlwaysDriven'
    BY <2>1, <2>2, DriversStay DEF supervisorVars, goalVars, waitVars, deferVars, queueVars,
       Active, Awaiting, HasGoal
  <2> QED
    BY <2>3, <2>4
<1> QED
  BY <1>1, <1>2, <1>3, <1>4

\* The next criterion's text goes to the target, or the goal fails.
LEMMA AdvanceDrives ==
    ASSUME DriveShape, advanceCriterion, UNCHANGED target
    PROVE  /\ processing' => session'
           /\ target' = "up" /\ status' = "active" => processing' \/ pending'
  BY DeliveredRuns DEF advanceCriterion, sendPromptToTarget, markTerminal, targetVars, DriveShape

\* A verdict sends something to the target, asks for a handoff or ends the goal.
LEMMA VerdictDrives ==
    ASSUME DriveShape, NEW open, applyJudgeAction(open)
    PROVE  /\ processing' => session'
           /\ target' = "up" /\ status' = "active" => processing' \/ pending' \/ Awaiting'
<1>1. CASE Continue(open)
  BY <1>1, DeliveredRuns DEF Continue, sendPromptToTarget
<1>2. CASE Restart(open)
  BY <1>2 DEF Restart, restartWatchedSession, SessionReplaced, targetVars, DriveShape
<1>3. CASE RestartEmpty(open) \/ HandBack
  BY <1>3 DEF RestartEmpty, HandBack, markTerminal, targetVars, DriveShape
<1>4. CASE NextAfterLimit \/ HandOffRaw
  BY <1>4, AdvanceDrives DEF NextAfterLimit, HandOffRaw
<1>5. CASE Achieve
  <2>1. status' = "achieved"
    BY <1>5 DEF Achieve, markTerminal
  <2>2. processing' => session'
    BY <1>5, DeliveredRuns DEF Achieve, targetVars, DriveShape
  <2> QED
    BY <2>1, <2>2
<1>6. CASE BeginAuthoring(open)
  BY <1>6 DEF BeginAuthoring, targetVars, DriveShape, Awaiting
<1> QED
  BY <1>1, <1>2, <1>3, <1>4, <1>5, <1>6 DEF applyJudgeAction, Exhausted, Complete, Unmet

\* The judge's steps hand the goal to the target, keep waiting, or end it.
LEMMA JudgeDrives ==
    ASSUME GoalInv, DriveInv, JudgeStep
    PROVE  DriveInv'
<1> USE DEF DriveInv
<1>1. (deferPrefix' = deferPrefix) /\ UNCHANGED <<queue, notice, deferHold>>
  BY DEF JudgeStep, considerJudgeVerdict, JudgeAnswers, onJudgePromptTimedOut, onJudgeExited,
     HttpVerdict, HttpFailed, hostVars, queueVars
<1>2. ASSUME processing' => session',
             target' = "up" /\ status' = "active" => processing' \/ pending' \/ Awaiting'
      PROVE  DriveInv'
  BY <1>1, <1>2, DrivenByTarget DEF DriveShape, HasGoal
<1>3. ASSUME UNCHANGED <<target, targetVars>>,
             status' = "active" => Active /\ Awaiting' = Awaiting /\ deferBackground' = deferBackground
      PROVE  DriveInv'
  <2>1. DriveShape'
    BY <1>1, <1>3 DEF DriveShape, HasGoal, targetVars
  <2>2. AlwaysDriven'
    BY <1>1, <1>3 DEF AlwaysDriven, Active, targetVars
  <2> QED
    BY <2>1, <2>2
<1>4. CASE \E open \in {0, judgeOpen} : applyJudgeAction(open)
  BY <1>2, <1>4, VerdictDrives
<1>5. CASE advanceCriterion /\ UNCHANGED target
  BY <1>2, <1>5, AdvanceDrives
<1>6. CASE onJudgePromptTimedOut
  BY <1>3, <1>6 DEF onJudgePromptTimedOut, hostVars, Active, Awaiting
<1>7. CASE HttpFailed
  BY <1>3, <1>7 DEF HttpFailed, hostVars, markTerminal, Active, Awaiting
<1>8. CASE HttpVerdict
  <2>1. CASE Active
    BY <1>4, <1>8, <2>1 DEF HttpVerdict
  <2>2. CASE ~Active
    BY <1>3, <1>8, <2>2 DEF HttpVerdict, goalVars, Active
  <2> QED
    BY <2>1, <2>2
<1>9. CASE considerJudgeVerdict
  BY <1>4, <1>9 DEF considerJudgeVerdict
<1>10. CASE JudgeAnswers
  <2>1. CASE (AskAgain \/ ParseFailure) /\ UNCHANGED <<target, targetVars>>
    BY <1>3, <2>1 DEF AskAgain, ParseFailure, markTerminal, goalVars, Awaiting, Active
  <2>2. CASE UNCHANGED <<goalVars, waitVars, targetVars, deferBackground, target>>
    BY <1>3, <2>2 DEF goalVars, waitVars, Active, Awaiting
  <2> QED
    BY <1>4, <1>5, <1>10, <2>1, <2>2 DEF JudgeAnswers, onJudgePromptEnded
<1>11. CASE onJudgeExited
  <2>1. CASE ExitWithVerdict
    <3>1. CASE /\ markTerminal("failed")
               /\ \/ sendPromptToTarget /\ UNCHANGED target
                  \/ SessionReplaced
                  \/ UNCHANGED <<target, targetVars, sent>>
      BY <1>2, <1>3, <3>1, DeliveredRuns DEF sendPromptToTarget, SessionReplaced, markTerminal
    <3>2. CASE RestartEmpty(0) \/ Exhausted \/ Achieve \/ Unmet
      BY <1>4, <1>11, <2>1, <3>2 DEF applyJudgeAction, Complete, ExitWithVerdict, onJudgeExited
    <3> QED
      BY <1>5, <2>1, <3>1, <3>2 DEF ExitWithVerdict
  <2>2. CASE ExitInAuthoring
    BY <1>5, <2>2 DEF ExitInAuthoring
  <2>3. CASE ExitWithoutVerdict
    BY <1>3, <2>3 DEF ExitWithoutVerdict, markTerminal
  <2> QED
    BY <1>11, <2>1, <2>2, <2>3 DEF onJudgeExited
<1> QED
  BY <1>6, <1>7, <1>8, <1>9, <1>10, <1>11 DEF JudgeStep

\* Every step keeps a live goal driven.
LEMMA NextDriveInv == GoalInv /\ DriveInv /\ [Next]_vars => DriveInv'
<1> SUFFICES ASSUME GoalInv, DriveInv, [Next]_vars PROVE DriveInv'
  OBVIOUS
<1>1. CASE UserStep
  BY <1>1, StartDrives, RemoveDrives, UserDrives DEF UserStep
<1>2. CASE TargetStep
  BY <1>2, TurnEndDrives, TargetDrives DEF TargetStep
<1>3. CASE UNCHANGED vars
  BY <1>3 DEF vars, supervisorVars, hostVars, goalVars, waitVars, deferVars, targetVars, queueVars,
     DriveInv, DriveShape, AlwaysDriven, HasGoal, Active, Awaiting
<1> QED
  BY <1>1, <1>2, <1>3, JudgeDrives DEF Next

\* A live goal is never left without something that drives it on: whatever a
\* handler postpones, another handler is there to resume.
THEOREM NeverAbandoned == Spec => []AlwaysDriven
<1>1. Init => DriveInv
  BY DEF Init, DriveInv, DriveShape, AlwaysDriven, Active
<1>2. DriveInv => AlwaysDriven
  BY DEF DriveInv
<1> QED
  BY <1>1, <1>2, NextDriveInv, GoalInvariance, PTL DEF Spec

-----------------------------------------------------------------------------
(* The supervisor does what a goal may do *)

CourseStep == [Course!Next]_(Course!vars)

\* What touches neither the goal nor what it waits for is no step of the goal.
LEMMA StaysOnCourse ==
    ASSUME UNCHANGED <<status, index, iteration, awaitVerdict, awaitAuthoring, evals>>
    PROVE  CourseStep
  BY DEF CourseStep, Course!vars, Phase, Active

\* Giving the goal up, on the spot or on the way to the next round.
LEMMA GivenUp ==
    ASSUME Active, status' \in {"cancelled", "failed"}, evals' = evals,
           \/ UNCHANGED <<index, iteration>>
           \/ /\ awaitVerdict /\ iteration + 1 < MaxIterations
              /\ iteration' = iteration + 1 /\ index' = index
           \/ /\ Awaiting /\ index < NumCriteria
              /\ index' = index + 1 /\ iteration' = 0
    PROVE  CourseStep
<1>1. Phase' = "none"
  BY DEF Phase, Active
<1>2. (awaitVerdict => Phase = "judging") /\ (Awaiting => Phase \in {"judging", "handing"})
  BY DEF Phase, Awaiting
<1>3. Course!GiveUp
  BY <1>1, <1>2 DEF Course!GiveUp, Course!Active, Active, Course!SameCriterion, Course!NextRound,
     Course!NextCriterion
<1> QED
  BY <1>3 DEF CourseStep, Course!Next

\* Going on: the same criterion once more, or the next one.
LEMMA GoneOn ==
    ASSUME Active, status' = status, evals' = evals,
           awaitVerdict' = FALSE, awaitAuthoring' = FALSE,
           \/ /\ awaitVerdict /\ iteration + 1 < MaxIterations
              /\ iteration' = iteration + 1 /\ index' = index
           \/ /\ Awaiting /\ index < NumCriteria
              /\ index' = index + 1 /\ iteration' = 0
    PROVE  CourseStep
<1>1. Phase' = "working"
  BY DEF Phase, Active
<1>2. (awaitVerdict => Phase = "judging") /\ (Awaiting => Phase \in {"judging", "handing"})
  BY DEF Phase, Awaiting
<1>3. Course!GoOn
  BY <1>1, <1>2 DEF Course!GoOn, Course!Active, Active, Course!NextRound, Course!NextCriterion
<1> QED
  BY <1>3 DEF CourseStep, Course!Next

\* The iteration that is counted is one more below the cap.
LEMMA RoundLeft ==
    ASSUME TypeOK, ~LimitReached
    PROVE  iteration + 1 < MaxIterations
  BY RequestFacts DEF LimitReached

\* The next criterion's text goes out, or its judge is missing.
LEMMA AdvanceOnCourse ==
    ASSUME Active, Awaiting, index < NumCriteria, advanceCriterion,
           awaitVerdict' = FALSE, awaitAuthoring' = FALSE, evals' = evals
    PROVE  CourseStep
<1>1. index' = index + 1 /\ iteration' = 0 /\ (status' = status \/ status' = "failed")
  BY DEF advanceCriterion, markTerminal
<1> QED
  BY <1>1, GivenUp, GoneOn

\* A judge is asked, or there is no endpoint to ask.
LEMMA EvaluateOnCourse ==
    ASSUME GoalInv, Active, ~Awaiting, evaluateCurrentCriterion
    PROVE  CourseStep
<1>1. /\ UNCHANGED <<index, iteration, awaitAuthoring>> /\ ~awaitVerdict /\ ~awaitAuthoring
      /\ \/ awaitVerdict' = TRUE /\ evals' = evals + 1 /\ status' = status
         \/ awaitVerdict' = awaitVerdict /\ evals' = evals /\ status' = "failed"
  <2>1. evals \in Nat /\ evals + 0 = evals /\ awaitVerdict = FALSE /\ awaitAuthoring = FALSE
    BY DEF GoalInv, TypeOK, Awaiting
  <2> QED
    BY <2>1 DEF evaluateCurrentCriterion, EvaluateHttp, EvaluateAcp
<1>2. CASE awaitVerdict' = TRUE /\ evals' = evals + 1 /\ status' = status
  <2>1. Phase = "working" /\ Phase' = "judging"
    BY <1>1, <1>2 DEF Phase, Active
  <2>2. Course!Judge
    BY <1>1, <1>2, <2>1 DEF Course!Judge, Course!Active, Active
  <2> QED
    BY <2>2 DEF CourseStep, Course!Next
<1>3. CASE evals' = evals /\ status' = "failed"
  BY <1>1, <1>3, GivenUp
<1> QED
  BY <1>1, <1>2, <1>3

\* Settling asks or postpones.
LEMMA SettleOnCourse ==
    ASSUME GoalInv, NEW work, Active, ~Awaiting, evaluateWhenTargetSettled(work)
    PROVE  CourseStep
<1>1. NoEvaluation \/ evaluateCurrentCriterion
  BY DEF evaluateWhenTargetSettled
<1>2. CASE NoEvaluation
  BY <1>2, StaysOnCourse DEF NoEvaluation, goalVars, waitVars
<1> QED
  BY <1>1, <1>2, EvaluateOnCourse

\* Every verdict is one of the goal's own steps.
LEMMA VerdictOnCourse ==
    ASSUME GoalInv, NEW open, Active, awaitVerdict, applyJudgeAction(open), evals' = evals
    PROVE  CourseStep
<1>1. awaitVerdict' = FALSE /\ awaitAuthoring = FALSE /\ Awaiting /\ Phase = "judging" /\ TypeOK
  BY AwaitedVerdict DEF applyJudgeAction, Phase, Awaiting, GoalInv
<1>2. CASE Continue(open) \/ Restart(open)
  <2>1. /\ iteration + 1 < MaxIterations /\ iteration' = iteration + 1 /\ index' = index
        /\ awaitAuthoring' = FALSE /\ (status' = status \/ status' = "failed")
    BY <1>1, <1>2, RoundLeft DEF Continue, Restart, restartWatchedSession
  <2> QED
    BY <1>1, <2>1, GivenUp, GoneOn
<1>3. CASE RestartEmpty(open) \/ HandBack
  BY <1>3, GivenUp DEF RestartEmpty, HandBack, markTerminal
<1>4. CASE NextAfterLimit \/ HandOffRaw
  BY <1>1, <1>4, AdvanceOnCourse DEF NextAfterLimit, HandOffRaw
<1>5. CASE Achieve
  <2>1. Phase' = "none"
    BY <1>5 DEF Phase, Achieve, markTerminal, Active
  <2>2. Course!Achieve
    BY <1>1, <1>5, <2>1 DEF Course!Achieve, Course!Active, Active, Achieve, markTerminal
  <2> QED
    BY <2>2 DEF CourseStep, Course!Next
<1>6. CASE BeginAuthoring(open)
  <2>1. Phase' = "handing"
    BY <1>1, <1>6 DEF Phase, BeginAuthoring, goalVars, Active
  <2>2. Course!HandOver
    BY <1>1, <1>6, <2>1 DEF Course!HandOver, Course!Active, Active, BeginAuthoring, goalVars
  <2> QED
    BY <2>2 DEF CourseStep, Course!Next
<1> QED
  BY <1>2, <1>3, <1>4, <1>5, <1>6 DEF applyJudgeAction, Exhausted, Complete, Unmet

\* A goal starts working, judging, or not at all.
LEMMA StartOnCourse ==
    ASSUME GoalInv,
           \/ StartWithPrompt \/ StartAttachedPrefix \/ StartAttachedBusy \/ StartAttachedIdle
    PROVE  CourseStep
<1>1. /\ status = "idle" /\ awaitVerdict = FALSE /\ awaitAuthoring = FALSE
      /\ Phase = "none"
  BY DEF GoalInv, TypeOK, JudgeShape, FreshWhenIdle, Awaiting, Phase, Active, StartWithPrompt,
     StartAttachedPrefix, StartAttachedBusy, StartAttachedIdle
<1>2. /\ UNCHANGED <<index, iteration, awaitAuthoring>>
      /\ \/ status' = "active" /\ awaitVerdict' = awaitVerdict /\ evals' = evals
         \/ status' = "active" /\ awaitVerdict' = TRUE /\ evals' = evals + 1
         \/ status' = "failed" /\ evals' = evals
  BY DEF StartWithPrompt, StartAttachedPrefix, StartAttachedBusy, StartAttachedIdle, Started,
     waitVars, pastVars
<1>3. Phase' = IF status' = "failed" THEN "none"
               ELSE IF awaitVerdict' THEN "judging" ELSE "working"
  BY <1>1, <1>2 DEF Phase, Active
<1>4. Course!Begin
  BY <1>1, <1>2, <1>3 DEF Course!Begin
<1> QED
  BY <1>4 DEF CourseStep, Course!Next

\* Stopping the goal, losing its target or its judge gives it up.
LEMMA EndsOnCourse ==
    ASSUME Stop \/ TargetDestroyed \/ onJudgePromptTimedOut \/ HttpFailed
    PROVE  CourseStep
<1>1. UNCHANGED <<index, iteration, evals>>
  BY DEF Stop, TargetDestroyed, onJudgePromptTimedOut, HttpFailed, pastVars
<1>2. \/ Active /\ status' \in {"cancelled", "failed"}
      \/ UNCHANGED <<status, awaitVerdict, awaitAuthoring>>
  BY DEF Stop, TargetDestroyed, onJudgePromptTimedOut, HttpFailed, markTerminal, waitVars
<1> QED
  BY <1>1, <1>2, GivenUp, StaysOnCourse

\* The composer, the target and the user's own prompts move the goal only where
\* they let the supervisor ask its judge.
LEMMA OthersOnCourse ==
    ASSUME GoalInv,
           \/ UserSends \/ UserRestarts \/ TargetStep
           \/ \E i \in 1 .. QueueLimit : RemoveQueued(i)
    PROVE  CourseStep
<1>1. CASE UNCHANGED supervisorVars
  BY <1>1, StaysOnCourse DEF supervisorVars, goalVars, waitVars, pastVars
<1>2. CASE NoEvaluation
  BY <1>2, StaysOnCourse DEF NoEvaluation, goalVars, waitVars
<1>3. CASE \E work : Active /\ ~Awaiting /\ evaluateWhenTargetSettled(work)
  BY <1>3, SettleOnCourse
<1>4. CASE flushQueuedPrompt
  BY <1>4, StaysOnCourse DEF flushQueuedPrompt, goalVars, waitVars, pastVars
<1>5. CASE TurnEnds \/ TargetExits \/ backgroundIdle
  <2>1. NoEvaluation \/ \E work : Active /\ ~Awaiting /\ evaluateWhenTargetSettled(work)
    BY <1>5 DEF TurnEnds, TargetExits, backgroundIdle, onTargetPromptEnded, MaySettle
  <2> QED
    BY <1>2, <1>3, <2>1
<1>6. CASE \E i \in 1 .. QueueLimit : RemoveQueued(i)
  <2>1. NoEvaluation \/ \E work : Active /\ ~Awaiting /\ evaluateWhenTargetSettled(work)
    BY <1>6 DEF RemoveQueued, noteDeferredGoalDropped
  <2> QED
    BY <1>2, <1>3, <2>1
<1>7. CASE \/ UserSends \/ UserRestarts \/ FormCancelled
           \/ SessionReady \/ WakeUpTurn \/ TaskStarts \/ TasksFinish
  BY <1>1, <1>7 DEF UserSends, UserRestarts, FormCancelled, SessionReady, WakeUpTurn, TaskStarts,
     TasksFinish
<1> QED
  BY <1>4, <1>5, <1>6, <1>7 DEF TargetStep

\* The answers of the judge and the end of its process.
LEMMA JudgeOnCourse ==
    ASSUME GoalInv, considerJudgeVerdict \/ JudgeAnswers \/ onJudgeExited \/ HttpVerdict
    PROVE  CourseStep
<1>1. evals' = evals
  BY DEF considerJudgeVerdict, JudgeAnswers, onJudgeExited, HttpVerdict
<1>2. CASE considerJudgeVerdict
  BY <1>1, <1>2, VerdictOnCourse DEF considerJudgeVerdict
<1>3. CASE HttpVerdict
  <2>1. CASE Active
    <3>1. awaitVerdict /\ applyJudgeAction(0)
      BY <1>3, <2>1 DEF HttpVerdict, GoalInv, JudgeShape, HttpShape
    <3> QED
      BY <1>1, <2>1, <3>1, VerdictOnCourse
  <2>2. CASE ~Active
    BY <1>1, <1>3, <2>2, StaysOnCourse DEF HttpVerdict, goalVars
  <2> QED
    BY <2>1, <2>2
<1>4. CASE JudgeAnswers
  <2>1. Awaiting => Active
    BY <1>4, TypeParts DEF JudgeAnswers, GoalInv, SupervisorTypes, JudgeShape, FreshWhenIdle,
       InertWhenOver, Active, Over, Terminal
  <2>2. CASE UNCHANGED <<goalVars, awaitVerdict, awaitAuthoring>>
    BY <1>1, <2>2, StaysOnCourse DEF goalVars
  <2>3. CASE awaitVerdict /\ applyJudgeAction(0)
    BY <1>1, <2>1, <2>3, VerdictOnCourse DEF Awaiting
  <2>4. CASE awaitVerdict /\ ParseFailure
    <3>1. Active /\ status' = "failed" /\ UNCHANGED <<index, iteration>>
      BY <2>1, <2>4 DEF ParseFailure, markTerminal, Awaiting
    <3> QED
      BY <1>1, <3>1, GivenUp
  <2>5. CASE awaitAuthoring /\ awaitAuthoring' = FALSE /\ advanceCriterion /\ UNCHANGED awaitVerdict
    <3>1. Active
      BY <2>1, <2>5 DEF Awaiting
    <3> QED
      BY <1>1, <2>5, <3>1, HandoffFacts, AdvanceOnCourse
  <2> QED
    BY <1>4, <2>2, <2>3, <2>4, <2>5 DEF JudgeAnswers, onJudgePromptEnded, AskAgain, waitVars
<1>5. CASE onJudgeExited
  <2>1. Active /\ TypeOK
    BY <1>5 DEF onJudgeExited, GoalInv
  <2>2. CASE ExitWithVerdict
    <3>1. awaitVerdict /\ Awaiting /\ awaitAuthoring' = FALSE /\ awaitVerdict' = FALSE
      BY <2>1, <2>2, AwaitedVerdict DEF ExitWithVerdict, Awaiting
    <3>2. CASE /\ ~LimitReached /\ iteration' = iteration + 1 /\ UNCHANGED index
               /\ markTerminal("failed")
      BY <1>1, <2>1, <3>1, <3>2, RoundLeft, GivenUp DEF markTerminal
    <3>3. CASE RestartEmpty(0) \/ Exhausted \/ Achieve \/ Unmet
      <4>1. applyJudgeAction(0)
        BY <2>1, <2>2, <3>3 DEF applyJudgeAction, Complete, ExitWithVerdict
      <4> QED
        BY <1>1, <2>1, <3>1, <4>1, VerdictOnCourse
    <3>4. CASE index < NumCriteria /\ advanceCriterion
      BY <1>1, <2>1, <3>1, <3>4, AdvanceOnCourse
    <3> QED
      BY <2>2, <3>2, <3>3, <3>4 DEF ExitWithVerdict
  <2>3. CASE ExitInAuthoring
    <3>1. awaitAuthoring /\ awaitAuthoring' = FALSE /\ advanceCriterion /\ UNCHANGED awaitVerdict
      BY <2>3 DEF ExitInAuthoring
    <3> QED
      BY <1>1, <2>1, <3>1, HandoffFacts, AdvanceOnCourse
  <2>4. CASE ExitWithoutVerdict
    BY <1>1, <2>1, <2>4, GivenUp DEF ExitWithoutVerdict, markTerminal
  <2> QED
    BY <1>5, <2>2, <2>3, <2>4 DEF onJudgeExited
<1> QED
  BY <1>2, <1>3, <1>4, <1>5

\* Every step of the supervisor and its surroundings is a step of the goal, or
\* none.
LEMMA NextOnCourse == GoalInv /\ [Next]_vars => CourseStep
<1>1. ASSUME UNCHANGED vars PROVE CourseStep
  BY <1>1, StaysOnCourse DEF vars, supervisorVars, goalVars, waitVars, pastVars
<1> QED
  BY <1>1, StartOnCourse, EndsOnCourse, OthersOnCourse, JudgeOnCourse
     DEF Next, UserStep, JudgeStep

\* The supervisor does only what a goal may do: one criterion after the other,
\* a capped number of judged rounds for each, achieved at the last one only,
\* and nothing after its end (applyJudgeAction and all that call it).
THEOREM CourseKept == Spec => FollowsCourse
<1>1. Init => Course!Init
  BY DEF Init, Course!Init, Phase, Active
<1>2. GoalInv /\ [Next]_vars => [Course!Next]_(Course!vars)
  BY NextOnCourse DEF CourseStep
<1> QED
  BY <1>1, <1>2, GoalInvariance, PTL DEF Spec, FollowsCourse, Course!Spec

-----------------------------------------------------------------------------
(* What a goal may cost *)

\* One criterion more is worth the cap in rounds.
LEMMA OneMoreCriterion ==
    ASSUME NEW n \in Nat, NEW r \in Nat
    PROVE  n * r \in Nat /\ (n + 1) * r = n * r + r
  OBVIOUS

\* Every question to a judge is paid for by a round or by a criterion.
LEMMA GoalPays == Course!PaidFor /\ CourseStep => Course!PaidFor'
<1> SUFFICES ASSUME Course!PaidFor, CourseStep PROVE Course!PaidFor'
  OBVIOUS
<1> DEFINE paid == (index - 1) * MaxIterations
<1>0. /\ NumCriteria \in Nat \ {0} /\ MaxIterations \in Nat \ {0}
      /\ index \in 1 .. NumCriteria /\ iteration \in 0 .. MaxIterations - 1
      /\ evals \in Nat /\ paid \in Nat
      /\ index * MaxIterations = paid + MaxIterations
      /\ evals <= paid + iteration + (IF Phase = "working" THEN 0 ELSE 1)
      /\ Course!CourseOK
  <2>1. index \in 1 .. NumCriteria /\ NumCriteria \in Nat \ {0} /\ MaxIterations \in Nat \ {0}
    BY GoalAssumption DEF Course!PaidFor, Course!CourseOK
  <2>2. index - 1 \in Nat /\ (index - 1) + 1 = index
    BY <2>1
  <2>3. paid \in Nat /\ index * MaxIterations = paid + MaxIterations
    BY <2>1, <2>2, OneMoreCriterion
  <2> QED
    BY <2>1, <2>3 DEF Course!PaidFor, Course!CourseOK
<1>1. CASE Course!Begin
  <2>1. /\ status = "idle" /\ evals = 0 /\ UNCHANGED <<index, iteration>>
        /\ \/ status' = "failed" /\ Phase' = "none" /\ evals' = 0
           \/ status' = "active" /\ Phase' = "working" /\ evals' = 0
           \/ status' = "active" /\ Phase' = "judging" /\ evals' = 1
    BY <1>0, <1>1 DEF Course!Begin, Course!CourseOK, Course!PaidFor, Course!Active
  <2>2. (index' - 1) * MaxIterations = paid
    BY <2>1
  <2>3. evals' \in Nat /\ evals' <= paid + iteration' + (IF Phase' = "working" THEN 0 ELSE 1)
    BY <1>0, <2>1
  <2>4. Course!CourseOK'
    BY <1>0, <2>1 DEF Course!CourseOK, Course!Active
  <2> QED
    BY <2>1, <2>2, <2>3, <2>4 DEF Course!PaidFor
<1>2. CASE Course!Judge \/ Course!HandOver \/ Course!Achieve
  <2>1. /\ UNCHANGED <<index, iteration>> /\ status' # "idle"
        /\ status' \in {"active", "achieved"} /\ Phase' \in {"none", "judging", "handing"}
        /\ status' = "active" <=> Phase' # "none"
        /\ \/ Phase = "working" /\ evals' = evals + 1
           \/ evals' = evals
    BY <1>2 DEF Course!Judge, Course!HandOver, Course!Achieve, Course!Active
  <2>2. (index' - 1) * MaxIterations = paid
    BY <2>1
  <2>3. evals' \in Nat /\ evals' <= paid + iteration' + (IF Phase' = "working" THEN 0 ELSE 1)
    BY <1>0, <2>1
  <2>4. Course!CourseOK'
    BY <1>0, <2>1 DEF Course!CourseOK, Course!Active
  <2> QED
    BY <2>1, <2>2, <2>3, <2>4 DEF Course!PaidFor
<1>3. CASE Course!GoOn \/ Course!GiveUp
  <2>1. /\ status' \in {"active", "cancelled", "failed"} /\ Phase' \in {"none", "working"}
        /\ status' = "active" <=> Phase' # "none"
        /\ evals' = evals
        /\ \/ Course!SameCriterion /\ Phase' = "none"
           \/ Course!NextRound
           \/ Course!NextCriterion
    BY <1>3 DEF Course!GoOn, Course!GiveUp, Course!Active
  <2>2. CASE Course!SameCriterion /\ Phase' = "none"
    <3>1. UNCHANGED <<index, iteration>>
      BY <2>2 DEF Course!SameCriterion
    <3>2. (index' - 1) * MaxIterations = paid
      BY <3>1
    <3>3. evals' <= paid + iteration' + 1 /\ Course!CourseOK'
      BY <1>0, <2>1, <2>2, <3>1 DEF Course!CourseOK, Course!Active
    <3> QED
      BY <1>0, <2>1, <2>2, <3>2, <3>3 DEF Course!PaidFor
  <2>3. CASE Course!NextRound
    <3>1. index' = index /\ iteration' = iteration + 1 /\ iteration + 1 < MaxIterations
      BY <2>3 DEF Course!NextRound
    <3>2. (index' - 1) * MaxIterations = paid
      BY <3>1
    <3>3. evals' <= paid + iteration' + 0 /\ evals' <= paid + iteration' + 1
      BY <1>0, <2>1, <3>1
    <3>4. Course!CourseOK'
      BY <1>0, <2>1, <3>1 DEF Course!CourseOK, Course!Active
    <3> QED
      BY <1>0, <2>1, <3>2, <3>3, <3>4 DEF Course!PaidFor
  <2>4. CASE Course!NextCriterion
    <3>1. index' = index + 1 /\ iteration' = 0 /\ index < NumCriteria
      BY <2>4 DEF Course!NextCriterion
    <3>2. (index' - 1) * MaxIterations = paid + MaxIterations
      <4>1. index' - 1 = index
        BY <1>0, <3>1
      <4> QED
        BY <1>0, <4>1
    <3>3. /\ evals' <= (paid + MaxIterations) + iteration' + 0
          /\ evals' <= (paid + MaxIterations) + iteration' + 1
      BY <1>0, <2>1, <3>1
    <3>4. Course!CourseOK'
      BY <1>0, <2>1, <3>1 DEF Course!CourseOK, Course!Active
    <3> QED
      BY <1>0, <2>1, <3>2, <3>3, <3>4 DEF Course!PaidFor
  <2> QED
    BY <2>1, <2>2, <2>3, <2>4
<1>4. CASE UNCHANGED Course!vars
  BY <1>4 DEF Course!vars, Course!PaidFor, Course!CourseOK, Course!Active
<1> QED
  BY <1>1, <1>2, <1>3, <1>4 DEF CourseStep, Course!Next

\* What is paid for is within the cap of every criterion together.
LEMMA PaidIsCapped == Course!PaidFor => evals <= NumCriteria * MaxIterations
<1> SUFFICES ASSUME Course!PaidFor PROVE evals <= NumCriteria * MaxIterations
  OBVIOUS
<1>1. /\ NumCriteria \in Nat \ {0} /\ MaxIterations \in Nat \ {0}
      /\ index \in 1 .. NumCriteria /\ iteration \in 0 .. MaxIterations - 1
      /\ evals \in Nat /\ evals <= (index - 1) * MaxIterations + iteration + 1
  BY GoalAssumption DEF Course!PaidFor, Course!CourseOK
<1>2. /\ (index - 1) * MaxIterations \in Nat
      /\ index * MaxIterations = (index - 1) * MaxIterations + MaxIterations
  <2>1. index - 1 \in Nat /\ (index - 1) + 1 = index
    BY <1>1
  <2> QED
    BY <1>1, <2>1, OneMoreCriterion
<1>3. /\ index * MaxIterations \in Nat /\ (NumCriteria - index) * MaxIterations \in Nat
      /\ NumCriteria * MaxIterations
           = index * MaxIterations + (NumCriteria - index) * MaxIterations
  <2>1. index \in Nat /\ NumCriteria - index \in Nat /\ MaxIterations \in Nat
    BY <1>1
  <2>2. \A a, b, r \in Nat : (a + b) * r = a * r + b * r /\ a * r \in Nat /\ b * r \in Nat
    OBVIOUS
  <2>3. index + (NumCriteria - index) = NumCriteria
    BY <1>1
  <2> QED
    BY <2>1, <2>2, <2>3
<1>4. evals <= index * MaxIterations
  BY <1>1, <1>2
<1> QED
  BY <1>1, <1>3, <1>4

\* The judge, which costs tokens and time, is asked at most once for every
\* iteration of every criterion, however the goal goes (consumeIfMaxIterations
\* and the paths of applyJudgeAction that move the cursor past it).
THEOREM JudgedWithinCap == Spec => [](evals <= NumCriteria * MaxIterations)
<1>1. Init => Course!PaidFor
  <2>1. Init => /\ index = 1 /\ iteration = 0 /\ evals = 0 /\ status = "idle" /\ Phase = "none"
    BY DEF Init, Phase, Active
  <2>2. /\ 1 \in 1 .. NumCriteria /\ 0 \in 0 .. MaxIterations - 1
        /\ MaxIterations \in Nat /\ (1 - 1) * MaxIterations = 0
    BY GoalAssumption
  <2> QED
    BY <2>1, <2>2 DEF Course!PaidFor, Course!CourseOK, Course!Active
<1>2. Course!PaidFor /\ GoalInv /\ [Next]_vars => Course!PaidFor'
  BY NextOnCourse, GoalPays
<1> QED
  BY <1>1, <1>2, PaidIsCapped, GoalInvariance, PTL DEF Spec
=============================================================================
