--------------------------- MODULE GoalSupervisor ---------------------------
(***************************************************************************)
(* The goal supervisor (src/src/GoalAgent.cpp): a judge reads what the     *)
(* watched session (the target) did in its turn, and its verdict sends the *)
(* next prompt, goes on to the next criterion or ends the goal.            *)
(*                                                                         *)
(* Four actors share one thread and meet in any order: the supervisor, the *)
(* target connection (its turns as AcpTurn models them, seen through       *)
(* promptEnded and backgroundIdle), the judge (an agent process of its own *)
(* or an HTTP endpoint) and the composer, whose prompt queue holds what    *)
(* the user, the supervisor and cancelled question forms want to send.     *)
(***************************************************************************)
EXTENDS Naturals, Sequences

CONSTANTS
    NumCriteria,   \* m_criteria.size()
    MaxIterations, \* m_maxIterations
    Requests,      \* the goals the user may start, records as in RequestType
    MaxUserSends,  \* bound: prompts the user sends from the composer
    MaxTasks,      \* bound: background tasks the target starts
    MaxForms       \* bound: question forms the target raises

RequestType == [http : BOOLEAN,       \* GoalHttpJudge::isCustomApiAgent
                prefixGoal : BOOLEAN, \* m_prefixGoal
                advertises : BOOLEAN, \* the target advertises /goal
                autoCompact : BOOLEAN]

ASSUME GoalAssumption ==
    /\ NumCriteria \in Nat \ {0} /\ MaxIterations \in Nat \ {0}
    /\ Requests \subseteq RequestType
    /\ MaxUserSends \in Nat /\ MaxTasks \in Nat /\ MaxForms \in Nat

VARIABLES
    request,          \* the goal's parameters
    status,           \* m_status
    index,            \* m_currentCriterionIndex, counted from 1
    iteration,        \* iteration of the current criterion
    awaitVerdict,     \* m_awaitingJudgeResponse
    awaitAuthoring,   \* m_awaitingAuthoring
    corrected,        \* m_correctionAttempted
    judgeTimer,       \* m_judgeTimeoutTimer is active
    deferPrefix,      \* m_deferredPrefixGoal
    deferBackground,  \* m_deferredForBackground
    deferHold,        \* m_deferredForHold
    judge,            \* m_judgeConnection: the criterion it was spawned for, 0 none
    judgeOpen,        \* prompts the judge connection has not answered
    httpBusy,         \* a request of m_httpSession is out
    target,           \* "up", "exited", or "replaced": a user's restart put
                      \* another connection in its place
    session,          \* the target's session is established
    pending,          \* prompts wait in the target for its session
    processing,       \* the target's turn is running
    background,       \* hasPendingBackgroundWork: "none", "tasks", "grace"
    notice,           \* composer queue: a host item with kMarkerNoHuman
    queue,            \* composer queue: the user's items and the goal's /goal
    evals, verdicts,  \* history: evaluations started, verdicts applied
    sent,             \* history: prompts the supervisor handed to the target
    userSends, tasks, forms \* bounds used up

goalVars   == <<status, index, iteration>>
waitVars   == <<awaitVerdict, awaitAuthoring, corrected, judgeTimer>>
deferVars  == <<deferPrefix, deferBackground, deferHold>>
judgeVars  == <<judge, judgeOpen>>
targetVars == <<session, pending, processing, background>>
queueVars  == <<notice, queue>>
pastVars   == <<evals, verdicts, sent>>
boundVars  == <<userSends, tasks, forms>>
settingVars == <<request, boundVars>>
hostVars == <<target, targetVars, queueVars>>
supervisorVars == <<request, goalVars, waitVars, deferVars, judgeVars,
                    httpBusy, pastVars>>
vars == <<supervisorVars, hostVars, boundVars>>

Terminal == {"achieved", "cancelled", "failed"}
QueueLimit == MaxUserSends + 1
Active == status = "active"
Over == status \in Terminal
Awaiting == awaitVerdict \/ awaitAuthoring

-----------------------------------------------------------------------------
(* What the handlers share.  Each operator says which primed variables it   *)
(* sets; the actions leave the others unchanged.                            *)

\* The target is a connection as TargetSession describes it.
Target == INSTANCE TargetSession WITH alive <- (target = "up")

\* sendPrompt and sendSidePrompt on the target (targetVars).  A connection
\* that is gone takes nothing.
DeliverToTarget ==
    IF target = "replaced" THEN UNCHANGED targetVars ELSE Target!Deliver

\* sendPromptToTarget (targetVars, sent).
sendPromptToTarget ==
    /\ DeliverToTarget
    /\ sent' = IF target = "replaced" THEN sent ELSE sent + 1

\* destroyJudgeConnection (judgeVars): it is disconnected before it goes.
destroyJudgeConnection == judge' = 0 /\ judgeOpen' = 0

\* markTerminal (status, judgeTimer, deferBackground).
markTerminal(s) == status' = s /\ judgeTimer' = FALSE /\ deferBackground' = FALSE

\* skipToNextCriterionAfterMaxIter and finalizeHandoff: the cursor moves, a
\* judge is spawned for the new criterion, the target gets its text
\* (goalVars, judgeVars, judgeTimer, deferBackground, targetVars, sent).
\* The judge agent may be missing from the registry by then.
advanceCriterion ==
    /\ index' = index + 1 /\ iteration' = 0
    /\ \/ /\ UNCHANGED <<status, deferBackground>>
          /\ judgeTimer' = FALSE
          /\ judge' = (IF request.http THEN 0 ELSE index + 1)
          /\ judgeOpen' = 0
          /\ sendPromptToTarget
       \/ /\ ~request.http
          /\ markTerminal("failed")
          /\ destroyJudgeConnection
          /\ UNCHANGED <<targetVars, sent>>

\* restartWatchedSession: the target is a new connection whose session is
\* not established yet (target, targetVars, sent, deferBackground and status).
SessionReplaced ==
    /\ target' = "up" /\ session' = FALSE /\ pending' = TRUE
    /\ processing' = FALSE /\ background' = "none"
    /\ sent' = sent + 1

restartWatchedSession ==
    \/ SessionReplaced /\ deferBackground' = FALSE /\ UNCHANGED status
    \/ /\ status' = "failed" /\ deferBackground' = FALSE
       /\ UNCHANGED <<target, targetVars, sent>>

\* A variant: the cap is tested before the iteration is counted.
LimitReachedLate == iteration >= MaxIterations

\* consumeIfMaxIterations, after crit.iteration++.
LimitReached == iteration + 1 >= MaxIterations

-----------------------------------------------------------------------------
(* applyJudgeAction, when `open` prompts of the judge are unanswered.  It    *)
(* sets goalVars, awaitAuthoring, judgeTimer, deferBackground, judgeVars,    *)
(* target, targetVars and sent.                                              *)

Continue(open) ==
    /\ ~LimitReached
    /\ iteration' = iteration + 1
    /\ judgeTimer' = FALSE
    /\ judgeOpen' = open
    /\ sendPromptToTarget
    /\ UNCHANGED <<status, index, awaitAuthoring, deferBackground, judge, target>>

Restart(open) ==
    /\ ~LimitReached
    /\ iteration' = iteration + 1
    /\ judgeTimer' = FALSE
    /\ judgeOpen' = open
    /\ restartWatchedSession
    /\ UNCHANGED <<index, awaitAuthoring, judge>>

\* A restart without a prompt for the new session.
RestartEmpty(open) ==
    /\ markTerminal("failed")
    /\ judgeOpen' = open
    /\ UNCHANGED <<index, iteration, awaitAuthoring, judge, target, targetVars, sent>>

\* The cap is reached, or the judge reports it reached.
NextAfterLimit ==
    /\ index < NumCriteria
    /\ advanceCriterion
    /\ UNCHANGED <<awaitAuthoring, target>>

\* The last criterion's cap, or a completion that says the criterion is unmet.
HandBack ==
    /\ markTerminal("cancelled")
    /\ destroyJudgeConnection
    /\ UNCHANGED <<index, iteration, awaitAuthoring, target, targetVars, sent>>

Achieve ==
    /\ index = NumCriteria
    /\ markTerminal("achieved")
    /\ destroyJudgeConnection
    /\ IF request.autoCompact THEN DeliverToTarget ELSE UNCHANGED targetVars
    /\ UNCHANGED <<index, iteration, awaitAuthoring, target, sent>>

\* advanceToNextCriterion with a judge process: beginAuthoringStep.
BeginAuthoring(open) ==
    /\ index < NumCriteria /\ ~request.http
    /\ awaitAuthoring' = TRUE
    /\ judgeTimer' = TRUE
    /\ judgeOpen' = open + 1
    /\ UNCHANGED <<goalVars, targetVars, deferBackground, judge, target, sent>>

\* Without one the criterion's own text is handed over.
HandOffRaw ==
    /\ index < NumCriteria /\ request.http
    /\ advanceCriterion
    /\ UNCHANGED <<awaitAuthoring, target>>

Complete(open) == Achieve \/ BeginAuthoring(open) \/ HandOffRaw

Exhausted == LimitReached /\ (NextAfterLimit \/ (index = NumCriteria /\ HandBack))

\* A completion whose text says the criterion is unmet; only one that names
\* the iteration limit goes on to the next criterion.
Unmet == HandBack \/ NextAfterLimit

applyJudgeAction(open) ==
    /\ awaitVerdict' = FALSE
    /\ verdicts' = verdicts + 1
    /\ \/ Continue(open) \/ Restart(open) \/ RestartEmpty(open)
       \/ Exhausted \/ Complete(open) \/ Unmet

-----------------------------------------------------------------------------
(* Starting an evaluation (goalVars, waitVars, deferBackground, deferHold,  *)
(* judgeVars, httpBusy, evals)                                              *)

\* evaluateViaHttp; an endpoint that is not configured fails on the spot.
EvaluateHttp ==
    /\ request.http
    /\ \/ /\ httpBusy' = TRUE /\ awaitVerdict' = TRUE
          /\ UNCHANGED <<status, judgeTimer>>
       \/ /\ status' = "failed" /\ judgeTimer' = FALSE /\ UNCHANGED <<httpBusy, awaitVerdict>>
    /\ UNCHANGED <<corrected, judgeVars>>

EvaluateAcp ==
    /\ ~request.http
    /\ awaitVerdict' = TRUE /\ corrected' = FALSE
    /\ judgeOpen' = judgeOpen + 1
    /\ judgeTimer' = TRUE
    /\ UNCHANGED <<status, judge, httpBusy>>

\* evaluateCurrentCriterion.  A judge is always there: the goal has failed
\* when it exits (JudgePresent).
evaluateCurrentCriterion ==
    /\ EvaluateHttp \/ EvaluateAcp
    /\ evals' = evals + (IF awaitVerdict' THEN 1 ELSE 0)
    /\ UNCHANGED <<index, iteration, awaitAuthoring>>

NoEvaluation == UNCHANGED <<goalVars, waitVars, judgeVars, httpBusy, evals>>

\* A variant: background work is not looked at.
evaluateWhenSettledForced(work) ==
    /\ deferBackground' = FALSE
    /\ deferHold' = notice
    /\ IF notice THEN NoEvaluation ELSE evaluateCurrentCriterion

\* evaluateWhenTargetSettled, while the target's background work is `work`.
evaluateWhenTargetSettled(work) ==
    IF work # "none"
      THEN deferBackground' = TRUE /\ UNCHANGED deferHold /\ NoEvaluation
      ELSE /\ deferBackground' = FALSE
           /\ deferHold' = notice
           /\ IF notice THEN NoEvaluation ELSE evaluateCurrentCriterion

\* A variant: a judge that was asked already is asked again.
MaySettleWhileAwaiting == Active /\ ~deferPrefix

MaySettle == Active /\ ~Awaiting /\ ~deferPrefix

\* onTargetPromptEnded.
onTargetPromptEnded(work) ==
    IF MaySettle THEN evaluateWhenTargetSettled(work)
                 ELSE NoEvaluation /\ UNCHANGED <<deferBackground, deferHold>>

-----------------------------------------------------------------------------
Init ==
    /\ request \in Requests
    /\ status = "idle" /\ index = 1 /\ iteration = 0
    /\ awaitVerdict = FALSE /\ awaitAuthoring = FALSE
    /\ corrected = FALSE /\ judgeTimer = FALSE
    /\ deferPrefix = FALSE /\ deferBackground = FALSE /\ deferHold = FALSE
    /\ judge = 0 /\ judgeOpen = 0
    /\ httpBusy = FALSE
    /\ target = "up"
    /\ session \in BOOLEAN /\ processing \in BOOLEAN
    /\ processing => session
    /\ pending = FALSE /\ background = "none"
    /\ notice = FALSE /\ queue = <<>>
    /\ evals = 0 /\ verdicts = 0 /\ sent = 0
    /\ userSends = 0 /\ tasks = 0 /\ forms = 0

-----------------------------------------------------------------------------
(* The user starts, stops and disturbs the goal *)

\* start: the supervisor is active, its judge spawned (goalVars, judgeVars).
Started ==
    /\ status' = "active"
    /\ judge' = (IF request.http THEN 0 ELSE 1)
    /\ UNCHANGED <<index, iteration, judgeOpen>>

\* sendFirstCriterionGoal while the target is busy or not: as a side prompt,
\* or behind the running turn in the composer's queue (deferPrefix, queue,
\* targetVars, sent).
sendFirstCriterionGoal(busy) ==
    IF busy /\ ~request.advertises
      THEN /\ deferPrefix' = TRUE
           /\ queue' = Append(queue, "goal")
           /\ UNCHANGED sent
      ELSE sent' = sent + 1 /\ UNCHANGED <<deferPrefix, queue>>

\* startGoal with text in the composer: start, send it, then the /goal.
StartWithPrompt ==
    /\ status = "idle" /\ target = "up" /\ ~processing
    /\ Started
    /\ DeliverToTarget
    /\ IF request.prefixGoal THEN sendFirstCriterionGoal(session)
                             ELSE UNCHANGED <<deferPrefix, queue, sent>>
    /\ UNCHANGED <<settingVars, waitVars, deferBackground, deferHold, httpBusy,
                   target, notice, evals, verdicts>>

\* startGoal on a conversation that is already there: the /goal first, or an
\* evaluation of what was said so far.
StartAttachedPrefix ==
    /\ status = "idle" /\ target = "up" /\ request.prefixGoal
    /\ Started
    /\ sendFirstCriterionGoal(processing)
    /\ IF processing THEN UNCHANGED targetVars ELSE DeliverToTarget
    /\ UNCHANGED <<settingVars, waitVars, deferBackground, deferHold, httpBusy,
                   target, notice, evals, verdicts>>

StartAttachedBusy ==
    /\ status = "idle" /\ target = "up" /\ ~request.prefixGoal /\ processing
    /\ Started
    /\ UNCHANGED <<settingVars, hostVars, waitVars, deferVars, pastVars, httpBusy>>

\* The target is idle: evaluateWhenTargetSettled at once, on the judge that
\* was just spawned.
StartAttachedIdle ==
    /\ status = "idle" /\ target = "up" /\ ~request.prefixGoal /\ ~processing
    /\ IF background # "none" \/ notice
         THEN /\ Started
              /\ deferBackground' = (background # "none")
              /\ deferHold' = (background = "none")
              /\ UNCHANGED <<waitVars, httpBusy, evals>>
         ELSE /\ judge' = (IF request.http THEN 0 ELSE 1)
              /\ judgeOpen' = (IF request.http THEN 0 ELSE 1)
              /\ judgeTimer' = ~request.http
              /\ \/ /\ status' = "active" /\ awaitVerdict' = TRUE
                    /\ httpBusy' = request.http
                    /\ evals' = evals + 1
                 \/ /\ request.http
                    /\ status' = "failed"
                    /\ UNCHANGED <<awaitVerdict, httpBusy, evals>>
              /\ UNCHANGED <<index, iteration, awaitAuthoring, corrected,
                             deferBackground, deferHold>>
    /\ UNCHANGED <<settingVars, hostVars, deferPrefix, verdicts, sent>>

\* A variant: the judge is left to finish.
StopKeepsJudge ==
    /\ Active
    /\ httpBusy' = FALSE
    /\ markTerminal("cancelled")
    /\ UNCHANGED <<settingVars, hostVars, judgeVars, pastVars, index, iteration,
                   awaitVerdict, awaitAuthoring, corrected, deferPrefix, deferHold>>

\* stop, by the goal row's Stop or by the composer's Cancel.
Stop ==
    /\ Active
    /\ destroyJudgeConnection
    /\ httpBusy' = FALSE
    /\ markTerminal("cancelled")
    /\ UNCHANGED <<settingVars, hostVars, pastVars, index, iteration, awaitVerdict,
                   awaitAuthoring, corrected, deferPrefix, deferHold>>

\* onSendClicked: at once when the target is idle, else behind its turn.
UserSends ==
    /\ userSends < MaxUserSends /\ target # "replaced"
    /\ userSends' = userSends + 1
    /\ IF processing THEN queue' = Append(queue, "user") /\ UNCHANGED targetVars
                     ELSE DeliverToTarget /\ UNCHANGED queue
    /\ UNCHANGED <<supervisorVars, target, notice, tasks, forms>>

\* noteDeferredGoalDropped.
noteDeferredGoalDropped ==
    /\ deferPrefix' = FALSE
    /\ IF ~(deferPrefix \/ deferHold)
         THEN NoEvaluation /\ UNCHANGED <<deferBackground, deferHold>>
         ELSE LET settle == Active /\ ~Awaiting /\ ~processing IN
              IF settle /\ background = "none"
                THEN evaluateWhenTargetSettled("none")
                ELSE /\ deferHold' = FALSE
                     /\ deferBackground' = (deferBackground \/ settle)
                     /\ NoEvaluation

\* removeQueuedPrompt on the queue strip, which does not show host items.
RemoveQueued(i) ==
    /\ i \in DOMAIN queue
    /\ queue' = [k \in 1 .. Len(queue) - 1 |-> queue[IF k < i THEN k ELSE k + 1]]
    /\ IF queue[i] = "goal" THEN noteDeferredGoalDropped
                            ELSE NoEvaluation /\ UNCHANGED deferVars
    /\ UNCHANGED <<settingVars, targetVars, target, notice, verdicts, sent>>

\* The user restarts the session.  restartSession drops every connection of
\* the old AcpConnection's signals, destroyed() among them: the supervisor
\* keeps a target it will not hear from again.
UserRestarts ==
    /\ target # "replaced"
    /\ target' = "replaced"
    /\ session' = FALSE /\ pending' = FALSE /\ processing' = FALSE /\ background' = "none"
    /\ UNCHANGED <<supervisorVars, queueVars, boundVars>>

\* onTargetDestroyed: the session is closed or handed to another agent.
TargetDestroyed ==
    /\ target # "replaced"
    /\ target' = "replaced"
    /\ session' = FALSE /\ pending' = FALSE /\ processing' = FALSE /\ background' = "none"
    /\ IF Active THEN status' = "failed" /\ destroyJudgeConnection
                 ELSE UNCHANGED <<status, judgeVars>>
    /\ UNCHANGED <<settingVars, waitVars, deferVars, queueVars, pastVars, index,
                   iteration, httpBusy>>

-----------------------------------------------------------------------------
(* The composer's queue *)

\* sendHostPrompt: a question form raised while a goal runs is cancelled and
\* the agent told so, ahead of what the user queued.
FormCancelled ==
    /\ forms < MaxForms /\ target = "up"
    /\ Active /\ processing /\ ~notice
    /\ forms' = forms + 1
    /\ notice' = TRUE
    /\ UNCHANGED <<supervisorVars, targetVars, target, queue, userSends, tasks>>

\* flushQueuedPrompt, one event-loop pass after the turn ended: host items
\* first.  Both the notice and the /goal count as the goal's own, and report
\* noteDeferredGoalDispatched.
flushQueuedPrompt ==
    /\ target # "replaced" /\ ~processing
    /\ \/ notice /\ notice' = FALSE /\ UNCHANGED queue
       \/ ~notice /\ queue # <<>> /\ queue' = Tail(queue) /\ UNCHANGED notice
    /\ DeliverToTarget
    /\ IF notice \/ Head(queue) = "goal"
         THEN deferPrefix' = FALSE /\ deferHold' = FALSE
         ELSE UNCHANGED <<deferPrefix, deferHold>>
    /\ UNCHANGED <<settingVars, goalVars, waitVars, judgeVars, pastVars,
                   deferBackground, httpBusy, target>>

-----------------------------------------------------------------------------
(* The target *)

\* finishSessionSetup: what waited for the session goes out.
SessionReady ==
    /\ Target!Ready
    /\ UNCHANGED <<supervisorVars, queueVars, boundVars, target>>

\* The agent starts a turn of its own: a background task woke it, or what it
\* still had to say of the last one.
WakeUpTurn ==
    /\ Target!Wake
    /\ UNCHANGED <<supervisorVars, queueVars, boundVars, target>>

\* promptEnded, by the end of the turn.
TurnEnds ==
    /\ target # "replaced"
    /\ Target!End
    /\ onTargetPromptEnded(background)
    /\ UNCHANGED <<settingVars, queueVars, deferPrefix, target, verdicts, sent>>

\* handleProcessFinished: background work dies with the process, a running
\* turn is closed with promptEnded; without one nothing is emitted that the
\* supervisor hears.
TargetExits ==
    /\ target' = "exited"
    /\ Target!Exit
    /\ IF processing THEN onTargetPromptEnded("none")
                     ELSE NoEvaluation /\ UNCHANGED <<deferBackground, deferHold>>
    /\ UNCHANGED <<settingVars, queueVars, deferPrefix, verdicts, sent>>

TaskStarts ==
    /\ tasks < MaxTasks /\ tasks' = tasks + 1
    /\ Target!TasksStart
    /\ UNCHANGED <<supervisorVars, queueVars, target, userSends, forms>>

TasksFinish ==
    /\ Target!TasksFinish
    /\ UNCHANGED <<supervisorVars, queueVars, boundVars, target>>

\* A variant: backgroundIdle does nothing.
backgroundIdleIgnored ==
    /\ Target!GraceOver
    /\ NoEvaluation /\ UNCHANGED <<deferBackground, deferHold>>
    /\ UNCHANGED <<settingVars, queueVars, deferPrefix, target, verdicts, sent>>

\* The grace timer: backgroundIdle unless a turn runs, and its slot
\* onTargetBackgroundIdle.
backgroundIdle ==
    /\ Target!GraceOver
    /\ IF deferBackground /\ MaySettle /\ ~processing
         THEN evaluateWhenTargetSettled("none")
         ELSE NoEvaluation /\ UNCHANGED <<deferBackground, deferHold>>
    /\ UNCHANGED <<settingVars, queueVars, deferPrefix, target, verdicts, sent>>

-----------------------------------------------------------------------------
(* The judge *)

\* Verdict by tool call: what the judge still generates is cancelled, its
\* prompt stays unanswered for now (considerJudgeVerdict).
considerJudgeVerdict ==
    /\ judge # 0 /\ judgeOpen > 0
    /\ Active /\ awaitVerdict
    /\ applyJudgeAction(judgeOpen)
    /\ UNCHANGED <<settingVars, queueVars, corrected, deferPrefix, deferHold,
                   httpBusy, evals>>

\* A variant: the wait for the corrected reply has no timeout.
AskAgainUntimed ==
    /\ ~corrected
    /\ corrected' = TRUE /\ judgeOpen' = 1
    /\ judgeTimer' = FALSE
    /\ UNCHANGED <<goalVars, awaitVerdict, awaitAuthoring, deferBackground, judge>>

\* processJudgeResponse on a reply without an action: ask once more, then fail.
AskAgain ==
    /\ ~corrected
    /\ corrected' = TRUE /\ judgeOpen' = 1
    /\ judgeTimer' = TRUE
    /\ UNCHANGED <<goalVars, awaitVerdict, awaitAuthoring, deferBackground, judge>>

ParseFailure ==
    /\ corrected
    /\ awaitVerdict' = FALSE
    /\ markTerminal("failed")
    /\ destroyJudgeConnection
    /\ UNCHANGED <<index, iteration, corrected, awaitAuthoring>>

\* onJudgePromptEnded and onAuthoringPromptEnded: the judge's last open
\* prompt is answered.
onJudgePromptEnded ==
    \/ Active /\ awaitVerdict /\ applyJudgeAction(0) /\ UNCHANGED corrected
    \/ /\ awaitVerdict /\ (AskAgain \/ ParseFailure)
       /\ UNCHANGED <<verdicts, sent, target, targetVars>>
    \/ /\ awaitAuthoring
       /\ awaitAuthoring' = FALSE
       /\ advanceCriterion
       /\ UNCHANGED <<awaitVerdict, corrected, verdicts, target>>
    \/ /\ ~Awaiting \/ ~Active
       /\ judgeOpen' = 0
       /\ UNCHANGED <<goalVars, waitVars, targetVars, deferBackground, judge,
                      verdicts, sent, target>>

JudgeAnswers ==
    /\ judge # 0 /\ judgeOpen > 0
    /\ IF judgeOpen = 1
         THEN onJudgePromptEnded
         ELSE /\ judgeOpen' = judgeOpen - 1
              /\ UNCHANGED <<goalVars, waitVars, targetVars, deferBackground, judge,
                             verdicts, sent, target>>
    /\ UNCHANGED <<settingVars, queueVars, deferPrefix, deferHold, httpBusy, evals>>

\* A variant: the timer repeats, and only a missing verdict is given up.
onJudgePromptTimedOutVerdictOnly ==
    /\ judgeTimer
    /\ awaitVerdict /\ awaitVerdict' = FALSE
    /\ markTerminal("failed")
    /\ destroyJudgeConnection
    /\ UNCHANGED <<settingVars, hostVars, pastVars, index, iteration, corrected,
                   awaitAuthoring, deferPrefix, deferHold, httpBusy>>

onJudgePromptTimedOut ==
    /\ judgeTimer /\ judgeTimer' = FALSE
    /\ IF Active /\ Awaiting
         THEN /\ awaitVerdict' = FALSE /\ awaitAuthoring' = FALSE
              /\ destroyJudgeConnection
              /\ status' = "failed" /\ deferBackground' = FALSE
         ELSE UNCHANGED <<status, deferBackground, awaitVerdict, awaitAuthoring, judgeVars>>
    /\ UNCHANGED <<settingVars, hostVars, pastVars, index, iteration, corrected,
                   deferPrefix, deferHold, httpBusy>>

\* The judge process ends (onJudgeExited).  Its connection closes a running
\* turn first, so a reply that is complete still counts: its verdict is
\* applied, then the exit is heard unless that verdict dropped the judge.  A
\* handoff that was or would be written goes out with the text there is.
ExitWithVerdict ==
    /\ awaitVerdict /\ judgeOpen = 1
    /\ awaitVerdict' = FALSE
    /\ verdicts' = verdicts + 1
    /\ UNCHANGED <<awaitAuthoring, corrected>>
    /\ \/ /\ ~LimitReached /\ iteration' = iteration + 1 /\ UNCHANGED index
          /\ markTerminal("failed")
          /\ judgeOpen' = 0 /\ UNCHANGED judge
          /\ \/ sendPromptToTarget /\ UNCHANGED target
             \/ SessionReplaced
             \/ UNCHANGED <<target, targetVars, sent>>
       \/ RestartEmpty(0) \/ Exhausted \/ Achieve \/ Unmet
       \/ index < NumCriteria /\ advanceCriterion /\ UNCHANGED target

ExitInAuthoring ==
    /\ awaitAuthoring /\ awaitAuthoring' = FALSE
    /\ advanceCriterion
    /\ UNCHANGED <<target, awaitVerdict, corrected, verdicts>>

\* The goal fails.  A turn that is closed without an action asks the dead
\* process once more, or is the second to do so; otherwise the supervisor
\* keeps what it waited for, and the connection.
ExitWithoutVerdict ==
    /\ ~awaitAuthoring
    /\ markTerminal("failed")
    /\ judgeOpen' = 0
    /\ \/ UNCHANGED <<judge, awaitVerdict, corrected>>
       \/ awaitVerdict /\ corrected' = TRUE /\ UNCHANGED <<judge, awaitVerdict>>
       \/ awaitVerdict /\ corrected /\ awaitVerdict' = FALSE /\ judge' = 0 /\ UNCHANGED corrected
    /\ UNCHANGED <<index, iteration, awaitAuthoring, target, targetVars, verdicts, sent>>

onJudgeExited ==
    /\ judge # 0 /\ Active
    /\ ExitWithVerdict \/ ExitInAuthoring \/ ExitWithoutVerdict
    /\ UNCHANGED <<settingVars, queueVars, deferPrefix, deferHold, httpBusy, evals>>

\* onHttpVerdict and onHttpAssumedAchieved; onHttpFailed.
HttpVerdict ==
    /\ httpBusy /\ httpBusy' = FALSE
    /\ IF Active
         THEN applyJudgeAction(0)
         ELSE UNCHANGED <<goalVars, judgeVars, targetVars, awaitVerdict,
                          awaitAuthoring, judgeTimer, deferBackground,
                          target, verdicts, sent>>
    /\ UNCHANGED <<settingVars, queueVars, corrected, deferPrefix, deferHold,
                   evals>>

HttpFailed ==
    /\ httpBusy /\ httpBusy' = FALSE
    /\ IF Active THEN awaitVerdict' = FALSE /\ markTerminal("failed")
                 ELSE UNCHANGED <<status, awaitVerdict, judgeTimer, deferBackground>>
    /\ UNCHANGED <<settingVars, hostVars, judgeVars, pastVars, index, iteration,
                   awaitAuthoring, corrected, deferPrefix, deferHold>>

-----------------------------------------------------------------------------
UserStep ==
    \/ StartWithPrompt \/ StartAttachedPrefix \/ StartAttachedBusy \/ StartAttachedIdle
    \/ Stop \/ UserSends \/ UserRestarts \/ TargetDestroyed
    \/ \E i \in 1 .. QueueLimit : RemoveQueued(i)

TargetStep ==
    \/ FormCancelled \/ flushQueuedPrompt
    \/ SessionReady \/ WakeUpTurn \/ TurnEnds \/ TargetExits
    \/ TaskStarts \/ TasksFinish \/ backgroundIdle

JudgeStep ==
    \/ considerJudgeVerdict \/ JudgeAnswers \/ onJudgePromptTimedOut
    \/ onJudgeExited
    \/ HttpVerdict \/ HttpFailed

Next == UserStep \/ TargetStep \/ JudgeStep

Spec == Init /\ [][Next]_vars

(***************************************************************************)
(* Fairness.  The target is an agent whose turns end and whose session and *)
(* background tasks come to an end (AcpTurn); the timers are Qt timers and *)
(* the HTTP client has a transfer timeout.  Nothing is assumed of the      *)
(* judge process: its timeout has to be enough.  The composer's flush is a *)
(* zero timer posted at every turn end: an agent may start a turn of its   *)
(* own before it fires, but not every time (strong fairness).              *)
(***************************************************************************)
Fairness ==
    /\ WF_vars(TurnEnds) /\ WF_vars(SessionReady) /\ WF_vars(TasksFinish)
    /\ SF_vars(flushQueuedPrompt) /\ WF_vars(backgroundIdle)
    /\ WF_vars(onJudgePromptTimedOut)
    /\ WF_vars(HttpVerdict \/ HttpFailed)

FairSpec == Spec /\ Fairness

-----------------------------------------------------------------------------
(* Properties *)

\* The type invariant.
TypeOK ==
    /\ request \in Requests
    /\ status \in {"idle", "active"} \union Terminal
    /\ index \in 1 .. NumCriteria /\ iteration \in 0 .. MaxIterations - 1
    /\ awaitVerdict \in BOOLEAN /\ awaitAuthoring \in BOOLEAN
    /\ corrected \in BOOLEAN /\ judgeTimer \in BOOLEAN
    /\ deferPrefix \in BOOLEAN /\ deferBackground \in BOOLEAN /\ deferHold \in BOOLEAN
    /\ judge \in 0 .. NumCriteria /\ judgeOpen \in Nat
    /\ httpBusy \in BOOLEAN
    /\ target \in {"up", "exited", "replaced"}
    /\ session \in BOOLEAN /\ pending \in BOOLEAN /\ processing \in BOOLEAN
    /\ background \in {"none", "tasks", "grace"}
    /\ notice \in BOOLEAN /\ queue \in Seq({"user", "goal"})
    /\ evals \in Nat /\ verdicts \in Nat /\ sent \in Nat

\* A criterion is judged by the connection spawned for it, which reads no
\* leftovers of the last criterion's judge: whatever path moved the cursor
\* (a handoff, the iteration cap, an exit in the middle of authoring).
JudgePresent ==
    Active /\ ~request.http => judge = index

\* A supervisor that waits for the judge is woken whatever the judge does:
\* the timeout is armed, or the HTTP request is out (armJudgePromptTimeout,
\* on every path that sends the judge something).
WaitHasWaker ==
    Active /\ Awaiting => IF request.http THEN httpBusy ELSE judgeTimer

\* An active supervisor of a live target always has something to drive it on:
\* the judge it waits for, a turn that runs or will start, background work it
\* deferred for, or its own item in the composer's queue.  A judge postponed
\* for one of these is never left without it (onTargetPromptEnded,
\* evaluateWhenTargetSettled, noteDeferredGoalDispatched and ...Dropped).
AlwaysDriven ==
    Active /\ target = "up" =>
        \/ Awaiting
        \/ processing \/ pending
        \/ deferBackground /\ background # "none"
        \/ deferHold /\ notice
        \/ deferPrefix /\ (notice \/ \E i \in DOMAIN queue : queue[i] = "goal")

\* One evaluation, one verdict: the judge may answer by tool call and by text,
\* die after answering or answer a cancelled turn late, and still no evaluation
\* moves the goal twice or is left uncounted.
OneVerdictEach ==
    Active => evals = verdicts + (IF awaitVerdict THEN 1 ELSE 0)

\* "A goal is not judged ... while the agent still has background tasks running
\* or a wake-up turn pending" (README.md:15), nor in the middle of a turn, nor
\* while the notice of a cancelled form is still to be sent (setTargetHoldProbe).
JudgesSettledTarget ==
    [][evals' > evals => ~processing' /\ background' = "none" /\ ~notice']_vars

\* Once the goal is over the supervisor prompts the target no more and asks the
\* judge for nothing: late answers, timers and exits find it inert.
SilentAfterEnd ==
    [][Over => sent' = sent /\ evals' = evals /\ status' = status]_vars

\* The goal as its user knows it (GoalCourse): criteria one after the other, a
\* capped number of judged rounds for each, achieved at the last one only, and
\* nothing more once it has ended.  What happens to the target, the timers, the
\* judge's process and the composer is inside its steps.
Phase ==
    IF ~Active THEN "none"
    ELSE IF awaitVerdict THEN "judging" ELSE IF awaitAuthoring THEN "handing" ELSE "working"

Course == INSTANCE GoalCourse WITH
    Criteria <- NumCriteria, Rounds <- MaxIterations,
    stage <- status, phase <- Phase, at <- index, round <- iteration, asked <- evals

\* Whatever the judge answers and in whatever order its answers, its timeout,
\* its exit and the user's Stop arrive (applyJudgeAction, onJudgeExited,
\* onJudgePromptTimedOut), the supervisor only does what a goal may do.
FollowsCourse == Course!Spec

\* Every goal comes to an end, whatever the judge does, as long as the target
\* lives: the iteration cap bounds the verdicts, the timeout the judge.
GoalEnds == Active ~> ~Active \/ target # "up"

\* A deferred /goal counts as delivered only when it was: "Until one of these, a
\* turn end must not judge - the goal has not been delivered yet"
\* (GoalAgent.h, noteDeferredGoalDispatched).
GoalDelivered ==
    [][evals' > evals => \A i \in DOMAIN queue' : queue'[i] # "goal"]_vars
=============================================================================
