--------------------------- MODULE AcpTurn_proofs ---------------------------
(* Proofs about AcpTurn: type correctness, the retry and wake-up invariants,  *)
(* and, for an agent that never answers session_busy, that a turn never ends  *)
(* before the prompts it is made of are answered.                            *)
EXTENDS AcpTurn, FiniteSetTheorems, TLAPS

\* What holds between the turn flag, the counter and the timers.
TurnShape ==
    /\ openPrompts > 0 => inFlight
    /\ idleTimer => inFlight /\ openPrompts = 0 /\ ~retryPending
    /\ retryTimer => retryPending
    /\ retryPending => retryPrompt \in Prompts
    /\ bgTimer => liveTasks = {}

\* The inductive invariant for every agent.
TurnInv == TypeOK /\ TurnShape /\ RetryHoldsTurn /\ NoLostWakeup

\* The strengthening for an agent that never answers session_busy: the counter
\* covers every request that is out.
Covered ==
    /\ ~retryPending
    /\ running => Cardinality(outstanding) <= openPrompts

-----------------------------------------------------------------------------
\* TurnInv holds initially: nothing has been sent and no timer is armed.
LEMMA InitTurnInv == Init => TurnInv
<1> SUFFICES ASSUME Init PROVE TurnInv
  OBVIOUS
<1>1. TypeOK
  BY DEF Init, TypeOK
<1>2. TurnShape /\ RetryHoldsTurn /\ NoLostWakeup
  BY DEF Init, TurnShape, RetryHoldsTurn, NoLostWakeup
<1> QED
  BY <1>1, <1>2 DEF TurnInv

\* A finite set of prompts has a natural cardinality.
LEMMA PromptsCount ==
    ASSUME NEW S, S \subseteq Prompts
    PROVE  IsFiniteSet(S) /\ Cardinality(S) \in Nat /\ (Cardinality(S) = 0 <=> S = {})
  BY FinitenessAssumption, FS_Subset, FS_CardinalityType, FS_EmptySet

\* notePromptOpened counts up from at least the value it finds.
LEMMA OpenedCountType ==
    ASSUME TypeOK, NEW n \in Nat \ {0}
    PROVE  OpenedCount(n) \in Nat /\ OpenedCount(n) >= openPrompts + n
  BY DEF TypeOK, OpenedCount

\* notePromptOpened leaves a turn in flight, its counter positive, its timers
\* off; it never arms the grace timer.
LEMMA OpenedShape ==
    ASSUME TypeOK, TurnShape, NEW n \in Nat \ {0}, notePromptOpened(n)
    PROVE  /\ openPrompts' \in Nat /\ openPrompts' > 0
           /\ inFlight' = TRUE /\ idleTimer' = FALSE
           /\ bgTimer' \in BOOLEAN /\ (bgTimer' => bgTimer)
<1>1. openPrompts' \in Nat /\ openPrompts' > 0
  BY OpenedCountType DEF notePromptOpened, TypeOK
<1>2. inFlight' = TRUE
  <2>1. CASE openPrompts = 0
    BY <2>1 DEF notePromptOpened
  <2>2. CASE openPrompts # 0
    <3>1. inFlight
      BY <2>2 DEF TypeOK, TurnShape
    <3> QED
      BY <3>1 DEF notePromptOpened
  <2> QED
    BY <2>1, <2>2
<1>3. idleTimer' = FALSE
  BY DEF notePromptOpened
<1>4. bgTimer' \in BOOLEAN /\ (bgTimer' => bgTimer)
  BY DEF notePromptOpened, TypeOK
<1> QED
  BY <1>1, <1>2, <1>3, <1>4

\* notePromptClosed keeps the turn flag, the counter and the timer in step.
LEMMA ClosedShape ==
    ASSUME TypeOK, TurnShape, inFlight' = inFlight, notePromptClosed(openPrompts)
    PROVE  /\ openPrompts' \in Nat /\ openCalls' \subseteq Calls
           /\ openPrompts' > 0 => inFlight'
           /\ idleTimer' \in BOOLEAN
           /\ idleTimer' => inFlight' /\ openPrompts' = 0
<1> USE DEF TypeOK, TurnShape, notePromptClosed, NothingOpen
<1>1. openPrompts' \in Nat /\ openPrompts' <= openPrompts
  OBVIOUS
<1>2. openCalls' \subseteq Calls
  OBVIOUS
<1>3. openPrompts' > 0 => inFlight'
  BY <1>1
<1>4. idleTimer' \in BOOLEAN
  OBVIOUS
<1>5. idleTimer' => inFlight' /\ openPrompts' = 0
  OBVIOUS
<1> QED
  BY <1>1, <1>2, <1>3, <1>4, <1>5

-----------------------------------------------------------------------------
\* Every step of the connection and of the agent preserves TurnInv.
LEMMA NextTurnInv == TurnInv /\ [Next]_vars => TurnInv'
<1> SUFFICES ASSUME TurnInv, [Next]_vars PROVE TurnInv'
  OBVIOUS
<1> USE DEF TurnInv, TypeOK, TurnShape, RetryHoldsTurn, NoLostWakeup,
            hasPendingBackgroundWork, hostVars, turnVars, retryVars, workVars,
            taskVars, agentVars, vars, NothingOpen
<1>1. ASSUME NEW p \in Prompts, QueuePrompt(p) PROVE TurnInv'
  BY <1>1 DEF QueuePrompt
<1>2. ASSUME NEW p \in Prompts, SendPrompt(p) PROVE TurnInv'
  <2>1. TypeOK /\ TurnShape /\ notePromptOpened(1)
    BY <1>2 DEF SendPrompt
  <2>2. /\ openPrompts' \in Nat /\ openPrompts' > 0
        /\ inFlight' = TRUE /\ idleTimer' = FALSE
        /\ bgTimer' \in BOOLEAN /\ (bgTimer' => bgTimer)
    BY <2>1, OpenedShape, 1 \in Nat \ {0}
  <2> QED
    BY <1>2, <2>2 DEF SendPrompt
<1>3. ASSUME NEW p \in Prompts, SendPromptToDead(p) PROVE TurnInv'
  <2>1. openPrompts' \in Nat
    BY <1>3, OpenedCountType DEF SendPromptToDead
  <2>2. openCalls' \subseteq Calls
    BY <1>3 DEF SendPromptToDead
  <2>3. /\ inFlight' = TRUE /\ idleTimer' \in BOOLEAN /\ bgTimer' \in BOOLEAN
        /\ bgTimer' => bgTimer
        /\ idleTimer' => openPrompts' = 0
    BY <1>3 DEF SendPromptToDead
  <2> QED
    BY <1>3, <2>1, <2>2, <2>3 DEF SendPromptToDead, stopSessionBusyRetry
<1>4. CASE CancelPrompt
  <2>1. openPrompts' \in Nat /\ (openPrompts' > 0 => inFlight)
    BY <1>4 DEF CancelPrompt
  <2>2. resolved' \subseteq Prompts
    BY <1>4 DEF CancelPrompt
  <2>3. /\ idleTimer' \in BOOLEAN
        /\ idleTimer' => inFlight /\ openPrompts' = 0
    BY <1>4 DEF CancelPrompt
  <2> QED
    BY <1>4, <2>1, <2>2, <2>3 DEF CancelPrompt, stopSessionBusyRetry
<1>5. ASSUME NEW q \in Permissions, AnswerPermission(q) PROVE TurnInv'
  BY <1>5 DEF AnswerPermission
<1>6. CASE SessionReady
  <2>1. CASE pendingPrompts = {}
    BY <1>6, <2>1 DEF SessionReady
  <2>2. CASE pendingPrompts # {}
    <3>1. Cardinality(pendingPrompts) \in Nat \ {0}
      BY <2>2, PromptsCount
    <3> QED
      BY <1>6, <2>2, <3>1, OpenedShape DEF SessionReady
  <2> QED
    BY <2>1, <2>2
<1>7. ASSUME NEW p \in Prompts, Answered(p) PROVE TurnInv'
  BY <1>7, ClosedShape DEF Answered, stopSessionBusyRetry
<1>8. ASSUME NEW p \in Prompts, Busy(p) PROVE TurnInv'
  <2>1. CASE BusyIgnored(p)
    BY <1>8, <2>1 DEF Busy, BusyIgnored, stopSessionBusyRetry
  <2>2. CASE BusyGiveUp(p)
    BY <1>8, <2>2, ClosedShape DEF Busy, BusyGiveUp, stopSessionBusyRetry
  <2>3. CASE BusyRetryLater(p)
    <3>1. retryElapsed' \in Nat /\ retryDelay' \in Nat
      BY <2>3, RetryAssumption DEF BusyRetryLater
    <3> QED
      BY <1>8, <2>3, <3>1 DEF Busy, BusyRetryLater
  <2> QED
    BY <1>8, <2>1, <2>2, <2>3 DEF Busy
<1>9. CASE StreamChunk
  BY <1>9 DEF StreamChunk, noteStreamingActivity
<1>10. ASSUME NEW c \in Calls, ToolOpen(c) PROVE TurnInv'
  BY <1>10 DEF ToolOpen, noteStreamingActivity
<1>11. ASSUME NEW c \in Calls, ToolClose(c) PROVE TurnInv'
  BY <1>11 DEF ToolClose
<1>12. ASSUME NEW q \in Permissions, AskPermission(q) PROVE TurnInv'
  BY <1>12 DEF AskPermission
<1>13. CASE CycleResult
  BY <1>13 DEF CycleResult, endPrompt, SuperviseTurnEnd
<1>14. CASE PromptStartUpdate
  BY <1>14 DEF PromptStartUpdate
<1>15. CASE PromptEndUpdate
  BY <1>15 DEF PromptEndUpdate, endPrompt, SuperviseTurnEnd
<1>16. ASSUME NEW t \in Tasks, TaskSpawned(t) PROVE TurnInv'
  BY <1>16 DEF TaskSpawned
<1>17. ASSUME NEW t \in Tasks, TaskFinished(t) PROVE TurnInv'
  BY <1>17 DEF TaskFinished
<1>18. CASE ProcessFinished
  <2>1. TypeOK'
    BY <1>18 DEF ProcessFinished, stopSessionBusyRetry, endPrompt, SuperviseTurnEnd
  <2>2. TurnShape'
    BY <1>18 DEF ProcessFinished, stopSessionBusyRetry, endPrompt, SuperviseTurnEnd
  <2>3. RetryHoldsTurn'
    BY <1>18 DEF ProcessFinished, stopSessionBusyRetry, endPrompt, SuperviseTurnEnd
  <2>4. NoLostWakeup'
    BY <1>18 DEF ProcessFinished, stopSessionBusyRetry, endPrompt, SuperviseTurnEnd
  <2> QED
    BY <2>1, <2>2, <2>3, <2>4
<1>19. CASE IdleTimeout
  <2>1. TypeOK'
    BY <1>19 DEF IdleTimeout, SuperviseTurnEnd
  <2>2. TurnShape'
    BY <1>19 DEF IdleTimeout, SuperviseTurnEnd
  <2>3. RetryHoldsTurn'
    BY <1>19 DEF IdleTimeout, SuperviseTurnEnd
  <2>4. NoLostWakeup'
    BY <1>19 DEF IdleTimeout, SuperviseTurnEnd
  <2> QED
    BY <2>1, <2>2, <2>3, <2>4
<1>20. CASE RetryTimeout
  <2>1. TypeOK'
    BY <1>20 DEF RetryTimeout
  <2>2. TurnShape'
    BY <1>20 DEF RetryTimeout
  <2>3. RetryHoldsTurn'
    BY <1>20 DEF RetryTimeout
  <2>4. NoLostWakeup'
    BY <1>20 DEF RetryTimeout
  <2> QED
    BY <2>1, <2>2, <2>3, <2>4
<1>21. CASE BackgroundTimeout
  BY <1>21 DEF BackgroundTimeout
<1>22. CASE UNCHANGED vars
  BY <1>22
<1> QED
  BY <1>1, <1>2, <1>3, <1>4, <1>5, <1>6, <1>7, <1>8, <1>9, <1>10, <1>11, <1>12,
     <1>13, <1>14, <1>15, <1>16, <1>17, <1>18, <1>19, <1>20, <1>21, <1>22
     DEF Next, HostStep, AgentStep, TimerStep

\* TurnInv is an invariant of the connection.
THEOREM TurnInvariance == Spec => []TurnInv
  BY InitTurnInv, NextTurnInv, PTL DEF Spec

\* Type correctness.
THEOREM TypeCorrect == Spec => []TypeOK
<1>1. TurnInv => TypeOK
  BY DEF TurnInv
<1> QED
  BY <1>1, TurnInvariance, PTL

\* A prompt waiting for its session_busy retry keeps the turn open, for any
\* agent and any callers.
THEOREM RetryHolds == Spec => []RetryHoldsTurn
<1>1. TurnInv => RetryHoldsTurn
  BY DEF TurnInv
<1> QED
  BY <1>1, TurnInvariance, PTL

\* A supervisor that skipped a turn end always has a signal still to come.
THEOREM WakeupNotLost == Spec => []NoLostWakeup
<1>1. TurnInv => NoLostWakeup
  BY DEF TurnInv
<1> QED
  BY <1>1, TurnInvariance, PTL
-----------------------------------------------------------------------------
\* The longest back-off delay, and the invariant of the back-off.
LongestDelay == IF RetryInitialMs > RetryMaxDelayMs THEN RetryInitialMs
                                                    ELSE RetryMaxDelayMs
Backoff == retryDelay <= LongestDelay /\ BusyWaitBounded

\* Every step keeps the back-off within its limits.
LEMMA NextBackoff ==
    ASSUME TypeOK, Backoff, [Next]_vars
    PROVE  Backoff'
<1> USE DEF Backoff
<1>1. CASE UNCHANGED <<retryElapsed, retryDelay>>
  BY <1>1 DEF BusyWaitBounded
<1>2. CASE stopSessionBusyRetry
  BY <1>2, RetryAssumption DEF stopSessionBusyRetry, BusyWaitBounded, LongestDelay
<1>3. ASSUME NEW p \in Prompts, BusyRetryLater(p) PROVE Backoff'
  <2>1. /\ retryElapsed \in Nat /\ retryElapsed < RetryGiveUpMs
        /\ retryDelay \in Nat
    BY <1>3, RetryAssumption DEF BusyRetryLater, RetryExhausted, TypeOK
  <2>2. \E delay \in Nat : /\ delay <= LongestDelay
                           /\ retryElapsed' = retryElapsed + delay
    BY <1>3, <2>1, RetryAssumption DEF BusyRetryLater, LongestDelay
  <2>3. retryDelay' <= LongestDelay
    BY <1>3, <2>1, RetryAssumption DEF BusyRetryLater, LongestDelay
  <2>4. BusyWaitBounded'
    BY <2>1, <2>2, RetryAssumption DEF BusyWaitBounded, LongestDelay
  <2> QED
    BY <2>3, <2>4
<1> QED
  BY <1>1, <1>2, <1>3
     DEF Next, HostStep, AgentStep, TimerStep, vars, retryVars, QueuePrompt,
         SendPrompt, SendPromptToDead, CancelPrompt, AnswerPermission,
         SessionReady, Answered, Busy, BusyIgnored, BusyGiveUp, StreamChunk,
         ToolOpen, ToolClose, AskPermission, CycleResult, PromptStartUpdate,
         PromptEndUpdate, TaskSpawned, TaskFinished, IdleTimeout, RetryTimeout,
         BackgroundTimeout, ProcessFinished

\* The session_busy back-off gives up: however often the agent says busy, a
\* prompt waits less than the limit plus one delay.
THEOREM BackoffBounded == Spec => []BusyWaitBounded
<1>1. Init => Backoff
  BY RetryAssumption DEF Init, Backoff, BusyWaitBounded, LongestDelay
<1>2. TypeOK /\ Backoff /\ [Next]_vars => Backoff'
  BY NextBackoff
<1>3. Backoff => BusyWaitBounded
  BY DEF Backoff
<1> QED
  BY <1>1, <1>2, <1>3, TypeCorrect, PTL DEF Spec

-----------------------------------------------------------------------------
\* An agent that never answers session_busy: every request that is out is
\* counted in m_openPrompts, whoever sent it and whenever.
LEMMA InitCovered == Init => Covered
  BY FS_EmptySet DEF Init, Covered

\* Every step keeps the requests that are out covered by the counter.
LEMMA NextCovered ==
    ASSUME MayBeBusy = FALSE, TurnInv, Covered, [Next]_vars
    PROVE  Covered'
<1> USE DEF Covered
<1>0. TypeOK /\ ~retryPending /\ ~retryTimer
  BY DEF TurnInv, TurnShape
<1>1. \A S : S \subseteq Prompts => IsFiniteSet(S) /\ Cardinality(S) \in Nat
  BY PromptsCount
<1>2. ASSUME NEW p \in Prompts, SendPrompt(p) PROVE Covered'
  <2>1. openPrompts' \in Nat /\ openPrompts' >= openPrompts + 1
    BY <1>2, <1>0, OpenedCountType DEF SendPrompt, notePromptOpened
  <2>2. Cardinality(outstanding') <= Cardinality(outstanding) + 1
    BY <1>0, <1>1, <1>2, FS_AddElement DEF SendPrompt, TypeOK
  <2> QED
    BY <1>0, <1>1, <1>2, <2>1, <2>2 DEF SendPrompt, TypeOK, retryVars
<1>3. CASE SessionReady
  <2>1. CASE pendingPrompts = {}
    BY <1>0, <1>3, <2>1 DEF SessionReady, retryVars, turnVars
  <2>2. CASE pendingPrompts # {}
    <3>1. Cardinality(pendingPrompts) \in Nat \ {0}
      BY <1>0, <2>2, PromptsCount DEF TypeOK
    <3>2. openPrompts' \in Nat /\ openPrompts' >= openPrompts + Cardinality(pendingPrompts)
      BY <1>0, <1>3, <2>2, <3>1, OpenedCountType DEF SessionReady, notePromptOpened
    <3>3. Cardinality(outstanding')
            <= Cardinality(outstanding) + Cardinality(pendingPrompts)
      <4>1. /\ IsFiniteSet(outstanding) /\ IsFiniteSet(pendingPrompts)
            /\ Cardinality(outstanding \cap pendingPrompts) \in Nat
        BY <1>0, <1>1 DEF TypeOK
      <4>2. Cardinality(outstanding \union pendingPrompts)
              = Cardinality(outstanding) + Cardinality(pendingPrompts)
                  - Cardinality(outstanding \cap pendingPrompts)
        BY <4>1, FS_Union
      <4> QED
        BY <1>0, <1>1, <1>3, <4>1, <4>2 DEF SessionReady, TypeOK
    <3> QED
      BY <1>0, <1>1, <1>3, <3>1, <3>2, <3>3 DEF SessionReady, TypeOK, retryVars
  <2> QED
    BY <2>1, <2>2
<1>4. ASSUME NEW p \in Prompts, Answered(p) PROVE Covered'
  <2>1. Cardinality(outstanding') = Cardinality(outstanding) - 1
    BY <1>0, <1>1, <1>4, FS_RemoveElement DEF Answered, TypeOK
  <2>2. openPrompts' = openPrompts - 1 \/ openPrompts = 0
    BY <1>0, <1>4 DEF Answered, notePromptClosed, TypeOK
  <2>3. openPrompts' \in Nat
    BY <1>0, <1>4 DEF Answered, notePromptClosed, TypeOK
  <2> QED
    BY <1>0, <1>1, <1>4, <2>1, <2>2, <2>3
       DEF Answered, TypeOK, stopSessionBusyRetry
<1>5. ASSUME NEW p \in Prompts, Busy(p) PROVE Covered'
  BY <1>5 DEF Busy
<1>6. ASSUME NEW p \in Prompts, SendPromptToDead(p) PROVE Covered'
  BY <1>6 DEF SendPromptToDead, stopSessionBusyRetry
<1>7. CASE CancelPrompt
  BY <1>0, <1>7 DEF CancelPrompt, stopSessionBusyRetry
<1>8. CASE ProcessFinished
  BY <1>8 DEF ProcessFinished, stopSessionBusyRetry
<1>9. CASE RetryTimeout
  BY <1>0, <1>9 DEF RetryTimeout
<1>10. CASE UNCHANGED <<running, outstanding, openPrompts, retryPending>>
  BY <1>10
<1> QED
  BY <1>2, <1>3, <1>4, <1>5, <1>6, <1>7, <1>8, <1>9, <1>10
     DEF Next, HostStep, AgentStep, TimerStep, vars, hostVars, turnVars,
         retryVars, QueuePrompt, AnswerPermission, StreamChunk, ToolOpen,
         ToolClose, AskPermission, CycleResult, PromptStartUpdate,
         PromptEndUpdate, TaskSpawned, TaskFinished, IdleTimeout,
         BackgroundTimeout

\* A turn is declared over only when no prompt counts as open.
LEMMA EndsUncounted ==
    ASSUME TurnInv, Next, inFlight, ~inFlight', running'
    PROVE  openPrompts = 0
<1> USE DEF TurnInv, TypeOK
<1>1. ASSUME NEW p \in Prompts, SendPrompt(p) \/ SendPromptToDead(p) PROVE FALSE
  BY <1>1 DEF SendPrompt, notePromptOpened, SendPromptToDead
<1>2. ASSUME NEW p \in Prompts, QueuePrompt(p) \/ Answered(p) \/ Busy(p) PROVE FALSE
  BY <1>2 DEF QueuePrompt, Answered, Busy, BusyIgnored, BusyGiveUp,
     BusyRetryLater, turnVars
<1>3. CASE SessionReady
  BY <1>3 DEF SessionReady, notePromptOpened, turnVars
<1>4. CASE CancelPrompt \/ \E q \in Permissions : AnswerPermission(q) \/ AskPermission(q)
  BY <1>4 DEF CancelPrompt, AnswerPermission, AskPermission, turnVars
<1>5. ASSUME NEW c \in Calls, ToolOpen(c) \/ ToolClose(c) PROVE FALSE
  BY <1>5 DEF ToolOpen, ToolClose, noteStreamingActivity
<1>6. CASE StreamChunk \/ PromptStartUpdate
  BY <1>6 DEF StreamChunk, noteStreamingActivity, PromptStartUpdate
<1>7. CASE \E t \in Tasks : TaskSpawned(t) \/ TaskFinished(t)
  BY <1>7 DEF TaskSpawned, TaskFinished, turnVars
<1>8. CASE CycleResult \/ PromptEndUpdate
  <2>1. ~(openPrompts > 0)
    BY <1>8, Zenon DEF CycleResult, PromptEndUpdate, endPrompt
  <2> QED
    BY <2>1
<1>9. CASE IdleTimeout
  BY <1>9 DEF IdleTimeout, NothingOpen
<1>10. CASE RetryTimeout \/ BackgroundTimeout
  BY <1>10 DEF RetryTimeout, BackgroundTimeout, turnVars
<1>11. CASE ProcessFinished
  BY <1>11 DEF ProcessFinished
<1> QED
  BY <1>1, <1>2, <1>3, <1>4, <1>5, <1>6, <1>7, <1>8, <1>9, <1>10, <1>11
     DEF Next, HostStep, AgentStep, TimerStep

\* While the agent never answers session_busy, promptEnded is emitted only when
\* every session/prompt is answered, however the callers' prompts overlap.
THEOREM TurnEndsAnswered == MayBeBusy = FALSE /\ Spec => EndMeansAnswered
<1> SUFFICES ASSUME MayBeBusy = FALSE PROVE Spec => EndMeansAnswered
  OBVIOUS
<1>1. Init => TurnInv /\ Covered
  BY InitTurnInv, InitCovered
<1>2. TurnInv /\ Covered /\ [Next]_vars => TurnInv' /\ Covered'
  BY NextTurnInv, NextCovered
<1>3. TurnInv /\ Covered /\ [Next]_vars
        => [inFlight /\ ~inFlight' /\ running'
              => outstanding = {} /\ ~retryPending]_vars
  <2> SUFFICES ASSUME TurnInv, Covered, Next, inFlight, ~inFlight', running'
               PROVE  outstanding = {} /\ ~retryPending
    BY DEF vars
  <2>1. openPrompts = 0
    BY EndsUncounted
  <2>2. running
    BY DEF Next, HostStep, AgentStep, TimerStep, QueuePrompt,
       SendPrompt, SendPromptToDead, CancelPrompt, AnswerPermission, SessionReady,
       Answered, Busy, StreamChunk, ToolOpen, ToolClose, AskPermission,
       CycleResult, PromptStartUpdate, PromptEndUpdate, TaskSpawned,
       TaskFinished, IdleTimeout, RetryTimeout, BackgroundTimeout, ProcessFinished
  <2> QED
    BY <2>1, <2>2, PromptsCount DEF TurnInv, TypeOK, Covered
<1> QED
  BY <1>1, <1>2, <1>3, PTL DEF Spec, EndMeansAnswered
-----------------------------------------------------------------------------
\* With callers that never send into a turn the agent started itself, the
\* counter is exact: nothing is out before the session is up, a prompt is
\* queued or out only once it was handed over, and never both.
ExactInv ==
    /\ ~retryPending
    /\ ~session => ~inFlight /\ outstanding = {}
    /\ pendingPrompts \union outstanding \subseteq issued
    /\ pendingPrompts \cap outstanding = {}
    /\ running => openPrompts = Cardinality(outstanding)

LEMMA InitExact == Init => ExactInv
  BY FS_EmptySet DEF Init, ExactInv

\* A prompt is handed over in a turn of ours or outside a turn, so that
\* notePromptOpened counts up from the counter itself.
LEMMA OpensFromCount ==
    ASSUME TypeOK, Overlap # "any", MaySend
    PROVE  OpenedCount(1) = openPrompts + 1
  BY EnvironmentAssumption DEF TypeOK, MaySend, OpenedCount

\* Every step keeps the counter exact.
LEMMA NextExact ==
    ASSUME MayBeBusy = FALSE, Overlap # "any", TurnInv, ExactInv, [Next]_vars
    PROVE  ExactInv'
<1> USE DEF ExactInv
<1>0. TypeOK /\ ~retryPending /\ ~retryTimer
  BY DEF TurnInv, TurnShape
<1>1. \A S : S \subseteq Prompts =>
          IsFiniteSet(S) /\ Cardinality(S) \in Nat /\ (Cardinality(S) = 0 <=> S = {})
  BY PromptsCount
<1>2. ASSUME NEW p \in Prompts, QueuePrompt(p) PROVE ExactInv'
  BY <1>2 DEF QueuePrompt, turnVars, retryVars
<1>3. ASSUME NEW p \in Prompts, SendPrompt(p) PROVE ExactInv'
  <2>1. openPrompts' = openPrompts + 1
    BY <1>0, <1>3, OpensFromCount DEF SendPrompt, notePromptOpened
  <2>2. p \notin outstanding /\ outstanding' = outstanding \union {p}
    BY <1>3 DEF SendPrompt
  <2>3. Cardinality(outstanding') = Cardinality(outstanding) + 1
    BY <1>0, <1>1, <2>2, FS_AddElement DEF TypeOK
  <2> QED
    BY <1>3, <2>1, <2>2, <2>3 DEF SendPrompt, retryVars
<1>4. ASSUME NEW p \in Prompts, SendPromptToDead(p) PROVE ExactInv'
  BY <1>4 DEF SendPromptToDead, stopSessionBusyRetry
<1>5. CASE CancelPrompt
  BY <1>0, <1>5 DEF CancelPrompt, stopSessionBusyRetry
<1>6. CASE SessionReady
  <2>1. outstanding' = pendingPrompts /\ pendingPrompts' = {} /\ session'
    BY <1>6 DEF SessionReady
  <2>2. openPrompts = 0 /\ ~inFlight
    BY <1>0, <1>1, <1>6 DEF SessionReady, TypeOK
  <2>3. openPrompts' = Cardinality(pendingPrompts)
    <3>1. CASE pendingPrompts = {}
      BY <1>1, <1>6, <2>2, <3>1 DEF SessionReady, turnVars
    <3>2. CASE pendingPrompts # {}
      BY <1>0, <1>1, <1>6, <2>2, <3>2
         DEF SessionReady, notePromptOpened, OpenedCount, TypeOK
    <3> QED
      BY <3>1, <3>2
  <2> QED
    BY <1>6, <2>1, <2>3 DEF SessionReady, retryVars
<1>7. ASSUME NEW p \in Prompts, Answered(p) PROVE ExactInv'
  <2>1. /\ p \in outstanding /\ outstanding' = outstanding \ {p}
        /\ running /\ session
    BY <1>7 DEF Answered
  <2>2. Cardinality(outstanding') = Cardinality(outstanding) - 1
    BY <1>0, <1>1, <2>1, FS_RemoveElement DEF TypeOK
  <2>3. openPrompts > 0
    BY <1>0, <1>1, <2>1 DEF TypeOK
  <2>4. openPrompts' = openPrompts - 1
    BY <1>0, <1>7, <2>3 DEF Answered, notePromptClosed, TypeOK
  <2> QED
    BY <1>7, <2>1, <2>2, <2>4 DEF Answered, stopSessionBusyRetry
<1>8. ASSUME NEW p \in Prompts, Busy(p) PROVE ExactInv'
  BY <1>8 DEF Busy
<1>9. CASE ProcessFinished
  BY <1>9 DEF ProcessFinished, stopSessionBusyRetry, hostVars, endPrompt
<1>10. CASE CycleResult \/ PromptEndUpdate
  BY <1>10 DEF CycleResult, PromptEndUpdate, hostVars, retryVars
<1>11. CASE IdleTimeout
  BY <1>0, <1>11 DEF IdleTimeout, hostVars, retryVars, TypeOK
<1>12. CASE RetryTimeout
  BY <1>0, <1>12 DEF RetryTimeout
<1>13. CASE UNCHANGED <<running, session, hostVars, openPrompts, inFlight, retryPending>>
  BY <1>13 DEF hostVars
<1>14. CASE /\ session /\ UNCHANGED <<running, session, hostVars, openPrompts, retryPending>>
  BY <1>14 DEF hostVars
<1> QED
  BY <1>2, <1>3, <1>4, <1>5, <1>6, <1>7, <1>8, <1>9, <1>10, <1>11, <1>12, <1>13, <1>14
     DEF Next, HostStep, AgentStep, TimerStep, vars, hostVars, turnVars,
         retryVars, AnswerPermission, StreamChunk, ToolOpen, ToolClose,
         AskPermission, PromptStartUpdate, TaskSpawned, TaskFinished,
         BackgroundTimeout

\* m_openPrompts counts exactly the prompts whose result is owed, as long as
\* nobody sends into a turn the agent started itself and the agent never answers
\* session_busy.
THEOREM CountExact ==
    MayBeBusy = FALSE /\ Overlap # "any" /\ Spec => []OpenPromptsExact
<1> SUFFICES ASSUME MayBeBusy = FALSE, Overlap # "any" PROVE Spec => []OpenPromptsExact
  OBVIOUS
<1>1. Init => TurnInv /\ ExactInv
  BY InitTurnInv, InitExact
<1>2. TurnInv /\ ExactInv /\ [Next]_vars => TurnInv' /\ ExactInv'
  BY NextTurnInv, NextExact
<1>3. TurnInv /\ ExactInv => OpenPromptsExact
  <2> SUFFICES ASSUME ExactInv PROVE OpenPromptsExact
    OBVIOUS
  <2>1. outstanding \union {} = outstanding
    OBVIOUS
  <2> QED
    BY <2>1 DEF ExactInv, OpenPromptsExact
<1> QED
  BY <1>1, <1>2, <1>3, PTL DEF Spec

-----------------------------------------------------------------------------
\* Every step passes a prompt on: from the queue to the agent, from there to
\* its result.
LEMMA NextKept ==
    ASSUME MayBeBusy = FALSE, TurnInv, Covered, NoPromptLost, [Next]_vars
    PROVE  NoPromptLost'
<1> USE DEF NoPromptLost
<1>0. ~retryPending /\ ~retryTimer
  BY DEF TurnInv, TurnShape, Covered
<1>1. ASSUME NEW p \in Prompts, QueuePrompt(p) PROVE NoPromptLost'
  BY <1>0, <1>1 DEF QueuePrompt
<1>2. ASSUME NEW p \in Prompts, SendPrompt(p) \/ SendPromptToDead(p) PROVE NoPromptLost'
  BY <1>0, <1>2 DEF SendPrompt, SendPromptToDead
<1>3. CASE SessionReady
  BY <1>0, <1>3 DEF SessionReady
<1>4. ASSUME NEW p \in Prompts, Answered(p) \/ Busy(p) PROVE NoPromptLost'
  BY <1>0, <1>4 DEF Answered, Busy
<1>5. CASE CancelPrompt \/ RetryTimeout
  BY <1>0, <1>5 DEF CancelPrompt, RetryTimeout
<1>6. CASE ProcessFinished
  BY <1>6 DEF ProcessFinished
<1>7. CASE UNCHANGED <<running, hostVars, retryPending>>
  BY <1>0, <1>7 DEF hostVars
<1> QED
  BY <1>1, <1>2, <1>3, <1>4, <1>5, <1>6, <1>7
     DEF Next, HostStep, AgentStep, TimerStep, vars, retryVars, AnswerPermission,
         StreamChunk, ToolOpen, ToolClose, AskPermission, CycleResult,
         PromptStartUpdate, PromptEndUpdate, TaskSpawned, TaskFinished,
         IdleTimeout, BackgroundTimeout

\* While the agent runs and never answers session_busy, no prompt is dropped
\* between sendPrompt and its result, however the callers' prompts overlap.
THEOREM NothingDropped == MayBeBusy = FALSE /\ Spec => []NoPromptLost
<1> SUFFICES ASSUME MayBeBusy = FALSE PROVE Spec => []NoPromptLost
  OBVIOUS
<1>1. Init => TurnInv /\ Covered /\ NoPromptLost
  BY InitTurnInv, InitCovered DEF Init, NoPromptLost
<1>2. TurnInv /\ Covered /\ NoPromptLost /\ [Next]_vars
        => TurnInv' /\ Covered' /\ NoPromptLost'
  BY NextTurnInv, NextCovered, NextKept
<1> QED
  BY <1>1, <1>2, PTL DEF Spec
-----------------------------------------------------------------------------
\* A composer that sends one prompt at a time, against any agent: nothing is out
\* before the session is up and at most one prompt waits for it.
ComposerInv ==
    /\ ~session => ~inFlight /\ outstanding = {}
    /\ Cardinality(pendingPrompts) <= 1
    /\ CountIsOwed

LEMMA InitComposer == Init => ComposerInv
  BY FS_EmptySet DEF Init, ComposerInv, CountIsOwed

\* Every step keeps the composer's one prompt and what it is owed.
LEMMA NextComposer ==
    ASSUME Overlap = "none", TurnInv, ComposerInv, [Next]_vars
    PROVE  ComposerInv'
<1> USE DEF ComposerInv, CountIsOwed
<1>0. /\ openPrompts \in Nat /\ openPrompts \in {0, 1}
      /\ pendingPrompts \subseteq Prompts
      /\ openPrompts = 1 => inFlight
      /\ retryPending => openPrompts = 1 /\ inFlight /\ running
      /\ retryTimer => retryPending
  <2>1. openPrompts \in Nat /\ openPrompts \in {0, 1} /\ pendingPrompts \subseteq Prompts
    BY DEF TurnInv, TypeOK
  <2> QED
    BY <2>1 DEF TurnInv, TurnShape, RetryHoldsTurn
<1>1. \A S : S \subseteq Prompts =>
          IsFiniteSet(S) /\ Cardinality(S) \in Nat /\ (Cardinality(S) = 0 <=> S = {})
  BY PromptsCount
<1>2. ASSUME NEW p \in Prompts, QueuePrompt(p) PROVE ComposerInv'
  <2>1. pendingPrompts = {}
    BY <1>2 DEF QueuePrompt, MaySend
  <2>2. pendingPrompts' = {p}
    BY <1>2, <2>1 DEF QueuePrompt
  <2>3. Cardinality({p}) = 1
    BY FS_Singleton
  <2> QED
    BY <1>2, <2>2, <2>3 DEF QueuePrompt, turnVars, retryVars
<1>3. ASSUME NEW p \in Prompts, SendPrompt(p) PROVE ComposerInv'
  <2>1. openPrompts = 0 /\ ~inFlight
    BY <1>0, <1>3 DEF SendPrompt, MaySend
  <2>2. openPrompts' = 1
    BY <1>3, <2>1 DEF SendPrompt, notePromptOpened, OpenedCount
  <2> QED
    BY <1>3, <2>2 DEF SendPrompt, retryVars
<1>4. ASSUME NEW p \in Prompts, SendPromptToDead(p) PROVE ComposerInv'
  <2>1. openPrompts = 0 /\ ~inFlight
    BY <1>0, <1>4 DEF SendPromptToDead, MaySend
  <2>2. openPrompts' = 0
    BY <1>4, <2>1 DEF SendPromptToDead, OpenedCount
  <2> QED
    BY <1>4, <2>2 DEF SendPromptToDead
<1>5. CASE CancelPrompt
  BY <1>0, <1>5 DEF CancelPrompt, stopSessionBusyRetry
<1>6. CASE SessionReady
  <2>1. outstanding' = pendingPrompts /\ pendingPrompts' = {} /\ session'
    BY <1>6 DEF SessionReady
  <2>2. openPrompts = 0 /\ ~inFlight
    BY <1>0, <1>6 DEF SessionReady
  <2>3. Cardinality({}) = 0
    BY FS_EmptySet
  <2>4. CASE pendingPrompts = {}
    BY <1>6, <2>1, <2>2, <2>3, <2>4 DEF SessionReady, turnVars
  <2>5. CASE pendingPrompts # {}
    <3>1. Cardinality(pendingPrompts) = 1
      BY <1>0, <1>1, <2>5
    <3>2. openPrompts' = 1
      BY <1>6, <2>2, <2>5, <3>1 DEF SessionReady, notePromptOpened, OpenedCount
    <3> QED
      BY <2>1, <2>3, <2>5, <3>2
  <2> QED
    BY <2>4, <2>5
<1>7. ASSUME NEW p \in Prompts, Answered(p) PROVE ComposerInv'
  <2>1. openPrompts' = 0
    BY <1>0, <1>7 DEF Answered, notePromptClosed
  <2> QED
    BY <1>7, <2>1 DEF Answered
<1>8. ASSUME NEW p \in Prompts, Busy(p) PROVE ComposerInv'
  <2>1. CASE BusyIgnored(p)
    BY <1>8, <2>1 DEF Busy, BusyIgnored, turnVars
  <2>2. CASE BusyGiveUp(p)
    <3>1. openPrompts' = 0
      BY <1>0, <2>2 DEF BusyGiveUp, notePromptClosed
    <3> QED
      BY <1>8, <3>1 DEF Busy
  <2>3. CASE BusyRetryLater(p)
    BY <1>8, <2>3 DEF Busy, BusyRetryLater
  <2> QED
    BY <1>8, <2>1, <2>2, <2>3 DEF Busy
<1>9. CASE ProcessFinished
  <2>1. ~inFlight'
    <3>1. inFlight' = (inFlight /\ 0 > 0)
      BY <1>9, Zenon DEF ProcessFinished, endPrompt
    <3>2. ~(0 > 0)
      OBVIOUS
    <3> QED
      BY <3>1, <3>2, Zenon
  <2>2. /\ session' = session /\ outstanding' = outstanding /\ pendingPrompts' = pendingPrompts
        /\ openPrompts' = 0 /\ running' = FALSE
    BY <1>9 DEF ProcessFinished, hostVars
  <2> QED
    BY <2>1, <2>2
<1>10. CASE CycleResult \/ PromptEndUpdate
  BY <1>10 DEF CycleResult, PromptEndUpdate, hostVars, retryVars
<1>11. CASE IdleTimeout
  BY <1>0, <1>11 DEF IdleTimeout, hostVars, retryVars
<1>12. CASE RetryTimeout
  BY <1>0, <1>12 DEF RetryTimeout, turnVars
<1>13. CASE UNCHANGED <<running, session, hostVars, openPrompts, inFlight, retryPending>>
  BY <1>13 DEF hostVars
<1>14. CASE /\ session /\ UNCHANGED <<running, session, hostVars, openPrompts, retryPending>>
  BY <1>14 DEF hostVars
<1> QED
  BY <1>2, <1>3, <1>4, <1>5, <1>6, <1>7, <1>8, <1>9, <1>10, <1>11, <1>12, <1>13, <1>14
     DEF Next, HostStep, AgentStep, TimerStep, vars, hostVars, turnVars,
         retryVars, AnswerPermission, StreamChunk, ToolOpen, ToolClose,
         AskPermission, PromptStartUpdate, TaskSpawned, TaskFinished,
         BackgroundTimeout

\* With a composer that waits for its turn to end, the count never stays up for
\* a prompt nobody will answer, whatever the agent rejects and whenever the
\* user cancels.
THEOREM NeverLocked == Overlap = "none" /\ Spec => []CountIsOwed
<1> SUFFICES ASSUME Overlap = "none" PROVE Spec => []CountIsOwed
  OBVIOUS
<1>1. Init => TurnInv /\ ComposerInv
  BY InitTurnInv, InitComposer
<1>2. TurnInv /\ ComposerInv /\ [Next]_vars => TurnInv' /\ ComposerInv'
  BY NextTurnInv, NextComposer
<1>3. ComposerInv => CountIsOwed
  BY DEF ComposerInv
<1> QED
  BY <1>1, <1>2, <1>3, PTL DEF Spec
-----------------------------------------------------------------------------
\* Before its session is up a connection has neither a turn nor background work.
SessionFirst == ~session => ~inFlight /\ liveTasks = {} /\ ~bgTimer

\* Only finishSessionSetup opens the session, and only steps of a live session
\* start turns, tasks or the grace timer.
LEMMA NextSessionFirst ==
    ASSUME SessionFirst, [Next]_vars
    PROVE  SessionFirst'
<1> USE DEF SessionFirst
<1>1. ASSUME NEW p \in Prompts,
             QueuePrompt(p) \/ SendPrompt(p) \/ SendPromptToDead(p) \/ Answered(p) \/ Busy(p)
      PROVE  SessionFirst'
  <2>1. CASE SendPrompt(p) \/ SendPromptToDead(p)
    <3>1. session /\ session' = session
      BY <2>1 DEF SendPrompt, SendPromptToDead
    <3> QED
      BY <3>1
  <2>2. CASE QueuePrompt(p) \/ Answered(p) \/ Busy(p)
    <3>1. UNCHANGED <<session, inFlight, taskVars>>
      BY <2>2 DEF QueuePrompt, Answered, Busy, BusyIgnored, BusyGiveUp, BusyRetryLater, turnVars
    <3> QED
      BY <3>1 DEF taskVars
  <2> QED
    BY <1>1, <2>1, <2>2
<1>2. CASE SessionReady
  BY <1>2 DEF SessionReady
<1>3. CASE CancelPrompt \/ \E q \in Permissions : AnswerPermission(q) \/ AskPermission(q)
  BY <1>3 DEF CancelPrompt, AnswerPermission, AskPermission, turnVars, taskVars
<1>4. ASSUME NEW c \in Calls, ToolOpen(c) \/ ToolClose(c) PROVE SessionFirst'
  BY <1>4 DEF ToolOpen, ToolClose
<1>5. CASE StreamChunk \/ CycleResult \/ PromptStartUpdate \/ PromptEndUpdate
  BY <1>5 DEF StreamChunk, CycleResult, PromptStartUpdate, PromptEndUpdate
<1>6. ASSUME NEW t \in Tasks, TaskSpawned(t) \/ TaskFinished(t) PROVE SessionFirst'
  BY <1>6 DEF TaskSpawned, TaskFinished
<1>7. CASE IdleTimeout
  BY <1>7 DEF IdleTimeout, taskVars
<1>8. CASE RetryTimeout \/ BackgroundTimeout
  BY <1>8 DEF RetryTimeout, BackgroundTimeout, turnVars, taskVars
<1>9. CASE ProcessFinished
  <2>1. session' = session /\ liveTasks' = {} /\ bgTimer' = FALSE
    BY <1>9 DEF ProcessFinished
  <2>2. ~inFlight => ~inFlight'
    BY <1>9, Zenon DEF ProcessFinished, endPrompt
  <2> QED
    BY <2>1, <2>2
<1>10. CASE UNCHANGED vars
  BY <1>10 DEF vars, turnVars, taskVars
<1> QED
  BY <1>1, <1>2, <1>3, <1>4, <1>5, <1>6, <1>7, <1>8, <1>9, <1>10
     DEF Next, HostStep, AgentStep, TimerStep

\* What is left of the background work depends on the tasks and the timer alone.
LEMMA BackgroundKept ==
    ASSUME UNCHANGED taskVars
    PROVE  Background' = Background
  BY DEF Background, taskVars

\* A prompt that is handed over starts a turn, as a supervisor sees it.
LEMMA SendsDeliver ==
    ASSUME TurnInv, NEW p \in Prompts, SendPrompt(p) \/ SendPromptToDead(p)
    PROVE  running' = running /\ Seen!Deliver
<1>1. session /\ UNCHANGED <<running, session, pendingPrompts, liveTasks>>
  BY DEF SendPrompt, SendPromptToDead
<1>2. /\ openPrompts > 0 => inFlight
      /\ openPrompts \in Nat
      /\ bgTimer \in BOOLEAN /\ inFlight \in BOOLEAN
      /\ bgTimer => liveTasks = {}
  BY DEF TurnInv, TurnShape, TypeOK
<1>3. inFlight' = TRUE /\ (bgTimer' <=> bgTimer /\ inFlight)
  <2>1. CASE SendPrompt(p)
    <3>1. /\ inFlight' = (inFlight \/ openPrompts = 0)
          /\ bgTimer' = (bgTimer /\ (inFlight \/ openPrompts # 0))
      BY <2>1 DEF SendPrompt, notePromptOpened
    <3>2. openPrompts = 0 \/ inFlight
      BY <1>2
    <3>3. inFlight \/ openPrompts # 0 <=> inFlight
      BY <1>2
    <3> QED
      BY <1>2, <3>1, <3>2, <3>3, Zenon
  <2>2. CASE SendPromptToDead(p)
    BY <2>2 DEF SendPromptToDead
  <2> QED
    BY <2>1, <2>2
<1>4. Background' = IF Background = "grace" /\ ~inFlight THEN "none" ELSE Background
  BY <1>1, <1>2, <1>3 DEF Background
<1> QED
  BY <1>1, <1>3, <1>4 DEF Seen!Deliver, Seen!TurnStarts

\* Traffic of the agent goes on with its turn or wakes the connection up.
LEMMA ActivityWakes ==
    ASSUME TurnInv, running, session, inFlight' = TRUE, bgTimer' = (bgTimer /\ inFlight),
           UNCHANGED <<running, session, pendingPrompts, liveTasks>>
    PROVE  [Seen!Wake]_(Seen!vars) /\ running' = running
<1>1. inFlight \in BOOLEAN /\ bgTimer \in BOOLEAN /\ (bgTimer => liveTasks = {})
  BY DEF TurnInv, TurnShape, TypeOK
<1>2. CASE inFlight
  BY <1>1, <1>2 DEF Seen!vars, Background
<1>3. CASE ~inFlight
  <2>1. Background' = IF Background = "grace" /\ ~inFlight THEN "none" ELSE Background
    BY <1>1, <1>3 DEF Background
  <2> QED
    BY <1>3, <2>1 DEF Seen!Wake, Seen!TurnStarts
<1> QED
  BY <1>2, <1>3

\* A step that leaves the background work alone and may end the turn.
LEMMA EndsOrStays ==
    ASSUME TurnInv, UNCHANGED <<running, session, pendingPrompts, taskVars>>,
           inFlight' \in BOOLEAN, inFlight' => inFlight
    PROVE  [Seen!End]_(Seen!vars)
<1>1. inFlight \in BOOLEAN
  BY DEF TurnInv, TypeOK
<1> QED
  BY <1>1, BackgroundKept DEF Seen!End, Seen!vars

\* Every step of the connection is one a supervisor may count on, or none to it.
LEMMA StepsKeepContract ==
    ASSUME TurnInv, SessionFirst, [Next]_vars
    PROVE  [Seen!Next]_(Seen!vars)
<1> DEFINE Same == UNCHANGED <<running, session, pendingPrompts, inFlight, taskVars>>
<1>0. ASSUME Same PROVE UNCHANGED Seen!vars
  BY <1>0, BackgroundKept DEF Seen!vars
<1>1. ASSUME NEW p \in Prompts, QueuePrompt(p) PROVE Seen!Next
  <2>1. Background' = Background
    BY <1>1, BackgroundKept DEF QueuePrompt
  <2> QED
    BY <1>1, <2>1 DEF QueuePrompt, turnVars, Seen!Next, Seen!Deliver
<1>2. ASSUME NEW p \in Prompts, SendPrompt(p) \/ SendPromptToDead(p) PROVE Seen!Next
  BY <1>2, SendsDeliver DEF Seen!Next
<1>3. CASE SessionReady
  <2>1. ~inFlight /\ liveTasks = {} /\ ~bgTimer
    BY <1>3 DEF SessionReady, SessionFirst
  <2>2. /\ running /\ ~session /\ session' = TRUE /\ running' = running
        /\ pendingPrompts' = {} /\ liveTasks' = liveTasks
    BY <1>3 DEF SessionReady
  <2>3. inFlight' = (pendingPrompts # {}) /\ ~bgTimer'
    <3>1. CASE pendingPrompts = {}
      BY <1>3, <2>1, <3>1 DEF SessionReady, turnVars, TurnInv, TypeOK
    <3>2. CASE pendingPrompts # {}
      <4>1. openPrompts = 0
        BY <2>1 DEF TurnInv, TurnShape, TypeOK
      <4> QED
        BY <1>3, <2>1, <3>2, <4>1 DEF SessionReady, notePromptOpened
    <3> QED
      BY <3>1, <3>2
  <2>4. Background' = Background
    BY <2>1, <2>2, <2>3 DEF Background
  <2> QED
    BY <2>2, <2>3, <2>4 DEF Seen!Next, Seen!Ready
<1>4. ASSUME NEW p \in Prompts, Answered(p) \/ Busy(p) PROVE UNCHANGED Seen!vars
  BY <1>0, <1>4 DEF Answered, Busy, BusyIgnored, BusyGiveUp, BusyRetryLater, turnVars
<1>5. CASE CancelPrompt \/ RetryTimeout
           \/ \E q \in Permissions : AnswerPermission(q) \/ AskPermission(q)
  BY <1>0, <1>5 DEF CancelPrompt, RetryTimeout, AnswerPermission, AskPermission, hostVars, turnVars
<1>6. ASSUME \/ StreamChunk \/ PromptStartUpdate
             \/ \E c \in Calls : ToolOpen(c) \/ ToolClose(c)
      PROVE  [Seen!Next]_(Seen!vars)
  <2>1. /\ running /\ session /\ inFlight' = TRUE /\ bgTimer' = (bgTimer /\ inFlight)
        /\ UNCHANGED <<running, session, pendingPrompts, liveTasks>>
    BY <1>6 DEF StreamChunk, PromptStartUpdate, ToolOpen, ToolClose, noteStreamingActivity, hostVars
  <2> QED
    BY <2>1, ActivityWakes DEF Seen!Next
<1>7. ASSUME CycleResult \/ PromptEndUpdate \/ IdleTimeout PROVE [Seen!Next]_(Seen!vars)
  <2>1. UNCHANGED <<running, session, pendingPrompts, taskVars>>
    BY <1>7 DEF CycleResult, PromptEndUpdate, IdleTimeout, hostVars
  <2>2. inFlight' \in BOOLEAN /\ (inFlight' => inFlight)
    BY <1>7, Zenon DEF CycleResult, PromptEndUpdate, IdleTimeout, endPrompt, TurnInv, TypeOK
  <2> QED
    BY <2>1, <2>2, EndsOrStays DEF Seen!Next
<1>8. ASSUME NEW t \in Tasks, TaskSpawned(t) PROVE Seen!Next
  <2>1. Background' = "tasks"
    BY <1>8 DEF TaskSpawned, Background
  <2> QED
    BY <1>8, <2>1 DEF TaskSpawned, hostVars, turnVars, Seen!Next, Seen!TasksStart
<1>9. ASSUME NEW t \in Tasks, TaskFinished(t) PROVE [Seen!Next]_(Seen!vars)
  <2>1. /\ running /\ Background = "tasks" /\ Background' \in {"tasks", "grace"}
        /\ UNCHANGED <<running, session, pendingPrompts, inFlight>>
    BY <1>9 DEF TaskFinished, Background, hostVars, turnVars
  <2> QED
    BY <2>1 DEF Seen!Next, Seen!TasksFinish, Seen!vars
<1>10. CASE BackgroundTimeout
  <2>1. Background = "grace" /\ Background' = "none"
    BY <1>10 DEF BackgroundTimeout, Background, TurnInv, TurnShape
  <2> QED
    BY <1>10, <2>1 DEF BackgroundTimeout, hostVars, turnVars, Seen!Next, Seen!GraceOver
<1>11. CASE ProcessFinished
  <2>1. /\ running /\ running' = FALSE /\ Background' = "none"
        /\ UNCHANGED <<session, pendingPrompts>>
    BY <1>11 DEF ProcessFinished, Background, hostVars
  <2>2. inFlight' = (inFlight /\ 0 > 0)
    BY <1>11, Zenon DEF ProcessFinished, endPrompt
  <2>3. inFlight' = FALSE
    <3>1. ~(0 > 0)
      OBVIOUS
    <3> QED
      BY <2>2, <3>1, Zenon
  <2> QED
    BY <2>1, <2>3 DEF Seen!Next, Seen!Exit
<1>12. CASE UNCHANGED vars
  BY <1>0, <1>12 DEF vars, hostVars, turnVars
<1> QED
  BY <1>1, <1>2, <1>3, <1>4, <1>5, <1>6, <1>7, <1>8, <1>9, <1>10, <1>11, <1>12
     DEF Next, HostStep, AgentStep, TimerStep

\* A connection keeps to what supervisors are built on, for any agent and any
\* callers.
THEOREM ContractKept == Spec => KeepsTargetContract
<1>1. Init => TurnInv /\ SessionFirst /\ Seen!Init
  <2>1. Init => SessionFirst
    BY DEF Init, SessionFirst
  <2>2. Init => Seen!Init
    BY DEF Init, Background, Seen!Init
  <2> QED
    BY <2>1, <2>2, InitTurnInv
<1>2. TurnInv /\ SessionFirst /\ [Next]_vars => TurnInv' /\ SessionFirst'
  BY NextTurnInv, NextSessionFirst
<1>3. TurnInv /\ SessionFirst /\ [Next]_vars => [Seen!Next]_(Seen!vars)
  BY StepsKeepContract
<1> QED
  BY <1>1, <1>2, <1>3, PTL DEF Spec, KeepsTargetContract, Seen!Spec
=============================================================================
