---------------------------- MODULE CompanionProofs ----------------------------
(***************************************************************************)
(* Proofs about Companion, for any number of processes, delays, pending    *)
(* writes and restarts.                                                    *)
(***************************************************************************)
EXTENDS Companion, TLAPS

\* Quitting is the last thing that raises the generation, so the bound in the
\* guards bounds the variable.
GenerationBounded ==
    /\ ~quitting => generation <= MaxGeneration
    /\ ~exited => generation <= MaxGeneration + 1
    /\ drainComplete \/ exited => quitting

\* The held broker captured the generation that is still current: its stop will be
\* seen as a crash, and that of every broker killed by a restart will not.
HeldBrokerCurrent == process # None => born[process] = generation

\* What the drain has found out stays true: nothing is accepted once it has begun.
DrainOK ==
    /\ accepting => drain = "none" /\ ~drainComplete /\ ~exited
    /\ drain = "drained" => pendingWrites = 0
    /\ drainComplete => pendingWrites = 0 \/ drain = "timedOut"
    /\ drain # "none" => quitting
    /\ exited => drainComplete

IInv ==
    /\ TypeOK
    /\ GenerationBounded
    /\ NoUnsupervisedBroker
    /\ HeldBrokerCurrent
    /\ SuccessorScheduled
    /\ DrainOK

LEMMA InitIInv == Init => IInv
  <1> SUFFICES ASSUME Init PROVE IInv
    OBVIOUS
  <1> USE CompanionAssumption
  <1>1. TypeOK
    <2> PICK b \in Broker :
          /\ process = b
          /\ stableTimer = b
          /\ broker = [a \in Broker |-> IF a = b THEN "running" ELSE "gone"]
      BY DEF Init
    <2>1. broker \in [Broker -> {"gone", "running", "killed"}]
      OBVIOUS
    <2>2. born \in [Broker -> 0..(MaxGeneration + 1)]
      BY DEF Init
    <2>3. /\ generation \in 0..(MaxGeneration + 2) /\ attempts \in 0..(RetryDelays - 1)
          /\ restarts \in 0..MaxRestarts /\ pendingWrites \in 0..MaxPendingWrites
      BY DEF Init
    <2>4. accepting \in BOOLEAN /\ drainComplete \in BOOLEAN
          /\ quitting \in BOOLEAN /\ exited \in BOOLEAN
      BY Zenon DEF Init
    <2> QED
      BY <2>1, <2>2, <2>3, <2>4 DEF Init, TypeOK
  <1>2. GenerationBounded /\ HeldBrokerCurrent /\ SuccessorScheduled /\ DrainOK
    BY DEF Init, GenerationBounded, HeldBrokerCurrent, SuccessorScheduled, DrainOK
  <1>3. NoUnsupervisedBroker
    BY DEF Init, NoUnsupervisedBroker
  <1> QED
    BY <1>1, <1>2, <1>3 DEF IInv

\* A start launches a broker when there is none and the companion stays, and
\* changes nothing otherwise.
LEMMA StartStep ==
  ASSUME IInv, StartBroker, generation' = generation, quitting' = quitting
  PROVE  /\ process' \in Broker \union {None}
         /\ stableTimer' \in Broker \union {None}
         /\ broker' \in [Broker -> {"gone", "running", "killed"}]
         /\ born' \in [Broker -> 0..(MaxGeneration + 1)]
         /\ NoUnsupervisedBroker'
         /\ HeldBrokerCurrent'
         /\ quitting \/ process' # None
  <1> USE CompanionAssumption
  <1>1. CASE MayStart /\ \E b \in Free : Launch(b)
    <2> PICK b \in Free : Launch(b)
      BY <1>1
    <2>1. b \in Broker /\ b # None /\ ~quitting /\ process = None
      BY <1>1 DEF Free, MayStart
    <2>2. generation \in 0..(MaxGeneration + 1)
      BY <2>1 DEF IInv, TypeOK, GenerationBounded
    <2>3. broker' \in [Broker -> {"gone", "running", "killed"}]
          /\ born' \in [Broker -> 0..(MaxGeneration + 1)]
      BY <2>1, <2>2 DEF Launch, IInv, TypeOK
    <2>4. NoUnsupervisedBroker'
      BY <2>1 DEF Launch, IInv, TypeOK, NoUnsupervisedBroker
    <2>5. HeldBrokerCurrent'
      BY <2>1 DEF Launch, IInv, TypeOK, HeldBrokerCurrent
    <2> QED
      BY <2>1, <2>3, <2>4, <2>5 DEF Launch
  <1>2. CASE ~MayStart /\ UNCHANGED <<process, broker, born, stableTimer>>
    BY <1>2 DEF MayStart, IInv, TypeOK, NoUnsupervisedBroker, HeldBrokerCurrent
  <1> QED
    BY <1>1, <1>2 DEF StartBroker

\* A restart and a quit kill the broker that is held, and hold none.
LEMMA KillStep ==
  ASSUME IInv, broker' = Killed, process' = None
  PROVE  /\ broker' \in [Broker -> {"gone", "running", "killed"}]
         /\ NoUnsupervisedBroker'
         /\ HeldBrokerCurrent'
  BY CompanionAssumption
  DEF IInv, TypeOK, NoUnsupervisedBroker, HeldBrokerCurrent, Killed

LEMMA BrokerStopsStep ==
  ASSUME IInv, NEW b \in Broker, BrokerStops(b)
  PROVE  IInv'
  <1> USE CompanionAssumption
  <1>1. NextAttempt \in 0..(RetryDelays - 1)
    BY DEF NextAttempt, IInv, TypeOK
  <1>2. TypeOK'
    BY <1>1 DEF BrokerStops, IInv, TypeOK, preferences
  <1>3. NoUnsupervisedBroker'
    BY DEF BrokerStops, IInv, TypeOK, NoUnsupervisedBroker
  <1>4. HeldBrokerCurrent'
    BY DEF BrokerStops, IInv, TypeOK, HeldBrokerCurrent
  <1>5. SuccessorScheduled'
    BY DEF BrokerStops, IInv, TypeOK, HeldBrokerCurrent, SuccessorScheduled
  <1>6. GenerationBounded' /\ DrainOK'
    BY DEF BrokerStops, IInv, GenerationBounded, DrainOK, preferences
  <1> QED
    BY <1>2, <1>3, <1>4, <1>5, <1>6 DEF IInv

\* The three handlers that start a broker: a retry, a second instance, the end of
\* a restart.
LEMMA StartersStep ==
  ASSUME IInv,
         \/ \E t \in Broker : RestartTimerFires(t)
         \/ SecondInstance
         \/ RestartResumes
  PROVE  IInv'
  <1> USE CompanionAssumption
  <1>1. /\ StartBroker
        /\ UNCHANGED <<generation, attempts, preferences, quitting, exited>>
        /\ restartTimers' \subseteq restartTimers
        /\ restartTimer' \in {restartTimer, None}
        /\ restarts' \in 0..MaxRestarts
    BY DEF RestartTimerFires, SecondInstance, RestartResumes, IInv, TypeOK
  <1>2. /\ process' \in Broker \union {None}
        /\ stableTimer' \in Broker \union {None}
        /\ broker' \in [Broker -> {"gone", "running", "killed"}]
        /\ born' \in [Broker -> 0..(MaxGeneration + 1)]
        /\ NoUnsupervisedBroker'
        /\ HeldBrokerCurrent'
        /\ quitting \/ process' # None
    BY <1>1, StartStep
  <1>3. TypeOK'
    BY <1>1, <1>2 DEF IInv, TypeOK, preferences
  <1>4. SuccessorScheduled'
    BY <1>1, <1>2 DEF SuccessorScheduled
  <1>5. GenerationBounded' /\ DrainOK'
    BY <1>1 DEF IInv, GenerationBounded, DrainOK, preferences
  <1> QED
    BY <1>2, <1>3, <1>4, <1>5 DEF IInv

LEMMA RestartStep ==
  ASSUME IInv, Restart
  PROVE  IInv'
  <1> USE CompanionAssumption
  <1>1. /\ broker' \in [Broker -> {"gone", "running", "killed"}]
        /\ NoUnsupervisedBroker'
        /\ HeldBrokerCurrent'
    BY KillStep DEF Restart
  <1>2. TypeOK'
    BY <1>1 DEF Restart, IInv, TypeOK, preferences
  <1>3. SuccessorScheduled'
    BY DEF Restart, IInv, TypeOK, SuccessorScheduled
  <1>4. GenerationBounded' /\ DrainOK'
    BY DEF Restart, IInv, TypeOK, GenerationBounded, DrainOK, preferences
  <1> QED
    BY <1>1, <1>2, <1>3, <1>4 DEF IInv

LEMMA BeforeQuitStep ==
  ASSUME IInv, BeforeQuit
  PROVE  IInv'
  <1> USE CompanionAssumption
  <1>1. /\ broker' \in [Broker -> {"gone", "running", "killed"}]
        /\ NoUnsupervisedBroker'
        /\ HeldBrokerCurrent'
    BY KillStep DEF BeforeQuit
  <1>2. GenerationBounded'
    BY DEF BeforeQuit, IInv, TypeOK, GenerationBounded
  <1>3. TypeOK'
    <2>1. generation' \in 0..(MaxGeneration + 2)
      BY DEF BeforeQuit, IInv, TypeOK, GenerationBounded
    <2>2. drain' \in {"none", "waiting", "drained", "timedOut"}
      BY DEF BeforeQuit, IInv, TypeOK
    <2>3. /\ drainComplete' \in BOOLEAN /\ exited' \in BOOLEAN
          /\ accepting' \in BOOLEAN /\ quitting' \in BOOLEAN
      BY Zenon DEF BeforeQuit, IInv, TypeOK
    <2>4. /\ restartTimers' \subseteq Broker
          /\ restartTimer' = None /\ stableTimer' = None /\ process' = None
          /\ UNCHANGED <<attempts, restarts, born, pendingWrites>>
      BY DEF BeforeQuit, IInv, TypeOK
    <2> QED
      BY <1>1, <2>1, <2>2, <2>3, <2>4 DEF IInv, TypeOK
  <1>4. SuccessorScheduled' /\ DrainOK'
    BY DEF BeforeQuit, IInv, TypeOK, SuccessorScheduled, DrainOK
  <1> QED
    BY <1>1, <1>2, <1>3, <1>4 DEF IInv

\* The handlers that touch only the preferences, and the stable timer.
LEMMA OthersStep ==
  ASSUME IInv,
         \/ StableTimerFires \/ UpdatePreferences \/ WriteSettles
         \/ DrainTimesOut \/ DrainSettles
  PROVE  IInv'
  <1> USE CompanionAssumption
  <1>1. TypeOK'
    <2>1. CASE StableTimerFires
      BY <2>1 DEF StableTimerFires, IInv, TypeOK, preferences
    <2>2. CASE UpdatePreferences
      BY <2>2 DEF UpdatePreferences, IInv, TypeOK, supervision
    <2>3. CASE WriteSettles
      BY <2>3 DEF WriteSettles, IInv, TypeOK, supervision
    <2>4. CASE DrainTimesOut \/ DrainSettles
      BY <2>4 DEF DrainTimesOut, DrainSettles, IInv, TypeOK, supervision
    <2> QED
      BY <2>1, <2>2, <2>3, <2>4
  <1>2. NoUnsupervisedBroker' /\ HeldBrokerCurrent' /\ SuccessorScheduled'
    BY DEF StableTimerFires, UpdatePreferences, WriteSettles, DrainTimesOut, DrainSettles,
           IInv, NoUnsupervisedBroker, HeldBrokerCurrent, SuccessorScheduled, supervision
  <1>3. GenerationBounded' /\ DrainOK'
    BY DEF StableTimerFires, UpdatePreferences, WriteSettles, DrainTimesOut, DrainSettles,
           IInv, TypeOK, GenerationBounded, DrainOK, preferences, supervision
  <1> QED
    BY <1>1, <1>2, <1>3 DEF IInv

LEMMA StepIInv == IInv /\ [Next]_vars => IInv'
  <1> SUFFICES ASSUME IInv, [Next]_vars PROVE IInv'
    OBVIOUS
  <1>1. CASE \E b \in Broker : BrokerStops(b)
    BY <1>1, BrokerStopsStep
  <1>2. CASE Timers
    BY <1>2, StartersStep, OthersStep DEF Timers
  <1>3. CASE SecondInstance \/ RestartResumes
    BY <1>3, StartersStep
  <1>4. CASE Restart
    BY <1>4, RestartStep
  <1>5. CASE UpdatePreferences \/ WriteSettles \/ DrainSettles
    BY <1>5, OthersStep
  <1>6. CASE BeforeQuit
    BY <1>6, BeforeQuitStep
  <1>7. CASE UNCHANGED vars
    BY <1>7 DEF vars, supervision, preferences, IInv, TypeOK, GenerationBounded,
                NoUnsupervisedBroker, HeldBrokerCurrent, SuccessorScheduled, DrainOK
  <1> QED
    BY <1>1, <1>2, <1>3, <1>4, <1>5, <1>6, <1>7 DEF Next

\* The invariant the theorems below follow from.
THEOREM CompanionInvariant == Spec => []IInv
  BY InitIInv, StepIInv, PTL DEF Spec

\* The variables keep their types; in particular the retry index never leaves the
\* table of delays.
THEOREM CompanionTypeCorrect == Spec => []TypeOK
  <1>1. IInv => TypeOK
    BY DEF IInv
  <1> QED
    BY <1>1, CompanionInvariant, PTL

\* Every broker that runs and was not told to stop is the one the companion holds
\* (pipeBrokerProcess), whatever crashed, was restarted or retried in between.
THEOREM BrokerSupervised == Spec => []NoUnsupervisedBroker
  <1>1. IInv => NoUnsupervisedBroker
    BY DEF IInv
  <1> QED
    BY <1>1, CompanionInvariant, PTL

\* Without a broker, and while the companion does not quit, a retry or a restart is
\* always on its way.
THEOREM ServiceNeverGivenUp == Spec => []SuccessorScheduled
  <1>1. IInv => SuccessorScheduled
    BY DEF IInv
  <1> QED
    BY <1>1, CompanionInvariant, PTL

\* The companion leaves with a write pending only when the drain has timed out.
THEOREM PreferencesDrained == Spec => []WritesDrainedBeforeExit
  <1>1. IInv => WritesDrainedBeforeExit
    BY DEF IInv, DrainOK, WritesDrainedBeforeExit
  <1> QED
    BY <1>1, CompanionInvariant, PTL

\* After a quit has begun no broker is launched.
THEOREM NothingLaunchedAfterQuit == Spec => QuietAfterQuit
  <1> DEFINE Quiet == quitting => \A b \in Broker : broker'[b] = "running" => broker[b] = "running"
  <1>1. IInv /\ [Next]_vars => Quiet
    <2> SUFFICES ASSUME IInv, [Next]_vars, quitting,
                        NEW b \in Broker, broker'[b] = "running"
                 PROVE  broker[b] = "running"
      OBVIOUS
    <2>1. CASE \E a \in Broker : BrokerStops(a)
      BY <2>1 DEF BrokerStops, IInv, TypeOK
    <2>2. CASE (\E t \in Broker : RestartTimerFires(t)) \/ SecondInstance \/ RestartResumes
      BY <2>2 DEF RestartTimerFires, SecondInstance, RestartResumes, StartBroker, MayStart
    <2>3. CASE Restart \/ BeforeQuit
      BY <2>3 DEF Restart, BeforeQuit, Killed, IInv, TypeOK
    <2>4. CASE \/ StableTimerFires \/ UpdatePreferences \/ WriteSettles
               \/ DrainTimesOut \/ DrainSettles \/ UNCHANGED vars
      BY <2>4 DEF StableTimerFires, UpdatePreferences, WriteSettles, DrainTimesOut, DrainSettles,
                  supervision, vars
    <2> QED
      BY <2>1, <2>2, <2>3, <2>4 DEF Next, Timers
  <1>2. [][Quiet]_vars <=> QuietAfterQuit
    BY PTL DEF QuietAfterQuit
  <1> QED
    BY <1>1, <1>2, CompanionInvariant, PTL DEF Spec
=============================================================================
