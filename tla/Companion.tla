------------------------------- MODULE Companion -------------------------------
(***************************************************************************)
(* The main process of the Windows companion (electron/main.cjs): it       *)
(* supervises the typing service, LekhPipeBroker.exe, and writes native    *)
(* preferences through a bounded serial queue                              *)
(* (electron/preference-write-queue.cjs) that it drains before it quits.   *)
(*                                                                         *)
(* One event loop runs the handlers, each an action.  The environment are  *)
(* the broker processes, which crash at any time and take their time to    *)
(* die when killed; the user, who restarts the service, starts a second    *)
(* instance, changes preferences and quits; and the preference writes,     *)
(* which take any time or never end.  The broker is installed: the start   *)
(* that finds no executable is not modelled.                               *)
(***************************************************************************)
EXTENDS Naturals, FiniteSets

CONSTANTS
    Broker,            \* names of broker processes, used again after their exit
    None,
    RetryDelays,       \* Len of retryDelays
    MaxPendingWrites,  \* maximumPendingPreferenceWrites
    MaxGeneration,     \* bound on restarts and quits
    MaxRestarts        \* bound on restarts that wait at the same time

ASSUME CompanionAssumption ==
    /\ None \notin Broker
    /\ RetryDelays \in Nat \ {0}
    /\ MaxPendingWrites \in Nat \ {0}
    /\ MaxGeneration \in Nat
    /\ MaxRestarts \in Nat

VARIABLES
    process,           \* pipeBrokerProcess
    generation,        \* pipeBrokerGeneration
    attempts,          \* pipeBrokerRestartAttempts
    stableTimer,       \* pipeBrokerStableTimer: the broker it was set for
    restartTimer,      \* pipeBrokerRestartTimer: the broker whose stop set it
    restartTimers,     \* the restart timers that will fire, known or not
    restarts,          \* calls of restartWindowsPipeBroker in their 250 ms
    broker,            \* broker[b]: what has happened to the process
    born,              \* born[b]: the generation its stop handler captured
    quitting,          \* applicationIsQuitting
    pendingWrites,     \* pendingCount of preferenceWriteQueue
    accepting,         \* accepting of preferenceWriteQueue
    drain,             \* preferenceQuitDrainStarted, and the result of drain()
    drainComplete,     \* preferenceQuitDrainComplete
    exited             \* the process has left its event loop

supervision == <<process, generation, attempts, stableTimer, restartTimer, restartTimers,
                 restarts, broker, born>>
preferences == <<pendingWrites, accepting, drain, drainComplete>>
vars == <<supervision, preferences, quitting, exited>>

\* A name is free once its process has exited and its timer has fired or been
\* cleared; every action that launches waits for a free name.
Free == {b \in Broker : broker[b] = "gone" /\ b \notin restartTimers'}

\* The companion is ready and has started its first broker.
Init ==
    /\ \E b \in Broker :
           /\ process = b
           /\ stableTimer = b
           /\ broker = [a \in Broker |-> IF a = b THEN "running" ELSE "gone"]
    /\ generation = 0
    /\ attempts = 0
    /\ restartTimer = None
    /\ restartTimers = {}
    /\ restarts = 0
    /\ born = [b \in Broker |-> 0]
    /\ quitting = FALSE
    /\ pendingWrites = 0
    /\ accepting = TRUE
    /\ drain = "none"
    /\ drainComplete = FALSE
    /\ exited = FALSE

MayStart == ~quitting /\ process = None

\* spawn, with the stable timer and the generation the stop handler captures.
Launch(b) ==
    /\ process' = b
    /\ broker' = [broker EXCEPT ![b] = "running"]
    /\ born' = [born EXCEPT ![b] = generation]
    /\ stableTimer' = b

\* startWindowsPipeBrokerIfAvailable
StartBroker ==
    \/ MayStart /\ \E b \in Free : Launch(b)
    \/ ~MayStart /\ UNCHANGED <<process, broker, born, stableTimer>>

\* min(index + 1, length - 1), the index cut to the last delay.
NextAttempt ==
    LET last == RetryDelays - 1
        index == IF attempts < last THEN attempts ELSE last
    IN  IF index + 1 < last THEN index + 1 ELSE last

\* The "exit" or "error" event of a broker: crashed, failed to start, or killed.
BrokerStops(b) ==
    /\ ~exited
    /\ broker[b] # "gone"
    /\ broker' = [broker EXCEPT ![b] = "gone"]
    /\ born' = [born EXCEPT ![b] = 0]
    /\ stableTimer' = None
    /\ process' = IF process = b THEN None ELSE process
    /\ IF quitting \/ born[b] # generation
       THEN UNCHANGED <<attempts, restartTimer, restartTimers>>
       ELSE /\ attempts' = NextAttempt
            /\ restartTimer' = b
            /\ restartTimers' = restartTimers \union {b}
    /\ UNCHANGED <<generation, restarts, preferences, quitting, exited>>

StableTimerFires ==
    /\ ~exited
    /\ stableTimer # None
    /\ attempts' = 0
    /\ stableTimer' = None
    /\ UNCHANGED <<process, generation, restartTimer, restartTimers, restarts, broker, born,
                   preferences, quitting, exited>>

\* A retry is due.  It forgets whatever timer the variable holds, its own or not.
RestartTimerFires(t) ==
    /\ ~exited
    /\ t \in restartTimers
    /\ restartTimers' = restartTimers \ {t}
    /\ restartTimer' = None
    /\ StartBroker
    /\ UNCHANGED <<generation, attempts, restarts, preferences, quitting, exited>>

\* "second-instance" with --background, the shortcut of the installed service.
SecondInstance ==
    /\ ~exited
    /\ restartTimers' = restartTimers \ {restartTimer}
    /\ restartTimer' = None
    /\ StartBroker
    /\ UNCHANGED <<generation, attempts, restarts, preferences, quitting, exited>>

\* Mutant: the broker is forgotten, not killed.
KilledNever == broker

Killed == [b \in Broker |-> IF b = process THEN "killed" ELSE broker[b]]

\* restartWindowsPipeBroker, up to its wait.
Restart ==
    /\ ~exited /\ ~quitting
    /\ generation < MaxGeneration /\ restarts < MaxRestarts
    /\ generation' = generation + 1
    /\ restartTimers' = restartTimers \ {restartTimer}
    /\ restartTimer' = None
    /\ stableTimer' = None
    /\ process' = None
    /\ broker' = Killed
    /\ attempts' = 0
    /\ restarts' = restarts + 1
    /\ UNCHANGED <<born, preferences, quitting, exited>>

\* Mutant: the restart leaves the launch to the stop handler of the old broker.
RestartResumesIdle ==
    /\ ~exited
    /\ restarts > 0
    /\ restarts' = restarts - 1
    /\ UNCHANGED <<process, generation, attempts, stableTimer, restartTimer, restartTimers,
                   broker, born, preferences, quitting, exited>>

\* The wait of 250 ms is over, whether the old broker has exited or not.
RestartResumes ==
    /\ ~exited
    /\ restarts > 0
    /\ restarts' = restarts - 1
    /\ UNCHANGED <<generation, attempts, restartTimer, restartTimers, preferences, quitting,
                   exited>>
    /\ StartBroker

-----------------------------------------------------------------------------

\* "lekh:preferences:update"; a full or closed queue throws and changes nothing.
UpdatePreferences ==
    /\ ~exited
    /\ accepting
    /\ pendingWrites < MaxPendingWrites
    /\ pendingWrites' = pendingWrites + 1
    /\ UNCHANGED <<supervision, accepting, drain, drainComplete, quitting, exited>>

\* The write at the head of the queue settles; the last one resolves drain().
WriteSettles ==
    /\ ~exited
    /\ pendingWrites > 0
    /\ pendingWrites' = pendingWrites - 1
    /\ drain' = IF pendingWrites' = 0 /\ drain = "waiting" THEN "drained" ELSE drain
    /\ UNCHANGED <<supervision, accepting, drainComplete, quitting, exited>>

\* Mutant: drain() waits without a timeout.
DrainTimesOutNever == FALSE /\ UNCHANGED vars

DrainTimesOut ==
    /\ ~exited
    /\ drain = "waiting"
    /\ drain' = "timedOut"
    /\ UNCHANGED <<supervision, pendingWrites, accepting, drainComplete, quitting, exited>>

\* Mutant: the second quit of an impatient user is not put off.
BeforeQuitOnce ==
    /\ ~exited
    /\ quitting' = TRUE
    /\ generation' = generation + 1
    /\ generation <= MaxGeneration \/ drainComplete
    /\ restartTimers' = restartTimers \ {restartTimer}
    /\ restartTimer' = None
    /\ stableTimer' = None
    /\ process' = None
    /\ broker' = Killed
    /\ accepting' = FALSE
    /\ IF drainComplete \/ pendingWrites = 0 \/ drain # "none"
       THEN drainComplete' = TRUE /\ exited' = TRUE /\ UNCHANGED drain
       ELSE drain' = "waiting" /\ UNCHANGED <<drainComplete, exited>>
    /\ UNCHANGED <<attempts, restarts, born, pendingWrites>>

\* "before-quit", the whole handler: the broker is killed and its timers cleared,
\* the queue closed, and the quit put off until the queue has drained.
BeforeQuit ==
    /\ ~exited
    /\ quitting' = TRUE
    /\ generation' = generation + 1
    /\ generation <= MaxGeneration \/ drainComplete
    /\ restartTimers' = restartTimers \ {restartTimer}
    /\ restartTimer' = None
    /\ stableTimer' = None
    /\ process' = None
    /\ broker' = Killed
    /\ accepting' = FALSE
    /\ IF drainComplete \/ pendingWrites = 0
       THEN drainComplete' = TRUE /\ exited' = TRUE /\ UNCHANGED drain
       ELSE /\ drain' = IF drain = "none" THEN "waiting" ELSE drain
            /\ UNCHANGED <<drainComplete, exited>>
    /\ UNCHANGED <<attempts, restarts, born, pendingWrites>>

\* drain() has resolved: the finally clause calls app.quit().
DrainSettles ==
    /\ ~exited
    /\ drain \in {"drained", "timedOut"}
    /\ drainComplete' = TRUE
    /\ UNCHANGED <<supervision, pendingWrites, accepting, drain, quitting, exited>>

QuitAgain == drainComplete /\ BeforeQuit

Timers ==
    \/ StableTimerFires
    \/ DrainTimesOut
    \/ \E t \in Broker : RestartTimerFires(t)

Next ==
    \/ \E b \in Broker : BrokerStops(b)
    \/ Timers
    \/ SecondInstance \/ Restart \/ RestartResumes
    \/ UpdatePreferences \/ WriteSettles
    \/ BeforeQuit \/ DrainSettles

Spec == Init /\ [][Next]_vars

\* Timers fire and promise continuations run; a killed process dies.  Nothing is
\* promised of a running broker, of a preference write or of the user.
Fairness ==
    /\ \A b \in Broker : WF_vars(BrokerStops(b) /\ broker[b] = "killed")
    /\ \A t \in Broker : WF_vars(RestartTimerFires(t))
    /\ WF_vars(RestartResumes)
    /\ WF_vars(DrainTimesOut)
    /\ WF_vars(DrainSettles)
    /\ WF_vars(QuitAgain)

LiveSpec == Spec /\ Fairness

-----------------------------------------------------------------------------
TypeOK ==
    /\ process \in Broker \union {None}
    /\ generation \in 0..(MaxGeneration + 2)
    /\ attempts \in 0..(RetryDelays - 1)
    /\ stableTimer \in Broker \union {None}
    /\ restartTimer \in Broker \union {None}
    /\ restartTimers \subseteq Broker
    /\ restarts \in 0..MaxRestarts
    /\ broker \in [Broker -> {"gone", "running", "killed"}]
    /\ born \in [Broker -> 0..(MaxGeneration + 1)]
    /\ pendingWrites \in 0..MaxPendingWrites
    /\ accepting \in BOOLEAN /\ drainComplete \in BOOLEAN
    /\ quitting \in BOOLEAN /\ exited \in BOOLEAN
    /\ drain \in {"none", "waiting", "drained", "timedOut"}

\* A broker runs without having been told to stop only if the companion holds it:
\* crashes, retries, restarts and a second instance never leave one behind that
\* nobody supervises, nor two that serve at once.
NoUnsupervisedBroker == \A b \in Broker : broker[b] = "running" <=> process = b

\* As long as the companion does not quit, the typing service is never given up:
\* with no broker there is a retry that will fire or a restart about to launch one,
\* although timers are overwritten, forgotten and cleared by other handlers.
SuccessorScheduled ==
    ~quitting /\ process = None => restartTimers # {} \/ restarts > 0

\* Once the companion quits no broker is launched any more, whatever timers, waits
\* of a restart and second instances are still to come.
QuietAfterQuit ==
    [][quitting => \A b \in Broker : broker'[b] = "running" => broker[b] = "running"]_vars

\* The companion leaves with a preference unwritten only after the drain timed
\* out: not because the user quits twice, nor because one is saved during the quit.
WritesDrainedBeforeExit == exited => pendingWrites = 0 \/ drain = "timedOut"

\* A service that is down comes back, unless the companion quits.
ServiceComesBack == process = None ~> process # None \/ quitting

\* A quit completes although a preference write may never settle.
QuitCompletes == quitting ~> exited
=============================================================================
