----------------------------- MODULE PipeBroker -----------------------------
(* The Windows pipe broker: LekhPipeBroker.cpp (the public pipe, the queue   *)
(* of accepted clients, the workers) over LekhDaemonBackend.cpp (the Node    *)
(* daemon behind two private pipes, one exchange at a time), with the loop   *)
(* of daemonCli.ts that answers each line.  A client is one connection of    *)
(* IpcClient.cpp: it connects, writes one frame, reads one answer, and       *)
(* closes its end when its own deadline passes.                              *)
(*                                                                           *)
(* Every deadline of the code may pass at any moment here: a wait is a pair  *)
(* of actions, the one where what is awaited comes and the one where it      *)
(* does not come in time.                                                    *)
EXTENDS Integers, FiniteSets, SequencesExt

CONSTANTS
    Clients,            \* the connections
    Negotiate, Warm,    \* the broker's own two requests at startup
    Workers,            \* kWorkerCount
    MaxConnections,     \* kMaximumConnections, the instances of the pipe
    Split,              \* the clients whose frame readline takes for two lines
    None

ASSUME BrokerConstants ==
    /\ Workers \in Nat \ {0}
    /\ MaxConnections \in Nat
    /\ MaxConnections > Workers + 1
    /\ IsFiniteSet(Clients)
    /\ Split \subseteq Clients
    /\ Negotiate # Warm
    /\ {Negotiate, Warm, None, "ready"} \cap Clients = {}
    /\ None \notin {Negotiate, Warm, "ready"}
    /\ "ready" \notin {Negotiate, Warm}

VARIABLES
    main,       \* runBroker: "starting" | "looping" | "listening" | "joining" | "exited"
    listener,   \* the client connected to the listening instance, or None
    queue,      \* ClientQueue.clients_
    stopping,   \* ClientQueue.stopping_
    phase,      \* where each connection, and each startup request, stands
    open,       \* the clients that still hold their end of the pipe
    sent,       \* the clients whose frame is complete in the pipe
    written,    \* the clients whose answer the broker wrote to the pipe
    reply,      \* the line serveClient got from the backend
    answer,     \* the line the client read
    holder,     \* who holds DaemonBackend.requestMutex_, or None
    poisoned,   \* DaemonBackend.poisoned_
    daemon,     \* the Node process: "booting" | "up" | "dead"
    stdin,      \* lines on their way to the daemon
    stdout      \* lines on their way back, outputBuffer_ included

mainVars == <<main, listener, queue, stopping>>
pipeVars == <<open, sent, written, answer>>
backendVars == <<holder, poisoned, daemon, stdin, stdout>>
vars == <<mainVars, phase, pipeVars, reply, backendVars>>

Startup == {Negotiate, Warm}
Requesters == Clients \union Startup

(* The phases of serveClient, and those in which a requester is in           *)
(* DaemonBackend::request.                                                   *)
Serving == {"reading", "locking", "writing", "awaiting", "replying", "flushing"}
Phases == {"none", "listening", "queued", "closed"} \union Serving

QueueCapacity == MaxConnections - Workers - 1

Served == {c \in Clients : phase[c] \in Serving}

(* The instances of the public pipe that exist, the listening one included.  *)
Instances ==
    Cardinality({c \in Clients : phase[c] \in Serving \union {"queued"}})
        + (IF main = "listening" THEN 1 ELSE 0)

TypeOK ==
    /\ main \in {"starting", "looping", "listening", "joining", "exited"}
    /\ listener \in Clients \union {None}
    /\ queue \in Seq(Clients)
    /\ stopping \in BOOLEAN
    /\ phase \in [Requesters -> Phases]
    /\ open \subseteq Clients
    /\ sent \subseteq Clients
    /\ written \subseteq Clients
    /\ reply \in [Clients -> Requesters \union {"ready", None}]
    /\ answer \in [Clients -> Requesters \union {"ready", None}]
    /\ holder \in Requesters \union {None}
    /\ poisoned \in BOOLEAN
    /\ daemon \in {"booting", "up", "dead"}
    /\ stdin \in Seq(Requesters)
    /\ stdout \in Seq(Requesters \union {"ready"})

(* DaemonBackend::start has created the process when the model begins.       *)
Init ==
    /\ main = "starting"
    /\ listener = None
    /\ queue = <<>>
    /\ stopping = FALSE
    /\ phase = [r \in Requesters |-> "none"]
    /\ open = {}
    /\ sent = {}
    /\ written = {}
    /\ reply = [c \in Clients |-> None]
    /\ answer = [c \in Clients |-> None]
    /\ holder = None
    /\ poisoned = FALSE
    /\ daemon = "booting"
    /\ stdin = <<>>
    /\ stdout = <<>>

-----------------------------------------------------------------------------
(* The daemon behind the private pipes.                                      *)

Running == ~poisoned /\ daemon # "dead"

\* Mutant: a failed exchange leaves the daemon as it is.
PoisonNothing == UNCHANGED <<poisoned, daemon, stdin, stdout>>

(* The handles are closed and the process is terminated: what was in the     *)
(* pipes is lost.                                                            *)
Poison ==
    /\ poisoned' = TRUE
    /\ daemon' = "dead"
    /\ stdin' = <<>>
    /\ stdout' = <<>>

LinesOf(r) == IF r \in Split THEN <<r, r>> ELSE <<r>>

(* --broker-ready: imports and storage are done.                             *)
DaemonReady ==
    /\ daemon = "booting"
    /\ daemon' = "up"
    /\ stdout' = Append(stdout, "ready")
    /\ UNCHANGED <<mainVars, phase, pipeVars, reply, holder, poisoned, stdin>>

(* for await (const line of io): one line is answered by one line.           *)
DaemonAnswers ==
    /\ daemon = "up"
    /\ stdin # <<>>
    /\ stdin' = Tail(stdin)
    /\ stdout' = Append(stdout, Head(stdin))
    /\ UNCHANGED <<mainVars, phase, pipeVars, reply, holder, poisoned, daemon>>

(* What the daemon had printed stays readable in the pipe.                   *)
DaemonDies ==
    /\ daemon # "dead"
    /\ daemon' = "dead"
    /\ stdin' = <<>>
    /\ UNCHANGED <<mainVars, phase, pipeVars, reply, holder, poisoned, stdout>>

-----------------------------------------------------------------------------
(* DaemonBackend::request.  A client whose request yields nothing is closed  *)
(* by serveClient; a startup request that yields nothing ends the broker.    *)

GiveUp(r) ==
    /\ phase' = [phase EXCEPT ![r] = "closed"]
    /\ main' = IF r \in Startup THEN "joining" ELSE main
    /\ UNCHANGED <<listener, queue, stopping>>

TryLock(r) ==
    /\ phase[r] = "locking"
    /\ holder = None
    /\ IF Running
       THEN /\ holder' = r
            /\ phase' = [phase EXCEPT ![r] = "writing"]
            /\ UNCHANGED mainVars
       ELSE GiveUp(r) /\ UNCHANGED holder
    /\ UNCHANGED <<pipeVars, reply, poisoned, daemon, stdin, stdout>>

(* try_lock_until: the exchange of another goes on.                          *)
LockTimesOut(r) ==
    /\ phase[r] = "locking"
    /\ holder # None
    /\ GiveUp(r)
    /\ UNCHANGED <<pipeVars, reply, backendVars>>

WriteFrame(r) ==
    /\ phase[r] = "writing"
    /\ daemon # "dead"
    /\ stdin' = stdin \o LinesOf(r)
    /\ phase' = [phase EXCEPT ![r] = "awaiting"]
    /\ UNCHANGED <<mainVars, pipeVars, reply, holder, poisoned, daemon, stdout>>

(* writeAll or readLine fails, for the deadline or a broken pipe.            *)
ExchangeFails(r) ==
    /\ phase[r] \in {"writing", "awaiting"}
    /\ Poison
    /\ holder' = None
    /\ GiveUp(r)
    /\ UNCHANGED <<pipeVars, reply>>

(* readLine takes the first line there is and the lock is released.  A line  *)
(* that was in the pipe before the daemon died is still read.                *)
TakeLine(r) ==
    /\ phase[r] = "awaiting"
    /\ stdout # <<>>
    /\ stdout' = Tail(stdout)
    /\ holder' = None
    /\ UNCHANGED <<poisoned, daemon, stdin>>

ExchangeSucceeds(c) ==
    /\ c \in Clients
    /\ TakeLine(c)
    /\ reply' = [reply EXCEPT ![c] = Head(stdout)]
    /\ phase' = [phase EXCEPT ![c] = "replying"]
    /\ UNCHANGED <<mainVars, pipeVars>>

-----------------------------------------------------------------------------
(* verifyBackendReadiness, before the public pipe exists.                    *)

WaitForReady ==
    /\ main = "starting"
    /\ phase[Negotiate] = "none"
    /\ stdout # <<>>
    /\ stdout' = Tail(stdout)
    /\ phase' = [phase EXCEPT ![Negotiate] = "locking"]
    /\ UNCHANGED <<mainVars, pipeVars, reply, holder, poisoned, daemon, stdin>>

ReadyTimesOut ==
    /\ main = "starting"
    /\ phase[Negotiate] = "none"
    /\ Poison
    /\ main' = "joining"
    /\ UNCHANGED <<listener, queue, stopping, phase, pipeVars, reply, holder>>

(* The parsers refuse an answer that is not the request's own, and an error. *)
StartupAnswered(r) ==
    /\ r \in Startup
    /\ TakeLine(r)
    /\ \/ /\ Head(stdout) = r
          /\ r = Negotiate
          /\ phase' = [phase EXCEPT ![r] = "closed", ![Warm] = "locking"]
          /\ UNCHANGED main
       \/ /\ Head(stdout) = r
          /\ r = Warm
          /\ phase' = [phase EXCEPT ![r] = "closed"]
          /\ main' = "looping"
       \/ /\ phase' = [phase EXCEPT ![r] = "closed"]
          /\ main' = "joining"
    /\ UNCHANGED <<listener, queue, stopping, pipeVars, reply>>

-----------------------------------------------------------------------------
(* The clients, at their own pace.                                           *)

ClientConnects(c) ==
    /\ main = "listening"
    /\ listener = None
    /\ phase[c] = "none"
    /\ listener' = c
    /\ phase' = [phase EXCEPT ![c] = "listening"]
    /\ open' = open \union {c}
    /\ UNCHANGED <<main, queue, stopping, sent, written, answer, reply, backendVars>>

ClientSends(c) ==
    /\ c \in open \ sent
    /\ phase[c] # "closed"
    /\ sent' = sent \union {c}
    /\ UNCHANGED <<mainVars, phase, open, written, answer, reply, backendVars>>

ClientReads(c) ==
    /\ c \in open \intersect written
    /\ phase[c] = "flushing"
    /\ answer[c] = None
    /\ answer' = [answer EXCEPT ![c] = reply[c]]
    /\ UNCHANGED <<mainVars, phase, open, sent, written, reply, backendVars>>

(* CloseHandle: after the answer, or when the client's deadline passes.      *)
ClientLeaves(c) ==
    /\ c \in open
    /\ open' = open \ {c}
    /\ UNCHANGED <<mainVars, phase, sent, written, answer, reply, backendVars>>

-----------------------------------------------------------------------------
(* The main thread.                                                          *)

ClosePipes(cs) == [r \in Requesters |-> IF r \in cs THEN "closed" ELSE phase[r]]

\* Mutant: the queue is left to the workers that are told to stop.
StopKeepingQueue(rest) ==
    /\ stopping' = TRUE
    /\ phase' = ClosePipes(rest)
    /\ queue' = queue
    /\ main' = "joining"

(* clients.stop(): what is queued is closed, the workers are woken.          *)
Stop(rest) ==
    /\ stopping' = TRUE
    /\ phase' = ClosePipes(Range(queue) \union rest)
    /\ queue' = <<>>
    /\ main' = "joining"

(* createClientPipe, or the end of the loop: the backend is gone, or Windows *)
(* has no instance left, or the security check of the new one fails.         *)
Listen ==
    /\ main = "looping"
    /\ Running
    /\ Instances < MaxConnections
    /\ main' = "listening"
    /\ UNCHANGED <<listener, queue, stopping, phase, pipeVars, reply, backendVars>>

LeaveLoop ==
    /\ main = "looping"
    /\ Stop({})
    /\ UNCHANGED <<listener, pipeVars, reply, backendVars>>

(* push: refused when stopping or full.                                      *)
PushClient ==
    /\ main = "listening"
    /\ listener # None
    /\ main' = "looping"
    /\ listener' = None
    /\ IF stopping \/ Len(queue) >= QueueCapacity
       THEN /\ phase' = [phase EXCEPT ![listener] = "closed"]
            /\ UNCHANGED queue
       ELSE /\ phase' = [phase EXCEPT ![listener] = "queued"]
            /\ queue' = Append(queue, listener)
    /\ UNCHANGED <<stopping, pipeVars, reply, backendVars>>

(* ConnectNamedPipe fails: the instance is closed, the loop goes on.         *)
ConnectFails ==
    /\ main = "listening"
    /\ main' = "looping"
    /\ listener' = None
    /\ phase' = ClosePipes({listener})
    /\ UNCHANGED <<queue, stopping, pipeVars, reply, backendVars>>

\* Mutant: the wait is for a client only, and the exit is seen with it.
BackendStoppedOnNextClient ==
    /\ main = "listening"
    /\ daemon = "dead"
    /\ listener # None
    /\ listener' = None
    /\ Stop({listener})
    /\ UNCHANGED <<pipeVars, reply, backendVars>>

(* The wait ends with the backend's exit; a client that comes at that very   *)
(* moment is closed with the instance.                                       *)
BackendStopped ==
    /\ main = "listening"
    /\ daemon = "dead"
    /\ listener' = None
    /\ Stop({listener})
    /\ UNCHANGED <<pipeVars, reply, backendVars>>

(* All workers have left their loop; runBroker returns and the backend's     *)
(* destructor, or the job object, ends the daemon.                           *)
Exit ==
    /\ main = "joining"
    /\ Served = {}
    /\ holder = None
    /\ main' = "exited"
    /\ Poison
    /\ UNCHANGED <<listener, queue, stopping, phase, pipeVars, reply, holder>>

-----------------------------------------------------------------------------
(* A worker: pop, then serveClient.                                          *)

Pop ==
    /\ queue # <<>>
    /\ Cardinality(Served) < Workers
    /\ queue' = Tail(queue)
    /\ phase' = [phase EXCEPT ![Head(queue)] = "reading"]
    /\ UNCHANGED <<main, listener, stopping, pipeVars, reply, backendVars>>

ReadFrame(c) ==
    /\ phase[c] = "reading"
    /\ c \in sent
    /\ phase' = [phase EXCEPT ![c] = "locking"]
    /\ UNCHANGED <<mainVars, pipeVars, reply, backendVars>>

(* A bad or late frame, or one whose own deadline has passed; and a write    *)
(* that fails or is late.                                                    *)
ClientFails(c) ==
    /\ phase[c] \in {"reading", "replying"}
    /\ phase' = [phase EXCEPT ![c] = "closed"]
    /\ UNCHANGED <<mainVars, pipeVars, reply, backendVars>>

WriteReply(c) ==
    /\ phase[c] = "replying"
    /\ c \in open
    /\ written' = written \union {c}
    /\ phase' = [phase EXCEPT ![c] = "flushing"]
    /\ UNCHANGED <<mainVars, open, sent, answer, reply, backendVars>>

\* Mutant: the pipe is disconnected as soon as the write has succeeded.
CloseUnflushed(c) ==
    /\ phase[c] = "flushing"
    /\ phase' = [phase EXCEPT ![c] = "closed"]
    /\ UNCHANGED <<mainVars, pipeVars, reply, backendVars>>

(* FlushFileBuffers returns when the client has read everything or is gone;  *)
(* only then does DisconnectNamedPipe discard what the pipe holds.           *)
FlushAndClose(c) ==
    /\ phase[c] = "flushing"
    /\ c \in open => answer[c] # None
    /\ phase' = [phase EXCEPT ![c] = "closed"]
    /\ UNCHANGED <<mainVars, pipeVars, reply, backendVars>>

-----------------------------------------------------------------------------
Done == main = "exited" /\ UNCHANGED vars

Backend(r) == TryLock(r) \/ LockTimesOut(r) \/ WriteFrame(r) \/ ExchangeFails(r)

Daemon == DaemonReady \/ DaemonAnswers \/ DaemonDies

StartupStep ==
    WaitForReady \/ ReadyTimesOut \/ \E r \in Startup : StartupAnswered(r)

MainThread ==
    Listen \/ LeaveLoop \/ PushClient \/ ConnectFails \/ BackendStopped \/ Exit

Worker(c) ==
    ReadFrame(c) \/ ClientFails(c) \/ ExchangeSucceeds(c) \/ WriteReply(c) \/ FlushAndClose(c)

Client(c) == ClientConnects(c) \/ ClientSends(c) \/ ClientReads(c) \/ ClientLeaves(c)

Next ==
    \/ Daemon
    \/ StartupStep
    \/ MainThread
    \/ Pop
    \/ \E r \in Requesters : Backend(r)
    \/ \E c \in Clients : Worker(c) \/ Client(c)
    \/ Done

Spec == Init /\ [][Next]_vars

(* The threads run; a wait with a deadline ends; FlushFileBuffers has no     *)
(* deadline of its own, but every client of IpcClient.cpp closes its handle  *)
(* when its bounded transport timeout has passed.  The daemon is not assumed *)
(* to answer, nor clients to come.                                           *)
Fairness ==
    /\ WF_vars(StartupStep)
    /\ WF_vars(Listen)
    /\ WF_vars(~Running /\ LeaveLoop)
    /\ WF_vars(PushClient)
    /\ WF_vars(BackendStopped)
    /\ WF_vars(Exit)
    /\ WF_vars(Pop)
    /\ \A r \in Requesters : WF_vars(Backend(r))
    /\ \A c \in Clients : WF_vars(Worker(c)) /\ WF_vars(ClientLeaves(c))

FairSpec == Spec /\ Fairness

-----------------------------------------------------------------------------
(* The answer a client reads is the answer to its own frame, whatever died,  *)
(* was late or was given up before: the exchanges of the workers share one   *)
(* pair of pipes and nothing but their order tells the answers apart         *)
(* (DaemonBackend::request, poison).                                         *)
OwnAnswer == \A c \in Clients : answer[c] \in {c, None}

(* The accept loop finds an instance of the pipe free whenever it comes to   *)
(* create the next one (kQueueCapacity): it never ends because it accepted   *)
(* too many clients.                                                         *)
InstanceLeft == main = "looping" => Instances < MaxConnections

(* An answer that was written reaches the client, unless the client closed   *)
(* its end: the disconnection does not discard it (serveClient's drain).     *)
WrittenAnswerArrives ==
    \A c \in written \intersect open : phase[c] = "closed" => answer[c] # None

(* When the broker has exited no client is left on an open pipe, and no      *)
(* daemon is left behind.                                                    *)
NothingLeftBehind ==
    main = "exited" =>
        /\ \A c \in Clients : phase[c] \in {"none", "closed"}
        /\ daemon = "dead"

(* When the backend is gone the broker ends, so that its companion starts    *)
(* another: a broker that outlives its daemon would refuse everything.       *)
BrokerFollowsBackend == ~Running ~> main = "exited"

=============================================================================
