--------------------------- MODULE PipeBrokerProofs ---------------------------
(***************************************************************************)
(* Proofs about PipeBroker, for any number of clients, workers and         *)
(* instances of the pipe.                                                  *)
(***************************************************************************)
EXTENDS PipeBroker, FiniteSetTheorems, SequenceTheorems, TLAPS

(* What the phases say about the main thread.  A client is in the queue      *)
(* exactly while its phase says so, and once.                                *)
MainOK ==
    /\ phase[Negotiate] # "closed" => phase[Warm] = "none"
    /\ \A r \in Startup : phase[r] \notin {"none", "closed"} => main = "starting"
    /\ phase[Negotiate] = "none" => main \in {"starting", "joining", "exited"}
    /\ main = "starting" => \A c \in Clients : phase[c] = "none"
    /\ listener # None => main = "listening" /\ phase[listener] = "listening"
    /\ \A c \in Clients : phase[c] = "listening" => c = listener
    /\ main \in {"starting", "joining", "exited"} => queue = <<>>
    /\ main = "exited" => daemon = "dead" /\ Served = {}

QueueOK ==
    /\ \A i \in 1..Len(queue) : phase[queue[i]] = "queued"
    /\ \A i, j \in 1..Len(queue) : queue[i] = queue[j] => i = j
    /\ \A c \in Clients : phase[c] = "queued" => \E i \in 1..Len(queue) : queue[i] = c

(* A client whose answer is written is past everything that could close it   *)
(* before it has read.                                                       *)
WrittenOK ==
    \A c \in written :
        /\ phase[c] \in {"flushing", "closed"}
        /\ phase[c] = "closed" /\ c \in open => answer[c] # None

IInv == TypeOK /\ MainOK /\ QueueOK /\ WrittenOK

-----------------------------------------------------------------------------
LEMMA InitIInv == Init => IInv
  <1> SUFFICES ASSUME Init PROVE IInv
    OBVIOUS
  <1> USE BrokerConstants DEF Init, Requesters, Startup
  <1>1. TypeOK
    <2>1. phase \in [Requesters -> Phases]
      BY DEF Phases
    <2>2. reply \in [Clients -> Requesters \union {"ready", None}]
          /\ answer \in [Clients -> Requesters \union {"ready", None}]
      OBVIOUS
    <2>3. queue \in Seq(Clients) /\ stdin \in Seq(Requesters)
          /\ stdout \in Seq(Requesters \union {"ready"})
      OBVIOUS
    <2> QED
      BY <2>1, <2>2, <2>3 DEF TypeOK
  <1>2. MainOK
    BY DEF MainOK
  <1>3. QueueOK
    BY DEF QueueOK
  <1>4. WrittenOK
    BY DEF WrittenOK
  <1> QED
    BY <1>1, <1>2, <1>3, <1>4 DEF IInv

(* What the operators on the queue and the private pipes return.             *)
LEMMA SeqFacts ==
  ASSUME NEW S, NEW q \in Seq(S)
  PROVE  /\ q # <<>> => Head(q) \in S /\ Tail(q) \in Seq(S)
         /\ \A x \in S : Append(q, x) \in Seq(S)
  OBVIOUS

LEMMA TailOf ==
  ASSUME NEW S, NEW q \in Seq(S), q # <<>>
  PROVE  /\ Head(q) = q[1] /\ Head(q) \in S
         /\ Len(q) \in Nat /\ Len(q) >= 1
         /\ Len(Tail(q)) = Len(q) - 1
         /\ \A i \in 1..(Len(q) - 1) : Tail(q)[i] = q[i + 1]
         /\ \A i \in 1..Len(q) : q[i] \in S
  OBVIOUS

LEMMA StreamTypes ==
  ASSUME TypeOK, [Next]_vars
  PROVE  /\ queue' \in Seq(Clients)
         /\ stdin' \in Seq(Requesters)
         /\ stdout' \in Seq(Requesters \union {"ready"})
  <1> USE BrokerConstants
  <1>1. /\ queue \in Seq(Clients)
        /\ stdin \in Seq(Requesters)
        /\ stdout \in Seq(Requesters \union {"ready"})
        /\ listener \in Clients \union {None}
    BY DEF TypeOK
  <1>2. /\ queue # <<>> => Tail(queue) \in Seq(Clients)
        /\ \A c \in Clients : Append(queue, c) \in Seq(Clients)
    BY <1>1, SeqFacts
  <1>0. \A S : <<>> \in Seq(S)
    OBVIOUS
  <1>3. /\ stdin # <<>> => Head(stdin) \in Requesters /\ Tail(stdin) \in Seq(Requesters)
    BY <1>1, SeqFacts
  <1>4. /\ stdout # <<>> => Tail(stdout) \in Seq(Requesters \union {"ready"})
        /\ \A x \in Requesters \union {"ready"} :
             Append(stdout, x) \in Seq(Requesters \union {"ready"})
    BY <1>1, SeqFacts
  <1>5. ASSUME NEW r \in Requesters PROVE stdin \o LinesOf(r) \in Seq(Requesters)
    <2>1. <<r>> \in Seq(Requesters) /\ <<r, r>> \in Seq(Requesters)
      OBVIOUS
    <2>2. LinesOf(r) \in Seq(Requesters)
      BY <2>1, Zenon DEF LinesOf
    <2> QED
      BY <1>1, <2>2, ConcatProperties, Zenon
  <1>6. queue' \in Seq(Clients)
    <2>1. queue' = queue \/ queue' = <<>> \/ Pop \/ (PushClient /\ listener # None)
      BY DEF Next, vars, Daemon, DaemonReady, DaemonAnswers, DaemonDies, StartupStep,
             WaitForReady, ReadyTimesOut, StartupAnswered, MainThread, Listen, LeaveLoop,
             PushClient, ConnectFails, BackendStopped, Exit, Stop, Backend, TryLock,
             LockTimesOut, WriteFrame, ExchangeFails, GiveUp, Worker, ReadFrame, ClientFails,
             ExchangeSucceeds, WriteReply, FlushAndClose, Client, ClientConnects, ClientSends,
             ClientReads, ClientLeaves, Done, mainVars
    <2> QED
      BY <1>0, <1>1, <1>2, <2>1, Zenon DEF Pop, PushClient
  <1>7. stdin' \in Seq(Requesters)
    <2>1. stdin' = stdin \/ stdin' = <<>> \/ (stdin # <<>> /\ stdin' = Tail(stdin))
          \/ \E r \in Requesters : stdin' = stdin \o LinesOf(r)
      BY DEF Next, vars, Daemon, DaemonReady, DaemonAnswers, DaemonDies, StartupStep,
             WaitForReady, ReadyTimesOut, StartupAnswered, MainThread, Listen, LeaveLoop,
             PushClient, ConnectFails, BackendStopped, Exit, Poison, TakeLine, Pop, Backend,
             TryLock, LockTimesOut, WriteFrame, ExchangeFails, Worker, ReadFrame, ClientFails,
             ExchangeSucceeds, WriteReply, FlushAndClose, Client, ClientConnects, ClientSends,
             ClientReads, ClientLeaves, Done, backendVars
    <2> QED
      BY <1>0, <1>1, <1>3, <1>5, <2>1, Zenon
  <1>8. stdout' \in Seq(Requesters \union {"ready"})
    <2>1. \/ stdout' = stdout \/ stdout' = <<>> \/ (stdout # <<>> /\ stdout' = Tail(stdout))
          \/ stdout' = Append(stdout, "ready")
          \/ stdin # <<>> /\ stdout' = Append(stdout, Head(stdin))
      BY DEF Next, vars, Daemon, DaemonReady, DaemonAnswers, DaemonDies, StartupStep,
             WaitForReady, ReadyTimesOut, StartupAnswered, MainThread, Listen, LeaveLoop,
             PushClient, ConnectFails, BackendStopped, Exit, Poison, TakeLine, Pop, Backend,
             TryLock, LockTimesOut, WriteFrame, ExchangeFails, Worker, ReadFrame, ClientFails,
             ExchangeSucceeds, WriteReply, FlushAndClose, Client, ClientConnects, ClientSends,
             ClientReads, ClientLeaves, Done, backendVars
    <2>2. Requesters \subseteq Requesters \union {"ready"}
          /\ "ready" \in Requesters \union {"ready"}
      OBVIOUS
    <2> QED
      BY <1>0, <1>1, <1>3, <1>4, <2>1, <2>2, Zenon
  <1> QED
    BY <1>6, <1>7, <1>8

LEMMA TypeStep == TypeOK /\ [Next]_vars => TypeOK'
  <1> SUFFICES ASSUME TypeOK, [Next]_vars PROVE TypeOK'
    OBVIOUS
  <1>0. /\ queue' \in Seq(Clients)
        /\ stdin' \in Seq(Requesters)
        /\ stdout' \in Seq(Requesters \union {"ready"})
    BY StreamTypes
  <1> USE BrokerConstants, <1>0 DEF TypeOK, Startup, Requesters, Phases, Serving
  <1>1. CASE UNCHANGED vars
    BY <1>1 DEF vars, mainVars, pipeVars, backendVars
  <1>2. CASE Daemon
    BY <1>2 DEF Daemon, DaemonReady, DaemonAnswers, DaemonDies, mainVars, pipeVars
  <1>3. CASE StartupStep
    <2>1. CASE WaitForReady
      BY <2>1 DEF WaitForReady, mainVars, pipeVars
    <2>2. CASE ReadyTimesOut
      BY <2>2 DEF ReadyTimesOut, Poison, pipeVars
    <2>3. ASSUME NEW r \in Startup, StartupAnswered(r) PROVE TypeOK'
      BY <2>3 DEF StartupAnswered, TakeLine, pipeVars
    <2> QED
      BY <1>3, <2>1, <2>2, <2>3 DEF StartupStep
  <1>4. CASE MainThread
    <2>1. CASE Listen \/ LeaveLoop \/ BackendStopped
      BY <2>1 DEF Listen, LeaveLoop, BackendStopped, Stop, ClosePipes, pipeVars, backendVars
    <2>2. CASE PushClient
      BY <2>2 DEF PushClient, pipeVars, backendVars
    <2>3. CASE ConnectFails
      BY <2>3 DEF ConnectFails, ClosePipes, pipeVars, backendVars
    <2>4. CASE Exit
      BY <2>4 DEF Exit, Poison, pipeVars
    <2> QED
      BY <1>4, <2>1, <2>2, <2>3, <2>4 DEF MainThread
  <1>5. CASE Pop
    BY <1>5 DEF Pop, pipeVars, backendVars
  <1>6. ASSUME NEW r \in Requesters, Backend(r) PROVE TypeOK'
    <2>1. CASE TryLock(r) \/ LockTimesOut(r)
      BY <2>1 DEF TryLock, LockTimesOut, GiveUp, mainVars, pipeVars, backendVars
    <2>2. CASE WriteFrame(r)
      BY <2>2 DEF WriteFrame, mainVars, pipeVars
    <2>3. CASE ExchangeFails(r)
      BY <2>3 DEF ExchangeFails, Poison, GiveUp, mainVars, pipeVars
    <2> QED
      BY <1>6, <2>1, <2>2, <2>3 DEF Backend
  <1>7. ASSUME NEW c \in Clients, Worker(c) PROVE TypeOK'
    <2>1. CASE ReadFrame(c) \/ ClientFails(c) \/ WriteReply(c) \/ FlushAndClose(c)
      <3>1. CASE ReadFrame(c) \/ ClientFails(c)
        BY <3>1 DEF ReadFrame, ClientFails, mainVars, pipeVars, backendVars
      <3>2. CASE WriteReply(c)
        BY <3>2 DEF WriteReply, mainVars, backendVars
      <3>3. CASE FlushAndClose(c)
        BY <3>3 DEF FlushAndClose, mainVars, pipeVars, backendVars
      <3> QED
        BY <2>1, <3>1, <3>2, <3>3
    <2>2. CASE ExchangeSucceeds(c)
      <3>1. stdout # <<>> => Head(stdout) \in Requesters \union {"ready"}
        BY SeqFacts
      <3> QED
        BY <2>2, <3>1 DEF ExchangeSucceeds, TakeLine, mainVars, pipeVars
    <2> QED
      BY <1>7, <2>1, <2>2 DEF Worker
  <1>8. ASSUME NEW c \in Clients, Client(c) PROVE TypeOK'
    BY <1>8 DEF Client, ClientConnects, ClientSends, ClientReads, ClientLeaves, mainVars, backendVars
  <1> QED
    BY <1>1, <1>2, <1>3, <1>4, <1>5, <1>6, <1>7, <1>8 DEF Next, Done

LEMMA MainStep == IInv /\ [Next]_vars => MainOK'
  <1> SUFFICES ASSUME IInv, [Next]_vars PROVE MainOK'
    OBVIOUS
  <1>0. TypeOK /\ TypeOK'
    BY TypeStep DEF IInv
  <1>q. \A c \in Clients : c \in Requesters /\ c \notin Startup /\ c # Negotiate /\ c # Warm
    BY BrokerConstants DEF Requesters, Startup
  <1> USE BrokerConstants, <1>0, <1>q DEF IInv, TypeOK, MainOK, Requesters, Startup, Served, Serving
  <1>1. CASE UNCHANGED vars
    BY <1>1 DEF vars, mainVars, pipeVars, backendVars
  <1>2. CASE Daemon
    BY <1>2 DEF Daemon, DaemonReady, DaemonAnswers, DaemonDies, mainVars, pipeVars
  <1>3. CASE WaitForReady
    BY <1>3 DEF WaitForReady, mainVars, pipeVars
  <1>4. CASE ReadyTimesOut
    BY <1>4 DEF ReadyTimesOut, Poison, pipeVars
  <1>5. ASSUME NEW r \in Startup, StartupAnswered(r) PROVE MainOK'
    BY <1>5 DEF StartupAnswered, TakeLine, pipeVars
  <1>6. CASE Listen \/ LeaveLoop \/ BackendStopped
    BY <1>6 DEF Listen, LeaveLoop, BackendStopped, Stop, ClosePipes, pipeVars, backendVars
  <1>7. CASE PushClient
    <2> PICK c \in Clients : c = listener
      BY <1>7 DEF PushClient
    <2>1. phase' = [phase EXCEPT ![c] = "closed"] \/ phase' = [phase EXCEPT ![c] = "queued"]
      BY <1>7 DEF PushClient
    <2> QED
      BY <1>7, <2>1 DEF PushClient, pipeVars, backendVars
  <1>8. CASE ConnectFails
    BY <1>8 DEF ConnectFails, ClosePipes, pipeVars, backendVars
  <1>9. CASE Exit
    BY <1>9 DEF Exit, Poison, pipeVars
  <1>10. CASE Pop
    <2>1. queue # <<>> /\ queue \in Seq(Clients)
      BY <1>10 DEF Pop
    <2> PICK c \in Clients : c = Head(queue) /\ c = queue[1] /\ Len(queue) >= 1 /\ Len(queue) \in Nat
      BY <2>1, TailOf
    <2>2. phase[c] = "queued"
      BY DEF QueueOK
    <2> HIDE DEF TypeOK
    <2>3. phase' = [phase EXCEPT ![c] = "reading"] /\ main \in {"looping", "listening"}
      BY <1>10, <2>1 DEF Pop, TypeOK
    <2>4. phase \in [Requesters -> Phases]
      BY DEF TypeOK
    <2> QED
      BY <1>10, <2>2, <2>3, <2>4 DEF Pop, pipeVars, backendVars
  <1>11. ASSUME NEW r \in Requesters, TryLock(r) \/ LockTimesOut(r) PROVE MainOK'
    BY <1>11 DEF TryLock, LockTimesOut, GiveUp, mainVars, pipeVars, backendVars
  <1>12. ASSUME NEW r \in Requesters, WriteFrame(r) PROVE MainOK'
    BY <1>12 DEF WriteFrame, mainVars, pipeVars
  <1>13. ASSUME NEW r \in Requesters, ExchangeFails(r) PROVE MainOK'
    BY <1>13 DEF ExchangeFails, Poison, GiveUp, mainVars, pipeVars
  <1>14. ASSUME NEW c \in Clients, Worker(c) PROVE MainOK'
    BY <1>14 DEF Worker, ReadFrame, ClientFails, ExchangeSucceeds, TakeLine, WriteReply,
                 FlushAndClose, mainVars, pipeVars, backendVars
  <1>15. ASSUME NEW c \in Clients, Client(c) PROVE MainOK'
    BY <1>15 DEF Client, ClientConnects, ClientSends, ClientReads, ClientLeaves, mainVars, backendVars
  <1> QED
    BY <1>1, <1>2, <1>3, <1>4, <1>5, <1>6, <1>7, <1>8, <1>9, <1>10, <1>11, <1>12, <1>13, <1>14, <1>15
    DEF Next, Done, StartupStep, MainThread, Backend

(* Who is in the queue.                                                      *)
LEMMA QueuedClients ==
  ASSUME TypeOK, QueueOK
  PROVE  Range(queue) = {c \in Clients : phase[c] = "queued"}
  <1>1. queue \in Seq(Clients)
    BY DEF TypeOK
  <1>2. Range(queue) = {queue[i] : i \in 1..Len(queue)}
    BY <1>1, RangeEquality
  <1>3. \A i \in 1..Len(queue) : queue[i] \in Clients
    BY <1>1
  <1>4. ASSUME NEW c \in Range(queue) PROVE c \in Clients /\ phase[c] = "queued"
    <2> PICK i \in 1..Len(queue) : queue[i] = c
      BY <1>2
    <2> QED
      BY <1>3 DEF QueueOK
  <1>5. ASSUME NEW c \in Clients, phase[c] = "queued" PROVE c \in Range(queue)
    <2> PICK i \in 1..Len(queue) : queue[i] = c
      BY <1>5 DEF QueueOK
    <2> QED
      BY <1>2
  <1> QED
    BY <1>4, <1>5

(* A step that queues nobody and serves nobody leaves the queue as it is.    *)
LEMMA QueueKept ==
  ASSUME TypeOK, QueueOK, queue' = queue,
         \A c \in Clients : phase'[c] = "queued" <=> phase[c] = "queued"
  PROVE  QueueOK'
  BY DEF TypeOK, QueueOK

LEMMA PushKeepsQueue ==
  ASSUME TypeOK, QueueOK, NEW c \in Clients, phase[c] # "queued",
         queue' = Append(queue, c), phase' = [phase EXCEPT ![c] = "queued"]
  PROVE  QueueOK'
  <1>1. queue \in Seq(Clients) /\ phase \in [Requesters -> Phases] /\ c \in Requesters
    BY DEF TypeOK, Requesters
  <1>2. /\ Len(queue') = Len(queue) + 1
        /\ Len(queue) \in Nat
        /\ \A i \in 1..Len(queue) : queue'[i] = queue[i] /\ queue[i] \in Clients
        /\ queue'[Len(queue) + 1] = c
    BY <1>1
  <1>3. \A i \in 1..Len(queue) : queue[i] # c
    BY DEF QueueOK
  <1> HIDE DEF QueueOK
  <1> DEFINE n == Len(queue)
             q == queue'
  <1>4. \A i \in 1..(n + 1) : phase'[q[i]] = "queued"
    BY <1>1, <1>2 DEF QueueOK, Requesters
  <1>5. \A i, j \in 1..(n + 1) : q[i] = q[j] => i = j
    BY <1>2, <1>3 DEF QueueOK
  <1>6. \A a \in Clients : phase'[a] = "queued" => \E i \in 1..(n + 1) : q[i] = a
    BY <1>1, <1>2 DEF QueueOK, Requesters
  <1> QED
    BY <1>2, <1>4, <1>5, <1>6 DEF QueueOK

LEMMA PopKeepsQueue ==
  ASSUME TypeOK, QueueOK, queue # <<>>, queue' = Tail(queue),
         phase' = [phase EXCEPT ![Head(queue)] = "reading"]
  PROVE  QueueOK'
  <1>1. queue \in Seq(Clients) /\ phase \in [Requesters -> Phases]
    BY DEF TypeOK
  <1>2. /\ Head(queue) = queue[1] /\ Head(queue) \in Clients
        /\ Len(queue) \in Nat /\ Len(queue) >= 1
        /\ Len(Tail(queue)) = Len(queue) - 1
        /\ \A i \in 1..(Len(queue) - 1) : Tail(queue)[i] = queue[i + 1]
        /\ \A i \in 1..Len(queue) : queue[i] \in Clients
    BY <1>1, TailOf
  <1> DEFINE h == Head(queue)
             n == Len(queue)
             q == queue
             t == queue'
  <1>3. /\ \A i \in 1..n : phase[q[i]] = "queued"
        /\ \A i, j \in 1..n : q[i] = q[j] => i = j
        /\ \A c \in Clients : phase[c] = "queued" => \E i \in 1..n : q[i] = c
    BY DEF QueueOK
  <1>4. /\ h = q[1] /\ h \in Clients /\ n \in Nat /\ n >= 1 /\ Len(t) = n - 1
        /\ \A i \in 1..(n - 1) : t[i] = q[i + 1]
        /\ \A i \in 1..n : q[i] \in Clients
        /\ phase' = [phase EXCEPT ![h] = "reading"]
        /\ phase \in [Requesters -> Phases] /\ Clients \subseteq Requesters
    BY <1>1, <1>2 DEF Requesters
  <1> HIDE DEF h, n, q, t
  <1>5. \A i \in 1..(n - 1) : phase'[t[i]] = "queued"
    BY <1>3, <1>4
  <1>6. \A i, j \in 1..(n - 1) : t[i] = t[j] => i = j
    BY <1>3, <1>4
  <1>7. ASSUME NEW c \in Clients, phase'[c] = "queued" PROVE \E i \in 1..(n - 1) : t[i] = c
    <2> PICK j \in 1..n : q[j] = c
      BY <1>3, <1>4, <1>7
    <2>1. j # 1
      BY <1>4, <1>7
    <2>2. j - 1 \in 1..(n - 1) /\ t[j - 1] = c
      BY <1>4, <2>1
    <2> QED
      BY <2>2
  <1> QED
    BY <1>4, <1>5, <1>6, <1>7 DEF QueueOK, t

\* stop() leaves nobody waiting to be popped.
LEMMA StopEmptiesQueue ==
  ASSUME TypeOK, QueueOK, LeaveLoop \/ BackendStopped
  PROVE  queue' = <<>> /\ \A c \in Clients : phase'[c] # "queued"
  <1>1. Range(queue) = {c \in Clients : phase[c] = "queued"}
    BY QueuedClients
  <1>2. PICK rest : queue' = <<>> /\ phase' = ClosePipes(Range(queue) \union rest)
    BY DEF LeaveLoop, BackendStopped, Stop
  <1>3. ASSUME NEW c \in Clients PROVE phase'[c] # "queued"
    <2>1. c \in Requesters
      BY DEF Requesters
    <2>2. phase'[c] = IF c \in Range(queue) \union rest THEN "closed" ELSE phase[c]
      BY <1>2, <2>1 DEF ClosePipes
    <2>3. CASE c \in Range(queue)
      BY <2>2, <2>3
    <2>4. CASE c \notin Range(queue)
      BY <1>1, <2>2, <2>4
    <2> QED
      BY <2>3, <2>4
  <1> QED
    BY <1>2, <1>3

LEMMA QueueStep == IInv /\ [Next]_vars => QueueOK'
  <1> SUFFICES ASSUME IInv, [Next]_vars PROVE QueueOK'
    OBVIOUS
  <1>0. TypeOK /\ TypeOK'
    BY TypeStep DEF IInv
  <1>q. \A c \in Clients : c \in Requesters /\ c \notin Startup /\ c # Negotiate /\ c # Warm
    BY BrokerConstants DEF Requesters, Startup
  <1> USE BrokerConstants, <1>0, <1>q DEF IInv, TypeOK, MainOK, QueueOK, Serving
  <1>1. CASE UNCHANGED vars
    BY <1>1 DEF vars, mainVars, pipeVars, backendVars
  <1>2. CASE Daemon
    BY <1>2 DEF Daemon, DaemonReady, DaemonAnswers, DaemonDies, mainVars, pipeVars
  <1>3. CASE WaitForReady
    BY <1>3 DEF WaitForReady, mainVars, pipeVars
  <1>4. CASE ReadyTimesOut
    BY <1>4 DEF ReadyTimesOut, Poison, pipeVars
  <1>5. ASSUME NEW r \in Startup, StartupAnswered(r) PROVE QueueOK'
    <2>1. queue' = queue
      BY <1>5 DEF StartupAnswered
    <2>2. \A c \in Clients : phase'[c] = phase[c]
      BY <1>5 DEF StartupAnswered, TakeLine, Startup
    <2> QED
      BY <2>1, <2>2, QueueKept
  <1>6. CASE Listen \/ LeaveLoop \/ BackendStopped
    <2>1. CASE Listen
      BY <2>1 DEF Listen
    <2>2. CASE LeaveLoop \/ BackendStopped
      <3> HIDE DEF QueueOK
      <3>1. queue' = <<>> /\ \A c \in Clients : phase'[c] # "queued"
        BY <2>2, StopEmptiesQueue
      <3> QED
        BY <3>1 DEF QueueOK
    <2> QED
      BY <1>6, <2>1, <2>2
  <1>7. CASE PushClient
    <2> PICK c \in Clients : c = listener
      BY <1>7 DEF PushClient
    <2>1. phase[c] = "listening"
      BY BrokerConstants
    <2>2. CASE queue' = queue /\ phase' = [phase EXCEPT ![c] = "closed"]
      BY <2>1, <2>2, QueueKept
    <2>3. CASE queue' = Append(queue, c) /\ phase' = [phase EXCEPT ![c] = "queued"]
      BY <2>1, <2>3, PushKeepsQueue
    <2> QED
      BY <1>7, <2>2, <2>3 DEF PushClient
  <1>8. CASE ConnectFails
    BY <1>8 DEF ConnectFails, ClosePipes, pipeVars, backendVars
  <1>9. CASE Exit
    BY <1>9 DEF Exit, Poison, pipeVars
  <1>10. CASE Pop
    <2>1. queue # <<>> /\ queue' = Tail(queue) /\ phase' = [phase EXCEPT ![Head(queue)] = "reading"]
      BY <1>10 DEF Pop
    <2> QED
      BY <2>1, PopKeepsQueue
  <1>11. ASSUME NEW r \in Requesters, TryLock(r) \/ LockTimesOut(r) PROVE QueueOK'
    <2>1. queue' = queue
      BY <1>11 DEF TryLock, LockTimesOut, GiveUp, mainVars
    <2>2. phase[r] # "queued" /\ phase'[r] # "queued" /\ \A c \in Clients \ {r} : phase'[c] = phase[c]
      BY <1>11 DEF TryLock, LockTimesOut, GiveUp
    <2> QED
      BY <2>1, <2>2, QueueKept
  <1>12. ASSUME NEW r \in Requesters, WriteFrame(r) PROVE QueueOK'
    BY <1>12 DEF WriteFrame, mainVars, pipeVars
  <1>13. ASSUME NEW r \in Requesters, ExchangeFails(r) PROVE QueueOK'
    BY <1>13 DEF ExchangeFails, Poison, GiveUp, mainVars, pipeVars
  <1>14. ASSUME NEW c \in Clients, Worker(c) PROVE QueueOK'
    <2>1. queue' = queue
      BY <1>14 DEF Worker, ReadFrame, ClientFails, ExchangeSucceeds, WriteReply, FlushAndClose,
                   mainVars
    <2>2. phase[c] # "queued" /\ phase'[c] # "queued"
      BY <1>14 DEF Worker, ReadFrame, ClientFails, ExchangeSucceeds, TakeLine, WriteReply,
                   FlushAndClose
    <2>3. \A d \in Clients \ {c} : phase'[d] = phase[d]
      BY <1>14 DEF Worker, ReadFrame, ClientFails, ExchangeSucceeds, TakeLine, WriteReply,
                   FlushAndClose
    <2> QED
      BY <2>1, <2>2, <2>3, QueueKept
  <1>15. ASSUME NEW c \in Clients, Client(c) PROVE QueueOK'
    BY <1>15 DEF Client, ClientConnects, ClientSends, ClientReads, ClientLeaves, mainVars, backendVars
  <1> QED
    BY <1>1, <1>2, <1>3, <1>4, <1>5, <1>6, <1>7, <1>8, <1>9, <1>10, <1>11, <1>12, <1>13, <1>14, <1>15
    DEF Next, Done, StartupStep, MainThread, Backend

LEMMA WrittenStep == IInv /\ [Next]_vars => WrittenOK'
  <1> SUFFICES ASSUME IInv, [Next]_vars PROVE WrittenOK'
    OBVIOUS
  <1>0. TypeOK /\ TypeOK'
    BY TypeStep DEF IInv
  <1>q. \A c \in Clients : c \in Requesters /\ c \notin Startup /\ c # Negotiate /\ c # Warm
    BY BrokerConstants DEF Requesters, Startup
  <1> USE BrokerConstants, <1>0, <1>q DEF IInv, TypeOK, MainOK, QueueOK, WrittenOK, Serving
  <1>1. CASE UNCHANGED vars
    BY <1>1 DEF vars, mainVars, pipeVars, backendVars
  <1>2. CASE Daemon
    BY <1>2 DEF Daemon, DaemonReady, DaemonAnswers, DaemonDies, mainVars, pipeVars
  <1>3. CASE WaitForReady
    BY <1>3 DEF WaitForReady, mainVars, pipeVars
  <1>4. CASE ReadyTimesOut
    BY <1>4 DEF ReadyTimesOut, Poison, pipeVars
  <1>5. ASSUME NEW r \in Startup, StartupAnswered(r) PROVE WrittenOK'
    BY <1>5 DEF StartupAnswered, TakeLine, pipeVars
  <1>6. CASE Listen \/ LeaveLoop \/ BackendStopped
    <2>1. CASE Listen
      BY <2>1 DEF Listen, pipeVars
    <2>2. CASE LeaveLoop \/ BackendStopped
      <3>1. \A c \in Range(queue) : phase[c] = "queued"
        BY QueuedClients
      <3>2. \A c \in Clients :
              phase'[c] = phase[c] \/ c \in Range(queue) \/ (c = listener /\ phase[c] = "listening")
        BY <2>2 DEF LeaveLoop, BackendStopped, Stop, ClosePipes
      <3>3. \A c \in written : phase'[c] = phase[c]
        BY <3>1, <3>2, Zenon
      <3> QED
        BY <2>2, <3>3 DEF LeaveLoop, BackendStopped, pipeVars
    <2> QED
      BY <1>6, <2>1, <2>2
  <1>7. CASE PushClient
    <2>1. written' = written /\ open' = open /\ answer' = answer
      BY <1>7 DEF PushClient, pipeVars
    <2>2. listener \in Clients /\ phase[listener] = "listening" /\ listener \notin written
      BY <1>7 DEF PushClient
    <2>3. \A c \in written : phase'[c] = phase[c]
      BY <1>7, <2>2 DEF PushClient
    <2> QED
      BY <2>1, <2>3
  <1>8. CASE ConnectFails
    BY <1>8 DEF ConnectFails, ClosePipes, pipeVars, backendVars
  <1>9. CASE Exit
    BY <1>9 DEF Exit, Poison, pipeVars
  <1>10. CASE Pop
    BY <1>10 DEF Pop, pipeVars, backendVars
  <1>11. ASSUME NEW r \in Requesters, TryLock(r) \/ LockTimesOut(r) PROVE WrittenOK'
    BY <1>11 DEF TryLock, LockTimesOut, GiveUp, mainVars, pipeVars, backendVars
  <1>12. ASSUME NEW r \in Requesters, WriteFrame(r) PROVE WrittenOK'
    BY <1>12 DEF WriteFrame, mainVars, pipeVars
  <1>13. ASSUME NEW r \in Requesters, ExchangeFails(r) PROVE WrittenOK'
    BY <1>13 DEF ExchangeFails, Poison, GiveUp, mainVars, pipeVars
  <1>14. ASSUME NEW c \in Clients, Worker(c) PROVE WrittenOK'
    <2>1. CASE ReadFrame(c) \/ ClientFails(c) \/ ExchangeSucceeds(c)
      <3>1. written' = written /\ open' = open /\ answer' = answer
        BY <2>1 DEF ReadFrame, ClientFails, ExchangeSucceeds, pipeVars
      <3>2. c \notin written
        <4>1. phase[c] \in {"reading", "awaiting", "replying"}
          BY <2>1 DEF ReadFrame, ClientFails, ExchangeSucceeds, TakeLine
        <4> HIDE <1>0, <1>q DEF IInv, TypeOK, MainOK, QueueOK, Serving
        <4>2. WrittenOK
          BY DEF IInv
        <4> QED
          BY <4>1, <4>2
      <3>3. \A d \in Clients \ {c} : phase'[d] = phase[d]
        BY <2>1 DEF ReadFrame, ClientFails, ExchangeSucceeds, TakeLine
      <3>4. written \subseteq Clients
        OBVIOUS
      <3> HIDE <1>0, <1>q DEF IInv, TypeOK, MainOK, QueueOK, Serving
      <3>5. WrittenOK
        BY DEF IInv
      <3> QED
        BY <3>1, <3>2, <3>3, <3>4, <3>5, Zenon DEF WrittenOK
    <2>2. CASE WriteReply(c)
      BY <2>2 DEF WriteReply
    <2>3. CASE FlushAndClose(c)
      BY <2>3 DEF FlushAndClose, pipeVars
    <2> QED
      BY <1>14, <2>1, <2>2, <2>3 DEF Worker
  <1>15. ASSUME NEW c \in Clients, Client(c) PROVE WrittenOK'
    BY <1>15 DEF Client, ClientConnects, ClientSends, ClientReads, ClientLeaves, mainVars, backendVars
  <1> QED
    BY <1>1, <1>2, <1>3, <1>4, <1>5, <1>6, <1>7, <1>8, <1>9, <1>10, <1>11, <1>12, <1>13, <1>14, <1>15
    DEF Next, Done, StartupStep, MainThread, Backend

-----------------------------------------------------------------------------
(* The invariant of the broker: types, who waits where, whose answer is out. *)
THEOREM BrokerInvariant == Spec => []IInv
  <1>1. Init => IInv
    BY InitIInv
  <1>2. IInv /\ [Next]_vars => IInv'
    <2> SUFFICES ASSUME IInv, [Next]_vars PROVE IInv'
      OBVIOUS
    <2>1. TypeOK'
      BY TypeStep DEF IInv
    <2> QED
      BY <2>1, MainStep, QueueStep, WrittenStep DEF IInv
  <1> QED
    BY <1>1, <1>2, PTL DEF Spec

(* Every variable keeps its type.                                            *)
THEOREM BrokerTypeCorrect == Spec => []TypeOK
  BY BrokerInvariant, PTL DEF IInv

(* An answer that serveClient wrote is read, or the client has gone.         *)
THEOREM WrittenAnswersArrive == Spec => []WrittenAnswerArrives
  <1>1. IInv => WrittenAnswerArrives
    BY DEF IInv, WrittenOK, WrittenAnswerArrives
  <1> QED
    BY <1>1, BrokerInvariant, PTL

(* A broker that has exited leaves neither a connection nor a daemon.        *)
THEOREM ExitIsClean == Spec => []NothingLeftBehind
  <1>1. IInv => NothingLeftBehind
    <2> SUFFICES ASSUME IInv, main = "exited", NEW c \in Clients
                 PROVE  phase[c] \in {"none", "closed"} /\ daemon = "dead"
      BY DEF NothingLeftBehind, IInv, MainOK
    <2> USE DEF IInv
    <2>1. phase[c] \in Phases /\ phase[c] \notin Serving /\ daemon = "dead"
      BY DEF TypeOK, MainOK, Requesters, Served
    <2>2. phase[c] # "listening"
      BY BrokerConstants DEF MainOK
    <2>3. phase[c] # "queued"
      <3>1. queue = <<>>
        BY DEF MainOK
      <3> QED
        BY <3>1 DEF QueueOK
    <2> QED
      BY <2>1, <2>2, <2>3 DEF Phases
  <1> QED
    BY <1>1, BrokerInvariant, PTL

-----------------------------------------------------------------------------
(* Room for the next instance of the pipe: no more clients are served than   *)
(* there are workers, and the queue keeps its capacity.                      *)
RoomOK ==
    /\ IsFiniteSet(Served)
    /\ Cardinality(Served) <= Workers
    /\ Len(queue) <= QueueCapacity

LEMMA ServedShrinks ==
  ASSUME RoomOK, Served' \subseteq Served
  PROVE  IsFiniteSet(Served') /\ Cardinality(Served') <= Workers
  <1>1. IsFiniteSet(Served') /\ Cardinality(Served') <= Cardinality(Served)
    BY FS_Subset DEF RoomOK
  <1>2. Cardinality(Served) \in Nat /\ Cardinality(Served') \in Nat
    BY <1>1, FS_CardinalityType DEF RoomOK
  <1> DEFINE n == Cardinality(Served)
             m == Cardinality(Served')
  <1>3. m \in Nat /\ n \in Nat /\ m <= n /\ n <= Workers /\ Workers \in Nat
    BY <1>1, <1>2, BrokerConstants DEF RoomOK
  <1> HIDE DEF n, m
  <1>4. m <= Workers
    BY <1>3
  <1> QED
    BY <1>1, <1>4 DEF m

LEMMA RoomStep == IInv /\ RoomOK /\ [Next]_vars => RoomOK'
  <1> SUFFICES ASSUME IInv, RoomOK, [Next]_vars PROVE RoomOK'
    OBVIOUS
  <1>0. TypeOK /\ TypeOK'
    BY TypeStep DEF IInv
  <1>q. Len(queue) \in Nat /\ QueueCapacity \in Nat
    BY <1>0, BrokerConstants DEF TypeOK, QueueCapacity
  <1>1. CASE Pop
    <2>1. queue # <<>> /\ queue \in Seq(Clients) /\ queue' = Tail(queue)
          /\ phase' = [phase EXCEPT ![Head(queue)] = "reading"]
      BY <1>0, <1>1 DEF Pop, TypeOK
    <2> PICK c \in Clients : c = Head(queue)
      BY <2>1, TailOf
    <2>2. Len(queue') = Len(queue) - 1
      BY <2>1, TailOf
    <2>3. Served' = Served \union {c}
      BY <1>0, <2>1 DEF TypeOK, Served, Serving, Requesters
    <2>4. /\ IsFiniteSet(Served \union {c})
          /\ Cardinality(Served \union {c}) = Cardinality(Served)
             \/ Cardinality(Served \union {c}) = Cardinality(Served) + 1
      BY FS_AddElement DEF RoomOK
    <2> DEFINE n == Cardinality(Served)
    <2>5. n \in Nat /\ n < Workers /\ Workers \in Nat
      BY <1>1, FS_CardinalityType, BrokerConstants DEF Pop, RoomOK
    <2>6. Cardinality(Served') = n \/ Cardinality(Served') = n + 1
      BY <2>3, <2>4
    <2>7. IsFiniteSet(Served')
      BY <2>3, <2>4
    <2> DEFINE m == Cardinality(Served')
    <2> HIDE DEF n, m
    <2>8. m <= Workers
      BY <2>5, <2>6 DEF m
    <2>9. Len(queue') <= QueueCapacity
      BY <1>q, <2>2 DEF RoomOK
    <2> QED
      BY <2>7, <2>8, <2>9 DEF RoomOK, m, QueueCapacity
  <1>2. CASE PushClient
    <2>1. Served' \subseteq Served
      <3> PICK c \in Clients : c = listener
        BY <1>0, <1>2 DEF PushClient, TypeOK
      <3>1. phase' = [phase EXCEPT ![c] = "closed"] \/ phase' = [phase EXCEPT ![c] = "queued"]
        BY <1>2 DEF PushClient
      <3> QED
        BY <1>0, <3>1 DEF TypeOK, Served, Serving, Requesters
    <2>2. Len(queue') <= QueueCapacity
      <3>1. CASE queue' = queue
        BY <3>1 DEF RoomOK
      <3>2. CASE Len(queue) < QueueCapacity /\ queue' = Append(queue, listener)
        <4>1. Len(queue') = Len(queue) + 1
          BY <1>0, <3>2, AppendProperties, <1>2 DEF TypeOK, PushClient
        <4> QED
          BY <1>q, <3>2, <4>1
      <3> QED
        BY <1>2, <1>q, <3>1, <3>2 DEF PushClient
    <2> QED
      BY <2>1, <2>2, ServedShrinks DEF RoomOK, QueueCapacity
  <1>3. CASE ~Pop /\ ~PushClient
    <2>1. queue' = queue \/ queue' = <<>>
      BY <1>3 DEF Next, vars, Daemon, DaemonReady, DaemonAnswers, DaemonDies, StartupStep,
             WaitForReady, ReadyTimesOut, StartupAnswered, MainThread, Listen, LeaveLoop,
             PushClient, ConnectFails, BackendStopped, Exit, Stop, Backend, TryLock,
             LockTimesOut, WriteFrame, ExchangeFails, GiveUp, Worker, ReadFrame, ClientFails,
             ExchangeSucceeds, WriteReply, FlushAndClose, Client, ClientConnects, ClientSends,
             ClientReads, ClientLeaves, Done, mainVars
    <2>2. Len(queue') <= QueueCapacity
      BY <1>q, <2>1 DEF RoomOK
    <2>3. \A c \in Clients : phase'[c] \in Serving => phase[c] \in Serving
      BY <1>0, <1>3, BrokerConstants DEF TypeOK, Requesters, Startup, Phases, Serving, ClosePipes, TakeLine,
             Next, vars, Daemon, DaemonReady, DaemonAnswers, DaemonDies, StartupStep,
             WaitForReady, ReadyTimesOut, StartupAnswered, MainThread, Listen, LeaveLoop,
             PushClient, ConnectFails, BackendStopped, Exit, Stop, Backend, TryLock,
             LockTimesOut, WriteFrame, ExchangeFails, GiveUp, Worker, ReadFrame, ClientFails,
             ExchangeSucceeds, WriteReply, FlushAndClose, Client, ClientConnects, ClientSends,
             ClientReads, ClientLeaves, Done, mainVars
    <2>4. Served' \subseteq Served
      BY <2>3 DEF Served
    <2> QED
      BY <2>2, <2>4, ServedShrinks DEF RoomOK, QueueCapacity
  <1> QED
    BY <1>1, <1>2, <1>3

LEMMA QueuedAreFew ==
  ASSUME TypeOK, QueueOK
  PROVE  /\ IsFiniteSet({c \in Clients : phase[c] = "queued"})
         /\ Cardinality({c \in Clients : phase[c] = "queued"}) <= Len(queue)
  <1> DEFINE places == 1..Len(queue)
             few == {c \in Clients : phase[c] = "queued"}
  <1>1. queue \in Seq(Clients) /\ Len(queue) \in Nat
    BY DEF TypeOK
  <1>2. few = {queue[i] : i \in places}
    BY <1>1, QueuedClients, RangeEquality
  <1>3. queue \in [places -> few]
    BY <1>1, <1>2
  <1>4. queue \in Surjection(places, few)
    BY <1>2, <1>3 DEF Surjection
  <1>5. IsFiniteSet(places) /\ Cardinality(places) = Len(queue)
    BY <1>1, FS_Interval
  <1> HIDE DEF places, few
  <1>6. IsFiniteSet(few) /\ Cardinality(few) <= Cardinality(places)
    BY <1>4, <1>5, FS_Surjection
  <1> QED
    BY <1>5, <1>6 DEF few

(* When the accept loop comes to create its next instance of the pipe one is *)
(* free (InstanceLeft), for any number of workers and any limit: a full      *)
(* queue and busy workers leave room for the listening instance, and a       *)
(* client too many is closed before the loop comes round.                    *)
THEOREM NextInstanceIsFree == Spec => []InstanceLeft
  <1>1. Init => RoomOK
    <2> SUFFICES ASSUME Init PROVE RoomOK
      OBVIOUS
    <2>1. Served = {} /\ Len(queue) = 0
      BY DEF Init, Served, Serving, Requesters
    <2>2. QueueCapacity \in Nat /\ Workers \in Nat
      BY BrokerConstants DEF QueueCapacity
    <2> QED
      BY <2>1, <2>2, FS_EmptySet DEF RoomOK
  <1>2. IInv /\ RoomOK => InstanceLeft
    <2> SUFFICES ASSUME IInv, RoomOK, main = "looping" PROVE Instances < MaxConnections
      BY DEF InstanceLeft
    <2> DEFINE waiting == {c \in Clients : phase[c] = "queued"}
               both == Served \union waiting
    <2>1. {c \in Clients : phase[c] \in Serving \union {"queued"}} = both
      BY DEF Served
    <2>2. IsFiniteSet(waiting) /\ Cardinality(waiting) <= Len(queue)
      BY QueuedAreFew DEF IInv
    <2>3. IsFiniteSet(Served) /\ Cardinality(Served) <= Workers /\ Len(queue) <= QueueCapacity
      BY DEF RoomOK
    <2> HIDE DEF waiting
    <2>4. /\ IsFiniteSet(both)
          /\ Cardinality(both) = Cardinality(Served) + Cardinality(waiting)
                                   - Cardinality(Served \cap waiting)
      BY <2>2, <2>3, FS_Union
    <2>5. IsFiniteSet(Served \cap waiting)
      BY <2>3, FS_Subset
    <2> HIDE DEF both
    <2>6. PICK s \in Nat, w \in Nat, x \in Nat :
               s = Cardinality(Served) /\ w = Cardinality(waiting) /\ x = Cardinality(Served \cap waiting)
      BY <2>2, <2>3, <2>5, FS_CardinalityType
    <2>7. PICK l \in Nat : l = Len(queue)
      BY DEF IInv, TypeOK
    <2>8. Cardinality(both) = s + w - x /\ s <= Workers /\ w <= l /\ l <= MaxConnections - Workers - 1
      BY <2>2, <2>3, <2>4, <2>6, <2>7 DEF QueueCapacity
    <2>9. s + w - x < MaxConnections
      BY <2>8, BrokerConstants
    <2>10. Instances = Cardinality(both) + 0
      BY <2>1 DEF Instances
    <2>11. Instances = s + w - x
      BY <2>8, <2>10
    <2> QED
      BY <2>9, <2>11
  <1>3. Spec => []RoomOK
    BY <1>1, RoomStep, BrokerInvariant, PTL DEF Spec
  <1> QED
    BY <1>2, <1>3, BrokerInvariant, PTL

-----------------------------------------------------------------------------
(* One exchange at a time.  Before the daemon is ready nobody asks; then the *)
(* holder of the lock has the two pipes to itself, and on them is at most    *)
(* the line it wrote or the answer to it: an exchange that ends otherwise    *)
(* takes the daemon and the pipes with it.                                   *)
HolderOK ==
    /\ holder # None => phase[holder] \in {"writing", "awaiting"}
    /\ \A r \in Requesters : phase[r] \in {"writing", "awaiting"} => r = holder

BeforeReady ==
    /\ holder = None /\ stdin = <<>>
    /\ stdout \in {<<>>, <<"ready">>}
    /\ daemon = "booting" => stdout = <<>>
    /\ \A c \in Clients : phase[c] \notin Serving

LinesOK ==
    IF holder # None /\ phase[holder] = "awaiting"
    THEN \/ stdin = <<>> /\ stdout = <<>>
         \/ stdin = <<holder>> /\ stdout = <<>>
         \/ stdin = <<>> /\ stdout = <<holder>>
    ELSE stdin = <<>> /\ stdout = <<>>

StreamsOK == IF phase[Negotiate] = "none" THEN BeforeReady ELSE daemon # "booting" /\ LinesOK

RepliesOK ==
    /\ \A c \in Clients : phase[c] \in {"replying", "flushing"} => reply[c] = c
    /\ OwnAnswer

ExchangeOK == HolderOK /\ StreamsOK /\ RepliesOK

(* What the main thread does to a connection, and a worker that takes it     *)
(* over, touches no exchange.                                                *)
Accepting == Listen \/ LeaveLoop \/ BackendStopped \/ PushClient \/ ConnectFails \/ Pop

LEMMA AcceptingPhases ==
  ASSUME IInv, Accepting, NEW r \in Requesters
  PROVE  /\ phase[Negotiate] # "none"
         /\ \/ phase'[r] = phase[r]
            \/ /\ r \in Clients
               /\ phase[r] \in {"queued", "listening"}
               /\ phase'[r] \in {"queued", "closed", "reading"}
  <1> USE BrokerConstants DEF IInv
  <1>0. phase \in [Requesters -> Phases] /\ listener \in Clients \union {None}
    BY DEF TypeOK
  <1>1. phase[Negotiate] # "none"
    <2>1. main \in {"looping", "listening"} \/ queue # <<>>
      BY DEF Accepting, Listen, LeaveLoop, BackendStopped, PushClient, ConnectFails, Pop
    <2> QED
      BY <2>1 DEF MainOK
  <1>2. listener # None => phase[listener] = "listening"
    BY DEF MainOK
  <1>3. CASE Listen
    BY <1>1, <1>3 DEF Listen
  <1>4. CASE LeaveLoop \/ BackendStopped
    <2>1. \A c \in Range(queue) : c \in Clients /\ phase[c] = "queued"
      BY QueuedClients
    <2> QED
      BY <1>0, <1>1, <1>2, <1>4, <2>1 DEF LeaveLoop, BackendStopped, Stop, ClosePipes, Requesters, Startup
  <1>5. CASE PushClient
    BY <1>0, <1>1, <1>2, <1>5 DEF PushClient
  <1>6. CASE ConnectFails
    BY <1>0, <1>1, <1>2, <1>6 DEF ConnectFails, ClosePipes, Requesters, Startup
  <1>7. CASE Pop
    <2>1. queue # <<>> /\ queue \in Seq(Clients) /\ phase' = [phase EXCEPT ![Head(queue)] = "reading"]
      BY <1>7 DEF Pop, TypeOK
    <2> PICK c \in Clients : c = Head(queue) /\ c = queue[1] /\ Len(queue) >= 1 /\ Len(queue) \in Nat
      BY <2>1, TailOf
    <2>2. phase[c] = "queued"
      BY DEF QueueOK
    <2> QED
      BY <1>0, <1>1, <2>1, <2>2
  <1> QED
    BY <1>3, <1>4, <1>5, <1>6, <1>7 DEF Accepting

LEMMA HolderKept ==
  ASSUME TypeOK, HolderOK, holder' = holder,
         \A r \in Requesters : phase'[r] = phase[r]
            \/ {phase[r], phase'[r]} \intersect {"writing", "awaiting"} = {}
  PROVE  HolderOK'
  BY BrokerConstants DEF TypeOK, HolderOK

LEMMA StreamsKept ==
  ASSUME TypeOK, StreamsOK, UNCHANGED <<holder, stdin, stdout, daemon>>,
         phase'[Negotiate] = phase[Negotiate],
         \A r \in Requesters : phase'[r] = phase[r]
            \/ /\ {phase[r], phase'[r]} \intersect {"writing", "awaiting"} = {}
               /\ phase[Negotiate] = "none" => phase'[r] \notin Serving
  PROVE  StreamsOK'
  <1>1. LinesOK => LinesOK'
    BY BrokerConstants DEF TypeOK, LinesOK
  <1>2. phase[Negotiate] = "none" /\ BeforeReady => BeforeReady'
    BY DEF BeforeReady, Requesters
  <1> QED
    BY <1>1, <1>2 DEF StreamsOK

LEMMA ServingIsLate ==
  ASSUME TypeOK, MainOK, StreamsOK, NEW r \in Requesters, phase[r] \in Serving
  PROVE  phase[Negotiate] # "none" /\ daemon # "booting" /\ LinesOK
  <1>1. phase[Negotiate] # "none"
    <2>1. CASE r \in Clients
      BY <2>1 DEF StreamsOK, BeforeReady
    <2>2. CASE r = Warm
      BY <2>2 DEF MainOK, Serving
    <2>3. CASE r = Negotiate
      BY <2>3 DEF Serving
    <2> QED
      BY <2>1, <2>2, <2>3 DEF Requesters, Startup
  <1> QED
    BY <1>1 DEF StreamsOK

LEMMA OneLine ==
  ASSUME NEW x
  PROVE  /\ Head(<<x>>) = x /\ Tail(<<x>>) = <<>> /\ <<x>> # <<>>
         /\ Append(<<>>, x) = <<x>> /\ <<>> \o <<x>> = <<x>>
  OBVIOUS

LEMMA HolderStep ==
  ASSUME Split = {}, IInv, ExchangeOK, [Next]_vars
  PROVE  HolderOK'
  <1>0. TypeOK /\ TypeOK'
    BY TypeStep DEF IInv
  <1>q. \A c \in Clients : c \in Requesters /\ c \notin Startup /\ c # Negotiate /\ c # Warm
    BY BrokerConstants DEF Requesters, Startup
  <1> USE BrokerConstants, <1>0, <1>q DEF TypeOK, HolderOK, ExchangeOK
  <1>1. CASE UNCHANGED vars
    BY <1>1 DEF vars, mainVars, pipeVars, backendVars
  <1>2. CASE DaemonReady \/ DaemonDies
    BY <1>2 DEF DaemonReady, DaemonDies, mainVars, pipeVars
  <1>2a. CASE DaemonAnswers
    BY <1>2a DEF DaemonAnswers, mainVars, pipeVars
  <1>3. CASE WaitForReady
    BY <1>3 DEF WaitForReady, mainVars, pipeVars
  <1>4. CASE ReadyTimesOut
    BY <1>4 DEF ReadyTimesOut, Poison, pipeVars
  <1>5. ASSUME NEW r \in Startup, StartupAnswered(r) PROVE HolderOK'
    <2>1. r \in Requesters /\ phase[r] = "awaiting" /\ holder' = None
      BY <1>5 DEF StartupAnswered, TakeLine, Requesters
    <2>2. holder = r
      BY <2>1
    <2>3. \A q \in Requesters : phase'[q] \in {"writing", "awaiting"} => phase[q] \in {"writing", "awaiting"} /\ q # r
      BY <1>5, <2>1 DEF StartupAnswered, Startup
    <2> QED
      BY <2>1, <2>2, <2>3
  <1>6. CASE Accepting
    <2>1. UNCHANGED <<holder, stdin, stdout, daemon>>
      BY <1>6 DEF Accepting, Listen, LeaveLoop, BackendStopped, PushClient, ConnectFails, Pop, backendVars
    <2>2. \A r \in Requesters : phase'[r] = phase[r]
             \/ {phase[r], phase'[r]} \intersect {"writing", "awaiting"} = {}
      BY <1>6, AcceptingPhases
    <2>3. phase'[Negotiate] = phase[Negotiate] /\ phase[Negotiate] # "none"
      BY <1>6, AcceptingPhases DEF Requesters, Startup
    <2> QED
      BY <2>1, <2>2, <2>3, HolderKept DEF ExchangeOK
  <1>9. CASE Exit
    BY <1>9 DEF Exit, Poison, pipeVars
  <1>11. ASSUME NEW r \in Requesters, TryLock(r) \/ LockTimesOut(r) PROVE HolderOK'
    <2>1. CASE TryLock(r) /\ Running
      <3>1. holder = None /\ holder' = r /\ phase' = [phase EXCEPT ![r] = "writing"]
        BY <2>1 DEF TryLock
      <3>2. phase'[r] = "writing" /\ \A q \in Requesters : q # r => phase'[q] = phase[q]
        BY <3>1
      <3>3. \A q \in Requesters : phase[q] \notin {"writing", "awaiting"}
        BY <3>1 DEF Requesters, Startup
      <3> QED
        BY <3>1, <3>2, <3>3
    <2>2. CASE LockTimesOut(r) \/ (TryLock(r) /\ ~Running)
      <3>1. holder' = holder /\ phase[r] = "locking" /\ phase' = [phase EXCEPT ![r] = "closed"]
        BY <2>2 DEF TryLock, LockTimesOut, GiveUp, backendVars
      <3>2. \A q \in Requesters : phase'[q] = phase[q]
               \/ {phase[q], phase'[q]} \intersect {"writing", "awaiting"} = {}
        BY <3>1
      <3> QED
        BY <3>1, <3>2, HolderKept
    <2>3. TryLock(r) \/ LockTimesOut(r)
      BY <1>11
    <2> HIDE DEF HolderOK, TypeOK, ExchangeOK
    <2> QED
      BY <2>1, <2>2, <2>3
  <1>12. ASSUME NEW r \in Requesters, WriteFrame(r) PROVE HolderOK'
    BY <1>12 DEF WriteFrame, LinesOf, mainVars, pipeVars
  <1>13. ASSUME NEW r \in Requesters, ExchangeFails(r) PROVE HolderOK'
    BY <1>13 DEF ExchangeFails, Poison, GiveUp, mainVars, pipeVars
  <1>14. ASSUME NEW c \in Clients, ExchangeSucceeds(c) PROVE HolderOK'
    BY <1>14 DEF ExchangeSucceeds, TakeLine, mainVars, pipeVars
  <1>15. ASSUME NEW c \in Clients, ReadFrame(c) \/ ClientFails(c) \/ WriteReply(c) \/ FlushAndClose(c)
         PROVE  HolderOK'
    BY <1>15 DEF ReadFrame, ClientFails, WriteReply, FlushAndClose, mainVars, pipeVars, backendVars
  <1>16. ASSUME NEW c \in Clients, Client(c) PROVE HolderOK'
    BY <1>16 DEF Client, ClientConnects, ClientSends, ClientReads, ClientLeaves, mainVars, backendVars
  <1> QED
    BY <1>1, <1>2, <1>2a, <1>3, <1>4, <1>5, <1>6, <1>9, <1>11, <1>12, <1>13, <1>14, <1>15, <1>16
    DEF Next, Done, Daemon, StartupStep, MainThread, Accepting, Backend, Worker

LEMMA StreamsStep ==
  ASSUME Split = {}, IInv, ExchangeOK, [Next]_vars
  PROVE  StreamsOK'
  <1>0. TypeOK /\ TypeOK'
    BY TypeStep DEF IInv
  <1>q. \A c \in Clients : c \in Requesters /\ c \notin Startup /\ c # Negotiate /\ c # Warm
    BY BrokerConstants DEF Requesters, Startup
  <1> USE BrokerConstants, <1>0, <1>q DEF IInv, TypeOK, MainOK, HolderOK, BeforeReady, LinesOK, StreamsOK, ExchangeOK, Serving
  <1>1. CASE UNCHANGED vars
    BY <1>1 DEF vars, mainVars, pipeVars, backendVars
  <1>2. CASE DaemonReady \/ DaemonDies
    <2>1. CASE DaemonReady
      <3>1. phase[Negotiate] = "none" /\ stdout = <<>>
        BY <2>1 DEF DaemonReady
      <3>2. stdout' = <<"ready">>
        BY <2>1, <3>1, OneLine DEF DaemonReady
      <3>3. daemon' = "up" /\ UNCHANGED <<phase, holder, stdin>>
        BY <2>1 DEF DaemonReady
      <3> QED
        BY <3>1, <3>2, <3>3
    <2>2. CASE DaemonDies
      <3>1. daemon' = "dead" /\ stdin' = <<>> /\ UNCHANGED <<phase, holder, stdout>>
        BY <2>2 DEF DaemonDies
      <3> QED
        BY <3>1
    <2> QED
      BY <1>2, <2>1, <2>2
  <1>2a. CASE DaemonAnswers
    <2>1. stdin # <<>> /\ stdin' = Tail(stdin) /\ stdout' = Append(stdout, Head(stdin))
          /\ UNCHANGED <<phase, holder, daemon>>
      BY <1>2a DEF DaemonAnswers
    <2>2. phase[Negotiate] # "none" /\ daemon # "booting"
      BY <2>1
    <2>3. holder # None /\ phase[holder] = "awaiting" /\ stdin = <<holder>> /\ stdout = <<>>
      BY <2>1, <2>2
    <2>4. stdin' = <<>> /\ stdout' = <<holder>>
      BY <2>1, <2>3, OneLine
    <2> QED
      BY <2>1, <2>2, <2>3, <2>4
  <1>3. CASE WaitForReady
    BY <1>3 DEF WaitForReady, mainVars, pipeVars
  <1>4. CASE ReadyTimesOut
    BY <1>4 DEF ReadyTimesOut, Poison, pipeVars
  <1>5. ASSUME NEW r \in Startup, StartupAnswered(r) PROVE StreamsOK'
    BY <1>5 DEF StartupAnswered, TakeLine, pipeVars, Startup
  <1>6. CASE Accepting
    <2>1. UNCHANGED <<holder, stdin, stdout, daemon>>
      BY <1>6 DEF Accepting, Listen, LeaveLoop, BackendStopped, PushClient, ConnectFails, Pop, backendVars
    <2>2. \A r \in Requesters : phase'[r] = phase[r]
             \/ {phase[r], phase'[r]} \intersect {"writing", "awaiting"} = {}
      BY <1>6, AcceptingPhases
    <2>3. phase'[Negotiate] = phase[Negotiate] /\ phase[Negotiate] # "none"
      BY <1>6, AcceptingPhases DEF Requesters, Startup
    <2> QED
      BY <2>1, <2>2, <2>3, StreamsKept DEF ExchangeOK
  <1>9. CASE Exit
    BY <1>9 DEF Exit, Poison, pipeVars
  <1>11. ASSUME NEW r \in Requesters, TryLock(r) \/ LockTimesOut(r) PROVE StreamsOK'
    <2>1. phase[r] = "locking" /\ UNCHANGED <<daemon, stdin, stdout>>
      BY <1>11 DEF TryLock, LockTimesOut, backendVars
    <2>2. phase[Negotiate] # "none" /\ daemon # "booting" /\ LinesOK
      BY <2>1, ServingIsLate DEF IInv
    <2>3. CASE TryLock(r) /\ Running
      <3>1. holder = None /\ holder' = r /\ phase' = [phase EXCEPT ![r] = "writing"]
        BY <2>3 DEF TryLock
      <3>2. stdin = <<>> /\ stdout = <<>>
        BY <2>2, <3>1
      <3> QED
        BY <2>1, <2>2, <3>1, <3>2
    <2>4. CASE LockTimesOut(r) \/ (TryLock(r) /\ ~Running)
      <3>1. holder' = holder /\ phase' = [phase EXCEPT ![r] = "closed"]
        BY <2>4 DEF TryLock, LockTimesOut, GiveUp, backendVars
      <3>2. holder # r
        <4>1. r # None
          BY DEF Requesters, Startup
        <4> QED
          BY <2>1, <4>1
      <3> QED
        BY <2>1, <2>2, <3>1, <3>2
    <2>5. TryLock(r) \/ LockTimesOut(r)
      BY <1>11
    <2> HIDE DEF StreamsOK, HolderOK, TypeOK, ExchangeOK, IInv, MainOK, LinesOK, BeforeReady
    <2> QED
      BY <2>3, <2>4, <2>5
  <1>12. ASSUME NEW r \in Requesters, WriteFrame(r) PROVE StreamsOK'
    <2>1. phase[r] = "writing" /\ phase' = [phase EXCEPT ![r] = "awaiting"]
          /\ UNCHANGED <<daemon, stdout, holder>> /\ stdin' = stdin \o <<r>>
      BY <1>12 DEF WriteFrame, LinesOf
    <2>2. phase[Negotiate] # "none" /\ daemon # "booting" /\ LinesOK
      BY <2>1, ServingIsLate DEF IInv
    <2>3. holder = r /\ stdin = <<>> /\ stdout = <<>>
      BY <2>1, <2>2
    <2>4. stdin' = <<r>> /\ stdout' = <<>> /\ holder' = r /\ daemon' # "booting"
      BY <2>1, <2>2, <2>3, OneLine
    <2>5. phase'[Negotiate] # "none" /\ phase'[r] = "awaiting" /\ r # None
      BY <2>1, <2>2 DEF Requesters, Startup
    <2> QED
      BY <2>4, <2>5
  <1>13. ASSUME NEW r \in Requesters, ExchangeFails(r) PROVE StreamsOK'
    BY <1>13 DEF ExchangeFails, Poison, GiveUp, mainVars, pipeVars
  <1>14. ASSUME NEW c \in Clients, ExchangeSucceeds(c) PROVE StreamsOK'
    BY <1>14 DEF ExchangeSucceeds, TakeLine, mainVars, pipeVars
  <1>15. ASSUME NEW c \in Clients, ReadFrame(c) \/ ClientFails(c) \/ WriteReply(c) \/ FlushAndClose(c)
         PROVE  StreamsOK'
    <2>1. phase[c] \in Serving /\ UNCHANGED <<holder, stdin, stdout, daemon>>
      BY <1>15 DEF ReadFrame, ClientFails, WriteReply, FlushAndClose, backendVars
    <2>2. phase[Negotiate] # "none"
      BY <2>1, ServingIsLate DEF IInv
    <2>3. \E p \in {"locking", "closed", "flushing"} : phase' = [phase EXCEPT ![c] = p]
      BY <1>15 DEF ReadFrame, ClientFails, WriteReply, FlushAndClose
    <2>4. phase[c] \notin {"writing", "awaiting"}
      BY <1>15 DEF ReadFrame, ClientFails, WriteReply, FlushAndClose
    <2>5. phase'[Negotiate] = phase[Negotiate]
          /\ \A q \in Requesters : phase'[q] = phase[q]
                \/ {phase[q], phase'[q]} \intersect {"writing", "awaiting"} = {}
      BY <2>3, <2>4
    <2> QED
      BY <2>1, <2>2, <2>5, StreamsKept
  <1>16. ASSUME NEW c \in Clients, Client(c) PROVE StreamsOK'
    <2>1. UNCHANGED <<holder, stdin, stdout, daemon>>
      BY <1>16 DEF Client, ClientConnects, ClientSends, ClientReads, ClientLeaves, backendVars
    <2>2. phase' = phase \/ (phase[c] = "none" /\ phase' = [phase EXCEPT ![c] = "listening"])
      <3>1. CASE ClientConnects(c)
        BY <3>1 DEF ClientConnects
      <3>2. CASE ClientSends(c) \/ ClientReads(c) \/ ClientLeaves(c)
        BY <3>2 DEF ClientSends, ClientReads, ClientLeaves
      <3> HIDE DEF StreamsOK, HolderOK, TypeOK, ExchangeOK, IInv, MainOK, LinesOK, BeforeReady
      <3> QED
        BY <1>16, <3>1, <3>2 DEF Client
    <2>3. phase'[Negotiate] = phase[Negotiate]
          /\ \A q \in Requesters : phase'[q] = phase[q]
                \/ /\ {phase[q], phase'[q]} \intersect {"writing", "awaiting"} = {}
                   /\ phase'[q] \notin Serving
      <3>1. CASE phase' = phase
        BY <3>1
      <3>2. CASE phase[c] = "none" /\ phase' = [phase EXCEPT ![c] = "listening"]
        <4>1. phase'[c] = "listening" /\ \A q \in Requesters \ {c} : phase'[q] = phase[q]
          BY <3>2
        <4> QED
          BY <3>2, <4>1 DEF Requesters, Startup
      <3> QED
        BY <2>2, <3>1, <3>2
    <2> QED
      BY <2>1, <2>3, StreamsKept
  <1> QED
    BY <1>1, <1>2, <1>2a, <1>3, <1>4, <1>5, <1>6, <1>9, <1>11, <1>12, <1>13, <1>14, <1>15, <1>16
    DEF Next, Done, Daemon, StartupStep, MainThread, Accepting, Backend, Worker

LEMMA RepliesStep ==
  ASSUME Split = {}, IInv, ExchangeOK, [Next]_vars
  PROVE  RepliesOK'
  <1>0. TypeOK /\ TypeOK'
    BY TypeStep DEF IInv
  <1>q. \A c \in Clients : c \in Requesters /\ c \notin Startup /\ c # Negotiate /\ c # Warm
    BY BrokerConstants DEF Requesters, Startup
  <1> USE BrokerConstants, <1>0, <1>q DEF TypeOK, RepliesOK, ExchangeOK, OwnAnswer
  <1>1. CASE UNCHANGED vars
    BY <1>1 DEF vars, mainVars, pipeVars, backendVars
  <1>2. CASE DaemonReady \/ DaemonDies
    BY <1>2 DEF DaemonReady, DaemonDies, mainVars, pipeVars
  <1>2a. CASE DaemonAnswers
    BY <1>2a DEF DaemonAnswers, mainVars, pipeVars
  <1>3. CASE WaitForReady
    BY <1>3 DEF WaitForReady, mainVars, pipeVars
  <1>4. CASE ReadyTimesOut
    BY <1>4 DEF ReadyTimesOut, Poison, pipeVars
  <1>5. ASSUME NEW r \in Startup, StartupAnswered(r) PROVE RepliesOK'
    BY <1>5 DEF StartupAnswered, TakeLine, pipeVars, Startup
  <1>6. CASE Listen \/ LeaveLoop \/ BackendStopped
    BY <1>6 DEF Listen, LeaveLoop, BackendStopped, Stop, ClosePipes, pipeVars, backendVars
  <1>7. CASE PushClient
    BY <1>7 DEF PushClient, pipeVars, backendVars
  <1>8. CASE ConnectFails
    BY <1>8 DEF ConnectFails, ClosePipes, pipeVars, backendVars
  <1>9. CASE Exit
    BY <1>9 DEF Exit, Poison, pipeVars
  <1>10. CASE Pop
    BY <1>10 DEF Pop, pipeVars, backendVars
  <1>11. ASSUME NEW r \in Requesters, TryLock(r) \/ LockTimesOut(r) PROVE RepliesOK'
    BY <1>11 DEF TryLock, LockTimesOut, GiveUp, mainVars, pipeVars, backendVars
  <1>12. ASSUME NEW r \in Requesters, WriteFrame(r) PROVE RepliesOK'
    BY <1>12 DEF WriteFrame, LinesOf, mainVars, pipeVars
  <1>13. ASSUME NEW r \in Requesters, ExchangeFails(r) PROVE RepliesOK'
    BY <1>13 DEF ExchangeFails, Poison, GiveUp, mainVars, pipeVars
  <1>14. ASSUME NEW c \in Clients, ExchangeSucceeds(c) PROVE RepliesOK'
    <2>1. phase[c] = "awaiting" /\ stdout # <<>> /\ answer' = answer
          /\ reply' = [reply EXCEPT ![c] = Head(stdout)] /\ phase' = [phase EXCEPT ![c] = "replying"]
      BY <1>14 DEF ExchangeSucceeds, TakeLine, pipeVars
    <2>2. holder = c
      BY <2>1 DEF HolderOK
    <2>3. LinesOK
      BY <2>1, ServingIsLate DEF IInv, Serving
    <2>4. stdout = <<c>>
      BY <2>1, <2>2, <2>3 DEF LinesOK
    <2>5. Head(stdout) = c
      BY <2>4, OneLine
    <2> QED
      BY <2>1, <2>5
  <1>15. ASSUME NEW c \in Clients, ReadFrame(c) \/ ClientFails(c) \/ WriteReply(c) \/ FlushAndClose(c)
         PROVE  RepliesOK'
    BY <1>15 DEF ReadFrame, ClientFails, WriteReply, FlushAndClose, mainVars, pipeVars, backendVars
  <1>16. ASSUME NEW c \in Clients, Client(c) PROVE RepliesOK'
    BY <1>16 DEF Client, ClientConnects, ClientSends, ClientReads, ClientLeaves, mainVars, backendVars
  <1> QED
    BY <1>1, <1>2, <1>2a, <1>3, <1>4, <1>5, <1>6, <1>7, <1>8, <1>9, <1>10, <1>11, <1>12, <1>13, <1>14, <1>15, <1>16
    DEF Next, Done, Daemon, StartupStep, MainThread, Backend, Worker

LEMMA InitExchange == Init => ExchangeOK
  <1>1. ASSUME Init PROVE ExchangeOK
    <2>1. phase[Negotiate] = "none" /\ \A r \in Requesters : phase[r] = "none"
      BY <1>1 DEF Init, Requesters, Startup
    <2> QED
      BY <1>1, <2>1 DEF Init, ExchangeOK, HolderOK, StreamsOK, BeforeReady, RepliesOK, OwnAnswer,
         Requesters, Serving
  <1> QED
    BY <1>1

(* With frames that readline takes for one line each, an answer that a       *)
(* client reads is the answer to its own frame, whoever was late, gave up or *)
(* died before, for any number of clients and workers.                       *)
THEOREM AnswersAreOwn ==
  ASSUME Split = {}
  PROVE  Spec => []OwnAnswer
  <1>1. IInv /\ IInv' /\ ExchangeOK /\ [Next]_vars => ExchangeOK'
    BY HolderStep, StreamsStep, RepliesStep DEF ExchangeOK
  <1>2. ExchangeOK => OwnAnswer
    BY DEF ExchangeOK, RepliesOK
  <1> QED
    BY <1>1, <1>2, InitExchange, BrokerInvariant, PTL DEF Spec
===============================================================================
