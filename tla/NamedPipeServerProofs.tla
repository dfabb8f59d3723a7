------------------------- MODULE NamedPipeServerProofs -------------------------
(***************************************************************************)
(* Proofs about namedPipeServer.ts: the connections (NamedPipeServer), for *)
(* any number of sockets, connections, pending lines and lines, and the    *)
(* frame decoder (NamedPipeFrames), for any limit and any stream.          *)
(***************************************************************************)
EXTENDS NamedPipeServer, NamedPipeFrames, FiniteSetTheorems, SequenceTheorems,
        WellFoundedInduction, TLAPS

\* Of one connection, given its socket s, queue q, accepted lines a, handled lines
\* h and frames w.  The jobs of a live queue are the last lines accepted, so the
\* head is the line whose turn it is, both for the handler and for the client.
QueueOK(s, q, a, h, w) ==
    /\ q.pending = Len(q.jobs)
    /\ q.stage # "waiting" => q.jobs # <<>>
    /\ q.terminal # "none" => q.cancelPending
    /\ s = "absent" => ~q.cancelPending
    /\ \A i \in 1..Len(w) : w[i] = i \/ (w[i] = Terminal /\ i = Len(w))
    /\ w # <<>> /\ w[Len(w)] = Terminal => q.terminal \in {"writing", "done"}
    /\ s \in {"absent", "open"} /\ ~q.cancelPending =>
           /\ \A i \in 1..Len(q.jobs) : q.jobs[i] = a - Len(q.jobs) + i
           /\ Len(q.jobs) <= a
           /\ Len(w) = a - Len(q.jobs) + (IF q.stage = "writing" THEN 1 ELSE 0)
           /\ \A i \in 1..Len(w) : w[i] = i
           /\ Len(h) = a - Len(q.jobs) + (IF q.stage = "waiting" THEN 0 ELSE 1)
           /\ \A i \in 1..Len(h) : h[i] = i

QueuesOK == \A c \in Conn : QueueOK(socket[c], queue[c], accepted[c], handled[c], wire[c])

\* A queue that is not in the table, and any queue once close() was called, can
\* start no job.
NothingToStart(c) == queue[c].cancelPending \/ queue[c].jobs = <<>>

TableOK ==
    /\ IsFiniteSet(connections)
    /\ Cardinality(connections) <= MaxConnections
    /\ \A c \in Conn : socket[c] = "open" => c \in connections
    /\ \A c \in Conn : socket[c] \in {"absent", "closed"} => c \notin connections
    /\ \A c \in Conn : socket[c] = "absent" => queue[c].jobs = <<>>
    /\ \A c \in Conn : c \notin connections => NothingToStart(c)

CloseOK ==
    /\ phase # "serving" =>
           \A c \in Conn : socket[c] # "open" /\ NothingToStart(c)
    /\ phase \in {"draining", "stopped"} =>
           \A c \in Conn : socket[c] \in {"absent", "closed"}
    /\ phase = "stopped" => \A c \in responseQueues : Drained(queue[c])

IInv == TypeOK /\ QueuesOK /\ TableOK /\ CloseOK

-----------------------------------------------------------------------------
(* One queue. *)

LEMMA JobDoneType ==
  ASSUME NEW q \in QueueType, q.jobs # <<>>
  PROVE  /\ JobDone(q) \in QueueType
         /\ JobDone(q).jobs = Tail(q.jobs)
         /\ Len(JobDone(q).jobs) = Len(q.jobs) - 1
         /\ \A i \in 1..(Len(q.jobs) - 1) : JobDone(q).jobs[i] = q.jobs[i + 1]
         /\ JobDone(q).stage = "waiting"
         /\ JobDone(q).accepting = q.accepting
         /\ JobDone(q).cancelPending = q.cancelPending
         /\ JobDone(q).terminal = q.terminal
         /\ q.pending = Len(q.jobs) => JobDone(q).pending = Len(q.jobs) - 1
  <1> USE PipeAssumption
  <1>1. q.jobs \in Seq(1..MaxLines) /\ q.pending \in 0..MaxPending
    BY DEF QueueType
  <1>2. /\ Tail(q.jobs) \in Seq(1..MaxLines)
        /\ Len(Tail(q.jobs)) = Len(q.jobs) - 1
        /\ \A i \in 1..(Len(q.jobs) - 1) : Tail(q.jobs)[i] = q.jobs[i + 1]
        /\ Len(q.jobs) > 0
    <2> DEFINE j == q.jobs
    <2>1. j \in Seq(1..MaxLines) /\ j # <<>>
      BY <1>1
    <2> HIDE DEF j
    <2>2. /\ Tail(j) \in Seq(1..MaxLines)
          /\ Len(Tail(j)) = Len(j) - 1
          /\ \A i \in 1..(Len(j) - 1) : Tail(j)[i] = j[i + 1]
          /\ Len(j) > 0
      BY <2>1
    <2> QED
      BY <2>2 DEF j
  <1>3. (IF q.pending > 0 THEN q.pending - 1 ELSE 0) \in 0..MaxPending
    BY <1>1
  <1>4. JobDone(q) \in QueueType
    BY <1>2, <1>3 DEF JobDone, QueueType
  <1> QED
    BY <1>1, <1>2, <1>4 DEF JobDone, QueueType

LEMMA CancelledType ==
  ASSUME NEW q \in QueueType
  PROVE  /\ Cancelled(q) \in QueueType
         /\ Cancelled(q).jobs = q.jobs
         /\ Cancelled(q).stage = q.stage
         /\ Cancelled(q).pending = q.pending
         /\ Cancelled(q).cancelPending
         /\ Cancelled(q).terminal = q.terminal
         /\ Terminated(q) \in QueueType
         /\ Terminated(q).jobs = q.jobs
         /\ Terminated(q).stage = q.stage
         /\ Terminated(q).pending = q.pending
         /\ Terminated(q).cancelPending
         /\ Terminated(q).terminal = "waiting"
  BY DEF Cancelled, Terminated, QueueType

LEMMA InitIInv == Init => IInv
  <1> SUFFICES ASSUME Init PROVE IInv
    OBVIOUS
  <1> USE PipeAssumption
  <1>1. NewQueue \in QueueType
    BY DEF NewQueue, QueueType
  <1>2. TypeOK
    BY <1>1 DEF Init, TypeOK
  <1>3. QueuesOK
    BY DEF Init, QueuesOK, QueueOK, NewQueue
  <1>4. IsFiniteSet({}) /\ Cardinality({}) = 0
    BY FS_EmptySet
  <1>5. TableOK
    BY <1>4 DEF Init, TableOK, NewQueue, NothingToStart
  <1>6. CloseOK
    BY DEF Init, CloseOK
  <1> QED
    BY <1>2, <1>3, <1>5, <1>6 DEF IInv

\* A step changes what belongs to connection c, and nothing of the others.
OnlyOf(c) ==
    /\ socket' = [socket EXCEPT ![c] = socket'[c]]
    /\ queue' = [queue EXCEPT ![c] = queue'[c]]
    /\ accepted' = [accepted EXCEPT ![c] = accepted'[c]]
    /\ handled' = [handled EXCEPT ![c] = handled'[c]]
    /\ wire' = [wire EXCEPT ![c] = wire'[c]]
    /\ UNCHANGED <<phase, responseQueues>>

ConnType(c) ==
    /\ socket[c] \in {"absent", "open", "destroyed", "closed"}
    /\ queue[c] \in QueueType
    /\ accepted[c] \in 0..MaxLines
    /\ handled[c] \in Seq(1..MaxLines)
    /\ wire[c] \in Seq(0..MaxLines)

LEMMA OthersUnchanged ==
  ASSUME TypeOK, NEW c \in Conn, OnlyOf(c)
  PROVE  \A d \in Conn \ {c} :
             /\ socket'[d] = socket[d] /\ queue'[d] = queue[d]
             /\ accepted'[d] = accepted[d] /\ handled'[d] = handled[d]
             /\ wire'[d] = wire[d]
  BY DEF TypeOK, OnlyOf

LEMMA TypeStep ==
  ASSUME TypeOK, NEW c \in Conn, OnlyOf(c), ConnType(c)', connections' \subseteq Conn
  PROVE  TypeOK'
  BY DEF TypeOK, ConnType, OnlyOf

LEMMA QueuesStep ==
  ASSUME TypeOK, QueuesOK, NEW c \in Conn, OnlyOf(c),
         QueueOK(socket'[c], queue'[c], accepted'[c], handled'[c], wire'[c])
  PROVE  QueuesOK'
  BY OthersUnchanged DEF QueuesOK

\* A step of one connection keeps the table and close() as they are, if it happens
\* on an open socket, or else opens none and adds no job.
LEMMA ConnStep ==
  ASSUME IInv, NEW c \in Conn, OnlyOf(c), UNCHANGED connections,
         ConnType(c)',
         QueueOK(socket'[c], queue'[c], accepted'[c], handled'[c], wire'[c]),
         \/ socket[c] = "open" /\ socket'[c] = "open"
         \/ /\ socket'[c] = socket[c] \/ (socket[c] = "open" /\ socket'[c] = "destroyed")
            /\ NothingToStart(c) => NothingToStart(c)'
            /\ queue[c].jobs = <<>> => queue'[c].jobs = <<>>
            /\ Drained(queue[c]) => Drained(queue'[c])
  PROVE  IInv'
  <1>1. TypeOK' /\ QueuesOK'
    BY TypeStep, QueuesStep DEF IInv, TypeOK
  <1>2. \A d \in Conn \ {c} : socket'[d] = socket[d] /\ queue'[d] = queue[d]
    BY OthersUnchanged DEF IInv
  <1>3. UNCHANGED <<phase, connections, responseQueues>>
    BY DEF OnlyOf
  <1>4. TableOK'
    BY <1>2, <1>3 DEF IInv, TableOK, NothingToStart
  <1>5. CloseOK'
    BY <1>2, <1>3 DEF IInv, TypeOK, CloseOK, NothingToStart
  <1> QED
    BY <1>1, <1>4, <1>5 DEF IInv

\* What the steps of a connection find.
LEMMA ConnFacts ==
  ASSUME IInv, NEW c \in Conn
  PROVE  /\ ConnType(c)
         /\ QueueOK(socket[c], queue[c], accepted[c], handled[c], wire[c])
         /\ queue[c].jobs \in Seq(1..MaxLines)
         /\ Len(queue[c].jobs) \in Nat /\ Len(wire[c]) \in Nat /\ Len(handled[c]) \in Nat
         /\ queue[c].jobs # <<>> =>
                /\ Len(queue[c].jobs) > 0
                /\ Head(queue[c].jobs) \in 1..MaxLines
                /\ Head(queue[c].jobs) = queue[c].jobs[1]
                /\ socket[c] # "absent"
  <1>1. /\ ConnType(c)
        /\ QueueOK(socket[c], queue[c], accepted[c], handled[c], wire[c])
        /\ queue[c].jobs # <<>> => socket[c] # "absent"
    BY DEF IInv, TypeOK, ConnType, QueuesOK, TableOK
  <1>2. queue[c].jobs \in Seq(1..MaxLines)
    BY <1>1 DEF ConnType, QueueType
  <1>3. handled[c] \in Seq(1..MaxLines) /\ wire[c] \in Seq(0..MaxLines)
    BY <1>1 DEF ConnType
  <1>4. \A j \in Seq(1..MaxLines) :
            j # <<>> => Len(j) > 0 /\ Head(j) \in 1..MaxLines /\ Head(j) = j[1]
    <2> SUFFICES ASSUME NEW j \in Seq(1..MaxLines), j # <<>>
                 PROVE  Len(j) > 0 /\ Head(j) \in 1..MaxLines /\ Head(j) = j[1]
      OBVIOUS
    <2>1. Len(j) \in Nat \ {0}
      BY EmptySeq
    <2>2. Head(j) \in 1..MaxLines
      BY HeadTailProperties
    <2>3. Head(j) = j[1]
      OBVIOUS
    <2> QED
      BY <2>1, <2>2, <2>3
  <1> QED
    BY <1>1, <1>2, <1>3, <1>4

-----------------------------------------------------------------------------
(* The steps of one connection. *)

LEMMA StartJobStep ==
  ASSUME IInv, NEW c \in Conn, StartJob(c)
  PROVE  IInv'
  <1> DEFINE q == queue[c]
  <1>1. /\ ConnType(c) /\ QueueOK(socket[c], q, accepted[c], handled[c], wire[c])
        /\ q.jobs # <<>> /\ q.stage = "waiting" /\ q \in QueueType
        /\ Len(q.jobs) \in Nat /\ Len(q.jobs) > 0 /\ socket[c] # "absent"
        /\ Len(handled[c]) \in Nat /\ Len(wire[c]) \in Nat
        /\ Head(q.jobs) \in 1..MaxLines /\ Head(q.jobs) = q.jobs[1]
    BY ConnFacts DEF StartJob, ConnType
  <1>2. CASE q.cancelPending
    <2>1. /\ OnlyOf(c) /\ UNCHANGED connections
          /\ socket'[c] = socket[c] /\ queue'[c] = JobDone(q) /\ accepted'[c] = accepted[c]
          /\ handled'[c] = handled[c] /\ wire'[c] = wire[c]
      BY <1>2 DEF StartJob, IInv, TypeOK, OnlyOf
    <2>2. ConnType(c)'
      BY <1>1, <2>1, JobDoneType DEF ConnType
    <2>3. QueueOK(socket'[c], queue'[c], accepted'[c], handled'[c], wire'[c])
      BY <1>1, <1>2, <2>1, JobDoneType DEF QueueOK
    <2>4. /\ NothingToStart(c)' /\ (Drained(q) => Drained(queue'[c]))
      BY <1>1, <1>2, <2>1, JobDoneType DEF NothingToStart, Drained
    <2> QED
      BY <1>1, <2>1, <2>2, <2>3, <2>4, ConnStep
  <1>3. CASE ~q.cancelPending
    <2> DEFINE r == [q EXCEPT !.stage = "handling"]
               h == Append(handled[c], Head(q.jobs))
    <2>1. /\ r \in QueueType /\ r.jobs = q.jobs /\ r.stage = "handling"
          /\ r.pending = q.pending /\ r.cancelPending = q.cancelPending
          /\ r.terminal = q.terminal
      BY <1>1 DEF QueueType
    <2>2. /\ h \in Seq(1..MaxLines) /\ Len(h) = Len(handled[c]) + 1
          /\ \A i \in 1..Len(handled[c]) : h[i] = handled[c][i]
          /\ h[Len(handled[c]) + 1] = q.jobs[1]
      BY <1>1, AppendProperties DEF ConnType
    <2>3. /\ OnlyOf(c) /\ UNCHANGED connections
          /\ socket'[c] = socket[c] /\ queue'[c] = r /\ accepted'[c] = accepted[c]
          /\ handled'[c] = h /\ wire'[c] = wire[c]
      BY <1>3 DEF StartJob, IInv, TypeOK, OnlyOf
    <2> HIDE DEF r, h
    <2>4. ConnType(c)'
      BY <1>1, <2>1, <2>2, <2>3 DEF ConnType
    <2>5. QueueOK(socket[c], r, accepted[c], h, wire[c])
      <3>1. accepted[c] \in Nat
        BY <1>1 DEF ConnType
      <3>2. ASSUME socket[c] \in {"absent", "open"}
            PROVE  /\ Len(h) = accepted[c] - Len(r.jobs) + 1
                   /\ \A i \in 1..Len(h) : h[i] = i
        <4>1. /\ \A i \in 1..Len(q.jobs) : q.jobs[i] = accepted[c] - Len(q.jobs) + i
              /\ Len(handled[c]) = accepted[c] - Len(q.jobs)
              /\ \A i \in 1..Len(handled[c]) : handled[c][i] = i
          BY <1>1, <1>3, <3>1, <3>2 DEF QueueOK
        <4>2. q.jobs[1] = Len(handled[c]) + 1
          BY <1>1, <3>1, <4>1
        <4>3. Len(h) = accepted[c] - Len(r.jobs) + 1
          BY <1>1, <2>1, <2>2, <3>1, <4>1
        <4>4. ASSUME NEW i \in 1..Len(h) PROVE h[i] = i
          <5>1. i \in 1..Len(handled[c]) \/ i = Len(handled[c]) + 1
            BY <1>1, <2>2
          <5>2. h[Len(handled[c]) + 1] = Len(handled[c]) + 1
            BY <2>2, <4>2
          <5>3. i \in 1..Len(handled[c]) => h[i] = i
            BY <2>2, <4>1
          <5> QED
            BY <5>1, <5>2, <5>3
        <4> QED
          BY <4>3, <4>4
      <3> QED
        BY <1>1, <1>3, <2>1, <3>1, <3>2 DEF QueueOK
    <2>6. ~NothingToStart(c) /\ ~Drained(q)
      BY <1>1, <1>3 DEF NothingToStart, Drained
    <2> QED
      BY <1>1, <2>3, <2>4, <2>5, <2>6, ConnStep
  <1> QED
    BY <1>2, <1>3

LEMMA HandlerSettlesStep ==
  ASSUME IInv, NEW c \in Conn, HandlerSettles(c)
  PROVE  IInv'
  <1> DEFINE q == queue[c]
  <1>1. /\ ConnType(c) /\ QueueOK(socket[c], q, accepted[c], handled[c], wire[c])
        /\ q.stage = "handling" /\ q \in QueueType
        /\ Len(q.jobs) \in Nat
        /\ Len(handled[c]) \in Nat /\ Len(wire[c]) \in Nat /\ accepted[c] \in Nat
    BY ConnFacts DEF HandlerSettles, ConnType
  <1>2. q.jobs # <<>>
    BY <1>1 DEF QueueOK
  <1>3. /\ Len(q.jobs) > 0 /\ Head(q.jobs) \in 1..MaxLines /\ Head(q.jobs) = q.jobs[1]
        /\ socket[c] # "absent"
    BY <1>2, ConnFacts
  <1>4. CASE q.cancelPending \/ ~Writable(c)
    <2>1. /\ OnlyOf(c) /\ UNCHANGED connections
          /\ socket'[c] = socket[c] /\ queue'[c] = JobDone(q) /\ accepted'[c] = accepted[c]
          /\ handled'[c] = handled[c] /\ wire'[c] = wire[c]
      BY <1>4 DEF HandlerSettles, IInv, TypeOK, OnlyOf
    <2>2. ConnType(c)'
      BY <1>1, <1>2, <2>1, JobDoneType DEF ConnType
    <2>3. QueueOK(socket'[c], queue'[c], accepted'[c], handled'[c], wire'[c])
      <3> DEFINE r == JobDone(q)
      <3>1. /\ r.stage = "waiting" /\ r.pending = Len(r.jobs)
            /\ r.cancelPending = q.cancelPending /\ r.terminal = q.terminal
        BY <1>1, <1>2, JobDoneType DEF QueueOK
      <3> HIDE DEF r
      <3>2. socket[c] \in {"absent", "open"} => q.cancelPending
        BY <1>3, <1>4 DEF Writable
      <3>3. QueueOK(socket[c], r, accepted[c], handled[c], wire[c])
        BY <1>1, <1>3, <3>1, <3>2 DEF QueueOK
      <3> QED
        BY <2>1, <3>3 DEF r
    <2>4. /\ (NothingToStart(c) => NothingToStart(c)') /\ ~Drained(q)
      BY <1>1, <1>2, <2>1, JobDoneType DEF NothingToStart, Drained
    <2> QED
      BY <1>1, <1>2, <2>1, <2>2, <2>3, <2>4, ConnStep
  <1>5. CASE ~q.cancelPending /\ Writable(c)
    <2> DEFINE r == [q EXCEPT !.stage = "writing"]
               w == Append(wire[c], Head(q.jobs))
    <2>1. /\ r \in QueueType /\ r.jobs = q.jobs /\ r.stage = "writing"
          /\ r.pending = q.pending /\ r.cancelPending = q.cancelPending
          /\ r.terminal = q.terminal
      BY <1>1 DEF QueueType
    <2>2. /\ w \in Seq(0..MaxLines) /\ Len(w) = Len(wire[c]) + 1 /\ w # <<>>
          /\ \A i \in 1..Len(wire[c]) : w[i] = wire[c][i]
          /\ w[Len(wire[c]) + 1] = q.jobs[1]
      <3>1. wire[c] \in Seq(0..MaxLines) /\ Head(q.jobs) \in 0..MaxLines
        BY <1>1, <1>3, PipeAssumption DEF ConnType
      <3> QED
        BY <1>3, <3>1, AppendProperties
    <2>3. /\ OnlyOf(c) /\ UNCHANGED connections
          /\ socket'[c] = socket[c] /\ queue'[c] = r /\ accepted'[c] = accepted[c]
          /\ handled'[c] = handled[c] /\ wire'[c] = w
      BY <1>5 DEF HandlerSettles, IInv, TypeOK, OnlyOf
    <2> HIDE DEF r, w
    <2>4. ConnType(c)'
      BY <1>1, <2>1, <2>2, <2>3 DEF ConnType
    <2>5. QueueOK(socket[c], r, accepted[c], handled[c], w)
      <3>1. /\ \A i \in 1..Len(q.jobs) : q.jobs[i] = accepted[c] - Len(q.jobs) + i
            /\ Len(q.jobs) <= accepted[c]
            /\ Len(wire[c]) = accepted[c] - Len(q.jobs)
            /\ \A i \in 1..Len(wire[c]) : wire[c][i] = i
            /\ Len(handled[c]) = accepted[c] - Len(q.jobs) + 1
            /\ \A i \in 1..Len(handled[c]) : handled[c][i] = i
        BY <1>1, <1>5 DEF QueueOK, Writable
      <3>2. q.jobs[1] = Len(wire[c]) + 1
        BY <1>1, <1>3, <3>1
      <3>3. Len(w) = accepted[c] - Len(r.jobs) + 1
        BY <1>1, <2>1, <2>2, <3>1
      <3>4. ASSUME NEW i \in 1..Len(w) PROVE w[i] = i
        <4>1. i \in 1..Len(wire[c]) \/ i = Len(wire[c]) + 1
          BY <1>1, <2>2
        <4>2. w[Len(wire[c]) + 1] = Len(wire[c]) + 1
          BY <2>2, <3>2
        <4>3. i \in 1..Len(wire[c]) => w[i] = i
          BY <2>2, <3>1
        <4> QED
          BY <4>1, <4>2, <4>3
      <3>5. w[Len(w)] # Terminal
        BY <1>1, <2>2, <3>4 DEF Terminal
      <3>6. r.pending = Len(r.jobs) /\ r.jobs # <<>>
        BY <1>1, <1>2, <2>1 DEF QueueOK
      <3>7. r.terminal # "none" => r.cancelPending
        BY <1>1, <2>1 DEF QueueOK
      <3> QED
        BY <1>3, <2>1, <3>1, <3>3, <3>4, <3>5, <3>6, <3>7 DEF QueueOK
    <2>6. ~NothingToStart(c) /\ ~Drained(q)
      BY <1>2, <1>5 DEF NothingToStart, Drained
    <2> QED
      BY <1>2, <2>3, <2>4, <2>5, <2>6, ConnStep
  <1> QED
    BY <1>4, <1>5

LEMMA WriteSettlesStep ==
  ASSUME IInv, NEW c \in Conn, WriteSettles(c)
  PROVE  IInv'
  <1> DEFINE q == queue[c]
  <1>1. /\ ConnType(c) /\ QueueOK(socket[c], q, accepted[c], handled[c], wire[c])
        /\ q.stage = "writing" /\ q \in QueueType
        /\ Len(q.jobs) \in Nat
        /\ Len(handled[c]) \in Nat /\ Len(wire[c]) \in Nat /\ accepted[c] \in Nat
    BY ConnFacts DEF WriteSettles, ConnType
  <1>2. q.jobs # <<>>
    BY <1>1 DEF QueueOK
  <1>3. Len(q.jobs) > 0 /\ socket[c] # "absent"
    BY <1>2, ConnFacts
  <1>4. /\ OnlyOf(c) /\ UNCHANGED connections
        /\ socket'[c] = socket[c] /\ queue'[c] = JobDone(q) /\ accepted'[c] = accepted[c]
        /\ handled'[c] = handled[c] /\ wire'[c] = wire[c]
    BY DEF WriteSettles, IInv, TypeOK, OnlyOf
  <1>5. ConnType(c)'
    BY <1>1, <1>2, <1>4, JobDoneType DEF ConnType
  <1>6. QueueOK(socket'[c], queue'[c], accepted'[c], handled'[c], wire'[c])
    <2> DEFINE r == JobDone(q)
    <2>1. /\ r.stage = "waiting" /\ r.pending = Len(q.jobs) - 1
          /\ Len(r.jobs) = Len(q.jobs) - 1
          /\ r.cancelPending = q.cancelPending /\ r.terminal = q.terminal
          /\ \A i \in 1..(Len(q.jobs) - 1) : r.jobs[i] = q.jobs[i + 1]
      BY <1>1, <1>2, JobDoneType DEF QueueOK
    <2> HIDE DEF r
    <2>2. ASSUME socket[c] \in {"absent", "open"}, ~q.cancelPending
          PROVE  \A i \in 1..Len(r.jobs) : r.jobs[i] = accepted[c] - Len(r.jobs) + i
      <3>1. \A i \in 1..Len(q.jobs) : q.jobs[i] = accepted[c] - Len(q.jobs) + i
        BY <1>1, <2>2 DEF QueueOK
      <3>2. SUFFICES ASSUME NEW i \in 1..Len(r.jobs)
                     PROVE  r.jobs[i] = accepted[c] - Len(r.jobs) + i
        OBVIOUS
      <3>3. i \in 1..(Len(q.jobs) - 1) /\ i + 1 \in 1..Len(q.jobs)
        BY <1>1, <2>1
      <3>4. q.jobs[i + 1] = accepted[c] - Len(q.jobs) + (i + 1)
        BY <3>1, <3>3
      <3>5. r.jobs[i] = q.jobs[i + 1]
        BY <2>1, <3>3
      <3>6. /\ Len(q.jobs) \in Int /\ accepted[c] \in Int /\ i \in Int
            /\ Len(r.jobs) = Len(q.jobs) - 1
        BY <1>1, <2>1
      <3>7. accepted[c] - Len(q.jobs) + (i + 1) = accepted[c] - Len(r.jobs) + i
        <4>1. \A a, l, n \in Int : a - l + (n + 1) = a - (l - 1) + n
          OBVIOUS
        <4>2. accepted[c] - Len(q.jobs) + (i + 1) = accepted[c] - (Len(q.jobs) - 1) + i
          BY <3>6, <4>1, Zenon
        <4> QED
          BY <3>6, <4>2, Zenon
      <3> QED
        BY <3>4, <3>5, <3>7
    <2>3. QueueOK(socket[c], r, accepted[c], handled[c], wire[c])
      BY <1>1, <1>3, <2>1, <2>2 DEF QueueOK
    <2> QED
      BY <1>4, <2>3 DEF r
  <1>7. /\ (NothingToStart(c) => NothingToStart(c)') /\ ~Drained(q)
    BY <1>1, <1>2, <1>4, JobDoneType DEF NothingToStart, Drained
  <1> QED
    BY <1>2, <1>4, <1>5, <1>6, <1>7, ConnStep

LEMMA TerminalSteps ==
  ASSUME IInv, NEW c \in Conn, WriteTerminal(c) \/ TerminalSettles(c)
  PROVE  IInv'
  <1> DEFINE q == queue[c]
             s == IF socket[c] = "open" THEN "destroyed" ELSE socket[c]
             r == [q EXCEPT !.terminal = "done"]
             t == [q EXCEPT !.terminal = "writing"]
             w == Append(wire[c], Terminal)
  <1>1. /\ ConnType(c) /\ QueueOK(socket[c], q, accepted[c], handled[c], wire[c])
        /\ q \in QueueType /\ q.terminal \in {"waiting", "writing"}
        /\ Len(wire[c]) \in Nat
    BY ConnFacts DEF WriteTerminal, TerminalSettles, ConnType
  <1>2. q.cancelPending /\ socket[c] # "absent"
    BY <1>1 DEF QueueOK
  <1>3. /\ r \in QueueType /\ r.jobs = q.jobs /\ r.stage = q.stage /\ r.pending = q.pending
        /\ r.cancelPending = q.cancelPending /\ r.terminal = "done"
    BY <1>1 DEF QueueType
  <1>4. /\ t \in QueueType /\ t.jobs = q.jobs /\ t.stage = q.stage /\ t.pending = q.pending
        /\ t.cancelPending = q.cancelPending /\ t.terminal = "writing"
    BY <1>1 DEF QueueType
  <1>5. /\ w \in Seq(0..MaxLines) /\ Len(w) = Len(wire[c]) + 1 /\ w # <<>>
        /\ \A i \in 1..Len(wire[c]) : w[i] = wire[c][i]
        /\ w[Len(wire[c]) + 1] = Terminal
    <2>1. wire[c] \in Seq(0..MaxLines) /\ Terminal \in 0..MaxLines
      BY <1>1, PipeAssumption DEF ConnType, Terminal
    <2> QED
      BY <2>1, AppendProperties
  <1>6. CASE WriteTerminal(c) /\ Writable(c)
    <2>1. /\ OnlyOf(c) /\ UNCHANGED connections
          /\ socket'[c] = socket[c] /\ queue'[c] = t /\ accepted'[c] = accepted[c]
          /\ handled'[c] = handled[c] /\ wire'[c] = w
      BY <1>6 DEF WriteTerminal, IInv, TypeOK, OnlyOf
    <2>2. q.terminal = "waiting" /\ socket[c] = "open"
      BY <1>6 DEF WriteTerminal, Writable
    <2>3. \A i \in 1..Len(wire[c]) : wire[c][i] = i
      BY <1>1, <2>2 DEF QueueOK
    <2>4. \A i \in 1..Len(w) : w[i] = i \/ (w[i] = Terminal /\ i = Len(w))
      <3> SUFFICES ASSUME NEW i \in 1..Len(w)
                   PROVE  w[i] = i \/ (w[i] = Terminal /\ i = Len(w))
        OBVIOUS
      <3>1. i \in 1..Len(wire[c]) \/ i = Len(wire[c]) + 1
        BY <1>1, <1>5
      <3> HIDE DEF w
      <3> QED
        BY <1>5, <2>3, <3>1
    <2> HIDE DEF t, w
    <2>5. ConnType(c)'
      BY <1>1, <1>4, <1>5, <2>1 DEF ConnType
    <2>6. QueueOK(socket[c], t, accepted[c], handled[c], w)
      BY <1>1, <1>2, <1>4, <2>4 DEF QueueOK
    <2> QED
      BY <2>1, <2>2, <2>5, <2>6, ConnStep
  <1>7. CASE TerminalSettles(c) \/ (WriteTerminal(c) /\ ~Writable(c))
    <2>1. /\ OnlyOf(c) /\ UNCHANGED connections
          /\ socket'[c] = s /\ queue'[c] = r /\ accepted'[c] = accepted[c]
          /\ handled'[c] = handled[c] /\ wire'[c] = wire[c]
      BY <1>7 DEF WriteTerminal, TerminalSettles, Destroyed, IInv, TypeOK, OnlyOf
    <2>2. s \in {"open", "destroyed", "closed"}
          /\ (s = socket[c] \/ (socket[c] = "open" /\ s = "destroyed"))
      BY <1>1, <1>2 DEF ConnType
    <2> HIDE DEF r, s
    <2>3. ConnType(c)'
      BY <1>1, <1>3, <2>1, <2>2 DEF ConnType
    <2>4. QueueOK(s, r, accepted[c], handled[c], wire[c])
      BY <1>1, <1>2, <1>3, <2>2 DEF QueueOK
    <2>5. /\ NothingToStart(c) => NothingToStart(c)'
          /\ ~Drained(q)
      BY <1>1, <1>2, <1>3, <2>1 DEF NothingToStart, Drained
    <2> QED
      BY <1>3, <2>1, <2>2, <2>3, <2>4, <2>5, ConnStep
  <1> QED
    BY <1>6, <1>7

LEMMA DisconnectStep ==
  ASSUME IInv, NEW c \in Conn, Disconnect(c)
  PROVE  IInv'
  <1>1. /\ ConnType(c) /\ QueueOK(socket[c], queue[c], accepted[c], handled[c], wire[c])
    BY ConnFacts
  <1>2. /\ OnlyOf(c) /\ UNCHANGED connections /\ socket[c] = "open"
        /\ socket'[c] = "destroyed" /\ queue'[c] = queue[c] /\ accepted'[c] = accepted[c]
        /\ handled'[c] = handled[c] /\ wire'[c] = wire[c]
    BY DEF Disconnect, IInv, TypeOK, OnlyOf
  <1>3. ConnType(c)'
    BY <1>1, <1>2 DEF ConnType
  <1>4. QueueOK(socket'[c], queue'[c], accepted'[c], handled'[c], wire'[c])
    BY <1>1, <1>2 DEF QueueOK
  <1> QED
    BY <1>2, <1>3, <1>4, ConnStep DEF NothingToStart

LEMMA BadFrameStep ==
  ASSUME IInv, NEW c \in Conn, BadFrame(c)
  PROVE  IInv'
  <1> DEFINE q == Terminated(queue[c])
  <1>1. /\ ConnType(c) /\ QueueOK(socket[c], queue[c], accepted[c], handled[c], wire[c])
        /\ queue[c] \in QueueType
    BY ConnFacts DEF ConnType
  <1>2. /\ OnlyOf(c) /\ UNCHANGED connections /\ socket[c] = "open"
        /\ socket'[c] = "open" /\ queue'[c] = q /\ accepted'[c] = accepted[c]
        /\ handled'[c] = handled[c] /\ wire'[c] = wire[c] /\ queue[c].terminal = "none"
    BY DEF BadFrame, IInv, TypeOK, OnlyOf
  <1>3. ConnType(c)'
    BY <1>1, <1>2, CancelledType DEF ConnType
  <1>4. QueueOK(socket'[c], queue'[c], accepted'[c], handled'[c], wire'[c])
    BY <1>1, <1>2, CancelledType DEF QueueOK
  <1> QED
    BY <1>2, <1>3, <1>4, ConnStep

\* The last lines accepted, followed by the next k, are the last lines accepted.
LEMMA NumbersAppended ==
  ASSUME NEW last \in Nat, NEW a \in Nat, NEW k \in Nat, a + k <= last,
         NEW j \in Seq(1..last), NEW new, new = [i \in 1..k |-> a + i]
  PROVE  /\ j \o new \in Seq(1..last)
         /\ Len(j \o new) = Len(j) + k
         /\ (/\ Len(j) <= a
             /\ \A i \in 1..Len(j) : j[i] = a - Len(j) + i)
            => /\ Len(j \o new) <= a + k
               /\ \A i \in 1..Len(j \o new) : (j \o new)[i] = (a + k) - Len(j \o new) + i
  <1>1. /\ new \in Seq(1..last) /\ Len(new) = k /\ \A i \in 1..k : new[i] = a + i
    OBVIOUS
  <1>2. /\ j \o new \in Seq(1..last) /\ Len(j \o new) = Len(j) + Len(new)
        /\ \A i \in 1..(Len(j) + Len(new)) :
               (j \o new)[i] = IF i <= Len(j) THEN j[i] ELSE new[i - Len(j)]
    BY <1>1, ConcatProperties
  <1> DEFINE l == Len(j)
             all == j \o new
  <1>3. l \in Nat /\ Len(all) = l + k
    BY <1>1, <1>2
  <1>4. \A i \in 1..(l + k) : all[i] = IF i <= l THEN j[i] ELSE new[i - l]
    BY <1>1, <1>2
  <1> HIDE DEF l, all
  <1>5. ASSUME l <= a, \A i \in 1..l : j[i] = a - l + i, NEW i \in 1..(l + k)
        PROVE  all[i] = (a + k) - (l + k) + i
    <2>1. CASE i <= l
      <3>1. i \in 1..l
        BY <1>3, <2>1
      <3>2. all[i] = a - l + i
        BY <1>4, <1>5, <2>1, <3>1
      <3> QED
        BY <1>3, <3>2
    <2>2. CASE ~(i <= l)
      <3>1. i - l \in 1..k
        BY <1>3, <2>2
      <3>2. all[i] = a + (i - l)
        BY <1>1, <1>4, <2>2, <3>1
      <3> QED
        BY <1>3, <3>2
    <2> QED
      BY <2>1, <2>2
  <1>6. l <= a => Len(all) <= a + k
    BY <1>3
  <1>7. l <= a /\ (\A i \in 1..l : j[i] = a - l + i)
        => \A i \in 1..Len(all) : all[i] = (a + k) - Len(all) + i
    BY <1>3, <1>5
  <1> QED
    BY <1>2, <1>3, <1>6, <1>7 DEF l, all

LEMMA Shift ==
  ASSUME NEW a \in Int, NEW l \in Int, NEW k \in Int
  PROVE  (a + k) - (l + k) = a - l
  OBVIOUS

\* enqueue() appends the next numbers, as many as there is room for.
LEMMA DataStep ==
  ASSUME IInv, NEW c \in Conn, Data(c)
  PROVE  IInv'
  <1> DEFINE q == queue[c]
             a == accepted[c]
  <1>1. /\ ConnType(c) /\ QueueOK(socket[c], q, a, handled[c], wire[c])
        /\ q \in QueueType /\ q.jobs \in Seq(1..MaxLines) /\ Len(q.jobs) \in Nat
        /\ q.pending \in 0..MaxPending /\ a \in 0..MaxLines
        /\ Len(wire[c]) \in Nat /\ Len(handled[c]) \in Nat
        /\ socket[c] = "open" /\ q.terminal = "none"
    <2>1. ConnType(c) /\ q \in QueueType
      BY ConnFacts DEF ConnType
    <2> QED
      BY <2>1, ConnFacts DEF Data, ConnType, QueueType
  <1> PICK n \in 1..(MaxLines - a) : Enqueue(c, n)
    BY DEF Data
  <1> DEFINE room == IF q.accepting THEN MaxPending - q.pending ELSE 0
             k == IF n <= room THEN n ELSE room
             new == [i \in 1..k |-> a + i]
             jobs == q.jobs \o new
             taken == [q EXCEPT !.jobs = @ \o new, !.pending = @ + k]
             r == IF n <= room THEN taken ELSE Terminated(taken)
  <1>2. k \in Nat /\ a + k \in 0..MaxLines /\ q.pending + k \in 0..MaxPending
    <2>1. MaxPending \in Nat /\ MaxLines \in Nat
      BY PipeAssumption
    <2>2. PICK p \in 0..MaxPending : p = q.pending
      BY <1>1
    <2>3. PICK b \in 0..MaxLines : b = a
      BY <1>1
    <2>4. room \in {0, MaxPending - p} /\ n \in 1..(MaxLines - b)
      BY <2>2, <2>3
    <2>5. k = IF n <= room THEN n ELSE room
      OBVIOUS
    <2> HIDE DEF k, room, q, a
    <2>6. k \in Nat /\ b + k \in 0..MaxLines /\ p + k \in 0..MaxPending
      BY <2>1, <2>4, <2>5
    <2> QED
      BY <2>2, <2>3, <2>6
  <1>3. /\ jobs \in Seq(1..MaxLines)
        /\ Len(jobs) = Len(q.jobs) + k
        /\ (/\ Len(q.jobs) <= a
            /\ \A i \in 1..Len(q.jobs) : q.jobs[i] = a - Len(q.jobs) + i)
           => /\ Len(jobs) <= a + k
              /\ \A i \in 1..Len(jobs) : jobs[i] = (a + k) - Len(jobs) + i
    <2>1. a \in Nat /\ a + k <= MaxLines /\ MaxLines \in Nat /\ k \in Nat
      BY <1>1, <1>2, PipeAssumption
    <2>2. q.jobs \in Seq(1..MaxLines)
      BY <1>1
    <2>3. PICK j \in Seq(1..MaxLines), b \in Nat, m \in Nat : j = q.jobs /\ b = a /\ m = k
      BY <2>1, <2>2
    <2>4. new = [i \in 1..m |-> b + i] /\ b + m <= MaxLines
      BY <2>1, <2>3
    <2> HIDE DEF k, q, a, new
    <2>5. /\ j \o new \in Seq(1..MaxLines)
          /\ Len(j \o new) = Len(j) + m
          /\ (/\ Len(j) <= b
              /\ \A i \in 1..Len(j) : j[i] = b - Len(j) + i)
             => /\ Len(j \o new) <= b + m
                /\ \A i \in 1..Len(j \o new) :
                       (j \o new)[i] = (b + m) - Len(j \o new) + i
      BY <2>1, <2>4, NumbersAppended
    <2> QED
      BY <2>3, <2>5
  <1> HIDE DEF k, room
  <1>5. /\ taken \in QueueType /\ taken.jobs = jobs /\ taken.pending = q.pending + k
        /\ taken.stage = q.stage /\ taken.terminal = "none"
        /\ taken.cancelPending = q.cancelPending
    BY <1>1, <1>2, <1>3 DEF QueueType
  <1> HIDE DEF jobs, new, taken
  <1>6. /\ r \in QueueType /\ r.jobs = jobs /\ r.pending = q.pending + k /\ r.stage = q.stage
        /\ (r.cancelPending /\ r.terminal = "waiting")
           \/ (r.terminal = "none" /\ r.cancelPending = q.cancelPending)
    BY <1>5, CancelledType
  <1>7. /\ OnlyOf(c) /\ UNCHANGED connections
        /\ socket'[c] = socket[c] /\ queue'[c] = r /\ accepted'[c] = a + k
        /\ handled'[c] = handled[c] /\ wire'[c] = wire[c]
    BY DEF Data, Enqueue, IInv, TypeOK, OnlyOf, k, room, new, taken
  <1> HIDE DEF r
  <1>8. ConnType(c)'
    BY <1>1, <1>2, <1>6, <1>7 DEF ConnType
  <1>9. /\ r.pending = Len(r.jobs)
        /\ r.stage # "waiting" => r.jobs # <<>>
    <2>1. q.pending = Len(q.jobs) /\ (q.stage # "waiting" => Len(q.jobs) > 0)
      BY <1>1, ConnFacts DEF QueueOK
    <2>2. Len(r.jobs) = Len(q.jobs) + k
      BY <1>3, <1>6
    <2>3. Len(r.jobs) > 0 => r.jobs # <<>>
      BY <1>3, <1>6
    <2> QED
      BY <1>1, <1>2, <1>6, <2>1, <2>2, <2>3
  <1>10. ASSUME ~r.cancelPending
         PROVE  /\ Len(r.jobs) <= a + k
                /\ \A i \in 1..Len(r.jobs) : r.jobs[i] = (a + k) - Len(r.jobs) + i
                /\ Len(wire[c]) = (a + k) - Len(r.jobs) + (IF r.stage = "writing" THEN 1 ELSE 0)
                /\ Len(handled[c]) =
                       (a + k) - Len(r.jobs) + (IF r.stage = "waiting" THEN 0 ELSE 1)
                /\ \A i \in 1..Len(wire[c]) : wire[c][i] = i
                /\ \A i \in 1..Len(handled[c]) : handled[c][i] = i
    <2>1. /\ \A i \in 1..Len(q.jobs) : q.jobs[i] = a - Len(q.jobs) + i
          /\ Len(q.jobs) <= a
          /\ Len(wire[c]) = a - Len(q.jobs) + (IF q.stage = "writing" THEN 1 ELSE 0)
          /\ Len(handled[c]) = a - Len(q.jobs) + (IF q.stage = "waiting" THEN 0 ELSE 1)
          /\ \A i \in 1..Len(wire[c]) : wire[c][i] = i
          /\ \A i \in 1..Len(handled[c]) : handled[c][i] = i
      BY <1>1, <1>6, <1>10 DEF QueueOK
    <2>2. (a + k) - Len(r.jobs) = a - Len(q.jobs)
      <3>1. a \in Int /\ k \in Int /\ Len(q.jobs) \in Int
        BY <1>1, <1>2
      <3>2. (a + k) - (Len(q.jobs) + k) = a - Len(q.jobs)
        BY <3>1, Shift, Zenon
      <3> QED
        BY <1>3, <1>6, <3>2, Zenon
    <2>3. /\ Len(r.jobs) <= a + k
          /\ \A i \in 1..Len(r.jobs) : r.jobs[i] = (a + k) - Len(r.jobs) + i
      BY <1>3, <1>6, <2>1, Zenon
    <2> QED
      BY <1>6, <2>1, <2>2, <2>3, Zenon
  <1>11. QueueOK(socket[c], r, a + k, handled[c], wire[c])
    <2>1. /\ \A i \in 1..Len(wire[c]) :
                 wire[c][i] = i \/ (wire[c][i] = Terminal /\ i = Len(wire[c]))
          /\ ~(wire[c] # <<>> /\ wire[c][Len(wire[c])] = Terminal)
      BY <1>1 DEF QueueOK
    <2>2. r.terminal # "none" => r.cancelPending
      BY <1>6
    <2> QED
      BY <1>1, <1>9, <1>10, <2>1, <2>2 DEF QueueOK
  <1> QED
    BY <1>1, <1>7, <1>8, <1>11, ConnStep

-----------------------------------------------------------------------------
(* The table and close(). *)

LEMMA ConnectStep ==
  ASSUME IInv, NEW c \in Conn, Connect(c)
  PROVE  IInv'
  <1>1. /\ ConnType(c) /\ QueueOK(socket[c], queue[c], accepted[c], handled[c], wire[c])
        /\ queue[c].jobs = <<>>
    BY ConnFacts DEF Connect, IInv, TableOK
  <1>2. /\ OnlyOf(c) /\ socket[c] = "absent" /\ socket'[c] \in {"open", "destroyed"}
        /\ UNCHANGED <<queue, accepted, handled, wire>>
        /\ \A d \in Conn \ {c} : socket'[d] = socket[d]
    BY DEF Connect, IInv, TypeOK, OnlyOf
  <1>3. \/ socket'[c] = "destroyed" /\ UNCHANGED connections
        \/ /\ socket'[c] = "open" /\ connections' = connections \union {c}
           /\ phase = "serving" /\ ~(Cardinality(connections) >= MaxConnections)
    BY DEF Connect, Refuses, IInv, TypeOK
  <1>4. TypeOK'
    <2>1. ConnType(c)' /\ connections' \subseteq Conn
      BY <1>1, <1>2, <1>3 DEF ConnType, IInv, TypeOK
    <2> QED
      BY <1>2, <2>1, TypeStep DEF IInv
  <1>5. QueuesOK'
    <2>1. QueueOK(socket'[c], queue'[c], accepted'[c], handled'[c], wire'[c])
      BY <1>1, <1>2 DEF QueueOK
    <2> QED
      BY <1>2, <2>1, QueuesStep DEF IInv
  <1>6. IsFiniteSet(connections') /\ Cardinality(connections') <= MaxConnections
    <2>1. CASE UNCHANGED connections
      BY <2>1 DEF IInv, TableOK
    <2>2. CASE /\ connections' = connections \union {c}
               /\ ~(Cardinality(connections) >= MaxConnections)
      <3>1. IsFiniteSet(connections) /\ Cardinality(connections) \in Nat
        BY FS_CardinalityType DEF IInv, TableOK
      <3>2. /\ IsFiniteSet(connections')
            /\ Cardinality(connections') \in {Cardinality(connections), Cardinality(connections) + 1}
        BY <2>2, <3>1, FS_AddElement
      <3> QED
        BY <2>2, <3>1, <3>2, PipeAssumption
    <2> QED
      BY <1>3, <2>1, <2>2
  <1>7. TableOK'
    BY <1>1, <1>2, <1>3, <1>6 DEF IInv, TableOK, NothingToStart
  <1>8. CloseOK'
    BY <1>1, <1>2, <1>3 DEF Connect, IInv, CloseOK, NothingToStart
  <1> QED
    BY <1>4, <1>5, <1>7, <1>8 DEF IInv

LEMMA CloseEventStep ==
  ASSUME IInv, NEW c \in Conn, CloseEvent(c)
  PROVE  IInv'
  <1>1. /\ ConnType(c) /\ QueueOK(socket[c], queue[c], accepted[c], handled[c], wire[c])
        /\ queue[c] \in QueueType
    BY ConnFacts DEF ConnType
  <1>2. /\ OnlyOf(c) /\ socket[c] = "destroyed" /\ socket'[c] = "closed"
        /\ UNCHANGED <<accepted, handled, wire>>
        /\ connections' = connections \ {c}
        /\ \A d \in Conn \ {c} : socket'[d] = socket[d] /\ queue'[d] = queue[d]
    BY DEF CloseEvent, IInv, TypeOK, OnlyOf
  <1>3. \/ c \in connections /\ queue'[c] = Cancelled(queue[c])
        \/ c \notin connections /\ queue'[c] = queue[c]
    BY DEF CloseEvent, IInv, TypeOK
  <1>4. /\ queue'[c] \in QueueType /\ queue'[c].jobs = queue[c].jobs
        /\ queue'[c].stage = queue[c].stage /\ queue'[c].pending = queue[c].pending
        /\ queue'[c].terminal = queue[c].terminal
        /\ queue[c].cancelPending => queue'[c].cancelPending
        /\ NothingToStart(c)'
    <2>1. c \notin connections => NothingToStart(c)
      BY DEF IInv, TableOK
    <2> QED
      BY <1>1, <1>3, <2>1, CancelledType DEF NothingToStart
  <1>5. TypeOK'
    <2>1. ConnType(c)' /\ connections' \subseteq Conn
      BY <1>1, <1>2, <1>4 DEF ConnType, IInv, TypeOK
    <2> QED
      BY <1>2, <2>1, TypeStep DEF IInv
  <1>6. QueuesOK'
    <2>1. QueueOK(socket'[c], queue'[c], accepted'[c], handled'[c], wire'[c])
      BY <1>1, <1>2, <1>4 DEF QueueOK
    <2> QED
      BY <1>2, <2>1, QueuesStep DEF IInv
  <1>7. IsFiniteSet(connections') /\ Cardinality(connections') <= MaxConnections
    <2>1. IsFiniteSet(connections) /\ Cardinality(connections) \in Nat
          /\ Cardinality(connections) <= MaxConnections
      BY FS_CardinalityType DEF IInv, TableOK
    <2>2. /\ IsFiniteSet(connections')
          /\ Cardinality(connections') \in {Cardinality(connections), Cardinality(connections) - 1}
      BY <1>2, <2>1, FS_RemoveElement
    <2> QED
      BY <2>1, <2>2, PipeAssumption
  <1>8. TableOK'
    BY <1>2, <1>4, <1>7 DEF IInv, TableOK, NothingToStart
  <1>9. CloseOK'
    <2>1. \A d \in Conn : Drained(queue[d]) => Drained(queue'[d])
      BY <1>2, <1>4 DEF Drained
    <2>2. responseQueues \subseteq Conn /\ UNCHANGED <<phase, responseQueues>>
      BY <1>2 DEF OnlyOf, IInv, TypeOK
    <2> QED
      BY <1>2, <1>4, <2>1, <2>2 DEF IInv, CloseOK, NothingToStart
  <1> QED
    BY <1>5, <1>6, <1>8, <1>9 DEF IInv

LEMMA CloseStep ==
  ASSUME IInv, Close
  PROVE  IInv'
  <1> DEFINE s(d) == IF d \in connections /\ socket[d] = "open" THEN "destroyed" ELSE socket[d]
             q(d) == IF d \in connections THEN Cancelled(queue[d]) ELSE queue[d]
  <1>1. \A d \in Conn : socket'[d] = s(d) /\ queue'[d] = q(d)
    BY DEF Close
  <1>2. ASSUME NEW d \in Conn
        PROVE  /\ s(d) \in {"absent", "open", "destroyed", "closed"} /\ s(d) # "open"
               /\ s(d) = socket[d] \/ (socket[d] = "open" /\ s(d) = "destroyed")
               /\ q(d) \in QueueType /\ q(d).jobs = queue[d].jobs
               /\ q(d).stage = queue[d].stage /\ q(d).pending = queue[d].pending
               /\ q(d).terminal = queue[d].terminal
               /\ queue[d].cancelPending => q(d).cancelPending
               /\ d \notin connections => q(d).cancelPending = queue[d].cancelPending
               /\ s(d) = "absent" => d \notin connections
               /\ q(d).cancelPending \/ q(d).jobs = <<>>
    <2>1. ConnType(d) /\ queue[d] \in QueueType
      BY ConnFacts DEF ConnType
    <2>2. /\ socket[d] = "open" => d \in connections
          /\ socket[d] = "absent" => d \notin connections
          /\ d \notin connections => NothingToStart(d)
      BY DEF IInv, TableOK
    <2> QED
      BY <2>1, <2>2, CancelledType DEF ConnType, NothingToStart
  <1>3. UNCHANGED <<connections, accepted, handled, wire>>
        /\ responseQueues' = connections /\ phase' = "closing"
    BY DEF Close
  <1>4. TypeOK'
    BY <1>2, <1>3 DEF Close, IInv, TypeOK
  <1>5. ASSUME NEW d \in Conn
        PROVE  QueueOK(s(d), q(d), accepted[d], handled[d], wire[d])
    <2>1. QueueOK(socket[d], queue[d], accepted[d], handled[d], wire[d])
      BY ConnFacts
    <2> HIDE DEF s, q
    <2> QED
      BY <1>2, <2>1 DEF QueueOK
  <1> HIDE DEF s, q
  <1>6. QueuesOK'
    BY <1>1, <1>3, <1>5 DEF QueuesOK
  <1>7. TableOK'
    BY <1>1, <1>2, <1>3 DEF IInv, TableOK, NothingToStart
  <1>8. CloseOK'
    BY <1>1, <1>2, <1>3 DEF CloseOK, NothingToStart
  <1> QED
    BY <1>4, <1>6, <1>7, <1>8 DEF IInv

LEMMA ShutdownSteps ==
  ASSUME IInv, ServerClosed \/ ShutdownHandler
  PROVE  IInv'
  <1>1. UNCHANGED <<connections, responseQueues, socket, queue, accepted, handled, wire>>
    BY DEF ServerClosed, ShutdownHandler
  <1>2. TypeOK' /\ QueuesOK' /\ TableOK'
    BY <1>1 DEF ServerClosed, ShutdownHandler, IInv, TypeOK, QueuesOK, TableOK, NothingToStart
  <1>3. CloseOK'
    BY <1>1 DEF ServerClosed, ShutdownHandler, IInv, CloseOK, NothingToStart
  <1> QED
    BY <1>2, <1>3 DEF IInv

LEMMA StepIInv == IInv /\ [Next]_vars => IInv'
  <1> SUFFICES ASSUME IInv, [Next]_vars PROVE IInv'
    OBVIOUS
  <1>1. ASSUME NEW c \in Conn, Environment(c) PROVE IInv'
    BY <1>1, ConnectStep, DataStep, BadFrameStep, DisconnectStep DEF Environment
  <1>2. ASSUME NEW c \in Conn, Progress(c) PROVE IInv'
    BY <1>2, StartJobStep, HandlerSettlesStep, TerminalSteps, CloseEventStep DEF Progress
  <1>3. ASSUME NEW c \in Conn, WriteSettles(c) \/ TerminalSettles(c) PROVE IInv'
    BY <1>3, WriteSettlesStep, TerminalSteps
  <1>4. CASE Closing
    BY <1>4, CloseStep, ShutdownSteps DEF Closing
  <1>5. CASE UNCHANGED vars
    BY <1>5 DEF vars, IInv, TypeOK, QueuesOK, TableOK, CloseOK, NothingToStart
  <1> QED
    BY <1>1, <1>2, <1>3, <1>4, <1>5 DEF Next

-----------------------------------------------------------------------------
(* The theorems. *)

\* The inductive invariant of the server holds of every behaviour.
THEOREM PipeInvariant == Spec => []IInv
  BY InitIInv, StepIInv, PTL DEF Spec

\* The type invariant.
THEOREM PipeTypeCorrect == Spec => []TypeOK
  <1>1. IInv => TypeOK
    BY DEF IInv
  <1> QED
    BY <1>1, PipeInvariant, PTL

\* The connection table never exceeds its limit and counts exactly the live wired
\* sockets; the pending counter of a queue counts exactly its unfinished jobs.
THEOREM CountersAlwaysExact == Spec => []CountersExact
  <1>1. IInv => CountersExact
    BY DEF IInv, TableOK, QueuesOK, QueueOK, CountersExact
  <1> QED
    BY <1>1, PipeInvariant, PTL

\* When handler.shutdown() is called every socket has closed and no line of a
\* connection that close() found is still in the handler.
THEOREM ShutdownIsLast == Spec => []ShutdownAfterDrain
  <1>1. IInv => ShutdownAfterDrain
    BY DEF IInv, CloseOK, QueuesOK, QueueOK, NothingToStart, Drained, ShutdownAfterDrain
  <1> QED
    BY <1>1, PipeInvariant, PTL

\* After close() no line is given to the daemon any more.
THEOREM NoLineAfterClose == Spec => NothingHandledAfterClose
  <1>1. ASSUME IInv, [Next]_vars, phase # "serving"
        PROVE  handled' = handled
    <2>1. ASSUME NEW c \in Conn, Environment(c) PROVE handled' = handled
      BY <2>1 DEF Environment, Connect, Data, BadFrame, Disconnect
    <2>2. ASSUME NEW c \in Conn, StartJob(c) PROVE handled' = handled
      <3>1. NothingToStart(c)
        BY <1>1 DEF IInv, CloseOK
      <3> QED
        BY <2>2, <3>1 DEF StartJob, NothingToStart
    <2>3. ASSUME NEW c \in Conn, Progress(c) PROVE handled' = handled
      BY <2>2, <2>3 DEF Progress, HandlerSettles, WriteTerminal, CloseEvent
    <2>4. ASSUME NEW c \in Conn, WriteSettles(c) \/ TerminalSettles(c)
          PROVE  handled' = handled
      BY <2>4 DEF WriteSettles, TerminalSettles
    <2>5. CASE Closing
      BY <2>5 DEF Closing, Close, ServerClosed, ShutdownHandler
    <2>6. CASE UNCHANGED vars
      BY <2>6 DEF vars
    <2> QED
      BY <1>1, <2>1, <2>3, <2>4, <2>5, <2>6 DEF Next
  <1>2. IInv /\ [Next]_vars => [phase # "serving" => handled' = handled]_vars
    BY <1>1
  <1> QED
    BY <1>2, PipeInvariant, PTL DEF Spec, NothingHandledAfterClose

\* On a live connection every line given to the daemon before the last one has
\* been answered, and the last one too unless the daemon works on it.
THEOREM NeverAheadOfAnswers == Spec => []HandledLinesAnswered
  <1>1. ASSUME IInv, NEW c \in Conn, socket[c] = "open", ~queue[c].cancelPending,
               NEW i \in DOMAIN handled[c]
        PROVE  \/ handled[c][i] \in Answered(c)
               \/ i = Len(handled[c]) /\ queue[c].stage = "handling"
    <2> DEFINE h == handled[c]
               w == wire[c]
               stage == queue[c].stage
    <2>1. /\ h \in Seq(1..MaxLines) /\ w \in Seq(0..MaxLines)
          /\ Len(h) \in Nat /\ Len(w) \in Nat
          /\ stage \in {"waiting", "handling", "writing"}
          /\ Len(queue[c].jobs) \in Int /\ accepted[c] \in Int
      BY <1>1, ConnFacts DEF ConnType, QueueType
    <2>2. /\ Len(w) = accepted[c] - Len(queue[c].jobs) + (IF stage = "writing" THEN 1 ELSE 0)
          /\ Len(h) = accepted[c] - Len(queue[c].jobs) + (IF stage = "waiting" THEN 0 ELSE 1)
          /\ \A n \in 1..Len(w) : w[n] = n
          /\ \A n \in 1..Len(h) : h[n] = n
      BY <1>1, ConnFacts DEF QueueOK
    <2>3. Len(h) = Len(w) \/ (Len(h) = Len(w) + 1 /\ stage = "handling")
      <3> DEFINE x == accepted[c] - Len(queue[c].jobs)
      <3>1. x \in Int
        BY <2>1
      <3> HIDE DEF x
      <3>2. /\ Len(w) = x + (IF stage = "writing" THEN 1 ELSE 0)
            /\ Len(h) = x + (IF stage = "waiting" THEN 0 ELSE 1)
        BY <2>2 DEF x
      <3> QED
        BY <2>1, <3>1, <3>2
    <2>4. i \in 1..Len(h) /\ h[i] = i /\ i \in 1..MaxLines
      <3>1. i \in 1..Len(h)
        BY <2>1
      <3>2. h[i] \in 1..MaxLines
        BY <2>1, <3>1, ElementOfSeq
      <3> QED
        BY <2>2, <3>1, <3>2
    <2>5. CASE i \in 1..Len(w)
      BY <2>1, <2>2, <2>4, <2>5 DEF Answered
    <2>6. CASE i \notin 1..Len(w)
      BY <2>1, <2>3, <2>4, <2>6
    <2> QED
      BY <2>5, <2>6
  <1>2. IInv => HandledLinesAnswered
    BY <1>1 DEF HandledLinesAnswered
  <1> QED
    BY <1>2, PipeInvariant, PTL

-----------------------------------------------------------------------------
(* The server implements OrderedReplies. *)

LEMMA AcceptStep ==
  ASSUME IInv, IInv', NEW c \in Conn, Data(c)
  PROVE  Replies!Accept(c) \/ UNCHANGED Replies!vars
  <1>1. PICK n \in 1..(MaxLines - accepted[c]) : Enqueue(c, n)
    BY DEF Data
  <1>2. UNCHANGED wire /\ queue[c].terminal = "none"
    BY DEF Data
  <1>3. /\ accepted \in [Conn -> 0..MaxLines] /\ accepted' \in [Conn -> 0..MaxLines]
        /\ MaxLines \in Nat
    BY PipeAssumption DEF IInv, TypeOK
  <1>4. /\ queue[c].pending \in 0..MaxPending /\ MaxPending \in Nat
    BY ConnFacts, PipeAssumption DEF ConnType, QueueType
  <1>5. PICK k \in Nat : accepted' = [accepted EXCEPT ![c] = @ + k]
    <2> DEFINE room == IF queue[c].accepting THEN MaxPending - queue[c].pending ELSE 0
               k == IF n <= room THEN n ELSE room
    <2>1. room \in Nat
      BY <1>4
    <2>2. k \in Nat
      BY <2>1
    <2>3. accepted' = [accepted EXCEPT ![c] = @ + k]
      BY <1>1 DEF Enqueue
    <2> QED
      BY <2>2, <2>3
  <1>6. ~Replies!Ended(c)
    BY <1>2, ConnFacts DEF QueueOK, Replies!Ended, Replies!Terminal, Terminal
  <1>7. \A d \in Conn \ {c} : accepted'[d] = accepted[d]
    BY <1>3, <1>5
  <1>8. CASE k = 0
    <2>1. accepted' = accepted
      BY <1>3, <1>5, <1>8
    <2> QED
      BY <1>2, <2>1 DEF Replies!vars
  <1>9. CASE k # 0
    <2>1. accepted'[c] > accepted[c]
      BY <1>3, <1>5, <1>9
    <2>2. accepted' \in [Conn -> Nat]
      BY <1>3
    <2> QED
      BY <1>2, <1>6, <1>7, <2>1, <2>2 DEF Replies!Accept
  <1> QED
    BY <1>8, <1>9

LEMMA ReplyStep ==
  ASSUME IInv, NEW c \in Conn, HandlerSettles(c)
  PROVE  Replies!Reply(c) \/ UNCHANGED Replies!vars
  <1> DEFINE j == queue[c].jobs
             l == Len(wire[c])
             a == accepted[c]
  <1>1. CASE queue[c].cancelPending \/ ~Writable(c)
    BY <1>1 DEF HandlerSettles, Replies!vars
  <1>2. CASE ~queue[c].cancelPending /\ Writable(c)
    <2>1. /\ queue[c].stage = "handling" /\ UNCHANGED accepted
          /\ wire' = [wire EXCEPT ![c] = Append(@, Head(j))]
      BY <1>2 DEF HandlerSettles
    <2>2. j # <<>>
      BY <2>1, ConnFacts DEF QueueOK
    <2>3. /\ Len(j) \in Nat /\ Len(j) > 0 /\ Head(j) = j[1] /\ l \in Nat /\ a \in Nat
      BY <2>2, ConnFacts DEF ConnType
    <2>4. /\ \A i \in 1..Len(j) : j[i] = a - Len(j) + i
          /\ Len(j) <= a
          /\ l = a - Len(j)
          /\ \A i \in 1..l : wire[c][i] = i
      BY <1>2, <2>1, <2>3, ConnFacts DEF QueueOK, Writable
    <2>5. Head(j) = l + 1 /\ l < a
      <3> HIDE DEF l, a, j
      <3>1. 1 \in 1..Len(j) /\ j[1] = a - Len(j) + 1
        BY <2>3, <2>4
      <3> QED
        BY <2>3, <2>4, <3>1
    <2>6. ~Replies!Ended(c)
      <3>1. SUFFICES ASSUME wire[c] # <<>> PROVE wire[c][l] # 0
        BY DEF Replies!Ended, Replies!Terminal
      <3>2. l > 0
        <4>1. wire[c] \in Seq(0..MaxLines)
          BY ConnFacts DEF ConnType
        <4> QED
          BY <3>1, <4>1, EmptySeq
      <3> QED
        BY <2>3, <2>4, <3>2
    <2>7. wire' = [wire EXCEPT ![c] = Append(@, Len(@) + 1)]
      BY <2>1, <2>5
    <2> QED
      BY <2>1, <2>5, <2>6, <2>7 DEF Replies!Reply
  <1> QED
    BY <1>1, <1>2

LEMMA FailStep ==
  ASSUME IInv, NEW c \in Conn, WriteTerminal(c)
  PROVE  Replies!Fail(c) \/ UNCHANGED Replies!vars
  <1>1. CASE ~Writable(c)
    BY <1>1 DEF WriteTerminal, Replies!vars
  <1>2. CASE Writable(c)
    <2>1. ~Replies!Ended(c)
      BY ConnFacts DEF WriteTerminal, QueueOK, Replies!Ended, Replies!Terminal, Terminal
    <2> QED
      BY <1>2, <2>1 DEF WriteTerminal, Replies!Fail, Replies!Terminal, Terminal
  <1> QED
    BY <1>1, <1>2

\* What a client may rely on: every line the server took is answered in its turn,
\* none twice and none skipped, and nothing follows the terminal frame.
THEOREM ServerImplementsOrderedReplies == Spec => RepliesInOrder
  <1>1. Init => Replies!Init
    BY DEF Init, Replies!Init
  <1>2. ASSUME IInv, IInv', [Next]_vars
        PROVE  [Replies!Next]_(Replies!vars)
    <2>1. ASSUME NEW c \in Conn, Environment(c)
          PROVE  (\E d \in Conn : Replies!Accept(d)) \/ UNCHANGED Replies!vars
      BY <1>2, <2>1, AcceptStep
         DEF Environment, Connect, BadFrame, Disconnect, Replies!vars
    <2>2. ASSUME NEW c \in Conn, Progress(c)
          PROVE  (\E d \in Conn : Replies!Reply(d) \/ Replies!Fail(d)) \/ UNCHANGED Replies!vars
      BY <1>2, <2>2, ReplyStep, FailStep DEF Progress, StartJob, CloseEvent, Replies!vars
    <2>3. ASSUME NEW c \in Conn, WriteSettles(c) \/ TerminalSettles(c)
          PROVE  UNCHANGED Replies!vars
      BY <2>3 DEF WriteSettles, TerminalSettles, Replies!vars
    <2>4. CASE Closing
      BY <2>4 DEF Closing, Close, ServerClosed, ShutdownHandler, Replies!vars
    <2>5. CASE UNCHANGED vars
      BY <2>5 DEF vars, Replies!vars
    <2> QED
      BY <1>2, <2>1, <2>2, <2>3, <2>4, <2>5 DEF Next, Replies!Next
  <1> QED
    BY <1>1, <1>2, PipeInvariant, PTL DEF Spec, Replies!Spec, RepliesInOrder

-----------------------------------------------------------------------------
(* The frame decoder: the lines of a stream, whatever the chunks.            *)

Content == Byte \ {"nl"}   \* what a line is made of

RejectedFrame(s) == \E i \in Newlines(s) : ~Acceptable(s, i)

\* l holds the lines of the stream s that end at p or before: as many as there are
\* newlines, each where the count of the newlines before it puts it.
LinesUpTo(s, p, l) ==
    /\ l \in Seq(Seq(Content))
    /\ Len(l) = Cardinality(NewlinesUpTo(s, p))
    /\ \A i \in NewlinesUpTo(s, p) :
           LET n == Cardinality(NewlinesUpTo(s, i))
           IN  n \in 1..Len(l) /\ l[n] = StripCr(FrameEndingAt(s, i))
    /\ \A n \in 1..Len(l) :
           \E i \in NewlinesUpTo(s, p) : Cardinality(NewlinesUpTo(s, i)) = n

AcceptedUpTo(s, p, l) ==
    /\ LinesUpTo(s, p, l)
    /\ \A i \in NewlinesUpTo(s, p) : Acceptable(s, i)

\* A decoder that has not failed has delivered every line of the stream, found each
\* of them acceptable and buffers an unfinished end that still fits the limit; one
\* that has failed has seen a stream that deserves it.
DecoderInv ==
    /\ DecoderTypeOK
    /\ failure = "none" =>
           /\ buffer = Remainder(received)
           /\ Len(buffer) < MaxFrame
           /\ AcceptedUpTo(received, Len(received), lines)
    /\ failure # "none" => Rejected(received)

-----------------------------------------------------------------------------
(* Numbers, and the iteration behind the loop of push.                       *)

\* Induction, as the least counterexample.
LEMMA LeastOf ==
  ASSUME NEW S, S \subseteq Nat, S # {}
  PROVE  \E i \in S : \A j \in S : i <= j
<1> DEFINE R == {ss \in Nat \X Nat : ss[1] < ss[2]}
<1>1. R = OpToRel(<, Nat)
  BY DEF OpToRel
<1>2. IsWellFoundedOn(R, Nat)
  BY <1>1, NatLessThanWellFounded
<1>3. \E i \in S : \A j \in S : ~(<<j, i>> \in R)
  <2> HIDE DEF R
  <2> QED BY <1>2, WFMin
<1>4. \A i, j \in S : ~(<<j, i>> \in R) => i <= j
  OBVIOUS
<1> QED BY <1>3, <1>4

LEMMA GreatestOf ==
  ASSUME NEW n \in Nat, NEW S, S \subseteq 0..n, S # {}
  PROVE  \E i \in S : \A j \in S : j <= i
<1> DEFINE T == {k \in 0..n : n - k \in S}
<1>1. T \subseteq Nat /\ T # {}
  <2>1. PICK i \in S : TRUE
    OBVIOUS
  <2>2. n - i \in 0..n /\ n - (n - i) = i
    BY <2>1
  <2>3. n - i \in T
    BY <2>2
  <2>4. T # {}
    BY <2>3
  <2>5. T \subseteq Nat
    OBVIOUS
  <2> QED BY <2>4, <2>5
<1>2. PICK k \in T : \A j \in T : k <= j
  <2> HIDE DEF T
  <2> QED BY <1>1, LeastOf
<1>3. n - k \in S
  OBVIOUS
<1>4. \A j \in S : j <= n - k
  <2> TAKE j \in S
  <2>1. j \in 0..n /\ n - j \in 0..n /\ n - (n - j) = j
    OBVIOUS
  <2>2. n - j \in T
    BY <2>1
  <2>3. k <= n - j /\ k \in 0..n
    BY <1>2, <2>2
  <2> QED BY <2>1, <2>3
<1> QED BY <1>3, <1>4

\* The iteration of Turn exists, so the recursive function of Decode is what its
\* equation says.
Iterates(g, a, n) == g = [i \in 0..n |-> IF i = 0 THEN a ELSE Turn(g[i - 1])]

LEMMA IteratesValues ==
  ASSUME NEW g, NEW a, NEW n \in Nat, Iterates(g, a, n)
  PROVE  /\ g[0] = a
         /\ \A i \in 1..n : g[i] = Turn(g[i - 1])
<1> DEFINE v(i) == IF i = 0 THEN a ELSE Turn(g[i - 1])
<1>1. g = [i \in 0..n |-> v(i)]
  BY DEF Iterates
<1> HIDE DEF v
<1>2. \A i \in 0..n : g[i] = v(i)
  BY <1>1
<1>3. v(0) = a
  BY DEF v
<1>4. \A i \in 1..n : v(i) = Turn(g[i - 1])
  BY DEF v
<1> QED BY <1>2, <1>3, <1>4

\* Two iterations agree as far as both go.
LEMMA IteratesAgree ==
  ASSUME NEW a, NEW m \in Nat, NEW n \in Nat, NEW g, NEW h, Iterates(g, a, m), Iterates(h, a, n),
         NEW i \in Nat, i <= m, i <= n
  PROVE  g[i] = h[i]
<1> DEFINE S == {k \in Nat : k <= m /\ k <= n /\ g[k] # h[k]}
<1>1. SUFFICES S = {}
  OBVIOUS
<1>2. SUFFICES ASSUME S # {} PROVE FALSE
  OBVIOUS
<1>3. S \subseteq Nat
  OBVIOUS
<1>4. PICK k \in S : \A j \in S : k <= j
  <2> HIDE DEF S
  <2> QED BY <1>2, <1>3, LeastOf
<1>5. k # 0
  <2>1. g[0] = a /\ h[0] = a
    BY IteratesValues
  <2> QED BY <2>1
<1>6. k - 1 \in Nat /\ k \in 1..m /\ k \in 1..n /\ k - 1 <= m /\ k - 1 <= n
  BY <1>5
<1>7. g[k - 1] = h[k - 1]
  <2>1. k - 1 \notin S
    BY <1>4, <1>6
  <2> QED BY <1>6, <2>1
<1>8. g[k] = Turn(g[k - 1]) /\ h[k] = Turn(h[k - 1])
  BY <1>6, IteratesValues
<1>9. g[k] = h[k]
  BY <1>7, <1>8
<1> QED BY <1>9

LEMMA IteratesExist ==
  ASSUME NEW a, NEW n \in Nat
  PROVE  \E g : Iterates(g, a, n)
<1> DEFINE S == {k \in Nat : ~ \E g : Iterates(g, a, k)}
<1>1. SUFFICES ASSUME S # {} PROVE FALSE
  OBVIOUS
<1>2. S \subseteq Nat
  OBVIOUS
<1>3. PICK k \in S : \A j \in S : k <= j
  <2> HIDE DEF S
  <2> QED BY <1>1, <1>2, LeastOf
<1>4. k # 0
  <2> DEFINE g == [i \in 0..0 |-> a]
  <2>1. g = [i \in 0..0 |-> IF i = 0 THEN a ELSE Turn(g[i - 1])]
    OBVIOUS
  <2>2. Iterates(g, a, 0)
    BY <2>1 DEF Iterates
  <2> QED BY <2>2
<1>5. k - 1 \in Nat /\ k - 1 \notin S
  BY <1>3, <1>4
<1>6. PICK g : Iterates(g, a, k - 1)
  BY <1>5
<1> DEFINE h == [i \in 0..k |-> IF i = k THEN Turn(g[k - 1]) ELSE g[i]]
           v(i) == IF i = 0 THEN a ELSE Turn(h[i - 1])
<1>7. h[k] = Turn(g[k - 1]) /\ \A i \in 0..(k - 1) : h[i] = g[i]
  <2> HIDE DEF S
  <2> k \in Nat BY <1>2, <1>3
  <2> QED OBVIOUS
<1>8. \A i \in 0..k : h[i] = v(i)
  <2> TAKE i \in 0..k
  <2> HIDE DEF h
  <2>1. CASE i = 0
    BY <1>4, <1>5, <1>6, <1>7, <2>1, IteratesValues
  <2>2. CASE i \in 1..(k - 1)
    <3>1. g[i] = Turn(g[i - 1])
      BY <1>5, <1>6, <2>2, IteratesValues
    <3>2. h[i] = g[i] /\ h[i - 1] = g[i - 1]
      BY <1>7, <2>2
    <3> QED BY <2>2, <3>1, <3>2
  <2>3. CASE i = k
    BY <1>4, <1>5, <1>7, <2>3
  <2> QED BY <1>5, <2>1, <2>2, <2>3
<1>9. h = [i \in 0..k |-> v(i)]
  <2> HIDE DEF v
  <2> QED BY <1>8
<1>10. Iterates(h, a, k)
  BY <1>9 DEF Iterates
<1> QED BY <1>10

LEMMA TurnsExist ==
  ASSUME NEW a
  PROVE  \E f : f = [n \in Nat |-> IF n = 0 THEN a ELSE Turn(f[n - 1])]
<1> DEFINE g(n) == CHOOSE h : Iterates(h, a, n)
           f == [n \in Nat |-> g(n)[n]]
           v(n) == IF n = 0 THEN a ELSE Turn(f[n - 1])
<1>1. \A n \in Nat : Iterates(g(n), a, n)
  BY IteratesExist
<1> HIDE DEF g
<1>2. \A n \in Nat : f[n] = g(n)[n]
  OBVIOUS
<1>3. \A n \in Nat : f[n] = v(n)
  <2> TAKE n \in Nat
  <2> HIDE DEF f
  <2>1. CASE n = 0
    BY <1>1, <1>2, <2>1, IteratesValues
  <2>2. CASE n # 0
    <3>1. n - 1 \in Nat /\ n \in 1..n /\ n - 1 <= n
      BY <2>2
    <3>2. g(n)[n] = Turn(g(n)[n - 1])
      BY <1>1, <3>1, IteratesValues
    <3>3. g(n)[n - 1] = g(n - 1)[n - 1]
      BY <1>1, <3>1, IteratesAgree
    <3> QED BY <1>2, <2>2, <3>1, <3>2, <3>3
  <2> QED BY <2>1, <2>2
<1>4. f = [n \in Nat |-> v(n)]
  <2> HIDE DEF v
  <2> QED BY <1>3
<1> QED BY <1>4

\* Decode is its loop: a sequence of turns, read after as many as there are bytes.
LEMMA DecodeBatch ==
  ASSUME NEW bytes \in Seq(Byte)
  PROVE  \E turns :
           /\ turns[0] = [lines |-> <<>>, buffer |-> bytes, failure |-> "none"]
           /\ \A n \in Nat : n > 0 => turns[n] = Turn(turns[n - 1])
           /\ Decode(bytes) =
                IF turns[Len(bytes)].failure = "none" /\ RestTooLong(turns[Len(bytes)].buffer)
                THEN Failed("payload-too-large")
                ELSE turns[Len(bytes)]
<1> DEFINE a == [lines |-> <<>>, buffer |-> bytes, failure |-> "none"]
           f == CHOOSE f : f = [n \in Nat |-> IF n = 0 THEN a ELSE Turn(f[n - 1])]
           v(n) == IF n = 0 THEN a ELSE Turn(f[n - 1])
<1>1. f = [n \in Nat |-> IF n = 0 THEN a ELSE Turn(f[n - 1])]
  <2> HIDE DEF a
  <2> QED BY TurnsExist
<1>2. f = [n \in Nat |-> v(n)]
  BY <1>1
<1>3. Decode(bytes) = IF f[Len(bytes)].failure = "none" /\ RestTooLong(f[Len(bytes)].buffer)
                      THEN Failed("payload-too-large")
                      ELSE f[Len(bytes)]
  BY DEF Decode
<1> HIDE DEF f
<1>4. \A n \in Nat : f[n] = v(n)
  <2> HIDE DEF v
  <2> QED BY <1>2
<1>5. f[0] = a /\ \A n \in Nat : n > 0 => f[n] = Turn(f[n - 1])
  <2> HIDE DEF a
  <2>1. v(0) = a /\ \A n \in Nat : n > 0 => v(n) = Turn(f[n - 1])
    OBVIOUS
  <2> HIDE DEF v
  <2> QED BY <1>4, <2>1
<1> QED BY <1>3, <1>5

-----------------------------------------------------------------------------
(* The stream and its newlines.                                              *)

LineEnd(s, p) == p = 0 \/ p \in Newlines(s)

\* Previous is the last line end before i, and the only one.
LEMMA PreviousIs ==
  ASSUME NEW s \in Seq(Byte), NEW i \in 1..(Len(s) + 1)
  PROVE  /\ Previous(s, i) \in 0..(i - 1)
         /\ LineEnd(s, Previous(s, i))
         /\ \A k \in Newlines(s) : k < i => k <= Previous(s, i)
<1> DEFINE S == {j \in Newlines(s) : j < i}
<1>0. Len(s) \in Nat /\ i \in Nat /\ i - 1 \in Nat
  OBVIOUS
<1>1. S \subseteq 0..(i - 1)
  BY <1>0 DEF Newlines
<1>2. CASE S = {}
  <2>1. Previous(s, i) = 0
    BY <1>2 DEF Previous
  <2> QED BY <1>0, <1>2, <2>1 DEF LineEnd
<1>3. CASE S # {}
  <2>1. \E j \in S : \A k \in S : k <= j
    <3> HIDE DEF S
    <3> QED BY <1>0, <1>1, <1>3, GreatestOf
  <2>2. \E j \in Newlines(s) : j < i /\ \A k \in Newlines(s) : k < i => k <= j
    BY <2>1
  <2>3. Previous(s, i) = CHOOSE j \in Newlines(s) : j < i /\ \A k \in Newlines(s) : k < i => k <= j
    BY <1>3 DEF Previous
  <2>4. Previous(s, i) \in S /\ \A k \in Newlines(s) : k < i => k <= Previous(s, i)
    BY <2>2, <2>3
  <2> QED BY <1>1, <2>4 DEF LineEnd
<1> QED BY <1>2, <1>3

LEMMA PreviousUnique ==
  ASSUME NEW s \in Seq(Byte), NEW i \in 1..(Len(s) + 1), NEW p, LineEnd(s, p), p < i,
         \A k \in Newlines(s) : k < i => k <= p
  PROVE  Previous(s, i) = p
<1> DEFINE q == Previous(s, i)
<1>1. q \in 0..(i - 1) /\ LineEnd(s, q) /\ \A k \in Newlines(s) : k < i => k <= q
  BY PreviousIs
<1> HIDE DEF q
<1>2. Newlines(s) \subseteq 1..Len(s)
  BY DEF Newlines
<1>3. p \in Nat /\ q \in Nat /\ i \in Nat
  BY <1>1, <1>2 DEF LineEnd
<1>4. p <= q /\ q <= p
  BY <1>1, <1>2, <1>3 DEF LineEnd
<1>5. p = q
  BY <1>3, <1>4
<1> QED BY <1>5 DEF q

LEMMA NewlinesCounted ==
  ASSUME NEW s \in Seq(Byte)
  PROVE  /\ Newlines(s) \subseteq 1..Len(s)
         /\ \A p : /\ NewlinesUpTo(s, p) \subseteq Newlines(s)
                   /\ IsFiniteSet(NewlinesUpTo(s, p))
                   /\ Cardinality(NewlinesUpTo(s, p)) \in Nat
         /\ NewlinesUpTo(s, 0) = {} /\ Cardinality(NewlinesUpTo(s, 0)) = 0
         /\ NewlinesUpTo(s, Len(s)) = Newlines(s)
<1>0. Len(s) \in Nat
  OBVIOUS
<1>1. Newlines(s) \subseteq 1..Len(s)
  BY DEF Newlines
<1>2. IsFiniteSet(1..Len(s))
  BY <1>0, FS_Interval
<1>3. ASSUME NEW p
      PROVE  /\ NewlinesUpTo(s, p) \subseteq Newlines(s)
             /\ IsFiniteSet(NewlinesUpTo(s, p))
             /\ Cardinality(NewlinesUpTo(s, p)) \in Nat
  <2>1. NewlinesUpTo(s, p) \subseteq Newlines(s)
    BY DEF NewlinesUpTo
  <2>2. IsFiniteSet(NewlinesUpTo(s, p))
    BY <1>1, <1>2, <2>1, FS_Subset
  <2>3. Cardinality(NewlinesUpTo(s, p)) \in Nat
    BY <2>2, FS_CardinalityType
  <2> QED BY <2>1, <2>2, <2>3
<1>4. NewlinesUpTo(s, 0) = {}
  BY <1>0, <1>1 DEF NewlinesUpTo
<1>5. Cardinality(NewlinesUpTo(s, 0)) = 0
  BY <1>4, FS_EmptySet
<1>6. NewlinesUpTo(s, Len(s)) = Newlines(s)
  BY <1>0, <1>1 DEF NewlinesUpTo
<1> QED BY <1>1, <1>3, <1>4, <1>5, <1>6

LEMMA NextNewlineCounted ==
  ASSUME NEW s \in Seq(Byte), NEW p, LineEnd(s, p), NEW q \in Newlines(s), p < q,
         \A k \in Newlines(s) : k < q => k <= p
  PROVE  /\ NewlinesUpTo(s, q) = NewlinesUpTo(s, p) \cup {q}
         /\ Cardinality(NewlinesUpTo(s, q)) = Cardinality(NewlinesUpTo(s, p)) + 1
<1>0. Newlines(s) \subseteq 1..Len(s) /\ Len(s) \in Nat
  BY NewlinesCounted
<1>1. p \in Nat /\ q \in Nat
  BY <1>0 DEF LineEnd
<1>2. NewlinesUpTo(s, q) = NewlinesUpTo(s, p) \cup {q}
  <2>1. \A k \in Newlines(s) : k <= q <=> k <= p \/ k = q
    <3> TAKE k \in Newlines(s)
    <3>1. k \in Nat
      BY <1>0
    <3>2. k < q \/ k = q \/ k > q
      BY <1>1, <3>1
    <3> QED BY <1>1, <3>1, <3>2
  <2> QED BY <2>1 DEF NewlinesUpTo
<1>3. q \notin NewlinesUpTo(s, p)
  BY <1>1 DEF NewlinesUpTo
<1>4. IsFiniteSet(NewlinesUpTo(s, p))
  BY NewlinesCounted
<1>5. Cardinality(NewlinesUpTo(s, p) \cup {q}) = Cardinality(NewlinesUpTo(s, p)) + 1
  BY <1>3, <1>4, FS_AddElement
<1> QED BY <1>2, <1>5

LEMMA SubSeqTyped ==
  ASSUME NEW s \in Seq(Byte), NEW i \in 1..(Len(s) + 1), NEW j \in 0..Len(s)
  PROVE  /\ SubSeq(s, i, j) \in Seq(Byte)
         /\ Len(SubSeq(s, i, j)) = IF i <= j THEN j - i + 1 ELSE 0
         /\ \A k \in 1..(j - i + 1) : SubSeq(s, i, j)[k] = s[i + k - 1]
<1>1. i \in Int /\ j \in Int /\ \A k \in i..j : s[k] \in Byte
  <2>1. Len(s) \in Nat /\ \A k \in 1..Len(s) : s[k] \in Byte
    OBVIOUS
  <2> QED BY <2>1
<1> QED BY <1>1, SubSeqProperties

LEMMA FrameTyped ==
  ASSUME NEW s \in Seq(Byte), NEW i \in 1..(Len(s) + 1)
  PROVE  /\ SubSeq(s, Previous(s, i) + 1, i - 1) \in Seq(Content)
         /\ StripCr(SubSeq(s, Previous(s, i) + 1, i - 1)) \in Seq(Content)
<1> DEFINE p == Previous(s, i)
           f == SubSeq(s, p + 1, i - 1)
<1>0. Len(s) \in Nat /\ i \in Nat
  OBVIOUS
<1>1. p \in 0..(i - 1) /\ \A k \in Newlines(s) : k < i => k <= p
  BY PreviousIs
<1> HIDE DEF p
<1>2. p \in Nat /\ p + 1 \in 1..(Len(s) + 1) /\ i - 1 \in 0..Len(s)
  BY <1>0, <1>1
<1>3. \A k \in (p + 1)..(i - 1) : s[k] \in Content
  <2> TAKE k \in (p + 1)..(i - 1)
  <2>1. k \in 1..Len(s) /\ k < i /\ ~(k <= p)
    BY <1>0, <1>1, <1>2
  <2>2. k \notin Newlines(s)
    BY <1>1, <2>1
  <2>3. s[k] # "nl"
    BY <2>1, <2>2 DEF Newlines
  <2>4. s[k] \in Byte
    BY <2>1
  <2> QED BY <2>3, <2>4 DEF Content
<1>4. f \in Seq(Content)
  BY <1>2, <1>3, SubSeqProperties
<1>5. ASSUME NEW g \in Seq(Content) PROVE StripCr(g) \in Seq(Content)
  <2>1. CASE g = <<>>
    BY <2>1 DEF StripCr
  <2>2. CASE g # <<>>
    <3>1. Len(g) - 1 \in Int /\ 1 \in Int /\ \A k \in 1..(Len(g) - 1) : g[k] \in Content
      OBVIOUS
    <3>2. SubSeq(g, 1, Len(g) - 1) \in Seq(Content)
      BY <3>1, SubSeqProperties
    <3> QED BY <3>2 DEF StripCr, Front
  <2> QED BY <2>1, <2>2
<1> QED BY <1>4, <1>5 DEF p

\* What the stream says of its first bytes does not depend on what follows.
LEMMA PrefixStable ==
  ASSUME NEW s \in Seq(Byte), NEW c \in Seq(Byte)
  PROVE  /\ s \o c \in Seq(Byte) /\ Len(s \o c) = Len(s) + Len(c)
         /\ \A i \in 1..Len(s) : i \in Newlines(s \o c) <=> i \in Newlines(s)
         /\ \A i \in 1..(Len(s) + 1) : Previous(s \o c, i) = Previous(s, i)
         /\ \A p \in 0..Len(s) : NewlinesUpTo(s \o c, p) = NewlinesUpTo(s, p)
         /\ \A i \in 1..Len(s) : FrameEndingAt(s \o c, i) = FrameEndingAt(s, i)
         /\ \A i \in 1..Len(s) : Acceptable(s \o c, i) <=> Acceptable(s, i)
<1> DEFINE t == s \o c
<1>0. Len(s) \in Nat /\ Len(c) \in Nat
  OBVIOUS
<1>1. /\ t \in Seq(Byte) /\ Len(t) = Len(s) + Len(c)
      /\ \A i \in 1..Len(s) : t[i] = s[i]
  <2>1. /\ t \in Seq(Byte) /\ Len(t) = Len(s) + Len(c)
        /\ \A i \in 1..(Len(s) + Len(c)) : t[i] = IF i <= Len(s) THEN s[i] ELSE c[i - Len(s)]
    BY ConcatProperties
  <2> HIDE DEF t
  <2> QED BY <1>0, <2>1
<1> HIDE DEF t
<1>2. \A i \in 1..Len(s) : i \in Newlines(t) <=> i \in Newlines(s)
  BY <1>0, <1>1 DEF Newlines
<1>3. ASSUME NEW i \in 1..(Len(s) + 1) PROVE Previous(t, i) = Previous(s, i)
  <2> DEFINE p == Previous(s, i)
  <2>1. p \in 0..(i - 1) /\ LineEnd(s, p) /\ \A k \in Newlines(s) : k < i => k <= p
    BY PreviousIs
  <2> HIDE DEF p
  <2>2. LineEnd(t, p)
    BY <1>0, <1>2, <2>1 DEF LineEnd
  <2>3. \A k \in Newlines(t) : k < i => k <= p
    <3> SUFFICES ASSUME NEW k \in Newlines(t), k < i PROVE k <= p
      OBVIOUS
    <3>1. k \in 1..Len(t)
      BY DEF Newlines
    <3>2. k \in 1..Len(s)
      BY <1>0, <1>1, <3>1
    <3> QED BY <1>2, <2>1, <3>2
  <2>4. i \in 1..(Len(t) + 1) /\ p < i
    BY <1>0, <1>1, <2>1
  <2>5. Previous(t, i) = p
    BY <1>1, <2>2, <2>3, <2>4, PreviousUnique
  <2> QED BY <2>5 DEF p
<1>4. ASSUME NEW p \in 0..Len(s) PROVE NewlinesUpTo(t, p) = NewlinesUpTo(s, p)
  <2>1. Newlines(t) \subseteq 1..Len(t) /\ Newlines(s) \subseteq 1..Len(s)
    BY DEF Newlines
  <2>2. \A k : k \in NewlinesUpTo(t, p) <=> k \in NewlinesUpTo(s, p)
    BY <1>0, <1>1, <1>2, <2>1 DEF NewlinesUpTo
  <2> QED BY <2>2
<1>5. ASSUME NEW i \in 1..Len(s) PROVE FrameEndingAt(t, i) = FrameEndingAt(s, i)
  <2> DEFINE p == Previous(s, i)
  <2>1. p \in 0..(i - 1) /\ Previous(t, i) = p /\ i \in 1..(Len(s) + 1)
    BY <1>0, <1>3, PreviousIs
  <2> HIDE DEF p
  <2>2. SubSeq(t, p + 1, i - 1) = SubSeq(s, p + 1, i - 1)
    <3>1. CASE i - 1 < p + 1
      <4>1. p + 1 \in Int /\ i - 1 \in Int
        BY <2>1
      <4> QED BY <3>1, <4>1, SubSeqEmpty
    <3>2. CASE p + 1 <= i - 1
      <4>1. p + 1 \in 1..Len(s) /\ i - 1 \in 1..Len(s)
        BY <1>0, <2>1, <3>2
      <4> QED BY <4>1, SubSeqOfConcat1 DEF t
    <3> QED BY <2>1, <3>1, <3>2
  <2> QED BY <2>1, <2>2 DEF FrameEndingAt, p
<1>6. \A i \in 1..Len(s) : Acceptable(t, i) <=> Acceptable(s, i)
  <2> TAKE i \in 1..Len(s)
  <2>1. i \in 1..(Len(s) + 1)
    BY <1>0
  <2> QED BY <1>3, <1>5, <2>1 DEF Acceptable
<1> QED BY <1>1, <1>2, <1>3, <1>4, <1>5, <1>6 DEF t

LEMMA AcceptedPrefix ==
  ASSUME NEW s \in Seq(Byte), NEW c \in Seq(Byte), NEW p \in 0..Len(s), NEW l,
         AcceptedUpTo(s, p, l)
  PROVE  AcceptedUpTo(s \o c, p, l)
<1> DEFINE t == s \o c
<1>0. Len(s) \in Nat
  OBVIOUS
<1>1. NewlinesUpTo(t, p) = NewlinesUpTo(s, p)
  BY PrefixStable
<1>2. \A i \in NewlinesUpTo(s, p) : i \in 1..Len(s) /\ i \in 0..Len(s)
  <2>1. Newlines(s) \subseteq 1..Len(s)
    BY NewlinesCounted
  <2> QED BY <1>0, <2>1 DEF NewlinesUpTo
<1>3. \A i \in NewlinesUpTo(s, p) :
         /\ NewlinesUpTo(t, i) = NewlinesUpTo(s, i)
         /\ FrameEndingAt(t, i) = FrameEndingAt(s, i)
         /\ Acceptable(t, i) <=> Acceptable(s, i)
  BY <1>2, PrefixStable
<1> HIDE DEF t
<1>4. LinesUpTo(s, p, l) /\ \A i \in NewlinesUpTo(s, p) : Acceptable(s, i)
  BY DEF AcceptedUpTo
<1>5. LinesUpTo(t, p, l)
  BY <1>1, <1>3, <1>4 DEF LinesUpTo
<1> QED BY <1>1, <1>3, <1>4, <1>5 DEF AcceptedUpTo, t

-----------------------------------------------------------------------------
(* One turn of the loop.                                                     *)

\* NewlineIn is the first newline.
LEMMA NewlineInIs ==
  ASSUME NEW b \in Seq(Byte)
  PROVE  \/ /\ NewlineIn(b) = 0
            /\ \A i \in 1..Len(b) : b[i] # "nl"
         \/ /\ NewlineIn(b) \in 1..Len(b)
            /\ b[NewlineIn(b)] = "nl"
            /\ \A i \in 1..(NewlineIn(b) - 1) : b[i] # "nl"
<1>0. Len(b) \in Nat
  OBVIOUS
<1>1. CASE ~Contains(b, "nl")
  BY <1>1 DEF NewlineIn, Contains
<1>2. CASE Contains(b, "nl")
  <2> DEFINE S == {i \in 1..Len(b) : b[i] = "nl"}
             First == CHOOSE i \in 1..Len(b) : b[i] = "nl" /\ ~Contains(SubSeq(b, 1, i - 1), "nl")
  <2>1. \A i \in 1..Len(b) : Contains(SubSeq(b, 1, i - 1), "nl") <=> \E j \in 1..(i - 1) : b[j] = "nl"
    <3> TAKE i \in 1..Len(b)
    <3> DEFINE f == SubSeq(b, 1, i - 1)
    <3>1. 1 \in 1..(Len(b) + 1) /\ i - 1 \in 0..Len(b)
      BY <1>0
    <3>2. /\ Len(f) = i - 1
          /\ \A k \in 1..(i - 1) : f[k] = b[k]
      <4>1. /\ Len(f) = IF 1 <= i - 1 THEN i - 1 - 1 + 1 ELSE 0
            /\ \A k \in 1..(i - 1 - 1 + 1) : f[k] = b[1 + k - 1]
        BY <3>1, SubSeqTyped
      <4> HIDE DEF f
      <4> QED BY <1>0, <4>1
    <3> HIDE DEF f
    <3>3. Contains(f, "nl") <=> \E j \in 1..(i - 1) : b[j] = "nl"
      BY <3>2 DEF Contains
    <3> QED BY <3>3 DEF f
  <2>2. S \subseteq Nat /\ S # {}
    BY <1>2 DEF Contains
  <2>3. PICK i \in S : \A j \in S : i <= j
    <3> HIDE DEF S
    <3> QED BY <2>2, LeastOf
  <2>4. \A j \in 1..(i - 1) : b[j] # "nl"
    <3> SUFFICES ASSUME NEW j \in 1..(i - 1), b[j] = "nl" PROVE FALSE
      OBVIOUS
    <3>1. j \in 1..Len(b) /\ j < i /\ i \in Nat /\ j \in Nat
      BY <1>0
    <3>2. j \in S
      BY <3>1
    <3> QED BY <2>3, <3>1, <3>2
  <2>5. i \in 1..Len(b) /\ b[i] = "nl" /\ ~Contains(SubSeq(b, 1, i - 1), "nl")
    BY <2>1, <2>4
  <2>6. First \in 1..Len(b) /\ b[First] = "nl" /\ ~Contains(SubSeq(b, 1, First - 1), "nl")
    BY <2>5
  <2>7. NewlineIn(b) = First
    BY <1>2 DEF NewlineIn
  <2> HIDE DEF First
  <2> QED BY <2>1, <2>6, <2>7
<1> QED BY <1>1, <1>2

LEMMA RestTyped ==
  ASSUME NEW s \in Seq(Byte), NEW p \in 0..Len(s)
  PROVE  /\ SubSeq(s, p + 1, Len(s)) \in Seq(Byte)
         /\ Len(SubSeq(s, p + 1, Len(s))) = Len(s) - p
         /\ \A k \in 1..(Len(s) - p) : SubSeq(s, p + 1, Len(s))[k] = s[p + k]
<1> DEFINE i == p + 1
           b == SubSeq(s, i, Len(s))
<1>0. Len(s) \in Nat /\ p \in Nat /\ i \in 1..(Len(s) + 1) /\ Len(s) \in 0..Len(s)
  OBVIOUS
<1> HIDE DEF i
<1>1. /\ b \in Seq(Byte)
      /\ Len(b) = IF i <= Len(s) THEN Len(s) - i + 1 ELSE 0
      /\ \A k \in 1..(Len(s) - i + 1) : b[k] = s[i + k - 1]
  BY <1>0, SubSeqTyped
<1> HIDE DEF b
<1>2. Len(b) = Len(s) - p
  BY <1>0, <1>1 DEF i
<1>3. \A k \in 1..(Len(s) - p) : b[k] = s[p + k]
  <2> TAKE k \in 1..(Len(s) - p)
  <2>1. k \in 1..(Len(s) - i + 1) /\ i + k - 1 = p + k
    BY <1>0 DEF i
  <2> QED BY <1>1, <2>1
<1> QED BY <1>1, <1>2, <1>3 DEF b, i

LEMMA SubSeqOfRest ==
  ASSUME NEW s \in Seq(Byte), NEW p \in 0..Len(s), NEW b, b = SubSeq(s, p + 1, Len(s)),
         NEW i \in 1..(Len(b) + 1), NEW j \in 0..Len(b)
  PROVE  /\ b \in Seq(Byte) /\ Len(b) = Len(s) - p
         /\ \A k \in 1..Len(b) : b[k] = s[p + k]
         /\ SubSeq(b, i, j) = SubSeq(s, p + i, p + j)
<1>0. Len(s) \in Nat /\ p \in Nat
  OBVIOUS
<1>1. /\ b \in Seq(Byte) /\ Len(b) = Len(s) - p
      /\ \A k \in 1..(Len(s) - p) : b[k] = s[p + k]
  BY RestTyped
<1>2. Len(b) = Len(s) - p
  BY <1>1
<1>3. \A k \in 1..Len(b) : b[k] = s[p + k]
  BY <1>1, <1>2
<1> DEFINE f == SubSeq(b, i, j)
           g == SubSeq(s, p + i, p + j)
<1>4. /\ f \in Seq(Byte)
      /\ Len(f) = IF i <= j THEN j - i + 1 ELSE 0
      /\ \A k \in 1..(j - i + 1) : f[k] = b[i + k - 1]
  BY <1>1, SubSeqTyped
<1>5. p + i \in 1..(Len(s) + 1) /\ p + j \in 0..Len(s) /\ i \in Nat /\ j \in Nat
  BY <1>0, <1>2
<1>6. /\ g \in Seq(Byte)
      /\ Len(g) = IF p + i <= p + j THEN p + j - (p + i) + 1 ELSE 0
      /\ \A k \in 1..(p + j - (p + i) + 1) : g[k] = s[p + i + k - 1]
  <2> DEFINE x == p + i
             y == p + j
  <2>1. x \in 1..(Len(s) + 1) /\ y \in 0..Len(s)
    BY <1>5
  <2> HIDE DEF x, y
  <2>2. /\ SubSeq(s, x, y) \in Seq(Byte)
        /\ Len(SubSeq(s, x, y)) = IF x <= y THEN y - x + 1 ELSE 0
        /\ \A k \in 1..(y - x + 1) : SubSeq(s, x, y)[k] = s[x + k - 1]
    BY <2>1, SubSeqTyped
  <2> QED BY <2>2 DEF x, y
<1> HIDE DEF f, g
<1>7. Len(f) = Len(g) /\ Len(f) = IF i <= j THEN j - i + 1 ELSE 0
  BY <1>0, <1>4, <1>5, <1>6
<1>8. \A k \in 1..Len(f) : f[k] = g[k]
  <2> TAKE k \in 1..Len(f)
  <2>1. k \in Nat /\ k \in 1..(j - i + 1) /\ k \in 1..(p + j - (p + i) + 1)
    BY <1>0, <1>5, <1>7
  <2>2. i + k - 1 \in 1..Len(b) /\ p + (i + k - 1) = p + i + k - 1
    BY <1>0, <1>5, <2>1
  <2>3. f[k] = b[i + k - 1] /\ g[k] = s[p + i + k - 1]
    BY <1>4, <1>6, <2>1
  <2>4. b[i + k - 1] = s[p + (i + k - 1)]
    BY <1>3, <2>2
  <2> QED BY <2>2, <2>3, <2>4
<1>9. f = g
  BY <1>4, <1>6, <1>7, <1>8, SeqEqual
<1> QED BY <1>1, <1>2, <1>3, <1>9 DEF f, g

\* The first newline of the buffer is the next newline of the stream.
LEMMA NewlineOfRest ==
  ASSUME NEW s \in Seq(Byte), NEW p \in 0..Len(s), LineEnd(s, p), NEW b, b = SubSeq(s, p + 1, Len(s))
  PROVE  /\ b \in Seq(Byte) /\ Len(b) = Len(s) - p
         /\ NewlineIn(b) = 0 => \A k \in Newlines(s) : k <= p
         /\ NewlineIn(b) # 0 =>
              /\ NewlineIn(b) \in 1..Len(b)
              /\ p + NewlineIn(b) \in Newlines(s)
              /\ \A k \in Newlines(s) : k < p + NewlineIn(b) => k <= p
              /\ Previous(s, p + NewlineIn(b)) = p
              /\ SubSeq(b, 1, NewlineIn(b) - 1) = FrameEndingAt(s, p + NewlineIn(b))
              /\ SubSeq(b, NewlineIn(b) + 1, Len(b)) = SubSeq(s, p + NewlineIn(b) + 1, Len(s))
<1> DEFINE n == NewlineIn(b)
<1>0. Len(s) \in Nat /\ p \in Nat /\ Newlines(s) \subseteq 1..Len(s)
  BY DEF Newlines
<1>1. /\ b \in Seq(Byte) /\ Len(b) = Len(s) - p
      /\ \A k \in 1..Len(b) : b[k] = s[p + k]
  <2>1. /\ b \in Seq(Byte) /\ Len(b) = Len(s) - p
        /\ \A k \in 1..(Len(s) - p) : b[k] = s[p + k]
    BY RestTyped
  <2> QED BY <2>1
<1>2. \A i \in 1..(Len(b) + 1), j \in 0..Len(b) : SubSeq(b, i, j) = SubSeq(s, p + i, p + j)
  BY SubSeqOfRest
<1>3. \A k \in Newlines(s) : k > p => k - p \in 1..Len(b) /\ b[k - p] = "nl"
  <2> TAKE k \in Newlines(s)
  <2> HAVE k > p
  <2>1. k - p \in 1..Len(b) /\ p + (k - p) = k
    BY <1>0, <1>1
  <2>2. s[k] = "nl"
    BY DEF Newlines
  <2> QED BY <1>1, <2>1, <2>2
<1>4. \/ n = 0 /\ \A i \in 1..Len(b) : b[i] # "nl"
      \/ n \in 1..Len(b) /\ b[n] = "nl" /\ \A i \in 1..(n - 1) : b[i] # "nl"
  BY <1>1, NewlineInIs
<1> HIDE DEF n
<1>5. CASE n = 0
  <2>1. \A k \in Newlines(s) : k <= p
    <3> TAKE k \in Newlines(s)
    <3>1. ~(k > p)
      <4>1. k > p => k - p \in 1..Len(b) /\ b[k - p] = "nl"
        BY <1>3
      <4>2. \A i \in 1..Len(b) : b[i] # "nl"
        BY <1>4, <1>5
      <4> QED BY <4>1, <4>2
    <3> QED BY <1>0, <3>1
  <2> QED BY <1>1, <1>5, <2>1 DEF n
<1>6. CASE n # 0
  <2>1. n \in 1..Len(b) /\ b[n] = "nl" /\ \A i \in 1..(n - 1) : b[i] # "nl"
    BY <1>4, <1>6
  <2>2. p + n \in 1..Len(s) /\ n \in Nat
    BY <1>0, <1>1, <2>1
  <2>3. p + n \in Newlines(s)
    BY <1>1, <2>1, <2>2 DEF Newlines
  <2>4. \A k \in Newlines(s) : k < p + n => k <= p
    <3> SUFFICES ASSUME NEW k \in Newlines(s), k < p + n, ~(k <= p) PROVE FALSE
      OBVIOUS
    <3>1. k \in Nat /\ k > p
      BY <1>0
    <3>2. k - p \in 1..(n - 1)
      BY <1>0, <2>2, <3>1
    <3> QED BY <1>3, <2>1, <3>1, <3>2
  <2>5. Previous(s, p + n) = p
    <3>1. p + n \in 1..(Len(s) + 1) /\ p < p + n
      BY <1>0, <2>1, <2>2
    <3> QED BY <2>4, <3>1, PreviousUnique
  <2>6. /\ 1 \in 1..(Len(b) + 1) /\ n - 1 \in 0..Len(b)
        /\ n + 1 \in 1..(Len(b) + 1) /\ Len(b) \in 0..Len(b)
        /\ p + Len(b) = Len(s) /\ p + (n - 1) = (p + n) - 1 /\ p + (n + 1) = p + n + 1
    BY <1>0, <1>1, <2>1
  <2>7. SubSeq(b, 1, n - 1) = SubSeq(s, p + 1, p + (n - 1))
    <3> DEFINE i == 1
               j == n - 1
    <3>1. i \in 1..(Len(b) + 1) /\ j \in 0..Len(b)
      BY <2>6
    <3> HIDE DEF i, j
    <3>2. SubSeq(b, i, j) = SubSeq(s, p + i, p + j)
      BY <1>2, <3>1
    <3> QED BY <3>2 DEF i, j
  <2>8. SubSeq(b, n + 1, Len(b)) = SubSeq(s, p + (n + 1), p + Len(b))
    <3> DEFINE i == n + 1
               j == Len(b)
    <3>1. i \in 1..(Len(b) + 1) /\ j \in 0..Len(b)
      BY <2>6
    <3> HIDE DEF i, j
    <3>2. SubSeq(b, i, j) = SubSeq(s, p + i, p + j)
      BY <1>2, <3>1
    <3> QED BY <3>2 DEF i, j
  <2>9. SubSeq(b, 1, n - 1) = FrameEndingAt(s, p + n)
    <3>1. FrameEndingAt(s, p + n) = SubSeq(s, p + 1, (p + n) - 1)
      <4> DEFINE q == p + n
      <4>1. Previous(s, q) = p
        BY <2>5
      <4> HIDE DEF q
      <4>2. FrameEndingAt(s, q) = SubSeq(s, p + 1, q - 1)
        BY <4>1 DEF FrameEndingAt
      <4> QED BY <4>2 DEF q
    <3> QED BY <2>6, <2>7, <3>1
  <2>10. SubSeq(b, n + 1, Len(b)) = SubSeq(s, p + n + 1, Len(s))
    BY <2>6, <2>8
  <2> QED BY <1>1, <1>6, <2>1, <2>3, <2>4, <2>5, <2>9, <2>10 DEF n
<1> QED BY <1>5, <1>6

\* The next line of the stream, delivered.
LEMMA LineAccepted ==
  ASSUME NEW s \in Seq(Byte), NEW p \in 0..Len(s), LineEnd(s, p), NEW q \in Newlines(s), p < q,
         \A k \in Newlines(s) : k < q => k <= p,
         NEW l, AcceptedUpTo(s, p, l), Acceptable(s, q)
  PROVE  AcceptedUpTo(s, q, l \o <<StripCr(FrameEndingAt(s, q))>>)
<1> DEFINE line == StripCr(FrameEndingAt(s, q))
           m == l \o <<line>>
           count(i) == Cardinality(NewlinesUpTo(s, i))
<1>0. Len(s) \in Nat /\ q \in 1..Len(s) /\ q \in 1..(Len(s) + 1)
  BY NewlinesCounted
<1>1. line \in Seq(Content)
  <2>1. StripCr(SubSeq(s, Previous(s, q) + 1, q - 1)) \in Seq(Content)
    BY <1>0, FrameTyped
  <2> QED BY <2>1 DEF FrameEndingAt
<1>2. /\ l \in Seq(Seq(Content))
      /\ Len(l) = count(p)
      /\ \A i \in NewlinesUpTo(s, p) : count(i) \in 1..Len(l) /\ l[count(i)] = StripCr(FrameEndingAt(s, i))
      /\ \A n \in 1..Len(l) : \E i \in NewlinesUpTo(s, p) : count(i) = n
      /\ \A i \in NewlinesUpTo(s, p) : Acceptable(s, i)
  BY DEF AcceptedUpTo, LinesUpTo
<1>3. NewlinesUpTo(s, q) = NewlinesUpTo(s, p) \cup {q} /\ count(q) = count(p) + 1
  BY NextNewlineCounted
<1> DEFINE upto == NewlinesUpTo(s, p)
           frame(i) == StripCr(FrameEndingAt(s, i))
<1> HIDE DEF line, count
<1>4. /\ m \in Seq(Seq(Content))
      /\ Len(m) = Len(l) + 1
      /\ \A i \in 1..Len(l) : m[i] = l[i]
      /\ m[Len(l) + 1] = line
  <2> DEFINE w == <<line>>
  <2>1. w \in Seq(Seq(Content)) /\ Len(w) = 1 /\ w[1] = line
    BY <1>1
  <2> HIDE DEF w
  <2>2. /\ l \o w \in Seq(Seq(Content)) /\ Len(l \o w) = Len(l) + Len(w)
        /\ \A i \in 1..(Len(l) + Len(w)) : (l \o w)[i] = IF i <= Len(l) THEN l[i] ELSE w[i - Len(l)]
    BY <1>2, <2>1, ConcatProperties
  <2>3. Len(l) \in Nat /\ (Len(l) + 1) - Len(l) = 1
    BY <1>2
  <2>4. m = l \o w
    BY DEF w
  <2> HIDE DEF m
  <2> QED BY <2>1, <2>2, <2>3, <2>4
<1>5. Len(l) \in Nat
  BY <1>2
<1> HIDE DEF m
<1>6. \A i \in upto \cup {q} : count(i) \in 1..Len(m) /\ m[count(i)] = frame(i)
  <2>1. ASSUME NEW i \in upto PROVE count(i) \in 1..Len(m) /\ m[count(i)] = frame(i)
    <3>1. count(i) \in 1..Len(l) /\ l[count(i)] = frame(i)
      BY <1>2
    <3> HIDE DEF frame
    <3> QED BY <1>4, <1>5, <3>1
  <2>2. count(q) \in 1..Len(m) /\ m[count(q)] = frame(q)
    <3>1. count(q) = Len(l) + 1
      BY <1>2, <1>3
    <3>2. frame(q) = line
      BY DEF line
    <3> HIDE DEF frame
    <3> QED BY <1>4, <1>5, <3>1, <3>2
  <2> QED BY <2>1, <2>2
<1>7. \A n \in 1..Len(m) : \E i \in upto \cup {q} : count(i) = n
  <2> TAKE n \in 1..Len(m)
  <2>1. n \in 1..Len(l) \/ n = count(q)
    BY <1>2, <1>3, <1>4, <1>5
  <2> QED BY <1>2, <2>1
<1>8. Len(m) = count(q)
  BY <1>2, <1>3, <1>4
<1>9. LinesUpTo(s, q, m)
  BY <1>3, <1>4, <1>6, <1>7, <1>8 DEF LinesUpTo, count
<1>10. \A i \in NewlinesUpTo(s, q) : Acceptable(s, i)
  BY <1>2, <1>3
<1> QED BY <1>9, <1>10 DEF AcceptedUpTo, m, line

\* Where the loop is after n turns, on the stream s of which l was delivered before.
\* A joined buffer of m bytes leaves no newline after m turns.
Decoding(s, l, m, n, t) ==
    \/ /\ t.failure = "none"
       /\ t.lines \in Seq(Seq(Content))
       /\ \E p \in 0..Len(s) :
              /\ LineEnd(s, p)
              /\ t.buffer = SubSeq(s, p + 1, Len(s))
              /\ AcceptedUpTo(s, p, l \o t.lines)
       /\ Len(t.buffer) + n <= m \/ NewlineIn(t.buffer) = 0
    \/ /\ t.failure \in {"payload-too-large", "invalid-utf8"}
       /\ t.lines = <<>>
       /\ t.buffer = <<>>
       /\ RejectedFrame(s)

LEMMA NoNewlineInEmpty == NewlineIn(<<>>) = 0
<1>1. ~Contains(<<>>, "nl")
  <2>1. 1..Len(<<>>) = {}
    OBVIOUS
  <2> QED BY <2>1 DEF Contains
<1> QED BY <1>1 DEF NewlineIn

LEMMA FailedIs ==
  ASSUME NEW code
  PROVE  /\ Failed(code).failure = code
         /\ Failed(code).lines = <<>>
         /\ Failed(code).buffer = <<>>
BY DEF Failed

\* A turn moves the loop to the next newline of the stream, or fails on a bad frame.
LEMMA TurnDecodes ==
  ASSUME NEW s \in Seq(Byte), NEW l \in Seq(Seq(Content)), NEW m \in Nat, NEW n \in Nat, NEW t,
         Decoding(s, l, m, n, t)
  PROVE  Decoding(s, l, m, n + 1, Turn(t))
<1>0. Len(s) \in Nat
  OBVIOUS
<1>1. CASE t.failure # "none"
  <2>1. /\ t.failure \in {"payload-too-large", "invalid-utf8"} /\ t.lines = <<>> /\ t.buffer = <<>>
        /\ RejectedFrame(s)
    BY <1>1 DEF Decoding
  <2>2. Turn(t) = t
    BY <2>1, NoNewlineInEmpty DEF Turn
  <2> QED BY <2>1, <2>2 DEF Decoding
<1>2. CASE t.failure = "none"
  <2>1. /\ t.lines \in Seq(Seq(Content))
        /\ Len(t.buffer) + n <= m \/ NewlineIn(t.buffer) = 0
    BY <1>2 DEF Decoding
  <2>2. PICK p \in 0..Len(s) : /\ LineEnd(s, p)
                               /\ t.buffer = SubSeq(s, p + 1, Len(s))
                               /\ AcceptedUpTo(s, p, l \o t.lines)
    BY <1>2 DEF Decoding
  <2> DEFINE b == t.buffer
             k == NewlineIn(b)
             q == p + k
             frame == StripCr(SubSeq(b, 1, k - 1))
  <2>3. /\ b \in Seq(Byte) /\ Len(b) = Len(s) - p
        /\ k # 0 =>
              /\ k \in 1..Len(b)
              /\ q \in Newlines(s)
              /\ \A i \in Newlines(s) : i < q => i <= p
              /\ Previous(s, q) = p
              /\ SubSeq(b, 1, k - 1) = FrameEndingAt(s, q)
              /\ SubSeq(b, k + 1, Len(b)) = SubSeq(s, p + k + 1, Len(s))
    BY <2>2, NewlineOfRest
  <2>4. Turn(t) = IF k = 0 THEN t
                  ELSE IF FrameTooLong(k) THEN Failed("payload-too-large")
                  ELSE IF ~ValidUtf8(frame) THEN Failed("invalid-utf8")
                  ELSE [lines |-> Append(t.lines, frame), buffer |-> SubSeq(b, k + 1, Len(b)),
                        failure |-> "none"]
    BY DEF Turn
  <2>5. CASE k = 0
    <3>1. Turn(t) = t /\ NewlineIn(t.buffer) = 0
      BY <2>4, <2>5
    <3> HIDE DEF b, k, q
    <3> QED BY <1>2, <2>1, <2>2, <3>1 DEF Decoding
  <2>6. CASE k # 0
    <3>0. /\ k \in 1..Len(b) /\ q \in Newlines(s) /\ k \in Nat /\ p \in Nat
          /\ \A i \in Newlines(s) : i < q => i <= p
          /\ Previous(s, q) = p
          /\ frame = StripCr(FrameEndingAt(s, q))
          /\ SubSeq(b, k + 1, Len(b)) = SubSeq(s, p + k + 1, Len(s))
      <4>1. k \in 1..Len(b) /\ SubSeq(b, 1, k - 1) = FrameEndingAt(s, q)
        BY <2>3, <2>6
      <4>2. Len(b) \in Nat
        BY <2>3
      <4> HIDE DEF b, k, q
      <4>3. k \in Nat /\ p \in Nat
        BY <1>0, <4>1, <4>2
      <4> QED BY <2>3, <2>6, <4>1, <4>3 DEF q
    <3> HIDE DEF frame
    <3>1. Acceptable(s, q) <=> ~FrameTooLong(k) /\ ValidUtf8(frame)
      <4>1. q - p = k
        <5> HIDE DEF k
        <5> QED BY <3>0
      <4>2. MaxFrame \in Nat
        BY FrameAssumption
      <4> HIDE DEF b, k, q
      <4>3. FrameTooLong(k) <=> ~(k <= MaxFrame)
        BY <3>0, <4>2 DEF FrameTooLong
      <4> QED BY <3>0, <4>1, <4>3 DEF Acceptable
    <3>2. CASE ~Acceptable(s, q)
      <4>1. RejectedFrame(s)
        <5> HIDE DEF b, k, q
        <5> QED BY <3>0, <3>2 DEF RejectedFrame
      <4>2. Turn(t) = Failed("payload-too-large") \/ Turn(t) = Failed("invalid-utf8")
        <5> HIDE DEF b, k, q
        <5> QED BY <2>4, <2>6, <3>1, <3>2
      <4>3. /\ Turn(t).failure \in {"payload-too-large", "invalid-utf8"}
            /\ Turn(t).lines = <<>> /\ Turn(t).buffer = <<>>
        BY <4>2, FailedIs
      <4> QED BY <4>1, <4>3 DEF Decoding
    <3>3. CASE Acceptable(s, q)
      <4> DEFINE r == [lines |-> Append(t.lines, frame), buffer |-> SubSeq(b, k + 1, Len(b)),
                       failure |-> "none"]
      <4>1. Turn(t) = r
        <5> HIDE DEF b, k, q
        <5> QED BY <2>4, <2>6, <3>1, <3>3
      <4>2. r.failure = "none" /\ r.lines = Append(t.lines, frame) /\ r.buffer = SubSeq(b, k + 1, Len(b))
        OBVIOUS
      <4> HIDE DEF b, k, r
      <4>3. q \in 0..Len(s) /\ LineEnd(s, q) /\ p < q /\ q + 1 = p + k + 1 /\ q \in 1..(Len(s) + 1)
        <5>1. q \in 1..Len(s)
          <6> HIDE DEF q
          <6> QED BY <3>0, NewlinesCounted
        <5> QED BY <1>0, <3>0, <5>1 DEF LineEnd
      <4>4. r.buffer = SubSeq(s, q + 1, Len(s))
        <5> HIDE DEF q
        <5> QED BY <3>0, <4>2, <4>3
      <4>5. AcceptedUpTo(s, q, (l \o t.lines) \o <<frame>>)
        <5> HIDE DEF q
        <5>1. AcceptedUpTo(s, q, (l \o t.lines) \o <<StripCr(FrameEndingAt(s, q))>>)
          BY <2>2, <3>0, <3>3, <4>3, LineAccepted
        <5> QED BY <3>0, <5>1
      <4>6. frame \in Seq(Content)
        <5> HIDE DEF q
        <5>1. StripCr(SubSeq(s, Previous(s, q) + 1, q - 1)) \in Seq(Content)
          BY <4>3, FrameTyped
        <5> QED BY <3>0, <5>1 DEF FrameEndingAt
      <4>7. r.lines \in Seq(Seq(Content)) /\ (l \o t.lines) \o <<frame>> = l \o r.lines
        <5> DEFINE u == t.lines
                   w == <<frame>>
        <5>1. u \in Seq(Seq(Content)) /\ w \in Seq(Seq(Content))
          BY <2>1, <4>6
        <5>2. r.lines = u \o w
          <6> HIDE DEF u
          <6>1. Append(u, frame) = u \o w
            BY <4>6, <5>1, AppendIsConcat
          <6> QED BY <4>2, <6>1 DEF u
        <5> HIDE DEF u, w
        <5>3. u \o w \in Seq(Seq(Content)) /\ (l \o u) \o w = l \o (u \o w)
          <6>1. u \o w \in Seq(Seq(Content))
            BY <5>1, ConcatProperties
          <6>2. (l \o u) \o w = l \o (u \o w)
            BY <5>1, ConcatAssociative, SMTT(30)
          <6> QED BY <6>1, <6>2
        <5> QED BY <5>2, <5>3 DEF u, w
      <4>8. Len(r.buffer) + (n + 1) <= m
        <5> HIDE DEF q
        <5>0. q \in Nat /\ q + 1 \in 1..(Len(s) + 1) /\ Len(s) \in 0..Len(s)
          BY <1>0, <4>3
        <5>1. Len(r.buffer) = IF q + 1 <= Len(s) THEN Len(s) - (q + 1) + 1 ELSE 0
          BY <4>4, <5>0, SubSeqTyped
        <5>2. Len(r.buffer) = Len(s) - q
          BY <1>0, <4>3, <5>0, <5>1
        <5>3. Len(b) + n <= m
          BY <2>1, <2>6 DEF b, k
        <5> QED BY <1>0, <2>3, <3>0, <4>3, <5>0, <5>2, <5>3
      <4>9. Decoding(s, l, m, n + 1, r)
        <5> HIDE DEF q
        <5>1. r.failure = "none"
          BY <4>2
        <5> QED BY <4>3, <4>4, <4>5, <4>7, <4>8, <5>1 DEF Decoding
      <4> QED BY <4>1, <4>9
    <3> QED BY <3>2, <3>3
  <2> QED BY <2>5, <2>6
<1> QED BY <1>1, <1>2

LEMMA NoNewlineInShort ==
  ASSUME NEW b \in Seq(Byte), Len(b) <= 0
  PROVE  NewlineIn(b) = 0
<1>1. Len(b) = 0
  OBVIOUS
<1>2. NewlineIn(b) = 0 \/ NewlineIn(b) \in 1..Len(b)
  BY NewlineInIs
<1>3. 1..Len(b) = {}
  BY <1>1
<1> QED BY <1>2, <1>3

LEMMA AcceptedToTheEnd ==
  ASSUME NEW s \in Seq(Byte), NEW p \in 0..Len(s), LineEnd(s, p), NEW l,
         \A k \in Newlines(s) : k <= p
  PROVE  /\ Remainder(s) = SubSeq(s, p + 1, Len(s))
         /\ AcceptedUpTo(s, p, l) <=> AcceptedUpTo(s, Len(s), l)
<1>0. Len(s) \in Nat /\ Len(s) + 1 \in 1..(Len(s) + 1) /\ p < Len(s) + 1
  OBVIOUS
<1>1. Previous(s, Len(s) + 1) = p
  <2> DEFINE i == Len(s) + 1
  <2>1. i \in 1..(Len(s) + 1) /\ p < i
    BY <1>0
  <2> HIDE DEF i
  <2>2. Previous(s, i) = p
    BY <2>1, PreviousUnique
  <2> QED BY <2>2 DEF i
<1>2. Remainder(s) = SubSeq(s, p + 1, Len(s))
  BY <1>1 DEF Remainder
<1>3. NewlinesUpTo(s, Len(s)) = NewlinesUpTo(s, p)
  <2>1. NewlinesUpTo(s, Len(s)) = Newlines(s)
    BY NewlinesCounted
  <2>2. NewlinesUpTo(s, p) = Newlines(s)
    BY DEF NewlinesUpTo
  <2> QED BY <2>1, <2>2
<1>4. AcceptedUpTo(s, p, l) <=> AcceptedUpTo(s, Len(s), l)
  BY <1>3 DEF AcceptedUpTo, LinesUpTo
<1> QED BY <1>2, <1>4

\* What push answers for a joined buffer that is the end of the stream s.
Pushed(s, l, r) ==
    \/ /\ r.failure = "none"
       /\ r.lines \in Seq(Seq(Content))
       /\ r.buffer = Remainder(s)
       /\ Len(r.buffer) < MaxFrame
       /\ AcceptedUpTo(s, Len(s), l \o r.lines)
    \/ /\ r.failure \in {"payload-too-large", "invalid-utf8"}
       /\ r.lines = <<>>
       /\ r.buffer = <<>>
       /\ Rejected(s)

\* The loop, run to its end, delivers every line left in the stream or fails on it.
LEMMA DecodePushes ==
  ASSUME NEW s \in Seq(Byte), NEW l \in Seq(Seq(Content)), NEW p \in 0..Len(s), LineEnd(s, p),
         NEW bytes, bytes = SubSeq(s, p + 1, Len(s)), AcceptedUpTo(s, p, l)
  PROVE  Pushed(s, l, Decode(bytes))
<1> DEFINE m == Len(bytes)
<1>0. Len(s) \in Nat /\ bytes \in Seq(Byte) /\ m \in Nat
  <2>1. bytes \in Seq(Byte)
    BY NewlineOfRest
  <2> QED BY <2>1
<1>1. PICK turns :
        /\ turns[0] = [lines |-> <<>>, buffer |-> bytes, failure |-> "none"]
        /\ \A n \in Nat : n > 0 => turns[n] = Turn(turns[n - 1])
        /\ Decode(bytes) =
             IF turns[m].failure = "none" /\ RestTooLong(turns[m].buffer)
             THEN Failed("payload-too-large")
             ELSE turns[m]
  BY <1>0, DecodeBatch
<1>2. Decoding(s, l, m, 0, turns[0])
  <2> DEFINE t == turns[0]
  <2>1. t.failure = "none" /\ t.lines = <<>> /\ t.buffer = bytes
    BY <1>1
  <2> HIDE DEF t
  <2>2. t.lines \in Seq(Seq(Content)) /\ l \o t.lines = l
    BY <2>1, ConcatEmptySeq
  <2>3. Len(t.buffer) + 0 <= m
    BY <1>0, <2>1
  <2>4. Decoding(s, l, m, 0, t)
    <3> HIDE DEF m
    <3> QED BY <2>1, <2>2, <2>3 DEF Decoding
  <2> QED BY <2>4 DEF t
<1> HIDE DEF m
<1>3. \A n \in Nat : Decoding(s, l, m, n, turns[n])
  <2> DEFINE S == {n \in Nat : ~Decoding(s, l, m, n, turns[n])}
  <2>1. SUFFICES ASSUME S # {} PROVE FALSE
    OBVIOUS
  <2>2. S \subseteq Nat
    OBVIOUS
  <2>3. PICK k \in S : \A j \in S : k <= j
    <3> HIDE DEF S
    <3> QED BY <2>1, <2>2, LeastOf
  <2>4. k # 0
    BY <1>2
  <2>5. k - 1 \in Nat /\ k > 0 /\ k - 1 + 1 = k
    BY <2>4
  <2>6. Decoding(s, l, m, k - 1, turns[k - 1])
    BY <2>3, <2>5
  <2>7. Decoding(s, l, m, k, turns[k])
    <3> DEFINE j == k - 1
               t == turns[j]
    <3>1. j \in Nat /\ j + 1 = k /\ turns[k] = Turn(t) /\ Decoding(s, l, m, j, t)
      BY <1>1, <2>5, <2>6
    <3> HIDE DEF j, t
    <3>2. Decoding(s, l, m, j + 1, Turn(t))
      BY <1>0, <3>1, TurnDecodes
    <3> QED BY <3>1, <3>2
  <2> QED BY <2>7
<1> DEFINE t == turns[m]
<1>4. Decoding(s, l, m, m, t)
  BY <1>0, <1>3
<1>5. Decode(bytes) = IF t.failure = "none" /\ RestTooLong(t.buffer) THEN Failed("payload-too-large") ELSE t
  BY <1>1
<1> HIDE DEF t
<1>6. CASE t.failure # "none"
  <2>1. /\ t.failure \in {"payload-too-large", "invalid-utf8"} /\ t.lines = <<>> /\ t.buffer = <<>>
        /\ RejectedFrame(s)
    BY <1>4, <1>6 DEF Decoding
  <2>2. Rejected(s)
    BY <2>1 DEF Rejected, RejectedFrame
  <2>3. Decode(bytes) = t
    BY <1>5, <1>6
  <2> QED BY <2>1, <2>2, <2>3 DEF Pushed
<1>7. CASE t.failure = "none"
  <2>1. t.lines \in Seq(Seq(Content)) /\ (Len(t.buffer) + m <= m \/ NewlineIn(t.buffer) = 0)
    BY <1>4, <1>7 DEF Decoding
  <2>2. PICK q \in 0..Len(s) : /\ LineEnd(s, q)
                               /\ t.buffer = SubSeq(s, q + 1, Len(s))
                               /\ AcceptedUpTo(s, q, l \o t.lines)
    BY <1>4, <1>7 DEF Decoding
  <2> DEFINE b == t.buffer
  <2>3. b \in Seq(Byte) /\ Len(b) \in Nat /\ (NewlineIn(b) = 0 => \A k \in Newlines(s) : k <= q)
    <3>1. b \in Seq(Byte)
      BY <2>2, NewlineOfRest
    <3>2. NewlineIn(b) = 0 => \A k \in Newlines(s) : k <= q
      BY <2>2, NewlineOfRest
    <3> QED BY <3>1, <3>2
  <2>4. NewlineIn(b) = 0
    <3> SUFFICES ASSUME Len(b) + m <= m PROVE NewlineIn(b) = 0
      BY <2>1
    <3> HIDE DEF b
    <3>1. Len(b) <= 0
      BY <1>0, <2>3
    <3> QED BY <2>3, <3>1, NoNewlineInShort
  <2>5. \A k \in Newlines(s) : k <= q
    BY <2>3, <2>4
  <2>6. b = Remainder(s) /\ AcceptedUpTo(s, Len(s), l \o t.lines)
    BY <2>2, <2>5, AcceptedToTheEnd
  <2>7. MaxFrame \in Nat
    BY FrameAssumption
  <2>8. CASE RestTooLong(b)
    <3>1. Rejected(s)
      BY <2>6, <2>8 DEF Rejected, RestTooLong
    <3>2. Decode(bytes) = Failed("payload-too-large")
      BY <1>5, <1>7, <2>8
    <3>3. /\ Decode(bytes).failure = "payload-too-large"
          /\ Decode(bytes).lines = <<>> /\ Decode(bytes).buffer = <<>>
      BY <3>2, FailedIs
    <3> QED BY <3>1, <3>3 DEF Pushed
  <2>9. CASE ~RestTooLong(b)
    <3>1. Decode(bytes) = t
      BY <1>5, <1>7, <2>9
    <3>2. Len(b) < MaxFrame
      <4> HIDE DEF b
      <4> QED BY <2>3, <2>7, <2>9 DEF RestTooLong
    <3> QED BY <1>7, <2>1, <2>6, <3>1, <3>2 DEF Pushed
  <2> QED BY <2>8, <2>9
<1> QED BY <1>6, <1>7

\* The joined buffer is the end of the longer stream.
LEMMA JoinedBuffer ==
  ASSUME NEW s \in Seq(Byte), NEW c \in Seq(Byte), NEW p \in 0..Len(s)
  PROVE  SubSeq(s, p + 1, Len(s)) \o c = SubSeq(s \o c, p + 1, Len(s \o c))
<1> DEFINE t == s \o c
           f == SubSeq(s, p + 1, Len(s))
           g == SubSeq(t, p + 1, Len(t))
<1>0. Len(s) \in Nat /\ Len(c) \in Nat /\ p \in Nat
  OBVIOUS
<1>1. /\ t \in Seq(Byte) /\ Len(t) = Len(s) + Len(c)
      /\ \A i \in 1..(Len(s) + Len(c)) : t[i] = IF i <= Len(s) THEN s[i] ELSE c[i - Len(s)]
  BY ConcatProperties
<1> HIDE DEF t
<1>2. p \in 0..Len(t)
  BY <1>0, <1>1
<1>3. f \in Seq(Byte) /\ Len(f) = Len(s) - p /\ \A k \in 1..(Len(s) - p) : f[k] = s[p + k]
  BY RestTyped
<1>4. g \in Seq(Byte) /\ Len(g) = Len(t) - p /\ \A k \in 1..(Len(t) - p) : g[k] = t[p + k]
  BY <1>1, <1>2, RestTyped
<1> HIDE DEF f, g
<1>5. /\ f \o c \in Seq(Byte) /\ Len(f \o c) = Len(f) + Len(c)
      /\ \A i \in 1..(Len(f) + Len(c)) : (f \o c)[i] = IF i <= Len(f) THEN f[i] ELSE c[i - Len(f)]
  BY <1>3, ConcatProperties
<1> DEFINE h == f \o c
<1> HIDE DEF h
<1>6. Len(h) = Len(g) /\ h \in Seq(Byte)
  BY <1>0, <1>1, <1>3, <1>4, <1>5 DEF h
<1>7. \A i \in 1..Len(h) : h[i] = g[i]
  <2> TAKE i \in 1..Len(h)
  <2>1. i \in 1..(Len(f) + Len(c)) /\ i \in Nat /\ i \in 1..Len(g) /\ p + i \in 1..(Len(s) + Len(c))
    BY <1>0, <1>1, <1>3, <1>4, <1>6
  <2>2. h[i] = IF i <= Len(f) THEN f[i] ELSE c[i - Len(f)]
    BY <1>5, <2>1 DEF h
  <2>3. g[i] = IF p + i <= Len(s) THEN s[p + i] ELSE c[p + i - Len(s)]
    BY <1>1, <1>4, <2>1
  <2>4. CASE i <= Len(f)
    <3>1. i \in 1..Len(f) /\ p + i <= Len(s)
      BY <1>0, <1>3, <2>1, <2>4
    <3> QED BY <1>3, <2>2, <2>3, <2>4, <3>1
  <2>5. CASE ~(i <= Len(f))
    <3>1. ~(p + i <= Len(s)) /\ i - Len(f) = p + i - Len(s)
      BY <1>0, <1>3, <2>1, <2>5
    <3> QED BY <2>2, <2>3, <2>5, <3>1
  <2> QED BY <2>4, <2>5
<1>8. h = g
  BY <1>4, <1>6, <1>7, SeqEqual
<1> QED BY <1>8 DEF f, g, h, t

\* A stream that holds a bad frame, or an unfinished one that fills the limit, is not
\* mended by what follows.
LEMMA RejectedGrows ==
  ASSUME NEW s \in Seq(Byte), NEW c \in Seq(Byte), Rejected(s)
  PROVE  Rejected(s \o c)
<1> DEFINE t == s \o c
           p == Previous(s, Len(s) + 1)
<1>0. /\ Len(s) \in Nat /\ Len(c) \in Nat /\ MaxFrame \in Nat
      /\ Newlines(s) \subseteq 1..Len(s)
  BY FrameAssumption DEF Newlines
<1>1. /\ t \in Seq(Byte) /\ Len(t) = Len(s) + Len(c)
      /\ \A i \in 1..Len(s) : i \in Newlines(t) <=> i \in Newlines(s)
      /\ \A i \in 1..Len(s) : Acceptable(t, i) <=> Acceptable(s, i)
  BY PrefixStable
<1>2. /\ p \in 0..Len(s) /\ LineEnd(s, p)
      /\ \A k \in Newlines(s) : k <= p
  <2> DEFINE i == Len(s) + 1
  <2>1. i \in 1..(Len(s) + 1)
    BY <1>0
  <2> HIDE DEF i
  <2>2. /\ Previous(s, i) \in 0..(i - 1) /\ LineEnd(s, Previous(s, i))
        /\ \A k \in Newlines(s) : k < i => k <= Previous(s, i)
    BY <2>1, PreviousIs
  <2>3. i - 1 = Len(s) /\ \A k \in Newlines(s) : k < i
    BY <1>0 DEF i
  <2> QED BY <2>2, <2>3 DEF i
<1> SUFFICES Rejected(t)
  OBVIOUS
<1> HIDE DEF t, p
<1>3. ASSUME NEW i \in Newlines(s), ~Acceptable(s, i) PROVE Rejected(t)
  <2>1. i \in Newlines(t) /\ ~Acceptable(t, i)
    BY <1>0, <1>1, <1>3
  <2> QED BY <2>1 DEF Rejected
<1>4. CASE Len(Remainder(s)) >= MaxFrame
  <2>1. Len(s) - p >= MaxFrame
    <3>1. Remainder(s) = SubSeq(s, p + 1, Len(s))
      BY DEF Remainder, p
    <3>2. Len(Remainder(s)) = Len(s) - p
      BY <1>2, <3>1, NewlineOfRest
    <3> QED BY <1>4, <3>2
  <2>2. p \in 0..Len(t) /\ p \in Nat
    BY <1>0, <1>1, <1>2
  <2>3. LineEnd(t, p)
    BY <1>0, <1>1, <1>2 DEF LineEnd
  <2> DEFINE b == SubSeq(t, p + 1, Len(t))
             n == NewlineIn(b)
             q == p + n
  <2>4. /\ b \in Seq(Byte) /\ Len(b) = Len(t) - p
        /\ n = 0 => \A k \in Newlines(t) : k <= p
        /\ n # 0 => n \in 1..Len(b) /\ q \in Newlines(t) /\ Previous(t, q) = p
    BY <1>1, <2>2, <2>3, NewlineOfRest
  <2>5. CASE n = 0
    <3>1. Remainder(t) = b
      BY <1>1, <2>2, <2>3, <2>4, <2>5, AcceptedToTheEnd
    <3>2. Len(Remainder(t)) >= MaxFrame
      <4> HIDE DEF b, n
      <4> QED BY <1>0, <1>1, <2>1, <2>2, <2>4, <3>1
    <3> QED BY <3>2 DEF Rejected
  <2>6. CASE n # 0
    <3> HIDE DEF b, n
    <3>1. n \in Nat /\ q \in Newlines(t) /\ Previous(t, q) = p /\ n > 0
      BY <1>0, <1>1, <2>2, <2>4, <2>6
    <3>2. ~(q <= Len(s))
      <4> SUFFICES ASSUME q <= Len(s) PROVE FALSE
        OBVIOUS
      <4>1. q \in 1..Len(s) /\ q > p
        BY <1>0, <2>2, <3>1
      <4>2. q \in Newlines(s)
        BY <1>1, <3>1, <4>1
      <4>3. q <= p
        BY <1>2, <4>2
      <4> QED BY <2>2, <3>1, <4>1, <4>3
    <3>3. ~(q - p <= MaxFrame)
      BY <1>0, <2>1, <2>2, <3>1, <3>2
    <3>4. ~Acceptable(t, q)
      <4> HIDE DEF q
      <4> QED BY <3>1, <3>3 DEF Acceptable
    <3> HIDE DEF q
    <3> QED BY <3>1, <3>4 DEF Rejected
  <2> QED BY <2>5, <2>6
<1>5. (\E i \in Newlines(s) : ~Acceptable(s, i)) \/ Len(Remainder(s)) >= MaxFrame
  BY DEF Rejected
<1> QED BY <1>3, <1>4, <1>5

-----------------------------------------------------------------------------
(* The decoder.                                                              *)

LEMMA AcceptedNothing == AcceptedUpTo(<<>>, 0, <<>>) /\ Remainder(<<>>) = <<>>
<1>1. <<>> \in Seq(Byte) /\ <<>> \in Seq(Seq(Content)) /\ Len(<<>>) = 0
  OBVIOUS
<1>2. Newlines(<<>>) = {}
  BY DEF Newlines
<1>3. NewlinesUpTo(<<>>, 0) = {} /\ Cardinality(NewlinesUpTo(<<>>, 0)) = 0
  BY <1>1, NewlinesCounted
<1>4. 1..Len(<<>>) = {}
  BY <1>1
<1>5. LinesUpTo(<<>>, 0, <<>>)
  BY <1>1, <1>3, <1>4 DEF LinesUpTo
<1>6. AcceptedUpTo(<<>>, 0, <<>>)
  BY <1>3, <1>5 DEF AcceptedUpTo
<1>7. Previous(<<>>, Len(<<>>) + 1) = 0
  BY <1>2 DEF Previous
<1>8. Remainder(<<>>) = SubSeq(<<>>, 1, 0)
  BY <1>1, <1>7 DEF Remainder
<1> QED BY <1>6, <1>8, SubSeqEmpty

LEMMA DecoderInitInv == DecoderInit => DecoderInv
<1> SUFFICES ASSUME DecoderInit PROVE DecoderInv
  OBVIOUS
<1>1. received = <<>> /\ buffer = <<>> /\ failure = "none" /\ lines = <<>>
  BY DEF DecoderInit
<1>2. DecoderTypeOK
  BY <1>1 DEF DecoderTypeOK
<1>3. Len(received) = 0 /\ Len(buffer) < MaxFrame
  BY <1>1, FrameAssumption
<1>4. AcceptedUpTo(received, Len(received), lines) /\ buffer = Remainder(received)
  BY <1>1, <1>3, AcceptedNothing
<1> QED BY <1>1, <1>2, <1>3, <1>4 DEF DecoderInv

LEMMA ChunkTyped ==
  ASSUME received \in Seq(Byte), NEW chunk \in Chunks
  PROVE  chunk \in Seq(Byte)
<1>1. PICK n \in 1..(MaxStream - Len(received)) : chunk \in [1..n -> Byte]
  BY DEF Chunks
<1>2. n \in Nat
  BY FrameAssumption
<1> QED BY <1>1, <1>2

LEMMA PushInv ==
  ASSUME DecoderInv, Push
  PROVE  DecoderInv'
<1>1. /\ received \in Seq(Byte) /\ buffer = Remainder(received) /\ failure = "none"
      /\ lines \in Seq(Seq(Content))
      /\ AcceptedUpTo(received, Len(received), lines)
  BY DEF DecoderInv, DecoderTypeOK, Push, Content
<1>2. PICK chunk \in Chunks :
        /\ received' = received \o chunk
        /\ buffer' = Decode(buffer \o chunk).buffer
        /\ failure' = Decode(buffer \o chunk).failure
        /\ lines' = lines \o Decode(buffer \o chunk).lines
  BY DEF Push
<1>3. chunk \in Seq(Byte)
  BY <1>1, ChunkTyped
<1> DEFINE s == received \o chunk
           bytes == buffer \o chunk
           r == Decode(bytes)
           p == Previous(received, Len(received) + 1)
<1>4. /\ p \in 0..Len(received) /\ LineEnd(received, p)
      /\ \A k \in Newlines(received) : k <= p
  <2> DEFINE i == Len(received) + 1
  <2>0. Len(received) \in Nat /\ Newlines(received) \subseteq 1..Len(received)
    BY <1>1 DEF Newlines
  <2>1. i \in 1..(Len(received) + 1)
    BY <2>0
  <2> HIDE DEF i
  <2>2. /\ Previous(received, i) \in 0..(i - 1) /\ LineEnd(received, Previous(received, i))
        /\ \A k \in Newlines(received) : k < i => k <= Previous(received, i)
    BY <1>1, <2>1, PreviousIs
  <2>3. i - 1 = Len(received) /\ \A k \in Newlines(received) : k < i
    BY <2>0 DEF i
  <2> QED BY <2>2, <2>3 DEF i
<1>5. buffer = SubSeq(received, p + 1, Len(received))
  BY <1>1 DEF Remainder
<1> HIDE DEF p
<1>6. AcceptedUpTo(received, p, lines)
  BY <1>1, <1>4, AcceptedToTheEnd
<1>7. /\ s \in Seq(Byte) /\ p \in 0..Len(s) /\ LineEnd(s, p)
  <2>1. /\ s \in Seq(Byte) /\ Len(s) = Len(received) + Len(chunk)
        /\ \A i \in 1..Len(received) : i \in Newlines(s) <=> i \in Newlines(received)
    BY <1>1, <1>3, PrefixStable
  <2> HIDE DEF s
  <2>2. Len(received) \in Nat /\ Len(chunk) \in Nat /\ Newlines(received) \subseteq 1..Len(received)
    BY <1>1, <1>3 DEF Newlines
  <2> QED BY <1>4, <2>1, <2>2 DEF LineEnd
<1>8. AcceptedUpTo(s, p, lines)
  BY <1>1, <1>3, <1>4, <1>6, AcceptedPrefix
<1>9. bytes = SubSeq(s, p + 1, Len(s))
  BY <1>1, <1>3, <1>4, <1>5, JoinedBuffer
<1>10. received' = s /\ buffer' = r.buffer /\ failure' = r.failure /\ lines' = lines \o r.lines
  BY <1>2
<1> HIDE DEF s, bytes
<1>11. Pushed(s, lines, r)
  BY <1>1, <1>7, <1>8, <1>9, DecodePushes
<1> HIDE DEF r
<1>12. CASE r.failure = "none"
  <2>1. /\ r.lines \in Seq(Seq(Content)) /\ r.buffer = Remainder(s) /\ Len(r.buffer) < MaxFrame
        /\ AcceptedUpTo(s, Len(s), lines \o r.lines)
    BY <1>11, <1>12 DEF Pushed
  <2>2. Remainder(s) \in Seq(Content)
    <3> DEFINE i == Len(s) + 1
    <3>1. i \in 1..(Len(s) + 1) /\ i - 1 = Len(s)
      BY <1>7
    <3> HIDE DEF i
    <3>2. SubSeq(s, Previous(s, i) + 1, i - 1) \in Seq(Content)
      BY <1>7, <3>1, FrameTyped
    <3>3. SubSeq(s, Previous(s, i) + 1, Len(s)) \in Seq(Content)
      BY <3>1, <3>2
    <3> QED BY <3>3 DEF Remainder, i
  <2>3. lines \o r.lines \in Seq(Seq(Content))
    BY <1>1, <2>1, ConcatProperties
  <2>4. DecoderTypeOK'
    BY <1>7, <1>10, <1>12, <2>1, <2>2, <2>3 DEF DecoderTypeOK, Content
  <2>5. /\ buffer' = Remainder(received') /\ Len(buffer') < MaxFrame /\ failure' = "none"
        /\ AcceptedUpTo(received', Len(received'), lines')
    BY <1>10, <1>12, <2>1
  <2> QED BY <2>4, <2>5 DEF DecoderInv, AcceptedUpTo, LinesUpTo, Remainder, Acceptable, FrameEndingAt,
                            NewlinesUpTo, Newlines, Previous, StripCr, ValidUtf8
<1>13. CASE r.failure # "none"
  <2>1. /\ r.failure \in {"payload-too-large", "invalid-utf8"} /\ r.lines = <<>> /\ r.buffer = <<>>
        /\ Rejected(s)
    BY <1>11, <1>13 DEF Pushed
  <2>2. lines' = lines
    BY <1>1, <1>10, <2>1, ConcatEmptySeq
  <2>3. DecoderTypeOK'
    <3>1. <<>> \in Seq(Byte \ {"nl"})
      OBVIOUS
    <3> QED BY <1>1, <1>7, <1>10, <2>1, <2>2, <3>1 DEF DecoderTypeOK, Content
  <2>4. failure' # "none" /\ Rejected(received')
    BY <1>10, <2>1
  <2> QED BY <2>3, <2>4 DEF DecoderInv
<1> QED BY <1>12, <1>13

LEMMA PushFailedInv ==
  ASSUME DecoderInv, PushFailed
  PROVE  DecoderInv'
<1>1. /\ received \in Seq(Byte) /\ failure # "none" /\ Rejected(received)
      /\ buffer' = buffer /\ failure' = failure /\ lines' = lines
  BY DEF DecoderInv, DecoderTypeOK, PushFailed
<1>2. PICK chunk \in Chunks : received' = received \o chunk
  BY DEF PushFailed
<1>3. chunk \in Seq(Byte)
  BY <1>1, ChunkTyped
<1>4. Rejected(received \o chunk) /\ received \o chunk \in Seq(Byte)
  BY <1>1, <1>3, RejectedGrows, ConcatProperties
<1>5. DecoderTypeOK'
  BY <1>1, <1>2, <1>4 DEF DecoderInv, DecoderTypeOK
<1> QED BY <1>1, <1>2, <1>4, <1>5 DEF DecoderInv

\* However the client cuts its bytes into chunks, push keeps the decoder's account of
\* the whole stream true.
THEOREM DecoderInvariant == DecoderSpec => []DecoderInv
<1>1. DecoderInit => DecoderInv
  BY DecoderInitInv
<1>2. DecoderInv /\ [DecoderNext]_decoderVars => DecoderInv'
  <2> SUFFICES ASSUME DecoderInv, [DecoderNext]_decoderVars PROVE DecoderInv'
    OBVIOUS
  <2>1. CASE Push
    BY <2>1, PushInv
  <2>2. CASE PushFailed
    BY <2>2, PushFailedInv
  <2>3. CASE UNCHANGED decoderVars
    <3>1. received' = received /\ buffer' = buffer /\ failure' = failure /\ lines' = lines
      BY <2>3 DEF decoderVars
    <3> QED BY <3>1 DEF DecoderInv, DecoderTypeOK
  <2> QED BY <2>1, <2>2, <2>3 DEF DecoderNext
<1> QED BY <1>1, <1>2, PTL DEF DecoderSpec

\* Types: nothing the decoder buffers or delivers holds a newline.
THEOREM DecoderTypes == DecoderSpec => []DecoderTypeOK
<1>1. DecoderInv => DecoderTypeOK
  BY DEF DecoderInv
<1> QED BY <1>1, DecoderInvariant, PTL

\* A sequence that holds the lines of the whole stream is the reference.
LEMMA LinesAreTheReference ==
  ASSUME NEW s \in Seq(Byte), NEW l, LinesUpTo(s, Len(s), l)
  PROVE  l = ReferenceLines(s)
<1> DEFINE ends == NewlinesUpTo(s, Len(s))
           count(i) == Cardinality(NewlinesUpTo(s, i))
           frame(i) == StripCr(FrameEndingAt(s, i))
           nth(n) == CHOOSE i \in Newlines(s) : count(i) = n
<1>1. /\ l \in Seq(Seq(Content))
      /\ Len(l) = Cardinality(ends)
      /\ \A i \in ends : l[count(i)] = frame(i)
      /\ \A n \in 1..Len(l) : \E i \in ends : count(i) = n
  BY DEF LinesUpTo
<1>2. ends = Newlines(s)
  BY NewlinesCounted
<1>3. \A n \in 1..Len(l) : l[n] = frame(nth(n))
  <2> TAKE n \in 1..Len(l)
  <2>1. \E i \in Newlines(s) : count(i) = n
    BY <1>1, <1>2
  <2>2. nth(n) \in Newlines(s) /\ count(nth(n)) = n
    <3> HIDE DEF count
    <3> QED BY <2>1
  <2> HIDE DEF nth, count, frame
  <2> QED BY <1>1, <1>2, <2>2
<1>4. \A n : nth(n) = NthNewline(s, n)
  BY DEF NthNewline
<1>5. ReferenceLines(s) = [n \in 1..Len(l) |-> frame(nth(n))]
  BY <1>1, <1>2, <1>4 DEF ReferenceLines
<1> HIDE DEF frame, nth
<1>6. l = [n \in 1..Len(l) |-> l[n]]
  BY <1>1
<1> QED BY <1>3, <1>5, <1>6

\* A decoder that has not failed has delivered the lines of the stream and buffers its
\* unfinished end, for streams of any length cut in any way.
THEOREM ChunkingNeverMatters == DecoderSpec => []ChunkingIrrelevant
<1>1. DecoderInv => ChunkingIrrelevant
  <2> SUFFICES ASSUME DecoderInv, failure = "none"
               PROVE  lines = ReferenceLines(received) /\ buffer = Remainder(received)
    BY DEF ChunkingIrrelevant
  <2>1. /\ received \in Seq(Byte) /\ buffer = Remainder(received)
        /\ LinesUpTo(received, Len(received), lines)
    BY DEF DecoderInv, DecoderTypeOK, AcceptedUpTo
  <2> QED BY <2>1, LinesAreTheReference
<1> QED BY <1>1, DecoderInvariant, PTL

\* The decoder fails on a stream with a frame that is too long or not valid UTF-8, and
\* on no other, for every limit.
THEOREM FailureIsExact == DecoderSpec => []FailsExactlyOnBadFrames
<1>1. DecoderInv => FailsExactlyOnBadFrames
  <2> SUFFICES ASSUME DecoderInv PROVE failure # "none" <=> Rejected(received)
    BY DEF FailsExactlyOnBadFrames
  <2>1. CASE failure # "none"
    BY <2>1 DEF DecoderInv
  <2>2. CASE failure = "none"
    <3>1. /\ received \in Seq(Byte) /\ buffer = Remainder(received) /\ Len(buffer) < MaxFrame
          /\ buffer \in Seq(Byte \ {"nl"})
          /\ \A i \in NewlinesUpTo(received, Len(received)) : Acceptable(received, i)
      BY <2>2 DEF DecoderInv, DecoderTypeOK, AcceptedUpTo
    <3>2. NewlinesUpTo(received, Len(received)) = Newlines(received)
      BY <3>1, NewlinesCounted
    <3>3. ~(Len(Remainder(received)) >= MaxFrame)
      <4>1. Len(buffer) \in Nat /\ MaxFrame \in Nat
        BY <3>1, FrameAssumption
      <4> QED BY <3>1, <4>1
    <3> QED BY <2>2, <3>1, <3>2, <3>3 DEF Rejected
  <2> QED BY <2>1, <2>2
<1> QED BY <1>1, DecoderInvariant, PTL

=============================================================================
