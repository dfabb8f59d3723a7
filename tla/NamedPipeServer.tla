---------------------------- MODULE NamedPipeServer ----------------------------
(***************************************************************************)
(* The connections of the named-pipe server                                *)
(* (native/daemon/src/namedPipeServer.ts): the connection table, one       *)
(* ordered response queue per socket, the frame that ends a connection,    *)
(* and close().  The daemon behind handleLine is a handler that answers    *)
(* after any time; KeyboardDaemon says what it does meanwhile.             *)
(*                                                                         *)
(* The client and the network are the environment: a client connects,      *)
(* sends batches of lines or a frame the decoder refuses, and disappears   *)
(* (or is timed out) at any moment.                                        *)
(***************************************************************************)
EXTENDS Naturals, Sequences, FiniteSets

CONSTANTS
    Conn,             \* sockets, each used once
    MaxConnections,   \* MAXIMUM_ACTIVE_PIPE_CONNECTIONS
    MaxPending,       \* maximumPendingRequestsPerConnection
    MaxLines          \* bound on the lines one client sends

ASSUME PipeAssumption ==
    /\ MaxConnections \in Nat \ {0}
    /\ MaxPending \in Nat \ {0}
    /\ MaxLines \in Nat

Terminal == 0         \* the frame of terminate(); line n is answered by frame n

VARIABLES
    phase,            \* "serving", or how far close() is
    connections,      \* the keys of the connections map
    responseQueues,   \* close(): the connections whose queues it drains
    socket,           \* socket[c]: what the server knows of the socket
    queue,            \* queue[c]: its ordered response queue
    accepted,         \* accepted[c]: how many lines enqueue() took
    handled,          \* history: the lines given to handleLine, in order
    wire              \* history: the frames given to socket.write, in order

vars == <<phase, connections, responseQueues, socket, queue, accepted, handled, wire>>

\* jobs is the promise chain behind tail, its head the job that runs; stage says
\* where that job is.  terminal is the last link of the chain, if there is one.
NewQueue ==
    [jobs |-> <<>>, stage |-> "waiting", pending |-> 0, accepting |-> TRUE,
     cancelPending |-> FALSE, terminal |-> "none"]

Cancelled(q) == [q EXCEPT !.accepting = FALSE, !.cancelPending = TRUE]
Terminated(q) == [Cancelled(q) EXCEPT !.terminal = "waiting"]
JobDone(q) ==
    [q EXCEPT !.jobs = Tail(@), !.stage = "waiting",
              !.pending = IF @ > 0 THEN @ - 1 ELSE 0]

Writable(c) == socket[c] = "open"
Drained(q) == q.jobs = <<>> /\ q.terminal \in {"none", "done"}

Init ==
    /\ phase = "serving"
    /\ connections = {}
    /\ responseQueues = {}
    /\ socket = [c \in Conn |-> "absent"]
    /\ queue = [c \in Conn |-> NewQueue]
    /\ accepted = [c \in Conn |-> 0]
    /\ handled = [c \in Conn |-> <<>>]
    /\ wire = [c \in Conn |-> <<>>]

Refuses == phase # "serving" \/ Cardinality(connections) >= MaxConnections

\* The connection listener.  close() has set shuttingDown before a late
\* connection can reach it.
Connect(c) ==
    /\ phase \in {"serving", "closing"}
    /\ socket[c] = "absent"
    /\ IF Refuses
       THEN /\ socket' = [socket EXCEPT ![c] = "destroyed"]
            /\ UNCHANGED connections
       ELSE /\ socket' = [socket EXCEPT ![c] = "open"]
            /\ connections' = connections \union {c}
    /\ UNCHANGED <<phase, responseQueues, queue, accepted, handled, wire>>

\* enqueue() for n lines in turn, terminate(IPC_QUEUE_FULL) at the first it refuses.
Enqueue(c, n) ==
    LET q    == queue[c]
        room == IF q.accepting THEN MaxPending - q.pending ELSE 0
        k    == IF n <= room THEN n ELSE room
        taken == [q EXCEPT !.jobs = @ \o [i \in 1..k |-> accepted[c] + i],
                           !.pending = @ + k]
    IN  /\ queue' = [queue EXCEPT ![c] = IF n <= room THEN taken ELSE Terminated(taken)]
        /\ accepted' = [accepted EXCEPT ![c] = @ + k]

\* socket.on("data") with a batch of complete lines.
Data(c) ==
    /\ socket[c] = "open"
    /\ queue[c].terminal = "none"
    /\ \E n \in 1..(MaxLines - accepted[c]) : Enqueue(c, n)
    /\ UNCHANGED <<phase, connections, responseQueues, socket, handled, wire>>

\* socket.on("data") with a frame the decoder refuses (NamedPipeFrames).
BadFrame(c) ==
    /\ socket[c] = "open"
    /\ queue[c].terminal = "none"
    /\ queue' = [queue EXCEPT ![c] = Terminated(@)]
    /\ UNCHANGED <<phase, connections, responseQueues, socket, accepted, handled, wire>>

\* The next job of the chain begins: handleLine(line), or nothing at all when the
\* queue was cancelled while the job waited.
StartJob(c) ==
    /\ queue[c].jobs # <<>>
    /\ queue[c].stage = "waiting"
    /\ IF queue[c].cancelPending
       THEN /\ queue' = [queue EXCEPT ![c] = JobDone(@)]
            /\ UNCHANGED handled
       ELSE /\ queue' = [queue EXCEPT ![c].stage = "handling"]
            /\ handled' = [handled EXCEPT ![c] = Append(@, Head(queue[c].jobs))]
    /\ UNCHANGED <<phase, connections, responseQueues, socket, accepted, wire>>

\* Mutant: a handler that fails is answered by nothing.
HandlerSettlesOrFails(c) ==
    /\ queue[c].stage = "handling"
    /\ \/ /\ queue' = [queue EXCEPT ![c] = JobDone(@)]
          /\ UNCHANGED wire
       \/ /\ ~queue[c].cancelPending /\ Writable(c)
          /\ queue' = [queue EXCEPT ![c].stage = "writing"]
          /\ wire' = [wire EXCEPT ![c] = Append(@, Head(queue[c].jobs))]
    /\ UNCHANGED <<phase, connections, responseQueues, socket, accepted, handled>>

\* handleLine settles.  One frame answers the line, the generic error frame when
\* the handler failed or its response exceeds the frame limit; none is written for
\* a cancelled queue, nor on a socket that can take none.
HandlerSettles(c) ==
    /\ queue[c].stage = "handling"
    /\ IF queue[c].cancelPending \/ ~Writable(c)
       THEN /\ queue' = [queue EXCEPT ![c] = JobDone(@)]
            /\ UNCHANGED wire
       ELSE /\ queue' = [queue EXCEPT ![c].stage = "writing"]
            /\ wire' = [wire EXCEPT ![c] = Append(@, Head(queue[c].jobs))]
    /\ UNCHANGED <<phase, connections, responseQueues, socket, accepted, handled>>

\* The callback of socket.write.  After an error the socket is destroyed, so the
\* error frame the catch clause then tries to write is refused.
WriteSettles(c) ==
    /\ queue[c].stage = "writing"
    /\ queue' = [queue EXCEPT ![c] = JobDone(@)]
    /\ UNCHANGED <<phase, connections, responseQueues, socket, accepted, handled, wire>>

Destroyed(c) == [socket EXCEPT ![c] = IF @ = "open" THEN "destroyed" ELSE @]

\* terminate(): behind every job of the chain the terminal frame is written; once
\* that settles, or cannot be done, the socket is destroyed.
WriteTerminal(c) ==
    /\ queue[c].jobs = <<>>
    /\ queue[c].terminal = "waiting"
    /\ IF Writable(c)
       THEN /\ queue' = [queue EXCEPT ![c].terminal = "writing"]
            /\ wire' = [wire EXCEPT ![c] = Append(@, Terminal)]
            /\ UNCHANGED socket
       ELSE /\ queue' = [queue EXCEPT ![c].terminal = "done"]
            /\ socket' = Destroyed(c)
            /\ UNCHANGED wire
    /\ UNCHANGED <<phase, connections, responseQueues, accepted, handled>>

TerminalSettles(c) ==
    /\ queue[c].terminal = "writing"
    /\ queue' = [queue EXCEPT ![c].terminal = "done"]
    /\ socket' = Destroyed(c)
    /\ UNCHANGED <<phase, connections, responseQueues, accepted, handled, wire>>

\* The client disconnects, the transport fails, or the idle timeout destroys the
\* socket; the jobs of the queue do not notice yet.
Disconnect(c) ==
    /\ socket[c] = "open"
    /\ socket' = [socket EXCEPT ![c] = "destroyed"]
    /\ UNCHANGED <<phase, connections, responseQueues, queue, accepted, handled, wire>>

\* The "close" event; its listener exists only on a connection that was wired.
CloseEvent(c) ==
    /\ socket[c] = "destroyed"
    /\ socket' = [socket EXCEPT ![c] = "closed"]
    /\ queue' = IF c \in connections THEN [queue EXCEPT ![c] = Cancelled(@)] ELSE queue
    /\ connections' = connections \ {c}
    /\ UNCHANGED <<phase, responseQueues, accepted, handled, wire>>

\* Mutant: the sockets are left to close by themselves.
CloseGently ==
    /\ phase = "serving"
    /\ phase' = "closing"
    /\ responseQueues' = connections
    /\ queue' = [c \in Conn |-> IF c \in connections THEN Cancelled(queue[c]) ELSE queue[c]]
    /\ UNCHANGED <<connections, socket, accepted, handled, wire>>

\* close(), up to its first await.
Close ==
    /\ phase = "serving"
    /\ phase' = "closing"
    /\ responseQueues' = connections
    /\ queue' = [c \in Conn |-> IF c \in connections THEN Cancelled(queue[c]) ELSE queue[c]]
    /\ socket' = [c \in Conn |-> IF c \in connections /\ socket[c] = "open"
                                 THEN "destroyed" ELSE socket[c]]
    /\ UNCHANGED <<connections, accepted, handled, wire>>

\* await serverClosed: node calls back once every socket has emitted "close".
ServerClosed ==
    /\ phase = "closing"
    /\ \A c \in Conn : socket[c] \in {"absent", "closed"}
    /\ phase' = "draining"
    /\ UNCHANGED <<connections, responseQueues, socket, queue, accepted, handled, wire>>

\* Mutant: the queues are not waited for.
ShutdownHandlerAtOnce ==
    /\ phase = "draining"
    /\ phase' = "stopped"
    /\ UNCHANGED <<connections, responseQueues, socket, queue, accepted, handled, wire>>

\* The queues have drained; handler.shutdown() is called.
ShutdownHandler ==
    /\ phase = "draining"
    /\ \A c \in responseQueues : Drained(queue[c])
    /\ phase' = "stopped"
    /\ UNCHANGED <<connections, responseQueues, socket, queue, accepted, handled, wire>>

Environment(c) == Connect(c) \/ Data(c) \/ BadFrame(c) \/ Disconnect(c)

Progress(c) ==
    \/ StartJob(c) \/ HandlerSettles(c) \/ WriteTerminal(c) \/ CloseEvent(c)

\* A write settles, unless the client stops reading, and then the idle timeout
\* destroys the socket and the write with it.
Writing(c) == queue[c].stage = "writing" \/ queue[c].terminal = "writing"
WriteOrTimeout(c) ==
    Writing(c) /\ (WriteSettles(c) \/ TerminalSettles(c) \/ Disconnect(c))

Closing == Close \/ ServerClosed \/ ShutdownHandler

Next ==
    \/ \E c \in Conn : Environment(c) \/ Progress(c) \/ WriteSettles(c) \/ TerminalSettles(c)
    \/ Closing

Spec == Init /\ [][Next]_vars

\* The promise chain, the handler and the event loop always advance; no client
\* and no call of close() is promised.
Fairness ==
    /\ \A c \in Conn : WF_vars(Progress(c)) /\ WF_vars(WriteOrTimeout(c))
    /\ WF_vars(ServerClosed)
    /\ WF_vars(ShutdownHandler)

LiveSpec == Spec /\ Fairness

-----------------------------------------------------------------------------
Answered(c) == {n \in 1..MaxLines : \E i \in DOMAIN wire[c] : wire[c][i] = n}

QueueType ==
    [jobs : Seq(1..MaxLines), stage : {"waiting", "handling", "writing"},
     pending : 0..MaxPending, accepting : BOOLEAN, cancelPending : BOOLEAN,
     terminal : {"none", "waiting", "writing", "done"}]

TypeOK ==
    /\ phase \in {"serving", "closing", "draining", "stopped"}
    /\ connections \subseteq Conn
    /\ responseQueues \subseteq Conn
    /\ socket \in [Conn -> {"absent", "open", "destroyed", "closed"}]
    /\ accepted \in [Conn -> 0..MaxLines]
    /\ queue \in [Conn -> QueueType]
    /\ handled \in [Conn -> Seq(1..MaxLines)]
    /\ wire \in [Conn -> Seq(0..MaxLines)]

\* The client of a connection sees its lines answered in order, none twice, none
\* skipped, and nothing after the terminal frame, although handlers take any time
\* and terminate() and cancel() cut in between a job and its frame.
Replies == INSTANCE OrderedReplies WITH replies <- wire
RepliesInOrder == Replies!Spec

\* While a connection lives and is not being ended, every line the daemon was
\* given, except the one it is working on, has been answered: the queue never
\* runs ahead of its answers.
HandledLinesAnswered ==
    \A c \in Conn :
        socket[c] = "open" /\ ~queue[c].cancelPending =>
            \A i \in DOMAIN handled[c] :
                \/ handled[c][i] \in Answered(c)
                \/ i = Len(handled[c]) /\ queue[c].stage = "handling"

\* The connection table counts exactly the wired sockets that have not closed, so
\* the limit on it is a limit on live sockets, and the pending counter of each
\* queue counts exactly its unfinished jobs, after cancelled jobs too.
CountersExact ==
    /\ Cardinality(connections) <= MaxConnections
    /\ \A c \in Conn : socket[c] = "open" => c \in connections
    /\ \A c \in Conn : socket[c] \in {"absent", "closed"} => c \notin connections
    /\ \A c \in Conn : queue[c].pending = Len(queue[c].jobs)

\* Once close() has been called no line reaches the daemon any more: not one that
\* was queued, not one of a connection that arrives during the close.
NothingHandledAfterClose == [][phase # "serving" => handled' = handled]_vars

\* When the handler is shut down every socket has closed, and only a connection
\* that had gone before close() was called can still have a line in the handler.
ShutdownAfterDrain ==
    phase = "stopped" =>
        \A c \in Conn :
            /\ socket[c] \in {"absent", "closed"}
            /\ queue[c].stage # "waiting" =>
                   c \notin responseQueues /\ queue[c].cancelPending

\* A line the queue took is answered, unless its connection ends first.
AcceptedIsAnswered ==
    \A c \in Conn : \A n \in 1..MaxLines :
        accepted[c] >= n ~> n \in Answered(c) \/ socket[c] # "open" \/ queue[c].cancelPending

\* close() completes: neither a silent client nor a queue of slow lines keeps the
\* daemon from being shut down.
CloseCompletes == phase = "closing" ~> phase = "stopped"
=============================================================================
