------------------------ MODULE KeyboardDaemonInvariant ------------------------
(***************************************************************************)
(* The inductive invariant of the daemon: why its safety properties hold.  *)
(* TLC checks it on the small instances, KeyboardDaemonProofs proves it.   *)
(*                                                                         *)
(* A request is not dispatched twice because, from its dispatch on, one of *)
(* four things is true of it (ExecutedRefused), and each of them stops it: *)
(* it is still the head of the queue; the daemon is stopping, and whatever *)
(* is left in the queue is barred; its deadline has passed; or its client  *)
(* is known, has completed this sequence number, and will not be forgotten *)
(* before the deadline passes.                                             *)
(***************************************************************************)
EXTENDS KeyboardDaemon

\* The request at the head of the queue is between its dispatch and its answer.
InFlight(r) == phase # "idle" /\ HeadIs("request") /\ Current = r

\* What the phases mean, and where the requests come from.
HeadOK ==
  /\ \A i \in DOMAIN queue : queue[i].type = "request" => queue[i].request \in seen
  /\ phase # "idle" => queue # <<>>
  /\ phase \in {"warming", "recording", "published"} => HeadIs("request")
  /\ phase # "idle" /\ HeadIs("request") => Current \in executed
  /\ phase = "recording" => Current.kind = "memory.learn"
  /\ phase = "finalizing" =>
       /\ stopping
       /\ HeadIs("shutdown") \/ (HeadIs("request") /\ Current.kind = "engine.shutdown")
  /\ phase = "published" => result \in Response /\ result.to = Current
  /\ phase = "published" /\ Current.kind = "protocol.negotiate" => result.code = "OK"

\* Requests wait in the order of their tickets.
TicketsOrdered ==
  /\ \A i \in DOMAIN queue : queue[i].type = "request" => queue[i].ticket <= nextRequestTicket
  /\ \A i, j \in DOMAIN queue :
       i < j /\ queue[i].type = "request" /\ queue[j].type = "request" =>
         queue[i].ticket < queue[j].ticket

\* Once the daemon stops, admission is closed and what waits is barred.
StopIsFinal ==
  /\ stopping \/ shutdownScheduled => ~acceptingRequests
  /\ terminalRequestTicket # 0 => stopping
  /\ stopping => phase \notin {"warming", "recording"}
  /\ \A i, j \in DOMAIN queue :
       queue[i].type = "shutdown" /\ i < j => queue[j].type # "request"
  /\ \A i \in DOMAIN queue : queue[i].type = "shutdown" => shutdownScheduled
  /\ stopping =>
       \A i \in DOMAIN queue :
         queue[i].type = "request" =>
           \/ terminalRequestTicket # 0 /\ queue[i].ticket > terminalRequestTicket
           \/ i = 1 /\ phase \in {"finalizing", "published"}

\* Nobody was seen in the future, and no deadline lies beyond the budget.
TimesOK ==
  /\ \A c \in DOMAIN clients : clients[c].lastSeenAt <= now
  /\ \A r \in seen : r.deadline <= now + Budget(r.kind)

\* While a request is in flight its client is not forgotten; only a negotiation
\* may come from a client that is not known yet.
ClientInFlight ==
  phase # "idle" /\ HeadIs("request") /\ ~stopping /\ Current.kind # "protocol.negotiate" =>
    Current.client \in DOMAIN clients

RememberedUntilDeadline(r) ==
  /\ r.client \in DOMAIN clients
  /\ r.seq <= clients[r.client].lastSequence
  /\ r.deadline < clients[r.client].lastSeenAt + ClientIdleTtl

ExecutedRefused ==
  \A r \in executed :
    stopping \/ InFlight(r) \/ now > r.deadline \/ RememberedUntilDeadline(r)

\* The cache repeats answers that were given, and a request in flight, which was
\* not dispatched before, has none yet.
AnswersOK ==
  /\ \A a \in answers : a.request \in executed
  /\ \A a \in answers : ~InFlight(a.request)
  /\ \A c \in DOMAIN clients : \A i \in DOMAIN clients[c].replay : clients[c].replay[i] \in answers
  /\ phase # "idle" /\ HeadIs("request") /\ Current \in learned =>
       phase = "published" /\ result.code = "LEARNED"

\* A finalization takes the engine's sessions first.
FinalizationOK ==
  /\ stopping <=> finalization # "none"
  /\ finalization \in {"store", "done", "failed"} => DOMAIN engineSessions = {}

\* Every session identifier, live or named in a request, was issued: the next begin
\* brings back none of the sessions that were given up.
IdentifiersIssued ==
  /\ DOMAIN sessions \subseteq 1 .. nextSessionCounter
  /\ \A r \in seen : r.session <= nextSessionCounter

\* What a client is told when its deadline was missed; no dispatch computes it.
MissedDeadline == {"PASS_THROUGH", "IPC_DEADLINE_EXCEEDED"}
ResultsInTime == phase = "published" => result.code \notin MissedDeadline

DispatchInv ==
  /\ TypeOK
  /\ HeadOK
  /\ TicketsOrdered
  /\ StopIsFinal
  /\ TimesOK
  /\ ClientInFlight
  /\ ExecutedRefused

IInv ==
  /\ DispatchInv
  /\ AnswersOK
  /\ OneResult
  /\ LearningAcknowledged
  /\ FinalizationOK
  /\ SessionsOwned
  /\ NoOrphanEngineSession
  /\ IdentifiersIssued
  /\ ResultsInTime
  /\ UncertainSessionRetired
=============================================================================
