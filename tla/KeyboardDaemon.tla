---------------------------- MODULE KeyboardDaemon ----------------------------
(***************************************************************************)
(* The Node daemon: native/daemon/src/keyboardDaemon.ts, over the protocol *)
(* state and the engine's session manager.                                 *)
(*                                                                         *)
(* handle() admits requests from any connection at any time; dispatchTail  *)
(* serialises them, together with expiry sweeps and the external shutdown, *)
(* so the tail is a queue whose head is being served.  Serving a request   *)
(* takes several steps, because dispatch awaits and reads the clock again: *)
(*   idle -> published                    a synchronous engine operation   *)
(*   idle -> warming -> published         engine.warm, over the loading    *)
(*   idle -> recording -> published       memory.learn, over its durable   *)
(*                                        write                            *)
(*   idle -> finalizing -> published      engine.shutdown                  *)
(* and the answer leaves the daemon from "published", where success()      *)
(* compares the clock with the deadline and remember() caches the result.  *)
(*                                                                         *)
(* Metrics, lastError, warmReady and the payloads are left out.  The local *)
(* engine works synchronously, so the timer of withHotPathTimeout never    *)
(* beats it: a late composition operation shows when it publishes.         *)
(***************************************************************************)
EXTENDS IpcProtocolState, KeyboardSessions

CONSTANTS
  MaxPending,   \* IPC_PROTOCOL_LIMITS.maximumPendingRequestsPerConnection
  Kinds,        \* bound: the message types the clients of an instance use
  Events,       \* bound: which of "shutdown" and "sweep" occur
  WellBehaved,  \* bound: do all clients behave as the native clients do?
  MaxSequence,  \* bound: highest sequence number of the other clients
  MaxSeen,      \* bound: number of different requests
  MaxTickets    \* bound: number of admitted requests

ASSUME DaemonAssumption ==
  /\ {MaxPending, MaxSequence, MaxSeen, MaxTickets} \subseteq Nat \ {0}
  /\ Kinds \subseteq IpcMessageType
  /\ WellBehaved \in BOOLEAN
  /\ WellBehaved => 1 .. MaxSeen \subseteq RequestId
  /\ Events \subseteq {"shutdown", "sweep"}

VARIABLES
  acceptingRequests,
  stopping,
  queue,                  \* dispatchTail: what waits, the head being served
  nextRequestTicket,
  terminalRequestTicket,  \* 0 while undefined
  pendingRequests,
  shutdownScheduled,      \* shutdownPromise is defined
  finalization,           \* how far finalizationPromise has come
  expirySweepQueued,
  phase,                  \* of the head of the queue
  result,                 \* response being computed; NoResponse while idle
  seen,                   \* history: requests the clients have sent
  executed,               \* history: requests that were dispatched
  learned,                \* history: requests whose learning became durable
  answers,                \* history: answers that carry a dispatched result
  answered,               \* history: ticket answered last
  closes                  \* history: times the storage was closed

admissionVars == <<acceptingRequests, nextRequestTicket, seen>>
engineVars == sessionManagerVars
lifecycleVars == <<stopping, terminalRequestTicket, shutdownScheduled, finalization, closes>>
queueVars == <<queue, pendingRequests, answered>>

vars == <<now, protocolVars, engineVars, admissionVars, lifecycleVars, queueVars,
          expirySweepQueued, phase, result, executed, learned, answers>>

RequestItem == [type: {"request"}, ticket: Nat \ {0}, request: Request]
SweepItem == [type |-> "sweep"]
ShutdownItem == [type |-> "shutdown"]
Item == RequestItem \cup {SweepItem, ShutdownItem}

NoResponse == [code |-> "none"]
Phase == {"idle", "warming", "recording", "finalizing", "published"}
Finalization == {"none", "engine", "store", "done", "failed"}

Init ==
  /\ ClockInit
  /\ SessionsInit
  /\ clients = [c \in {} |-> 0]
  /\ sessions = [s \in {} |-> 0]
  /\ nextSessionEpoch = 1
  /\ acceptingRequests = TRUE
  /\ stopping = FALSE
  /\ queue = <<>>
  /\ nextRequestTicket = 0
  /\ terminalRequestTicket = 0
  /\ pendingRequests = 0
  /\ shutdownScheduled = FALSE
  /\ finalization = "none"
  /\ expirySweepQueued = FALSE
  /\ phase = "idle"
  /\ result = NoResponse
  /\ seen = {} /\ executed = {} /\ learned = {} /\ answers = {}
  /\ answered = 0
  /\ closes = 0
-----------------------------------------------------------------------------
(* Admission *)

(***************************************************************************)
(* What a client can send now.  It stamps the deadline within the budget   *)
(* of the message type (validateIpcEnvelope refuses a longer one) and, in  *)
(* a session-bound request, names some session and epoch that were issued. *)
(* A well-behaved client numbers its requests one after the other, with an *)
(* id for each, and uses the whole budget; the others do as they like.     *)
(***************************************************************************)
NewRequestsOf(c, kind) ==
  LET next == Cardinality({r \in seen : r.client = c}) + 1
      bound == kind \in SessionBound
  IN  [client: {c}, kind: {kind},
       id: IF WellBehaved THEN {next} ELSE RequestId,
       seq: IF WellBehaved THEN {next} ELSE 1 .. MaxSequence,
       session: IF bound THEN 1 .. nextSessionCounter ELSE {0},
       epoch: IF bound THEN 1 .. nextSessionEpoch - 1 ELSE {0},
       deadline: IF WellBehaved THEN {now + Budget(kind)} ELSE now .. now + Budget(kind)]

NewRequests ==
  IF Cardinality(seen) < MaxSeen
  THEN UNION {NewRequestsOf(c, kind) : c \in Client, kind \in Kinds}
  ELSE {}

\* A request arrives: for the first time, or again (a retry, a duplicate, a
\* delivery out of order).  When the daemon does not accept it, or its queue
\* is full, it answers DAEMON_STOPPING or IPC_QUEUE_FULL and changes nothing.
Handle(r) ==
  /\ acceptingRequests
  /\ pendingRequests < MaxPending
  /\ nextRequestTicket < MaxTickets
  /\ nextRequestTicket' = nextRequestTicket + 1
  /\ pendingRequests' = pendingRequests + 1
  /\ queue' = Append(queue, [type |-> "request", ticket |-> nextRequestTicket + 1,
                             request |-> r])
  /\ seen' = seen \cup {r}
  /\ UNCHANGED <<now, protocolVars, engineVars, acceptingRequests, lifecycleVars, answered,
                 expirySweepQueued, phase, result, executed, learned, answers>>

\* shutdown(): the first call stops admission and joins the tail.
Shutdown ==
  /\ "shutdown" \in Events
  /\ ~shutdownScheduled
  /\ shutdownScheduled' = TRUE
  /\ acceptingRequests' = FALSE
  /\ queue' = Append(queue, ShutdownItem)
  /\ UNCHANGED <<now, protocolVars, engineVars, nextRequestTicket, seen, stopping,
                 terminalRequestTicket, finalization, closes, pendingRequests, answered,
                 expirySweepQueued, phase, result, executed, learned, answers>>

\* The sweep timer fires; shutdown() and finalization stop the timer.
ScheduleExpirySweep ==
  /\ "sweep" \in Events
  /\ ~shutdownScheduled /\ ~stopping
  /\ ~expirySweepQueued
  /\ expirySweepQueued' = TRUE
  /\ queue' = Append(queue, SweepItem)
  /\ UNCHANGED <<now, protocolVars, engineVars, admissionVars, lifecycleVars,
                 pendingRequests, answered, phase, result, executed, learned, answers>>
-----------------------------------------------------------------------------
(* Serving the head of the queue *)

HeadIs(type) == queue # <<>> /\ Head(queue).type = type

Ticket == Head(queue).ticket
Current == Head(queue).request

\* handleSerial, up to the schema check: the request at the head is looked at.
Serving == phase = "idle" /\ HeadIs("request")

\* Mutant: the terminal ticket is ignored.
BarredNever == FALSE

\* Everything that came after an engine.shutdown request.
Barred == terminalRequestTicket # 0 /\ Ticket > terminalRequestTicket

\* The head has been answered: the next item may be served.
Answer ==
  /\ queue' = Tail(queue)
  /\ pendingRequests' = MaxOf(0, pendingRequests - 1)
  /\ answered' = Ticket
  /\ phase' = "idle"
  /\ result' = NoResponse

StopRequest ==
  /\ Serving /\ Barred
  /\ Answer
  /\ UNCHANGED <<now, protocolVars, engineVars, admissionVars, lifecycleVars,
                 expirySweepQueued, executed, learned, answers>>

\* Mutant: the engine is not told which sessions expired.
EngineAfterPreflightUntold == engineSessions

\* The engine's sessions once preflight has retired the expired ones.
EngineAfterPreflight == EndSessions(engineSessions, ExpiredSessions)

\* preflight refuses the request, or answers a retry from the cache.
RejectRequest ==
  /\ Serving /\ ~Barred
  /\ Preflight(Current) # "PROCEED"
  /\ clients' = ClientsAfterPreflight
  /\ sessions' = SessionsAfterPreflight(Current)
  /\ engineSessions' = EngineAfterPreflight
  /\ answers' = answers \cup
       {[request |-> Current, response |-> entry.response] : entry \in Replayed(Current)}
  /\ Answer
  /\ UNCHANGED <<now, nextSessionEpoch, nextSessionCounter, admissionVars, lifecycleVars,
                 expirySweepQueued, executed, learned>>

\* preflight lets a request of one of these types proceed to dispatch.
Admit(kinds) ==
  /\ Serving /\ ~Barred
  /\ Current.kind \in kinds
  /\ Preflight(Current) = "PROCEED"
  /\ clients' = ClientsAfterPreflight
  /\ executed' = executed \cup {Current}
  /\ UNCHANGED <<now, nextRequestTicket, seen, queueVars, shutdownScheduled, closes,
                 expirySweepQueued, learned, answers>>

\* dispatch comes back with a result that is not published yet.
Compute(code, s, e) ==
  /\ phase' = "published"
  /\ result' = Respond(Current, code, s, e)

DispatchQuery ==
  /\ Admit(Queries \cup {"protocol.negotiate"})
  /\ sessions' = SessionsAfterPreflight(Current)
  /\ engineSessions' = EngineAfterPreflight
  /\ Compute("OK", 0, 0)
  /\ UNCHANGED <<nextSessionEpoch, nextSessionCounter, acceptingRequests, stopping,
                 terminalRequestTicket, finalization>>

\* The engine looks the session up, and most paths renew it: a key that passes
\* through over a cached refresh, an empty commit and an unknown candidate do not.
DispatchSessionOp ==
  /\ Admit(CompositionOps \cup ControlOps)
  /\ sessions' = SessionsAfterPreflight(Current)
  /\ \/ engineSessions' = UpdateSession(EngineAfterPreflight, Current.session)
     \/ /\ Current.kind \in CompositionOps
        /\ engineSessions' = CleanupExpired(EngineAfterPreflight)
  /\ Compute("OK", 0, 0)
  /\ UNCHANGED <<nextSessionEpoch, nextSessionCounter, acceptingRequests, stopping,
                 terminalRequestTicket, finalization>>

DispatchEnd ==
  /\ Admit({"session.end"})
  /\ sessions' = CloseSession(SessionsAfterPreflight(Current), Current.session)
  /\ engineSessions' = EndSessions(EngineAfterPreflight, {Current.session})
  /\ Compute("OK", 0, 0)
  /\ UNCHANGED <<nextSessionEpoch, nextSessionCounter, acceptingRequests, stopping,
                 terminalRequestTicket, finalization>>

\* A begin is refused at the protocol's session limit, fails at the engine's,
\* or opens a session under the next epoch.
DispatchBegin ==
  LET admitted == SessionsAfterPreflight(Current)
      s == nextSessionCounter + 1
      full == Cardinality(DOMAIN admitted) >= MaxSessions
      opens == ~full /\ HasEngineCapacity(EngineAfterPreflight)
  IN
  /\ Admit({"session.begin"})
  /\ \/ /\ opens
        /\ sessions' = OpenSession(admitted, Current.client, s)
        /\ nextSessionEpoch' = nextSessionEpoch + 1
        /\ engineSessions' = BeginSession(EngineAfterPreflight, s)
        /\ nextSessionCounter' = s
        /\ Compute("OK", s, nextSessionEpoch)
     \/ /\ ~opens
        /\ sessions' = admitted
        /\ engineSessions' =
             IF full THEN EngineAfterPreflight ELSE CleanupExpired(EngineAfterPreflight)
        /\ Compute(IF full THEN "IPC_QUEUE_FULL" ELSE "DAEMON_DISPATCH_FAILED", 0, 0)
        /\ UNCHANGED <<nextSessionEpoch, nextSessionCounter>>
  /\ UNCHANGED <<acceptingRequests, stopping, terminalRequestTicket, finalization>>

\* memory.learn: the engine has no commit that this receipt names, or it
\* prepares the entry (renewing the session) and the durable write begins.
DispatchLearn ==
  /\ Admit({"memory.learn"})
  /\ sessions' = SessionsAfterPreflight(Current)
  /\ \/ /\ engineSessions' \in {EngineAfterPreflight, CleanupExpired(EngineAfterPreflight)}
        /\ Compute("OK", 0, 0)
     \/ /\ Current.session \in Fresh(EngineAfterPreflight)
        /\ engineSessions' = UpdateSession(EngineAfterPreflight, Current.session)
        /\ phase' = "recording"
        /\ UNCHANGED result
  /\ UNCHANGED <<nextSessionEpoch, nextSessionCounter, acceptingRequests, stopping,
                 terminalRequestTicket, finalization>>

\* Mutant: a write holds back while a shutdown, queued behind it, is scheduled.
RecordLearningUnlessScheduled ==
  /\ phase = "recording" /\ ~shutdownScheduled
  /\ \/ Compute("LEARNED", 0, 0) /\ learned' = learned \cup {Current}
     \/ Compute("DAEMON_DISPATCH_FAILED", 0, 0) /\ UNCHANGED learned
  /\ UNCHANGED <<now, protocolVars, engineVars, admissionVars, lifecycleVars, queueVars,
                 expirySweepQueued, executed, answers>>

\* The write settles: it is durable and goes live, or it failed and dispatch throws.
RecordLearning ==
  /\ phase = "recording"
  /\ \/ Compute("LEARNED", 0, 0) /\ learned' = learned \cup {Current}
     \/ Compute("DAEMON_DISPATCH_FAILED", 0, 0) /\ UNCHANGED learned
  /\ UNCHANGED <<now, protocolVars, engineVars, admissionVars, lifecycleVars, queueVars,
                 expirySweepQueued, executed, answers>>

\* engine.warm waits for the dictionary and the lexicon to load.
DispatchWarm ==
  /\ Admit({"engine.warm"})
  /\ sessions' = SessionsAfterPreflight(Current)
  /\ engineSessions' = EngineAfterPreflight
  /\ phase' = "warming"
  /\ UNCHANGED <<nextSessionEpoch, nextSessionCounter, result, acceptingRequests, stopping,
                 terminalRequestTicket, finalization>>

\* Then it opens a session of its own in the engine, when there is room for one,
\* and ends it again; without room the result only says that it is not ready.
WarmEngine ==
  /\ phase = "warming"
  /\ engineSessions' = CleanupExpired(engineSessions)
  /\ nextSessionCounter' =
       IF HasEngineCapacity(engineSessions) THEN nextSessionCounter + 1 ELSE nextSessionCounter
  /\ Compute("OK", 0, 0)
  /\ UNCHANGED <<now, protocolVars, admissionVars, lifecycleVars, queueVars,
                 expirySweepQueued, executed, learned, answers>>

\* Mutant: a learning that became durable late is answered like any late result.
LateLearning == result.code \in {"OK", "LEARNED"} /\ now > Current.deadline

\* success(): a result computed after the deadline is not published, except where
\* it stands for something irreversible.
Late == result.code = "OK" /\ now > Current.deadline

\* A late composition operation falls back to passing its key through, anything
\* else late is answered with an error.
Published ==
  IF ~Late THEN result
  ELSE Respond(Current,
               IF Current.kind \in CompositionOps THEN "PASS_THROUGH"
               ELSE "IPC_DEADLINE_EXCEEDED", 0, 0)

\* Mutants: a late result spares the session it is about, or the one it has begun.
UncertainOfResult == IF Late THEN DOMAIN sessions \cap {result.session} ELSE {}
\* retireSession: the session whose state the client can no longer know.
Uncertain == IF Late THEN DOMAIN sessions \cap {Current.session, result.session} ELSE {}

\* success(), then remember(), unless the daemon is stopping.
Publish ==
  LET kept == Restrict(sessions, DOMAIN sessions \ Uncertain)
      replaced == IF stopping THEN {} ELSE RetiredByRemember(kept, Current, Published)
  IN
  /\ phase = "published"
  /\ sessions' = Restrict(kept, DOMAIN kept \ replaced)
  /\ engineSessions' = EndSessions(engineSessions, Uncertain \cup replaced)
  /\ clients' = IF stopping THEN clients ELSE ClientsAfterRemember(Current, Published)
  /\ answers' = answers \cup {[request |-> Current, response |-> Published]}
  /\ Answer
  /\ UNCHANGED <<now, nextSessionEpoch, nextSessionCounter, admissionVars, lifecycleVars,
                 expirySweepQueued, executed, learned>>

RunExpirySweep ==
  /\ phase = "idle" /\ HeadIs("sweep")
  /\ IF stopping THEN UNCHANGED <<clients, sessions, engineSessions>>
     ELSE /\ clients' = ClientsAfterPreflight
          /\ sessions' = Restrict(sessions, LiveSessions)
          /\ engineSessions' = EngineAfterPreflight
  /\ expirySweepQueued' = FALSE
  /\ queue' = Tail(queue)
  /\ UNCHANGED <<now, nextSessionEpoch, nextSessionCounter, admissionVars, lifecycleVars,
                 pendingRequests, answered, phase, result, executed, learned, answers>>
-----------------------------------------------------------------------------
(* Shutdown: shutdownSerial, reached by an engine.shutdown request or by    *)
(* the external shutdown() at the end of the tail, whichever is served      *)
(* first; the other waits for the same finalizationPromise.                 *)

Finalize ==
  /\ acceptingRequests' = FALSE
  /\ stopping' = TRUE
  /\ finalization' = IF finalization = "none" THEN "engine" ELSE finalization
  /\ phase' = "finalizing"

\* engine.shutdown is the terminal barrier of the queue.
DispatchShutdown ==
  /\ Admit({"engine.shutdown"})
  /\ sessions' = SessionsAfterPreflight(Current)
  /\ engineSessions' = EngineAfterPreflight
  /\ terminalRequestTicket' = Ticket
  /\ Finalize
  /\ UNCHANGED <<nextSessionEpoch, nextSessionCounter, result>>

BeginShutdown ==
  /\ phase = "idle" /\ HeadIs("shutdown")
  /\ Finalize
  /\ UNCHANGED <<now, protocolVars, engineVars, nextRequestTicket, seen, terminalRequestTicket,
                 shutdownScheduled, closes, queueVars, expirySweepQueued, result, executed,
                 learned, answers>>

FinalizeEngine ==
  /\ phase = "finalizing" /\ finalization = "engine"
  /\ engineSessions' = [s \in {} |-> 0]
  /\ finalization' = "store"
  /\ UNCHANGED <<now, protocolVars, nextSessionCounter, admissionVars, stopping,
                 terminalRequestTicket, shutdownScheduled, closes, queueVars,
                 expirySweepQueued, phase, result, executed, learned, answers>>

\* persistence.close settles either way; the protocol state is reset even when
\* it fails.
FinalizeStore ==
  /\ phase = "finalizing" /\ finalization = "store"
  /\ closes' = closes + 1
  /\ finalization' \in {"done", "failed"}
  /\ clients' = [c \in {} |-> 0]
  /\ sessions' = [s \in {} |-> 0]
  /\ UNCHANGED <<now, nextSessionEpoch, engineVars, admissionVars, stopping,
                 terminalRequestTicket, shutdownScheduled, queueVars,
                 expirySweepQueued, phase, result, executed, learned, answers>>

\* Mutant: a storage that fails to close leaves everyone waiting.
FinishShutdownWhenDone ==
  /\ phase = "finalizing" /\ finalization = "done"
  /\ \/ /\ HeadIs("request")
        /\ Compute("SHUT_DOWN", 0, 0)
        /\ UNCHANGED queueVars
     \/ /\ HeadIs("shutdown")
        /\ queue' = Tail(queue)
        /\ phase' = "idle"
        /\ UNCHANGED <<pendingRequests, answered, result>>
  /\ UNCHANGED <<now, protocolVars, engineVars, admissionVars, lifecycleVars,
                 expirySweepQueued, executed, learned, answers>>

\* The promise has settled: the request has its result, or shutdown() resolves.
FinishShutdown ==
  /\ phase = "finalizing" /\ finalization \in {"done", "failed"}
  /\ \/ /\ HeadIs("request")
        /\ Compute(IF finalization = "done" THEN "SHUT_DOWN" ELSE "DAEMON_DISPATCH_FAILED", 0, 0)
        /\ UNCHANGED queueVars
     \/ /\ HeadIs("shutdown")
        /\ queue' = Tail(queue)
        /\ phase' = "idle"
        /\ UNCHANGED <<pendingRequests, answered, result>>
  /\ UNCHANGED <<now, protocolVars, engineVars, admissionVars, lifecycleVars,
                 expirySweepQueued, executed, learned, answers>>
-----------------------------------------------------------------------------

Dispatch ==
  \/ DispatchQuery
  \/ DispatchSessionOp
  \/ DispatchEnd
  \/ DispatchBegin
  \/ DispatchLearn
  \/ DispatchWarm
  \/ DispatchShutdown

\* The steps the daemon takes by itself once the queue has a head.
Serve ==
  \/ StopRequest
  \/ RejectRequest
  \/ Dispatch
  \/ RecordLearning
  \/ WarmEngine
  \/ Publish
  \/ RunExpirySweep
  \/ BeginShutdown
  \/ FinalizeEngine
  \/ FinalizeStore
  \/ FinishShutdown

TimePasses ==
  /\ Tick
  /\ UNCHANGED <<protocolVars, engineVars, admissionVars, lifecycleVars, queueVars,
                 expirySweepQueued, phase, result, executed, learned, answers>>

Next ==
  \/ \E r \in seen \cup NewRequests : Handle(r)
  \/ Shutdown
  \/ ScheduleExpirySweep
  \/ Serve
  \/ TimePasses

Spec == Init /\ [][Next]_vars

\* The event loop keeps running the promise chain, and durable writes and the
\* storage's close settle.
FairSpec == Spec /\ WF_vars(Serve)
-----------------------------------------------------------------------------
(* Correctness *)

TypeOK ==
  /\ now \in Nat
  /\ IsClientMap(clients)
  /\ IsSessionMap(sessions)
  /\ nextSessionEpoch \in Nat \ {0}
  /\ IsEngineMap(engineSessions)
  /\ nextSessionCounter \in Nat
  /\ acceptingRequests \in BOOLEAN /\ stopping \in BOOLEAN
  /\ queue \in Seq(Item)
  /\ nextRequestTicket \in Nat /\ terminalRequestTicket \in Nat
  /\ pendingRequests \in Nat
  /\ shutdownScheduled \in BOOLEAN /\ expirySweepQueued \in BOOLEAN
  /\ finalization \in Finalization
  /\ phase \in Phase
  /\ result \in Response \cup {NoResponse}
  /\ seen \subseteq Request /\ IsFiniteSet(seen)
  /\ executed \subseteq seen
  /\ learned \subseteq executed
  /\ answers \subseteq [request: Request, response: Response]
  /\ answered \in Nat
  /\ closes \in Nat

(***************************************************************************)
(* No request is dispatched twice, however often it is delivered, late,    *)
(* out of order, after its cache entry is evicted, after its client has    *)
(* renegotiated, or after its client was forgotten and has come back       *)
(* (preflight, remember, expireIdle).                                      *)
(***************************************************************************)
StartsDispatch == Serving /\ phase' # "idle"

AtMostOnce == [][StartsDispatch => Current \notin executed]_vars

(***************************************************************************)
(* Every answer with a dispatched result, first-hand or from the replay    *)
(* cache, was computed from the very request it answers, and a request is  *)
(* never given two different results (remember, preflight's replay).       *)
(***************************************************************************)
OneResult ==
  /\ \A a \in answers : a.response.to = a.request
  /\ \A a, b \in answers : a.request = b.request => a.response = b.response

(***************************************************************************)
(* Live sessions belong to negotiated clients, under epochs of their own   *)
(* that were issued and never come back (openSession, retireClientSessions,*)
(* cleanupExpiredClients).                                                 *)
(***************************************************************************)
SessionsOwned ==
  /\ \A s \in DOMAIN sessions :
       sessions[s].client \in DOMAIN clients /\ sessions[s].epoch < nextSessionEpoch
  /\ \A s, t \in DOMAIN sessions : sessions[s].epoch = sessions[t].epoch => s = t

EpochsNeverReissued ==
  [][\A s \in DOMAIN sessions' :
       \/ s \in DOMAIN sessions /\ sessions'[s].epoch = sessions[s].epoch
       \/ sessions'[s].epoch >= nextSessionEpoch]_vars

\* The engine keeps no session that the protocol has given up: whatever retires
\* one ends the other (onSessionExpired, retireSession, session.end, shutdown).
NoOrphanEngineSession == DOMAIN engineSessions \subseteq DOMAIN sessions

(***************************************************************************)
(* A session whose client was told that an operation on it missed its      *)
(* deadline, though the engine may have performed it, is gone: the two     *)
(* never go on composing from different states (success, retireSession).   *)
(***************************************************************************)
UncertainSessionRetired ==
  \A a \in answers :
    a.response.code \in {"PASS_THROUGH", "IPC_DEADLINE_EXCEEDED"} =>
      a.request.session \notin DOMAIN sessions

\* A durable learning is never answered with anything but success: no deadline
\* error or failure hides an irreversible write (memory.learn).
LearningAcknowledged ==
  \A a \in answers : a.request \in learned => a.response.code = "LEARNED"

\* Once finalization has begun nothing is dispatched any more (the terminal
\* ticket, the closed admission).
NothingAfterStop == [][stopping => executed' = executed /\ learned' = learned]_vars

\* Every admitted request is answered eventually.
EveryRequestAnswered ==
  \A n \in 1 .. MaxTickets : nextRequestTicket >= n ~> answered >= n

\* A shutdown that was asked for is carried out, whatever else is queued.
ShutdownCompletes == (shutdownScheduled \/ terminalRequestTicket # 0) ~> closes = 1
=============================================================================
