------------------------- MODULE KeyboardDaemonProofs -------------------------
(***************************************************************************)
(* What TLAPS proves of the daemon, for every number of clients, requests  *)
(* and sessions and for every limit, budget and TTL that the assumptions   *)
(* allow: IInv is inductive, and the safety properties follow from it.     *)
(***************************************************************************)
EXTENDS KeyboardDaemonInvariant, FiniteSetTheorems, TLAPS
-----------------------------------------------------------------------------
(* Sequences and maps *)

LEMMA TailFacts ==
  ASSUME NEW T, NEW q \in Seq(T), q # <<>>
  PROVE  /\ Head(q) = q[1] /\ 1 \in DOMAIN q /\ Head(q) \in T
         /\ Tail(q) \in Seq(T)
         /\ \A i \in DOMAIN Tail(q) : i + 1 \in DOMAIN q /\ Tail(q)[i] = q[i + 1]
OBVIOUS

LEMMA AppendFacts ==
  ASSUME NEW T, NEW q \in Seq(T), NEW x \in T
  PROVE  /\ Append(q, x) \in Seq(T) /\ Append(q, x) # <<>>
         /\ DOMAIN Append(q, x) = DOMAIN q \cup {Len(q) + 1}
         /\ Append(q, x)[Len(q) + 1] = x
         /\ \A i \in DOMAIN q : i < Len(q) + 1 /\ Append(q, x)[i] = q[i]
         /\ Head(Append(q, x)) = IF q = <<>> THEN x ELSE Head(q)
<1> DEFINE a == Append(q, x)
<1>1. /\ a \in Seq(T) /\ Len(a) = Len(q) + 1
      /\ a[Len(q) + 1] = x
      /\ \A i \in 1 .. Len(q) : a[i] = q[i]
  OBVIOUS
<1>2. DOMAIN a = DOMAIN q \cup {Len(q) + 1}
  BY <1>1
<1>3. a # <<>> /\ Head(a) = a[1]
  BY <1>1
<1>4. q # <<>> => Head(q) = q[1] /\ 1 \in 1 .. Len(q)
  OBVIOUS
<1> QED
  BY <1>1, <1>2, <1>3, <1>4

LEMMA RestrictClientMap ==
  ASSUME NEW cs, IsClientMap(cs), NEW S \in SUBSET DOMAIN cs
  PROVE  IsClientMap(Restrict(cs, S)) /\ DOMAIN Restrict(cs, S) = S
BY DEF IsClientMap, Restrict

LEMMA RestrictSessionMap ==
  ASSUME NEW ss, IsSessionMap(ss), NEW S \in SUBSET DOMAIN ss
  PROVE  IsSessionMap(Restrict(ss, S)) /\ DOMAIN Restrict(ss, S) = S
BY DEF IsSessionMap, Restrict

LEMMA CleanupMap ==
  ASSUME NEW es, IsEngineMap(es)
  PROVE  IsEngineMap(CleanupExpired(es)) /\ DOMAIN CleanupExpired(es) \subseteq DOMAIN es
BY DEF IsEngineMap, CleanupExpired, Fresh, Restrict

LEMMA UpdateMap ==
  ASSUME NEW es, IsEngineMap(es), NEW s, now \in Nat
  PROVE  IsEngineMap(UpdateSession(es, s)) /\ DOMAIN UpdateSession(es, s) \subseteq DOMAIN es
BY DEF IsEngineMap, UpdateSession, Fresh

LEMMA BeginMap ==
  ASSUME NEW es, IsEngineMap(es), NEW s \in Nat, now \in Nat
  PROVE  IsEngineMap(BeginSession(es, s)) /\ DOMAIN BeginSession(es, s) \subseteq DOMAIN es \cup {s}
BY DEF IsEngineMap, BeginSession, Fresh

LEMMA EndMap ==
  ASSUME NEW es, IsEngineMap(es), NEW S
  PROVE  IsEngineMap(EndSessions(es, S)) /\ DOMAIN EndSessions(es, S) \subseteq DOMAIN es \ S
BY DEF IsEngineMap, EndSessions, Fresh, Restrict

\* expireIdle and preflight leave proper maps, without the clients and sessions
\* that have expired.
LEMMA PreflightMaps ==
  ASSUME IsClientMap(clients), IsSessionMap(sessions), now \in Nat, NEW r
  PROVE  /\ IsClientMap(ClientsAfterPreflight) /\ DOMAIN ClientsAfterPreflight = LiveClients
         /\ \A c \in LiveClients : ClientsAfterPreflight[c] = clients[c]
         /\ LiveClients \subseteq DOMAIN clients
         /\ IsSessionMap(SessionsAfterPreflight(r))
         /\ DOMAIN SessionsAfterPreflight(r) = LiveSessions
         /\ \A s \in LiveSessions :
              /\ SessionsAfterPreflight(r)[s].client = sessions[s].client
              /\ SessionsAfterPreflight(r)[s].epoch = sessions[s].epoch
         /\ LiveSessions \subseteq DOMAIN sessions
<1>1. LiveClients \subseteq DOMAIN clients /\ LiveSessions \subseteq DOMAIN sessions
  BY DEF LiveClients, LiveSessions
<1>2. /\ IsClientMap(ClientsAfterPreflight) /\ DOMAIN ClientsAfterPreflight = LiveClients
      /\ \A c \in LiveClients : ClientsAfterPreflight[c] = clients[c]
  BY <1>1, RestrictClientMap DEF ClientsAfterPreflight, Restrict
<1>3. /\ DOMAIN SessionsAfterPreflight(r) = LiveSessions
      /\ \A s \in LiveSessions :
           /\ SessionsAfterPreflight(r)[s] \in SessionState
           /\ SessionsAfterPreflight(r)[s].client = sessions[s].client
           /\ SessionsAfterPreflight(r)[s].epoch = sessions[s].epoch
  BY <1>1 DEF SessionsAfterPreflight, IsSessionMap, SessionState
<1>4. IsSessionMap(SessionsAfterPreflight(r))
  BY <1>1, <1>3 DEF IsSessionMap, SessionsAfterPreflight
<1> QED
  BY <1>1, <1>2, <1>3, <1>4

LEMMA BoundedType ==
  ASSUME NEW T, NEW q \in Seq(T)
  PROVE  /\ Bounded(q) \in Seq(T)
         /\ Len(Bounded(q)) <= MaxReplay
         /\ \A i \in DOMAIN Bounded(q) : \E j \in DOMAIN q : Bounded(q)[i] = q[j]
<1>1. MaxReplay \in Nat \ {0}
  BY ProtocolAssumption
<1>2. CASE Len(q) <= MaxReplay
  BY <1>1, <1>2 DEF Bounded
<1>3. CASE Len(q) > MaxReplay
  <2> DEFINE first == Len(q) - MaxReplay + 1
             tail == SubSeq(q, first, Len(q))
  <2>1. Bounded(q) = tail
    BY <1>3 DEF Bounded
  <2>2. first \in 1 .. Len(q)
    BY <1>1, <1>3
  <2>3. tail \in Seq(T) /\ Len(tail) = MaxReplay
    BY <1>1, <2>2
  <2>4. \A i \in 1 .. Len(tail) : first + i - 1 \in 1 .. Len(q) /\ tail[i] = q[first + i - 1]
    BY <1>1, <2>2, <2>3
  <2> QED
    BY <1>1, <2>1, <2>3, <2>4
<1> QED
  BY <1>1, <1>2, <1>3

\* remember() leaves a proper map.  The client of a remembered request is in it,
\* with a sequence no lower than the request's and than before, seen just now, and
\* its cache holds the request besides entries that it held before.
LEMMA RememberMap ==
  ASSUME IsClientMap(clients), now \in Nat, NEW r \in Request, NEW response \in Response
  PROVE  LET after == ClientsAfterRemember(r, response)
             entry == [request |-> r, response |-> response]
         IN  /\ IsClientMap(after) /\ DOMAIN clients \subseteq DOMAIN after
             /\ \A c \in DOMAIN clients : c # r.client => after[c] = clients[c]
             /\ DOMAIN after \subseteq DOMAIN clients \cup {r.client}
             /\ Remembers(r, response) =>
                  /\ r.client \in DOMAIN after
                  /\ after[r.client].lastSequence >= r.seq
                  /\ after[r.client].lastSeenAt = now
                  /\ r.client \in DOMAIN clients =>
                       after[r.client].lastSequence >= clients[r.client].lastSequence
                  /\ \A i \in DOMAIN after[r.client].replay :
                       \/ after[r.client].replay[i] = entry
                       \/ /\ r.client \in DOMAIN clients
                          /\ \E j \in DOMAIN clients[r.client].replay :
                               after[r.client].replay[i] = clients[r.client].replay[j]
             /\ ~Remembers(r, response) => r.client \notin DOMAIN clients /\ after = clients
<1> DEFINE entry == [request |-> r, response |-> response]
           known == r.client \in DOMAIN clients
           before == IF known /\ ~Negotiated(r, response) THEN clients[r.client].replay ELSE <<>>
           state == ClientAfterRemember(r, response)
           after == ClientsAfterRemember(r, response)
<1>1. r.client \in Client /\ r.seq \in Nat /\ entry \in ReplayEntry
  BY DEF Request, ReplayEntry
<1>2. known => clients[r.client] \in ClientState /\ clients[r.client].lastSequence \in Nat
               /\ clients[r.client].replay \in Seq(ReplayEntry)
  BY DEF IsClientMap, ClientState
<1>3. before \in Seq(ReplayEntry)
  BY <1>2
<1>4. Append(before, entry) \in Seq(ReplayEntry)
  BY <1>1, <1>3
<1>5. /\ Bounded(Append(before, entry)) \in Seq(ReplayEntry)
      /\ Len(Bounded(Append(before, entry))) <= MaxReplay
      /\ \A i \in DOMAIN Bounded(Append(before, entry)) :
           \E j \in DOMAIN Append(before, entry) :
             Bounded(Append(before, entry))[i] = Append(before, entry)[j]
  BY <1>4, BoundedType
<1>6. /\ state.lastSequence = IF known THEN MaxOf(clients[r.client].lastSequence, r.seq) ELSE r.seq
      /\ state.lastSeenAt = now
      /\ state.replay = Bounded(Append(before, entry))
      /\ state \in ClientState
  <2>1. (IF known THEN MaxOf(clients[r.client].lastSequence, r.seq) ELSE r.seq) \in Nat
    BY <1>1, <1>2 DEF MaxOf
  <2> HIDE DEF before, entry
  <2> QED
    BY <2>1, <1>5 DEF ClientAfterRemember, ClientState, before, entry
<1>7. \A i \in DOMAIN state.replay :
        state.replay[i] = entry \/ (known /\ \E j \in DOMAIN clients[r.client].replay :
                                               state.replay[i] = clients[r.client].replay[j])
  <2> SUFFICES ASSUME NEW i \in DOMAIN state.replay
               PROVE  state.replay[i] = entry \/ (known /\ \E j \in DOMAIN clients[r.client].replay :
                                               state.replay[i] = clients[r.client].replay[j])
    OBVIOUS
  <2>1. PICK j \in DOMAIN Append(before, entry) : state.replay[i] = Append(before, entry)[j]
    BY <1>5, <1>6
  <2>2. \/ Append(before, entry)[j] = entry
        \/ j \in DOMAIN before /\ Append(before, entry)[j] = before[j]
    BY <1>1, <1>3, AppendFacts
  <2>3. DOMAIN before # {} => known /\ before = clients[r.client].replay
    OBVIOUS
  <2> QED
    BY <2>1, <2>2, <2>3
<1>8. CASE Remembers(r, response)
  <2>1. /\ DOMAIN after = DOMAIN clients \cup {r.client}
        /\ after[r.client] = state
        /\ \A c \in DOMAIN clients : c # r.client => after[c] = clients[c]
    BY <1>8 DEF ClientsAfterRemember
  <2>2. IsClientMap(after)
    <3>1. \A c \in DOMAIN after : after[c] \in ClientState /\ Len(after[c].replay) <= MaxReplay
      BY <1>5, <1>6, <2>1 DEF IsClientMap
    <3> QED
      BY <3>1, <2>1, <1>1, <1>8 DEF IsClientMap, ClientsAfterRemember
  <2>3. state.lastSequence >= r.seq
        /\ (known => state.lastSequence >= clients[r.client].lastSequence)
    BY <1>1, <1>2, <1>6 DEF MaxOf
  <2> HIDE DEF state, after
  <2> QED
    BY <1>6, <1>7, <1>8, <2>1, <2>2, <2>3 DEF after
<1>9. CASE ~Remembers(r, response)
  BY <1>9 DEF ClientsAfterRemember, Remembers
<1> QED
  BY <1>8, <1>9
-----------------------------------------------------------------------------
(* Requests *)

LEMMA BudgetType == \A kind : Budget(kind) \in Nat /\ Budget(kind) < ClientIdleTtl
BY ProtocolAssumption DEF Budget

\* Whatever a client sends is a request, with a deadline within its budget.
LEMMA RequestsSent ==
  ASSUME TypeOK, NEW r \in seen \cup NewRequests
  PROVE  /\ r \in Request
         /\ r \notin seen => r.deadline <= now + Budget(r.kind)
<1>1. CASE r \in seen
  BY <1>1 DEF TypeOK
<1>2. CASE r \notin seen
  <2>1. PICK c \in Client, kind \in Kinds : r \in NewRequestsOf(c, kind)
    BY <1>2 DEF NewRequests
  <2> DEFINE next == Cardinality({x \in seen : x.client = c}) + 1
             bound == kind \in SessionBound
  <2>2. Cardinality(seen) < MaxSeen
    BY <1>2 DEF NewRequests
  <2>3. next \in Nat \ {0} /\ next <= MaxSeen
    <3>1. IsFiniteSet(seen) /\ Cardinality(seen) \in Nat /\ MaxSeen \in Nat
      BY FS_CardinalityType, DaemonAssumption DEF TypeOK
    <3>2. IsFiniteSet({x \in seen : x.client = c})
          /\ Cardinality({x \in seen : x.client = c}) <= Cardinality(seen)
      BY <3>1, FS_Subset
    <3>3. Cardinality({x \in seen : x.client = c}) \in Nat
      BY <3>2, FS_CardinalityType
    <3> QED
      BY <2>2, <3>1, <3>2, <3>3
  <2>4. WellBehaved => next \in RequestId
    BY <2>3, DaemonAssumption
  <2>5. now + Budget(kind) \in Nat /\ now \in Nat /\ Budget(kind) \in Nat
    BY BudgetType DEF TypeOK
  <2>6. kind \in IpcMessageType
    BY DaemonAssumption
  <2>7. nextSessionCounter \in Nat /\ nextSessionEpoch - 1 \in Nat
    BY DEF TypeOK
  <2> HIDE DEF next, bound
  <2>8. r \in [client: {c}, kind: {kind},
               id: IF WellBehaved THEN {next} ELSE RequestId,
               seq: IF WellBehaved THEN {next} ELSE 1 .. MaxSequence,
               session: IF bound THEN 1 .. nextSessionCounter ELSE {0},
               epoch: IF bound THEN 1 .. nextSessionEpoch - 1 ELSE {0},
               deadline: IF WellBehaved THEN {now + Budget(kind)} ELSE now .. now + Budget(kind)]
    BY <2>1 DEF NewRequestsOf, next, bound
  <2>9. /\ r.client \in Client /\ r.kind = kind /\ r.id \in RequestId /\ r.seq \in Nat \ {0}
        /\ r.session \in Nat /\ r.epoch \in Nat
        /\ r.deadline \in Nat /\ r.deadline <= now + Budget(kind)
    <3>1. r.id \in RequestId /\ r.seq \in Nat \ {0}
      BY <2>3, <2>4, <2>8, DaemonAssumption
    <3>2. r.session \in Nat /\ r.epoch \in Nat
      BY <2>7, <2>8
    <3> QED
      BY <2>5, <2>8, <3>1, <3>2
  <2> QED
    BY <2>6, <2>8, <2>9 DEF Request
<1> QED
  BY <1>1, <1>2

LEMMA HeadRequest ==
  ASSUME TypeOK, HeadIs("request")
  PROVE  /\ Head(queue) = queue[1] /\ 1 \in DOMAIN queue /\ queue # <<>>
         /\ queue[1] \in RequestItem
         /\ Current \in Request /\ Current = queue[1].request
         /\ Ticket \in Nat \ {0} /\ Ticket = queue[1].ticket
<1>1. Head(queue) = queue[1] /\ 1 \in DOMAIN queue /\ Head(queue) \in Item /\ queue # <<>>
  BY TailFacts DEF TypeOK, HeadIs
<1>2. Head(queue) \in RequestItem
  BY <1>1 DEF Item, HeadIs, SweepItem, ShutdownItem
<1> QED
  BY <1>1, <1>2 DEF RequestItem, Current, Ticket
-----------------------------------------------------------------------------
(* Type correctness *)

LEMMA InitInv == Init => IInv
<1> SUFFICES ASSUME Init PROVE IInv
  OBVIOUS
<1>1. IsClientMap(clients) /\ IsSessionMap(sessions) /\ IsEngineMap(engineSessions)
  BY DEF Init, SessionsInit, IsClientMap, IsSessionMap, IsEngineMap
<1>2. IsFiniteSet(seen)
  BY FS_EmptySet DEF Init
<1>3. TypeOK
  <2>1. queue \in Seq(Item)
    BY DEF Init
  <2>2. /\ now \in Nat /\ nextSessionEpoch \in Nat \ {0} /\ nextSessionCounter \in Nat
        /\ finalization \in Finalization /\ phase \in Phase /\ result \in Response \cup {NoResponse}
    BY DEF Init, ClockInit, SessionsInit, Finalization, Phase
  <2>3. /\ seen \subseteq Request /\ executed \subseteq seen /\ learned \subseteq executed
        /\ answers \subseteq [request: Request, response: Response]
    BY DEF Init
  <2> QED
    BY <1>1, <1>2, <2>1, <2>2, <2>3 DEF Init, TypeOK
<1>4. DOMAIN queue = {} /\ DOMAIN clients = {} /\ DOMAIN sessions = {} /\ DOMAIN engineSessions = {}
  BY DEF Init, SessionsInit
<1>5. HeadOK /\ TicketsOrdered /\ StopIsFinal /\ TimesOK /\ ClientInFlight /\ ExecutedRefused
  BY <1>4 DEF Init, HeadOK, TicketsOrdered, StopIsFinal, TimesOK, ClientInFlight, ExecutedRefused
<1>6. AnswersOK /\ OneResult /\ LearningAcknowledged /\ FinalizationOK /\ SessionsOwned
      /\ NoOrphanEngineSession
  BY <1>4 DEF Init, AnswersOK, OneResult, LearningAcknowledged, FinalizationOK, SessionsOwned,
              NoOrphanEngineSession
<1>7. IdentifiersIssued /\ ResultsInTime /\ UncertainSessionRetired
  BY <1>4 DEF Init, IdentifiersIssued, ResultsInTime, UncertainSessionRetired
<1> QED
  BY <1>3, <1>5, <1>6, <1>7 DEF IInv, DispatchInv

\* The steps that answer the request at the head of the queue.
LEMMA AnswerTypes ==
  ASSUME TypeOK, HeadIs("request"), Answer
  PROVE  /\ queue' \in Seq(Item) /\ pendingRequests' \in Nat /\ answered' \in Nat
         /\ phase' = "idle" /\ result' = NoResponse
BY HeadRequest, TailFacts DEF Answer, TypeOK, MaxOf

LEMMA ComputeTypes ==
  ASSUME TypeOK, HeadIs("request"), NEW code \in ResponseCode, NEW s \in Nat, NEW e \in Nat,
         Compute(code, s, e)
  PROVE  /\ phase' = "published"
         /\ result' \in Response /\ result'.to = Current /\ result'.code = code
BY HeadRequest DEF Compute, Respond, Response

LEMMA EngineAfterPreflightMap ==
  ASSUME TypeOK
  PROVE  /\ IsEngineMap(EngineAfterPreflight)
         /\ DOMAIN EngineAfterPreflight \subseteq DOMAIN engineSessions \ ExpiredSessions
BY CleanupMap, UpdateMap, BeginMap, EndMap DEF EngineAfterPreflight, TypeOK

\* What every admitted request leaves, besides what its own dispatch does.
LEMMA AdmitTypes ==
  ASSUME TypeOK, HeadOK, NEW kinds, Admit(kinds)
  PROVE  /\ HeadIs("request") /\ Current \in Request /\ Current.kind \in kinds
         /\ executed' \subseteq seen' /\ learned' \subseteq executed'
         /\ IsClientMap(clients') /\ clients' = ClientsAfterPreflight
         /\ IsSessionMap(SessionsAfterPreflight(Current))
         /\ DOMAIN SessionsAfterPreflight(Current) = LiveSessions
<1>1. HeadIs("request") /\ clients' = ClientsAfterPreflight /\ Current.kind \in kinds
  BY DEF Admit, Serving
<1>2. Current \in seen
  BY <1>1, HeadRequest DEF HeadOK, RequestItem
<1>3. executed' \subseteq seen' /\ learned' \subseteq executed'
  BY <1>2 DEF Admit, TypeOK
<1> QED
  BY <1>1, <1>3, HeadRequest, PreflightMaps DEF TypeOK

LEMMA TypeStep ==
  ASSUME TypeOK, HeadOK, [Next]_vars
  PROVE  TypeOK'
<1> USE DEF lifecycleVars, queueVars, admissionVars, protocolVars, engineVars, sessionManagerVars
<1>1. ASSUME NEW r \in seen \cup NewRequests, Handle(r)
      PROVE  TypeOK'
  <2>1. r \in Request
    BY RequestsSent
  <2>2. [type |-> "request", ticket |-> nextRequestTicket + 1, request |-> r] \in Item
    BY <2>1 DEF Item, RequestItem, TypeOK
  <2>3. queue' \in Seq(Item)
    BY <1>1, <2>2, AppendFacts DEF Handle, TypeOK
  <2>4. IsFiniteSet(seen')
    BY <1>1, FS_AddElement DEF Handle, TypeOK
  <2> QED
    BY <1>1, <2>1, <2>3, <2>4 DEF Handle, TypeOK
<1>2. CASE Shutdown
  <2>1. queue' \in Seq(Item)
    BY <1>2, AppendFacts DEF Shutdown, TypeOK, Item
  <2> QED
    BY <1>2, <2>1 DEF Shutdown, TypeOK
<1>3. CASE ScheduleExpirySweep
  <2>1. queue' \in Seq(Item)
    BY <1>3, AppendFacts DEF ScheduleExpirySweep, TypeOK, Item
  <2> QED
    BY <1>3, <2>1 DEF ScheduleExpirySweep, TypeOK
<1>4. CASE StopRequest
  <2>1. HeadIs("request")
    BY <1>4 DEF StopRequest, Serving
  <2> QED
    BY <1>4, <2>1, AnswerTypes DEF StopRequest, TypeOK, Phase
<1>5. CASE RejectRequest
  <2>1. HeadIs("request") /\ Current \in Request
    BY <1>5, HeadRequest DEF RejectRequest, Serving
  <2>2. IsClientMap(clients') /\ IsSessionMap(sessions') /\ IsEngineMap(engineSessions')
    BY <1>5, PreflightMaps, EngineAfterPreflightMap DEF RejectRequest, TypeOK
  <2>3. answers' \subseteq [request: Request, response: Response]
    <3>1. \A entry \in Replayed(Current) : entry.response \in Response
      <4> SUFFICES ASSUME NEW entry \in Replayed(Current) PROVE entry.response \in Response
        OBVIOUS
      <4>1. entry \in Range(clients[Current.client].replay) /\ Current.client \in DOMAIN clients
        BY DEF Replayed, Replay, LiveClients
      <4>2. clients[Current.client].replay \in Seq(ReplayEntry)
        BY <4>1 DEF TypeOK, IsClientMap, ClientState
      <4>3. entry \in ReplayEntry
        BY <4>1, <4>2 DEF Range
      <4> QED
        BY <4>3 DEF ReplayEntry
    <3> QED
      BY <1>5, <2>1, <3>1 DEF RejectRequest, TypeOK
  <2> QED
    BY <1>5, <2>1, <2>2, <2>3, AnswerTypes DEF RejectRequest, TypeOK, Phase
<1>6. CASE DispatchQuery
  <2>1. Admit(Queries \cup {"protocol.negotiate"}) /\ Compute("OK", 0, 0)
    BY <1>6 DEF DispatchQuery
  <2>2. phase' = "published" /\ result' \in Response
    BY <2>1, AdmitTypes, ComputeTypes DEF ResponseCode, Success
  <2> QED
    BY <1>6, <2>1, <2>2, AdmitTypes, EngineAfterPreflightMap DEF DispatchQuery, Admit, TypeOK, Phase
<1>7. CASE DispatchSessionOp
  <2>1. Admit(CompositionOps \cup ControlOps) /\ Compute("OK", 0, 0)
    BY <1>7 DEF DispatchSessionOp
  <2>2. phase' = "published" /\ result' \in Response
    BY <2>1, AdmitTypes, ComputeTypes DEF ResponseCode, Success
  <2>3. IsEngineMap(engineSessions')
    <3>1. IsEngineMap(EngineAfterPreflight) /\ now \in Nat
      BY EngineAfterPreflightMap DEF TypeOK
    <3>2. /\ IsEngineMap(UpdateSession(EngineAfterPreflight, Current.session))
          /\ IsEngineMap(CleanupExpired(EngineAfterPreflight))
      BY <3>1, UpdateMap, CleanupMap
    <3> QED
      BY <1>7, <3>2 DEF DispatchSessionOp
  <2> QED
    BY <1>7, <2>1, <2>2, <2>3, AdmitTypes DEF DispatchSessionOp, Admit, TypeOK, Phase
<1>8. CASE DispatchEnd
  <2>1. Admit({"session.end"}) /\ Compute("OK", 0, 0)
    BY <1>8 DEF DispatchEnd
  <2>2. phase' = "published" /\ result' \in Response
    BY <2>1, AdmitTypes, ComputeTypes DEF ResponseCode, Success
  <2>3. IsEngineMap(engineSessions')
    BY <1>8, <2>1, EngineAfterPreflightMap, CleanupMap, UpdateMap, BeginMap, EndMap DEF DispatchEnd, TypeOK
  <2>4. IsSessionMap(sessions')
    BY <1>8, <2>1, AdmitTypes, RestrictSessionMap DEF DispatchEnd, CloseSession
  <2> QED
    BY <1>8, <2>1, <2>2, <2>3, <2>4, AdmitTypes DEF DispatchEnd, Admit, TypeOK, Phase
<1>9. CASE DispatchBegin
  <2> DEFINE admitted == SessionsAfterPreflight(Current)
             s == nextSessionCounter + 1
  <2>1. /\ Admit({"session.begin"}) /\ s \in Nat /\ nextSessionEpoch \in Nat \ {0}
        /\ UNCHANGED <<acceptingRequests, stopping, terminalRequestTicket, finalization>>
    BY <1>9 DEF DispatchBegin, TypeOK
  <2>2. CASE /\ sessions' = OpenSession(admitted, Current.client, s)
             /\ nextSessionEpoch' = nextSessionEpoch + 1
             /\ engineSessions' = BeginSession(EngineAfterPreflight, s)
             /\ nextSessionCounter' = s
             /\ Compute("OK", s, nextSessionEpoch)
    <3>1. phase' = "published" /\ result' \in Response
      BY <2>1, <2>2, AdmitTypes, ComputeTypes DEF ResponseCode, Success
    <3>2. IsEngineMap(engineSessions')
      BY <2>1, <2>2, EngineAfterPreflightMap, CleanupMap, UpdateMap, BeginMap, EndMap DEF TypeOK
    <3>3. IsSessionMap(sessions')
      BY <2>1, <2>2, AdmitTypes DEF OpenSession, IsSessionMap, SessionState, Request, TypeOK
    <3>4. nextSessionEpoch' \in Nat \ {0} /\ nextSessionCounter' \in Nat
      BY <2>1, <2>2
    <3> QED
      BY <2>1, <3>1, <3>2, <3>3, <3>4, AdmitTypes DEF Admit, TypeOK, Phase
  <2>3. CASE /\ sessions' = admitted
             /\ engineSessions' \in {EngineAfterPreflight, CleanupExpired(EngineAfterPreflight)}
             /\ \E code \in {"IPC_QUEUE_FULL", "DAEMON_DISPATCH_FAILED"} : Compute(code, 0, 0)
             /\ UNCHANGED <<nextSessionEpoch, nextSessionCounter>>
    <3>1. phase' = "published" /\ result' \in Response
      BY <2>1, <2>3, AdmitTypes, ComputeTypes DEF ResponseCode
    <3>2. IsEngineMap(engineSessions')
      BY <2>3, EngineAfterPreflightMap, CleanupMap, UpdateMap, BeginMap, EndMap DEF TypeOK
    <3> QED
      BY <2>1, <2>3, <3>1, <3>2, AdmitTypes DEF Admit, TypeOK, Phase
  <2> QED
    BY <1>9, <2>2, <2>3 DEF DispatchBegin
<1>10. CASE DispatchLearn
  <2>1. Admit({"memory.learn"}) /\ Current.session \in Nat
    BY <1>10, AdmitTypes DEF DispatchLearn, Request
  <2>2. IsEngineMap(engineSessions')
    BY <1>10, <2>1, EngineAfterPreflightMap, CleanupMap, UpdateMap, BeginMap, EndMap DEF DispatchLearn, TypeOK
  <2>3. phase' \in Phase /\ result' \in Response \cup {NoResponse}
    BY <1>10, <2>1, AdmitTypes, ComputeTypes DEF DispatchLearn, ResponseCode, Success, Phase, TypeOK
  <2> QED
    BY <1>10, <2>1, <2>2, <2>3, AdmitTypes DEF DispatchLearn, Admit, TypeOK
<1>11. CASE RecordLearning
  <2>1. HeadIs("request") /\ Current \in executed
    BY <1>11 DEF RecordLearning, HeadOK
  <2>2. phase' = "published" /\ result' \in Response
    BY <1>11, <2>1, ComputeTypes DEF RecordLearning, ResponseCode, Success
  <2> QED
    BY <1>11, <2>1, <2>2 DEF RecordLearning, TypeOK, Phase
<1>12. CASE DispatchWarm
  <2>1. Admit({"engine.warm"})
    BY <1>12 DEF DispatchWarm
  <2> QED
    BY <1>12, <2>1, AdmitTypes, EngineAfterPreflightMap DEF DispatchWarm, Admit, TypeOK, Phase
<1>13. CASE WarmEngine
  <2>1. HeadIs("request")
    BY <1>13 DEF WarmEngine, HeadOK
  <2>2. phase' = "published" /\ result' \in Response
    BY <1>13, <2>1, ComputeTypes DEF WarmEngine, ResponseCode, Success
  <2>3. IsEngineMap(engineSessions')
    BY <1>13, CleanupMap, UpdateMap, BeginMap, EndMap DEF WarmEngine, TypeOK
  <2> QED
    BY <1>13, <2>1, <2>2, <2>3 DEF WarmEngine, TypeOK, Phase
<1>14. CASE DispatchShutdown
  <2>1. Admit({"engine.shutdown"})
    BY <1>14 DEF DispatchShutdown
  <2> QED
    BY <1>14, <2>1, AdmitTypes, HeadRequest, EngineAfterPreflightMap
       DEF DispatchShutdown, Finalize, Admit, TypeOK, Phase, Finalization
<1>15. CASE Publish
  <2>1. HeadIs("request") /\ Current \in Request /\ result \in Response
    BY <1>15, HeadRequest DEF Publish, HeadOK
  <2>2. Published \in Response
    BY <2>1 DEF Published, Respond, Response, ResponseCode, Success
  <2>3. IsClientMap(clients')
    BY <1>15, <2>1, <2>2, RememberMap DEF Publish, TypeOK
  <2>4. IsSessionMap(sessions')
    BY <1>15, RestrictSessionMap DEF Publish, TypeOK
  <2>5. IsEngineMap(engineSessions')
    BY <1>15, CleanupMap, UpdateMap, BeginMap, EndMap DEF Publish, TypeOK
  <2> QED
    BY <1>15, <2>1, <2>2, <2>3, <2>4, <2>5, AnswerTypes DEF Publish, TypeOK, Phase
<1>16. CASE RunExpirySweep
  <2>1. queue' \in Seq(Item)
    BY <1>16, TailFacts DEF RunExpirySweep, HeadIs, TypeOK
  <2>2. IsClientMap(clients') /\ IsSessionMap(sessions') /\ IsEngineMap(engineSessions')
    BY <1>16, PreflightMaps, RestrictSessionMap, EngineAfterPreflightMap DEF RunExpirySweep, TypeOK
  <2> QED
    BY <1>16, <2>1, <2>2 DEF RunExpirySweep, TypeOK
<1>17. CASE BeginShutdown
  BY <1>17 DEF BeginShutdown, Finalize, TypeOK, Phase, Finalization
<1>18. CASE FinalizeEngine
  <2>1. IsEngineMap(engineSessions')
    BY <1>18 DEF FinalizeEngine, IsEngineMap
  <2> QED
    BY <1>18, <2>1 DEF FinalizeEngine, TypeOK, Finalization
<1>19. CASE FinalizeStore
  <2>1. IsClientMap(clients') /\ IsSessionMap(sessions')
    BY <1>19 DEF FinalizeStore, IsClientMap, IsSessionMap
  <2> QED
    BY <1>19, <2>1 DEF FinalizeStore, TypeOK, Finalization
<1>20. CASE FinishShutdown
  <2>1. CASE HeadIs("request") /\ UNCHANGED queueVars
             /\ \E code \in {"SHUT_DOWN", "DAEMON_DISPATCH_FAILED"} : Compute(code, 0, 0)
    <3>1. phase' = "published" /\ result' \in Response
      BY <2>1, ComputeTypes DEF ResponseCode, Success
    <3> QED
      BY <1>20, <2>1, <3>1 DEF FinishShutdown, TypeOK, Phase
  <2>2. CASE HeadIs("shutdown") /\ queue' = Tail(queue) /\ phase' = "idle"
             /\ UNCHANGED <<pendingRequests, answered, result>>
    <3>1. queue' \in Seq(Item)
      BY <2>2, TailFacts DEF HeadIs, TypeOK
    <3> QED
      BY <1>20, <2>2, <3>1 DEF FinishShutdown, TypeOK, Phase
  <2> QED
    BY <1>20, <2>1, <2>2 DEF FinishShutdown
<1>21. CASE TimePasses
  BY <1>21 DEF TimePasses, Tick, TypeOK
<1>22. CASE UNCHANGED vars
  BY <1>22 DEF vars, TypeOK
<1> QED
  BY <1>1, <1>2, <1>3, <1>4, <1>5, <1>6, <1>7, <1>8, <1>9, <1>10, <1>11, <1>12, <1>13, <1>14,
     <1>15, <1>16, <1>17, <1>18, <1>19, <1>20, <1>21, <1>22
     DEF Next, Serve, Dispatch
-----------------------------------------------------------------------------
(* The queue and its head *)

\* Where the queue of a step comes from.
Popped == queue # <<>> /\ queue' = Tail(queue)
Pushed(x) == x \in Item /\ queue' = Append(queue, x)

LEMMA PoppedItems ==
  ASSUME TypeOK, Popped
  PROVE  \A i \in DOMAIN queue' : i \in Nat /\ i + 1 \in DOMAIN queue /\ queue'[i] = queue[i + 1]
BY TailFacts DEF Popped, TypeOK

LEMMA PushedItems ==
  ASSUME TypeOK, NEW x, Pushed(x)
  PROVE  /\ queue' # <<>> /\ (queue # <<>> => Head(queue') = Head(queue))
         /\ \A i \in DOMAIN queue' :
              \/ i \in DOMAIN queue /\ i < Len(queue) + 1 /\ queue'[i] = queue[i]
              \/ i = Len(queue) + 1 /\ queue'[i] = x
BY AppendFacts DEF Pushed, TypeOK

\* A step that leaves the queue alone leaves its head alone.
LEMMA SameHead ==
  ASSUME UNCHANGED queue
  PROVE  Current' = Current /\ Ticket' = Ticket /\ \A t : HeadIs(t)' <=> HeadIs(t)
BY DEF Current, Ticket, HeadIs

LEMMA HeadPopped ==
  ASSUME TypeOK, HeadOK, Popped, UNCHANGED seen, phase' = "idle"
  PROVE  HeadOK'
BY PoppedItems DEF HeadOK

LEMMA HeadPushed ==
  ASSUME TypeOK, HeadOK, NEW x, Pushed(x), seen \subseteq seen',
         x.type = "request" => x.request \in seen',
         UNCHANGED <<phase, result, executed, stopping>>
  PROVE  HeadOK'
<1>1. \A i \in DOMAIN queue' : queue'[i].type = "request" => queue'[i].request \in seen'
  BY PushedItems DEF HeadOK
<1>2. CASE phase = "idle"
  BY <1>1, <1>2 DEF HeadOK
<1>3. CASE phase # "idle"
  <2>1. Current' = Current /\ \A t : HeadIs(t)' <=> HeadIs(t)
    BY <1>3, PushedItems DEF HeadOK, HeadIs, Current
  <2> QED
    BY <1>1, <1>3, <2>1, PushedItems DEF HeadOK
<1> QED
  BY <1>2, <1>3

\* A dispatch ends in "published" or in a phase that names its request's type.
LEMMA HeadDispatched ==
  ASSUME TypeOK, HeadOK, UNCHANGED <<queue, seen>>, HeadIs("request"), Current \in executed',
         \/ /\ phase' = "published" /\ result' \in Response /\ result'.to = Current
            /\ Current.kind = "protocol.negotiate" => result'.code = "OK"
         \/ phase' = "warming"
         \/ phase' = "recording" /\ Current.kind = "memory.learn"
         \/ phase' = "finalizing" /\ stopping' /\ Current.kind = "engine.shutdown"
  PROVE  HeadOK'
<1>1. Current' = Current /\ \A t : HeadIs(t)' <=> HeadIs(t)
  BY SameHead
<1>2. queue # <<>>
  BY DEF HeadIs
<1> QED
  BY <1>1, <1>2 DEF HeadOK

\* An arriving request joins the tail under a new ticket; an answered one leaves
\* the head.
LEMMA HandlePushes ==
  ASSUME TypeOK, NEW r \in seen \cup NewRequests, Handle(r)
  PROVE  \E x : /\ Pushed(x) /\ x.type = "request" /\ x.request = r
                /\ x.ticket = nextRequestTicket + 1
<1> DEFINE x == [type |-> "request", ticket |-> nextRequestTicket + 1, request |-> r]
<1>1. x \in RequestItem
  BY RequestsSent DEF RequestItem, TypeOK
<1>2. Pushed(x)
  BY <1>1 DEF Handle, Pushed, Item
<1> QED
  BY <1>2

LEMMA AnswerPops ==
  ASSUME TypeOK, HeadIs("request"), Answer
  PROVE  Popped /\ phase' = "idle"
BY HeadRequest DEF Answer, Popped

LEMMA HeadStep ==
  ASSUME TypeOK, HeadOK, [Next]_vars
  PROVE  HeadOK'
<1> USE DEF lifecycleVars, queueVars, admissionVars, protocolVars, engineVars, sessionManagerVars
<1>1. ASSUME NEW r \in seen \cup NewRequests, Handle(r)
      PROVE  HeadOK'
  BY <1>1, HandlePushes, HeadPushed DEF Handle
<1>2. CASE Shutdown
  <2>1. Pushed(ShutdownItem) /\ ShutdownItem.type = "shutdown"
    BY <1>2 DEF Shutdown, Pushed, Item, ShutdownItem
  <2> QED
    BY <1>2, <2>1, HeadPushed DEF Shutdown
<1>3. CASE ScheduleExpirySweep
  <2>1. Pushed(SweepItem) /\ SweepItem.type = "sweep"
    BY <1>3 DEF ScheduleExpirySweep, Pushed, Item, SweepItem
  <2> QED
    BY <1>3, <2>1, HeadPushed DEF ScheduleExpirySweep
<1>4. CASE StopRequest \/ RejectRequest \/ Publish
  <2>1. HeadIs("request") /\ Answer /\ UNCHANGED seen
    BY <1>4 DEF StopRequest, RejectRequest, Publish, Serving, HeadOK
  <2> QED
    BY <2>1, AnswerPops, HeadPopped
<1>5. CASE RunExpirySweep
  <2>1. Popped /\ phase' = "idle" /\ UNCHANGED seen
    BY <1>5 DEF RunExpirySweep, Popped, HeadIs
  <2> QED
    BY <2>1, HeadPopped
<1>6. ASSUME Dispatch
      PROVE  HeadOK'
  <2>1. ASSUME NEW kinds, Admit(kinds)
        PROVE  /\ HeadIs("request") /\ Current.kind \in kinds /\ Current \in executed'
               /\ UNCHANGED <<queue, seen>>
    BY <2>1 DEF Admit, Serving
  <2>2. ASSUME NEW kinds, Admit(kinds), "protocol.negotiate" \notin kinds,
               NEW code \in ResponseCode, NEW s \in Nat, NEW e \in Nat, Compute(code, s, e)
        PROVE  HeadOK'
    BY <2>1, <2>2, HeadDispatched, ComputeTypes
  <2>3. CASE DispatchQuery
    <3>1. HeadIs("request") /\ Compute("OK", 0, 0)
      BY <2>1, <2>3 DEF DispatchQuery
    <3>2. phase' = "published" /\ result' \in Response /\ result'.to = Current /\ result'.code = "OK"
      BY <3>1, ComputeTypes DEF ResponseCode, Success
    <3> QED
      BY <2>1, <2>3, <3>1, <3>2, HeadDispatched DEF DispatchQuery
  <2>4. CASE DispatchSessionOp
    <3>1. "protocol.negotiate" \notin CompositionOps \cup ControlOps
      BY DEF CompositionOps, ControlOps
    <3> QED
      BY <2>2, <2>4, <3>1 DEF DispatchSessionOp, ResponseCode, Success
  <2>5. CASE DispatchEnd
    BY <2>2, <2>5 DEF DispatchEnd, ResponseCode, Success
  <2>6. CASE DispatchBegin
    <3>1. nextSessionCounter + 1 \in Nat /\ nextSessionEpoch \in Nat
      BY DEF TypeOK
    <3>2. \E code \in ResponseCode, s \in Nat, e \in Nat : Compute(code, s, e)
      BY <2>6, <3>1 DEF DispatchBegin, ResponseCode, Success
    <3>3. Admit({"session.begin"})
      BY <2>6 DEF DispatchBegin
    <3> QED
      BY <2>2, <3>2, <3>3
  <2>7. CASE DispatchLearn
    <3>1. Admit({"memory.learn"}) /\ (Compute("OK", 0, 0) \/ phase' = "recording")
      BY <2>7 DEF DispatchLearn
    <3>2. CASE Compute("OK", 0, 0)
      BY <2>2, <3>1, <3>2 DEF ResponseCode, Success
    <3>3. CASE phase' = "recording"
      BY <2>1, <3>1, <3>3, HeadDispatched
    <3> QED
      BY <3>1, <3>2, <3>3
  <2>8. CASE DispatchWarm
    BY <2>1, <2>8, HeadDispatched DEF DispatchWarm
  <2>9. CASE DispatchShutdown
    BY <2>1, <2>9, HeadDispatched DEF DispatchShutdown, Finalize
  <2> QED
    BY <1>6, <2>3, <2>4, <2>5, <2>6, <2>7, <2>8, <2>9 DEF Dispatch
<1>7. CASE RecordLearning
  <2>1. HeadIs("request") /\ Current \in executed /\ Current.kind = "memory.learn"
    BY <1>7 DEF RecordLearning, HeadOK
  <2>2. phase' = "published" /\ result' \in Response /\ result'.to = Current
    BY <1>7, <2>1, ComputeTypes DEF RecordLearning, ResponseCode, Success
  <2> QED
    BY <1>7, <2>1, <2>2, HeadDispatched DEF RecordLearning
<1>8. CASE WarmEngine
  <2>1. HeadIs("request") /\ Current \in executed
    BY <1>8 DEF WarmEngine, HeadOK
  <2>2. phase' = "published" /\ result' \in Response /\ result'.to = Current /\ result'.code = "OK"
    BY <1>8, <2>1, ComputeTypes DEF WarmEngine, ResponseCode, Success
  <2> QED
    BY <1>8, <2>1, <2>2, HeadDispatched DEF WarmEngine
<1>9. CASE BeginShutdown
  <2>1. HeadIs("shutdown") /\ UNCHANGED <<queue, seen>> /\ phase' = "finalizing" /\ stopping'
    BY <1>9 DEF BeginShutdown, Finalize
  <2> QED
    BY <2>1, SameHead DEF HeadOK, HeadIs
<1>10. CASE FinalizeEngine \/ FinalizeStore
  <2>1. /\ UNCHANGED <<queue, seen, executed, stopping, result>>
        /\ phase = "finalizing" /\ phase' = "finalizing"
    BY <1>10 DEF FinalizeEngine, FinalizeStore
  <2> QED
    BY <2>1, SameHead DEF HeadOK
<1>11. CASE FinishShutdown
  <2>1. CASE HeadIs("request")
    <3>1. /\ \E code \in {"SHUT_DOWN", "DAEMON_DISPATCH_FAILED"} : Compute(code, 0, 0)
          /\ UNCHANGED <<queue, seen, executed>> /\ Current.kind = "engine.shutdown"
      BY <1>11, <2>1 DEF FinishShutdown, HeadIs, HeadOK
    <3>2. phase' = "published" /\ result' \in Response /\ result'.to = Current
      BY <2>1, <3>1, ComputeTypes DEF ResponseCode, Success
    <3>3. Current \in executed
      BY <1>11, <2>1 DEF FinishShutdown, HeadOK
    <3> QED
      BY <2>1, <3>1, <3>2, <3>3, HeadDispatched
  <2>2. CASE HeadIs("shutdown")
    <3>1. Popped /\ phase' = "idle" /\ UNCHANGED seen
      BY <1>11, <2>2 DEF FinishShutdown, Popped, HeadIs
    <3> QED
      BY <3>1, HeadPopped
  <2> QED
    BY <1>11, <2>1, <2>2 DEF FinishShutdown
<1>12. CASE TimePasses \/ UNCHANGED vars
  <2>1. UNCHANGED <<queue, seen, executed, stopping, result, phase>>
    BY <1>12 DEF TimePasses, vars
  <2> QED
    BY <2>1, SameHead DEF HeadOK
<1> QED
  BY <1>1, <1>2, <1>3, <1>4, <1>5, <1>6, <1>7, <1>8, <1>9, <1>10, <1>11, <1>12 DEF Next, Serve
-----------------------------------------------------------------------------
(* The order of the queue and the end of it *)

\* Nothing is dispatched once the daemon stops: what is left is barred.
LEMMA AdmitNotStopping ==
  ASSUME TypeOK, StopIsFinal, NEW kinds, Admit(kinds)
  PROVE  ~stopping
BY HeadRequest DEF Admit, Serving, StopIsFinal, Barred, RequestItem

LEMMA OrderPopped ==
  ASSUME TypeOK, TicketsOrdered, StopIsFinal, Popped, phase' = "idle",
         UNCHANGED <<nextRequestTicket, stopping, shutdownScheduled, acceptingRequests,
                     terminalRequestTicket>>
  PROVE  TicketsOrdered' /\ StopIsFinal'
<1>1. TicketsOrdered'
  BY PoppedItems DEF TicketsOrdered
<1>2. \A i \in DOMAIN queue' :
        i \in Nat /\ i + 1 # 1 /\ i + 1 \in DOMAIN queue /\ queue'[i] = queue[i + 1]
  <2>1. \A i \in DOMAIN queue' : i >= 1
    BY TailFacts DEF Popped, TypeOK
  <2> QED
    BY <2>1, PoppedItems
<1>3. \A i, j \in DOMAIN queue' :
        queue'[i].type = "shutdown" /\ i < j => queue'[j].type # "request"
  <2> SUFFICES ASSUME NEW i \in DOMAIN queue', NEW j \in DOMAIN queue',
                      queue'[i].type = "shutdown", i < j
               PROVE  queue'[j].type # "request"
    OBVIOUS
  <2>1. i + 1 < j + 1
    BY <1>2
  <2> QED
    BY <1>2, <2>1 DEF StopIsFinal
<1>4. stopping => \A i \in DOMAIN queue' :
        queue'[i].type = "request" =>
          terminalRequestTicket # 0 /\ queue'[i].ticket > terminalRequestTicket
  BY <1>2 DEF StopIsFinal
<1>5. StopIsFinal'
  BY <1>2, <1>3, <1>4 DEF StopIsFinal
<1> QED
  BY <1>1, <1>5

LEMMA OrderUnchanged ==
  ASSUME TicketsOrdered, StopIsFinal, phase' \in {phase, "finalizing", "published"} \/ ~stopping,
         UNCHANGED <<queue, nextRequestTicket, stopping, shutdownScheduled, acceptingRequests,
                     terminalRequestTicket>>
  PROVE  TicketsOrdered' /\ StopIsFinal'
BY DEF TicketsOrdered, StopIsFinal

LEMMA OrderPushed ==
  ASSUME TypeOK, TicketsOrdered, StopIsFinal, NEW x, Pushed(x),
         nextRequestTicket' \in Nat, nextRequestTicket' >= nextRequestTicket,
         x.type = "request" =>
           /\ acceptingRequests
           /\ x.ticket = nextRequestTicket + 1 /\ nextRequestTicket' = nextRequestTicket + 1,
         x.type = "shutdown" => shutdownScheduled',
         shutdownScheduled => shutdownScheduled',
         stopping \/ shutdownScheduled' => ~acceptingRequests',
         UNCHANGED <<phase, stopping, terminalRequestTicket>>
  PROVE  TicketsOrdered' /\ StopIsFinal'
<1>1. \A i \in DOMAIN queue :
        queue[i].type = "request" => queue[i].ticket \in Nat
  BY DEF TypeOK, Item, RequestItem, SweepItem, ShutdownItem
<1>2. TicketsOrdered'
  <2>1. \A i \in DOMAIN queue' :
          queue'[i].type = "request" => queue'[i].ticket <= nextRequestTicket'
    BY <1>1, PushedItems DEF TicketsOrdered, TypeOK
  <2>2. \A i, j \in DOMAIN queue' :
          i < j /\ queue'[i].type = "request" /\ queue'[j].type = "request" =>
            queue'[i].ticket < queue'[j].ticket
    <3> SUFFICES ASSUME NEW i \in DOMAIN queue', NEW j \in DOMAIN queue', i < j,
                        queue'[i].type = "request", queue'[j].type = "request"
                 PROVE  queue'[i].ticket < queue'[j].ticket
      OBVIOUS
    <3>1. i \in DOMAIN queue /\ queue'[i] = queue[i]
      BY PushedItems DEF TypeOK
    <3>2. CASE j \in DOMAIN queue /\ queue'[j] = queue[j]
      BY <3>1, <3>2 DEF TicketsOrdered
    <3>3. CASE queue'[j] = x
      BY <1>1, <3>1, <3>3 DEF TicketsOrdered, TypeOK
    <3> QED
      BY <3>2, <3>3, PushedItems
  <2> QED
    BY <2>1, <2>2 DEF TicketsOrdered
<1>3. StopIsFinal'
  <2>1. x.type = "request" => ~stopping /\ ~shutdownScheduled
    BY DEF StopIsFinal
  <2>2. \A i, j \in DOMAIN queue' :
          queue'[i].type = "shutdown" /\ i < j => queue'[j].type # "request"
    <3> SUFFICES ASSUME NEW i \in DOMAIN queue', NEW j \in DOMAIN queue',
                        queue'[i].type = "shutdown", i < j
                 PROVE  queue'[j].type # "request"
      OBVIOUS
    <3>1. i \in DOMAIN queue /\ queue'[i] = queue[i]
      BY PushedItems DEF TypeOK
    <3>2. CASE j \in DOMAIN queue /\ queue'[j] = queue[j]
      BY <3>1, <3>2 DEF StopIsFinal
    <3>3. CASE queue'[j] = x
      BY <2>1, <3>1, <3>3 DEF StopIsFinal
    <3> QED
      BY <3>2, <3>3, PushedItems
  <2>3. \A i \in DOMAIN queue' : queue'[i].type = "shutdown" => shutdownScheduled'
    BY PushedItems DEF StopIsFinal
  <2>4. stopping =>
          \A i \in DOMAIN queue' :
            queue'[i].type = "request" =>
              \/ terminalRequestTicket # 0 /\ queue'[i].ticket > terminalRequestTicket
              \/ i = 1 /\ phase \in {"finalizing", "published"}
    BY <2>1, PushedItems DEF StopIsFinal
  <2> QED
    BY <2>2, <2>3, <2>4 DEF StopIsFinal
<1> QED
  BY <1>2, <1>3

LEMMA OrderStep ==
  ASSUME TypeOK, HeadOK, TicketsOrdered, StopIsFinal, [Next]_vars
  PROVE  TicketsOrdered' /\ StopIsFinal'
<1> USE DEF lifecycleVars, queueVars, admissionVars
<1>1. ASSUME NEW r \in seen \cup NewRequests, Handle(r)
      PROVE  TicketsOrdered' /\ StopIsFinal'
  <2>1. PICK x : Pushed(x) /\ x.type = "request" /\ x.ticket = nextRequestTicket + 1
    BY <1>1, HandlePushes
  <2>2. /\ acceptingRequests /\ nextRequestTicket' = nextRequestTicket + 1
        /\ UNCHANGED <<phase, stopping, terminalRequestTicket, shutdownScheduled, acceptingRequests>>
    BY <1>1 DEF Handle
  <2>3. nextRequestTicket \in Nat /\ (stopping \/ shutdownScheduled => ~acceptingRequests)
    BY DEF TypeOK, StopIsFinal
  <2> QED
    BY <2>1, <2>2, <2>3, OrderPushed
<1>2. CASE Shutdown
  <2>1. /\ Pushed(ShutdownItem) /\ ShutdownItem.type = "shutdown"
        /\ shutdownScheduled' /\ ~acceptingRequests'
        /\ UNCHANGED <<phase, stopping, terminalRequestTicket, nextRequestTicket>>
    BY <1>2 DEF Shutdown, Pushed, Item, ShutdownItem
  <2>2. nextRequestTicket \in Nat
    BY DEF TypeOK
  <2> QED
    BY <2>1, <2>2, OrderPushed
<1>3. CASE ScheduleExpirySweep
  <2>1. /\ Pushed(SweepItem) /\ SweepItem.type = "sweep"
        /\ UNCHANGED <<phase, stopping, terminalRequestTicket, nextRequestTicket,
                       shutdownScheduled, acceptingRequests>>
    BY <1>3 DEF ScheduleExpirySweep, Pushed, Item, SweepItem
  <2>2. nextRequestTicket \in Nat /\ (stopping \/ shutdownScheduled => ~acceptingRequests)
    BY DEF TypeOK, StopIsFinal
  <2> QED
    BY <2>1, <2>2, OrderPushed
<1>4. CASE StopRequest \/ RejectRequest \/ Publish
  <2>1. HeadIs("request") /\ Answer
    BY <1>4 DEF StopRequest, RejectRequest, Publish, Serving, HeadOK
  <2>2. UNCHANGED <<nextRequestTicket, stopping, shutdownScheduled, acceptingRequests,
                    terminalRequestTicket>>
    BY <1>4 DEF StopRequest, RejectRequest, Publish
  <2> QED
    BY <2>1, <2>2, AnswerPops, OrderPopped
<1>5. CASE RunExpirySweep
  <2>1. /\ Popped /\ phase' = "idle"
        /\ UNCHANGED <<nextRequestTicket, stopping, shutdownScheduled, acceptingRequests,
                       terminalRequestTicket>>
    BY <1>5 DEF RunExpirySweep, Popped, HeadIs
  <2> QED
    BY <2>1, OrderPopped
<1>6. CASE DispatchQuery \/ DispatchSessionOp \/ DispatchEnd \/ DispatchBegin \/ DispatchLearn
           \/ DispatchWarm
  <2>1. PICK kinds : Admit(kinds)
    BY <1>6 DEF DispatchQuery, DispatchSessionOp, DispatchEnd, DispatchBegin, DispatchLearn,
                DispatchWarm
  <2>2. UNCHANGED <<queue, nextRequestTicket, stopping, shutdownScheduled, acceptingRequests,
                    terminalRequestTicket>>
    BY <1>6, <2>1 DEF Admit, DispatchQuery, DispatchSessionOp, DispatchEnd, DispatchBegin,
                      DispatchLearn, DispatchWarm
  <2> QED
    BY <2>1, <2>2, AdmitNotStopping, OrderUnchanged
<1>7. CASE RecordLearning \/ WarmEngine
  <2>1. /\ phase' = "published"
        /\ UNCHANGED <<queue, nextRequestTicket, stopping, shutdownScheduled, acceptingRequests,
                       terminalRequestTicket>>
    BY <1>7 DEF RecordLearning, WarmEngine, Compute
  <2> QED
    BY <2>1, OrderUnchanged
<1>8. CASE DispatchShutdown
  <2>1. /\ Serving /\ UNCHANGED <<queue, nextRequestTicket, shutdownScheduled>>
        /\ terminalRequestTicket' = Ticket /\ phase' = "finalizing"
        /\ stopping' /\ ~acceptingRequests'
    BY <1>8 DEF DispatchShutdown, Admit, Finalize
  <2>2. 1 \in DOMAIN queue /\ Ticket = queue[1].ticket /\ Ticket \in Nat \ {0}
        /\ queue[1].type = "request"
    BY <2>1, HeadRequest DEF Serving, RequestItem
  <2>3. \A i \in DOMAIN queue : i # 1 => 1 < i
    BY DEF TypeOK
  <2>4. \A i \in DOMAIN queue :
          queue[i].type = "request" /\ i # 1 => queue[i].ticket > Ticket
    BY <2>2, <2>3 DEF TicketsOrdered, TypeOK, Item, RequestItem, SweepItem, ShutdownItem
  <2>5. TicketsOrdered'
    BY <2>1 DEF TicketsOrdered
  <2> QED
    BY <2>1, <2>2, <2>4, <2>5 DEF StopIsFinal
<1>9. CASE BeginShutdown
  <2>1. /\ HeadIs("shutdown") /\ UNCHANGED <<queue, nextRequestTicket, shutdownScheduled,
                                              terminalRequestTicket>>
        /\ stopping' /\ ~acceptingRequests' /\ phase' = "finalizing"
    BY <1>9 DEF BeginShutdown, Finalize
  <2>2. 1 \in DOMAIN queue /\ queue[1].type = "shutdown"
    BY <2>1, TailFacts DEF HeadIs, TypeOK
  <2>3. \A i \in DOMAIN queue : queue[i].type # "request"
    BY <2>2 DEF StopIsFinal, TypeOK
  <2> QED
    BY <2>1, <2>3 DEF StopIsFinal, TicketsOrdered
<1>10. CASE FinalizeEngine \/ FinalizeStore
  <2>1. /\ phase' = "finalizing"
        /\ UNCHANGED <<queue, nextRequestTicket, stopping, shutdownScheduled, acceptingRequests,
                       terminalRequestTicket>>
    BY <1>10 DEF FinalizeEngine, FinalizeStore
  <2> QED
    BY <2>1, OrderUnchanged
<1>11. CASE FinishShutdown
  <2>1. UNCHANGED <<nextRequestTicket, stopping, shutdownScheduled, acceptingRequests,
                    terminalRequestTicket>>
    BY <1>11 DEF FinishShutdown
  <2>2. (phase' = "published" /\ UNCHANGED queue) \/ (phase' = "idle" /\ Popped)
    BY <1>11 DEF FinishShutdown, Compute, Popped, HeadIs
  <2> QED
    BY <2>1, <2>2, OrderUnchanged, OrderPopped
<1>12. CASE TimePasses \/ UNCHANGED vars
  <2>1. UNCHANGED <<queue, nextRequestTicket, stopping, shutdownScheduled, acceptingRequests,
                    terminalRequestTicket, phase>>
    BY <1>12 DEF TimePasses, vars
  <2> QED
    BY <2>1, OrderUnchanged
<1> QED
  BY <1>1, <1>2, <1>3, <1>4, <1>5, <1>6, <1>7, <1>8, <1>9, <1>10, <1>11, <1>12
     DEF Next, Serve, Dispatch
-----------------------------------------------------------------------------
(* No request is dispatched twice *)

\* What every dispatch has found: the daemon is not stopping, the deadline has not
\* passed, and the client is live, or is negotiating, and has not completed the
\* sequence number.
LEMMA AdmitFinds ==
  ASSUME TypeOK, StopIsFinal, NEW kinds, Admit(kinds)
  PROVE  /\ ~stopping /\ phase = "idle" /\ HeadIs("request") /\ Current \in executed'
         /\ now <= Current.deadline
         /\ Current.kind # "protocol.negotiate" => Current.client \in LiveClients
         /\ Current.client \in LiveClients => Current.seq > clients[Current.client].lastSequence
<1>1. ~stopping
  BY AdmitNotStopping
<1>2. Preflight(Current) = "PROCEED" /\ HeadIs("request") /\ phase = "idle" /\ Current \in executed'
  BY DEF Admit, Serving
<1>3. Current \in Request
  BY <1>2, HeadRequest
<1>4. ~Reused(Current) /\ ~(now > Current.deadline)
  BY <1>2 DEF Preflight
<1>5. Current.client \in LiveClients \/ Current.kind = "protocol.negotiate"
  <2>1. Current.kind \in Negotiations => Current.kind = "protocol.negotiate"
    BY <1>2, <1>4 DEF Preflight, NegotiationVerdict
  <2> QED
    BY <1>2, <1>4, <2>1 DEF Preflight
<1>6. now \in Nat /\ Current.deadline \in Nat /\ Current.seq \in Nat
  BY <1>3 DEF TypeOK, Request
<1>7. Current.client \in LiveClients => clients[Current.client].lastSequence \in Nat
  BY DEF LiveClients, TypeOK, IsClientMap, ClientState
<1>8. Current.client \in LiveClients => Current.seq > clients[Current.client].lastSequence
  BY <1>4, <1>6, <1>7 DEF Reused
<1> QED
  BY <1>1, <1>2, <1>4, <1>5, <1>6, <1>8

\* A client that has been forgotten was forgotten after its deadlines.
LEMMA ForgottenLate ==
  ASSUME TypeOK, NEW r \in executed, RememberedUntilDeadline(r)
  PROVE  now > r.deadline \/ r.client \in LiveClients
<1>1. r \in Request /\ r.client \in DOMAIN clients
  BY DEF TypeOK, RememberedUntilDeadline
<1>2. r.deadline \in Nat /\ clients[r.client].lastSeenAt \in Nat /\ now \in Nat /\ ClientIdleTtl \in Nat
  BY <1>1, ProtocolAssumption DEF Request, TypeOK, IsClientMap, ClientState
<1>3. CASE now - clients[r.client].lastSeenAt < ClientIdleTtl
  BY <1>1, <1>3 DEF LiveClients
<1>4. CASE ~(now - clients[r.client].lastSeenAt < ClientIdleTtl)
  BY <1>2, <1>4 DEF RememberedUntilDeadline
<1> QED
  BY <1>3, <1>4

\* A dispatch never starts for a request that was dispatched before.
LEMMA AdmitIsFirst ==
  ASSUME TypeOK, StopIsFinal, ExecutedRefused, NEW kinds, Admit(kinds)
  PROVE  Current \notin executed
<1> SUFFICES ASSUME Current \in executed PROVE FALSE
  OBVIOUS
<1>1. Current \in Request
  BY AdmitFinds, HeadRequest
<1>2. ~stopping /\ ~InFlight(Current) /\ ~(now > Current.deadline)
  BY <1>1, AdmitFinds DEF InFlight, TypeOK, Request
<1>3. RememberedUntilDeadline(Current)
  BY <1>2 DEF ExecutedRefused
<1>4. Current.client \in LiveClients
  BY <1>2, <1>3, ForgottenLate
<1>5. Current.seq > clients[Current.client].lastSequence
  BY <1>4, AdmitFinds
<1>6. Current.seq \in Nat /\ clients[Current.client].lastSequence \in Nat
  BY <1>1, <1>4 DEF Request, LiveClients, TypeOK, IsClientMap, ClientState
<1> QED
  BY <1>3, <1>5, <1>6 DEF RememberedUntilDeadline

\* A request in flight stays in flight when the queue grows or stays as it is.
LEMMA InFlightKept ==
  ASSUME TypeOK, phase # "idle" => phase' # "idle", NEW x,
         Pushed(x) \/ UNCHANGED queue, phase # "idle" => queue # <<>>
  PROVE  \A r : InFlight(r) => InFlight(r)'
<1>1. CASE UNCHANGED queue
  BY <1>1, SameHead DEF InFlight
<1>2. CASE Pushed(x)
  BY <1>2, PushedItems DEF InFlight, HeadIs, Current
<1> QED
  BY <1>1, <1>2

\* What a dispatch or a sweep, which only forget clients that have expired, leaves
\* of the invariant.
LEMMA ForgettingKeeps ==
  ASSUME TypeOK, TimesOK, ExecutedRefused, phase = "idle",
         clients' = ClientsAfterPreflight, UNCHANGED <<now, seen, stopping>>
  PROVE  /\ TimesOK'
         /\ \A r \in executed : stopping' \/ now' > r.deadline \/ RememberedUntilDeadline(r)'
<1>1. /\ DOMAIN clients' = LiveClients /\ LiveClients \subseteq DOMAIN clients
      /\ \A c \in LiveClients : clients'[c] = clients[c]
  BY PreflightMaps DEF TypeOK
<1>2. TimesOK'
  BY <1>1 DEF TimesOK
<1>3. ASSUME NEW r \in executed, ~stopping, ~(now > r.deadline)
      PROVE  RememberedUntilDeadline(r)'
  <2>1. RememberedUntilDeadline(r)
    BY <1>3 DEF ExecutedRefused, InFlight
  <2>2. r.client \in LiveClients
    BY <1>3, <2>1, ForgottenLate
  <2> QED
    BY <1>1, <2>1, <2>2 DEF RememberedUntilDeadline
<1> QED
  BY <1>2, <1>3

\* Publishing completes the request at the head: unless the daemon stops or the
\* answer is late, its client knows the sequence number from now on.
LEMMA PublishKeeps ==
  ASSUME TypeOK, HeadOK, TimesOK, ClientInFlight, ExecutedRefused, Publish
  PROVE  TimesOK' /\ ExecutedRefused'
<1>1. /\ HeadIs("request") /\ Current \in Request /\ Current \in seen
      /\ result \in Response /\ phase = "published" /\ UNCHANGED <<now, seen, stopping, executed>>
  BY HeadRequest DEF Publish, HeadOK, TypeOK, admissionVars, lifecycleVars
<1>2. Published \in Response
  BY <1>1 DEF Published, Respond, Response, ResponseCode, Success
<1>3. now \in Nat /\ Current.deadline \in Nat /\ Current.seq \in Nat
      /\ ClientIdleTtl \in Nat /\ Budget(Current.kind) \in Nat /\ Budget(Current.kind) < ClientIdleTtl
  BY <1>1, BudgetType, ProtocolAssumption DEF TypeOK, Request
<1>4. CASE stopping
  BY <1>1, <1>4 DEF Publish, TimesOK, ExecutedRefused
<1>5. CASE ~stopping
  <2>1. clients' = ClientsAfterRemember(Current, Published)
    BY <1>5 DEF Publish
  <2>2. Remembers(Current, Published) \/ now > Current.deadline
    <3>1. CASE Current.kind # "protocol.negotiate"
      BY <1>1, <1>5, <3>1 DEF ClientInFlight, Remembers
    <3>2. CASE Current.kind = "protocol.negotiate" /\ ~Late
      BY <1>1, <3>2 DEF HeadOK, Published, Remembers, Negotiated, Succeeded, Success
    <3>3. CASE Late
      BY <3>3 DEF Late
    <3> QED
      BY <3>1, <3>2, <3>3
  <2> DEFINE remembers == Remembers(Current, Published)
             client == Current.client
  <2>3. /\ DOMAIN clients \subseteq DOMAIN clients' /\ DOMAIN clients' \subseteq DOMAIN clients \cup {client}
        /\ \A c \in DOMAIN clients : c # client => clients'[c] = clients[c]
        /\ remembers => /\ client \in DOMAIN clients'
                        /\ clients'[client].lastSequence >= Current.seq
                        /\ clients'[client].lastSeenAt = now
                        /\ client \in DOMAIN clients =>
                             clients'[client].lastSequence >= clients[client].lastSequence
        /\ ~remembers => client \notin DOMAIN clients /\ clients' = clients
        /\ IsClientMap(clients')
    BY <1>1, <1>2, <2>1, RememberMap DEF TypeOK
  <2> HIDE DEF remembers, client
  <2>4. TimesOK'
    <3>1. \A c \in DOMAIN clients' : clients'[c].lastSeenAt <= now
      BY <1>3, <2>3 DEF TimesOK
    <3> QED
      BY <1>1, <3>1 DEF TimesOK
  <2>5. ASSUME NEW r \in executed, ~(now > r.deadline)
        PROVE  RememberedUntilDeadline(r)'
    <3>1. CASE r = Current
      <4>1. remembers
        BY <2>2, <2>5, <3>1 DEF remembers
      <4>2. Current.deadline <= now + Budget(Current.kind)
        BY <1>1 DEF TimesOK
      <4>3. Current.deadline < now + ClientIdleTtl
        BY <1>3, <4>2
      <4>4. clients'[client].lastSequence \in Nat
        BY <2>3, <4>1 DEF IsClientMap, ClientState
      <4> QED
        BY <1>3, <2>3, <3>1, <4>1, <4>3, <4>4 DEF RememberedUntilDeadline, client
    <3>2. CASE r # Current
      <4>1. RememberedUntilDeadline(r)
        BY <1>5, <2>5, <3>2 DEF ExecutedRefused, InFlight
      <4>2. CASE r.client # client
        BY <2>3, <4>1, <4>2 DEF RememberedUntilDeadline
      <4>3. CASE r.client = client
        <5>1. client \in DOMAIN clients /\ remembers
          BY <2>3, <4>1, <4>3 DEF RememberedUntilDeadline
        <5>2. clients[client].lastSeenAt <= now
          BY <5>1 DEF TimesOK
        <5>3. /\ clients[client].lastSeenAt \in Nat /\ clients[client].lastSequence \in Nat
              /\ clients'[client].lastSequence \in Nat
              /\ r.seq \in Nat /\ r.deadline \in Nat
          BY <2>3, <5>1 DEF TypeOK, IsClientMap, ClientState, Request
        <5>4. r.deadline < now + ClientIdleTtl /\ r.seq <= clients'[client].lastSequence
          BY <1>3, <2>3, <4>1, <4>3, <5>1, <5>2, <5>3 DEF RememberedUntilDeadline
        <5> QED
          BY <2>3, <4>3, <5>1, <5>4 DEF RememberedUntilDeadline
      <4> QED
        BY <4>2, <4>3
    <3> QED
      BY <3>1, <3>2
  <2> QED
    BY <1>1, <2>4, <2>5 DEF ExecutedRefused
<1> QED
  BY <1>4, <1>5

LEMMA DispatchStep ==
  ASSUME DispatchInv, [Next]_vars
  PROVE  DispatchInv'
<1> USE DEF lifecycleVars, queueVars, admissionVars, protocolVars
<1>1. TypeOK /\ HeadOK /\ TicketsOrdered /\ StopIsFinal /\ TimesOK /\ ClientInFlight
      /\ ExecutedRefused
  BY DEF DispatchInv
<1>2. TypeOK' /\ HeadOK' /\ TicketsOrdered' /\ StopIsFinal'
  BY <1>1, TypeStep, HeadStep, OrderStep
<1>3. TimesOK' /\ ClientInFlight' /\ ExecutedRefused'
  <2>1. ASSUME NEW r \in seen \cup NewRequests, Handle(r)
        PROVE  TimesOK' /\ ClientInFlight' /\ ExecutedRefused'
    <3>1. /\ UNCHANGED <<now, clients, stopping, executed, phase>> /\ seen' = seen \cup {r}
      BY <2>1 DEF Handle
    <3>2. PICK x : Pushed(x)
      BY <1>1, <2>1, HandlePushes
    <3>3. \A e : InFlight(e) => InFlight(e)'
      BY <1>1, <3>1, <3>2, InFlightKept DEF HeadOK
    <3>4. TimesOK'
      BY <1>1, <3>1, RequestsSent DEF TimesOK
    <3>5. phase # "idle" => Current' = Current /\ (HeadIs("request")' <=> HeadIs("request"))
      BY <1>1, <3>2, PushedItems DEF HeadOK, HeadIs, Current
    <3> QED
      BY <1>1, <3>1, <3>3, <3>4, <3>5 DEF ClientInFlight, ExecutedRefused, RememberedUntilDeadline
  <2>2. CASE Shutdown \/ ScheduleExpirySweep
    <3>1. UNCHANGED <<now, clients, stopping, executed, phase, seen>>
      BY <2>2 DEF Shutdown, ScheduleExpirySweep
    <3>2. PICK x : Pushed(x)
      BY <2>2 DEF Shutdown, ScheduleExpirySweep, Pushed, Item
    <3>3. \A e : InFlight(e) => InFlight(e)'
      BY <1>1, <3>1, <3>2, InFlightKept DEF HeadOK
    <3>4. phase # "idle" => Current' = Current /\ (HeadIs("request")' <=> HeadIs("request"))
      BY <1>1, <3>2, PushedItems DEF HeadOK, HeadIs, Current
    <3> QED
      BY <1>1, <3>1, <3>3, <3>4
         DEF TimesOK, ClientInFlight, ExecutedRefused, RememberedUntilDeadline
  <2>3. CASE StopRequest
    <3>1. stopping /\ UNCHANGED <<now, clients, stopping, seen>>
      BY <1>1, <2>3 DEF StopRequest, Barred, StopIsFinal
    <3> QED
      BY <1>1, <3>1 DEF TimesOK, ClientInFlight, ExecutedRefused
  <2>4. CASE RejectRequest \/ RunExpirySweep
    <3>1. phase = "idle" /\ phase' = "idle" /\ UNCHANGED <<now, seen, stopping, executed>>
      BY <2>4 DEF RejectRequest, RunExpirySweep, Serving, Answer
    <3>2. (stopping /\ UNCHANGED clients) \/ clients' = ClientsAfterPreflight
      BY <2>4 DEF RejectRequest, RunExpirySweep
    <3>3. TimesOK' /\ ExecutedRefused'
      BY <1>1, <3>1, <3>2, ForgettingKeeps DEF ExecutedRefused, TimesOK
    <3> QED
      BY <3>1, <3>3 DEF ClientInFlight
  <2>5. CASE Dispatch
    <3>1. PICK kinds : Admit(kinds)
      BY <2>5 DEF Dispatch, DispatchQuery, DispatchSessionOp, DispatchEnd, DispatchBegin,
                  DispatchLearn, DispatchWarm, DispatchShutdown
    <3>2. /\ phase = "idle" /\ HeadIs("request") /\ clients' = ClientsAfterPreflight
          /\ executed' = executed \cup {Current} /\ UNCHANGED <<now, seen, queue>>
      BY <3>1 DEF Admit, Serving
    <3>3. phase' # "idle" /\ (stopping' \/ UNCHANGED stopping)
      BY <2>5 DEF Dispatch, DispatchQuery, DispatchSessionOp, DispatchEnd, DispatchBegin,
                  DispatchLearn, DispatchWarm, DispatchShutdown, Compute, Finalize
    <3>4. Current' = Current /\ HeadIs("request")'
      BY <3>2, SameHead
    <3>5. InFlight(Current)'
      BY <3>3, <3>4 DEF InFlight
    <3>6. TimesOK'
      BY <1>1, <3>2, PreflightMaps DEF TimesOK, TypeOK
    <3>7. ExecutedRefused'
      <4>1. CASE stopping'
        BY <4>1 DEF ExecutedRefused
      <4>2. CASE UNCHANGED stopping
        <5>1. \A r \in executed : stopping' \/ now' > r.deadline \/ RememberedUntilDeadline(r)'
          BY <1>1, <3>2, <4>2, ForgettingKeeps
        <5>2. \A r \in executed' : r \in executed \/ r = Current
          BY <3>2
        <5>3. UNCHANGED Current
          BY <3>4
        <5> QED
          BY <3>5, <5>1, <5>2, <5>3 DEF ExecutedRefused
      <4> QED
        BY <3>3, <4>1, <4>2
    <3>8. ClientInFlight'
      <4>1. Current.kind # "protocol.negotiate" => Current.client \in DOMAIN clients'
        BY <1>1, <3>1, <3>2, AdmitFinds, PreflightMaps DEF TypeOK
      <4> QED
        BY <3>4, <4>1 DEF ClientInFlight
    <3> QED
      BY <3>6, <3>7, <3>8
  <2>6. CASE RecordLearning \/ WarmEngine
    <3>1. /\ UNCHANGED <<now, clients, stopping, executed, seen, queue>>
          /\ phase # "idle" /\ phase' # "idle"
      BY <2>6 DEF RecordLearning, WarmEngine, Compute
    <3>2. Current' = Current /\ (HeadIs("request")' <=> HeadIs("request"))
      BY <3>1, SameHead
    <3>3. \A e : InFlight(e) => InFlight(e)'
      BY <3>1, <3>2 DEF InFlight
    <3> QED
      BY <1>1, <3>1, <3>2, <3>3
         DEF TimesOK, ClientInFlight, ExecutedRefused, RememberedUntilDeadline
  <2>7. CASE Publish
    <3>1. phase' = "idle"
      BY <2>7 DEF Publish, Answer
    <3> QED
      BY <1>1, <2>7, <3>1, PublishKeeps DEF ClientInFlight
  <2>8. CASE BeginShutdown \/ FinalizeEngine \/ FinalizeStore \/ FinishShutdown
    <3>1. stopping' /\ UNCHANGED <<now, seen>> /\ (UNCHANGED clients \/ DOMAIN clients' = {})
      BY <1>1, <2>8 DEF BeginShutdown, FinalizeEngine, FinalizeStore, FinishShutdown, Finalize, HeadOK
    <3> QED
      BY <1>1, <3>1 DEF TimesOK, ClientInFlight, ExecutedRefused
  <2>9. CASE TimePasses \/ UNCHANGED vars
    <3>1. /\ UNCHANGED <<clients, stopping, executed, seen, queue, phase>>
          /\ now' \in {now, now + 1}
      BY <2>9 DEF TimePasses, Tick, vars
    <3>2. Current' = Current /\ (HeadIs("request")' <=> HeadIs("request"))
      BY <3>1, SameHead
    <3>3. now \in Nat /\ (\A c \in DOMAIN clients : clients[c].lastSeenAt \in Nat)
          /\ (\A r \in seen : r.deadline \in Nat /\ Budget(r.kind) \in Nat)
      BY <1>1, BudgetType DEF TypeOK, IsClientMap, ClientState, Request
    <3>4. TimesOK'
      BY <1>1, <3>1, <3>3 DEF TimesOK
    <3>5. \A r \in executed : r \in seen /\ (now > r.deadline => now' > r.deadline)
      BY <1>1, <3>1, <3>3 DEF TypeOK
    <3>6. ExecutedRefused'
      <4>1. \A e : /\ InFlight(e) => InFlight(e)'
                   /\ RememberedUntilDeadline(e) => RememberedUntilDeadline(e)'
        BY <3>1, <3>2 DEF InFlight, RememberedUntilDeadline
      <4> QED
        BY <1>1, <3>1, <3>5, <4>1 DEF ExecutedRefused
    <3> QED
      BY <1>1, <3>1, <3>2, <3>4, <3>6 DEF ClientInFlight
  <2> QED
    BY <2>1, <2>2, <2>3, <2>4, <2>5, <2>6, <2>7, <2>8, <2>9 DEF Next, Serve
<1> QED
  BY <1>2, <1>3 DEF DispatchInv

\* The part of the invariant that the order of dispatch rests on holds always.
THEOREM DispatchInvariant == Spec => []DispatchInv
<1>1. Init => DispatchInv
  BY InitInv DEF IInv
<1>2. DispatchInv /\ [Next]_vars => DispatchInv'
  BY DispatchStep
<1> QED
  BY <1>1, <1>2, PTL DEF Spec

\* Every variable of the daemon, the protocol state and the session manager keeps
\* its type; no replay cache outgrows its bound (remember).
THEOREM TypeCorrect == Spec => []TypeOK
<1>1. DispatchInv => TypeOK
  BY DEF DispatchInv
<1> QED
  BY <1>1, DispatchInvariant, PTL

\* No request is dispatched twice, for any number of clients and requests, any
\* order of delivery, and any limits whose idle TTL exceeds the budgets
\* (preflight, remember, expireIdle, the dispatch tail).
THEOREM DispatchedOnce == Spec => AtMostOnce
<1>1. DispatchInv /\ [Next]_vars => [StartsDispatch => Current \notin executed]_vars
  <2> SUFFICES ASSUME DispatchInv, [Next]_vars, StartsDispatch
               PROVE  Current \notin executed
    OBVIOUS
  <2>1. TypeOK /\ StopIsFinal /\ ExecutedRefused
    BY DEF DispatchInv
  <2>2. phase = "idle" /\ HeadIs("request") /\ phase' # "idle"
    BY DEF StartsDispatch, Serving
  <2>3. Dispatch
    BY <2>2 DEF Next, Serve, Handle, Shutdown, ScheduleExpirySweep, StopRequest, RejectRequest,
                RecordLearning, WarmEngine, Publish, RunExpirySweep, BeginShutdown, FinalizeEngine,
                FinalizeStore, FinishShutdown, TimePasses, Answer, HeadIs, vars
  <2>4. PICK kinds : Admit(kinds)
    BY <2>3 DEF Dispatch, DispatchQuery, DispatchSessionOp, DispatchEnd, DispatchBegin,
                DispatchLearn, DispatchWarm, DispatchShutdown
  <2> QED
    BY <2>1, <2>4, AdmitIsFirst
<1> QED
  BY <1>1, DispatchInvariant, PTL DEF Spec, AtMostOnce

\* Once finalization has begun nothing is dispatched and nothing is learned any
\* more (the terminal ticket, the closed admission, the order of the tail).
THEOREM NothingDispatchedAfterStop == Spec => NothingAfterStop
<1>1. DispatchInv /\ [Next]_vars => [stopping => executed' = executed /\ learned' = learned]_vars
  <2> SUFFICES ASSUME DispatchInv, [Next]_vars, stopping
               PROVE  executed' = executed /\ learned' = learned
    OBVIOUS
  <2>1. TypeOK /\ StopIsFinal /\ HeadOK
    BY DEF DispatchInv
  <2>2. ~Dispatch
    BY <2>1, AdmitNotStopping
       DEF Dispatch, DispatchQuery, DispatchSessionOp, DispatchEnd, DispatchBegin,
           DispatchLearn, DispatchWarm, DispatchShutdown
  <2>3. ~RecordLearning
    BY <2>1 DEF RecordLearning, StopIsFinal
  <2> QED
    BY <2>2, <2>3 DEF Next, Serve, Handle, Shutdown, ScheduleExpirySweep, StopRequest,
                RejectRequest, WarmEngine, Publish, RunExpirySweep, BeginShutdown, FinalizeEngine,
                FinalizeStore, FinishShutdown, TimePasses, vars
<1> QED
  BY <1>1, DispatchInvariant, PTL DEF Spec, NothingAfterStop
-----------------------------------------------------------------------------
(* Answers *)

\* A cache that is kept in part holds nothing new.
CachesKept ==
  \A c \in DOMAIN clients' : c \in DOMAIN clients /\ clients'[c].replay = clients[c].replay

\* The parts of the invariant about answers.
AnswersInv == AnswersOK /\ OneResult /\ LearningAcknowledged

\* A step that answers nothing, and that neither begins nor ends the service of a
\* request that has been dispatched, keeps the answers in order.
LEMMA AnswersKept ==
  ASSUME AnswersInv, UNCHANGED <<answers, learned>>, executed \subseteq executed', CachesKept,
         \A r : InFlight(r)' /\ r \in executed => InFlight(r),
         \A r : InFlight(r)' /\ r \in learned => phase' = "published" /\ result'.code = "LEARNED"
  PROVE  AnswersInv'
<1>1. \A a \in answers' : a.request \in executed' /\ ~InFlight(a.request)'
  BY DEF AnswersInv, AnswersOK
<1>2. \A c \in DOMAIN clients' : \A i \in DOMAIN clients'[c].replay :
        clients'[c].replay[i] \in answers'
  BY DEF AnswersInv, AnswersOK, CachesKept
<1>3. phase' # "idle" /\ HeadIs("request")' /\ Current' \in learned' =>
        phase' = "published" /\ result'.code = "LEARNED"
  BY DEF InFlight
<1>4. OneResult' /\ LearningAcknowledged'
  BY DEF AnswersInv, OneResult, LearningAcknowledged
<1> QED
  BY <1>1, <1>2, <1>3, <1>4 DEF AnswersInv, AnswersOK

\* preflight and expireIdle forget whole clients.
LEMMA ForgettingKeepsCaches ==
  ASSUME TypeOK, UNCHANGED clients \/ clients' = ClientsAfterPreflight
  PROVE  CachesKept
BY PreflightMaps DEF CachesKept, TypeOK

\* What a retry is answered from the cache is an answer that was given before.
LEMMA ReplayRepeats ==
  ASSUME TypeOK, AnswersInv, NEW r, NEW entry \in Replayed(r)
  PROVE  [request |-> r, response |-> entry.response] \in answers
<1>1. /\ r.client \in DOMAIN clients /\ entry.request = r
      /\ entry \in Range(clients[r.client].replay)
  BY DEF Replayed, Replay, LiveClients
<1>2. clients[r.client].replay \in Seq(ReplayEntry)
  BY <1>1 DEF TypeOK, IsClientMap, ClientState
<1>3. entry \in ReplayEntry /\ entry \in answers
  BY <1>1, <1>2 DEF Range, AnswersInv, AnswersOK
<1>4. entry = [request |-> r, response |-> entry.response]
  BY <1>1, <1>3 DEF ReplayEntry
<1> QED
  BY <1>3, <1>4

\* The answer that leaves the daemon is the first one to its request.
LEMMA PublishAnswers ==
  ASSUME TypeOK, HeadOK, AnswersInv, Publish
  PROVE  AnswersInv'
<1> DEFINE answer == [request |-> Current, response |-> Published]
<1>1. /\ phase = "published" /\ HeadIs("request") /\ Current \in executed /\ Current \in Request
      /\ result \in Response /\ result.to = Current /\ InFlight(Current)
  BY HeadRequest DEF Publish, HeadOK, InFlight
<1>2. /\ answers' = answers \cup {answer} /\ UNCHANGED <<executed, learned>> /\ phase' = "idle"
      /\ clients' = IF stopping THEN clients ELSE ClientsAfterRemember(Current, Published)
  BY DEF Publish, Answer
<1>3. Published \in Response /\ Published.to = Current
  BY <1>1 DEF Published, Respond, Response, ResponseCode, Success
<1>4. \A a \in answers : a.request # Current
  BY <1>1 DEF AnswersInv, AnswersOK
<1>5. OneResult'
  BY <1>2, <1>3, <1>4 DEF AnswersInv, OneResult
<1>6. LearningAcknowledged'
  <2>1. Current \in learned => result.code = "LEARNED"
    BY <1>1 DEF AnswersInv, AnswersOK
  <2>2. Current \in learned => Published = result
    BY <2>1 DEF Published, Late
  <2> QED
    BY <1>2, <2>1, <2>2 DEF AnswersInv, LearningAcknowledged
<1>7. \A c \in DOMAIN clients' : \A i \in DOMAIN clients'[c].replay :
        clients'[c].replay[i] \in answers'
  <2>1. \A c \in DOMAIN clients : \A i \in DOMAIN clients[c].replay :
          clients[c].replay[i] \in answers
    BY DEF AnswersInv, AnswersOK
  <2>2. CASE stopping
    BY <1>2, <2>1, <2>2
  <2>3. CASE ~stopping
    <3>1. clients' = ClientsAfterRemember(Current, Published)
      BY <1>2, <2>3
    <3>2. /\ DOMAIN clients' \subseteq DOMAIN clients \cup {Current.client}
          /\ \A c \in DOMAIN clients : c # Current.client => clients'[c] = clients[c]
          /\ Remembers(Current, Published) =>
               \A i \in DOMAIN clients'[Current.client].replay :
                 \/ clients'[Current.client].replay[i] = answer
                 \/ /\ Current.client \in DOMAIN clients
                    /\ \E j \in DOMAIN clients[Current.client].replay :
                         clients'[Current.client].replay[i] = clients[Current.client].replay[j]
          /\ ~Remembers(Current, Published) => clients' = clients
      BY <1>1, <1>3, <3>1, RememberMap DEF TypeOK
    <3> QED
      BY <1>2, <2>1, <3>2
  <2> QED
    BY <2>2, <2>3
<1>8. \A a \in answers' : a.request \in executed'
  BY <1>1, <1>2 DEF AnswersInv, AnswersOK
<1> QED
  BY <1>2, <1>5, <1>6, <1>7, <1>8 DEF AnswersInv, AnswersOK, InFlight

LEMMA AnswersStep ==
  ASSUME DispatchInv, AnswersInv, [Next]_vars
  PROVE  AnswersInv'
<1> USE DEF lifecycleVars, queueVars, admissionVars, protocolVars
<1>1. TypeOK /\ HeadOK /\ StopIsFinal /\ ExecutedRefused
  BY DEF DispatchInv
<1>2. phase # "idle" /\ HeadIs("request") /\ Current \in learned =>
        phase = "published" /\ result.code = "LEARNED"
  BY DEF AnswersInv, AnswersOK
<1>3. ASSUME \/ \E r \in seen \cup NewRequests : Handle(r)
             \/ Shutdown \/ ScheduleExpirySweep
      PROVE  AnswersInv'
  <2>1. UNCHANGED <<clients, executed, answers, learned, phase, result>>
    BY <1>3 DEF Handle, Shutdown, ScheduleExpirySweep
  <2>2. PICK x : Pushed(x)
    BY <1>1, <1>3, HandlePushes DEF Shutdown, ScheduleExpirySweep, Pushed, Item
  <2>3. phase # "idle" => Current' = Current /\ (HeadIs("request")' <=> HeadIs("request"))
    BY <1>1, <2>2, PushedItems DEF HeadOK, HeadIs, Current
  <2>4. \A r : InFlight(r)' <=> InFlight(r)
    BY <2>1, <2>3 DEF InFlight
  <2>5. CachesKept
    BY <1>1, <2>1, ForgettingKeepsCaches
  <2> QED
    BY <1>2, <2>1, <2>4, <2>5, AnswersKept DEF InFlight
<1>4. CASE StopRequest \/ RejectRequest \/ RunExpirySweep
  <2>1. /\ phase' = "idle" /\ UNCHANGED <<executed, learned>>
        /\ UNCHANGED clients \/ clients' = ClientsAfterPreflight
    BY <1>4 DEF StopRequest, RejectRequest, RunExpirySweep, Answer
  <2>2. answers' = answers
    BY <1>1, <1>4, ReplayRepeats DEF StopRequest, RejectRequest, RunExpirySweep
  <2> QED
    BY <1>1, <2>1, <2>2, ForgettingKeepsCaches, AnswersKept DEF InFlight
<1>5. CASE Dispatch
  <2>1. PICK kinds : Admit(kinds)
    BY <1>5 DEF Dispatch, DispatchQuery, DispatchSessionOp, DispatchEnd, DispatchBegin,
                DispatchLearn, DispatchWarm, DispatchShutdown
  <2>2. /\ clients' = ClientsAfterPreflight /\ executed \subseteq executed'
        /\ UNCHANGED <<queue, answers, learned>>
    BY <2>1 DEF Admit
  <2>3. Current \notin executed
    BY <1>1, <2>1, AdmitIsFirst
  <2>4. learned \subseteq executed
    BY <1>1 DEF TypeOK
  <2>5. \A r : InFlight(r)' => r \notin executed /\ r \notin learned
    BY <2>2, <2>3, <2>4, SameHead DEF InFlight
  <2> QED
    BY <1>1, <2>2, <2>5, ForgettingKeepsCaches, AnswersKept
<1>6. CASE RecordLearning
  <2>1. /\ phase = "recording" /\ HeadIs("request") /\ InFlight(Current)
        /\ phase' = "published" /\ UNCHANGED <<clients, executed, answers, queue>>
    BY <1>1, <1>6 DEF RecordLearning, Compute, HeadOK, InFlight
  <2>2. Current \notin learned
    BY <1>2, <2>1
  <2>3. Current' = Current /\ HeadIs("request")' /\ \A r : InFlight(r)' <=> InFlight(r)
    BY <2>1, SameHead DEF InFlight
  <2>4. CASE Compute("LEARNED", 0, 0) /\ learned' = learned \cup {Current}
    <3>1. result'.code = "LEARNED"
      BY <2>4 DEF Compute, Respond
    <3>2. \A a \in answers : a.request # Current
      BY <2>1 DEF AnswersInv, AnswersOK
    <3>3. OneResult' /\ LearningAcknowledged'
      BY <2>1, <2>4, <3>2 DEF AnswersInv, OneResult, LearningAcknowledged
    <3> QED
      BY <2>1, <2>3, <3>1, <3>3 DEF AnswersInv, AnswersOK
  <2>5. CASE UNCHANGED learned
    BY <1>1, <2>1, <2>2, <2>3, <2>5, ForgettingKeepsCaches, AnswersKept DEF InFlight
  <2> QED
    BY <1>6, <2>4, <2>5 DEF RecordLearning
<1>7. CASE WarmEngine
  <2>1. /\ phase = "warming" /\ phase' = "published"
        /\ UNCHANGED <<clients, executed, learned, answers, queue>>
    BY <1>7 DEF WarmEngine, Compute
  <2>2. \A r : InFlight(r)' <=> InFlight(r)
    BY <2>1, SameHead DEF InFlight
  <2> QED
    BY <1>1, <1>2, <2>1, <2>2, ForgettingKeepsCaches, AnswersKept DEF InFlight
<1>8. CASE Publish
  BY <1>1, <1>8, PublishAnswers
<1>9. CASE BeginShutdown \/ FinalizeEngine \/ FinalizeStore \/ FinishShutdown
  <2>1. UNCHANGED <<executed, learned, answers>> /\ CachesKept
    BY <1>1, <1>9, ForgettingKeepsCaches
       DEF BeginShutdown, FinalizeEngine, FinalizeStore, FinishShutdown, CachesKept
  <2>2. phase # "published"
    BY <1>9 DEF BeginShutdown, FinalizeEngine, FinalizeStore, FinishShutdown
  <2>3. \A r : InFlight(r)' => InFlight(r)
    <3>1. CASE BeginShutdown
      BY <3>1, SameHead DEF BeginShutdown, InFlight, HeadIs
    <3>2. CASE FinalizeEngine \/ FinalizeStore
      BY <3>2, SameHead DEF FinalizeEngine, FinalizeStore, InFlight
    <3>3. CASE FinishShutdown
      BY <3>3, SameHead DEF FinishShutdown, InFlight
    <3> QED
      BY <1>9, <3>1, <3>2, <3>3
  <2> QED
    BY <1>2, <2>1, <2>2, <2>3, AnswersKept DEF InFlight
<1>10. CASE TimePasses \/ UNCHANGED vars
  <2>1. UNCHANGED <<clients, executed, learned, answers, queue, phase, result>>
    BY <1>10 DEF TimePasses, vars
  <2>2. \A r : InFlight(r)' <=> InFlight(r)
    BY <2>1, SameHead DEF InFlight
  <2> QED
    BY <1>1, <1>2, <2>1, <2>2, ForgettingKeepsCaches, AnswersKept DEF InFlight
<1> QED
  BY <1>3, <1>4, <1>5, <1>6, <1>7, <1>8, <1>9, <1>10 DEF Next, Serve
-----------------------------------------------------------------------------
(* Sessions *)

\* The parts of the invariant about sessions.
SessionsInv == FinalizationOK /\ SessionsOwned /\ NoOrphanEngineSession

\* Some sessions go, in the protocol and in the engine, and no client that still
\* owns one does.
SessionsShrink ==
  /\ DOMAIN sessions' \subseteq DOMAIN sessions
  /\ \A s \in DOMAIN sessions' :
       /\ sessions'[s].client = sessions[s].client /\ sessions'[s].epoch = sessions[s].epoch
       /\ sessions'[s].client \in DOMAIN clients'
  /\ DOMAIN engineSessions' \subseteq DOMAIN engineSessions \cap DOMAIN sessions'

\* Finalization has not moved, or has begun.
FinalizationBegins ==
  \/ UNCHANGED <<finalization, stopping>>
  \/ finalization = "none" /\ finalization' = "engine" /\ stopping'

LEMMA ShrinkingKeeps ==
  ASSUME TypeOK, SessionsInv, SessionsShrink,
         UNCHANGED nextSessionEpoch, FinalizationBegins
  PROVE  SessionsInv'
<1>1. SessionsOwned'
  BY DEF SessionsInv, SessionsOwned, SessionsShrink
<1>2. NoOrphanEngineSession'
  BY DEF SessionsShrink, NoOrphanEngineSession
<1>3. FinalizationOK'
  <2>1. CASE UNCHANGED <<finalization, stopping>>
    BY <2>1 DEF SessionsInv, FinalizationOK, SessionsShrink
  <2>2. CASE finalization = "none" /\ finalization' = "engine" /\ stopping'
    BY <2>2 DEF FinalizationOK
  <2> QED
    BY <2>1, <2>2 DEF FinalizationBegins
<1> QED
  BY <1>1, <1>2, <1>3 DEF SessionsInv

\* What preflight leaves of the sessions: those of live clients, all of the
\* engine's among them.
LEMMA PreflightSessions ==
  ASSUME TypeOK, NoOrphanEngineSession, NEW r
  PROVE  /\ DOMAIN ClientsAfterPreflight = LiveClients
         /\ DOMAIN SessionsAfterPreflight(r) = LiveSessions /\ LiveSessions \subseteq DOMAIN sessions
         /\ \A s \in LiveSessions :
              /\ sessions[s].client \in LiveClients
              /\ SessionsAfterPreflight(r)[s].client = sessions[s].client
              /\ SessionsAfterPreflight(r)[s].epoch = sessions[s].epoch
         /\ DOMAIN EngineAfterPreflight \subseteq DOMAIN engineSessions \cap LiveSessions
         /\ IsEngineMap(EngineAfterPreflight)
<1>1. DOMAIN EngineAfterPreflight \subseteq DOMAIN engineSessions \ ExpiredSessions
      /\ IsEngineMap(EngineAfterPreflight)
  BY EngineAfterPreflightMap
<1>2. DOMAIN EngineAfterPreflight \subseteq DOMAIN engineSessions \cap LiveSessions
  BY <1>1 DEF ExpiredSessions, NoOrphanEngineSession
<1>3. \A s \in LiveSessions : sessions[s].client \in LiveClients
  BY DEF LiveSessions
<1> QED
  BY <1>1, <1>2, <1>3, PreflightMaps DEF TypeOK

\* A dispatch that opens no session.
LEMMA DispatchShrinks ==
  ASSUME TypeOK, NoOrphanEngineSession, clients' = ClientsAfterPreflight, NEW ended,
         sessions' \in {SessionsAfterPreflight(Current),
                        CloseSession(SessionsAfterPreflight(Current), ended)},
         sessions' # SessionsAfterPreflight(Current) =>
           engineSessions' = EndSessions(EngineAfterPreflight, {ended}),
         DOMAIN engineSessions' \subseteq DOMAIN EngineAfterPreflight
  PROVE  SessionsShrink
<1> DEFINE admitted == SessionsAfterPreflight(Current)
<1>1. /\ DOMAIN clients' = LiveClients /\ DOMAIN admitted = LiveSessions
      /\ LiveSessions \subseteq DOMAIN sessions
      /\ \A s \in LiveSessions :
           /\ sessions[s].client \in LiveClients
           /\ admitted[s].client = sessions[s].client /\ admitted[s].epoch = sessions[s].epoch
      /\ DOMAIN EngineAfterPreflight \subseteq DOMAIN engineSessions \cap LiveSessions
      /\ IsEngineMap(EngineAfterPreflight)
  BY PreflightSessions
<1> HIDE DEF admitted
<1>2. CASE sessions' = admitted
  BY <1>1, <1>2 DEF SessionsShrink
<1>3. CASE sessions' # admitted
  <2>1. sessions' = CloseSession(admitted, ended)
        /\ engineSessions' = EndSessions(EngineAfterPreflight, {ended})
    BY <1>3 DEF admitted
  <2>2. DOMAIN sessions' = LiveSessions \ {ended}
        /\ \A s \in DOMAIN sessions' : sessions'[s] = admitted[s]
    BY <1>1, <2>1 DEF CloseSession, Restrict
  <2>3. DOMAIN engineSessions' \subseteq DOMAIN EngineAfterPreflight \ {ended}
    BY <1>1, <2>1, EndMap
  <2> QED
    BY <1>1, <2>2, <2>3 DEF SessionsShrink
<1> QED
  BY <1>2, <1>3

\* A dispatched begin opens a session under an epoch above all others.
LEMMA BeginKeeps ==
  ASSUME DispatchInv, SessionsInv, DispatchBegin
  PROVE  /\ SessionsInv'
         /\ \A s \in DOMAIN sessions' :
              \/ s \in DOMAIN sessions /\ sessions'[s].epoch = sessions[s].epoch
              \/ sessions'[s].epoch >= nextSessionEpoch
<1> DEFINE admitted == SessionsAfterPreflight(Current)
           s0 == nextSessionCounter + 1
<1>1. TypeOK /\ StopIsFinal /\ Admit({"session.begin"}) /\ NoOrphanEngineSession
  BY DEF DispatchInv, DispatchBegin, SessionsInv
<1>2. /\ clients' = ClientsAfterPreflight /\ Current.client \in LiveClients /\ ~stopping
      /\ UNCHANGED <<stopping, finalization>>
  BY <1>1, AdmitFinds DEF Admit, DispatchBegin
<1>3. /\ DOMAIN clients' = LiveClients /\ DOMAIN admitted = LiveSessions
      /\ LiveSessions \subseteq DOMAIN sessions
      /\ \A s \in LiveSessions :
           /\ sessions[s].client \in LiveClients
           /\ admitted[s].client = sessions[s].client /\ admitted[s].epoch = sessions[s].epoch
      /\ DOMAIN EngineAfterPreflight \subseteq DOMAIN engineSessions \cap LiveSessions
      /\ IsEngineMap(EngineAfterPreflight)
  BY <1>1, <1>2, PreflightSessions
<1>4. nextSessionEpoch \in Nat /\ \A s \in DOMAIN sessions : sessions[s].epoch \in Nat
  BY <1>1 DEF TypeOK, IsSessionMap, SessionState
<1> HIDE DEF admitted, s0
<1>5. CASE /\ sessions' = OpenSession(admitted, Current.client, s0)
           /\ nextSessionEpoch' = nextSessionEpoch + 1
           /\ engineSessions' = BeginSession(EngineAfterPreflight, s0)
  <2>1. /\ DOMAIN sessions' = LiveSessions \cup {s0}
        /\ sessions'[s0].client = Current.client /\ sessions'[s0].epoch = nextSessionEpoch
        /\ \A s \in LiveSessions : s # s0 => sessions'[s] = admitted[s]
    BY <1>3, <1>5 DEF OpenSession
  <2>2. \A s \in DOMAIN sessions' :
          /\ sessions'[s].client \in DOMAIN clients'
          /\ \/ s = s0
             \/ /\ s \in DOMAIN sessions /\ sessions'[s].epoch = sessions[s].epoch
                /\ sessions'[s].epoch < nextSessionEpoch
    BY <1>2, <1>3, <2>1 DEF SessionsInv, SessionsOwned
  <2>3. SessionsOwned'
    <3>1. \A s \in DOMAIN sessions' : sessions'[s].epoch < nextSessionEpoch'
      BY <1>4, <1>5, <2>1, <2>2
    <3>2. \A s, t \in DOMAIN sessions' : sessions'[s].epoch = sessions'[t].epoch => s = t
      BY <1>4, <2>1, <2>2 DEF SessionsInv, SessionsOwned
    <3> QED
      BY <2>2, <3>1, <3>2 DEF SessionsOwned
  <2>4. DOMAIN engineSessions' \subseteq DOMAIN EngineAfterPreflight \cup {s0}
    BY <1>5 DEF BeginSession, Fresh
  <2>5. NoOrphanEngineSession'
    BY <1>3, <2>1, <2>4 DEF NoOrphanEngineSession
  <2>6. FinalizationOK'
    BY <1>2 DEF SessionsInv, FinalizationOK
  <2> QED
    BY <1>4, <2>1, <2>2, <2>3, <2>5, <2>6 DEF SessionsInv
<1>6. CASE /\ sessions' = admitted /\ UNCHANGED nextSessionEpoch
           /\ engineSessions' \in {EngineAfterPreflight, CleanupExpired(EngineAfterPreflight)}
  <2>1. DOMAIN engineSessions' \subseteq DOMAIN EngineAfterPreflight
    BY <1>3, <1>6, CleanupMap
  <2>2. SessionsShrink
    BY <1>1, <1>2, <1>6, <2>1, DispatchShrinks DEF admitted
  <2>3. SessionsInv'
    BY <1>1, <1>2, <1>6, <2>2, ShrinkingKeeps DEF FinalizationBegins
  <2> QED
    BY <2>2, <2>3 DEF SessionsShrink
<1> QED
  BY <1>5, <1>6 DEF DispatchBegin, admitted, s0

\* Publishing retires the sessions it leaves uncertain, and those of a client that
\* has renegotiated, in the engine too.
LEMMA PublishShrinks ==
  ASSUME TypeOK, HeadOK, SessionsInv, Publish
  PROVE  SessionsShrink
<1> DEFINE kept == Restrict(sessions, DOMAIN sessions \ Uncertain)
           replaced == IF stopping THEN {} ELSE RetiredByRemember(kept, Current, Published)
<1>1. /\ sessions' = Restrict(kept, DOMAIN kept \ replaced)
      /\ engineSessions' = EndSessions(engineSessions, Uncertain \cup replaced)
      /\ clients' = IF stopping THEN clients ELSE ClientsAfterRemember(Current, Published)
  BY DEF Publish
<1>2. DOMAIN clients \subseteq DOMAIN clients'
  BY <1>1 DEF ClientsAfterRemember
<1>3. DOMAIN kept = DOMAIN sessions \ Uncertain /\ \A s \in DOMAIN kept : kept[s] = sessions[s]
  BY DEF Restrict
<1> HIDE DEF kept, replaced
<1>4. /\ DOMAIN sessions' = DOMAIN sessions \ (Uncertain \cup replaced)
      /\ \A s \in DOMAIN sessions' : sessions'[s] = sessions[s]
  BY <1>1, <1>3 DEF Restrict
<1>5. DOMAIN engineSessions' \subseteq DOMAIN engineSessions \ (Uncertain \cup replaced)
  BY <1>1, EndMap DEF TypeOK
<1>6. DOMAIN engineSessions' \subseteq DOMAIN engineSessions \cap DOMAIN sessions'
  BY <1>4, <1>5 DEF SessionsInv, NoOrphanEngineSession
<1> QED
  BY <1>2, <1>4, <1>6 DEF SessionsShrink, SessionsInv, SessionsOwned

\* Live sessions keep their epoch, and a new one has an epoch not issued before.
EpochsFresh ==
  \A s \in DOMAIN sessions' :
    \/ s \in DOMAIN sessions /\ sessions'[s].epoch = sessions[s].epoch
    \/ sessions'[s].epoch >= nextSessionEpoch

LEMMA SessionsStep ==
  ASSUME DispatchInv, SessionsInv, [Next]_vars
  PROVE  SessionsInv' /\ EpochsFresh
<1> USE DEF lifecycleVars, queueVars, admissionVars, protocolVars, engineVars, sessionManagerVars
<1>1. TypeOK /\ HeadOK /\ StopIsFinal /\ NoOrphanEngineSession
  BY DEF DispatchInv, SessionsInv
<1>2. ASSUME SessionsShrink, UNCHANGED nextSessionEpoch, FinalizationBegins
      PROVE  SessionsInv' /\ EpochsFresh
  <2>1. SessionsInv'
    BY <1>1, <1>2, ShrinkingKeeps
  <2> QED
    BY <1>2, <2>1 DEF SessionsShrink, EpochsFresh
<1>3. ASSUME UNCHANGED <<clients, sessions, nextSessionEpoch, stopping, finalization>>,
             DOMAIN engineSessions' \subseteq DOMAIN engineSessions
      PROVE  SessionsInv' /\ EpochsFresh
  <2>1. SessionsShrink
    BY <1>1, <1>3 DEF SessionsShrink, SessionsInv, SessionsOwned, NoOrphanEngineSession
  <2> QED
    BY <1>2, <1>3, <2>1 DEF FinalizationBegins
<1>4. CASE (\E r \in seen \cup NewRequests : Handle(r)) \/ Shutdown \/ ScheduleExpirySweep
           \/ StopRequest \/ RecordLearning \/ FinishShutdown \/ TimePasses \/ UNCHANGED vars
  BY <1>3, <1>4 DEF Handle, Shutdown, ScheduleExpirySweep, StopRequest, RecordLearning,
                    FinishShutdown, TimePasses, vars
<1>5. CASE RejectRequest
  <2>1. SessionsShrink
    BY <1>1, <1>5, DispatchShrinks DEF RejectRequest
  <2> QED
    BY <1>2, <1>5, <2>1 DEF RejectRequest, FinalizationBegins
<1>6. CASE DispatchQuery \/ DispatchSessionOp \/ DispatchEnd \/ DispatchLearn \/ DispatchWarm
           \/ DispatchShutdown
  <2>1. PICK kinds : Admit(kinds)
    BY <1>6 DEF DispatchQuery, DispatchSessionOp, DispatchEnd, DispatchLearn, DispatchWarm,
                DispatchShutdown
  <2>2. clients' = ClientsAfterPreflight /\ ~stopping
    BY <1>1, <2>1, AdmitNotStopping DEF Admit
  <2>3. IsEngineMap(EngineAfterPreflight) /\ now \in Nat
    BY <1>1, EngineAfterPreflightMap DEF TypeOK
  <2>4. /\ DOMAIN CleanupExpired(EngineAfterPreflight) \subseteq DOMAIN EngineAfterPreflight
        /\ \A s : DOMAIN UpdateSession(EngineAfterPreflight, s) \subseteq DOMAIN EngineAfterPreflight
        /\ \A S : DOMAIN EndSessions(EngineAfterPreflight, S) \subseteq DOMAIN EngineAfterPreflight
    BY <2>3, CleanupMap, UpdateMap, EndMap
  <2>5. SessionsShrink
    <3>1. CASE DispatchEnd
      <4>1. /\ sessions' = CloseSession(SessionsAfterPreflight(Current), Current.session)
            /\ engineSessions' = EndSessions(EngineAfterPreflight, {Current.session})
        BY <3>1 DEF DispatchEnd
      <4> QED
        BY <1>1, <2>2, <2>4, <4>1, DispatchShrinks
    <3>2. CASE ~DispatchEnd
      <4>1. sessions' = SessionsAfterPreflight(Current)
            /\ DOMAIN engineSessions' \subseteq DOMAIN EngineAfterPreflight
        BY <1>6, <2>4, <3>2 DEF DispatchQuery, DispatchSessionOp, DispatchLearn, DispatchWarm,
                                DispatchShutdown
      <4> QED
        BY <1>1, <2>2, <4>1, DispatchShrinks
    <3> QED
      BY <3>1, <3>2
  <2>6. UNCHANGED nextSessionEpoch /\ FinalizationBegins
    <3>1. finalization = "none"
      BY <2>2 DEF SessionsInv, FinalizationOK
    <3> QED
      BY <1>6, <3>1 DEF DispatchQuery, DispatchSessionOp, DispatchEnd, DispatchLearn, DispatchWarm,
                        DispatchShutdown, Finalize, FinalizationBegins
  <2> QED
    BY <1>2, <2>5, <2>6
<1>7. CASE DispatchBegin
  BY <1>7, BeginKeeps DEF EpochsFresh
<1>8. CASE WarmEngine
  BY <1>1, <1>3, <1>8, CleanupMap DEF WarmEngine, TypeOK
<1>9. CASE Publish
  BY <1>1, <1>2, <1>9, PublishShrinks DEF Publish, FinalizationBegins
<1>10. CASE RunExpirySweep
  <2>1. CASE stopping
    BY <1>3, <1>10, <2>1 DEF RunExpirySweep
  <2>2. CASE ~stopping
    <3>1. /\ clients' = ClientsAfterPreflight /\ sessions' = Restrict(sessions, LiveSessions)
          /\ engineSessions' = EngineAfterPreflight
      BY <1>10, <2>2 DEF RunExpirySweep
    <3>2. /\ DOMAIN sessions' = LiveSessions
          /\ \A s \in LiveSessions : sessions'[s] = sessions[s]
      BY <3>1 DEF Restrict, LiveSessions
    <3>3. SessionsShrink
      BY <1>1, <3>1, <3>2, PreflightSessions DEF SessionsShrink
    <3> QED
      BY <1>2, <1>10, <3>3 DEF RunExpirySweep, FinalizationBegins
  <2> QED
    BY <2>1, <2>2
<1>11. CASE BeginShutdown
  <2>1. /\ UNCHANGED <<clients, sessions, nextSessionEpoch, engineSessions>> /\ stopping'
        /\ finalization' = IF finalization = "none" THEN "engine" ELSE finalization
    BY <1>11 DEF BeginShutdown, Finalize
  <2>2. SessionsOwned' /\ NoOrphanEngineSession' /\ EpochsFresh
    BY <2>1 DEF SessionsInv, SessionsOwned, NoOrphanEngineSession, EpochsFresh
  <2>3. FinalizationOK'
    BY <2>1 DEF SessionsInv, FinalizationOK
  <2> QED
    BY <2>2, <2>3 DEF SessionsInv
<1>12. CASE FinalizeEngine
  <2>1. /\ UNCHANGED <<clients, sessions, nextSessionEpoch, stopping>>
        /\ finalization = "engine" /\ finalization' = "store" /\ DOMAIN engineSessions' = {}
    BY <1>12 DEF FinalizeEngine
  <2> QED
    BY <2>1 DEF SessionsInv, SessionsOwned, NoOrphanEngineSession, FinalizationOK, EpochsFresh
<1>13. CASE FinalizeStore
  <2>1. /\ DOMAIN sessions' = {} /\ UNCHANGED <<nextSessionEpoch, stopping, engineSessions>>
        /\ finalization = "store" /\ finalization' \in {"done", "failed"}
    BY <1>13 DEF FinalizeStore
  <2> QED
    BY <2>1 DEF SessionsInv, SessionsOwned, NoOrphanEngineSession, FinalizationOK, EpochsFresh
<1> QED
  BY <1>4, <1>5, <1>6, <1>7, <1>8, <1>9, <1>10, <1>11, <1>12, <1>13 DEF Next, Serve, Dispatch
-----------------------------------------------------------------------------
(* Uncertain sessions *)

\* The parts of the invariant about the sessions a late answer leaves uncertain.
UncertainInv == IdentifiersIssued /\ ResultsInTime /\ UncertainSessionRetired

\* The identifiers in the requests of clients were issued.
LEMMA RequestedIssued ==
  ASSUME TypeOK, IdentifiersIssued, NEW r \in seen \cup NewRequests
  PROVE  r.session <= nextSessionCounter
<1>1. CASE r \in seen
  BY <1>1 DEF IdentifiersIssued
<1>2. CASE r \notin seen
  <2>1. PICK c \in Client, kind \in Kinds : r \in NewRequestsOf(c, kind)
    BY <1>2 DEF NewRequests
  <2>2. r.session \in IF kind \in SessionBound THEN 1 .. nextSessionCounter ELSE {0}
    BY <2>1 DEF NewRequestsOf
  <2> QED
    BY <2>2 DEF TypeOK
<1> QED
  BY <1>1, <1>2

\* A step that brings back no session and gives no answer.
LEMMA UncertainKept ==
  ASSUME TypeOK, AnswersOK, UncertainInv, UNCHANGED answers,
         nextSessionCounter' \in Nat, nextSessionCounter' >= nextSessionCounter,
         \/ DOMAIN sessions' \subseteq DOMAIN sessions
         \/ /\ nextSessionCounter' = nextSessionCounter + 1
            /\ DOMAIN sessions' \subseteq DOMAIN sessions \cup {nextSessionCounter + 1},
         \A r \in seen' : r \in seen \cup NewRequests,
         ResultsInTime'
  PROVE  UncertainInv'
<1>1. /\ nextSessionCounter \in Nat /\ DOMAIN sessions \subseteq 1 .. nextSessionCounter
      /\ \A r \in seen \cup NewRequests : r.session \in Nat /\ r.session <= nextSessionCounter
  BY RequestedIssued, RequestsSent DEF TypeOK, UncertainInv, IdentifiersIssued, Request
<1>2. IdentifiersIssued'
  BY <1>1 DEF IdentifiersIssued
<1>3. UncertainSessionRetired'
  <2> SUFFICES ASSUME NEW a \in answers, a.response.code \in MissedDeadline
               PROVE  a.request.session \notin DOMAIN sessions'
    BY DEF UncertainSessionRetired, MissedDeadline
  <2>1. a.request.session \notin DOMAIN sessions
    BY DEF UncertainInv, UncertainSessionRetired, MissedDeadline
  <2>2. a.request \in seen
    BY DEF AnswersOK, TypeOK
  <2>3. a.request.session # nextSessionCounter + 1
    BY <1>1, <2>2
  <2> QED
    BY <2>1, <2>3
<1> QED
  BY <1>2, <1>3 DEF UncertainInv

\* Publishing a late result retires the session that its request names.
LEMMA PublishRetires ==
  ASSUME TypeOK, HeadOK, SessionsInv, UncertainInv, Publish
  PROVE  UncertainInv'
<1>1. /\ answers' = answers \cup {[request |-> Current, response |-> Published]}
      /\ UNCHANGED <<seen, nextSessionCounter>> /\ phase = "published" /\ phase' = "idle"
  BY DEF Publish, Answer, admissionVars
<1>2. DOMAIN sessions' \subseteq DOMAIN sessions \ Uncertain
  BY DEF Publish, Restrict
<1>3. Published.code \in MissedDeadline => Current.session \notin DOMAIN sessions'
  <2>1. Published.code \in MissedDeadline => Late
    BY <1>1 DEF Published, UncertainInv, ResultsInTime
  <2> QED
    BY <1>2, <2>1 DEF Uncertain
<1>4. UncertainSessionRetired'
  BY <1>1, <1>2, <1>3 DEF UncertainInv, UncertainSessionRetired, MissedDeadline
<1>5. IdentifiersIssued' /\ ResultsInTime'
  BY <1>1, <1>2 DEF UncertainInv, IdentifiersIssued, ResultsInTime
<1> QED
  BY <1>4, <1>5 DEF UncertainInv

LEMMA UncertainStep ==
  ASSUME DispatchInv, AnswersInv, SessionsInv, UncertainInv, [Next]_vars
  PROVE  UncertainInv'
<1> USE DEF lifecycleVars, queueVars, admissionVars, protocolVars, engineVars, sessionManagerVars
<1>1. /\ TypeOK /\ HeadOK /\ StopIsFinal /\ NoOrphanEngineSession /\ AnswersOK
      /\ nextSessionCounter \in Nat
  BY DEF DispatchInv, SessionsInv, AnswersInv, TypeOK
<1>2. \A r : /\ DOMAIN SessionsAfterPreflight(r) = LiveSessions
            /\ LiveSessions \subseteq DOMAIN sessions
  BY <1>1, PreflightSessions
<1>3. ASSUME UNCHANGED <<seen, answers, nextSessionCounter>>,
             DOMAIN sessions' \subseteq DOMAIN sessions, ResultsInTime'
      PROVE  UncertainInv'
  BY <1>1, <1>3, UncertainKept
<1>4. CASE \E r \in seen \cup NewRequests : Handle(r)
  <2>1. /\ \A r \in seen' : r \in seen \cup NewRequests
        /\ UNCHANGED <<sessions, answers, nextSessionCounter, phase, result>>
    BY <1>4 DEF Handle
  <2>2. ResultsInTime'
    BY <2>1 DEF UncertainInv, ResultsInTime
  <2> QED
    BY <1>1, <2>1, <2>2, UncertainKept
<1>5. CASE Shutdown \/ ScheduleExpirySweep \/ TimePasses \/ FinalizeEngine \/ FinalizeStore
           \/ UNCHANGED vars
  <2>1. /\ UNCHANGED <<seen, answers, nextSessionCounter, phase, result>>
        /\ DOMAIN sessions' \subseteq DOMAIN sessions
    BY <1>5 DEF Shutdown, ScheduleExpirySweep, TimePasses, FinalizeEngine, FinalizeStore, vars
  <2> QED
    BY <1>3, <2>1 DEF UncertainInv, ResultsInTime
<1>6. CASE StopRequest \/ RejectRequest \/ RunExpirySweep \/ BeginShutdown
  <2>1. /\ UNCHANGED <<seen, nextSessionCounter>> /\ phase' # "published"
        /\ DOMAIN sessions' \subseteq DOMAIN sessions
    BY <1>2, <1>6 DEF StopRequest, RejectRequest, RunExpirySweep, BeginShutdown, Finalize, Answer,
                      Restrict
  <2>2. answers' = answers
    BY <1>1, <1>6, ReplayRepeats DEF StopRequest, RejectRequest, RunExpirySweep, BeginShutdown
  <2> QED
    BY <1>3, <2>1, <2>2 DEF ResultsInTime
<1>7. CASE RecordLearning \/ FinishShutdown
  <2>1. UNCHANGED <<seen, answers, nextSessionCounter, sessions>>
    BY <1>7 DEF RecordLearning, FinishShutdown
  <2>2. ResultsInTime'
    BY <1>7 DEF RecordLearning, FinishShutdown, Compute, Respond, ResultsInTime, MissedDeadline
  <2> QED
    BY <1>3, <2>1, <2>2
<1>8. CASE WarmEngine
  <2>1. /\ UNCHANGED <<seen, answers, sessions>>
        /\ nextSessionCounter' \in {nextSessionCounter, nextSessionCounter + 1}
    BY <1>8 DEF WarmEngine
  <2>2. ResultsInTime'
    BY <1>8 DEF WarmEngine, Compute, Respond, ResultsInTime, MissedDeadline
  <2> QED
    BY <1>1, <2>1, <2>2, UncertainKept
<1>9. CASE DispatchQuery \/ DispatchSessionOp \/ DispatchEnd \/ DispatchLearn \/ DispatchWarm
           \/ DispatchShutdown
  <2>1. UNCHANGED <<seen, answers, nextSessionCounter>>
    BY <1>9 DEF DispatchQuery, DispatchSessionOp, DispatchEnd, DispatchLearn, DispatchWarm,
                DispatchShutdown, Admit
  <2>2. DOMAIN sessions' \subseteq DOMAIN sessions
    BY <1>2, <1>9 DEF DispatchQuery, DispatchSessionOp, DispatchEnd, DispatchLearn, DispatchWarm,
                      DispatchShutdown, CloseSession, Restrict
  <2>3. ResultsInTime'
    BY <1>9 DEF DispatchQuery, DispatchSessionOp, DispatchEnd, DispatchLearn, DispatchWarm,
                DispatchShutdown, Finalize, Compute, Respond, ResultsInTime, MissedDeadline
  <2> QED
    BY <1>3, <2>1, <2>2, <2>3
<1>10. CASE DispatchBegin
  <2>1. UNCHANGED <<seen, answers>>
    BY <1>10 DEF DispatchBegin, Admit
  <2>2. \/ /\ nextSessionCounter' = nextSessionCounter + 1
           /\ DOMAIN sessions' \subseteq DOMAIN sessions \cup {nextSessionCounter + 1}
        \/ nextSessionCounter' = nextSessionCounter /\ DOMAIN sessions' \subseteq DOMAIN sessions
    BY <1>2, <1>10 DEF DispatchBegin, OpenSession
  <2>3. ResultsInTime'
    BY <1>10 DEF DispatchBegin, Compute, Respond, ResultsInTime, MissedDeadline
  <2> QED
    BY <1>1, <2>1, <2>2, <2>3, UncertainKept
<1>11. CASE Publish
  BY <1>1, <1>11, PublishRetires
<1> QED
  BY <1>4, <1>5, <1>6, <1>7, <1>8, <1>9, <1>10, <1>11 DEF Next, Serve, Dispatch
-----------------------------------------------------------------------------
(* What follows *)

\* The whole invariant that TLC checks on the small instances holds always.
THEOREM Invariant == Spec => []IInv
<1>1. IInv <=> DispatchInv /\ AnswersInv /\ SessionsInv /\ UncertainInv
  BY DEF IInv, AnswersInv, SessionsInv, UncertainInv
<1>2. Init => IInv
  BY InitInv
<1>3. IInv /\ [Next]_vars => IInv'
  <2> SUFFICES ASSUME IInv, [Next]_vars PROVE IInv'
    OBVIOUS
  <2>1. DispatchInv' /\ AnswersInv' /\ SessionsInv' /\ UncertainInv'
    BY <1>1, DispatchStep, AnswersStep, SessionsStep, UncertainStep
  <2> QED
    BY <2>1 DEF IInv, AnswersInv, SessionsInv, UncertainInv
<1> QED
  BY <1>2, <1>3, PTL DEF Spec

\* Two deliveries of a request never get different results, and a result always
\* comes from the request it answers (remember, preflight's replay).
THEOREM OneResultPerRequest == Spec => []OneResult
<1>1. IInv => OneResult
  BY DEF IInv
<1> QED
  BY <1>1, Invariant, PTL

\* A correction that has become durable is reported as learned, however late it is
\* (success, memory.learn).
THEOREM DurableLearningAcknowledged == Spec => []LearningAcknowledged
<1>1. IInv => LearningAcknowledged
  BY DEF IInv
<1> QED
  BY <1>1, Invariant, PTL

\* Every live session has a live owner and an epoch of its own (openSession,
\* retireClientSessions, cleanupExpiredClients).
THEOREM LiveSessionsOwned == Spec => []SessionsOwned
<1>1. IInv => SessionsOwned
  BY DEF IInv
<1> QED
  BY <1>1, Invariant, PTL

\* A session whose client was told that its operation missed the deadline is never
\* live again: no identifier is issued twice, so it stays unknown for good (success,
\* retireSession).
THEOREM UncertainSessionsGone == Spec => []UncertainSessionRetired
<1>1. IInv => UncertainSessionRetired
  BY DEF IInv
<1> QED
  BY <1>1, Invariant, PTL

\* The engine never keeps a session that the protocol has given up
\* (onSessionExpired, retireSession, finalize).
THEOREM EngineSessionsNotOrphaned == Spec => []NoOrphanEngineSession
<1>1. IInv => NoOrphanEngineSession
  BY DEF IInv
<1> QED
  BY <1>1, Invariant, PTL

\* An epoch is never given to a second session (openSession).
THEOREM EpochsUsedOnce == Spec => EpochsNeverReissued
<1>1. IInv /\ [Next]_vars => [EpochsFresh]_vars
  BY SessionsStep DEF IInv, SessionsInv
<1>2. [EpochsFresh]_vars =>
        [\A s \in DOMAIN sessions' :
           \/ s \in DOMAIN sessions /\ sessions'[s].epoch = sessions[s].epoch
           \/ sessions'[s].epoch >= nextSessionEpoch]_vars
  BY DEF EpochsFresh
<1> QED
  BY <1>1, <1>2, Invariant, PTL DEF Spec, EpochsNeverReissued
=============================================================================
