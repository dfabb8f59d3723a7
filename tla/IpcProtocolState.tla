--------------------------- MODULE IpcProtocolState ---------------------------
(***************************************************************************)
(* The daemon's protocol state: native/daemon/src/protocolState.ts, with   *)
(* the message descriptors and limits of native/shared/ipc.                *)
(*                                                                         *)
(* A client instance negotiates, then sends requests with increasing       *)
(* sequence numbers.  The daemon keeps, per client, the highest sequence   *)
(* it has completed and a bounded cache of completed requests with their   *)
(* responses; a request that comes again is answered from the cache or     *)
(* refused.  Clients and sessions idle for ClientIdleTtl are forgotten.    *)
(*                                                                         *)
(* A request stands for its canonical JSON: two requests are the same      *)
(* value exactly when their id, type and fingerprint agree.  The           *)
(* exhaustion of the epoch space (2^53 sessions) is left out.              *)
(***************************************************************************)
EXTENDS Clock, FiniteSets, Sequences, Functions

CONSTANTS
  Client,          \* client instance identifiers
  RequestId,       \* request identifiers (numbers here)
  MaxClients,      \* IPC_PROTOCOL_LIMITS.maximumClientInstances
  MaxSessions,     \* IPC_PROTOCOL_LIMITS.maximumActiveSessions
  MaxReplay,       \* IPC_PROTOCOL_LIMITS.maximumReplayEntriesPerClient
  ClientIdleTtl,   \* IPC_PROTOCOL_LIMITS.clientIdleTtlMs
  HotPathBudget,   \* IPC_PROTOCOL_LIMITS.hotPathDeadlineMs
  ControlBudget    \* IPC_PROTOCOL_LIMITS.controlDeadlineMs

(***************************************************************************)
(* The generated limits have budgets (50 ms and 5 s) far below the idle    *)
(* TTL (30 min): a request cannot outlive the memory of its client.        *)
(***************************************************************************)
ASSUME ProtocolAssumption ==
  /\ RequestId \subseteq Nat
  /\ {MaxClients, MaxSessions, MaxReplay, ClientIdleTtl} \subseteq Nat \ {0}
  /\ HotPathBudget \in Nat /\ ControlBudget \in Nat
  /\ HotPathBudget < ClientIdleTtl /\ ControlBudget < ClientIdleTtl

VARIABLES
  clients,          \* client -> [lastSequence, lastSeenAt, replay]
  sessions,         \* session identifier -> [client, epoch, lastSeenAt]
  nextSessionEpoch

protocolVars == <<clients, sessions, nextSessionEpoch>>
-----------------------------------------------------------------------------
(* Messages *)

CompositionOps == {"session.processKeyStroke", "session.updateComposition",
                   "session.commitCandidate", "session.commitRaw"}
ControlOps == {"session.cancel", "session.setMode", "session.setLayout"}
Queries == {"health.check", "suggestions.get", "proofHints.get",
            "dictionary.lookup", "diagnostics.getMetrics"}

SessionBound ==
  CompositionOps \cup ControlOps \cup {"session.end", "memory.learn"}

\* A negotiation that does not list the daemon's protocol version is set apart.
Negotiations == {"protocol.negotiate", "protocol.negotiate (other version)"}

IpcMessageType ==
  SessionBound \cup Queries \cup Negotiations
    \cup {"session.begin", "engine.warm", "engine.shutdown"}

Budget(kind) ==
  IF kind \in CompositionOps \cup {"session.begin"} THEN HotPathBudget ELSE ControlBudget

\* session and epoch are 0 in a request that is not session bound.
Request ==
  [client: Client, id: RequestId, seq: Nat \ {0}, kind: IpcMessageType,
   session: Nat, epoch: Nat, deadline: Nat]

\* A response names the request it was computed from, by the fields a client
\* checks (id, type, sequence), and carries the session a begin has opened.
\* LEARNED and SHUT_DOWN are the successes that stay publishable after the
\* deadline, PASS_THROUGH is the fallback success of a late composition operation.
Success == {"OK", "LEARNED", "SHUT_DOWN", "PASS_THROUGH"}
ResponseCode ==
  Success \cup {"IPC_DEADLINE_EXCEEDED", "IPC_QUEUE_FULL", "DAEMON_DISPATCH_FAILED"}
Response == [to: Request, code: ResponseCode, session: Nat, epoch: Nat]

Respond(r, code, s, e) == [to |-> r, code |-> code, session |-> s, epoch |-> e]
Succeeded(response) == response.code \in Success

ReplayEntry == [request: Request, response: Response]
ClientState == [lastSequence: Nat, lastSeenAt: Nat, replay: Seq(ReplayEntry)]
SessionState == [client: Client, epoch: Nat, lastSeenAt: Nat]

\* The types of the two maps; the cache never outgrows its bound.
IsClientMap(cs) ==
  /\ cs \in [DOMAIN cs -> ClientState]
  /\ DOMAIN cs \subseteq Client
  /\ \A c \in DOMAIN cs : Len(cs[c].replay) <= MaxReplay

IsSessionMap(ss) ==
  /\ ss \in [DOMAIN ss -> SessionState]
  /\ DOMAIN ss \subseteq Nat
-----------------------------------------------------------------------------
(* expireIdle: what is left of the clients and sessions at this instant.   *)
(* Clients go first and take their sessions with them.                     *)

LiveClients == {c \in DOMAIN clients : now - clients[c].lastSeenAt < ClientIdleTtl}

LiveSessions ==
  {s \in DOMAIN sessions :
     /\ sessions[s].client \in LiveClients
     /\ now - sessions[s].lastSeenAt < ClientIdleTtl}

ExpiredSessions == DOMAIN sessions \ LiveSessions
-----------------------------------------------------------------------------
(* preflight *)

Replay(c) == IF c \in LiveClients THEN Range(clients[c].replay) ELSE {}

\* Mutant: a retry is taken for one of the last request its client completed.
ReplayedLatest(r) ==
  {entry \in Replay(r.client) :
     r.seq <= entry.request.seq /\ entry.request.seq = clients[r.client].lastSequence}

\* An exact retry of a completed request.
Replayed(r) == {entry \in Replay(r.client) : entry.request = r}

\* A stale sequence, a sequence reused with other content or a reused id.
Reused(r) ==
  /\ r.client \in LiveClients
  /\ \/ r.seq <= clients[r.client].lastSequence
     \/ \E entry \in Replay(r.client) :
          entry.request.seq = r.seq \/ entry.request.id = r.id

NegotiationVerdict(r) ==
  IF r.kind # "protocol.negotiate" THEN "IPC_VERSION_UNSUPPORTED"
  ELSE IF r.client \notin LiveClients /\ Cardinality(LiveClients) >= MaxClients
       THEN "IPC_QUEUE_FULL"
  ELSE "PROCEED"

SessionVerdict(r) ==
  IF ~(r.session \in LiveSessions /\ sessions[r.session].client = r.client)
    THEN "IPC_SESSION_UNKNOWN"
  ELSE IF sessions[r.session].epoch # r.epoch THEN "IPC_SESSION_STALE"
  ELSE "PROCEED"

\* Mutant: a negotiation is let through without a look at its deadline.
PreflightLateNegotiation(r) ==
  IF Replayed(r) # {} THEN "REPLAY"
  ELSE IF Reused(r) THEN "IPC_REPLAY_DETECTED"
  ELSE IF r.kind \in Negotiations THEN NegotiationVerdict(r)
  ELSE IF now > r.deadline THEN "IPC_DEADLINE_EXCEEDED"
  ELSE IF r.client \notin LiveClients THEN "IPC_NEGOTIATION_REQUIRED"
  ELSE IF r.kind \in SessionBound THEN SessionVerdict(r)
  ELSE "PROCEED"

Preflight(r) ==
  IF Replayed(r) # {} THEN "REPLAY"
  ELSE IF Reused(r) THEN "IPC_REPLAY_DETECTED"
  ELSE IF now > r.deadline THEN "IPC_DEADLINE_EXCEEDED"
  ELSE IF r.kind \in Negotiations THEN NegotiationVerdict(r)
  ELSE IF r.client \notin LiveClients THEN "IPC_NEGOTIATION_REQUIRED"
  ELSE IF r.kind \in SessionBound THEN SessionVerdict(r)
  ELSE "PROCEED"

\* What preflight leaves of the maps; an admitted session-bound request renews
\* its session.
ClientsAfterPreflight == Restrict(clients, LiveClients)

SessionsAfterPreflight(r) ==
  [s \in LiveSessions |->
     IF r.kind \in SessionBound /\ s = r.session /\ Preflight(r) = "PROCEED"
     THEN [sessions[s] EXCEPT !.lastSeenAt = now]
     ELSE sessions[s]]
-----------------------------------------------------------------------------
(* openSession, closeSession and retireClientSessions on a session map     *)

\* Mutant: the epoch is taken from the number of live sessions.
OpenSessionByCount(ss, c, s) ==
  [x \in DOMAIN ss \cup {s} |->
     IF x = s THEN [client |-> c, epoch |-> Cardinality(DOMAIN ss) + 1, lastSeenAt |-> now]
     ELSE ss[x]]

OpenSession(ss, c, s) ==
  [x \in DOMAIN ss \cup {s} |->
     IF x = s THEN [client |-> c, epoch |-> nextSessionEpoch, lastSeenAt |-> now]
     ELSE ss[x]]

CloseSession(ss, s) == Restrict(ss, DOMAIN ss \ {s})

SessionsOf(ss, c) == {s \in DOMAIN ss : ss[s].client = c}
-----------------------------------------------------------------------------
(* remember: a completed request enters its client's cache.  Only an       *)
(* accepted negotiation creates a client; one that renegotiates loses its  *)
(* sessions and its cache, and keeps its highest sequence.                 *)

\* The oldest entries make room for the new one.
Bounded(replay) ==
  IF Len(replay) > MaxReplay THEN SubSeq(replay, Len(replay) - MaxReplay + 1, Len(replay))
  ELSE replay

MaxOf(m, n) == IF m >= n THEN m ELSE n

Negotiated(r, response) == r.kind = "protocol.negotiate" /\ Succeeded(response)

Remembers(r, response) == r.client \in DOMAIN clients \/ Negotiated(r, response)

ClientAfterRemember(r, response) ==
  LET known == r.client \in DOMAIN clients
      before == IF known /\ ~Negotiated(r, response) THEN clients[r.client].replay ELSE <<>>
  IN  [lastSequence |-> IF known THEN MaxOf(clients[r.client].lastSequence, r.seq) ELSE r.seq,
       lastSeenAt   |-> now,
       replay       |-> Bounded(Append(before, [request |-> r, response |-> response]))]

ClientsAfterRemember(r, response) ==
  IF Remembers(r, response)
  THEN [c \in DOMAIN clients \cup {r.client} |->
          IF c = r.client THEN ClientAfterRemember(r, response) ELSE clients[c]]
  ELSE clients

\* The sessions that a remembered renegotiation retires.
RetiredByRemember(ss, r, response) ==
  IF r.client \in DOMAIN clients /\ Negotiated(r, response)
  THEN SessionsOf(ss, r.client) ELSE {}
=============================================================================
