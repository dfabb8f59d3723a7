--------------------------- MODULE KeyboardSessions ---------------------------
(***************************************************************************)
(* The life cycle of the engine's sessions: KeyboardSessionManager         *)
(* (src/engine/keyboard/session.ts) as LocalKeyboardEngine (index.ts) calls *)
(* it.  A session is here the time of its last update; what it composes is *)
(* the subject of other modules.  The manager forgets an idle session only *)
(* when one of its operations happens to run, and its TTL comparison is    *)
(* strict where the daemon's is not.                                       *)
(*                                                                         *)
(* The operators are functions from the session map an operation finds to  *)
(* the one it leaves, so that the daemon can chain several of them in one  *)
(* step, as the code does.                                                 *)
(***************************************************************************)
EXTENDS Clock, FiniteSets, Functions

CONSTANTS
  SessionTtl,         \* DEFAULT_SESSION_TTL_MS
  MaxEngineSessions   \* DEFAULT_MAX_SESSIONS

ASSUME SessionAssumption ==
  /\ SessionTtl \in Nat \ {0}
  /\ MaxEngineSessions \in Nat \ {0}

VARIABLES
  engineSessions,     \* session identifier -> lastUpdateTime, of the live sessions
  nextSessionCounter  \* the counter that makes session identifiers unique

sessionManagerVars == <<engineSessions, nextSessionCounter>>

SessionsInit ==
  /\ engineSessions = [s \in {} |-> 0]
  /\ nextSessionCounter = 0

IsEngineMap(es) == es \in [DOMAIN es -> Nat] /\ DOMAIN es \subseteq Nat

Fresh(es) == {s \in DOMAIN es : now - es[s] <= SessionTtl}

\* cleanupExpired: every get, has and begin starts with it.
CleanupExpired(es) == Restrict(es, Fresh(es))

\* beginSession throws when the sessions left after cleanup fill the manager.
HasEngineCapacity(es) == Cardinality(Fresh(es)) < MaxEngineSessions

BeginSession(es, s) ==
  [x \in Fresh(es) \cup {s} |-> IF x = s THEN now ELSE es[x]]

\* An operation that updates the session; on an unknown or just expired
\* identifier the engine only answers with a fallback.
UpdateSession(es, s) ==
  [x \in Fresh(es) |-> IF x = s THEN now ELSE es[x]]

\* endSession of every session of S, one after the other.  Ending no session
\* does not clean up either.
EndSessions(es, S) ==
  IF S = {} THEN es ELSE Restrict(es, Fresh(es) \ S)
=============================================================================
