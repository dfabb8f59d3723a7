-------------------------- MODULE CorrectionLearning --------------------------
(***************************************************************************)
(* What a user's choices teach the keyboard: the correction memory of      *)
(* LocalKeyboardEngine (src/engine/keyboard/index.ts), its durable copy in *)
(* SQLite (native/shared/storage/sqliteStores.ts) and the daemon's         *)
(* two-phase memory.learn that keeps the two alike                         *)
(* (native/daemon/src/keyboardDaemon.ts).                                  *)
(*                                                                         *)
(*   commitCandidate --> pendingLearning[session]      the receipt         *)
(*   memory.learn    --> prepare; record (awaited); commit                 *)
(*   any other operation on the session forgets the receipt                *)
(*                                                                         *)
(* A composition is the correction its candidates would teach, so a text   *)
(* and what is chosen for it are one value here.  The daemon serves one    *)
(* request at a time: while a learning is under way (job) nothing else runs,*)
(* but the process may die.                                                *)
(***************************************************************************)
EXTENDS Integers, FiniteSets

CONSTANTS
  Session,      \* session identifiers; the counter never gives one twice
  Correction,   \* identifiers of corrections, ordered as their ids are
  Imported,     \* the corrections that an import left in the database
  Capacity,     \* MAXIMUM_STORED_CORRECTION_MEMORY_ENTRIES
  MaxCommits,   \* bound on the commits
  MaxFailures,  \* bound on writes that fail and processes that end
  None

ASSUME LearningAssumption ==
  /\ Correction \subseteq Nat
  /\ Imported \subseteq Correction /\ IsFiniteSet(Imported)
  /\ Cardinality(Imported) <= Capacity
  /\ Capacity \in Nat \ {0}
  /\ MaxCommits \in Nat /\ MaxFailures \in Nat
  /\ None \notin Nat

VARIABLES
  durable,        \* the rows of correction_memory
  memory,         \* memoryEntries of the live engine
  memoryVersion,
  memoryEnabled,  \* the setting as it was read at the start; None: no daemon runs
  sessions,       \* KeyboardSessionManager.sessions
  begun,          \* the identifiers given out so far
  cache,          \* CandidateCache: the composition the candidates are for
  refreshCache,   \* session -> the last update built and its key
  pendingLearning,
  job,            \* the memory.learn that is being served
  time,           \* the commits so far, the clock of lastUsed
  grants,         \* history: commits in fields that have allowed learning ever since
  receipts,       \* history: the receipts whose learning was recorded
  failures

engineVars == <<memory, memoryVersion, sessions, begun, cache, refreshCache,
                pendingLearning>>
vars == <<durable, memoryEnabled, job, time, grants, receipts, failures, engineVars>>

Contexts == {"normal", "private", "secure"}

\* isLearningAllowedContext; "private" has personalization switched off.
LearningAllowed(context) == context = "normal"

Entry == [id : Correction, frequency : Nat, lastUsed : Nat, pinned : BOOLEAN]

Text == Correction \cup {None}

\* KeyboardSession, RefreshCacheEntry, PendingLearningSelection, and the
\* learning the daemon has under way.
SessionState == [composition : Text, offers : Text, context : Contexts, epoch : Nat]
Suggestions == [key    : [version : Nat, composition : Text, context : Contexts],
                update : [offers : Text, personal : SUBSET Entry]]
Receipt == [epoch : Nat, chosen : Correction, time : Nat, prepared : Entry \cup {None}]
Learning == [session : Session, epoch : Nat, entry : Entry, recorded : BOOLEAN]

ASSUME NoneIsNoValue ==
  None \notin BOOLEAN \cup Entry \cup SessionState \cup Suggestions \cup Receipt \cup Learning

-----------------------------------------------------------------------------
(* The bounded memory, and the table it mirrors.                           *)

\* compareStoredMemoryEntries of two entries with the same pinning.
Before(x, y) ==
  \/ x.frequency > y.frequency
  \/ x.frequency = y.frequency /\ x.lastUsed > y.lastUsed
  \/ x.frequency = y.frequency /\ x.lastUsed = y.lastUsed /\ x.id < y.id

Least(entries) == CHOOSE w \in entries : \A x \in entries \ {w} : Before(x, w)

Others(entries, e) == {x \in entries : x.id # e.id}
Unpinned(entries) == {x \in entries : ~x.pinned}

\* What a full memory of pinned entries is left with: no set that holds an entry.
Refused == {}

\* installBoundedCorrectionMemoryEntry, refused when every place is pinned.
Install(entries, e) ==
  IF \E x \in entries : x.id = e.id THEN Others(entries, e) \cup {e}
  ELSE IF Cardinality(entries) < Capacity THEN entries \cup {e}
  ELSE IF Unpinned(entries) = {} THEN Refused
  ELSE (entries \ {Least(Unpinned(entries))}) \cup {e}

\* Mutant: among equals the prune takes the smallest id, the engine the largest.
PrunedFirst(rows, e) ==
  IF Cardinality(rows) <= Capacity THEN rows
  ELSE IF Unpinned(rows \ {e}) = {} THEN Refused
  ELSE rows \ {CHOOSE w \in Unpinned(rows \ {e}) :
                \A x \in Unpinned(rows \ {e}) \ {w} :
                  Before(x, w) \/ (x.frequency = w.frequency /\ x.lastUsed = w.lastUsed)}

\* pruneToMaximumEntries after the upsert of e: refused when it throws, which
\* rolls the transaction back.  The table never holds more than one row too many.
Pruned(rows, e) ==
  IF Cardinality(rows) <= Capacity THEN rows
  ELSE IF Unpinned(rows \ {e}) = {} THEN Refused
  ELSE rows \ {Least(Unpinned(rows \ {e}))}

\* SQLiteCorrectionMemoryStore.record
RecordRow(rows, e) == Pruned(Others(rows, e) \cup {e}, e)

\* applyKeyboardMemorySelection: the entry the memory would hold for c.
Selected(entries, c, when) ==
  LET known == {x \in entries : x.id = c} IN
  IF known # {}
  THEN [(CHOOSE x \in known : TRUE) EXCEPT !.frequency = @ + 1, !.lastUsed = when]
  ELSE [id |-> c, frequency |-> 1, lastUsed |-> when, pinned |-> FALSE]

-----------------------------------------------------------------------------
(* Candidates: what refresh builds, and the cache in front of it.          *)

Secure(x) == x.context = "secure"

\* buildCandidateUpdate: no candidates in a secure field, none of the memory
\* where personalization is off.
Update(x, entries) ==
  [offers   |-> IF Secure(x) THEN None ELSE x.composition,
   personal |-> IF LearningAllowed(x.context)
                THEN {e \in entries : e.id = x.composition} ELSE {}]

\* refreshCacheKey
Key(x) == [version |-> memoryVersion, composition |-> x.composition,
           context |-> x.context]

\* refresh(s), where x is the session the operation has left: a hit changes
\* nothing, a miss sets the candidates of the session and of both caches.
Refresh(s, x) ==
  IF refreshCache[s] # None /\ refreshCache[s].key = Key(x)
  THEN /\ sessions' = [sessions EXCEPT ![s] = x]
       /\ UNCHANGED <<cache, refreshCache>>
  ELSE LET u == Update(x, memory) IN
       /\ sessions' = [sessions EXCEPT ![s] = [x EXCEPT !.offers = u.offers]]
       /\ cache' = [cache EXCEPT ![s] = u.offers]
       /\ refreshCache' = [refreshCache EXCEPT ![s] = [key |-> Key(x), update |-> u]]

ClearCaches(s) ==
  /\ cache' = [cache EXCEPT ![s] = None]
  /\ refreshCache' = [refreshCache EXCEPT ![s] = None]

\* Mutant: an operation that teaches nothing leaves the receipt alone.
KeepReceipt(s) == UNCHANGED pendingLearning

ForgetReceipt(s) == pendingLearning' = [pendingLearning EXCEPT ![s] = None]

Idle == memoryEnabled # None /\ job = None
Live(s) == sessions[s] # None

-----------------------------------------------------------------------------
(* The daemon's process.                                                   *)

NoSession == [s \in Session |-> None]

Fresh ==
  /\ sessions' = NoSession /\ cache' = NoSession /\ refreshCache' = NoSession
  /\ pendingLearning' = NoSession
  /\ UNCHANGED begun

Init ==
  /\ \/ durable = {}
     \/ \E pins \in SUBSET Imported :
          durable = {[id |-> c, frequency |-> 0, lastUsed |-> 0, pinned |-> c \in pins]
                     : c \in Imported}
  /\ memory = {} /\ memoryVersion = 0 /\ memoryEnabled = None
  /\ sessions = NoSession /\ begun = {}
  /\ cache = NoSession /\ refreshCache = NoSession /\ pendingLearning = NoSession
  /\ job = None /\ time = 0 /\ grants = {} /\ receipts = {} /\ failures = 0

\* createStorageBackedKeyboardDaemon: the settings are read, and the entries
\* with them unless they say that nothing is to be remembered.
Start ==
  /\ memoryEnabled = None
  /\ memoryEnabled' \in BOOLEAN
  /\ memory' = IF memoryEnabled' THEN durable ELSE {}
  /\ memoryVersion' = memoryVersion + 1
  /\ Fresh
  /\ UNCHANGED <<durable, job, time, grants, receipts, failures>>

\* The process ends, by a crash at any point or by a shutdown, which waits
\* for the request in service; the engine's state goes with it.
Stop ==
  /\ memoryEnabled # None /\ failures < MaxFailures
  /\ failures' = failures + 1
  /\ memoryEnabled' = None /\ memory' = {} /\ memoryVersion' = 0 /\ job' = None
  /\ Fresh
  /\ UNCHANGED <<durable, time, grants, receipts>>

-----------------------------------------------------------------------------
(* The operations of a session.  Each one forgets its receipt first.       *)

BeginSession(s) ==
  /\ Idle /\ s \notin begun
  /\ \E context \in Contexts :
       sessions' = [sessions EXCEPT ![s] =
         [composition |-> None, offers |-> None, context |-> context,
          epoch |-> 0]]
  /\ begun' = begun \cup {s}
  /\ UNCHANGED <<durable, memory, memoryVersion, memoryEnabled, cache, refreshCache,
                 pendingLearning, job, time, grants, receipts, failures>>

Outer == <<durable, memory, memoryVersion, memoryEnabled, begun, job, receipts, failures>>

\* updateComposition, and a key that composes.  A secure session keeps no text.
UpdateComposition(s) ==
  /\ Idle /\ Live(s)
  /\ ForgetReceipt(s)
  /\ \E c \in Text :
       Refresh(s, [sessions[s] EXCEPT
         !.composition = IF Secure(sessions[s]) THEN None ELSE c,
         !.offers = IF Secure(sessions[s]) THEN None ELSE @])
  /\ UNCHANGED <<Outer, time, grants>>

\* An update that is malformed or too long, and a key that passes through:
\* the composition stays, the receipt does not.
FailOpen(s) ==
  /\ Idle /\ Live(s)
  /\ ForgetReceipt(s)
  /\ \/ UNCHANGED <<sessions, cache, refreshCache>>
     \/ Refresh(s, sessions[s])
  /\ UNCHANGED <<Outer, time, grants>>

\* recordCommit of a text that is not empty
Committed(x) == [x EXCEPT !.composition = None, !.offers = None, !.epoch = @ + 1]

\* The candidates a commit can name: the cache's, or else the session's own.
Offered(s) == IF cache[s] # None THEN cache[s] ELSE sessions[s].offers

\* commitCandidate.  The daemon defers what is learned until the host confirms
\* the edit; shortcuts and inline completions (confirmable FALSE) teach nothing.
CommitCandidate(s) ==
  /\ Idle /\ Live(s) /\ Offered(s) # None
  /\ time < MaxCommits
  /\ time' = time + 1
  /\ sessions' = [sessions EXCEPT ![s] = Committed(@)]
  /\ grants' = IF LearningAllowed(sessions[s].context)
                THEN grants \cup {[session |-> s, epoch |-> sessions'[s].epoch,
                                   chosen |-> sessions[s].composition]}
                ELSE grants
  /\ \E confirmable \in BOOLEAN :
       pendingLearning' = [pendingLearning EXCEPT ![s] =
         IF confirmable /\ memoryEnabled /\ LearningAllowed(sessions[s].context)
         THEN [epoch |-> sessions'[s].epoch, chosen |-> Offered(s), time |-> time + 1,
               prepared |-> None]
         ELSE None]
  /\ ClearCaches(s)
  /\ UNCHANGED Outer

\* commitRaw, of a composition; without one it only forgets the receipt.
CommitRaw(s) ==
  /\ Idle /\ Live(s) /\ sessions[s].composition # None
  /\ time < MaxCommits
  /\ time' = time + 1
  /\ ForgetReceipt(s)
  /\ sessions' = [sessions EXCEPT ![s] = Committed(@)]
  /\ ClearCaches(s)
  /\ UNCHANGED <<Outer, grants>>

\* cancelComposition, and setMode, which drops the composition as well.
CancelComposition(s) ==
  /\ Idle /\ Live(s)
  /\ ForgetReceipt(s)
  /\ sessions' = [sessions EXCEPT ![s].composition = None, ![s].offers = None]
  /\ ClearCaches(s)
  /\ UNCHANGED <<Outer, time, grants>>

\* The layout is part of no candidate here.
SetLayout(s) ==
  /\ Idle /\ Live(s)
  /\ ForgetReceipt(s)
  /\ ClearCaches(s)
  /\ UNCHANGED <<Outer, time, grants, sessions>>

\* setContext: a field that turns out to be secure takes the text with it.
SetContext(s) ==
  /\ Idle /\ Live(s)
  /\ ForgetReceipt(s)
  /\ \E context \in Contexts :
       sessions' = [sessions EXCEPT ![s] =
         IF context = "secure"
         THEN [@ EXCEPT !.context = context, !.composition = None, !.offers = None]
         ELSE [@ EXCEPT !.context = context]]
  /\ grants' = IF LearningAllowed(sessions'[s].context) THEN grants
               ELSE {g \in grants : g.session # s}
  /\ ClearCaches(s)
  /\ UNCHANGED <<Outer, time>>

\* endSession, and the end by idleness that cleanupExpired finds at the start
\* of some operation: purgeSessionState in both.
EndSession(s) ==
  /\ Idle /\ Live(s)
  /\ sessions' = [sessions EXCEPT ![s] = None]
  /\ ClearCaches(s)
  /\ ForgetReceipt(s)
  /\ UNCHANGED <<Outer, time, grants>>

-----------------------------------------------------------------------------
(* memory.learn                                                            *)

\* prepareCommittedCorrectionLearning: a receipt that was prepared before, for
\* a write that failed, is used again as it is.
Prepared(s) ==
  LET p == pendingLearning[s] IN
  IF p.prepared # None THEN p.prepared ELSE Selected(memory, p.chosen, p.time)

\* Mutant: what a retry writes is prepared again from what was prepared.
PrepareAgain(s, epoch) ==
  /\ Idle /\ memoryEnabled
  /\ Live(s) /\ pendingLearning[s] # None
  /\ pendingLearning[s].epoch = epoch /\ sessions[s].epoch = epoch
  /\ LearningAllowed(sessions[s].context)
  /\ Install(memory, Prepared(s)) # Refused
  /\ LET p == pendingLearning[s].prepared
         e == IF p = None THEN Prepared(s) ELSE [p EXCEPT !.frequency = @ + 1] IN
     /\ pendingLearning' = [pendingLearning EXCEPT ![s].prepared = e]
     /\ job' = [session |-> s, epoch |-> epoch, entry |-> e, recorded |-> FALSE]
  /\ UNCHANGED <<durable, memory, memoryVersion, memoryEnabled, sessions, begun, cache,
                 refreshCache, time, grants, receipts, failures>>

\* A receipt that names another epoch, or that the memory has no place for,
\* is answered with learned: false and changes nothing.
Prepare(s, epoch) ==
  /\ Idle /\ memoryEnabled
  /\ Live(s) /\ pendingLearning[s] # None
  /\ pendingLearning[s].epoch = epoch /\ sessions[s].epoch = epoch
  /\ LearningAllowed(sessions[s].context)
  /\ pendingLearning[s].prepared # None \/ Install(memory, Prepared(s)) # Refused
  /\ pendingLearning' = [pendingLearning EXCEPT ![s].prepared = Prepared(s)]
  /\ job' = [session |-> s, epoch |-> epoch, entry |-> Prepared(s), recorded |-> FALSE]
  /\ UNCHANGED <<durable, memory, memoryVersion, memoryEnabled, sessions, begun, cache,
                 refreshCache, time, grants, receipts, failures>>

\* correctionMemory.record: the transaction commits,
Record ==
  /\ job # None /\ ~job.recorded
  /\ RecordRow(durable, job.entry) # Refused
  /\ durable' = RecordRow(durable, job.entry)
  /\ job' = [job EXCEPT !.recorded = TRUE]
  /\ receipts' = receipts \cup
       {[session |-> job.session, epoch |-> job.epoch, id |-> job.entry.id]}
  /\ UNCHANGED <<memoryEnabled, time, grants, failures, engineVars>>

\* or it fails, on its own account or because it found no row to prune.  The
\* receipt stays for another try.
RecordFails ==
  /\ job # None /\ ~job.recorded
  /\ \/ RecordRow(durable, job.entry) = Refused /\ UNCHANGED failures
     \/ failures < MaxFailures /\ failures' = failures + 1
  /\ job' = None
  /\ UNCHANGED <<durable, memoryEnabled, time, grants, receipts, engineVars>>

\* commitPreparedCorrectionLearning returns true only here.
Installable ==
  LET p == pendingLearning[job.session] IN
  /\ p # None /\ p.prepared = job.entry /\ p.epoch = job.epoch
  /\ Install(memory, job.entry) # Refused

\* Mutant: the entry goes live and the suggestions built before it stay.
InstallKeepsSuggestions ==
  /\ job # None /\ job.recorded
  /\ IF Installable
     THEN memory' = Install(memory, job.entry)
     ELSE UNCHANGED memory
  /\ UNCHANGED <<memoryVersion, refreshCache>>
  /\ pendingLearning' = [pendingLearning EXCEPT ![job.session] = None]
  /\ job' = None
  /\ UNCHANGED <<durable, memoryEnabled, sessions, begun, cache, time, grants,
                 receipts, failures>>

\* installPersistedMemoryEntry.  Where the engine refuses, the daemon reports
\* a durable learning that it could not install.
InstallLearned ==
  /\ job # None /\ job.recorded
  /\ IF Installable
     THEN /\ memory' = Install(memory, job.entry)
          /\ memoryVersion' = memoryVersion + 1
          /\ refreshCache' = NoSession
     ELSE UNCHANGED <<memory, memoryVersion, refreshCache>>
  /\ pendingLearning' = [pendingLearning EXCEPT ![job.session] = None]
  /\ job' = None
  /\ UNCHANGED <<durable, memoryEnabled, sessions, begun, cache, time, grants,
                 receipts, failures>>

Next ==
  \/ Start \/ Stop \/ Record \/ RecordFails \/ InstallLearned
  \/ \E s \in Session :
       \/ BeginSession(s) \/ UpdateComposition(s) \/ FailOpen(s)
       \/ CommitCandidate(s) \/ CommitRaw(s) \/ CancelComposition(s)
       \/ SetLayout(s) \/ SetContext(s) \/ EndSession(s)
       \/ \E epoch \in 1..MaxCommits : Prepare(s, epoch)

Spec == Init /\ [][Next]_vars

-----------------------------------------------------------------------------
(* Properties.                                                             *)

\* The shape of the state.
TypeOK ==
  /\ durable \in SUBSET Entry /\ IsFiniteSet(durable) /\ Cardinality(durable) <= Capacity
  /\ memory \in SUBSET Entry /\ IsFiniteSet(memory) /\ Cardinality(memory) <= Capacity
  /\ memoryVersion \in Nat /\ memoryEnabled \in BOOLEAN \cup {None}
  /\ sessions \in [Session -> SessionState \cup {None}]
  /\ begun \subseteq Session
  /\ cache \in [Session -> Text]
  /\ refreshCache \in [Session -> Suggestions \cup {None}]
  /\ pendingLearning \in [Session -> Receipt \cup {None}]
  /\ job \in Learning \cup {None}
  /\ time \in Nat
  /\ grants \subseteq [session : Session, epoch : Nat, chosen : Correction]
  /\ receipts \subseteq [session : Session, epoch : Nat, id : Correction]
  /\ IsFiniteSet(receipts)

\* Whenever a running daemon that remembers is between two requests, the engine
\* suggests from exactly the rows that are durable: two bounded memories that
\* are pruned by different code (installBoundedCorrectionMemoryEntry and
\* pruneToMaximumEntries), one of them lost with every process, never part.
LiveMirrorsDurable ==
  Idle /\ memoryEnabled => memory = durable

\* A receipt teaches once, however often its learning is retried after writes
\* that failed, and across processes: no row counts more selections than
\* there were receipts for it.
LearnedAtMostOnce ==
  \A e \in durable : e.frequency <= Cardinality({r \in receipts : r.id = e.id})

\* Only a selection the user made in a field that allows learning becomes
\* durable, and only if the session has stayed in such a field, with nothing
\* committed since: a field that was secure in between, though it no longer
\* is, a raw commit or the next candidate takes the receipt away.
LearnsOnlyWhatWasAllowed ==
  [][durable' # durable =>
       /\ LearningAllowed(sessions[job.session].context)
       /\ sessions[job.session].epoch = job.epoch
       /\ \E k \in grants :
            /\ k.session = job.session /\ k.epoch = job.epoch
            /\ k.chosen = job.entry.id]_vars

\* What the caches would answer is what the engine would compute: the update of
\* a hit is the one built from the memory as it is now, learned on behalf of
\* any session, and what a commit could insert is a candidate of the text it
\* replaces, never one from before the text or the field changed.
CandidatesCurrent ==
  \A s \in Session :
    /\ Live(s) /\ refreshCache[s] # None /\ refreshCache[s].key = Key(sessions[s])
         => refreshCache[s].update = Update(sessions[s], memory)
    /\ Live(s) /\ Offered(s) # None
         => Offered(s) = sessions[s].composition /\ ~Secure(sessions[s])
=============================================================================
