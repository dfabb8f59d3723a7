------------------------ MODULE CorrectionLearningProofs ------------------------
(***************************************************************************)
(* Proofs about CorrectionLearning, for any number of sessions,            *)
(* corrections, commits and failures, and any capacity.                    *)
(***************************************************************************)
EXTENDS CorrectionLearning, FiniteSetTheorems, TLAPS

\* Nothing is kept of a session that is not there; identifiers are not used twice.
SessionsInv ==
  /\ \A s \in Session : ~Live(s) =>
       cache[s] = None /\ refreshCache[s] = None /\ pendingLearning[s] = None
  /\ \A s \in Session : Live(s) => s \in begun
  /\ memoryEnabled = None => sessions = NoSession

\* What the caches hold was built for the text and the field the session has, and
\* from the memory there is.
CachesOf(x, offered, built) ==
  /\ x.offers # None => x.offers = x.composition /\ ~Secure(x)
  /\ offered # None => offered = x.composition /\ ~Secure(x)
  /\ built # None => built.key = Key(x) /\ built.update = Update(x, memory)

CachesInv ==
  \A s \in Session : Live(s) => CachesOf(sessions[s], cache[s], refreshCache[s])

\* A receipt is of the last commit of its session, made where learning is allowed,
\* and what is prepared for it is for the candidate that was chosen.
ReceiptsInv ==
  \A s \in Session : pendingLearning[s] # None =>
    /\ pendingLearning[s].epoch = sessions[s].epoch
    /\ LearningAllowed(sessions[s].context)
    /\ [session |-> s, epoch |-> pendingLearning[s].epoch,
        chosen |-> pendingLearning[s].chosen] \in grants
    /\ pendingLearning[s].prepared # None =>
         pendingLearning[s].prepared.id = pendingLearning[s].chosen

\* The learning under way is that of a receipt that is still there.
JobInv ==
  job # None =>
    /\ memoryEnabled = TRUE
    /\ pendingLearning[job.session] # None
    /\ pendingLearning[job.session].epoch = job.epoch
    /\ pendingLearning[job.session].prepared = job.entry

\* The memory and the table: alike, but for the row the learning under way wrote.
MirrorInv ==
  memoryEnabled = TRUE =>
    durable = IF job # None /\ job.recorded THEN Install(memory, job.entry) ELSE memory

Recorded == job # None /\ job.recorded

\* The receipts recorded are of commits made so far; one that still waits is not
\* among them, but for the one whose row was just written.
FreshInv ==
  /\ \A r \in receipts :
       /\ r.session \in begun
       /\ Live(r.session) => r.epoch <= sessions[r.session].epoch
  /\ \A s \in Session : pendingLearning[s] # None /\ ~(Recorded /\ job.session = s) =>
       \A r \in receipts : r.session = s => r.epoch # pendingLearning[s].epoch

Taught(c) == {r \in receipts : r.id = c}

\* What is prepared counts one selection more than were recorded.
PreparedInv ==
  \A s \in Session :
    pendingLearning[s] # None /\ pendingLearning[s].prepared # None =>
      pendingLearning[s].prepared.frequency
        <= Cardinality(Taught(pendingLearning[s].prepared.id)) + 1

IInv ==
  /\ TypeOK
  /\ SessionsInv
  /\ CachesInv
  /\ ReceiptsInv
  /\ JobInv
  /\ MirrorInv
  /\ Recorded => durable # Refused
  /\ FreshInv
  /\ PreparedInv
  /\ LearnedAtMostOnce

-----------------------------------------------------------------------------
(* The bounded memory and the table.                                         *)

\* Of entries none of which is pinned one is evicted before all the others.
LEMMA LeastExists ==
  ASSUME NEW U \in SUBSET Entry, IsFiniteSet(U), U # {}, \A x \in U : ~x.pinned
  PROVE  Least(U) \in U
  <1> DEFINE Worse(w) == {x \in U : Before(w, x)}
             R == StrictSubsetOrdering(U)
             T == {Worse(w) : w \in U}
  <1>1. FiniteSubsetsOf(U) = SUBSET U
    BY FS_FiniteSubsetsOfFinite
  <1>2. IsWellFoundedOn(R, SUBSET U)
    BY <1>1, FS_StrictSubsetOrderingWellFounded
  <1>3. T \subseteq SUBSET U /\ T # {}
    OBVIOUS
  <1>4. PICK m \in T : \A y \in T : ~(<<y, m>> \in R)
    <2> HIDE DEF R, T
    <2> QED
      BY <1>2, <1>3, WFMin
  <1>5. PICK w \in U : m = Worse(w)
    OBVIOUS
  <1>6. ASSUME NEW x \in U \ {w}, ~Before(x, w)
        PROVE  FALSE
    <2>1. /\ x.frequency \in Nat /\ x.lastUsed \in Nat /\ x.id \in Nat
          /\ w.frequency \in Nat /\ w.lastUsed \in Nat /\ w.id \in Nat
      BY LearningAssumption DEF Entry
    <2>2. Before(w, x)
      <3>1. x = [id |-> x.id, frequency |-> x.frequency, lastUsed |-> x.lastUsed, pinned |-> FALSE]
            /\ w = [id |-> w.id, frequency |-> w.frequency, lastUsed |-> w.lastUsed, pinned |-> FALSE]
        BY DEF Entry
      <3>2. x.id # w.id \/ x.frequency # w.frequency \/ x.lastUsed # w.lastUsed
        BY <3>1
      <3> QED
        BY <1>6, <2>1, <3>2 DEF Before
    <2>3. Worse(x) \subseteq Worse(w)
      <3> SUFFICES ASSUME NEW y \in U, Before(x, y) PROVE Before(w, y)
        OBVIOUS
      <3>1. y.frequency \in Nat /\ y.lastUsed \in Nat /\ y.id \in Nat
        BY LearningAssumption DEF Entry
      <3> QED
        BY <2>1, <2>2, <3>1 DEF Before
    <2>4. x \in Worse(w) /\ x \notin Worse(x)
      BY <2>1, <2>2 DEF Before
    <2>5. <<Worse(x), Worse(w)>> \in R
      BY <2>3, <2>4 DEF StrictSubsetOrdering
    <2> QED
      BY <1>4, <1>5, <2>5
  <1>7. \A x \in U \ {w} : Before(x, w)
    BY <1>6
  <1> QED
    BY <1>7 DEF Least

\* One more element, or none.
LEMMA AddOne ==
  ASSUME NEW S, NEW x, IsFiniteSet(S)
  PROVE  /\ IsFiniteSet(S \cup {x})
         /\ Cardinality(S) \in Nat /\ Cardinality(S \cup {x}) \in Nat
         /\ Cardinality(S) <= Cardinality(S \cup {x})
         /\ Cardinality(S \cup {x}) <= Cardinality(S) + 1
         /\ x \notin S => Cardinality(S \cup {x}) = Cardinality(S) + 1
  <1>1. Cardinality(S) \in Nat
    BY FS_CardinalityType
  <1>2. /\ IsFiniteSet(S \cup {x})
        /\ Cardinality(S \cup {x}) = IF x \in S THEN Cardinality(S) ELSE Cardinality(S) + 1
    BY FS_AddElement
  <1> QED
    BY <1>1, <1>2

\* The memory stays a finite set of entries within the capacity, and gains only e.
LEMMA InstallBounded ==
  ASSUME NEW D \in SUBSET Entry, IsFiniteSet(D), Cardinality(D) <= Capacity,
         NEW e \in Entry
  PROVE  /\ Install(D, e) \in SUBSET Entry
         /\ IsFiniteSet(Install(D, e))
         /\ Cardinality(Install(D, e)) <= Capacity
         /\ Install(D, e) \subseteq D \cup {e}
  <1> USE LearningAssumption
  <1>1. Cardinality(D) \in Nat
    BY FS_CardinalityType
  <1>2. CASE \E x \in D : x.id = e.id
    <2>1. Install(D, e) = Others(D, e) \cup {e}
      BY <1>2 DEF Install
    <2>2. PICK x \in D : x.id = e.id
      BY <1>2
    <2>3. Others(D, e) \subseteq D \ {x}
      BY <2>2 DEF Others
    <2>4. IsFiniteSet(D \ {x}) /\ Cardinality(D \ {x}) = Cardinality(D) - 1
      BY <2>2, FS_RemoveElement
    <2>5. IsFiniteSet(Others(D, e)) /\ Cardinality(Others(D, e)) <= Cardinality(D) - 1
          /\ Cardinality(Others(D, e)) \in Nat
      BY <2>3, <2>4, FS_Subset, FS_CardinalityType
    <2>6. IsFiniteSet(Others(D, e) \cup {e})
          /\ Cardinality(Others(D, e) \cup {e}) <= Cardinality(Others(D, e)) + 1
      BY <2>5, AddOne
    <2>7. Cardinality(Others(D, e) \cup {e}) \in Nat
      BY <2>6, FS_CardinalityType
    <2> QED
      BY <1>1, <2>1, <2>5, <2>6, <2>7 DEF Others
  <1>3. CASE ~(\E x \in D : x.id = e.id) /\ Cardinality(D) < Capacity
    <2>1. Install(D, e) = D \cup {e}
      BY <1>3 DEF Install
    <2>2. IsFiniteSet(D \cup {e}) /\ Cardinality(D \cup {e}) <= Cardinality(D) + 1
          /\ Cardinality(D \cup {e}) \in Nat
      BY AddOne
    <2> QED
      BY <1>1, <1>3, <2>1, <2>2
  <1>4. CASE ~(\E x \in D : x.id = e.id) /\ ~(Cardinality(D) < Capacity) /\ Unpinned(D) = {}
    <2>1. Install(D, e) = {}
      BY <1>4 DEF Install, Refused
    <2> QED
      BY <2>1, FS_EmptySet
  <1>5. CASE ~(\E x \in D : x.id = e.id) /\ ~(Cardinality(D) < Capacity) /\ Unpinned(D) # {}
    <2> DEFINE w == Least(Unpinned(D))
    <2>1. Install(D, e) = (D \ {w}) \cup {e}
      BY <1>5 DEF Install
    <2>2. w \in D
      <3>1. Unpinned(D) \in SUBSET D /\ \A x \in Unpinned(D) : ~x.pinned
        BY DEF Unpinned
      <3>2. IsFiniteSet(Unpinned(D))
        BY <3>1, FS_Subset
      <3> QED
        BY <1>5, <3>1, <3>2, LeastExists
    <2> HIDE DEF w
    <2> DEFINE rest == D \ {w}
    <2>3. IsFiniteSet(rest) /\ Cardinality(rest) = Cardinality(D) - 1
      BY <2>2, FS_RemoveElement
    <2>4. rest \cup {e} \in SUBSET Entry /\ rest \cup {e} \subseteq D \cup {e}
          /\ Install(D, e) = rest \cup {e}
      BY <2>1
    <2> HIDE DEF rest
    <2>5. /\ IsFiniteSet(rest \cup {e})
          /\ Cardinality(rest \cup {e}) \in Nat
          /\ Cardinality(rest \cup {e}) <= Cardinality(rest) + 1
      BY <2>3, AddOne
    <2>6. Cardinality(rest \cup {e}) <= Capacity
      BY <1>1, <2>3, <2>5
    <2> QED
      BY <2>4, <2>5, <2>6
  <1> QED
    BY <1>2, <1>3, <1>4, <1>5

\* The table's upsert and prune leave what the engine's eviction leaves: two pieces
\* of code that agree on every bounded memory and every entry.
LEMMA RecordIsInstall ==
  ASSUME NEW D \in SUBSET Entry, IsFiniteSet(D), Cardinality(D) <= Capacity,
         NEW e \in Entry
  PROVE  RecordRow(D, e) = Install(D, e)
  <1> USE LearningAssumption
  <1> DEFINE rows == Others(D, e) \cup {e}
  <1>1. Cardinality(D) \in Nat
    BY FS_CardinalityType
  <1>2. CASE \E x \in D : x.id = e.id
    <2>1. Install(D, e) = rows
      BY <1>2 DEF Install
    <2>2. Cardinality(rows) <= Capacity
      BY <2>1, InstallBounded
    <2> QED
      BY <2>1, <2>2 DEF RecordRow, Pruned
  <1>3. CASE ~(\E x \in D : x.id = e.id)
    <2>1. rows = D \cup {e} /\ e \notin D /\ rows \ {e} = D
      BY <1>3 DEF Others
    <2>2. Cardinality(rows) = Cardinality(D) + 1
      BY <2>1, AddOne
    <2>3. CASE Cardinality(D) < Capacity
      BY <1>1, <1>3, <2>1, <2>2, <2>3 DEF RecordRow, Pruned, Install
    <2>4. CASE ~(Cardinality(D) < Capacity)
      <3>1. ~(Cardinality(rows) <= Capacity)
        BY <1>1, <2>2, <2>4
      <3>2. CASE Unpinned(D) = {}
        BY <1>3, <2>1, <2>4, <3>1, <3>2 DEF RecordRow, Pruned, Install
      <3>3. CASE Unpinned(D) # {}
        <4>1. Install(D, e) = (D \ {Least(Unpinned(D))}) \cup {e}
          BY <1>3, <2>4, <3>3 DEF Install
        <4>2. RecordRow(D, e) = rows \ {Least(Unpinned(D))}
          BY <2>1, <3>1, <3>3 DEF RecordRow, Pruned
        <4>3. Least(Unpinned(D)) \in D
          <5>1. Unpinned(D) \in SUBSET D /\ \A x \in Unpinned(D) : ~x.pinned
            BY DEF Unpinned
          <5> QED
            BY <3>3, <5>1, FS_Subset, LeastExists
        <4> QED
          BY <2>1, <4>1, <4>2, <4>3
      <3> QED
        BY <3>2, <3>3
    <2> QED
      BY <2>3, <2>4
  <1> QED
    BY <1>2, <1>3

-----------------------------------------------------------------------------
(* The operations of a session.                                              *)

\* An operation between two requests that leaves the session as x and forgets its
\* receipt, up to what it leaves in the caches.
LEMMA SessionStep ==
  ASSUME IInv, NEW s \in Session, Idle, Live(s), UNCHANGED Outer,
         NEW x \in SessionState \cup {None}, NEW c \in Text,
         NEW r \in Suggestions \cup {None},
         x # None => x.epoch >= sessions[s].epoch /\ CachesOf(x, c, r),
         x = None => c = None /\ r = None,
         sessions' = [sessions EXCEPT ![s] = x],
         cache' = [cache EXCEPT ![s] = c],
         refreshCache' = [refreshCache EXCEPT ![s] = r],
         pendingLearning' = [pendingLearning EXCEPT ![s] = None],
         grants' \subseteq grants, {g \in grants : g.session # s} \subseteq grants',
         time' \in Nat
  PROVE  IInv'
  <1> USE DEF Outer
  <1>1. TypeOK'
    BY DEF IInv, TypeOK
  <1>2. SessionsInv'
    BY DEF IInv, TypeOK, SessionsInv, Live, NoSession, Idle
  <1>3. CachesInv'
    <2> SUFFICES ASSUME NEW t \in Session, Live(t)'
                 PROVE  CachesOf(sessions[t], cache[t], refreshCache[t])'
      BY DEF CachesInv
    <2>1. CASE t = s
      <3>1. sessions'[t] = x /\ cache'[t] = c /\ refreshCache'[t] = r /\ x # None
        BY <2>1 DEF IInv, TypeOK, Live
      <3> QED
        BY <3>1 DEF CachesOf, Key, Update, Secure
    <2>2. CASE t # s
      <3>1. /\ sessions'[t] = sessions[t] /\ cache'[t] = cache[t]
            /\ refreshCache'[t] = refreshCache[t]
        BY <2>2 DEF IInv, TypeOK
      <3>2. CachesOf(sessions[t], cache[t], refreshCache[t])
        BY <3>1 DEF IInv, CachesInv, Live
      <3> QED
        BY <3>1, <3>2 DEF CachesOf, Key, Update
    <2> QED
      BY <2>1, <2>2
  <1>4. ReceiptsInv'
    <2> SUFFICES ASSUME NEW t \in Session, pendingLearning'[t] # None
                 PROVE  /\ pendingLearning'[t].epoch = sessions'[t].epoch
                        /\ LearningAllowed(sessions'[t].context)
                        /\ [session |-> t, epoch |-> pendingLearning'[t].epoch,
                            chosen |-> pendingLearning'[t].chosen] \in grants'
                        /\ pendingLearning'[t].prepared # None =>
                             pendingLearning'[t].prepared.id = pendingLearning'[t].chosen
      BY DEF ReceiptsInv
    <2>1. t # s /\ pendingLearning'[t] = pendingLearning[t] /\ sessions'[t] = sessions[t]
      BY DEF IInv, TypeOK
    <2> QED
      BY <2>1 DEF IInv, ReceiptsInv
  <1>5. JobInv' /\ MirrorInv' /\ (Recorded' => durable' # Refused)
    BY DEF IInv, JobInv, MirrorInv, Recorded, Idle
  <1>6. FreshInv'
    <2>1. ASSUME NEW g \in receipts', Live(g.session)'
          PROVE  g.epoch <= sessions'[g.session].epoch
      <3>1. g \in receipts /\ g.session \in Session /\ g.epoch \in Nat
        BY <2>1 DEF IInv, TypeOK
      <3>2. CASE g.session = s
        <4>1. sessions'[s] = x /\ x # None /\ x.epoch \in Nat /\ sessions[s].epoch \in Nat
          BY <2>1, <3>1, <3>2 DEF IInv, TypeOK, Live, SessionState
        <4>2. g.epoch <= sessions[s].epoch
          BY <3>1, <3>2 DEF IInv, FreshInv
        <4> QED
          BY <3>1, <3>2, <4>1, <4>2
      <3>3. CASE g.session # s
        BY <2>1, <3>1, <3>3 DEF IInv, TypeOK, FreshInv, Live
      <3> QED
        BY <3>2, <3>3
    <2>2. ASSUME NEW t \in Session, pendingLearning'[t] # None, NEW g \in receipts',
                 g.session = t
          PROVE  g.epoch # pendingLearning'[t].epoch
      <3>1. pendingLearning'[t] = pendingLearning[t]
        BY <2>2 DEF IInv, TypeOK
      <3> QED
        BY <2>2, <3>1 DEF IInv, FreshInv, Recorded, Idle
    <2> QED
      BY <2>1, <2>2 DEF IInv, FreshInv
  <1>7. PreparedInv' /\ LearnedAtMostOnce'
    <2>1. \A t \in Session : pendingLearning'[t] # None => pendingLearning'[t] = pendingLearning[t]
      BY DEF IInv, TypeOK
    <2> QED
      BY <2>1 DEF IInv, PreparedInv, LearnedAtMostOnce, Taught
  <1> QED
    BY <1>1, <1>2, <1>3, <1>4, <1>5, <1>6, <1>7 DEF IInv

\* refresh leaves the caches built for the session it is given, which has the text
\* it offers; a hit is a hit of the very same text.
LEMMA RefreshStep ==
  ASSUME IInv, NEW s \in Session, Idle, Live(s), UNCHANGED Outer,
         NEW x \in SessionState, Refresh(s, x), x.epoch = sessions[s].epoch,
         x.context = sessions[s].context,
         Secure(x) => x.offers = None,
         x.offers \in {sessions[s].offers, None},
         ForgetReceipt(s), UNCHANGED <<time, grants>>
  PROVE  IInv'
  <1>1. sessions[s] \in SessionState /\ CachesOf(sessions[s], cache[s], refreshCache[s])
    BY DEF IInv, TypeOK, CachesInv, Live
  <1>2. time \in Nat /\ x # None
    BY NoneIsNoValue DEF IInv, TypeOK
  <1>3. pendingLearning' = [pendingLearning EXCEPT ![s] = None]
    BY DEF ForgetReceipt
  <1>4. CASE refreshCache[s] # None /\ refreshCache[s].key = Key(x)
    <2>1. sessions' = [sessions EXCEPT ![s] = x] /\ UNCHANGED <<cache, refreshCache>>
      BY <1>4 DEF Refresh
    <2>2. x.composition = sessions[s].composition
      BY <1>1, <1>4 DEF CachesOf, Key
    <2>3. CachesOf(x, cache[s], refreshCache[s])
      BY <1>1, <1>4, <2>2 DEF CachesOf, Key, Update, Secure
    <2>4. /\ cache' = [cache EXCEPT ![s] = cache[s]] /\ cache[s] \in Text
          /\ refreshCache' = [refreshCache EXCEPT ![s] = refreshCache[s]]
          /\ refreshCache[s] \in Suggestions \cup {None}
      BY <2>1 DEF IInv, TypeOK
    <2>5. x.epoch >= sessions[s].epoch
      BY <1>1 DEF SessionState
    <2> QED
      BY <1>2, <1>3, <2>1, <2>3, <2>4, <2>5, SessionStep
  <1>5. CASE ~(refreshCache[s] # None /\ refreshCache[s].key = Key(x))
    <2> PICK u \in [offers : Text, personal : SUBSET Entry] : u = Update(x, memory)
      <3>1. (IF Secure(x) THEN None ELSE x.composition) \in Text
        BY DEF SessionState, Text
      <3>2. (IF LearningAllowed(x.context)
             THEN {e \in memory : e.id = x.composition} ELSE {}) \in SUBSET Entry
        BY DEF IInv, TypeOK
      <3> QED
        BY <3>1, <3>2 DEF Update
    <2> PICK y \in SessionState : y = [x EXCEPT !.offers = u.offers]
      BY DEF SessionState
    <2> PICK b \in Suggestions : b = [key |-> Key(x), update |-> u]
      <3>1. Key(x) \in [version : Nat, composition : Text, context : Contexts]
        BY DEF Key, SessionState, IInv, TypeOK
      <3> QED
        BY <3>1 DEF Suggestions
    <2>1. /\ sessions' = [sessions EXCEPT ![s] = y]
          /\ cache' = [cache EXCEPT ![s] = u.offers]
          /\ refreshCache' = [refreshCache EXCEPT ![s] = b]
      BY <1>5 DEF Refresh
    <2>2. /\ y.composition = x.composition /\ y.context = x.context /\ y.epoch = x.epoch
          /\ y.offers = u.offers
      BY DEF SessionState
    <2>3. CachesOf(y, u.offers, b)
      BY <2>2 DEF CachesOf, Key, Update, Secure, LearningAllowed
    <2>4. y.epoch >= sessions[s].epoch /\ y # None
      BY <1>1, <2>2, NoneIsNoValue DEF SessionState
    <2>5. u.offers \in Text
      OBVIOUS
    <2> QED
      BY <1>2, <1>3, <2>1, <2>3, <2>4, <2>5, SessionStep
  <1> QED
    BY <1>4, <1>5

LEMMA UpdateCompositionStep ==
  ASSUME IInv, NEW s \in Session, UpdateComposition(s)
  PROVE  IInv'
  <1>1. sessions[s] \in SessionState
    BY DEF UpdateComposition, Live, IInv, TypeOK
  <1>2. PICK c \in Text :
          Refresh(s, [sessions[s] EXCEPT
            !.composition = IF Secure(sessions[s]) THEN None ELSE c,
            !.offers = IF Secure(sessions[s]) THEN None ELSE @])
    BY DEF UpdateComposition
  <1> PICK x \in SessionState :
          x = [sessions[s] EXCEPT
            !.composition = IF Secure(sessions[s]) THEN None ELSE c,
            !.offers = IF Secure(sessions[s]) THEN None ELSE @]
    BY <1>1 DEF SessionState, Text
  <1>3. /\ x.epoch = sessions[s].epoch /\ x.context = sessions[s].context
        /\ x.offers \in {sessions[s].offers, None}
        /\ (Secure(x) => x.offers = None)
    BY <1>1 DEF SessionState, Secure
  <1> QED
    BY <1>2, <1>3, RefreshStep DEF UpdateComposition

LEMMA FailOpenStep ==
  ASSUME IInv, NEW s \in Session, FailOpen(s)
  PROVE  IInv'
  <1> PICK x \in SessionState : x = sessions[s]
    BY DEF FailOpen, Live, IInv, TypeOK
  <1>1. CachesOf(x, cache[s], refreshCache[s])
    BY DEF FailOpen, IInv, CachesInv
  <1>2. CASE Refresh(s, sessions[s])
    <2>1. Secure(x) => x.offers = None
      BY <1>1 DEF CachesOf
    <2> QED
      BY <1>2, <2>1, RefreshStep DEF FailOpen
  <1>3. CASE UNCHANGED <<sessions, cache, refreshCache>>
    <2>1. /\ sessions' = [sessions EXCEPT ![s] = x]
          /\ cache' = [cache EXCEPT ![s] = cache[s]] /\ cache[s] \in Text
          /\ refreshCache' = [refreshCache EXCEPT ![s] = refreshCache[s]]
          /\ refreshCache[s] \in Suggestions \cup {None}
      BY <1>3 DEF IInv, TypeOK
    <2>2. x # None /\ x.epoch >= sessions[s].epoch /\ time' \in Nat
      BY NoneIsNoValue DEF FailOpen, SessionState, IInv, TypeOK
    <2> QED
      BY <1>1, <2>1, <2>2, SessionStep DEF FailOpen, ForgetReceipt
  <1> QED
    BY <1>2, <1>3 DEF FailOpen

\* What is left of a session after an operation that clears its caches.
LEMMA ClearedStep ==
  ASSUME IInv, NEW s \in Session, Idle, Live(s), UNCHANGED Outer,
         NEW x \in SessionState \cup {None},
         x # None => /\ x.epoch >= sessions[s].epoch
                     /\ x.offers # None => x.offers = x.composition /\ ~Secure(x),
         sessions' = [sessions EXCEPT ![s] = x], ClearCaches(s), ForgetReceipt(s),
         grants' \subseteq grants, {g \in grants : g.session # s} \subseteq grants',
         time' \in Nat
  PROVE  IInv'
  <1>1. x # None => CachesOf(x, None, None)
    BY DEF CachesOf
  <1>2. None \in Text /\ None \in Suggestions \cup {None}
    BY DEF Text
  <1> QED
    BY <1>1, <1>2, SessionStep DEF ClearCaches, ForgetReceipt

\* recordCommit counts the commit and drops the text.
LEMMA CommittedSession ==
  ASSUME NEW y \in SessionState
  PROVE  /\ Committed(y) \in SessionState
         /\ Committed(y).composition = None /\ Committed(y).offers = None
         /\ Committed(y).context = y.context
         /\ Committed(y).epoch = y.epoch + 1 /\ Committed(y).epoch > y.epoch
         /\ y.epoch \in Nat
  <1>1. y.epoch \in Nat /\ y.epoch + 1 \in Nat
    BY DEF SessionState
  <1>2. Committed(y) \in SessionState
    BY <1>1 DEF Committed, SessionState, Text
  <1>3. /\ Committed(y).composition = None /\ Committed(y).offers = None
        /\ Committed(y).context = y.context /\ Committed(y).epoch = y.epoch + 1
    BY DEF Committed, SessionState
  <1> QED
    BY <1>1, <1>2, <1>3

LEMMA CommitRawStep ==
  ASSUME IInv, NEW s \in Session, CommitRaw(s)
  PROVE  IInv'
  <1>1. sessions[s] \in SessionState
    BY DEF CommitRaw, Live, IInv, TypeOK
  <1> PICK x \in SessionState : x = Committed(sessions[s])
    BY <1>1, CommittedSession
  <1>2. x.epoch >= sessions[s].epoch /\ x.offers = None
    BY <1>1, CommittedSession
  <1>3. sessions' = [sessions EXCEPT ![s] = x] /\ time' \in Nat
    BY DEF CommitRaw, IInv, TypeOK
  <1> QED
    BY <1>2, <1>3, ClearedStep DEF CommitRaw

LEMMA CancelCompositionStep ==
  ASSUME IInv, NEW s \in Session, CancelComposition(s)
  PROVE  IInv'
  <1>1. sessions[s] \in SessionState
    BY DEF CancelComposition, Live, IInv, TypeOK
  <1> PICK x \in SessionState : x = [sessions[s] EXCEPT !.composition = None, !.offers = None]
    BY <1>1 DEF SessionState, Text
  <1>2. x.epoch >= sessions[s].epoch /\ x.offers = None
    BY <1>1 DEF SessionState
  <1>3. sessions' = [sessions EXCEPT ![s] = x] /\ time' \in Nat
    BY <1>1 DEF CancelComposition, SessionState, IInv, TypeOK
  <1> QED
    BY <1>2, <1>3, ClearedStep DEF CancelComposition

LEMMA SetLayoutStep ==
  ASSUME IInv, NEW s \in Session, SetLayout(s)
  PROVE  IInv'
  <1> PICK x \in SessionState : x = sessions[s]
    BY DEF SetLayout, Live, IInv, TypeOK
  <1>1. x.epoch >= sessions[s].epoch
        /\ (x.offers # None => x.offers = x.composition /\ ~Secure(x))
    BY DEF SetLayout, IInv, CachesInv, CachesOf, SessionState
  <1>2. sessions' = [sessions EXCEPT ![s] = x] /\ time' \in Nat
    BY DEF SetLayout, IInv, TypeOK
  <1> QED
    BY <1>1, <1>2, ClearedStep DEF SetLayout

LEMMA SetContextStep ==
  ASSUME IInv, NEW s \in Session, SetContext(s)
  PROVE  IInv'
  <1>1. sessions[s] \in SessionState /\ CachesOf(sessions[s], cache[s], refreshCache[s])
    BY DEF SetContext, Live, IInv, TypeOK, CachesInv
  <1> PICK context \in Contexts :
         sessions' = [sessions EXCEPT ![s] =
           IF context = "secure"
           THEN [@ EXCEPT !.context = context, !.composition = None, !.offers = None]
           ELSE [@ EXCEPT !.context = context]]
    BY DEF SetContext
  <1> PICK x \in SessionState :
         x = IF context = "secure"
             THEN [sessions[s] EXCEPT !.context = context, !.composition = None, !.offers = None]
             ELSE [sessions[s] EXCEPT !.context = context]
    BY <1>1 DEF SessionState, Text
  <1>2. x.epoch >= sessions[s].epoch
        /\ (x.offers # None => x.offers = x.composition /\ ~Secure(x))
    BY <1>1 DEF SessionState, CachesOf, Secure
  <1>3. sessions' = [sessions EXCEPT ![s] = x] /\ time' \in Nat
    BY DEF SetContext, IInv, TypeOK
  <1>4. grants' \subseteq grants /\ {g \in grants : g.session # s} \subseteq grants'
    BY DEF SetContext
  <1> QED
    BY <1>2, <1>3, <1>4, ClearedStep DEF SetContext

LEMMA EndSessionStep ==
  ASSUME IInv, NEW s \in Session, EndSession(s)
  PROVE  IInv'
  <1>1. sessions' = [sessions EXCEPT ![s] = None] /\ time' \in Nat
    BY DEF EndSession, IInv, TypeOK
  <1> QED
    BY <1>1, ClearedStep DEF EndSession

\* The receipt is for the text that was on the screen, in an epoch no receipt has.
LEMMA CommitCandidateStep ==
  ASSUME IInv, NEW s \in Session, CommitCandidate(s)
  PROVE  IInv'
  <1> USE DEF Outer
  <1>1. /\ Idle /\ Live(s) /\ sessions[s] \in SessionState /\ UNCHANGED Outer
        /\ CachesOf(sessions[s], cache[s], refreshCache[s])
    BY DEF CommitCandidate, Live, IInv, TypeOK, CachesInv
  <1> PICK x \in SessionState : x = Committed(sessions[s])
    BY <1>1, CommittedSession
  <1>2. /\ x.epoch > sessions[s].epoch /\ x.epoch \in Nat /\ sessions[s].epoch \in Nat
        /\ x.offers = None /\ x.context = sessions[s].context /\ x # None
    BY <1>1, CommittedSession, NoneIsNoValue DEF SessionState
  <1>3. /\ sessions' = [sessions EXCEPT ![s] = x] /\ sessions'[s] = x
        /\ cache' = [cache EXCEPT ![s] = None]
        /\ refreshCache' = [refreshCache EXCEPT ![s] = None]
        /\ time' = time + 1 /\ time \in Nat /\ time' \in Nat
    BY DEF CommitCandidate, ClearCaches, IInv, TypeOK
  <1>4. Offered(s) \in Correction /\ Offered(s) = sessions[s].composition
    BY <1>1 DEF CommitCandidate, CachesOf, Offered, IInv, TypeOK, SessionState, Text
  <1> PICK g \in [session : Session, epoch : Nat, chosen : Correction] :
         g = [session |-> s, epoch |-> x.epoch, chosen |-> sessions[s].composition]
    BY <1>2, <1>4
  <1>5. grants' = IF LearningAllowed(sessions[s].context) THEN grants \cup {g} ELSE grants
    BY <1>3 DEF CommitCandidate
  <1> PICK p \in Receipt \cup {None} :
         /\ pendingLearning' = [pendingLearning EXCEPT ![s] = p]
         /\ p # None =>
              /\ LearningAllowed(sessions[s].context)
              /\ p = [epoch |-> x.epoch, chosen |-> Offered(s), time |-> time + 1,
                      prepared |-> None]
    <2>1. [epoch |-> x.epoch, chosen |-> Offered(s), time |-> time + 1,
           prepared |-> None] \in Receipt
      BY <1>2, <1>3, <1>4 DEF Receipt
    <2>2. sessions'[s].epoch = x.epoch
      BY <1>3
    <2> QED
      BY <2>1, <2>2 DEF CommitCandidate
  <1>6. \A t \in Session : t # s =>
          /\ sessions'[t] = sessions[t] /\ cache'[t] = cache[t]
          /\ refreshCache'[t] = refreshCache[t] /\ pendingLearning'[t] = pendingLearning[t]
    BY <1>3
  <1>7. sessions'[s] = x /\ cache'[s] = None /\ refreshCache'[s] = None /\ pendingLearning'[s] = p
    BY <1>3 DEF IInv, TypeOK
  <1>8. TypeOK'
    BY <1>1, <1>3, <1>5 DEF IInv, TypeOK, Text
  <1>9. SessionsInv'
    <2>1. \A t \in Session : ~Live(t)' =>
            cache'[t] = None /\ refreshCache'[t] = None /\ pendingLearning'[t] = None
      BY <1>2, <1>6, <1>7 DEF IInv, SessionsInv, Live
    <2>2. \A t \in Session : Live(t)' => t \in begun'
      BY <1>1, <1>6 DEF IInv, SessionsInv, Live
    <2> QED
      BY <1>1, <2>1, <2>2 DEF SessionsInv, Idle
  <1>10. CachesInv'
    <2> SUFFICES ASSUME NEW t \in Session, Live(t)'
                 PROVE  CachesOf(sessions[t], cache[t], refreshCache[t])'
      BY DEF CachesInv
    <2>1. CASE t = s
      BY <1>2, <1>7, <2>1 DEF CachesOf
    <2>2. CASE t # s
      <3>1. /\ sessions'[t] = sessions[t] /\ cache'[t] = cache[t]
            /\ refreshCache'[t] = refreshCache[t]
            /\ memory' = memory /\ memoryVersion' = memoryVersion
        BY <1>1, <1>6, <2>2
      <3>2. CachesOf(sessions[t], cache[t], refreshCache[t])
        BY <3>1 DEF IInv, CachesInv, Live
      <3> QED
        BY <3>1, <3>2 DEF CachesOf, Key, Update
    <2> QED
      BY <2>1, <2>2
  <1>11. ReceiptsInv'
    <2> SUFFICES ASSUME NEW t \in Session, pendingLearning'[t] # None
                 PROVE  /\ pendingLearning'[t].epoch = sessions'[t].epoch
                        /\ LearningAllowed(sessions'[t].context)
                        /\ [session |-> t, epoch |-> pendingLearning'[t].epoch,
                            chosen |-> pendingLearning'[t].chosen] \in grants'
                        /\ pendingLearning'[t].prepared # None =>
                             pendingLearning'[t].prepared.id = pendingLearning'[t].chosen
      BY DEF ReceiptsInv
    <2>1. CASE t = s
      BY <1>2, <1>4, <1>5, <1>7, <2>1
    <2>2. CASE t # s
      BY <1>5, <1>6, <2>2 DEF IInv, ReceiptsInv
    <2> QED
      BY <2>1, <2>2
  <1>12. JobInv' /\ MirrorInv' /\ (Recorded' => durable' # Refused)
    BY <1>1 DEF IInv, JobInv, MirrorInv, Recorded, Idle
  <1>13. FreshInv'
    <2>1. \A r \in receipts : r.session \in Session /\ r.epoch \in Nat
      BY DEF IInv, TypeOK
    <2>2. \A r \in receipts : r.session = s => r.epoch <= sessions[s].epoch
      BY <1>1 DEF IInv, FreshInv
    <2>3. ASSUME NEW r \in receipts', Live(r.session)'
          PROVE  r.epoch <= sessions'[r.session].epoch
      <3>1. CASE r.session = s
        BY <1>1, <1>2, <1>7, <2>1, <2>2, <3>1
      <3>2. CASE r.session # s
        BY <1>1, <1>6, <2>1, <2>3, <3>2 DEF IInv, FreshInv, Live
      <3> QED
        BY <3>1, <3>2
    <2>4. ASSUME NEW t \in Session, pendingLearning'[t] # None, NEW r \in receipts',
                 r.session = t
          PROVE  r.epoch # pendingLearning'[t].epoch
      <3>1. CASE t = s
        BY <1>1, <1>2, <1>7, <2>1, <2>2, <2>4, <3>1
      <3>2. CASE t # s
        BY <1>1, <1>6, <2>4, <3>2 DEF IInv, FreshInv, Recorded, Idle
      <3> QED
        BY <3>1, <3>2
    <2> QED
      BY <1>1, <2>3, <2>4 DEF IInv, FreshInv
  <1>14. PreparedInv' /\ LearnedAtMostOnce'
    <2>1. \A t \in Session : pendingLearning'[t] # None /\ pendingLearning'[t].prepared # None =>
            pendingLearning'[t] = pendingLearning[t]
      BY <1>6, <1>7
    <2>2. receipts' = receipts /\ durable' = durable
      BY <1>1
    <2>3. PreparedInv'
      <3> SUFFICES ASSUME NEW t \in Session,
                          pendingLearning'[t] # None, pendingLearning'[t].prepared # None
                   PROVE  pendingLearning'[t].prepared.frequency
                            <= Cardinality({r \in receipts' :
                                 r.id = pendingLearning'[t].prepared.id}) + 1
        BY DEF PreparedInv, Taught
      <3>1. pendingLearning'[t] = pendingLearning[t]
        BY <2>1
      <3> QED
        BY <2>2, <3>1 DEF IInv, PreparedInv, Taught
    <2>4. LearnedAtMostOnce'
      BY <2>2 DEF IInv, LearnedAtMostOnce
    <2> QED
      BY <2>3, <2>4
  <1> QED
    BY <1>8, <1>9, <1>10, <1>11, <1>12, <1>13, <1>14 DEF IInv

LEMMA BeginSessionStep ==
  ASSUME IInv, NEW s \in Session, BeginSession(s)
  PROVE  IInv'
  <1> PICK context \in Contexts :
         sessions' = [sessions EXCEPT ![s] =
           [composition |-> None, offers |-> None, context |-> context, epoch |-> 0]]
    BY DEF BeginSession
  <1> PICK x \in SessionState :
         x = [composition |-> None, offers |-> None, context |-> context, epoch |-> 0]
    BY DEF SessionState, Text
  <1>1. /\ Idle /\ s \notin begun /\ begun' = begun \cup {s} /\ x # None
        /\ UNCHANGED <<durable, memory, memoryVersion, memoryEnabled, cache, refreshCache,
                       pendingLearning, job, time, grants, receipts, failures>>
    BY NoneIsNoValue DEF BeginSession
  <1>2. /\ sessions'[s] = x /\ cache[s] = None /\ refreshCache[s] = None
        /\ pendingLearning[s] = None
        /\ \A t \in Session : t # s => sessions'[t] = sessions[t]
    BY <1>1 DEF IInv, TypeOK, SessionsInv
  <1>3. TypeOK'
    BY <1>1 DEF IInv, TypeOK
  <1>4. SessionsInv'
    BY <1>1, <1>2 DEF IInv, SessionsInv, Live, Idle
  <1>5. CachesInv'
    <2> SUFFICES ASSUME NEW t \in Session, Live(t)'
                 PROVE  CachesOf(sessions[t], cache[t], refreshCache[t])'
      BY DEF CachesInv
    <2>1. CASE t = s
      BY <1>1, <1>2, <2>1 DEF CachesOf
    <2>2. CASE t # s
      <3>1. CachesOf(sessions[t], cache[t], refreshCache[t])
        BY <1>2, <2>2 DEF IInv, CachesInv, Live
      <3> QED
        BY <1>1, <1>2, <2>2, <3>1 DEF CachesOf, Key, Update
    <2> QED
      BY <2>1, <2>2
  <1>6. ReceiptsInv'
    BY <1>1, <1>2 DEF IInv, ReceiptsInv
  <1>7. JobInv' /\ MirrorInv' /\ (Recorded' => durable' # Refused)
    BY <1>1 DEF IInv, JobInv, MirrorInv, Recorded
  <1>8. FreshInv'
    <2>1. \A r \in receipts : r.session # s /\ r.session \in Session
      BY <1>1 DEF IInv, TypeOK, FreshInv
    <2> QED
      BY <1>1, <1>2, <2>1 DEF IInv, FreshInv, Live, Recorded
  <1>9. PreparedInv' /\ LearnedAtMostOnce'
    BY <1>1 DEF IInv, PreparedInv, LearnedAtMostOnce, Taught
  <1> QED
    BY <1>3, <1>4, <1>5, <1>6, <1>7, <1>8, <1>9 DEF IInv

-----------------------------------------------------------------------------
(* memory.learn.                                                             *)

LEMMA TaughtFinite ==
  ASSUME IInv, NEW c
  PROVE  IsFiniteSet(Taught(c)) /\ Cardinality(Taught(c)) \in Nat
  <1>1. Taught(c) \in SUBSET receipts /\ IsFiniteSet(receipts)
    BY DEF Taught, IInv, TypeOK
  <1> QED
    BY <1>1, FS_Subset, FS_CardinalityType

\* What a receipt prepares is an entry for its candidate that counts at most one
\* selection more than the table does.
LEMMA SelectedEntry ==
  ASSUME IInv, memory = durable, NEW c \in Correction, NEW when \in Nat
  PROVE  /\ Selected(memory, c, when) \in Entry
         /\ Selected(memory, c, when).id = c
         /\ Selected(memory, c, when).frequency <= Cardinality(Taught(c)) + 1
  <1> DEFINE known == {x \in memory : x.id = c}
  <1>1. Cardinality(Taught(c)) \in Nat
    BY TaughtFinite
  <1>2. CASE known # {}
    <2> PICK x \in known : x = CHOOSE y \in known : TRUE
      BY <1>2
    <2>1. x \in durable /\ x \in Entry /\ x.id = c /\ x.frequency \in Nat
      BY DEF IInv, TypeOK, Entry
    <2>2. x.frequency <= Cardinality(Taught(c))
      BY <2>1 DEF IInv, LearnedAtMostOnce, Taught
    <2> DEFINE f == x.frequency
    <2> HIDE DEF f
    <2> PICK n \in Nat : n = f + 1
      <3>1. f \in Nat
        BY <2>1 DEF f
      <3> QED
        BY <3>1
    <2> USE DEF f
    <2>3. Selected(memory, c, when) = [x EXCEPT !.frequency = n, !.lastUsed = when]
      BY <1>2 DEF Selected
    <2>4. /\ [x EXCEPT !.frequency = n, !.lastUsed = when] \in Entry
          /\ [x EXCEPT !.frequency = n, !.lastUsed = when].id = c
          /\ [x EXCEPT !.frequency = n, !.lastUsed = when].frequency = n
      BY <2>1 DEF Entry
    <2> QED
      BY <1>1, <2>1, <2>2, <2>3, <2>4
  <1>3. CASE known = {}
    <2>1. Selected(memory, c, when)
          = [id |-> c, frequency |-> 1, lastUsed |-> when, pinned |-> FALSE]
      BY <1>3 DEF Selected
    <2> QED
      BY <1>1, <2>1 DEF Entry
  <1> QED
    BY <1>2, <1>3

LEMMA PrepareStep ==
  ASSUME IInv, NEW s \in Session, NEW epoch \in 1..MaxCommits, Prepare(s, epoch)
  PROVE  IInv'
  <1>1. /\ job = None /\ pendingLearning[s] # None /\ pendingLearning[s] \in Receipt
        /\ pendingLearning[s].epoch = epoch /\ Live(s)
        /\ UNCHANGED <<durable, memory, memoryVersion, memoryEnabled, sessions, begun, cache,
                       refreshCache, time, grants, receipts, failures>>
    BY DEF Prepare, Idle, IInv, TypeOK
  <1>2. memoryEnabled = TRUE
    BY Zenon DEF Prepare, Idle, IInv, TypeOK
  <1>3. memory = durable
    BY <1>1, <1>2 DEF IInv, MirrorInv
  <1> PICK e \in Entry :
         /\ e = Prepared(s)
         /\ e.id = pendingLearning[s].chosen
         /\ e.frequency <= Cardinality(Taught(e.id)) + 1
    <2>1. CASE pendingLearning[s].prepared # None
      <3>1. Prepared(s) = pendingLearning[s].prepared /\ Prepared(s) \in Entry
        BY <1>1, <2>1 DEF Prepared, Receipt
      <3> QED
        BY <1>1, <2>1, <3>1 DEF IInv, ReceiptsInv, PreparedInv
    <2>2. CASE pendingLearning[s].prepared = None
      <3>1. /\ Prepared(s) = Selected(memory, pendingLearning[s].chosen, pendingLearning[s].time)
            /\ pendingLearning[s].chosen \in Correction /\ pendingLearning[s].time \in Nat
        BY <1>1, <2>2 DEF Prepared, Receipt
      <3> QED
        BY <1>3, <3>1, SelectedEntry
    <2> QED
      BY <2>1, <2>2
  <1> PICK p \in Receipt : p = [pendingLearning[s] EXCEPT !.prepared = e]
    BY <1>1 DEF Receipt
  <1>4. /\ p.prepared = e /\ p.epoch = epoch /\ p.chosen = pendingLearning[s].chosen /\ p # None
        /\ e # None
    BY <1>1, NoneIsNoValue DEF Receipt
  <1>5. /\ pendingLearning' = [pendingLearning EXCEPT ![s] = p]
        /\ job' = [session |-> s, epoch |-> epoch, entry |-> e, recorded |-> FALSE]
    BY DEF Prepare
  <1>6. /\ job' \in Learning /\ job' # None /\ ~Recorded'
        /\ job'.session = s /\ job'.epoch = epoch /\ job'.entry = e /\ job'.recorded = FALSE
    <2>1. epoch \in Nat
      BY LearningAssumption
    <2>2. [session |-> s, epoch |-> epoch, entry |-> e, recorded |-> FALSE] \in Learning
      BY <2>1 DEF Learning
    <2>3. job' \in Learning /\ job'.recorded = FALSE
      BY <1>5, <2>2
    <2>4. job' # None
      BY <2>3, NoneIsNoValue
    <2> QED
      BY <1>5, <2>3, <2>4 DEF Recorded
  <1>7. pendingLearning'[s] = p /\ \A t \in Session : t # s => pendingLearning'[t] = pendingLearning[t]
    BY <1>5 DEF IInv, TypeOK
  <1>8. TypeOK'
    BY <1>1, <1>5, <1>6 DEF IInv, TypeOK
  <1>9. SessionsInv' /\ CachesInv'
    <2>1. SessionsInv'
      BY <1>1, <1>7 DEF IInv, SessionsInv, Live
    <2>2. CachesInv'
      BY <1>1 DEF IInv, CachesInv, CachesOf, Live, Key, Update
    <2> QED
      BY <2>1, <2>2
  <1>10. ReceiptsInv'
    <2> SUFFICES ASSUME NEW t \in Session, pendingLearning'[t] # None
                 PROVE  /\ pendingLearning'[t].epoch = sessions'[t].epoch
                        /\ LearningAllowed(sessions'[t].context)
                        /\ [session |-> t, epoch |-> pendingLearning'[t].epoch,
                            chosen |-> pendingLearning'[t].chosen] \in grants'
                        /\ pendingLearning'[t].prepared # None =>
                             pendingLearning'[t].prepared.id = pendingLearning'[t].chosen
      BY DEF ReceiptsInv
    <2>1. CASE t = s
      BY <1>1, <1>4, <1>7, <2>1 DEF IInv, ReceiptsInv
    <2>2. CASE t # s
      BY <1>1, <1>7, <2>2 DEF IInv, ReceiptsInv
    <2> QED
      BY <2>1, <2>2
  <1>11. JobInv' /\ MirrorInv' /\ (Recorded' => durable' # Refused)
    BY <1>1, <1>2, <1>3, <1>4, <1>6, <1>7 DEF JobInv, MirrorInv
  <1>12. FreshInv'
    <2>1. \A t \in Session : pendingLearning'[t] # None =>
            pendingLearning[t] # None /\ pendingLearning'[t].epoch = pendingLearning[t].epoch
      BY <1>1, <1>4, <1>7
    <2>2. ~Recorded
      BY <1>1 DEF Recorded
    <2> QED
      BY <1>1, <2>1, <2>2 DEF IInv, FreshInv, Live
  <1>13. PreparedInv'
    <2> SUFFICES ASSUME NEW t \in Session,
                        pendingLearning'[t] # None, pendingLearning'[t].prepared # None
                 PROVE  pendingLearning'[t].prepared.frequency
                          <= Cardinality({r \in receipts' :
                               r.id = pendingLearning'[t].prepared.id}) + 1
      BY DEF PreparedInv, Taught
    <2>1. receipts' = receipts
      BY <1>1
    <2>2. CASE t = s
      <3>1. pendingLearning'[t].prepared = e
        BY <1>4, <1>7, <2>2
      <3>2. e.frequency <= Cardinality({r \in receipts : r.id = e.id}) + 1
        BY DEF Taught
      <3> QED
        BY <2>1, <3>1, <3>2
    <2>3. CASE t # s
      BY <1>7, <2>1, <2>3 DEF IInv, PreparedInv, Taught
    <2> QED
      BY <2>2, <2>3
  <1>14. LearnedAtMostOnce'
    BY <1>1 DEF IInv, LearnedAtMostOnce
  <1> QED
    BY <1>8, <1>9, <1>10, <1>11, <1>12, <1>13, <1>14 DEF IInv

\* What the learning under way stands for.
LEMMA JobFacts ==
  ASSUME IInv, job # None
  PROVE  /\ job \in Learning /\ job.session \in Session /\ job.entry \in Entry
         /\ job.epoch \in Nat
         /\ memoryEnabled = TRUE /\ Live(job.session) /\ job.session \in begun
         /\ pendingLearning[job.session] # None
         /\ pendingLearning[job.session].prepared = job.entry /\ job.entry # None
         /\ pendingLearning[job.session].epoch = job.epoch
         /\ sessions[job.session].epoch = job.epoch
         /\ LearningAllowed(sessions[job.session].context)
         /\ [session |-> job.session, epoch |-> job.epoch, chosen |-> job.entry.id] \in grants
  <1>1. job \in Learning /\ job.session \in Session /\ job.entry \in Entry /\ job.epoch \in Nat
    BY DEF IInv, TypeOK, Learning
  <1>2. /\ memoryEnabled = TRUE
        /\ pendingLearning[job.session] # None
        /\ pendingLearning[job.session].prepared = job.entry
        /\ pendingLearning[job.session].epoch = job.epoch
    BY DEF IInv, JobInv
  <1>3. job.entry # None
    BY <1>1, NoneIsNoValue
  <1>4. Live(job.session) /\ job.session \in begun
    BY <1>1, <1>2 DEF IInv, SessionsInv
  <1> QED
    BY <1>1, <1>2, <1>3, <1>4 DEF IInv, ReceiptsInv

\* Writing the row: the receipt is used up, and the row counts no more selections
\* than were recorded, this one with them.
LEMMA RecordStep ==
  ASSUME IInv, Record
  PROVE  IInv'
  <1> DEFINE js == job.session
             e == job.entry
  <1>1. job # None /\ job.recorded = FALSE
    BY DEF Record, IInv, TypeOK, Learning
  <1>2. /\ js \in Session /\ e \in Entry /\ job.epoch \in Nat /\ js \in begun /\ Live(js)
        /\ memoryEnabled = TRUE
        /\ pendingLearning[js] # None /\ pendingLearning[js].prepared = e /\ e # None
        /\ pendingLearning[js].epoch = job.epoch /\ sessions[js].epoch = job.epoch
        /\ job \in Learning
    BY <1>1, JobFacts
  <1>3. memory = durable /\ durable' = Install(durable, e) /\ durable' # Refused
    <2>1. memory = durable
      BY <1>1, <1>2 DEF IInv, MirrorInv
    <2>2. RecordRow(durable, e) = Install(durable, e)
      BY <1>2, RecordIsInstall DEF IInv, TypeOK
    <2> QED
      BY <2>1, <2>2 DEF Record
  <1>4. /\ durable' \in SUBSET Entry /\ IsFiniteSet(durable') /\ Cardinality(durable') <= Capacity
        /\ durable' \subseteq durable \cup {e}
    BY <1>2, <1>3, InstallBounded DEF IInv, TypeOK
  <1>5. /\ job' \in Learning /\ job' # None /\ job'.recorded = TRUE
        /\ job'.session = js /\ job'.epoch = job.epoch /\ job'.entry = e
    BY <1>2, NoneIsNoValue DEF Record, Learning
  <1> PICK r \in [session : Session, epoch : Nat, id : Correction] :
         r = [session |-> js, epoch |-> job.epoch, id |-> e.id]
    BY <1>2 DEF Entry
  <1>6. /\ r.session = js /\ r.epoch = job.epoch /\ r.id = e.id
        /\ receipts' = receipts \cup {r}
        /\ UNCHANGED <<memoryEnabled, time, grants, failures, engineVars>>
    BY DEF Record
  <1>7. r \notin receipts
    BY <1>1, <1>2, <1>6 DEF IInv, FreshInv, Recorded
  <1> HIDE DEF js, e
  <1>8. \A c : /\ IsFiniteSet(Taught(c)) /\ Cardinality(Taught(c)) \in Nat
               /\ Cardinality(Taught(c)') \in Nat
               /\ Cardinality(Taught(c)) <= Cardinality(Taught(c)')
               /\ c = e.id => Cardinality(Taught(c)') = Cardinality(Taught(c)) + 1
    <2> SUFFICES ASSUME NEW c
                 PROVE  /\ IsFiniteSet(Taught(c)) /\ Cardinality(Taught(c)) \in Nat
                        /\ Cardinality(Taught(c)') \in Nat
                        /\ Cardinality(Taught(c)) <= Cardinality(Taught(c)')
                        /\ c = e.id => Cardinality(Taught(c)') = Cardinality(Taught(c)) + 1
      OBVIOUS
    <2>1. IsFiniteSet(Taught(c)) /\ Cardinality(Taught(c)) \in Nat
      BY TaughtFinite
    <2>2. CASE c = e.id
      <3>1. Taught(c)' = Taught(c) \cup {r} /\ r \notin Taught(c)
        BY <1>6, <1>7, <2>2 DEF Taught
      <3> QED
        BY <2>1, <3>1, AddOne
    <2>3. CASE c # e.id
      <3>1. Taught(c)' = Taught(c)
        BY <1>6, <2>3 DEF Taught
      <3> QED
        BY <2>1, <2>3, <3>1
    <2> QED
      BY <2>2, <2>3
  <1>9. TypeOK'
    <2>1. IsFiniteSet(receipts')
      BY <1>6, AddOne DEF IInv, TypeOK
    <2> QED
      BY <1>4, <1>5, <1>6, <2>1 DEF IInv, TypeOK, engineVars
  <1>10. SessionsInv' /\ CachesInv' /\ ReceiptsInv'
    <2>1. SessionsInv'
      BY <1>6 DEF IInv, SessionsInv, Live, engineVars
    <2>2. CachesInv'
      BY <1>6 DEF IInv, CachesInv, CachesOf, Live, Key, Update, engineVars
    <2>3. ReceiptsInv'
      BY <1>6 DEF IInv, ReceiptsInv, engineVars
    <2> QED
      BY <2>1, <2>2, <2>3
  <1>11. JobInv' /\ MirrorInv' /\ (Recorded' => durable' # Refused)
    BY <1>2, <1>3, <1>5, <1>6 DEF JobInv, MirrorInv, engineVars
  <1>12. FreshInv'
    <2>1. Recorded' /\ job'.session = js
      BY <1>5 DEF Recorded
    <2>2. /\ sessions' = sessions /\ begun' = begun /\ pendingLearning' = pendingLearning
      BY <1>6 DEF engineVars
    <2>3. ASSUME NEW q \in receipts'
          PROVE  q.session \in begun' /\ (Live(q.session)' => q.epoch <= sessions'[q.session].epoch)
      BY <1>2, <1>6, <2>2 DEF IInv, FreshInv, Live
    <2>4. ASSUME NEW t \in Session, pendingLearning'[t] # None, t # js, NEW q \in receipts',
                 q.session = t
          PROVE  q.epoch # pendingLearning'[t].epoch
      BY <1>1, <1>6, <2>2, <2>4 DEF IInv, FreshInv, Recorded
    <2> QED
      BY <2>1, <2>3, <2>4 DEF FreshInv
  <1>13. PreparedInv'
    <2> SUFFICES ASSUME NEW t \in Session,
                        pendingLearning'[t] # None, pendingLearning'[t].prepared # None
                 PROVE  pendingLearning'[t].prepared.frequency
                          <= Cardinality({q \in receipts' :
                               q.id = pendingLearning'[t].prepared.id}) + 1
      BY DEF PreparedInv, Taught
    <2>1. pendingLearning' = pendingLearning
      BY <1>6 DEF engineVars
    <2> DEFINE c == pendingLearning[t].prepared.id
               n == pendingLearning[t].prepared.frequency
    <2>2. n \in Nat /\ n <= Cardinality(Taught(c)) + 1
      BY <2>1 DEF IInv, TypeOK, PreparedInv, Receipt, Entry
    <2>3. Cardinality({q \in receipts : q.id = c}) <= Cardinality({q \in receipts' : q.id = c})
          /\ Cardinality({q \in receipts : q.id = c}) \in Nat
          /\ Cardinality({q \in receipts' : q.id = c}) \in Nat
      BY <1>8 DEF Taught
    <2> QED
      BY <2>1, <2>2, <2>3 DEF Taught
  <1>14. LearnedAtMostOnce'
    <2> SUFFICES ASSUME NEW x \in durable'
                 PROVE  x.frequency <= Cardinality({q \in receipts' : q.id = x.id})
      BY DEF LearnedAtMostOnce
    <2>1. x.frequency \in Nat
      BY <1>4 DEF Entry
    <2>2. /\ Cardinality({q \in receipts : q.id = x.id}) <= Cardinality({q \in receipts' : q.id = x.id})
          /\ Cardinality({q \in receipts : q.id = x.id}) \in Nat
          /\ Cardinality({q \in receipts' : q.id = x.id}) \in Nat
          /\ x.id = e.id => Cardinality({q \in receipts' : q.id = x.id})
                            = Cardinality({q \in receipts : q.id = x.id}) + 1
      BY <1>8 DEF Taught
    <2>3. CASE x \in durable
      <3>1. x.frequency <= Cardinality({q \in receipts : q.id = x.id})
        BY <2>3 DEF IInv, LearnedAtMostOnce
      <3> QED
        BY <2>1, <2>2, <3>1
    <2>4. CASE x = e
      <3>1. x.frequency <= Cardinality({q \in receipts : q.id = x.id}) + 1
        BY <1>2, <2>4 DEF IInv, PreparedInv, Taught
      <3> QED
        BY <2>1, <2>2, <2>4, <3>1
    <2> QED
      BY <1>4, <2>3, <2>4
  <1> QED
    BY <1>9, <1>10, <1>11, <1>12, <1>13, <1>14 DEF IInv

LEMMA RecordFailsStep ==
  ASSUME IInv, RecordFails
  PROVE  IInv'
  <1>1. /\ job # None /\ job.recorded = FALSE /\ job' = None
        /\ UNCHANGED <<durable, memoryEnabled, time, grants, receipts, engineVars>>
    BY DEF RecordFails, IInv, TypeOK, Learning
  <1>2. TypeOK' /\ SessionsInv'
    BY <1>1 DEF IInv, TypeOK, SessionsInv, Live, engineVars
  <1>3. CachesInv' /\ ReceiptsInv'
    <2>1. CachesInv'
      BY <1>1 DEF IInv, CachesInv, CachesOf, Live, Key, Update, engineVars
    <2>2. ReceiptsInv'
      BY <1>1 DEF IInv, ReceiptsInv, engineVars
    <2> QED
      BY <2>1, <2>2
  <1>4. JobInv' /\ MirrorInv' /\ (Recorded' => durable' # Refused)
    BY <1>1 DEF IInv, JobInv, MirrorInv, Recorded, engineVars
  <1>5. FreshInv'
    BY <1>1 DEF IInv, FreshInv, Recorded, Live, engineVars
  <1>6. PreparedInv' /\ LearnedAtMostOnce'
    BY <1>1 DEF IInv, PreparedInv, LearnedAtMostOnce, Taught, engineVars
  <1> QED
    BY <1>2, <1>3, <1>4, <1>5, <1>6 DEF IInv

\* The engine takes in what the table has, and every suggestion built before goes.
LEMMA InstallLearnedStep ==
  ASSUME IInv, InstallLearned
  PROVE  IInv'
  <1> DEFINE js == job.session
  <1>1. job # None /\ job.recorded /\ Recorded /\ job' = None
    BY DEF InstallLearned, Recorded
  <1>2. /\ js \in Session /\ memoryEnabled = TRUE
        /\ pendingLearning[js] # None /\ pendingLearning[js].prepared = job.entry
        /\ pendingLearning[js].epoch = job.epoch
    BY <1>1, JobFacts
  <1>3. durable = Install(memory, job.entry) /\ durable # Refused
    BY <1>1, <1>2 DEF IInv, MirrorInv
  <1>4. Installable
    BY <1>2, <1>3 DEF Installable
  <1>5. /\ memory' = durable /\ memoryVersion' = memoryVersion + 1 /\ refreshCache' = NoSession
        /\ pendingLearning' = [pendingLearning EXCEPT ![js] = None]
        /\ UNCHANGED <<durable, memoryEnabled, sessions, begun, cache, time, grants,
                       receipts, failures>>
    BY <1>3, <1>4 DEF InstallLearned
  <1> HIDE DEF js
  <1>6. /\ pendingLearning'[js] = None
        /\ \A t \in Session : t # js => pendingLearning'[t] = pendingLearning[t]
        /\ \A t \in Session : refreshCache'[t] = None
    BY <1>2, <1>5 DEF IInv, TypeOK, NoSession
  <1>7. TypeOK'
    <2>1. refreshCache' \in [Session -> Suggestions \cup {None}]
      BY <1>5 DEF NoSession
    <2>2. memoryVersion' \in Nat
      BY <1>5 DEF IInv, TypeOK
    <2> QED
      BY <1>1, <1>5, <2>1, <2>2 DEF IInv, TypeOK
  <1>8. SessionsInv' /\ CachesInv' /\ ReceiptsInv'
    <2>1. SessionsInv'
      BY <1>5, <1>6 DEF IInv, SessionsInv, Live
    <2>2. CachesInv'
      BY <1>5, <1>6 DEF IInv, CachesInv, CachesOf, Live
    <2>3. ReceiptsInv'
      BY <1>5, <1>6 DEF IInv, ReceiptsInv
    <2> QED
      BY <2>1, <2>2, <2>3
  <1>9. JobInv' /\ MirrorInv' /\ (Recorded' => durable' # Refused)
    BY <1>1, <1>5 DEF JobInv, MirrorInv, Recorded
  <1>10. FreshInv'
    <2>1. \A t \in Session : pendingLearning'[t] # None => t # js /\ pendingLearning'[t] = pendingLearning[t]
      BY <1>6
    <2>2. js = job.session
      BY DEF js
    <2> QED
      BY <1>5, <2>1, <2>2 DEF IInv, FreshInv, Live
  <1>11. PreparedInv' /\ LearnedAtMostOnce'
    <2>1. \A t \in Session : pendingLearning'[t] # None => pendingLearning'[t] = pendingLearning[t]
      BY <1>6
    <2>2. receipts' = receipts /\ durable' = durable
      BY <1>5
    <2>3. PreparedInv'
      BY <2>1, <2>2 DEF IInv, PreparedInv, Taught
    <2>4. LearnedAtMostOnce'
      BY <2>2 DEF IInv, LearnedAtMostOnce
    <2> QED
      BY <2>3, <2>4
  <1> QED
    BY <1>7, <1>8, <1>9, <1>10, <1>11 DEF IInv

-----------------------------------------------------------------------------
(* The process, and the whole.                                               *)

\* A process that starts or ends knows no session and has nothing under way.
LEMMA FreshStep ==
  ASSUME IInv, Fresh, job' = None,
         UNCHANGED <<durable, time, grants, receipts>>,
         memory' \in SUBSET Entry, IsFiniteSet(memory'), Cardinality(memory') <= Capacity,
         memoryVersion' \in Nat, memoryEnabled' \in BOOLEAN \cup {None},
         memoryEnabled' = TRUE => memory' = durable
  PROVE  IInv'
  <1>1. /\ begun' = begun
        /\ sessions' = NoSession /\ cache' = NoSession /\ refreshCache' = NoSession
        /\ pendingLearning' = NoSession
        /\ \A s \in Session : /\ sessions'[s] = None /\ cache'[s] = None
                              /\ refreshCache'[s] = None /\ pendingLearning'[s] = None
    BY DEF Fresh, NoSession
  <1>2. TypeOK'
    <2>1. /\ sessions' \in [Session -> SessionState \cup {None}]
          /\ cache' \in [Session -> Text]
          /\ refreshCache' \in [Session -> Suggestions \cup {None}]
          /\ pendingLearning' \in [Session -> Receipt \cup {None}]
      BY <1>1 DEF NoSession, Text
    <2> QED
      BY <1>1, <2>1 DEF IInv, TypeOK
  <1>3. SessionsInv' /\ CachesInv' /\ ReceiptsInv'
    BY <1>1 DEF SessionsInv, CachesInv, ReceiptsInv, Live
  <1>4. JobInv' /\ MirrorInv' /\ (Recorded' => durable' # Refused)
    BY DEF JobInv, MirrorInv, Recorded
  <1>5. FreshInv'
    <2>1. \A r \in receipts : r.session \in Session /\ r.session \in begun
      BY DEF IInv, TypeOK, FreshInv
    <2> QED
      BY <1>1, <2>1 DEF FreshInv, Live
  <1>6. PreparedInv' /\ LearnedAtMostOnce'
    BY <1>1 DEF IInv, PreparedInv, LearnedAtMostOnce
  <1> QED
    BY <1>2, <1>3, <1>4, <1>5, <1>6 DEF IInv

LEMMA StartStep ==
  ASSUME IInv, Start
  PROVE  IInv'
  <1>1. memoryEnabled' \in BOOLEAN
    BY DEF Start
  <1>2. memoryVersion' \in Nat
    BY DEF Start, IInv, TypeOK
  <1>3. job = None
    BY NoneIsNoValue DEF Start, IInv, JobInv
  <1>4. memory' = IF memoryEnabled' THEN durable ELSE {}
    BY DEF Start
  <1>5. /\ memory' \in SUBSET Entry /\ IsFiniteSet(memory') /\ Cardinality(memory') <= Capacity
        /\ (memoryEnabled' = TRUE => memory' = durable)
    <2>1. CASE memoryEnabled' = TRUE
      BY <1>4, <2>1 DEF IInv, TypeOK
    <2>2. CASE memoryEnabled' = FALSE
      BY <1>4, <2>2, FS_EmptySet, LearningAssumption
    <2> QED
      BY <1>1, <2>1, <2>2
  <1> QED
    BY <1>1, <1>2, <1>3, <1>5, FreshStep DEF Start

LEMMA StopStep ==
  ASSUME IInv, Stop
  PROVE  IInv'
  <1>1. None # TRUE
    BY NoneIsNoValue
  <1>2. /\ memory' \in SUBSET Entry /\ IsFiniteSet(memory') /\ Cardinality(memory') <= Capacity
    BY FS_EmptySet, LearningAssumption DEF Stop
  <1> QED
    BY <1>1, <1>2, FreshStep DEF Stop

LEMMA InitIInv == Init => IInv
  <1> SUFFICES ASSUME Init PROVE IInv
    OBVIOUS
  <1>1. /\ durable \in SUBSET Entry /\ IsFiniteSet(durable) /\ Cardinality(durable) <= Capacity
        /\ \A e \in durable : e.frequency = 0
    <2>1. CASE durable = {}
      BY <2>1, FS_EmptySet, LearningAssumption
    <2>2. ASSUME NEW pins \in SUBSET Imported,
                 durable = {[id |-> c, frequency |-> 0, lastUsed |-> 0, pinned |-> c \in pins]
                            : c \in Imported}
          PROVE  /\ durable \in SUBSET Entry /\ IsFiniteSet(durable)
                 /\ Cardinality(durable) <= Capacity
                 /\ \A e \in durable : e.frequency = 0
      <3> DEFINE row == [c \in Imported |->
                           [id |-> c, frequency |-> 0, lastUsed |-> 0, pinned |-> c \in pins]]
      <3>1. row \in Surjection(Imported, durable)
        BY <2>2 DEF Surjection
      <3>2. IsFiniteSet(durable) /\ Cardinality(durable) <= Cardinality(Imported)
        BY <3>1, LearningAssumption, FS_Surjection
      <3>3. Cardinality(durable) \in Nat /\ Cardinality(Imported) \in Nat
        BY <3>2, LearningAssumption, FS_CardinalityType
      <3>4. durable \in SUBSET Entry /\ \A e \in durable : e.frequency = 0
        <4>1. ASSUME NEW c \in Imported
              PROVE  row[c] \in Entry /\ row[c].frequency = 0
          <5>1. (c \in pins) \in BOOLEAN /\ c \in Correction
            BY LearningAssumption
          <5>2. row[c] = [id |-> c, frequency |-> 0, lastUsed |-> 0, pinned |-> c \in pins]
            OBVIOUS
          <5> QED
            BY <5>1, <5>2, Zenon DEF Entry
        <4>2. \A e \in durable : \E c \in Imported : e = row[c]
          BY <2>2
        <4> HIDE DEF row
        <4> QED
          BY <4>1, <4>2
      <3> QED
        BY <3>2, <3>3, <3>4, LearningAssumption
    <2> QED
      BY <2>1, <2>2 DEF Init
  <1>2. /\ memory = {} /\ IsFiniteSet(memory) /\ Cardinality(memory) <= Capacity
        /\ receipts = {} /\ IsFiniteSet(receipts) /\ Cardinality({}) = 0
    BY FS_EmptySet, LearningAssumption DEF Init
  <1>3. /\ sessions = NoSession /\ job = None /\ memoryEnabled = None /\ None # TRUE
        /\ \A s \in Session : /\ sessions[s] = None /\ cache[s] = None
                              /\ refreshCache[s] = None /\ pendingLearning[s] = None
    BY NoneIsNoValue DEF Init, NoSession
  <1>4. TypeOK
    <2>1. /\ sessions \in [Session -> SessionState \cup {None}]
          /\ cache \in [Session -> Text]
          /\ refreshCache \in [Session -> Suggestions \cup {None}]
          /\ pendingLearning \in [Session -> Receipt \cup {None}]
      BY DEF Init, NoSession, Text
    <2> QED
      BY <1>1, <1>2, <1>3, <2>1 DEF Init, TypeOK
  <1>5. SessionsInv /\ CachesInv /\ ReceiptsInv /\ JobInv /\ MirrorInv /\ PreparedInv
    BY <1>3 DEF SessionsInv, CachesInv, ReceiptsInv, JobInv, MirrorInv, PreparedInv, Live
  <1>6. ~Recorded /\ FreshInv
    BY <1>2, <1>3 DEF Recorded, FreshInv
  <1>7. LearnedAtMostOnce
    <2> SUFFICES ASSUME NEW e \in durable
                 PROVE  e.frequency <= Cardinality({r \in receipts : r.id = e.id})
      BY DEF LearnedAtMostOnce
    <2>1. {r \in receipts : r.id = e.id} = {}
      BY <1>2
    <2> QED
      BY <1>1, <1>2, <2>1
  <1> QED
    BY <1>4, <1>5, <1>6, <1>7 DEF IInv

LEMMA NextIInv ==
  ASSUME IInv, [Next]_vars
  PROVE  IInv'
  <1>1. CASE UNCHANGED vars
    <2> USE <1>1 DEF vars, engineVars
    <2>1. TypeOK' /\ SessionsInv' /\ ReceiptsInv' /\ JobInv'
      BY DEF IInv, TypeOK, SessionsInv, ReceiptsInv, JobInv, Live
    <2>2. CachesInv'
      BY DEF IInv, CachesInv, CachesOf, Live, Key, Update
    <2>3. MirrorInv' /\ FreshInv' /\ (Recorded' => durable' # Refused)
      BY DEF IInv, MirrorInv, FreshInv, Recorded, Live
    <2>4. PreparedInv' /\ LearnedAtMostOnce'
      BY DEF IInv, PreparedInv, LearnedAtMostOnce, Taught
    <2> QED
      BY <2>1, <2>2, <2>3, <2>4 DEF IInv
  <1>2. ASSUME NEW s \in Session,
               \/ BeginSession(s) \/ UpdateComposition(s) \/ FailOpen(s)
               \/ CommitCandidate(s) \/ CommitRaw(s) \/ CancelComposition(s)
               \/ SetLayout(s) \/ SetContext(s) \/ EndSession(s)
        PROVE  IInv'
    BY <1>2, BeginSessionStep, UpdateCompositionStep, FailOpenStep, CommitCandidateStep,
       CommitRawStep, CancelCompositionStep, SetLayoutStep, SetContextStep, EndSessionStep
  <1>3. ASSUME NEW s \in Session, NEW epoch \in 1..MaxCommits, Prepare(s, epoch)
        PROVE  IInv'
    BY <1>3, PrepareStep
  <1> QED
    BY <1>1, <1>2, <1>3, StartStep, StopStep, RecordStep, RecordFailsStep, InstallLearnedStep
    DEF Next

\* What is in the caches, the receipts, the memory and the table belongs together at
\* every step of every operation, whatever failed and whenever the process ended.
THEOREM LearningInvariant == Spec => []IInv
  <1>1. Init => IInv
    BY InitIInv
  <1>2. IInv /\ [Next]_vars => IInv'
    BY NextIInv
  <1> QED
    BY <1>1, <1>2, PTL DEF Spec

\* Every variable keeps its type; the memory and the table stay within Capacity.
THEOREM LearningTypeCorrect == Spec => []TypeOK
  <1>1. IInv => TypeOK
    BY DEF IInv
  <1> QED
    BY <1>1, LearningInvariant, PTL

\* Between two requests the engine suggests from exactly the durable rows: its
\* eviction and the table's prune pick the same entry of any memory.
THEOREM MemoryMirrorsTable == Spec => []LiveMirrorsDurable
  <1>1. IInv => LiveMirrorsDurable
    <2> SUFFICES ASSUME IInv, Idle, memoryEnabled
                 PROVE  memory = durable
      BY DEF LiveMirrorsDurable
    <2>1. memoryEnabled = TRUE
      BY Zenon DEF Idle, IInv, TypeOK
    <2>2. job = None
      BY DEF Idle
    <2> QED
      BY <2>1, <2>2 DEF IInv, MirrorInv
  <1> QED
    BY <1>1, LearningInvariant, PTL

\* A selection is counted once, across retries of its write and across processes.
THEOREM SelectionsCountedOnce == Spec => []LearnedAtMostOnce
  <1>1. IInv => LearnedAtMostOnce
    BY DEF IInv
  <1> QED
    BY <1>1, LearningInvariant, PTL

\* A cache hit answers what the engine would compute, and what a commit can insert
\* is a candidate of the text and the field as they are.
THEOREM SuggestionsCurrent == Spec => []CandidatesCurrent
  <1>1. IInv => CandidatesCurrent
    BY DEF IInv, CachesInv, CachesOf, CandidatesCurrent, Offered
  <1> QED
    BY <1>1, LearningInvariant, PTL

\* Only record changes the table, and only for a receipt that its session still has.
LEMMA AllowedStep ==
  ASSUME IInv, [Next]_vars, durable' # durable
  PROVE  /\ LearningAllowed(sessions[job.session].context)
         /\ sessions[job.session].epoch = job.epoch
         /\ \E k \in grants :
              k.session = job.session /\ k.epoch = job.epoch /\ k.chosen = job.entry.id
  <1>1. Record
    BY DEF Next, vars, Start, Stop, RecordFails, InstallLearned, BeginSession,
       UpdateComposition, FailOpen, CommitCandidate, CommitRaw, CancelComposition, SetLayout,
       SetContext, EndSession, Prepare, Outer
  <1>2. job # None
    BY <1>1 DEF Record
  <1> QED
    BY <1>2, JobFacts

\* What becomes durable was selected in a field that allowed learning then and has
\* ever since, with nothing committed after it.
THEOREM LearningWasAllowed == Spec => LearnsOnlyWhatWasAllowed
  <1> DEFINE Allowed ==
        durable' # durable =>
          /\ LearningAllowed(sessions[job.session].context)
          /\ sessions[job.session].epoch = job.epoch
          /\ \E k \in grants :
               /\ k.session = job.session /\ k.epoch = job.epoch
               /\ k.chosen = job.entry.id
  <1>1. IInv /\ [Next]_vars => [Allowed]_vars
    BY AllowedStep
  <1> QED
    BY <1>1, LearningInvariant, PTL DEF Spec, LearnsOnlyWhatWasAllowed

=============================================================================
