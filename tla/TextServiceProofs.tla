-------------------------- MODULE TextServiceProofs --------------------------
(* Proofs about TextService.  A handler is a composition of calls on a world  *)
(* (the record World), so the invariant is stated of a world: each call has a *)
(* lemma that says what it keeps, and each action composes them.              *)
EXTENDS TextService, FiniteSetTheorems, SequenceTheorems, WellFoundedInduction, TLAPS

WorldSet ==
  [service : Service, objects : [1 .. MaxObjects -> CompositionState], edits : Seq(EditSession),
   posted : Seq(EditOutcome), document : [Contexts -> Seq(Run)],
   owed : SUBSET (1 .. MaxKeys)]

(* An object counts the edits that wait with it.                              *)
With(q, s) == {i \in DOMAIN q : q[i].state = s}

PendingOK(w) ==
  \A s \in 1 .. MaxObjects : w.objects[s].pending = Cardinality(With(w.edits, s))

(* What is about the service's state is about its context as well.            *)
Tied(w, e) ==
  e.state = w.service.state =>
    e.generation = w.service.generation /\ e.context = w.service.context

TiedOK(w) ==
  /\ \A i \in DOMAIN w.edits : Tied(w, w.edits[i])
  /\ \A i \in DOMAIN w.posted : w.posted[i].state = w.posted[i].edit.state /\ Tied(w, w.posted[i].edit)

(* StaleEditsCancelled of a world: a waiting edit was cancelled, or is about  *)
(* the service's state; one that finishes a composition was always cancelled. *)
StaleOK(w) ==
  \A i \in DOMAIN w.edits :
    /\ w.edits[i].kind \in {"Decision", "FailOpen"} =>
         w.objects[w.edits[i].state].cancelled \/ w.edits[i].state = w.service.state
    /\ w.edits[i].kind = "Finish" => w.objects[w.edits[i].state].cancelled

(* The caret does not come back from a field that is not safe while edits     *)
(* wait or completions are on their way.                                      *)
Calm == "flicker" \notin Misfits

Finishing(w, s) == \E i \in DOMAIN w.edits : w.edits[i].state = s /\ w.edits[i].kind = "Finish"

Composed(w, s) == w.objects[s].cancelled /\ w.objects[s].tracks = "composition"

StrandedOK(w) ==
  /\ \A s \in 1 .. MaxObjects : s # w.service.state /\ Composed(w, s) => Finishing(w, s)
  /\ w.service.context = None => w.objects[w.service.state].tracks = "nothing"

(* No edit that ran with the service's state once it was cancelled, or found  *)
(* the field not safe, wrote anything.                                       *)
CancelledOK(w) ==
  w.objects[w.service.state].cancelled =>
    \A i \in DOMAIN w.posted : w.posted[i].state = w.service.state => ~w.posted[i].consumed

BlockedOK(ps) ==
  \A i \in DOMAIN ps : ps[i].blocked =>
    /\ field[ps[i].edit.context] # "Safe"
    /\ \A j \in DOMAIN ps : i < j /\ ps[j].state = ps[i].state => ~ps[j].consumed

Sound(w) ==
  /\ w \in WorldSet
  /\ PendingOK(w) /\ TiedOK(w) /\ StaleOK(w)
  /\ Calm => StrandedOK(w)

Good(w) == Sound(w) /\ (Calm => CancelledOK(w))

IInv ==
  /\ TypeOK
  /\ Good(World)
  /\ Calm => BlockedOK(posted)

------------------------------------------------------------------------------
(* Worlds and what an edit does to them.                                     *)

(* The world after an edit with object s in document c: the service, what     *)
(* waits and the other objects are as before, and so is what is counted.      *)
Written(v, w, c, s) ==
  /\ v \in WorldSet
  /\ v.service = w.service /\ v.edits = w.edits /\ v.posted = w.posted /\ v.owed = w.owed
  /\ \A t \in 1 .. MaxObjects : t # s => v.objects[t] = w.objects[t]
  /\ v.objects[s].pending = w.objects[s].pending
  /\ v.objects[s].cancelled = w.objects[s].cancelled
  /\ \A d \in Contexts : d # c => Len(v.document[d]) = Len(w.document[d])

(* Nothing was added to any document.                                        *)
Steady(v, w) == \A d \in Contexts : Len(v.document[d]) = Len(w.document[d])

Results == [w : WorldSet, ok : BOOLEAN, mutated : BOOLEAN]

LEMMA SameLength ==
  ASSUME NEW q \in Seq(Run), NEW f \in [DOMAIN q -> Run]
  PROVE  f \in Seq(Run) /\ Len(f) = Len(q)
<1>1. DOMAIN q = 1 .. Len(q) /\ Len(q) \in Nat
  OBVIOUS
<1>2. f \in [1 .. Len(q) -> Run]
  BY <1>1
<1>3. f \in Seq(Run)
  BY <1>1, <1>2, SeqDef
<1>4. Len(f) = Len(q)
  BY <1>1, <1>2, <1>3, LenProperties
<1> QED BY <1>3, <1>4

LEMMA ReleasedKeeps ==
  ASSUME NEW w \in WorldSet, NEW S
  PROVE  /\ Released(w, S) \in WorldSet
         /\ Steady(Released(w, S), w)
         /\ Released(w, S) = [w EXCEPT !.document = Released(w, S).document]
         /\ \A c \in Contexts : \A i \in DOMAIN w.document[c] :
              w.document[c][i].by \notin S => Released(w, S).document[c][i] = w.document[c][i]
<1> DEFINE D == [c \in Contexts |-> [i \in DOMAIN w.document[c] |->
                   IF w.document[c][i].by \in S THEN [w.document[c][i] EXCEPT !.by = 0] ELSE w.document[c][i]]]
<1>1. Released(w, S) = [w EXCEPT !.document = D]
  BY DEF Released, WorldSet
<1>2. ASSUME NEW c \in Contexts
      PROVE  D[c] \in Seq(Run) /\ Len(D[c]) = Len(w.document[c])
  <2>1. w.document[c] \in Seq(Run)
    BY DEF WorldSet
  <2>2. \A i \in DOMAIN w.document[c] : w.document[c][i] \in Run
    BY <2>1
  <2>3. ASSUME NEW r \in Run
        PROVE  [r EXCEPT !.by = 0] \in Run
    BY TextServiceAssumption DEF Run, Host
  <2>4. D[c] \in [DOMAIN w.document[c] -> Run]
    BY <2>2, <2>3
  <2> QED BY <2>1, <2>4, SameLength
<1>3. [w EXCEPT !.document = D] \in WorldSet
  BY <1>2 DEF WorldSet
<1>4. [w EXCEPT !.document = D].document = D
  BY DEF WorldSet
<1> QED BY <1>1, <1>2, <1>3, <1>4 DEF Steady

LEMMA UntrackedKeeps ==
  ASSUME NEW w \in WorldSet, NEW s \in 1 .. MaxObjects, NEW c
  PROVE  /\ Written(Untracked(w, s), w, c, s)
         /\ Steady(Untracked(w, s), w)
         /\ Untracked(w, s).objects[s] = [w.objects[s] EXCEPT !.tracks = "nothing"]
         /\ Untracked(w, s).objects[s].tracks = "nothing"
<1> DEFINE r == Released(w, {s})
<1>1. /\ r \in WorldSet /\ Steady(r, w)
      /\ r.service = w.service /\ r.edits = w.edits /\ r.posted = w.posted /\ r.owed = w.owed
      /\ r.objects = w.objects
  <2> HIDE DEF r
  <2>1. r \in WorldSet /\ Steady(r, w) /\ r = [w EXCEPT !.document = r.document]
    BY ReleasedKeeps DEF r
  <2> QED BY <2>1 DEF WorldSet
<1> DEFINE v == [r EXCEPT !.objects[s].tracks = "nothing"]
<1> HIDE DEF r
<1>2. w.objects[s] \in CompositionState
  BY DEF WorldSet
<1>3. [w.objects[s] EXCEPT !.tracks = "nothing"] \in CompositionState
  BY <1>2 DEF CompositionState
<1>4. v.objects = [w.objects EXCEPT ![s] = [w.objects[s] EXCEPT !.tracks = "nothing"]]
  BY <1>1 DEF WorldSet
<1>5. /\ v.service = w.service /\ v.edits = w.edits /\ v.posted = w.posted /\ v.owed = w.owed
      /\ v.document = r.document
  BY <1>1
<1>6. v.objects \in [1 .. MaxObjects -> CompositionState]
  <2>1. w.objects \in [1 .. MaxObjects -> CompositionState]
    BY DEF WorldSet
  <2> HIDE DEF v
  <2> QED BY <1>3, <1>4, <2>1
<1>7. v \in WorldSet
  BY <1>1, <1>6 DEF WorldSet
<1>8. /\ v.objects[s] = [w.objects[s] EXCEPT !.tracks = "nothing"]
      /\ \A t \in 1 .. MaxObjects : t # s => v.objects[t] = w.objects[t]
  BY <1>4 DEF WorldSet
<1>9. /\ v.objects[s].tracks = "nothing" /\ v.objects[s].pending = w.objects[s].pending
      /\ v.objects[s].cancelled = w.objects[s].cancelled
  BY <1>8, <1>2 DEF CompositionState
<1>10. v = Untracked(w, s)
  BY DEF r, Untracked
<1> HIDE DEF v
<1> QED BY <1>1, <1>5, <1>7, <1>8, <1>9, <1>10 DEF Written, Steady

LEMMA RewrittenKeeps ==
  ASSUME NEW w \in WorldSet, NEW s \in 1 .. MaxObjects, NEW c \in Contexts, NEW text \in Literal
  PROVE  /\ Written(Rewritten(w, c, s, text), w, c, s)
         /\ Steady(Rewritten(w, c, s, text), w)
         /\ Rewritten(w, c, s, text).objects = w.objects
<1> DEFINE q == w.document[c]
           f == [i \in DOMAIN q |-> IF q[i].by = s THEN [q[i] EXCEPT !.text = text] ELSE q[i]]
<1>1. q \in Seq(Run)
  BY DEF WorldSet
<1>2. ASSUME NEW r \in Run
      PROVE  [r EXCEPT !.text = text] \in Run
  BY DEF Run
<1>3. f \in [DOMAIN q -> Run]
  BY <1>1, <1>2
<1>4. f \in Seq(Run) /\ Len(f) = Len(q)
  BY <1>1, <1>3, SameLength
<1>5. Rewritten(w, c, s, text) = [w EXCEPT !.document[c] = f]
  BY DEF Rewritten, WorldSet
<1> DEFINE v == [w EXCEPT !.document[c] = f]
<1> HIDE DEF f
<1>6. v.document = [w.document EXCEPT ![c] = f]
  BY DEF WorldSet
<1>7. v \in WorldSet
  BY <1>4 DEF WorldSet
<1>8. /\ v.service = w.service /\ v.edits = w.edits /\ v.posted = w.posted /\ v.owed = w.owed
      /\ v.objects = w.objects
  OBVIOUS
<1>9. Steady(v, w)
  BY <1>4, <1>6 DEF Steady, WorldSet
<1> QED BY <1>5, <1>7, <1>8, <1>9 DEF Written, Steady

LEMMA WrittenTwice ==
  ASSUME NEW u, NEW v, NEW w, NEW c, NEW s, Written(u, v, c, s), Written(v, w, c, s)
  PROVE  Written(u, w, c, s) /\ (Steady(u, v) /\ Steady(v, w) => Steady(u, w))
BY DEF Written, Steady

LEMMA WrittenNothing ==
  ASSUME NEW w \in WorldSet, NEW c, NEW s
  PROVE  Written(w, w, c, s) /\ Steady(w, w)
BY DEF Written, Steady

(* An operation on a document, as Written says, with its verdict.             *)
Does(r, w, c, s) == r \in Results /\ Written(r.w, w, c, s)

LEMMA DoesResult ==
  ASSUME NEW v, NEW w, NEW c, NEW s, NEW ok \in BOOLEAN, NEW m \in BOOLEAN, Written(v, w, c, s)
  PROVE  /\ Does(Result(v, ok, m), w, c, s)
         /\ Result(v, ok, m).w = v /\ Result(v, ok, m).ok = ok
BY DEF Does, Result, Results, Written

LEMMA EndCompositionKeeps ==
  ASSUME NEW w \in WorldSet, NEW s \in 1 .. MaxObjects, NEW c, NEW F
  PROVE  LET r == EndComposition(w, s, F)
         IN Does(r, w, c, s) /\ Steady(r.w, w) /\ (r.ok => r.w.objects[s].tracks # "composition")
<1> DEFINE v == Untracked(w, s)
<1>1. Written(v, w, c, s) /\ Steady(v, w) /\ v.objects[s].tracks = "nothing"
  BY UntrackedKeeps
<1>2. Written(w, w, c, s) /\ Steady(w, w)
  BY WrittenNothing
<1>3. v \in WorldSet
  BY <1>1 DEF Written
<1> HIDE DEF v
<1>4. \/ EndComposition(w, s, F) = Result(w, TRUE, FALSE) /\ w.objects[s].tracks # "composition"
      \/ EndComposition(w, s, F) = Result(w, FALSE, FALSE)
      \/ EndComposition(w, s, F) = Result(v, TRUE, FALSE)
  BY DEF EndComposition, v
<1>5. CASE EndComposition(w, s, F) = Result(w, TRUE, FALSE) /\ w.objects[s].tracks # "composition"
  BY <1>2, <1>5 DEF Does, Result, Results
<1>6. CASE EndComposition(w, s, F) = Result(w, FALSE, FALSE)
  BY <1>2, <1>6 DEF Does, Result, Results
<1>7. CASE EndComposition(w, s, F) = Result(v, TRUE, FALSE)
  <2>1. Does(Result(v, TRUE, FALSE), w, c, s) /\ Result(v, TRUE, FALSE).w = v
    BY <1>1, DoesResult
  <2> QED BY <1>1, <1>7, <2>1
<1> QED BY <1>4, <1>5, <1>6, <1>7

LEMMA UpdateCompositionKeeps ==
  ASSUME NEW w \in WorldSet, NEW s \in 1 .. MaxObjects, NEW c \in Contexts, NEW text \in Literal,
         NEW finish \in BOOLEAN, NEW F
  PROVE  LET r == UpdateComposition(w, c, s, text, finish, F)
         IN Does(r, w, c, s) /\ Steady(r.w, w) /\ (finish /\ r.ok => r.w.objects[s].tracks # "composition")
<1> DEFINE v == Rewritten(w, c, s, text)
           ended == EndComposition(v, s, F)
<1>1. Written(v, w, c, s) /\ Steady(v, w)
  BY RewrittenKeeps
<1>2. v \in WorldSet
  BY <1>1 DEF Written
<1>3. Does(ended, v, c, s) /\ Steady(ended.w, v) /\ (ended.ok => ended.w.objects[s].tracks # "composition")
  BY <1>2, EndCompositionKeeps
<1>4. Written(ended.w, w, c, s) /\ Steady(ended.w, w) /\ ended.w \in WorldSet /\ ended.ok \in BOOLEAN
  BY <1>1, <1>3, WrittenTwice DEF Does, Results
<1>5. Written(w, w, c, s) /\ Steady(w, w)
  BY WrittenNothing
<1> DEFINE kept == "select" \notin F
<1>6. kept \in BOOLEAN
  OBVIOUS
<1>7. \/ UpdateComposition(w, c, s, text, finish, F) = Result(w, FALSE, FALSE)
      \/ UpdateComposition(w, c, s, text, finish, F) = Result(ended.w, ended.ok /\ kept, TRUE)
      \/ ~finish /\ UpdateComposition(w, c, s, text, finish, F) = Result(v, TRUE /\ kept, TRUE)
  BY DEF UpdateComposition, Result
<1> HIDE DEF v, ended, kept
<1>8. CASE UpdateComposition(w, c, s, text, finish, F) = Result(w, FALSE, FALSE)
  BY <1>8, <1>5 DEF Does, Result, Results
<1>9. CASE UpdateComposition(w, c, s, text, finish, F) = Result(ended.w, ended.ok /\ kept, TRUE)
  <2>1. (ended.ok /\ kept) \in BOOLEAN
    BY <1>4, <1>6
  <2> QED BY <1>3, <1>4, <1>6, <1>9, <2>1 DEF Does, Result, Results
<1>10. CASE ~finish /\ UpdateComposition(w, c, s, text, finish, F) = Result(v, TRUE /\ kept, TRUE)
  BY <1>1, <1>2, <1>6, <1>10 DEF Does, Result, Results
<1> QED BY <1>7, <1>8, <1>9, <1>10

LEMMA AppendedKeeps ==
  ASSUME NEW w \in WorldSet, NEW c \in Contexts, NEW r \in Run
  PROVE  LET v == [w EXCEPT !.document[c] = Append(@, r)]
         IN /\ v \in WorldSet
            /\ v.service = w.service /\ v.edits = w.edits /\ v.posted = w.posted /\ v.owed = w.owed
            /\ v.objects = w.objects
            /\ v.document = [w.document EXCEPT ![c] = Append(w.document[c], r)]
<1>1. Append(w.document[c], r) \in Seq(Run)
  BY DEF WorldSet
<1> QED BY <1>1 DEF WorldSet

LEMMA InsertPlainTextKeeps ==
  ASSUME NEW w \in WorldSet, NEW s \in 1 .. MaxObjects, NEW c \in Contexts, NEW text \in Literal,
         NEW retain \in BOOLEAN, NEW F
  PROVE  Does(InsertPlainText(w, c, s, text, retain, F), w, c, s)
<1> DEFINE r0 == [by |-> 0, text |-> text]
           rs == [by |-> s, text |-> text]
           inserted == [w EXCEPT !.document[c] = Append(@, r0)]
           u == Untracked(w, s)
           u1 == [u EXCEPT !.document[c] = Append(@, rs)]
           ranged == [u1 EXCEPT !.objects[s].tracks = "range"]
<1>1. r0 \in Run /\ rs \in Run
  BY TextServiceAssumption DEF Run, Host
<1>2. Written(inserted, w, c, s)
  <2>1. /\ inserted \in WorldSet
        /\ inserted.service = w.service /\ inserted.edits = w.edits /\ inserted.posted = w.posted
        /\ inserted.owed = w.owed /\ inserted.objects = w.objects
        /\ inserted.document = [w.document EXCEPT ![c] = Append(w.document[c], r0)]
    BY <1>1, AppendedKeeps
  <2> HIDE DEF inserted
  <2> QED BY <2>1 DEF Written, WorldSet
<1>3. Written(u, w, c, s)
  BY UntrackedKeeps
<1>4. u \in WorldSet
  BY <1>3 DEF Written
<1>5. /\ u1 \in WorldSet
      /\ u1.service = u.service /\ u1.edits = u.edits /\ u1.posted = u.posted /\ u1.owed = u.owed
      /\ u1.objects = u.objects
      /\ u1.document = [u.document EXCEPT ![c] = Append(u.document[c], rs)]
  <2> HIDE DEF u, rs
  <2> QED BY <1>1, <1>4, AppendedKeeps
<1>6. Written(ranged, u, c, s)
  <2> HIDE DEF u, u1, rs
  <2>1. u1.objects[s] \in CompositionState
    BY <1>5 DEF WorldSet
  <2>2. [u1.objects[s] EXCEPT !.tracks = "range"] \in CompositionState
    BY <2>1 DEF CompositionState
  <2>3. ranged.objects = [u1.objects EXCEPT ![s] = [u1.objects[s] EXCEPT !.tracks = "range"]]
    BY <1>5 DEF WorldSet
  <2>4. ranged \in WorldSet
    BY <1>5, <2>2, <2>3 DEF WorldSet
  <2>5. /\ ranged.service = u.service /\ ranged.edits = u.edits /\ ranged.posted = u.posted
        /\ ranged.owed = u.owed /\ ranged.document = u1.document
    BY <1>5
  <2> HIDE DEF ranged
  <2>6. \A t \in 1 .. MaxObjects : t # s => ranged.objects[t] = u.objects[t]
    BY <1>5, <2>3 DEF WorldSet
  <2>7. ranged.objects[s].pending = u.objects[s].pending /\ ranged.objects[s].cancelled = u.objects[s].cancelled
    BY <1>5, <2>1, <2>3 DEF WorldSet, CompositionState
  <2>8. \A d \in Contexts : d # c => Len(ranged.document[d]) = Len(u.document[d])
    BY <1>4, <1>5, <2>5 DEF WorldSet
  <2> QED BY <2>4, <2>5, <2>6, <2>7, <2>8 DEF Written
<1>7. Written(ranged, w, c, s)
  BY <1>3, <1>6, WrittenTwice
<1>8. Written(w, w, c, s)
  BY WrittenNothing
<1>9. \/ InsertPlainText(w, c, s, text, retain, F) = Result(w, FALSE, FALSE)
      \/ InsertPlainText(w, c, s, text, retain, F) = Result(inserted, FALSE, TRUE)
      \/ InsertPlainText(w, c, s, text, retain, F) = Result(inserted, TRUE, TRUE)
      \/ InsertPlainText(w, c, s, text, retain, F) = Result(ranged, TRUE, TRUE)
  BY <1>4 DEF InsertPlainText, WorldSet
<1> HIDE DEF inserted, ranged
<1>10. /\ Does(Result(w, FALSE, FALSE), w, c, s)
       /\ Does(Result(inserted, FALSE, TRUE), w, c, s) /\ Does(Result(inserted, TRUE, TRUE), w, c, s)
       /\ Does(Result(ranged, TRUE, TRUE), w, c, s)
  BY <1>2, <1>7, <1>8, DoesResult
<1> QED BY <1>9, <1>10

LEMMA StartCompositionKeeps ==
  ASSUME NEW w \in WorldSet, NEW s \in 1 .. MaxObjects, NEW c \in Contexts, NEW text \in Literal, NEW F
  PROVE  Does(StartComposition(w, c, s, text, F), w, c, s)
<1> DEFINE r0 == [by |-> s, text |-> <<>>]
           u == Untracked(w, s)
           begun == [u EXCEPT !.objects[s].tracks = "composition", !.document[c] = Append(@, r0)]
           shown == Rewritten(begun, c, s, text)
           closed == EndComposition(begun, s, F)
           undone == EndComposition(shown, s, F)
<1>1. r0 \in Run
  BY TextServiceAssumption DEF Run, Host, Literal
<1>2. Written(u, w, c, s) /\ u \in WorldSet
  <2>1. Written(u, w, c, s)
    BY UntrackedKeeps
  <2> QED BY <2>1 DEF Written
<1>3. Written(begun, u, c, s)
  <2> HIDE DEF u, r0
  <2>1. u.objects[s] \in CompositionState /\ u.document[c] \in Seq(Run)
    BY <1>2 DEF WorldSet
  <2>2. [u.objects[s] EXCEPT !.tracks = "composition"] \in CompositionState
    BY <2>1 DEF CompositionState
  <2>3. Append(u.document[c], r0) \in Seq(Run)
    BY <1>1, <2>1
  <2>4. /\ begun.objects = [u.objects EXCEPT ![s] = [u.objects[s] EXCEPT !.tracks = "composition"]]
        /\ begun.document = [u.document EXCEPT ![c] = Append(u.document[c], r0)]
        /\ begun.service = u.service /\ begun.edits = u.edits /\ begun.posted = u.posted
        /\ begun.owed = u.owed
    BY <1>2 DEF WorldSet
  <2>5. begun \in WorldSet
    BY <1>2, <2>2, <2>3, <2>4 DEF WorldSet
  <2> HIDE DEF begun
  <2>6. \A t \in 1 .. MaxObjects : t # s => begun.objects[t] = u.objects[t]
    BY <1>2, <2>4 DEF WorldSet
  <2>7. begun.objects[s].pending = u.objects[s].pending /\ begun.objects[s].cancelled = u.objects[s].cancelled
    BY <1>2, <2>1, <2>4 DEF WorldSet, CompositionState
  <2>8. \A d \in Contexts : d # c => Len(begun.document[d]) = Len(u.document[d])
    BY <1>2, <2>4 DEF WorldSet
  <2> QED BY <2>4, <2>5, <2>6, <2>7, <2>8 DEF Written
<1>4. Written(begun, w, c, s) /\ begun \in WorldSet
  BY <1>2, <1>3, WrittenTwice DEF Written
<1>5. Written(shown, w, c, s) /\ shown \in WorldSet
  <2> HIDE DEF begun
  <2>1. Written(shown, begun, c, s)
    BY <1>4, RewrittenKeeps
  <2> QED BY <1>4, <2>1, WrittenTwice DEF Written
<1>6. Written(closed.w, w, c, s) /\ Written(undone.w, w, c, s)
  <2> HIDE DEF begun, shown
  <2>1. Does(closed, begun, c, s) /\ Does(undone, shown, c, s)
    BY <1>4, <1>5, EndCompositionKeeps
  <2> HIDE DEF closed, undone
  <2> QED BY <1>4, <1>5, <2>1, WrittenTwice DEF Does
<1>7. \/ StartComposition(w, c, s, text, F) = Result(w, FALSE, FALSE)
      \/ StartComposition(w, c, s, text, F) = Result(closed.w, FALSE, FALSE)
      \/ StartComposition(w, c, s, text, F) = Result(undone.w, FALSE, TRUE)
      \/ StartComposition(w, c, s, text, F) = Result(shown, TRUE, TRUE)
  BY DEF StartComposition
<1> HIDE DEF begun, shown, closed, undone
<1>8. /\ Does(Result(w, FALSE, FALSE), w, c, s)
      /\ Does(Result(closed.w, FALSE, FALSE), w, c, s) /\ Does(Result(undone.w, FALSE, TRUE), w, c, s)
      /\ Does(Result(shown, TRUE, TRUE), w, c, s)
  BY <1>5, <1>6, WrittenNothing, DoesResult
<1> QED BY <1>7, <1>8

(* An edit about a document of the host.                                     *)
Edits == [kind : {"Decision", "FailOpen", "Finish"}, context : Contexts, generation : Nat,
          state : 1 .. MaxObjects, action : {"Compose", "Commit", "Cancel", "PassThrough"},
          text : Literal, literal : Literal, offers : BOOLEAN]

Inspections == [kind : {"Inspect"}, context : Contexts, generation : Nat, state : {0},
                action : {"None"}, text : {<<>>}, literal : {<<>>}, offers : {FALSE}]

LEMMA EditSessions == EditSession = Inspections \cup Edits
BY DEF EditSession, Inspections, Edits

LEMMA ApplyDesiredKeeps ==
  ASSUME NEW w \in WorldSet, NEW e \in Edits, NEW F
  PROVE  Does(ApplyDesired(w, e, F), w, e.context, e.state)
<1> DEFINE c == e.context
           s == e.state
<1>1. /\ c \in Contexts /\ s \in 1 .. MaxObjects /\ e.text \in Literal /\ <<>> \in Literal
      /\ e.action \in {"Compose", "Commit", "Cancel", "PassThrough"}
  BY DEF Edits, Literal
<1>2. Does(Result(w, TRUE, FALSE), w, c, s)
  BY WrittenNothing, DoesResult
<1>3. /\ Does(UpdateComposition(w, c, s, e.text, FALSE, F), w, c, s)
      /\ Does(UpdateComposition(w, c, s, e.text, TRUE, F), w, c, s)
      /\ Does(UpdateComposition(w, c, s, <<>>, TRUE, F), w, c, s)
  BY <1>1, UpdateCompositionKeeps
<1>4. Does(StartComposition(w, c, s, e.text, F), w, c, s)
  BY <1>1, StartCompositionKeeps
<1>5. Does(InsertPlainText(w, c, s, e.text, FALSE, F), w, c, s)
  BY <1>1, InsertPlainTextKeeps
<1>6. \/ ApplyDesired(w, e, F) = Result(w, TRUE, FALSE)
      \/ ApplyDesired(w, e, F) = UpdateComposition(w, c, s, e.text, FALSE, F)
      \/ ApplyDesired(w, e, F) = UpdateComposition(w, c, s, e.text, TRUE, F)
      \/ ApplyDesired(w, e, F) = UpdateComposition(w, c, s, <<>>, TRUE, F)
      \/ ApplyDesired(w, e, F) = StartComposition(w, c, s, e.text, F)
      \/ ApplyDesired(w, e, F) = InsertPlainText(w, c, s, e.text, FALSE, F)
  BY <1>1 DEF ApplyDesired
<1> QED BY <1>2, <1>3, <1>4, <1>5, <1>6

LEMMA OrPlainTextKeeps ==
  ASSUME NEW w \in WorldSet, NEW e \in Edits, NEW start, Does(start, w, e.context, e.state),
         NEW finish \in BOOLEAN, NEW F
  PROVE  Does(OrPlainText(start, e, finish, F), w, e.context, e.state)
<1> DEFINE c == e.context
           s == e.state
           r == InsertPlainText(start.w, c, s, e.literal, ~finish, F)
           t == EndComposition(start.w, s, F)
<1>1. /\ c \in Contexts /\ s \in 1 .. MaxObjects /\ e.literal \in Literal /\ (~finish) \in BOOLEAN
      /\ start.w \in WorldSet /\ start \in Results
  BY DEF Edits, Does, Results
<1>2. Does(r, start.w, c, s) /\ Does(t, start.w, c, s)
  BY <1>1, InsertPlainTextKeeps, EndCompositionKeeps
<1>3. /\ r \in Results /\ Written(r.w, w, c, s)
      /\ t \in Results /\ Written(t.w, w, c, s)
  BY <1>2, WrittenTwice DEF Does
<1> HIDE DEF r, t
<1> DEFINE m == r.mutated \/ start.mutated
<1>4. m \in BOOLEAN
  BY <1>1, <1>3 DEF Results
<1>5. \/ OrPlainText(start, e, finish, F) = [r EXCEPT !.mutated = m]
      \/ OrPlainText(start, e, finish, F) = [t EXCEPT !.mutated = TRUE]
      \/ OrPlainText(start, e, finish, F) = start
  BY <1>3 DEF OrPlainText, r, t, Results
<1> HIDE DEF m
<1>6. Does([r EXCEPT !.mutated = m], w, c, s) /\ Does([t EXCEPT !.mutated = TRUE], w, c, s)
  BY <1>3, <1>4 DEF Does, Results
<1> QED BY <1>5, <1>6

LEMMA FailOpenMarked ==
  ASSUME NEW w \in WorldSet, NEW s \in 1 .. MaxObjects, NEW c
  PROVE  Written([w EXCEPT !.objects[s].failOpen = TRUE], w, c, s)
<1> DEFINE v == [w EXCEPT !.objects[s].failOpen = TRUE]
<1>1. w.objects[s] \in CompositionState
  BY DEF WorldSet
<1>2. [w.objects[s] EXCEPT !.failOpen = TRUE] \in CompositionState
  BY <1>1 DEF CompositionState
<1>3. /\ v.objects = [w.objects EXCEPT ![s] = [w.objects[s] EXCEPT !.failOpen = TRUE]]
      /\ v.service = w.service /\ v.edits = w.edits /\ v.posted = w.posted /\ v.owed = w.owed
      /\ v.document = w.document
  BY DEF WorldSet
<1>4. v \in WorldSet
  BY <1>2, <1>3 DEF WorldSet
<1> HIDE DEF v
<1>5. \A t \in 1 .. MaxObjects : t # s => v.objects[t] = w.objects[t]
  BY <1>3 DEF WorldSet
<1>6. v.objects[s].pending = w.objects[s].pending /\ v.objects[s].cancelled = w.objects[s].cancelled
  BY <1>1, <1>3 DEF WorldSet, CompositionState
<1> QED BY <1>3, <1>4, <1>5, <1>6 DEF Written, v

LEMMA ApplyFailOpenKeeps ==
  ASSUME NEW w0 \in WorldSet, NEW e \in Edits, NEW F, NEW rejected \in BOOLEAN
  PROVE  Does(ApplyFailOpen(w0, e, F, rejected), w0, e.context, e.state)
<1> DEFINE c == e.context
           s == e.state
           w == [w0 EXCEPT !.objects[s].failOpen = TRUE]
           finish == w.objects[s].closing \/ w.objects[s].pending <= 1
           changed == Rewritten(w, c, s, e.literal)
           ended == Untracked(changed, s)
           kept == "select" \notin F
           r == ApplyFailOpen(w0, e, F, rejected)
           start == StartComposition(w, c, s, e.literal, F)
<1>1. /\ c \in Contexts /\ s \in 1 .. MaxObjects /\ e.literal \in Literal
  BY DEF Edits
<1>2. Written(w, w0, c, s)
  BY <1>1, FailOpenMarked
<1>3. w \in WorldSet
  BY <1>2 DEF Written
<1>4. finish \in BOOLEAN /\ (~finish) \in BOOLEAN /\ kept \in BOOLEAN
  OBVIOUS
<1>5. \/ r = UpdateComposition(w, c, s, e.literal, finish, F)
      \/ r = Result(w, FALSE, FALSE)
      \/ r = Result(ended, kept, TRUE)
      \/ r = Result(changed, kept, TRUE)
      \/ r = Result(w, TRUE, FALSE)
      \/ r = InsertPlainText(w, c, s, e.literal, ~finish, F)
      \/ r = OrPlainText(start, e, finish, F)
  BY DEF ApplyFailOpen
<1> HIDE DEF w, finish, r, kept
<1>6. Written(changed, w, c, s) /\ Written(ended, w, c, s)
  <2>1. Written(changed, w, c, s)
    BY <1>1, <1>3, RewrittenKeeps
  <2>2. changed \in WorldSet
    BY <2>1 DEF Written
  <2> HIDE DEF changed
  <2>3. Written(ended, changed, c, s)
    BY <1>1, <2>2, UntrackedKeeps
  <2> QED BY <2>1, <2>3, WrittenTwice
<1> HIDE DEF changed, ended
<1>7. Does(start, w, c, s)
  BY <1>1, <1>3, StartCompositionKeeps
<1> HIDE DEF start
<1>8. Does(UpdateComposition(w, c, s, e.literal, finish, F), w, c, s)
  BY <1>1, <1>3, <1>4, UpdateCompositionKeeps
<1>9. Does(InsertPlainText(w, c, s, e.literal, ~finish, F), w, c, s)
  BY <1>1, <1>3, <1>4, InsertPlainTextKeeps
<1>10. Does(OrPlainText(start, e, finish, F), w, c, s)
  BY <1>3, <1>4, <1>7, OrPlainTextKeeps
<1>11. /\ Does(Result(w, FALSE, FALSE), w, c, s) /\ Does(Result(w, TRUE, FALSE), w, c, s)
       /\ Does(Result(ended, kept, TRUE), w, c, s) /\ Does(Result(changed, kept, TRUE), w, c, s)
  BY <1>3, <1>4, <1>6, WrittenNothing, DoesResult
<1>12. Does(r, w, c, s)
  BY <1>5, <1>8, <1>9, <1>10, <1>11
<1>13. Does(r, w0, c, s)
  BY <1>2, <1>12, WrittenTwice DEF Does
<1> QED BY <1>13 DEF r

LEMMA FinishTrackedKeeps ==
  ASSUME NEW w \in WorldSet, NEW e \in Edits, NEW F
  PROVE  LET r == FinishTracked(w, e, F)
         IN /\ Does(r, w, e.context, e.state) /\ Steady(r.w, w)
            /\ r.ok => r.w.objects[e.state].tracks # "composition"
<1> DEFINE c == e.context
           s == e.state
           r == FinishTracked(w, e, F)
           v == Untracked(w, s)
           Right(x) == Does(x, w, c, s) /\ Steady(x.w, w) /\ (x.ok => x.w.objects[s].tracks # "composition")
<1>1. /\ c \in Contexts /\ s \in 1 .. MaxObjects /\ e.text \in Literal
  BY DEF Edits
<1>2. \/ r = UpdateComposition(w, c, s, e.text, TRUE, F)
      \/ r = EndComposition(w, s, F)
      \/ r = Result(v, TRUE, FALSE)
  BY DEF FinishTracked
<1>3. Right(UpdateComposition(w, c, s, e.text, TRUE, F))
  <2> DEFINE u == UpdateComposition(w, c, s, e.text, TRUE, F)
  <2>1. Does(u, w, c, s) /\ Steady(u.w, w) /\ (TRUE /\ u.ok => u.w.objects[s].tracks # "composition")
    BY <1>1, UpdateCompositionKeeps
  <2> QED BY <2>1
<1>4. Right(EndComposition(w, s, F))
  BY <1>1, EndCompositionKeeps
<1>5. Right(Result(v, TRUE, FALSE))
  <2>1. Written(v, w, c, s) /\ Steady(v, w) /\ v.objects[s].tracks = "nothing"
    BY <1>1, UntrackedKeeps
  <2> HIDE DEF v
  <2>2. Does(Result(v, TRUE, FALSE), w, c, s) /\ Result(v, TRUE, FALSE).w = v
    BY <2>1, DoesResult
  <2> QED BY <2>1, <2>2
<1> HIDE DEF r
<1>6. Right(r)
  BY <1>2, <1>3, <1>4, <1>5
<1> QED BY <1>6 DEF r

------------------------------------------------------------------------------
(* Edit sessions.                                                            *)
FieldType == field \in [Contexts -> {"Safe", "Sensitive"}]

(* Nothing was added to a document whose field is not safe.                   *)
Shut(v, w) == \A d \in Contexts : field[d] # "Safe" => Len(v.document[d]) = Len(w.document[d])

OutcomeOf(out, e) == out \in EditOutcome /\ out.edit = e /\ out.state = e.state

(* An edit that was cancelled, or finds the field not safe, writes nothing.   *)
Runs(run, w, e) ==
  /\ OutcomeOf(run.out, e) /\ Shut(run.w, w)
  /\ e \in Inspections => run.w = w /\ ~run.out.consumed /\ ~run.out.blocked
  /\ e \in Edits => Written(run.w, w, e.context, e.state)
  /\ e.kind = "Finish" /\ run.out.desired => run.w.objects[e.state].tracks # "composition"
  /\ e.kind \in {"Decision", "FailOpen"} =>
       /\ w.objects[e.state].cancelled => run.w = w /\ ~run.out.consumed
       /\ run.out.blocked => field[e.context] # "Safe"
       /\ run.out.consumed => field[e.context] = "Safe"

LEMMA OutcomeTyped ==
  ASSUME NEW e \in EditSession
  PROVE  /\ OutcomeOf(Outcome(e), e) /\ OutcomeOf(Ran(e), e)
         /\ ~Outcome(e).consumed /\ ~Outcome(e).blocked /\ ~Outcome(e).desired
         /\ ~Ran(e).consumed /\ ~Ran(e).blocked
         /\ OutcomeOf([Ran(e) EXCEPT !.blocked = TRUE], e)
         /\ ~[Ran(e) EXCEPT !.blocked = TRUE].consumed
<1>1. e.state \in 0 .. MaxObjects
  <2>1. CASE e \in Inspections
    BY <2>1, TextServiceAssumption DEF Inspections
  <2>2. CASE e \in Edits
    BY <2>2, TextServiceAssumption DEF Edits
  <2> QED BY <2>1, <2>2, EditSessions
<1> QED BY <1>1 DEF OutcomeOf, Outcome, Ran, EditOutcome

LEMMA OutcomeInspected ==
  ASSUME NEW e \in EditSession, NEW p \in {"Safe", "Sensitive"}, NEW out,
         out = [Ran(e) EXCEPT !.privacy = p]
  PROVE  OutcomeOf(out, e) /\ ~out.blocked /\ ~out.consumed
BY OutcomeTyped DEF OutcomeOf, Ran, Outcome, EditOutcome

LEMMA OutcomeWritten ==
  ASSUME NEW e \in EditSession, NEW a \in BOOLEAN, NEW b \in BOOLEAN, NEW out,
         \/ out = [Ran(e) EXCEPT !.desired = a, !.consumed = b]
         \/ out = [Ran(e) EXCEPT !.fallback = a, !.consumed = b]
  PROVE  OutcomeOf(out, e) /\ ~out.blocked
<1> DEFINE r == Ran(e)
<1>1. r \in EditOutcome /\ r.edit = e /\ r.state = e.state /\ ~r.blocked
  BY OutcomeTyped DEF OutcomeOf
<1>2. out = [r EXCEPT !.desired = a, !.consumed = b] \/ out = [r EXCEPT !.fallback = a, !.consumed = b]
  OBVIOUS
<1> HIDE DEF r
<1>3. out \in EditOutcome /\ out.edit = e /\ out.state = e.state /\ ~out.blocked
  <2>1. CASE out = [r EXCEPT !.desired = a, !.consumed = b]
    BY <1>1, <2>1 DEF EditOutcome
  <2>2. CASE out = [r EXCEPT !.fallback = a, !.consumed = b]
    BY <1>1, <2>2 DEF EditOutcome
  <2> QED BY <1>2, <2>1, <2>2
<1> QED BY <1>3 DEF OutcomeOf

(* What is written is written in the edit's document, which was safe.         *)
LEMMA WrittenShut ==
  ASSUME NEW v, NEW w, NEW c, NEW s, Written(v, w, c, s), field[c] = "Safe" \/ Steady(v, w)
  PROVE  Shut(v, w)
BY DEF Written, Shut, Steady

LEMMA DoEditSessionRuns ==
  ASSUME FieldType, NEW w \in WorldSet, NEW e \in EditSession, NEW F
  PROVE  Runs(DoEditSession(w, e, F), w, e)
<1> DEFINE run == DoEditSession(w, e, F)
           c == e.context
           s == e.state
<1>1. Shut(w, w)
  BY DEF Shut
<1>2. CASE e \in Inspections
  <2>1. run = [w |-> w, out |-> [Ran(e) EXCEPT !.privacy = field[e.context]]]
    BY <1>2 DEF DoEditSession, Inspections
  <2>2. field[e.context] \in {"Safe", "Sensitive"} /\ e.kind = "Inspect" /\ e \notin Edits
    BY <1>2 DEF FieldType, Inspections, Edits
  <2> HIDE DEF run
  <2>3. run.w = w /\ run.out = [Ran(e) EXCEPT !.privacy = field[e.context]]
    BY <2>1
  <2>4. OutcomeOf(run.out, e) /\ ~run.out.blocked /\ ~run.out.consumed
    BY <2>2, <2>3, OutcomeInspected
  <2>5. Runs(run, w, e)
    BY <1>1, <2>2, <2>3, <2>4 DEF Runs
  <2> QED BY <2>5 DEF run
<1>3. CASE e \in Edits /\ e.kind = "Finish"
  <2> DEFINE f == FinishTracked(w, e, F)
             r == [f EXCEPT !.mutated = FALSE]
  <2>1. Does(f, w, c, s) /\ Steady(f.w, w) /\ (f.ok => f.w.objects[s].tracks # "composition")
    BY <1>3, FinishTrackedKeeps
  <2>2. run = AsDesired(e, r)
    BY <1>3 DEF DoEditSession
  <2> HIDE DEF f
  <2>3. r.w = f.w /\ r.ok = f.ok /\ r.ok \in BOOLEAN /\ r.mutated = FALSE
    BY <2>1 DEF Does, Results
  <2> HIDE DEF r, run
  <2> DEFINE k == r.ok \/ r.mutated
  <2>4. run.w = r.w /\ run.out = [Ran(e) EXCEPT !.desired = r.ok, !.consumed = k]
    BY <2>2 DEF AsDesired
  <2>5. k \in BOOLEAN
    OBVIOUS
  <2> HIDE DEF k
  <2>6. OutcomeOf(run.out, e) /\ run.out.desired = r.ok
    <3>1. run.out.desired = r.ok
      BY <2>4 DEF Ran, Outcome
    <3> QED BY <2>3, <2>4, <2>5, <3>1, OutcomeWritten
  <2>7. Written(run.w, w, c, s) /\ Shut(run.w, w)
    BY <2>1, <2>3, <2>4, WrittenShut DEF Does
  <2>8. e.kind \notin {"Decision", "FailOpen"} /\ e \notin Inspections
    BY <1>3 DEF Inspections
  <2>9. e.kind = "Finish" /\ run.out.desired => run.w.objects[e.state].tracks # "composition"
    BY <2>1, <2>3, <2>4, <2>6
  <2> QED BY <2>6, <2>7, <2>8, <2>9 DEF Runs, run
<1>4. ASSUME e \in Edits, e.kind \in {"Decision", "FailOpen"}, w.objects[s].cancelled
      PROVE  Runs(run, w, e)
  <2>1. run = [w |-> w, out |-> Ran(e)]
    BY <1>4 DEF DoEditSession
  <2>2. e \notin Inspections /\ e.kind # "Finish"
    BY <1>4 DEF Inspections
  <2> HIDE DEF run
  <2>3. run.w = w /\ run.out = Ran(e) /\ Written(w, w, c, s)
    BY <2>1, WrittenNothing
  <2> QED BY <1>1, <2>2, <2>3, OutcomeTyped DEF Runs
<1>5. ASSUME e \in Edits, e.kind \in {"Decision", "FailOpen"}, ~w.objects[s].cancelled, field[c] # "Safe"
      PROVE  Runs(run, w, e)
  <2>1. run = [w |-> w, out |-> [Ran(e) EXCEPT !.blocked = TRUE]]
    BY <1>5 DEF DoEditSession, FieldSafe
  <2>2. e \notin Inspections /\ e.kind # "Finish"
    BY <1>5 DEF Inspections
  <2> HIDE DEF run
  <2>3. run.w = w /\ run.out = [Ran(e) EXCEPT !.blocked = TRUE] /\ Written(w, w, c, s)
    BY <2>1, WrittenNothing
  <2> QED BY <1>1, <1>5, <2>2, <2>3, OutcomeTyped DEF Runs
<1>6. ASSUME e \in Edits, e.kind \in {"Decision", "FailOpen"}, ~w.objects[s].cancelled, field[c] = "Safe"
      PROVE  Runs(run, w, e)
  <2> DEFINE f == ApplyFailOpen(w, e, F, FALSE)
             desired == ApplyDesired(w, e, F)
             g == ApplyFailOpen(desired.w, e, F, CompositionRejected(w, e, F))
  <2>1. e \notin Inspections /\ e.kind # "Finish" /\ e.kind # "Inspect"
    BY <1>6 DEF Inspections
  <2>2. \/ run = AsFallback(e, f, f.mutated)
        \/ run = AsDesired(e, desired)
        \/ run = AsFallback(e, g, FALSE)
    BY <1>6 DEF DoEditSession, FieldSafe, AsLiteral, OrFailOpen
  <2>3. Does(f, w, c, s)
    BY <1>6, ApplyFailOpenKeeps
  <2>4. Does(desired, w, c, s)
    BY <1>6, ApplyDesiredKeeps
  <2>5. Does(g, w, c, s)
    <3> HIDE DEF desired
    <3>1. CompositionRejected(w, e, F) \in BOOLEAN /\ desired.w \in WorldSet
      BY <2>4 DEF CompositionRejected, Does, Results
    <3>2. Does(g, desired.w, c, s)
      BY <1>6, <3>1, ApplyFailOpenKeeps
    <3> QED BY <2>4, <3>2, WrittenTwice DEF Does
  <2> HIDE DEF f, desired, g, run
  <2>6. ASSUME NEW r, Does(r, w, c, s), NEW k \in BOOLEAN, run = AsDesired(e, r) \/ run = AsFallback(e, r, k)
        PROVE  Runs(run, w, e)
    <3>1. r.ok \in BOOLEAN /\ r.mutated \in BOOLEAN /\ Written(r.w, w, c, s)
      BY <2>6 DEF Does, Results
    <3> DEFINE a == r.ok \/ r.mutated
               b == r.ok \/ k
    <3>2. a \in BOOLEAN /\ b \in BOOLEAN
      OBVIOUS
    <3>3. /\ run.w = r.w
          /\ \/ run.out = [Ran(e) EXCEPT !.desired = r.ok, !.consumed = a]
             \/ run.out = [Ran(e) EXCEPT !.fallback = r.ok, !.consumed = b]
      BY <2>6 DEF AsDesired, AsFallback
    <3> HIDE DEF a, b
    <3>4. OutcomeOf(run.out, e) /\ ~run.out.blocked
      BY <3>1, <3>2, <3>3, OutcomeWritten
    <3>5. Shut(run.w, w)
      BY <1>6, <3>1, <3>3, WrittenShut
    <3> QED BY <1>6, <2>1, <3>1, <3>3, <3>4, <3>5 DEF Runs
  <2>7. f.mutated \in BOOLEAN
    BY <2>3 DEF Does, Results
  <2> QED BY <2>2, <2>3, <2>4, <2>5, <2>6, <2>7
<1>7. e \in Inspections \/ (e \in Edits /\ e.kind \in {"Decision", "FailOpen", "Finish"})
  BY EditSessions DEF Edits
<1> QED BY <1>2, <1>3, <1>4, <1>5, <1>6, <1>7

------------------------------------------------------------------------------
(* What waits.                                                               *)
LEMMA WithFinite ==
  ASSUME NEW q \in Seq(EditSession), NEW s
  PROVE  IsFiniteSet(With(q, s)) /\ Cardinality(With(q, s)) \in Nat
<1>1. DOMAIN q = 1 .. Len(q) /\ Len(q) \in Nat
  OBVIOUS
<1>2. IsFiniteSet(1 .. Len(q))
  BY <1>1, FS_Interval
<1>3. With(q, s) \in SUBSET (1 .. Len(q))
  BY <1>1 DEF With
<1>4. IsFiniteSet(With(q, s))
  BY <1>2, <1>3, FS_Subset
<1> QED BY <1>4, FS_CardinalityType

LEMMA WithAppend ==
  ASSUME NEW q \in Seq(EditSession), NEW e \in EditSession, NEW s
  PROVE  Cardinality(With(Append(q, e), s)) =
           IF e.state = s THEN Cardinality(With(q, s)) + 1 ELSE Cardinality(With(q, s))
<1> DEFINE r == Append(q, e)
<1>1. /\ Len(r) = Len(q) + 1 /\ Len(q) \in Nat /\ r \in Seq(EditSession)
      /\ \A i \in 1 .. Len(q) : r[i] = q[i]
      /\ r[Len(q) + 1] = e
  BY AppendProperties
<1>2. DOMAIN q = 1 .. Len(q) /\ DOMAIN r = (1 .. Len(q)) \cup {Len(q) + 1}
  BY <1>1
<1> HIDE DEF r
<1>3. CASE e.state = s
  <2>1. With(r, s) = With(q, s) \cup {Len(q) + 1}
    BY <1>1, <1>2, <1>3 DEF With
  <2>2. Len(q) + 1 \notin With(q, s)
    BY <1>1, <1>2 DEF With
  <2>3. Cardinality(With(r, s)) = Cardinality(With(q, s)) + 1
    BY <2>1, <2>2, WithFinite, FS_AddElement
  <2> QED BY <1>3, <2>3 DEF r
<1>4. CASE e.state # s
  <2>1. With(r, s) = With(q, s)
    BY <1>1, <1>2, <1>4 DEF With
  <2> QED BY <1>4, <2>1 DEF r
<1> QED BY <1>3, <1>4

LEMMA RemoveAtElements ==
  ASSUME NEW q \in Seq(EditSession), NEW n \in DOMAIN q
  PROVE  /\ RemoveAt(q, n) \in Seq(EditSession) /\ Len(RemoveAt(q, n)) = Len(q) - 1
         /\ \A i \in 1 .. Len(q) - 1 : RemoveAt(q, n)[i] = IF i < n THEN q[i] ELSE q[i + 1]
<1> DEFINE a == SubSeq(q, 1, n - 1)
           b == SubSeq(q, n + 1, Len(q))
<1>1. DOMAIN q = 1 .. Len(q) /\ Len(q) \in Nat /\ n \in 1 .. Len(q)
  OBVIOUS
<1>2. /\ a \in Seq(EditSession) /\ Len(a) = n - 1
      /\ \A i \in 1 .. n - 1 : a[i] = q[i]
  <2>1. \A i \in 1 .. n - 1 : q[i] \in EditSession
    BY <1>1
  <2> QED BY <1>1, <2>1, SubSeqProperties
<1>3. /\ b \in Seq(EditSession) /\ Len(b) = Len(q) - n
      /\ \A i \in 1 .. Len(q) - n : b[i] = q[n + i]
  <2>1. \A i \in n + 1 .. Len(q) : q[i] \in EditSession
    BY <1>1
  <2> QED BY <1>1, <2>1, SubSeqProperties
<1>4. RemoveAt(q, n) = a \o b
  BY DEF RemoveAt
<1> HIDE DEF a, b
<1>5. /\ a \o b \in Seq(EditSession) /\ Len(a \o b) = Len(q) - 1
      /\ \A i \in 1 .. Len(q) - 1 : (a \o b)[i] = IF i <= n - 1 THEN a[i] ELSE b[i - (n - 1)]
  <2>1. Len(a) + Len(b) = Len(q) - 1
    BY <1>1, <1>2, <1>3
  <2>2. /\ a \o b \in Seq(EditSession) /\ Len(a \o b) = Len(a) + Len(b)
        /\ \A i \in 1 .. Len(a) + Len(b) : (a \o b)[i] = IF i <= Len(a) THEN a[i] ELSE b[i - Len(a)]
    BY <1>2, <1>3, ConcatProperties
  <2> QED BY <1>2, <2>1, <2>2
<1>6. ASSUME NEW i \in 1 .. Len(q) - 1
      PROVE  (a \o b)[i] = IF i < n THEN q[i] ELSE q[i + 1]
  <2>1. CASE i < n
    BY <1>1, <1>2, <1>5, <2>1
  <2>2. CASE ~(i < n)
    <3>1. i - (n - 1) \in 1 .. Len(q) - n /\ n + (i - (n - 1)) = i + 1
      BY <1>1, <2>2
    <3>2. b[i - (n - 1)] = q[i + 1]
      BY <1>3, <3>1
    <3>3. ~(i <= n - 1)
      BY <1>1, <2>2
    <3> QED BY <1>5, <2>2, <3>2, <3>3
  <2> QED BY <2>1, <2>2
<1> QED BY <1>4, <1>5, <1>6

(* Each edit that still waits is one that waited before, and another one.     *)
LEMMA RemoveAtOrigin ==
  ASSUME NEW q \in Seq(EditSession), NEW n \in DOMAIN q
  PROVE  /\ \A i \in DOMAIN RemoveAt(q, n) : \E j \in DOMAIN q \ {n} : RemoveAt(q, n)[i] = q[j]
         /\ \A j \in DOMAIN q \ {n} : \E i \in DOMAIN RemoveAt(q, n) : RemoveAt(q, n)[i] = q[j]
<1> DEFINE r == RemoveAt(q, n)
<1>1. DOMAIN q = 1 .. Len(q) /\ Len(q) \in Nat /\ n \in 1 .. Len(q)
  OBVIOUS
<1>2. /\ DOMAIN r = 1 .. Len(q) - 1
      /\ \A i \in 1 .. Len(q) - 1 : r[i] = IF i < n THEN q[i] ELSE q[i + 1]
  <2>1. /\ r \in Seq(EditSession) /\ Len(r) = Len(q) - 1
        /\ \A i \in 1 .. Len(q) - 1 : r[i] = IF i < n THEN q[i] ELSE q[i + 1]
    BY RemoveAtElements
  <2> HIDE DEF r
  <2> QED BY <2>1
<1> HIDE DEF r
<1>3. ASSUME NEW i \in DOMAIN r
      PROVE  \E j \in DOMAIN q \ {n} : r[i] = q[j]
  <2>1. CASE i < n
    <3>1. i \in DOMAIN q \ {n} /\ r[i] = q[i]
      BY <1>1, <1>2, <2>1
    <3> QED BY <3>1
  <2>2. CASE ~(i < n)
    <3>1. i + 1 \in DOMAIN q \ {n} /\ r[i] = q[i + 1]
      BY <1>1, <1>2, <2>2
    <3> QED BY <3>1
  <2> QED BY <2>1, <2>2
<1>4. ASSUME NEW j \in DOMAIN q \ {n}
      PROVE  \E i \in DOMAIN r : r[i] = q[j]
  <2>1. CASE j < n
    <3>1. j \in DOMAIN r /\ r[j] = q[j]
      BY <1>1, <1>2, <2>1
    <3> QED BY <3>1
  <2>2. CASE ~(j < n)
    <3>1. j - 1 \in DOMAIN r /\ r[j - 1] = q[j]
      BY <1>1, <1>2, <2>2
    <3> QED BY <3>1
  <2> QED BY <2>1, <2>2
<1> QED BY <1>3, <1>4 DEF r

LEMMA WithRemoved ==
  ASSUME NEW q \in Seq(EditSession), NEW n \in DOMAIN q, NEW s
  PROVE  Cardinality(With(RemoveAt(q, n), s)) =
           IF q[n].state = s THEN Cardinality(With(q, s)) - 1 ELSE Cardinality(With(q, s))
<1> DEFINE r == RemoveAt(q, n)
           A == With(r, s)
           B == With(q, s) \ {n}
           f == [i \in A |-> IF i < n THEN i ELSE i + 1]
<1>1. DOMAIN q = 1 .. Len(q) /\ Len(q) \in Nat /\ n \in 1 .. Len(q)
  OBVIOUS
<1>2. /\ r \in Seq(EditSession) /\ DOMAIN r = 1 .. Len(q) - 1
      /\ \A i \in 1 .. Len(q) - 1 : r[i] = IF i < n THEN q[i] ELSE q[i + 1]
  BY <1>1, RemoveAtElements
<1> HIDE DEF r
<1>3. \A i \in A : i \in 1 .. Len(q) - 1 /\ r[i].state = s
  BY <1>2 DEF With
<1>4. \A j \in B : j \in 1 .. Len(q) /\ j # n /\ q[j].state = s
  BY <1>1 DEF With
<1>5. \A i \in A : f[i] \in B
  <2>1. SUFFICES ASSUME NEW i \in A PROVE (IF i < n THEN i ELSE i + 1) \in B
    OBVIOUS
  <2> DEFINE j == IF i < n THEN i ELSE i + 1
  <2>2. j \in 1 .. Len(q) /\ j # n /\ q[j] = r[i]
    BY <1>1, <1>2, <1>3
  <2> QED BY <1>1, <1>3, <2>2 DEF With
<1>6. \A i, k \in A : f[i] = f[k] => i = k
  BY <1>1, <1>3
<1>7. \A j \in B : \E i \in A : f[i] = j
  <2>1. SUFFICES ASSUME NEW j \in B PROVE \E i \in A : (IF i < n THEN i ELSE i + 1) = j
    OBVIOUS
  <2> DEFINE i == IF j < n THEN j ELSE j - 1
  <2>2. i \in 1 .. Len(q) - 1 /\ r[i] = q[j] /\ (IF i < n THEN i ELSE i + 1) = j
    BY <1>1, <1>2, <1>4
  <2>3. i \in A
    BY <1>2, <1>4, <2>2 DEF With
  <2> QED BY <2>2, <2>3
<1> HIDE DEF A, B
<1>8. f \in Bijection(A, B)
  <2>1. f \in [A -> B]
    BY <1>5
  <2>2. f \in Injection(A, B)
    BY <1>6, <2>1 DEF Injection, IsInjective
  <2>3. f \in Surjection(A, B)
    BY <1>7, <2>1 DEF Surjection
  <2> QED BY <2>2, <2>3 DEF Bijection
<1>9. IsFiniteSet(A)
  BY <1>2, WithFinite DEF A
<1>10. Cardinality(B) = Cardinality(A)
  BY <1>8, <1>9, FS_Bijection DEF ExistsBijection
<1>11. Cardinality(B) = IF n \in With(q, s) THEN Cardinality(With(q, s)) - 1 ELSE Cardinality(With(q, s))
  BY WithFinite, FS_RemoveElement DEF B
<1>12. n \in With(q, s) <=> q[n].state = s
  BY DEF With
<1> QED BY <1>10, <1>11, <1>12 DEF A, r

------------------------------------------------------------------------------
(* Calls on a world that leave what waits alone.                             *)
Same(v, w) ==
  /\ v \in WorldSet
  /\ v.service = w.service /\ v.edits = w.edits /\ v.posted = w.posted /\ v.owed = w.owed

LEMMA PendingChanged ==
  ASSUME NEW w \in WorldSet, NEW s \in 1 .. MaxObjects, NEW n \in Nat
  PROVE  LET v == [w EXCEPT !.objects[s].pending = n]
         IN /\ Same(v, w) /\ v.document = w.document
            /\ v.objects = [w.objects EXCEPT ![s] = [w.objects[s] EXCEPT !.pending = n]]
            /\ \A t \in 1 .. MaxObjects : t # s => v.objects[t] = w.objects[t]
            /\ v.objects[s].pending = n /\ v.objects[s].tracks = w.objects[s].tracks
            /\ v.objects[s].cancelled = w.objects[s].cancelled
<1> DEFINE v == [w EXCEPT !.objects[s].pending = n]
<1>1. w.objects[s] \in CompositionState
  BY DEF WorldSet
<1>2. [w.objects[s] EXCEPT !.pending = n] \in CompositionState
  BY <1>1 DEF CompositionState
<1>3. /\ v.objects = [w.objects EXCEPT ![s] = [w.objects[s] EXCEPT !.pending = n]]
      /\ v.service = w.service /\ v.edits = w.edits /\ v.posted = w.posted /\ v.owed = w.owed
      /\ v.document = w.document
  BY DEF WorldSet
<1>4. v \in WorldSet
  BY <1>2, <1>3 DEF WorldSet
<1> HIDE DEF v
<1>5. \A t \in 1 .. MaxObjects : t # s => v.objects[t] = w.objects[t]
  BY <1>3 DEF WorldSet
<1>6. /\ v.objects[s].pending = n /\ v.objects[s].tracks = w.objects[s].tracks
      /\ v.objects[s].cancelled = w.objects[s].cancelled
  <2>1. v.objects[s] = [w.objects[s] EXCEPT !.pending = n]
    BY <1>3 DEF WorldSet
  <2> QED BY <1>1, <2>1 DEF CompositionState
<1> QED BY <1>3, <1>4, <1>5, <1>6 DEF Same, v

LEMMA CancelKeeps ==
  ASSUME NEW w \in WorldSet, NEW s \in 1 .. MaxObjects
  PROVE  LET v == CancelPendingEdits(w, s)
         IN /\ Same(v, w) /\ v.document = w.document
            /\ \A t \in 1 .. MaxObjects : t # s => v.objects[t] = w.objects[t]
            /\ v.objects[s].pending = w.objects[s].pending /\ v.objects[s].tracks = w.objects[s].tracks
            /\ v.objects[s].cancelled
<1> DEFINE v == [w EXCEPT !.objects[s].cancelled = TRUE, !.objects[s].closing = TRUE]
           o == [w.objects[s] EXCEPT !.cancelled = TRUE, !.closing = TRUE]
<1>1. w.objects[s] \in CompositionState
  BY DEF WorldSet
<1>2. o \in CompositionState
  BY <1>1 DEF CompositionState
<1>3. /\ v.objects = [w.objects EXCEPT ![s] = o]
      /\ v.service = w.service /\ v.edits = w.edits /\ v.posted = w.posted /\ v.owed = w.owed
      /\ v.document = w.document
  BY DEF WorldSet
<1>4. v \in WorldSet
  BY <1>2, <1>3 DEF WorldSet
<1>5. v = CancelPendingEdits(w, s)
  BY DEF CancelPendingEdits
<1> HIDE DEF v
<1>6. \A t \in 1 .. MaxObjects : t # s => v.objects[t] = w.objects[t]
  BY <1>3 DEF WorldSet
<1>7. /\ v.objects[s].pending = w.objects[s].pending /\ v.objects[s].tracks = w.objects[s].tracks
      /\ v.objects[s].cancelled
  <2>1. v.objects[s] = o
    BY <1>3 DEF WorldSet
  <2> QED BY <1>1, <2>1 DEF CompositionState
<1> QED BY <1>3, <1>4, <1>5, <1>6, <1>7 DEF Same

LEMMA AbandonKeeps ==
  ASSUME NEW w \in WorldSet, NEW s \in 1 .. MaxObjects
  PROVE  LET v == Abandon(w, s)
         IN /\ Same(v, w) /\ Steady(v, w)
            /\ \A t \in 1 .. MaxObjects : t # s => v.objects[t] = w.objects[t]
            /\ v.objects[s].pending = w.objects[s].pending /\ v.objects[s].tracks = "nothing"
            /\ v.objects[s].cancelled
<1> DEFINE u == CancelPendingEdits(w, s)
           v == Untracked(u, s)
<1>1. /\ Same(u, w) /\ u.document = w.document
      /\ \A t \in 1 .. MaxObjects : t # s => u.objects[t] = w.objects[t]
      /\ u.objects[s].pending = w.objects[s].pending
      /\ u.objects[s].cancelled
  BY CancelKeeps
<1> HIDE DEF u
<1>2. Written(v, u, None, s) /\ Steady(v, u) /\ v.objects[s].tracks = "nothing"
  BY <1>1, UntrackedKeeps DEF Same
<1>3. v = Abandon(w, s)
  BY DEF Abandon, u
<1> HIDE DEF v
<1> QED BY <1>1, <1>2, <1>3 DEF Same, Written, Steady

(* An edit session that has ended: nothing waits that did not wait, one edit  *)
(* less is counted, and an edit that was cancelled changed nothing else.      *)
Done(v, w, e) ==
  /\ Same(v, w) /\ Shut(v, w)
  /\ e \in Inspections => v = w
  /\ e \in Edits =>
       /\ \A t \in 1 .. MaxObjects : t # e.state => v.objects[t] = w.objects[t]
       /\ v.objects[e.state].pending = w.objects[e.state].pending - 1
       /\ v.objects[e.state].cancelled = w.objects[e.state].cancelled
  /\ e.kind = "Finish" => v.objects[e.state].tracks # "composition"
  /\ e.kind \in {"Decision", "FailOpen"} /\ w.objects[e.state].cancelled =>
       v.objects[e.state].tracks = w.objects[e.state].tracks

LEMMA SettledDone ==
  ASSUME NEW w \in WorldSet, NEW e \in EditSession, NEW run, Runs(run, w, e),
         e \in Edits => w.objects[e.state].pending > 0,
         e.kind = "Finish" => w.objects[e.state].cancelled
  PROVE  Done(Settled(run.w, run.out), w, e)
<1> DEFINE v == Settled(run.w, run.out)
           s == e.state
<1>1. run.out.edit = e
  BY DEF Runs, OutcomeOf
<1>2. CASE e \in Inspections
  <2>1. e.kind = "Inspect" /\ e \notin Edits
    BY <1>2 DEF Inspections, Edits
  <2>2. v = run.w /\ run.w = w
    BY <1>1, <1>2, <2>1 DEF Settled, Runs
  <2> HIDE DEF v
  <2>3. Done(v, w, e)
    BY <2>1, <2>2 DEF Done, Same, Shut
  <2> QED BY <2>3 DEF v
<1>3. CASE e \in Edits
  <2> DEFINE n == run.w.objects[s].pending - 1
             u == [run.w EXCEPT !.objects[s].pending = n]
             a == Abandon(u, s)
  <2>1. s \in 1 .. MaxObjects /\ e.kind \in {"Decision", "FailOpen", "Finish"} /\ e \notin Inspections
    BY <1>3 DEF Edits, Inspections
  <2>2. Written(run.w, w, e.context, s) /\ run.w \in WorldSet /\ Shut(run.w, w)
    BY <1>3 DEF Runs, Written
  <2>3. run.w.objects[s].pending \in Nat /\ run.w.objects[s].pending = w.objects[s].pending
    BY <2>1, <2>2 DEF Written, WorldSet, CompositionState
  <2>4. n \in Nat
    BY <1>3, <2>3
  <2>5. /\ Same(u, run.w) /\ u.document = run.w.document
        /\ \A t \in 1 .. MaxObjects : t # s => u.objects[t] = run.w.objects[t]
        /\ u.objects[s].pending = n /\ u.objects[s].tracks = run.w.objects[s].tracks
        /\ u.objects[s].cancelled = run.w.objects[s].cancelled
    <3> HIDE DEF n
    <3> QED BY <2>1, <2>2, <2>4, PendingChanged
  <2>6. v = IF e.kind = "Finish" /\ ~run.out.desired THEN a ELSE u
    BY <1>1, <2>1 DEF Settled
  <2> HIDE DEF u, v
  <2>7. u \in WorldSet
    BY <2>5 DEF Same
  <2>8. /\ Same(a, u) /\ Steady(a, u)
        /\ \A t \in 1 .. MaxObjects : t # s => a.objects[t] = u.objects[t]
        /\ a.objects[s].pending = u.objects[s].pending /\ a.objects[s].tracks = "nothing"
        /\ a.objects[s].cancelled
    BY <2>1, <2>7, AbandonKeeps
  <2> HIDE DEF a
  <2>9. CASE e.kind = "Finish" /\ ~run.out.desired
    <3>1. v = a
      BY <2>6, <2>9
    <3>2. w.objects[s].cancelled /\ w.objects[s].cancelled \in BOOLEAN /\ a.objects[s].cancelled \in BOOLEAN
      BY <2>1, <2>8, <2>9 DEF WorldSet, CompositionState, Same
    <3>3. a.objects[s].cancelled = w.objects[s].cancelled
      BY <2>8, <3>2
    <3>4. Same(v, w) /\ Shut(v, w)
      BY <2>2, <2>5, <2>8, <3>1 DEF Same, Shut, Steady, Written
    <3>5. /\ \A t \in 1 .. MaxObjects : t # s => v.objects[t] = w.objects[t]
          /\ v.objects[s].pending = w.objects[s].pending - 1
          /\ v.objects[s].cancelled = w.objects[s].cancelled
          /\ v.objects[s].tracks # "composition"
      BY <2>2, <2>3, <2>5, <2>8, <3>1, <3>3 DEF Written
    <3> QED BY <2>1, <2>9, <3>4, <3>5 DEF Done, v
  <2>10. CASE ~(e.kind = "Finish" /\ ~run.out.desired)
    <3>1. v = u
      BY <2>6, <2>10
    <3>2. Same(v, w) /\ Shut(v, w)
      BY <2>2, <2>5, <3>1 DEF Same, Shut, Written
    <3>3. /\ \A t \in 1 .. MaxObjects : t # s => v.objects[t] = w.objects[t]
          /\ v.objects[s].pending = w.objects[s].pending - 1
          /\ v.objects[s].cancelled = w.objects[s].cancelled
      BY <2>2, <2>3, <2>5, <3>1 DEF Written
    <3>4. e.kind = "Finish" => v.objects[s].tracks # "composition"
      BY <2>5, <2>10, <3>1 DEF Runs
    <3>5. e.kind \in {"Decision", "FailOpen"} /\ w.objects[s].cancelled => v.objects[s].tracks = w.objects[s].tracks
      BY <2>5, <3>1 DEF Runs
    <3> QED BY <2>1, <3>2, <3>3, <3>4, <3>5 DEF Done, v
  <2> QED BY <2>9, <2>10
<1> QED BY <1>2, <1>3, EditSessions

------------------------------------------------------------------------------
(* The invariant of a world, call by call.                                   *)
LEMMA WaitingTyped ==
  ASSUME NEW w \in WorldSet, NEW i \in DOMAIN w.edits
  PROVE  /\ w.edits[i] \in EditSession
         /\ w.edits[i].kind \in {"Inspect", "Decision", "FailOpen", "Finish"}
         /\ w.edits[i].kind # "Inspect" => w.edits[i] \in Edits /\ w.edits[i].state \in 1 .. MaxObjects
         /\ w.edits[i].context \in Contexts
<1>1. w.edits[i] \in EditSession
  BY DEF WorldSet
<1> DEFINE e == w.edits[i]
<1>2. e \in EditSession
  BY <1>1
<1> HIDE DEF e
<1>3. CASE e \in Inspections
  BY <1>2, <1>3 DEF Inspections, e
<1>4. CASE e \in Edits
  BY <1>2, <1>4 DEF Edits, e
<1> QED BY <1>2, <1>3, <1>4, EditSessions

LEMMA SoundKept ==
  ASSUME NEW w, Sound(w), NEW v \in WorldSet, v.edits = w.edits, v.posted = w.posted,
         v.service.state = w.service.state, v.service.generation = w.service.generation,
         v.service.context = w.service.context,
         \A t \in 1 .. MaxObjects :
           /\ v.objects[t].pending = w.objects[t].pending
           /\ w.objects[t].cancelled => v.objects[t].cancelled
           /\ t # w.service.state =>
                v.objects[t].cancelled = w.objects[t].cancelled /\ v.objects[t].tracks = w.objects[t].tracks,
         w.service.context = None => v.objects[w.service.state].tracks = w.objects[w.service.state].tracks
  PROVE  Sound(v)
<1>1. w \in WorldSet /\ PendingOK(w) /\ TiedOK(w) /\ StaleOK(w) /\ (Calm => StrandedOK(w))
  BY DEF Sound
<1>2. w.service.state \in 1 .. MaxObjects
  BY <1>1 DEF WorldSet, Service
<1>3. PendingOK(v)
  BY <1>1 DEF PendingOK
<1>4. TiedOK(v)
  BY <1>1 DEF TiedOK, Tied
<1>5. StaleOK(v)
  <2> SUFFICES ASSUME NEW i \in DOMAIN w.edits
               PROVE  /\ w.edits[i].kind \in {"Decision", "FailOpen"} =>
                           v.objects[w.edits[i].state].cancelled \/ w.edits[i].state = w.service.state
                      /\ w.edits[i].kind = "Finish" => v.objects[w.edits[i].state].cancelled
    BY DEF StaleOK
  <2>1. w.edits[i].kind # "Inspect" => w.edits[i].state \in 1 .. MaxObjects
    BY <1>1, WaitingTyped
  <2> QED BY <1>1, <2>1 DEF StaleOK
<1>6. Calm => StrandedOK(v)
  BY <1>1 DEF StrandedOK, Composed, Finishing
<1> QED BY <1>3, <1>4, <1>5, <1>6 DEF Sound

(* An edit of the service, which the host runs at once.                       *)
LEMMA SoundRun ==
  ASSUME NEW w, Sound(w), NEW e \in Edits, NEW v,
         Same(v, w), e.context = w.service.context, e.state = w.service.state,
         \A t \in 1 .. MaxObjects : t # e.state => v.objects[t] = w.objects[t],
         v.objects[e.state].pending = w.objects[e.state].pending,
         v.objects[e.state].cancelled = w.objects[e.state].cancelled
  PROVE  Sound(v)
<1>1. v \in WorldSet /\ v.service = w.service /\ v.edits = w.edits /\ v.posted = w.posted
  BY DEF Same
<1>2. w.service.context # None
  BY TextServiceAssumption DEF Edits
<1>3. \A t \in 1 .. MaxObjects :
           /\ v.objects[t].pending = w.objects[t].pending
           /\ w.objects[t].cancelled => v.objects[t].cancelled
           /\ t # w.service.state =>
                v.objects[t].cancelled = w.objects[t].cancelled /\ v.objects[t].tracks = w.objects[t].tracks
  OBVIOUS
<1> QED BY <1>1, <1>2, <1>3, SoundKept

LEMMA SoundQueued ==
  ASSUME NEW w, Sound(w), NEW e \in EditSession,
         e.generation = w.service.generation, e.context = w.service.context,
         e \in Edits => e.state = w.service.state,
         e.kind = "Finish" => w.objects[e.state].cancelled,
         NEW u, Same(u, w),
         \A t \in 1 .. MaxObjects :
           /\ u.objects[t].pending = IF t = e.state THEN w.objects[t].pending + 1 ELSE w.objects[t].pending
           /\ u.objects[t].cancelled = w.objects[t].cancelled
           /\ u.objects[t].tracks = w.objects[t].tracks
  PROVE  LET v == [u EXCEPT !.edits = Append(@, e)]
         IN /\ Sound(v) /\ v.service = w.service /\ v.posted = w.posted
            /\ v.document = u.document /\ v.objects = u.objects
            /\ Held(v) \subseteq Held(w) \cup {e.state}
            /\ Finishing(v, e.state) \/ e.kind # "Finish"
<1> DEFINE v == [u EXCEPT !.edits = Append(@, e)]
           q == w.edits
           r == Append(q, e)
<1>1. w \in WorldSet /\ PendingOK(w) /\ TiedOK(w) /\ StaleOK(w) /\ (Calm => StrandedOK(w))
  BY DEF Sound
<1>2. q \in Seq(EditSession) /\ Len(q) \in Nat
  BY <1>1 DEF WorldSet
<1>3. /\ r \in Seq(EditSession) /\ DOMAIN q = 1 .. Len(q) /\ DOMAIN r = (1 .. Len(q)) \cup {Len(q) + 1}
      /\ \A i \in 1 .. Len(q) : r[i] = q[i]
      /\ r[Len(q) + 1] = e
  <2>1. Len(r) = Len(q) + 1
    BY <1>2, AppendProperties
  <2> QED BY <1>2, <2>1, AppendProperties
<1>4. /\ v.edits = r /\ v.service = w.service /\ v.posted = w.posted /\ v.owed = w.owed
      /\ v.document = u.document /\ v.objects = u.objects
  BY DEF Same, WorldSet
<1>5. v \in WorldSet
  BY <1>3, <1>4 DEF WorldSet, Same
<1>6. e.kind \in {"Decision", "FailOpen", "Finish"} => e \in Edits /\ e.state = w.service.state
  BY EditSessions DEF Edits, Inspections
<1>7. \A s \in 1 .. MaxObjects :
        Cardinality(With(r, s)) = IF e.state = s THEN Cardinality(With(q, s)) + 1 ELSE Cardinality(With(q, s))
  BY <1>2, WithAppend
<1> HIDE DEF v, r
<1>8. PendingOK(v)
  BY <1>1, <1>4, <1>7 DEF PendingOK, q
<1>9. TiedOK(v)
  <2>1. \A i \in DOMAIN r : Tied(v, r[i])
    BY <1>1, <1>3, <1>4 DEF TiedOK, Tied, q
  <2>2. \A i \in DOMAIN v.posted : v.posted[i].state = v.posted[i].edit.state /\ Tied(v, v.posted[i].edit)
    BY <1>1, <1>4 DEF TiedOK, Tied
  <2> QED BY <1>4, <2>1, <2>2 DEF TiedOK
<1>10. StaleOK(v)
  <2>1. ASSUME NEW i \in DOMAIN r
        PROVE  /\ r[i].kind \in {"Decision", "FailOpen"} =>
                    v.objects[r[i].state].cancelled \/ r[i].state = w.service.state
               /\ r[i].kind = "Finish" => v.objects[r[i].state].cancelled
    <3>1. CASE i = Len(q) + 1
      BY <1>1, <1>3, <1>4, <1>6, <3>1 DEF WorldSet, Service
    <3>2. CASE i \in 1 .. Len(q)
      <4>1. r[i] = q[i] /\ i \in DOMAIN q
        BY <1>3, <3>2
      <4>2. q[i].kind # "Inspect" => q[i].state \in 1 .. MaxObjects
        BY <1>1, <4>1, WaitingTyped
      <4> QED BY <1>1, <1>4, <4>1, <4>2 DEF StaleOK
    <3> QED BY <1>3, <3>1, <3>2
  <2> QED BY <1>4, <2>1 DEF StaleOK
<1>11. ASSUME NEW s, Finishing(w, s)
       PROVE  Finishing(v, s)
  BY <1>3, <1>4, <1>11 DEF Finishing, q
<1>12. Calm => StrandedOK(v)
  <2>1. w.service.state \in 1 .. MaxObjects
    BY <1>1 DEF WorldSet, Service
  <2> QED BY <1>1, <1>4, <1>11, <2>1 DEF StrandedOK, Composed
<1>13. Held(v) \subseteq Held(w) \cup {e.state}
  BY <1>3, <1>4 DEF Held, q
<1>14. Finishing(v, e.state) \/ e.kind # "Finish"
  BY <1>3, <1>4 DEF Finishing
<1> QED BY <1>4, <1>5, <1>8, <1>9, <1>10, <1>12, <1>13, <1>14 DEF Sound, v

LEMMA FailOpenOfKeeps ==
  ASSUME NEW w, NEW e, NEW out, OutcomeOf(out, e)
  PROVE  /\ OutcomeOf(FailOpenOf(w, out), e)
         /\ FailOpenOf(w, out).consumed = out.consumed /\ FailOpenOf(w, out).blocked = out.blocked
         /\ FailOpenOf(w, out).desired = out.desired
<1> DEFINE b == out.edit.kind # "Inspect" /\ w.objects[out.state].failOpen
<1>1. b \in BOOLEAN /\ FailOpenOf(w, out) = [out EXCEPT !.failOpen = b]
  BY DEF FailOpenOf
<1> HIDE DEF b
<1> QED BY <1>1 DEF OutcomeOf, EditOutcome

(* What the service asks for is done, waits, or is refused.                   *)
Submitted(sent, w, e) ==
  /\ Sound(sent.w) /\ Shut(sent.w, w)
  /\ sent.w.service = w.service /\ sent.w.posted = w.posted
  /\ OutcomeOf(sent.out, e)
  /\ sent.w.objects[w.service.state].cancelled = w.objects[w.service.state].cancelled
  /\ sent.status # "Queued" => sent.w.edits = w.edits
  /\ Held(sent.w) \subseteq Held(w) \cup {e.state}
  /\ e \in Inspections => sent.w.objects = w.objects
  /\ e.kind \in {"Decision", "FailOpen"} /\ sent.status = "Completed" =>
       sent.out.consumed /\ ~sent.out.blocked /\ ~w.objects[w.service.state].cancelled
  /\ e.kind = "Finish" /\ sent.status = "Queued" => Finishing(sent.w, w.service.state)
  /\ e.kind = "Finish" /\ sent.status = "Completed" => sent.w.objects[w.service.state].tracks # "composition"

LEMMA AtOnceSubmitted ==
  ASSUME FieldType, NEW w, Sound(w), NEW e \in EditSession, NEW F,
         e.generation = w.service.generation, e.context = w.service.context,
         e \in Edits => e.state = w.service.state,
         e.kind = "Finish" => w.objects[e.state].cancelled,
         NEW u, Same(u, w), u.document = w.document, e \in Inspections => u = w,
         \A t \in 1 .. MaxObjects :
           /\ t # e.state => u.objects[t] = w.objects[t]
           /\ u.objects[t].pending = IF t = e.state THEN w.objects[t].pending + 1 ELSE w.objects[t].pending
           /\ u.objects[t].cancelled = w.objects[t].cancelled
  PROVE  Submitted(AtOnce(DoEditSession(u, e, F)), w, e)
<1> DEFINE run == DoEditSession(u, e, F)
           v == Settled(run.w, run.out)
           out == FailOpenOf(run.w, run.out)
           sent == AtOnce(run)
           st == w.service.state
<1>1. w \in WorldSet /\ u \in WorldSet /\ st \in 1 .. MaxObjects
  BY DEF Sound, Same, WorldSet, Service
<1>2. Runs(run, u, e)
  BY <1>1, DoEditSessionRuns
<1>3. e \in Edits => e.state \in 1 .. MaxObjects /\ e.kind # "Inspect"
  BY DEF Edits
<1> HIDE DEF run
<1>4. e \in Edits => u.objects[e.state].pending > 0
  <2>1. e \in Edits => w.objects[e.state] \in CompositionState /\ e.state \in 1 .. MaxObjects
    BY <1>1, <1>3 DEF WorldSet
  <2> QED BY <2>1 DEF CompositionState
<1>5. e.kind = "Finish" => u.objects[e.state].cancelled
  <2>1. e.kind = "Finish" => e \in Edits
    BY EditSessions DEF Inspections
  <2> QED BY <1>3, <2>1
<1>6. Done(v, u, e)
  BY <1>1, <1>2, <1>4, <1>5, SettledDone
<1>7. /\ sent.w = v /\ sent.out = out
      /\ sent.status = IF (IF run.out.edit.kind = "Inspect" THEN run.out.ran ELSE run.out.consumed)
                       THEN "Completed" ELSE "Rejected"
  BY DEF AtOnce
<1> HIDE DEF v, out, sent
<1>8. /\ OutcomeOf(out, e) /\ out.consumed = run.out.consumed /\ out.blocked = run.out.blocked
      /\ run.out.edit = e
  BY <1>2, FailOpenOfKeeps DEF Runs, out, OutcomeOf
<1>9. v.service = w.service /\ v.edits = w.edits /\ v.posted = w.posted /\ Shut(v, w) /\ v \in WorldSet
  BY <1>6 DEF Done, Same, Shut
<1>10. Held(v) = Held(w)
  BY <1>9 DEF Held
<1>11. CASE e \in Inspections
  <2>1. v = w /\ e.kind = "Inspect"
    BY <1>6, <1>11 DEF Done, Inspections
  <2> QED BY <1>7, <1>8, <1>9, <1>10, <1>11, <2>1 DEF Submitted, sent, run
<1>12. CASE e \in Edits
  <2>1. e \notin Inspections /\ e.kind \in {"Decision", "FailOpen", "Finish"} /\ e.state = st
    BY <1>12 DEF Edits, Inspections
  <2>2. /\ \A t \in 1 .. MaxObjects : t # st => v.objects[t] = w.objects[t]
        /\ v.objects[st].pending = u.objects[st].pending - 1
        /\ v.objects[st].cancelled = w.objects[st].cancelled
    BY <1>1, <1>6, <1>12, <2>1 DEF Done
  <2>3. v.objects[st].pending = w.objects[st].pending
    <3>1. w.objects[st].pending \in Nat
      BY <1>1 DEF WorldSet, CompositionState
    <3> QED BY <1>1, <2>1, <2>2, <3>1
  <2>4. Same(v, w)
    BY <1>6 DEF Done, Same
  <2>5. Sound(v)
    BY <1>12, <2>1, <2>2, <2>3, <2>4, SoundRun
  <2>6. e.kind \in {"Decision", "FailOpen"} /\ sent.status = "Completed" =>
          out.consumed /\ ~out.blocked /\ ~w.objects[st].cancelled
    BY <1>1, <1>2, <1>7, <1>8, <2>1 DEF Runs
  <2>7. e.kind = "Finish" => v.objects[st].tracks # "composition"
    BY <1>6, <2>1 DEF Done
  <2>8. sent.status # "Queued"
    BY <1>7
  <2> QED BY <1>7, <1>8, <1>9, <1>10, <2>1, <2>2, <2>5, <2>6, <2>7, <2>8 DEF Submitted, sent, run
<1> QED BY <1>11, <1>12, EditSessions

LEMMA SubmitKeeps ==
  ASSUME FieldType, NEW w, Sound(w), NEW e \in EditSession, NEW answer, NEW F,
         e.generation = w.service.generation, e.context = w.service.context,
         e \in Edits => e.state = w.service.state,
         e.kind = "Finish" => w.objects[e.state].cancelled
  PROVE  Submitted(Submit(w, e, answer, F), w, e)
<1> DEFINE st == w.service.state
           n == w.objects[e.state].pending + 1
           u == IF e.kind = "Inspect" THEN w ELSE [w EXCEPT !.objects[e.state].pending = n]
           queued == [u EXCEPT !.edits = Append(@, e)]
           sent == Submit(w, e, answer, F)
<1>1. w \in WorldSet /\ st \in 1 .. MaxObjects
  BY DEF Sound, WorldSet, Service
<1>2. \/ e \in Inspections /\ e.kind = "Inspect" /\ e.state \notin 1 .. MaxObjects /\ e \notin Edits
      \/ e \in Edits /\ e.kind # "Inspect" /\ e.state = st /\ e \notin Inspections
  <2>1. CASE e \in Inspections
    <3>1. e.kind = "Inspect" /\ e.state = 0 /\ e \notin Edits
      BY <2>1 DEF Inspections, Edits
    <3> QED BY <2>1, <3>1
  <2>2. CASE e \in Edits
    BY <2>2 DEF Inspections, Edits
  <2> QED BY <2>1, <2>2, EditSessions
<1>3. /\ Same(u, w) /\ u.document = w.document /\ (e \in Inspections => u = w)
      /\ \A t \in 1 .. MaxObjects :
           /\ t # e.state => u.objects[t] = w.objects[t]
           /\ u.objects[t].pending = IF t = e.state THEN w.objects[t].pending + 1 ELSE w.objects[t].pending
           /\ u.objects[t].cancelled = w.objects[t].cancelled
           /\ u.objects[t].tracks = w.objects[t].tracks
  <2>1. CASE e.kind = "Inspect"
    <3>1. u = w
      BY <2>1
    <3> HIDE DEF u
    <3> QED BY <1>1, <1>2, <2>1, <3>1 DEF Same
  <2>2. CASE e.kind # "Inspect"
    <3> DEFINE x == [w EXCEPT !.objects[e.state].pending = n]
    <3>1. u = x
      BY <2>2
    <3>2. n \in Nat
      <4>1. w.objects[e.state] \in CompositionState
        BY <1>1, <1>2, <2>2 DEF WorldSet
      <4> QED BY <4>1 DEF CompositionState
    <3> HIDE DEF n, u
    <3>3. /\ Same(x, w) /\ x.document = w.document
          /\ \A t \in 1 .. MaxObjects : t # e.state => x.objects[t] = w.objects[t]
          /\ x.objects[e.state].pending = n /\ x.objects[e.state].tracks = w.objects[e.state].tracks
          /\ x.objects[e.state].cancelled = w.objects[e.state].cancelled
      BY <1>1, <1>2, <2>2, <3>2, PendingChanged
    <3> HIDE DEF x
    <3> QED BY <1>1, <1>2, <2>2, <3>1, <3>3 DEF n
  <2> QED BY <2>1, <2>2
<1>4. \/ sent = [w |-> w, status |-> "Rejected", out |-> Outcome(e)]
      \/ sent = [w |-> queued, status |-> "Queued", out |-> Outcome(e)]
      \/ sent = AtOnce(DoEditSession(u, e, F))
  BY DEF Submit
<1> HIDE DEF u, sent
<1>5. CASE sent = [w |-> w, status |-> "Rejected", out |-> Outcome(e)]
  <2>1. sent.w = w /\ sent.status = "Rejected" /\ sent.out = Outcome(e) /\ OutcomeOf(sent.out, e)
    BY <1>5, OutcomeTyped
  <2>2. Submitted(sent, w, e)
    BY <2>1 DEF Submitted, Shut
  <2> QED BY <2>2 DEF sent
<1>6. CASE sent = [w |-> queued, status |-> "Queued", out |-> Outcome(e)]
  <2>1. sent.w = queued /\ sent.status = "Queued" /\ sent.out = Outcome(e) /\ OutcomeOf(sent.out, e)
    BY <1>6, OutcomeTyped
  <2>2. /\ Sound(queued) /\ queued.service = w.service /\ queued.posted = w.posted
        /\ queued.document = u.document /\ queued.objects = u.objects
        /\ Held(queued) \subseteq Held(w) \cup {e.state}
        /\ Finishing(queued, e.state) \/ e.kind # "Finish"
    <3>1. \A t \in 1 .. MaxObjects :
            /\ u.objects[t].pending = IF t = e.state THEN w.objects[t].pending + 1 ELSE w.objects[t].pending
            /\ u.objects[t].cancelled = w.objects[t].cancelled
            /\ u.objects[t].tracks = w.objects[t].tracks
      BY <1>3
    <3> QED BY <1>3, <3>1, SoundQueued
  <2> HIDE DEF queued
  <2>3. Shut(queued, w)
    BY <1>3, <2>2 DEF Shut
  <2>4. queued.objects[st].cancelled = w.objects[st].cancelled
    BY <1>1, <1>3, <2>2
  <2>5. e.kind = "Finish" => e.state = st
    BY <1>2
  <2>6. Submitted(sent, w, e)
    BY <1>3, <2>1, <2>2, <2>3, <2>4, <2>5 DEF Submitted
  <2> QED BY <2>6 DEF sent
<1>7. CASE sent = AtOnce(DoEditSession(u, e, F))
  <2>1. Submitted(AtOnce(DoEditSession(u, e, F)), w, e)
    BY <1>3, AtOnceSubmitted
  <2> QED BY <1>7, <2>1 DEF sent
<1> QED BY <1>4, <1>5, <1>6, <1>7

(* An object with nothing to refer to it ends.                                *)
Freed(v, w, gone) ==
  /\ v \in WorldSet /\ v.edits = w.edits /\ v.posted = w.posted /\ v.owed = w.owed
  /\ v.objects = [s \in 1 .. MaxObjects |-> IF s \in gone THEN NewObject ELSE w.objects[s]]
  /\ v.document = Released(w, gone).document

LEMMA NewObjectTyped ==
  /\ NewObject \in CompositionState
  /\ NewObject.pending = 0 /\ NewObject.tracks = "nothing" /\ ~NewObject.cancelled /\ ~NewObject.failOpen
BY DEF NewObject, CompositionState

LEMMA HeldWaits ==
  ASSUME NEW w, NEW i \in DOMAIN w.edits
  PROVE  w.edits[i].state \in Held(w)
BY DEF Held

LEMMA ReclaimedFreed ==
  ASSUME NEW w \in WorldSet
  PROVE  LET gone == (1 .. MaxObjects) \ (Held(w) \cup {w.service.state})
         IN Freed(Reclaimed(w), w, gone) /\ Reclaimed(w).service = w.service
<1> DEFINE gone == (1 .. MaxObjects) \ (Held(w) \cup {w.service.state})
           o == [s \in 1 .. MaxObjects |-> IF s \in gone THEN NewObject ELSE w.objects[s]]
           r == Released(w, gone)
           v == [r EXCEPT !.objects = o]
<1>1. r \in WorldSet /\ r = [w EXCEPT !.document = r.document]
  BY ReleasedKeeps
<1> HIDE DEF r
<1>2. /\ r.service = w.service /\ r.objects = w.objects /\ r.edits = w.edits /\ r.posted = w.posted
      /\ r.owed = w.owed
  BY <1>1 DEF WorldSet
<1>3. Reclaimed(w) = v
  BY <1>2 DEF Reclaimed, r
<1>4. o \in [1 .. MaxObjects -> CompositionState]
  BY NewObjectTyped DEF WorldSet
<1> HIDE DEF o
<1>5. /\ v \in WorldSet /\ v.service = w.service /\ v.edits = w.edits /\ v.posted = w.posted
      /\ v.owed = w.owed /\ v.objects = o /\ v.document = r.document
  BY <1>1, <1>2, <1>4 DEF WorldSet
<1> HIDE DEF v
<1> QED BY <1>3, <1>5 DEF Freed, o, r

FreedFacts(v, w, gone) ==
  /\ PendingOK(v) /\ Steady(v, w) /\ Held(v) = Held(w)
  /\ \A i \in DOMAIN w.edits :
       w.edits[i].kind # "Inspect" => v.objects[w.edits[i].state] = w.objects[w.edits[i].state]
  /\ \A s \in 1 .. MaxObjects : v.objects[s] = IF s \in gone THEN NewObject ELSE w.objects[s]
  /\ \A c \in Contexts : \A i \in DOMAIN w.document[c] :
       w.document[c][i].by = Host => v.document[c][i].by = Host

LEMMA FreedKeeps ==
  ASSUME NEW w \in WorldSet, NEW v, NEW gone, Freed(v, w, gone), gone \subseteq 1 .. MaxObjects,
         gone \cap Held(w) = {}, PendingOK(w)
  PROVE  FreedFacts(v, w, gone)
<1>1. \A s \in 1 .. MaxObjects : v.objects[s] = IF s \in gone THEN NewObject ELSE w.objects[s]
  BY DEF Freed
<1>2. PendingOK(v)
  <2> SUFFICES ASSUME NEW s \in 1 .. MaxObjects
               PROVE  v.objects[s].pending = Cardinality(With(w.edits, s))
    BY DEF PendingOK, Freed
  <2>1. CASE s \in gone
    <3>1. With(w.edits, s) = {}
      BY <2>1, HeldWaits DEF With
    <3> QED BY <1>1, <2>1, <3>1, NewObjectTyped, FS_EmptySet
  <2>2. CASE s \notin gone
    BY <1>1, <2>2 DEF PendingOK
  <2> QED BY <2>1, <2>2
<1>3. Steady(v, w)
  BY ReleasedKeeps DEF Freed, Steady
<1>4. Held(v) = Held(w)
  BY DEF Freed, Held
<1>5. ASSUME NEW i \in DOMAIN w.edits, w.edits[i].kind # "Inspect"
      PROVE  v.objects[w.edits[i].state] = w.objects[w.edits[i].state]
  <2>1. w.edits[i].state \in 1 .. MaxObjects /\ w.edits[i].state \in Held(w)
    BY <1>5, WaitingTyped, HeldWaits
  <2> QED BY <1>1, <2>1
<1>6. ASSUME NEW c \in Contexts, NEW i \in DOMAIN w.document[c], w.document[c][i].by = Host
      PROVE  v.document[c][i].by = Host
  <2>1. Host \notin 1 .. MaxObjects
    BY TextServiceAssumption DEF Host
  <2>2. w.document[c][i].by \notin gone
    BY <1>6, <2>1
  <2>3. Released(w, gone).document[c][i] = w.document[c][i]
    BY <2>2, ReleasedKeeps
  <2> QED BY <1>6, <2>3 DEF Freed
<1> QED BY <1>1, <1>2, <1>3, <1>4, <1>5, <1>6 DEF FreedFacts

LEMMA ReclaimedKeeps ==
  ASSUME NEW w, Good(w)
  PROVE  /\ Good(Reclaimed(w)) /\ Steady(Reclaimed(w), w)
         /\ Reclaimed(w).posted = w.posted
         /\ \A c \in Contexts : \A i \in DOMAIN w.document[c] :
              w.document[c][i].by = Host => Reclaimed(w).document[c][i].by = Host
<1> DEFINE gone == (1 .. MaxObjects) \ (Held(w) \cup {w.service.state})
           v == Reclaimed(w)
           st == w.service.state
<1>1. w \in WorldSet /\ PendingOK(w) /\ TiedOK(w) /\ StaleOK(w) /\ (Calm => StrandedOK(w) /\ CancelledOK(w))
  BY DEF Good, Sound
<1>2. Freed(v, w, gone) /\ v.service = w.service
  BY <1>1, ReclaimedFreed
<1>3. /\ gone \subseteq 1 .. MaxObjects /\ gone \cap Held(w) = {}
      /\ st \in 1 .. MaxObjects /\ st \notin gone
  BY <1>1 DEF WorldSet, Service
<1> HIDE DEF v, gone
<1>4. /\ PendingOK(v) /\ Steady(v, w)
      /\ \A i \in DOMAIN w.edits :
           w.edits[i].kind # "Inspect" => v.objects[w.edits[i].state] = w.objects[w.edits[i].state]
      /\ \A s \in 1 .. MaxObjects : v.objects[s] = IF s \in gone THEN NewObject ELSE w.objects[s]
      /\ \A c \in Contexts : \A i \in DOMAIN w.document[c] :
           w.document[c][i].by = Host => v.document[c][i].by = Host
  <2>1. FreedFacts(v, w, gone)
    BY <1>1, <1>2, <1>3, FreedKeeps
  <2> QED BY <2>1 DEF FreedFacts
<1>5. v \in WorldSet /\ v.edits = w.edits /\ v.posted = w.posted
  BY <1>2 DEF Freed
<1>6. TiedOK(v)
  BY <1>1, <1>2, <1>5 DEF TiedOK, Tied
<1>7. StaleOK(v)
  BY <1>1, <1>2, <1>4, <1>5 DEF StaleOK
<1>8. Calm => StrandedOK(v)
  BY <1>1, <1>2, <1>3, <1>4, <1>5, NewObjectTyped DEF StrandedOK, Composed, Finishing
<1>9. Calm => CancelledOK(v)
  BY <1>1, <1>2, <1>3, <1>4, <1>5 DEF CancelledOK
<1> QED BY <1>4, <1>5, <1>6, <1>7, <1>8, <1>9 DEF Good, Sound, v

Room(w) == ~ (1 .. MaxObjects \subseteq Held(w))

Ready(w) ==
  ~ (1 .. MaxObjects \subseteq Held(w) \cup (IF Active(w, w.service.state) THEN {w.service.state} ELSE {}))

(* A world whose state may be replaced: nothing that waits will be run but    *)
(* what finishes a composition.                                              *)
Leaving(w) ==
  /\ w \in WorldSet /\ PendingOK(w)
  /\ \A i \in DOMAIN w.posted : w.posted[i].state = w.posted[i].edit.state
  /\ \A i \in DOMAIN w.edits : w.edits[i].kind # "Inspect" => w.objects[w.edits[i].state].cancelled
  /\ Calm => \A s \in 1 .. MaxObjects : Composed(w, s) => Finishing(w, s)

LEMMA ReplaceStateKeeps ==
  ASSUME NEW w, Leaving(w), Room(w)
  PROVE  LET v == ReplaceState(w)
         IN /\ Good(v) /\ Steady(v, w) /\ Ready(v)
            /\ v.posted = w.posted /\ v.edits = w.edits /\ v.owed = w.owed
            /\ v.service = [w.service EXCEPT !.state = v.service.state]
            /\ v.objects[v.service.state] = NewObject /\ v.service.state \notin Held(v)
<1> DEFINE new == CHOOSE s \in 1 .. MaxObjects : s \notin Held(w)
           w0 == [w EXCEPT !.service.state = 0]
           gone == (1 .. MaxObjects) \ Held(w)
           o == [s \in 1 .. MaxObjects |-> IF s \in gone THEN NewObject ELSE w.objects[s]]
           r == Released(w0, gone)
           v == ReplaceState(w)
<1>1. new \in 1 .. MaxObjects /\ new \notin Held(w)
  BY DEF Room
<1>2. w \in WorldSet /\ PendingOK(w)
  BY DEF Leaving
<1>3. /\ w0.service = [w.service EXCEPT !.state = 0] /\ w0.objects = w.objects /\ w0.edits = w.edits
      /\ w0.posted = w.posted /\ w0.owed = w.owed /\ w0.document = w.document
      /\ w0 = [w EXCEPT !.service = [w.service EXCEPT !.state = 0]]
  BY <1>2 DEF WorldSet
<1>4. Held(w0) = Held(w)
  BY <1>3 DEF Held
<1>5. w0.service.state = 0
  BY <1>2, <1>3 DEF WorldSet, Service
<1>6. (1 .. MaxObjects) \ (Held(w0) \cup {w0.service.state}) = gone
  BY <1>4, <1>5, TextServiceAssumption
<1>7. r.document = Released(w, gone).document /\ r = [w0 EXCEPT !.document = Released(w, gone).document]
  BY <1>2, <1>3 DEF Released, WorldSet
<1>8. Reclaimed(w0) = [r EXCEPT !.objects = o]
  <2>1. r.objects = w.objects
    BY <1>2, <1>3, <1>7 DEF WorldSet
  <2>2. Reclaimed(w0) =
          [r EXCEPT !.objects = [s \in 1 .. MaxObjects |-> IF s \in gone THEN NewObject ELSE r.objects[s]]]
    <3> DEFINE g == (1 .. MaxObjects) \ (Held(w0) \cup {w0.service.state})
               x == Released(w0, g)
    <3>1. Reclaimed(w0) = [x EXCEPT !.objects = [s \in 1 .. MaxObjects |-> IF s \in g THEN NewObject ELSE @[s]]]
      BY DEF Reclaimed
    <3>2. g = gone
      BY <1>6
    <3>3. x = r
      BY <3>2 DEF r
    <3> HIDE DEF g, x, gone, r
    <3> QED BY <3>1, <3>2, <3>3
  <2> HIDE DEF r
  <2> QED BY <2>1, <2>2
<1> HIDE DEF new, gone, o, w0, r
<1>9. v = [[r EXCEPT !.objects = o] EXCEPT !.service.state = new]
  BY <1>8 DEF ReplaceState, new, w0
<1>10. o \in [1 .. MaxObjects -> CompositionState]
  BY <1>2, NewObjectTyped DEF WorldSet, o
<1>11. Released(w, gone).document \in [Contexts -> Seq(Run)]
  BY <1>2, ReleasedKeeps DEF WorldSet
<1>12. /\ v.service = [w.service EXCEPT !.state = new] /\ v.objects = o /\ v.edits = w.edits
       /\ v.posted = w.posted /\ v.owed = w.owed /\ v.document = Released(w, gone).document
       /\ v = [service |-> v.service, objects |-> v.objects, edits |-> v.edits, posted |-> v.posted,
               document |-> v.document, owed |-> v.owed]
  <2> DEFINE D == Released(w, gone).document
             y == [service |-> [w.service EXCEPT !.state = 0], objects |-> o, edits |-> w.edits,
                   posted |-> w.posted, document |-> D, owed |-> w.owed]
  <2> HIDE DEF D
  <2>1. [r EXCEPT !.objects = o] = y
    <3> DEFINE z == [w.service EXCEPT !.state = 0]
    <3> HIDE DEF z
    <3>1. w = [service |-> w.service, objects |-> w.objects, edits |-> w.edits, posted |-> w.posted,
               document |-> w.document, owed |-> w.owed]
      BY <1>2 DEF WorldSet
    <3>2. w0 = [service |-> z, objects |-> w.objects, edits |-> w.edits, posted |-> w.posted,
                document |-> w.document, owed |-> w.owed]
      BY <1>3, <3>1 DEF z
    <3>3. r = [service |-> z, objects |-> w.objects, edits |-> w.edits, posted |-> w.posted,
               document |-> D, owed |-> w.owed]
      BY <1>7, <3>2 DEF D
    <3> QED BY <3>3 DEF z
  <2>2. [y EXCEPT !.service.state = new] =
          [service |-> [w.service EXCEPT !.state = new], objects |-> o, edits |-> w.edits,
           posted |-> w.posted, document |-> D, owed |-> w.owed]
    <3>1. [[w.service EXCEPT !.state = 0] EXCEPT !.state = new] = [w.service EXCEPT !.state = new]
      BY <1>2 DEF WorldSet, Service
    <3> QED BY <3>1
  <2> HIDE DEF y
  <2>3. v = [service |-> [w.service EXCEPT !.state = new], objects |-> o, edits |-> w.edits,
             posted |-> w.posted, document |-> D, owed |-> w.owed]
    BY <1>9, <2>1, <2>2
  <2> HIDE DEF v
  <2> QED BY <2>3 DEF D
<1> HIDE DEF v
<1>13. v.service \in Service /\ v.service.state = new
  BY <1>1, <1>2, <1>12 DEF WorldSet, Service
<1>14. v \in WorldSet
  BY <1>2, <1>10, <1>11, <1>12, <1>13 DEF WorldSet
<1>15. Freed(v, w, gone)
  BY <1>12, <1>14 DEF Freed, o
<1>16. gone \subseteq 1 .. MaxObjects /\ gone \cap Held(w) = {} /\ new \in gone
  BY <1>1 DEF gone
<1>17. /\ PendingOK(v) /\ Steady(v, w) /\ Held(v) = Held(w)
       /\ \A i \in DOMAIN w.edits :
            w.edits[i].kind # "Inspect" => v.objects[w.edits[i].state] = w.objects[w.edits[i].state]
       /\ \A s \in 1 .. MaxObjects : v.objects[s] = IF s \in gone THEN NewObject ELSE w.objects[s]
  <2>1. FreedFacts(v, w, gone)
    BY <1>2, <1>15, <1>16, FreedKeeps
  <2> QED BY <2>1 DEF FreedFacts
<1>18. v.objects[new] = NewObject
  BY <1>1, <1>16, <1>17
<1>19. TiedOK(v)
  <2>1. \A i \in DOMAIN w.edits : w.edits[i].state # new
    BY <1>1, HeldWaits
  <2>2. \A i \in DOMAIN w.posted : w.posted[i].state # new /\ w.posted[i].state = w.posted[i].edit.state
    BY <1>1 DEF Held, Leaving
  <2> QED BY <1>12, <1>13, <2>1, <2>2 DEF TiedOK, Tied
<1>20. StaleOK(v)
  BY <1>12, <1>17 DEF StaleOK, Leaving
<1>21. Calm => StrandedOK(v)
  BY <1>1, <1>12, <1>13, <1>17, <1>18, NewObjectTyped DEF StrandedOK, Composed, Finishing, Leaving
<1>22. Calm => CancelledOK(v)
  BY <1>13, <1>18, NewObjectTyped DEF CancelledOK
<1>23. Ready(v)
  BY <1>1, <1>13, <1>17, <1>18, NewObjectTyped DEF Ready, Active
<1> QED BY <1>1, <1>12, <1>13, <1>14, <1>17, <1>18, <1>19, <1>20, <1>21, <1>22, <1>23 DEF Good, Sound, v

------------------------------------------------------------------------------
(* The service's handlers.  Most of what they do is done to the service alone. *)
Around(v, w) ==
  /\ v \in WorldSet
  /\ v.edits = w.edits /\ v.posted = w.posted /\ v.objects = w.objects /\ v.document = w.document
  /\ v.service.state = w.service.state

Only(v, w) ==
  /\ Around(v, w)
  /\ v.service.context = w.service.context /\ v.service.generation = w.service.generation

LEMMA OnlyTwice ==
  ASSUME NEW u, NEW v, NEW w, Only(u, v), Only(v, w)
  PROVE  Only(u, w)
BY DEF Only, Around

LEMMA AroundKeeps ==
  ASSUME NEW w, NEW v, Around(v, w)
  PROVE  /\ Steady(v, w) /\ Held(v) = Held(w)
         /\ Room(w) => Room(v)
         /\ Ready(w) => Ready(v)
         /\ Leaving(w) => Leaving(v)
BY DEF Around, Steady, Held, Room, Ready, Active, Leaving, PendingOK, Composed, Finishing

LEMMA OnlyKeeps ==
  ASSUME NEW w, NEW v, Only(v, w)
  PROVE  (Sound(w) => Sound(v)) /\ (Good(w) => Good(v))
<1>1. /\ v \in WorldSet /\ v.edits = w.edits /\ v.posted = w.posted /\ v.objects = w.objects
      /\ v.service.state = w.service.state /\ v.service.context = w.service.context
      /\ v.service.generation = w.service.generation
  BY DEF Only, Around
<1>2. Sound(w) => Sound(v)
  <2>1. PendingOK(w) => PendingOK(v)
    BY <1>1 DEF PendingOK
  <2>2. TiedOK(w) => TiedOK(v)
    BY <1>1 DEF TiedOK, Tied
  <2>3. StaleOK(w) => StaleOK(v)
    BY <1>1 DEF StaleOK
  <2>4. StrandedOK(w) => StrandedOK(v)
    BY <1>1 DEF StrandedOK, Composed, Finishing
  <2> QED BY <1>1, <2>1, <2>2, <2>3, <2>4 DEF Sound
<1>3. CancelledOK(w) => CancelledOK(v)
  BY <1>1 DEF CancelledOK
<1> QED BY <1>2, <1>3 DEF Good

LEMMA ServiceOnly ==
  ASSUME NEW w \in WorldSet, NEW raw \in Literal, NEW b \in BOOLEAN
  PROVE  /\ Only(EndDaemonSession(w), w)
         /\ Only(Suppress(w), w)
         /\ Only(BeginDaemonSession(w), w)
         /\ Only([w EXCEPT !.service.raw = raw], w)
         /\ Only([w EXCEPT !.service.raw = raw, !.service.failOpen = b], w)
         /\ Only([w EXCEPT !.service.raw = raw, !.service.presented = raw], w)
         /\ Only([w EXCEPT !.service.failOpen = b], w)
         /\ Only([w EXCEPT !.service.visible = b], w)
         /\ Only([w EXCEPT !.service.inspecting = b], w)
<1>1. <<>> \in Literal
  BY DEF Literal
<1>2. w.service \in Service
  BY DEF WorldSet
<1>3. ASSUME NEW v, NEW z \in Service, NEW o \in SUBSET (1 .. MaxKeys),
             v = [w EXCEPT !.service = z, !.owed = o],
             z.state = w.service.state, z.context = w.service.context, z.generation = w.service.generation
      PROVE  Only(v, w)
  BY <1>3 DEF Only, Around, WorldSet
<1> DEFINE Set(z, o) == [w EXCEPT !.service = z, !.owed = o]
<1>4. w.owed \in SUBSET (1 .. MaxKeys) /\ {} \in SUBSET (1 .. MaxKeys)
  BY DEF WorldSet
<1>5. Only(EndDaemonSession(w), w)
  <2> DEFINE z == [w.service EXCEPT !.session = NoSession, !.visible = FALSE]
  <2>1. EndDaemonSession(w) = Set(z, w.owed)
    BY DEF EndDaemonSession, WorldSet
  <2>2. z \in Service /\ z.state = w.service.state /\ z.context = w.service.context
        /\ z.generation = w.service.generation
    BY <1>1, <1>2 DEF Service, NoSession
  <2> HIDE DEF z
  <2> QED BY <1>3, <1>4, <2>1, <2>2
<1>6. Only(Suppress(w), w)
  <2> DEFINE z == [w.service EXCEPT !.suppressed = TRUE]
  <2>1. Suppress(w) = Set(z, {})
    BY DEF Suppress, WorldSet
  <2>2. z \in Service /\ z.state = w.service.state /\ z.context = w.service.context
        /\ z.generation = w.service.generation
    BY <1>2 DEF Service
  <2> HIDE DEF z
  <2> QED BY <1>3, <1>4, <2>1, <2>2
<1>7. Only(BeginDaemonSession(w), w)
  <2> DEFINE z == [w.service EXCEPT !.session = [live |-> TRUE, text |-> <<>>]]
  <2>1. BeginDaemonSession(w) = Set(z, w.owed)
    BY DEF BeginDaemonSession, WorldSet
  <2>2. z \in Service /\ z.state = w.service.state /\ z.context = w.service.context
        /\ z.generation = w.service.generation
    BY <1>1, <1>2 DEF Service
  <2> HIDE DEF z
  <2> QED BY <1>3, <1>4, <2>1, <2>2
<1>8. ASSUME NEW z \in Service, z.state = w.service.state, z.context = w.service.context,
             z.generation = w.service.generation
      PROVE  Only([w EXCEPT !.service = z], w)
  BY <1>8 DEF Only, Around, WorldSet
<1>9. Only([w EXCEPT !.service.raw = raw], w)
  BY <1>2, <1>8 DEF Service
<1>10. Only([w EXCEPT !.service.raw = raw, !.service.failOpen = b], w)
  <2> DEFINE z == [w.service EXCEPT !.raw = raw, !.failOpen = b]
  <2>1. [w EXCEPT !.service.raw = raw, !.service.failOpen = b] = [w EXCEPT !.service = z]
    BY DEF WorldSet
  <2>2. z \in Service /\ z.state = w.service.state /\ z.context = w.service.context
        /\ z.generation = w.service.generation
    BY <1>2 DEF Service
  <2> HIDE DEF z
  <2> QED BY <1>8, <2>1, <2>2
<1>11. Only([w EXCEPT !.service.raw = raw, !.service.presented = raw], w)
  <2> DEFINE z == [w.service EXCEPT !.raw = raw, !.presented = raw]
  <2>1. [w EXCEPT !.service.raw = raw, !.service.presented = raw] = [w EXCEPT !.service = z]
    BY DEF WorldSet
  <2>2. z \in Service /\ z.state = w.service.state /\ z.context = w.service.context
        /\ z.generation = w.service.generation
    BY <1>2 DEF Service
  <2> HIDE DEF z
  <2> QED BY <1>8, <2>1, <2>2
<1>12. Only([w EXCEPT !.service.failOpen = b], w)
  BY <1>2, <1>8 DEF Service
<1>13. Only([w EXCEPT !.service.visible = b], w)
  BY <1>2, <1>8 DEF Service
<1>14. Only([w EXCEPT !.service.inspecting = b], w)
  BY <1>2, <1>8 DEF Service
<1> QED BY <1>5, <1>6, <1>7, <1>9, <1>10, <1>11, <1>12, <1>13, <1>14

(* What a handler does to the world it is given.                              *)
Handled(v, w) == Good(v) /\ Shut(v, w) /\ v.posted = w.posted

LEMMA SteadyShut ==
  ASSUME NEW v, NEW w, Steady(v, w)
  PROVE  Shut(v, w)
BY DEF Steady, Shut

LEMMA ShutTwice ==
  ASSUME NEW u, NEW v, NEW w, Shut(u, v), Shut(v, w)
  PROVE  Shut(u, w)
BY DEF Shut

LEMMA OnlyHandled ==
  ASSUME NEW w, Good(w), NEW v, Only(v, w)
  PROVE  Handled(v, w)
BY OnlyKeeps, AroundKeeps, SteadyShut DEF Handled, Only, Around

LEMMA HandledTwice ==
  ASSUME NEW u, NEW v, NEW w, Handled(u, v), Handled(v, w)
  PROVE  Handled(u, w)
BY ShutTwice DEF Handled

LEMMA NothingWaits ==
  ASSUME NEW w, Sound(w), w.objects[w.service.state].pending = 0
  PROVE  /\ \A i \in DOMAIN w.edits : w.edits[i].state # w.service.state
         /\ \A i \in DOMAIN w.edits : w.edits[i].kind # "Inspect" => w.objects[w.edits[i].state].cancelled
<1>1. w \in WorldSet /\ PendingOK(w) /\ StaleOK(w) /\ w.service.state \in 1 .. MaxObjects
  BY DEF Sound, WorldSet, Service
<1>2. w.edits \in Seq(EditSession)
  BY <1>1 DEF WorldSet
<1>3. Cardinality(With(w.edits, w.service.state)) = 0
  BY <1>1 DEF PendingOK
<1>4. With(w.edits, w.service.state) = {}
  BY <1>2, <1>3, WithFinite, FS_EmptySet
<1>5. \A i \in DOMAIN w.edits : w.edits[i].state # w.service.state
  BY <1>4 DEF With
<1> QED BY <1>1, <1>5, WaitingTyped DEF StaleOK

(* A state that nothing waits with may be replaced, unless it still has a     *)
(* composition that was cancelled.                                           *)
LEMMA MayReplace ==
  ASSUME NEW w, Good(w), w.objects[w.service.state].pending = 0,
         Calm => ~Composed(w, w.service.state)
  PROVE  Leaving(w)
<1>1. w \in WorldSet /\ PendingOK(w) /\ TiedOK(w) /\ (Calm => StrandedOK(w)) /\ Sound(w)
  BY DEF Good, Sound
<1>2. \A i \in DOMAIN w.edits : w.edits[i].kind # "Inspect" => w.objects[w.edits[i].state].cancelled
  BY <1>1, NothingWaits
<1>3. \A i \in DOMAIN w.posted : w.posted[i].state = w.posted[i].edit.state
  BY <1>1 DEF TiedOK
<1>4. Calm => \A s \in 1 .. MaxObjects : Composed(w, s) => Finishing(w, s)
  BY <1>1 DEF StrandedOK
<1> QED BY <1>1, <1>2, <1>3, <1>4 DEF Leaving

LEMMA ReplaceHandled ==
  ASSUME NEW w, Leaving(w), Room(w)
  PROVE  Handled(ReplaceState(w), w)
BY ReplaceStateKeeps, SteadyShut DEF Handled

LEMMA CancelHandled ==
  ASSUME NEW w, Good(w),
         Calm => \A i \in DOMAIN w.posted : w.posted[i].state = w.service.state => ~w.posted[i].consumed
  PROVE  Handled(CancelPendingEdits(w, w.service.state), w)
<1> DEFINE st == w.service.state
           v == CancelPendingEdits(w, st)
<1>1. w \in WorldSet /\ Sound(w) /\ st \in 1 .. MaxObjects
  BY DEF Good, Sound, WorldSet, Service
<1>2. /\ Same(v, w) /\ v.document = w.document
      /\ \A t \in 1 .. MaxObjects : t # st => v.objects[t] = w.objects[t]
      /\ v.objects[st].pending = w.objects[st].pending /\ v.objects[st].tracks = w.objects[st].tracks
      /\ v.objects[st].cancelled
  BY <1>1, CancelKeeps
<1> HIDE DEF v
<1>3. v \in WorldSet /\ v.service = w.service /\ v.edits = w.edits /\ v.posted = w.posted
  BY <1>2 DEF Same
<1>4. \A t \in 1 .. MaxObjects :
           /\ v.objects[t].pending = w.objects[t].pending
           /\ w.objects[t].cancelled => v.objects[t].cancelled
           /\ t # w.service.state =>
                v.objects[t].cancelled = w.objects[t].cancelled /\ v.objects[t].tracks = w.objects[t].tracks
  BY <1>2
<1>5. v.objects[w.service.state].tracks = w.objects[w.service.state].tracks
  BY <1>2
<1>6. Sound(v)
  BY <1>1, <1>3, <1>4, <1>5, SoundKept
<1>7. Calm => CancelledOK(v)
  BY <1>3 DEF CancelledOK
<1>8. Shut(v, w)
  BY <1>2 DEF Shut
<1> QED BY <1>3, <1>6, <1>7, <1>8 DEF Handled, Good, v

(* An edit that completed is one of the service's state that was not          *)
(* cancelled; one that was blocked is not followed by any that wrote.         *)
Expected(w, out) ==
  /\ out \in EditOutcome
  /\ Calm /\ out.state = w.service.state =>
       /\ out.consumed => ~w.objects[w.service.state].cancelled
       /\ out.blocked =>
            \A i \in DOMAIN w.posted : w.posted[i].state = w.service.state => ~w.posted[i].consumed

LEMMA HandleEditCompletedKeeps ==
  ASSUME NEW w, Good(w), Room(w), NEW out, Expected(w, out)
  PROVE  Handled(HandleEditCompleted(w, out), w)
<1> DEFINE st == w.service.state
           ended == EndDaemonSession(w)
           halted == Suppress(ended)
           stopped == [halted EXCEPT !.service.raw = <<>>, !.service.failOpen = FALSE]
           unknown == [stopped EXCEPT !.service.privacy = "Unknown"]
           failing == [ended EXCEPT !.service.failOpen = TRUE]
           over == [ended EXCEPT !.service.raw = <<>>, !.service.failOpen = FALSE]
           shown == [w EXCEPT !.service.visible = out.edit.offers]
           v == HandleEditCompleted(w, out)
<1>1. w \in WorldSet /\ <<>> \in Literal /\ out.edit.offers \in BOOLEAN
  <2>1. out.edit \in EditSession
    BY DEF Expected, EditOutcome
  <2>2. out.edit.offers \in BOOLEAN
    BY <2>1, EditSessions DEF Edits, Inspections
  <2> QED BY <2>2 DEF Good, Sound, Literal
<1>2. Only(ended, w) /\ ended \in WorldSet
  <2>1. Only(ended, w)
    BY <1>1, ServiceOnly
  <2> QED BY <2>1 DEF Only, Around
<1> HIDE DEF ended
<1>3. Only(halted, w) /\ halted \in WorldSet
  <2>1. Only(halted, ended)
    BY <1>1, <1>2, ServiceOnly
  <2>2. Only(halted, w)
    BY <1>2, <2>1, OnlyTwice
  <2> QED BY <2>2 DEF Only, Around
<1> HIDE DEF halted
<1>4. Only(stopped, w) /\ stopped \in WorldSet
  <2>1. Only(stopped, halted)
    BY <1>1, <1>3, ServiceOnly
  <2>2. Only(stopped, w)
    BY <1>3, <2>1, OnlyTwice
  <2> QED BY <2>2 DEF Only, Around
<1> HIDE DEF stopped
<1>5. Only(unknown, w)
  <2>1. Only(unknown, stopped)
    BY <1>4 DEF Only, Around, WorldSet, Service
  <2> QED BY <1>4, <2>1, OnlyTwice
<1> HIDE DEF unknown
<1>6. Only(failing, w) /\ Only(over, w)
  <2>1. Only(failing, ended) /\ Only(over, ended)
    BY <1>1, <1>2, ServiceOnly
  <2> QED BY <1>2, <2>1, OnlyTwice
<1> HIDE DEF failing, over
<1>7. Only(shown, w)
  BY <1>1, ServiceOnly
<1> HIDE DEF shown
<1>8. Only(w, w)
  BY <1>1 DEF Only, Around
<1>9. \/ v \in {w, stopped, failing, halted, shown}
      \/ out.state = st /\ out.blocked /\ v = CancelPendingEdits(unknown, st)
      \/ /\ out.state = st /\ out.consumed /\ w.objects[st].pending \notin {n \in Nat : n > 0}
         /\ v = ReplaceState(over)
  BY DEF HandleEditCompleted, ended, halted, stopped, unknown, failing, over, shown
<1> HIDE DEF v
<1>10. CASE v \in {w, stopped, failing, halted, shown}
  BY <1>3, <1>4, <1>6, <1>7, <1>8, <1>10, OnlyHandled DEF v
<1>11. CASE out.state = st /\ out.blocked /\ v = CancelPendingEdits(unknown, st)
  <2>1. Handled(unknown, w) /\ unknown.service.state = st /\ unknown.posted = w.posted
    BY <1>5, OnlyHandled DEF Only, Around
  <2>2. Handled(v, unknown)
    BY <1>11, <2>1, CancelHandled DEF Expected, Handled
  <2> QED BY <2>1, <2>2, HandledTwice DEF v
<1>12. CASE /\ out.state = st /\ out.consumed /\ w.objects[st].pending \notin {n \in Nat : n > 0}
            /\ v = ReplaceState(over)
  <2>1. w.objects[st].pending \in Nat
    <3>1. w.objects[st] \in CompositionState
      BY <1>1 DEF WorldSet, Service
    <3> QED BY <3>1 DEF CompositionState
  <2>2. w.objects[st].pending = 0
    BY <1>12, <2>1
  <2>3. Calm => ~Composed(w, st)
    BY <1>12 DEF Expected, Composed
  <2>4. Leaving(w)
    BY <2>2, <2>3, MayReplace
  <2>5. Leaving(over) /\ Room(over)
    BY <1>6, <2>4, AroundKeeps DEF Only
  <2>6. Handled(v, over)
    BY <1>12, <2>5, ReplaceHandled
  <2>7. Handled(over, w)
    BY <1>6, OnlyHandled
  <2> QED BY <2>6, <2>7, HandledTwice DEF v
<1> QED BY <1>9, <1>10, <1>11, <1>12

(* Leaving a context gives a world with a state of its own and no context.    *)
Closed(v, w) ==
  /\ Handled(v, w) /\ Ready(v)
  /\ v.service.context = None /\ v.service.state \notin Held(v)

LEMMA ForgottenCloses ==
  ASSUME NEW w, Sound(w), w.objects[w.service.state].cancelled,
         Calm /\ Composed(w, w.service.state) => Finishing(w, w.service.state), Room(w)
  PROVE  Closed(Forgotten(w), w)
<1> DEFINE ended == EndDaemonSession(w)
           x == [ended EXCEPT
                  !.owed = {}, !.service.context = None, !.service.raw = <<>>, !.service.presented = <<>>,
                  !.service.failOpen = FALSE, !.service.inspecting = FALSE, !.service.privacy = "Unknown",
                  !.service.generation = @ + 1]
           z == [ended.service EXCEPT
                  !.context = None, !.raw = <<>>, !.presented = <<>>,
                  !.failOpen = FALSE, !.inspecting = FALSE, !.privacy = "Unknown", !.generation = @ + 1]
           v == Forgotten(w)
<1>1. w \in WorldSet /\ PendingOK(w) /\ TiedOK(w) /\ StaleOK(w) /\ (Calm => StrandedOK(w)) /\ <<>> \in Literal
  BY DEF Sound, Literal
<1>2. Only(ended, w) /\ ended \in WorldSet
  <2>1. Only(ended, w)
    BY <1>1, ServiceOnly
  <2> QED BY <2>1 DEF Only, Around
<1> HIDE DEF ended
<1>3. x = [ended EXCEPT !.service = z, !.owed = {}]
  BY <1>2, ZenonT(30) DEF WorldSet
<1>4. z \in Service /\ z.state = ended.service.state /\ z.context = None
  <2>1. ended.service \in Service
    BY <1>2 DEF WorldSet
  <2> DEFINE s0 == ended.service
             z1 == [s0 EXCEPT !.context = None, !.raw = <<>>, !.presented = <<>>]
             n == s0.generation + 1
             z2 == [z1 EXCEPT !.failOpen = FALSE, !.inspecting = FALSE, !.privacy = "Unknown", !.generation = n]
  <2> HIDE DEF s0
  <2>2. z1 \in Service /\ z1.state = s0.state /\ z1.context = None /\ z1.generation = s0.generation
    BY <1>1, <2>1 DEF Service, s0
  <2>3. n \in Nat
    BY <2>1 DEF Service, s0
  <2>4. z = z2
    BY <2>1 DEF s0, Service
  <2> HIDE DEF z1, n
  <2>5. z2 \in Service /\ z2.state = z1.state /\ z2.context = z1.context
    BY <2>2, <2>3 DEF Service
  <2> QED BY <2>2, <2>4, <2>5 DEF s0
<1> HIDE DEF z
<1>5. Around(x, ended) /\ x.service = z
  <2>1. /\ x.service = z /\ x.owed = {} /\ x.objects = ended.objects /\ x.edits = ended.edits
        /\ x.posted = ended.posted /\ x.document = ended.document
    BY <1>2, <1>3 DEF WorldSet
  <2>2. x = [ended EXCEPT !.service = z, !.owed = {}] /\ z \in Service /\ ended \in WorldSet
    BY <1>2, <1>3, <1>4
  <2> HIDE DEF x
  <2>3. x \in WorldSet
    BY <2>2 DEF WorldSet
  <2> QED BY <1>4, <2>1, <2>3 DEF Around
<1>6. v = ReplaceState(x)
  BY DEF Forgotten, ended
<1> HIDE DEF x, v
<1>7. Leaving(w)
  <2>1. \A i \in DOMAIN w.posted : w.posted[i].state = w.posted[i].edit.state
    BY <1>1 DEF TiedOK
  <2>2. \A i \in DOMAIN w.edits : w.edits[i].kind # "Inspect" => w.objects[w.edits[i].state].cancelled
    BY <1>1, WaitingTyped DEF StaleOK
  <2>3. Calm => \A s \in 1 .. MaxObjects : Composed(w, s) => Finishing(w, s)
    BY <1>1 DEF StrandedOK
  <2> QED BY <1>1, <2>1, <2>2, <2>3 DEF Leaving
<1>8. Around(x, w)
  BY <1>2, <1>5 DEF Only, Around
<1>9. Leaving(x) /\ Room(x) /\ Steady(x, w) /\ x.posted = w.posted
  BY <1>7, <1>8, AroundKeeps DEF Around
<1>10. /\ Good(v) /\ Steady(v, x) /\ Ready(v) /\ v.posted = x.posted
       /\ v.service = [x.service EXCEPT !.state = v.service.state] /\ v.service.state \notin Held(v)
  BY <1>6, <1>9, ReplaceStateKeeps
<1>11. v.service.context = None
  <2>1. x.service.context = None /\ x.service \in Service
    BY <1>4, <1>5
  <2> DEFINE n == v.service.state
  <2>2. [x.service EXCEPT !.state = n].context = None
    BY <2>1 DEF Service
  <2> QED BY <1>10, <2>2
<1>12. Shut(v, w)
  BY <1>9, <1>10, SteadyShut, ShutTwice
<1> QED BY <1>9, <1>10, <1>11, <1>12 DEF Closed, Handled, v

LEMMA EditTyped ==
  ASSUME NEW w \in WorldSet, w.service.context \in Contexts,
         NEW kind \in {"Decision", "FailOpen", "Finish"},
         NEW action \in {"Compose", "Commit", "Cancel", "PassThrough"},
         NEW text \in Literal, NEW literal \in Literal, NEW offers \in BOOLEAN
  PROVE  LET e == Edit(w, kind, action, text, literal, offers)
         IN /\ e \in Edits /\ e.kind = kind /\ e.generation = w.service.generation
            /\ e.context = w.service.context /\ e.state = w.service.state
<1>1. w.service.generation \in Nat /\ w.service.state \in 1 .. MaxObjects
  BY DEF WorldSet, Service
<1> QED BY <1>1 DEF Edit, Edits

LEMMA InspectionTyped ==
  ASSUME NEW w \in WorldSet, w.service.context \in Contexts
  PROVE  LET e == Edit(w, "Inspect", "None", <<>>, <<>>, FALSE)
         IN /\ e \in Inspections /\ e.kind = "Inspect" /\ e.generation = w.service.generation
            /\ e.context = w.service.context /\ e.state = 0
<1>1. w.service.generation \in Nat
  BY DEF WorldSet, Service
<1> QED BY <1>1 DEF Edit, Inspections

LEMMA SubmittedGood ==
  ASSUME NEW w, Good(w), NEW e, NEW sent, Submitted(sent, w, e)
  PROVE  Handled(sent.w, w)
BY DEF Good, Submitted, Handled, CancelledOK

LEMMA SubmitFinishKeeps ==
  ASSUME FieldType, NEW w, Sound(w), w.objects[w.service.state].cancelled, w.service.context \in Contexts,
         NEW answer, NEW F
  PROVE  LET v == SubmitFinish(w, answer, F)
             st == w.service.state
         IN /\ Sound(v) /\ v.service = w.service /\ v.posted = w.posted /\ Shut(v, w)
            /\ v.objects[st].cancelled
            /\ Composed(v, st) => Finishing(v, st)
            /\ Held(v) \subseteq Held(w) \cup {st}
<1> DEFINE st == w.service.state
           e == Edit(w, "Finish", "Cancel", w.service.presented, <<>>, FALSE)
           sent == Submit(w, e, answer, F)
           v == SubmitFinish(w, answer, F)
           a == Abandon(sent.w, st)
<1>1. w \in WorldSet /\ st \in 1 .. MaxObjects /\ w.service.presented \in Literal /\ <<>> \in Literal
  BY DEF Sound, WorldSet, Service, Literal
<1>2. /\ e \in Edits /\ e.kind = "Finish" /\ e.generation = w.service.generation
      /\ e.context = w.service.context /\ e.state = st
  <2>1. w.service.generation \in Nat
    BY <1>1 DEF WorldSet, Service
  <2> QED BY <1>1, <2>1 DEF Edit, Edits
<1> HIDE DEF e
<1>3. e \in EditSession
  BY <1>2, EditSessions
<1>4. Submitted(sent, w, e)
  BY <1>2, <1>3, SubmitKeeps
<1>5. v = IF sent.status = "Rejected" THEN a ELSE sent.w
  BY DEF SubmitFinish, OrAbandoned, e
<1>6. sent.status \in {"Rejected", "Completed", "Queued"}
  BY DEF Submit, AtOnce
<1> HIDE DEF sent, v
<1>7. /\ Sound(sent.w) /\ sent.w.service = w.service /\ sent.w.posted = w.posted /\ Shut(sent.w, w)
      /\ sent.w.objects[st].cancelled /\ Held(sent.w) \subseteq Held(w) \cup {st}
      /\ sent.w \in WorldSet
  BY <1>2, <1>4 DEF Submitted, Sound
<1>8. CASE sent.status # "Rejected"
  <2>1. Composed(sent.w, st) => Finishing(sent.w, st)
    BY <1>2, <1>4, <1>6, <1>8 DEF Submitted, Composed
  <2> QED BY <1>5, <1>7, <1>8, <2>1 DEF v
<1>9. CASE sent.status = "Rejected"
  <2>1. /\ Same(a, sent.w) /\ Steady(a, sent.w)
        /\ \A t \in 1 .. MaxObjects : t # st => a.objects[t] = sent.w.objects[t]
        /\ a.objects[st].pending = sent.w.objects[st].pending /\ a.objects[st].tracks = "nothing"
        /\ a.objects[st].cancelled
    BY <1>1, <1>7, AbandonKeeps
  <2> HIDE DEF a
  <2>2. a \in WorldSet /\ a.service = w.service /\ a.edits = sent.w.edits /\ a.posted = w.posted
    BY <1>7, <2>1 DEF Same
  <2>3. w.service.context # None
    BY TextServiceAssumption
  <2>4. \A t \in 1 .. MaxObjects :
           /\ a.objects[t].pending = sent.w.objects[t].pending
           /\ sent.w.objects[t].cancelled => a.objects[t].cancelled
           /\ t # sent.w.service.state =>
                a.objects[t].cancelled = sent.w.objects[t].cancelled /\ a.objects[t].tracks = sent.w.objects[t].tracks
    BY <1>7, <2>1
  <2>5. Sound(a)
    BY <1>7, <2>2, <2>3, <2>4, SoundKept
  <2>6. Held(a) = Held(sent.w)
    BY <1>7, <2>2 DEF Held
  <2>7. Shut(a, w)
    BY <1>7, <2>1, SteadyShut, ShutTwice
  <2>8. ~Composed(a, st)
    BY <2>1 DEF Composed
  <2> QED BY <1>5, <1>7, <1>9, <2>1, <2>2, <2>5, <2>6, <2>7, <2>8 DEF v
<1> QED BY <1>8, <1>9

LEMMA CloseActiveContextCloses ==
  ASSUME FieldType, NEW w, Good(w), Ready(w), NEW answer, NEW F
  PROVE  Closed(CloseActiveContext(w, answer, F), w)
<1> DEFINE st == w.service.state
           c == CancelPendingEdits(w, st)
           f == SubmitFinish(c, answer, F)
           v == CloseActiveContext(w, answer, F)
<1>1. w \in WorldSet /\ Sound(w) /\ st \in 1 .. MaxObjects /\ w.service.context \in Contexts \cup {None}
  BY DEF Good, Sound, WorldSet, Service
<1>2. /\ Same(c, w) /\ c.document = w.document
      /\ \A t \in 1 .. MaxObjects : t # st => c.objects[t] = w.objects[t]
      /\ c.objects[st].pending = w.objects[st].pending /\ c.objects[st].tracks = w.objects[st].tracks
      /\ c.objects[st].cancelled
  BY <1>1, CancelKeeps
<1>3. v = Forgotten(IF w.service.context = None \/ ~Active(w, st) THEN c ELSE f)
  BY DEF CloseActiveContext
<1> HIDE DEF c
<1>4. c \in WorldSet /\ c.service = w.service /\ c.edits = w.edits /\ c.posted = w.posted
  BY <1>2 DEF Same
<1>5. \A t \in 1 .. MaxObjects :
           /\ c.objects[t].pending = w.objects[t].pending
           /\ w.objects[t].cancelled => c.objects[t].cancelled
           /\ t # w.service.state =>
                c.objects[t].cancelled = w.objects[t].cancelled /\ c.objects[t].tracks = w.objects[t].tracks
  BY <1>2
<1>6. Sound(c)
  <2>1. c.objects[st].tracks = w.objects[st].tracks
    BY <1>2
  <2> HIDE DEF st
  <2> QED BY <1>1, <1>4, <1>5, <2>1, SoundKept DEF st
<1>7. Held(c) = Held(w) /\ Shut(c, w)
  BY <1>2, <1>4 DEF Held, Shut
<1> HIDE DEF v
<1>8. CASE w.service.context = None \/ ~Active(w, st)
  <2>1. Calm => ~Composed(c, st)
    BY <1>1, <1>2, <1>8 DEF Sound, StrandedOK, Composed, Active
  <2>2. Room(c)
    BY <1>7 DEF Ready, Room
  <2>3. Closed(Forgotten(c), c)
    BY <1>2, <1>4, <1>6, <2>1, <2>2, ForgottenCloses
  <2>4. v = Forgotten(c)
    BY <1>3, <1>8
  <2> QED BY <1>4, <1>7, <2>3, <2>4, ShutTwice DEF Closed, Handled, v
<1>9. CASE ~(w.service.context = None \/ ~Active(w, st))
  <2>1. w.service.context \in Contexts
    BY <1>1, <1>9
  <2>2. /\ Sound(f) /\ f.service = w.service /\ f.posted = w.posted /\ Shut(f, c)
        /\ f.objects[st].cancelled
        /\ Composed(f, st) => Finishing(f, st)
        /\ Held(f) \subseteq Held(c) \cup {st}
    BY <1>2, <1>4, <1>6, <2>1, SubmitFinishKeeps
  <2> HIDE DEF f
  <2>3. Room(f)
    BY <1>7, <1>9, <2>2 DEF Ready, Room
  <2>4. Closed(Forgotten(f), f)
    BY <2>2, <2>3, ForgottenCloses
  <2>5. v = Forgotten(f)
    BY <1>3, <1>9
  <2>6. Shut(f, w)
    BY <1>7, <2>2, ShutTwice
  <2> QED BY <2>2, <2>4, <2>5, <2>6, ShutTwice DEF Closed, Handled, v
<1> QED BY <1>8, <1>9

(* A call that leaves room for another to replace the state.                  *)
Eased(v, w) == Handled(v, w) /\ Ready(v)

LEMMA OnlyEased ==
  ASSUME NEW w, Good(w), Ready(w), NEW v, Only(v, w)
  PROVE  Eased(v, w)
BY OnlyHandled, AroundKeeps DEF Eased, Only

LEMMA EasedTwice ==
  ASSUME NEW u, NEW v, NEW w, Eased(u, v), Eased(v, w)
  PROVE  Eased(u, w)
BY HandledTwice DEF Eased

LEMMA HandleInspectedKeeps ==
  ASSUME FieldType, NEW w, Good(w), Ready(w), NEW out, NEW answer, NEW F
  PROVE  LET v == HandleInspected(w, out, answer, F)
         IN Eased(v, w)
<1> DEFINE seen == [w EXCEPT !.service.inspecting = FALSE]
           safe == [seen EXCEPT !.service.privacy = "Safe"]
           halted == Suppress(seen)
           closed == CloseActiveContext(halted, answer, F)
           v == HandleInspected(w, out, answer, F)
<1>1. w \in WorldSet /\ <<>> \in Literal
  BY DEF Good, Sound, Literal
<1>2. v \in {w, seen, safe, closed}
  BY DEF HandleInspected
<1> HIDE DEF v
<1>3. Only(seen, w) /\ seen \in WorldSet
  <2>1. Only(seen, w)
    BY <1>1, ServiceOnly
  <2> QED BY <2>1 DEF Only, Around
<1> HIDE DEF seen
<1>4. Only(safe, w)
  <2>1. Only(safe, seen)
    BY <1>3 DEF Only, Around, WorldSet, Service
  <2> QED BY <1>3, <2>1, OnlyTwice
<1> HIDE DEF safe
<1>5. Only(halted, w)
  <2>1. Only(halted, seen)
    BY <1>1, <1>3, ServiceOnly
  <2> QED BY <1>3, <2>1, OnlyTwice
<1> HIDE DEF halted
<1>6. Eased(halted, w) /\ Good(halted)
  BY <1>5, OnlyEased DEF Eased, Handled
<1>7. Eased(closed, w)
  <2>1. Closed(closed, halted)
    BY <1>6, CloseActiveContextCloses DEF Eased
  <2> QED BY <1>6, <2>1, EasedTwice DEF Closed, Eased
<1>8. Only(w, w)
  BY <1>1 DEF Only, Around
<1> QED BY <1>2, <1>3, <1>4, <1>7, <1>8, OnlyEased DEF v

LEMMA InspectUnknownKeeps ==
  ASSUME FieldType, NEW w, Good(w), Ready(w), w.service.context \in Contexts, NEW answer, NEW F
  PROVE  Eased(InspectUnknown(w, answer, F), w)
<1> DEFINE asked == [w EXCEPT !.service.inspecting = TRUE]
           e == Edit(asked, "Inspect", "None", <<>>, <<>>, FALSE)
           sent == Submit(asked, e, answer, F)
           v == InspectUnknown(w, answer, F)
           h == HandleInspected(sent.w, sent.out, answer, F)
<1>1. w \in WorldSet /\ <<>> \in Literal
  BY DEF Good, Sound, Literal
<1>2. Only(asked, w)
  BY <1>1, ServiceOnly
<1>3. v \in {w, sent.w, h}
  <2>1. sent.status \in {"Rejected", "Completed", "Queued"}
    BY DEF Submit, AtOnce
  <2> QED BY <2>1 DEF InspectUnknown, InspectionAnswered
<1> HIDE DEF asked, v
<1>4. Eased(asked, w) /\ Good(asked) /\ asked \in WorldSet /\ asked.service.context \in Contexts
  BY <1>2, OnlyEased DEF Eased, Handled, Good, Sound, Only
<1>5. /\ e \in Inspections /\ e.kind = "Inspect" /\ e.generation = asked.service.generation
      /\ e.context = asked.service.context /\ e.state = 0
  BY <1>4, InspectionTyped
<1> HIDE DEF e
<1>6. e \in EditSession /\ e \notin Edits
  BY <1>5, EditSessions DEF Edits
<1>7. Submitted(sent, asked, e)
  BY <1>4, <1>5, <1>6, SubmitKeeps DEF Good
<1> HIDE DEF sent
<1>8. Eased(sent.w, asked)
  <2>1. Handled(sent.w, asked)
    BY <1>4, <1>7, SubmittedGood
  <2>2. 0 \notin 1 .. MaxObjects
    OBVIOUS
  <2>3. Ready(sent.w)
    BY <1>4, <1>5, <1>7, <2>2 DEF Submitted, Ready, Active, Eased
  <2> QED BY <2>1, <2>3 DEF Eased
<1>9. Eased(sent.w, w)
  BY <1>4, <1>8, EasedTwice
<1>10. Eased(h, w)
  <2>1. Eased(h, sent.w)
    BY <1>8, HandleInspectedKeeps DEF Eased, Handled
  <2> QED BY <1>9, <2>1, EasedTwice
<1>11. Eased(w, w)
  BY <1>1, OnlyEased DEF Only, Around
<1> QED BY <1>3, <1>9, <1>10, <1>11 DEF v

LEMMA TakeUpKeeps ==
  ASSUME FieldType, NEW w, Good(w), Ready(w), NEW c \in Contexts, NEW answer, NEW F
  PROVE  Eased(TakeUp(w, c, answer, F), w) /\ TakeUp(w, c, answer, F).service.context = c
<1> DEFINE x == CloseActiveContext(w, answer, F)
           v == [x EXCEPT !.service.context = c, !.service.generation = @ + 1, !.service.suppressed = FALSE]
           n == x.service.generation + 1
           z == [x.service EXCEPT !.context = c, !.generation = n, !.suppressed = FALSE]
<1>1. Closed(x, w)
  BY CloseActiveContextCloses
<1>2. TakeUp(w, c, answer, F) = IF w.service.context = c THEN w ELSE v
  BY DEF TakeUp
<1> HIDE DEF x
<1>3. x \in WorldSet /\ Good(x) /\ Ready(x) /\ x.service.state \notin Held(x) /\ x.service \in Service
  BY <1>1 DEF Closed, Handled, Good, Sound, WorldSet
<1>4. z \in Service /\ z.state = x.service.state /\ z.context = c
  <2>1. n \in Nat
    BY <1>3 DEF Service
  <2> HIDE DEF n
  <2> QED BY <1>3, <2>1 DEF Service
<1>5. v = [x EXCEPT !.service = z]
  BY <1>3 DEF WorldSet
<1> HIDE DEF z
<1>6. Around(v, x) /\ v.service = z
  BY <1>3, <1>4, <1>5 DEF Around, WorldSet
<1> HIDE DEF v
<1>7. Good(v)
  <2>1. v \in WorldSet /\ PendingOK(v) /\ StaleOK(v)
    BY <1>3, <1>6 DEF Around, Good, Sound, PendingOK, StaleOK
  <2>2. TiedOK(v)
    <3>1. \A i \in DOMAIN v.edits : v.edits[i].state # v.service.state
      BY <1>3, <1>6, HeldWaits DEF Around
    <3>2. \A i \in DOMAIN v.posted : v.posted[i].state # v.service.state /\ v.posted[i].state = v.posted[i].edit.state
      BY <1>3, <1>6 DEF Around, Held, Good, Sound, TiedOK
    <3> QED BY <3>1, <3>2 DEF TiedOK, Tied
  <2>3. v.service.context # None
    BY <1>4, <1>6, TextServiceAssumption
  <2>4. Calm => StrandedOK(v)
    BY <1>3, <1>6, <2>3 DEF Around, Good, Sound, StrandedOK, Composed, Finishing
  <2>5. Calm => CancelledOK(v)
    BY <1>3, <1>6 DEF Around, Good, CancelledOK
  <2> QED BY <2>1, <2>2, <2>4, <2>5 DEF Good, Sound
<1>8. Eased(v, w)
  <2>1. Steady(v, x) /\ Ready(v) /\ v.posted = x.posted
    BY <1>3, <1>6, AroundKeeps DEF Around
  <2> QED BY <1>1, <1>7, <2>1, SteadyShut, ShutTwice DEF Eased, Handled, Closed
<1>9. Eased(w, w)
  <2>1. Only(w, w)
    BY DEF Good, Sound, Only, Around
  <2> QED BY <2>1, OnlyEased
<1> QED BY <1>2, <1>4, <1>6, <1>8, <1>9

LEMMA PrimeContextPrivacyKeeps ==
  ASSUME FieldType, NEW w, Good(w), Ready(w), NEW c \in Contexts, NEW answer, NEW F
  PROVE  Eased(PrimeContextPrivacy(w, c, answer, F), w)
<1> DEFINE x == TakeUp(w, c, answer, F)
           v == InspectUnknown(x, answer, F)
<1>1. Eased(x, w) /\ x.service.context = c
  BY TakeUpKeeps
<1>2. PrimeContextPrivacy(w, c, answer, F) = v
  BY DEF PrimeContextPrivacy
<1> HIDE DEF x
<1>3. Eased(v, x)
  BY <1>1, InspectUnknownKeeps DEF Eased, Handled
<1> QED BY <1>1, <1>2, <1>3, EasedTwice

LEMMA PrepareSafeContextKeeps ==
  ASSUME FieldType, NEW w, Good(w), Ready(w), NEW c \in Contexts,
         NEW seen \in {"Unknown", "Safe", "Sensitive"}, NEW daemon, NEW answer, NEW F
  PROVE  LET p == PrepareSafeContext(w, c, seen, daemon, answer, F)
         IN Eased(p.w, w) /\ (p.ready => p.w.service.context = c)
<1> DEFINE x == IF w.service.context = c THEN w ELSE PrimeContextPrivacy(w, c, answer, F)
           y == IF seen = "Unknown" THEN x ELSE [x EXCEPT !.service.privacy = seen]
           p == PrepareSafeContext(w, c, seen, daemon, answer, F)
<1>1. w \in WorldSet /\ <<>> \in Literal
  BY DEF Good, Sound, Literal
<1>2. Eased(w, w)
  BY <1>1, OnlyEased DEF Only, Around
<1>3. Eased(x, w)
  BY <1>2, PrimeContextPrivacyKeeps
<1>4. /\ p.w \in {w, x, y, Suppress(y), BeginDaemonSession(y)}
      /\ p.ready => x.service.context = c /\ p.w \in {y, BeginDaemonSession(y)}
  BY DEF PrepareSafeContext, ReadyInContext, ReadyIfSafe
<1> HIDE DEF x, p
<1>5. x \in WorldSet /\ Good(x) /\ Ready(x)
  BY <1>3 DEF Eased, Handled, Good, Sound
<1>6. Only(y, x) /\ y \in WorldSet
  <2>1. CASE seen = "Unknown"
    <3>1. y = x
      BY <2>1
    <3> HIDE DEF y
    <3> QED BY <1>5, <3>1 DEF Only, Around
  <2>2. CASE seen # "Unknown"
    <3>1. y = [x EXCEPT !.service.privacy = seen]
      BY <2>2
    <3> HIDE DEF y
    <3>2. Only(y, x)
      BY <1>5, <3>1 DEF Only, Around, WorldSet, Service
    <3> QED BY <3>2 DEF Only, Around
  <2> QED BY <2>1, <2>2
<1> HIDE DEF y
<1>7. Only(Suppress(y), x) /\ Only(BeginDaemonSession(y), x)
  <2>1. Only(Suppress(y), y) /\ Only(BeginDaemonSession(y), y)
    BY <1>1, <1>6, ServiceOnly
  <2> QED BY <1>6, <2>1, OnlyTwice
<1>8. Eased(y, x) /\ Eased(Suppress(y), x) /\ Eased(BeginDaemonSession(y), x)
  BY <1>5, <1>6, <1>7, OnlyEased
<1>9. Eased(y, w) /\ Eased(Suppress(y), w) /\ Eased(BeginDaemonSession(y), w)
  BY <1>3, <1>8, EasedTwice
<1>10. p.ready => p.w.service.context = c
  BY <1>4, <1>6, <1>7 DEF Only
<1> QED BY <1>2, <1>3, <1>4, <1>9, <1>10 DEF p

(* An edit that the host ran at once, and the service hears of.               *)
LEMMA CompletedAtOnce ==
  ASSUME NEW w, Good(w), Room(w), NEW e, e.kind \in {"Decision", "FailOpen"},
         NEW sent, Submitted(sent, w, e), sent.status = "Completed",
         NEW v, Only(v, sent.w)
  PROVE  Handled(HandleEditCompleted(v, sent.out), w)
<1>1. Handled(sent.w, w) /\ Handled(v, sent.w)
  BY SubmittedGood, OnlyHandled DEF Handled
<1>2. Handled(v, w) /\ Good(v)
  BY <1>1, HandledTwice DEF Handled
<1>3. Held(sent.w) = Held(w)
  BY DEF Submitted, Held
<1>4. Room(v)
  BY <1>3, AroundKeeps DEF Only, Room
<1>5. Expected(v, sent.out)
  <2>1. sent.out \in EditOutcome /\ sent.out.consumed /\ ~sent.out.blocked /\ ~w.objects[w.service.state].cancelled
    BY DEF Submitted, OutcomeOf
  <2>2. v.objects[v.service.state].cancelled = w.objects[w.service.state].cancelled
    BY DEF Only, Around, Submitted
  <2> QED BY <2>1, <2>2 DEF Expected
<1>6. Handled(HandleEditCompleted(v, sent.out), v)
  BY <1>2, <1>4, <1>5, HandleEditCompletedKeeps
<1> QED BY <1>2, <1>6, HandledTwice

LEMMA QueueFailOpenTextKeeps ==
  ASSUME FieldType, NEW w, Good(w), Room(w), w.service.context \in Contexts, NEW literal \in Literal,
         NEW answer, NEW F
  PROVE  Handled(QueueFailOpenText(w, literal, answer, F).w, w)
<1> DEFINE asked == [w EXCEPT !.service.raw = literal, !.service.failOpen = TRUE]
           e == Edit(asked, "FailOpen", "PassThrough", <<>>, literal, FALSE)
           sent == Submit(asked, e, answer, F)
           ended == EndDaemonSession(sent.w)
           b == sent.w.objects[sent.w.service.state].failOpen
           back == [ended EXCEPT !.service.raw = w.service.raw, !.service.failOpen = b]
           h == HandleEditCompleted(ended, sent.out)
           q == QueueFailOpenText(w, literal, answer, F)
<1>1. w \in WorldSet /\ w.service.raw \in Literal /\ <<>> \in Literal
  BY DEF Good, Sound, WorldSet, Service, Literal
<1>2. Only(asked, w)
  BY <1>1, ServiceOnly
<1>3. q.w \in {back, ended} \/ (sent.status = "Completed" /\ q.w = h)
  <2>1. sent.status \in {"Rejected", "Completed", "Queued"}
    BY DEF Submit, AtOnce
  <2> HIDE DEF e
  <2>2. q = FailOpenAnswered(w.service.raw, sent)
    BY DEF QueueFailOpenText, e
  <2> HIDE DEF sent, q
  <2> QED BY <2>1, <2>2 DEF FailOpenAnswered, Passed, Eaten
<1> HIDE DEF asked, q
<1>4. Handled(asked, w) /\ Good(asked) /\ asked \in WorldSet /\ asked.service.context \in Contexts /\ Room(asked)
  BY <1>2, OnlyHandled, AroundKeeps DEF Handled, Good, Sound, Only
<1>5. /\ e \in Edits /\ e.kind = "FailOpen" /\ e.generation = asked.service.generation
      /\ e.context = asked.service.context /\ e.state = asked.service.state
  <2>1. asked.service.generation \in Nat /\ asked.service.state \in 1 .. MaxObjects
    BY <1>4 DEF WorldSet, Service
  <2> QED BY <1>1, <1>4, <2>1 DEF Edit, Edits
<1> HIDE DEF e
<1>6. e \in EditSession
  BY <1>5, EditSessions
<1>7. Submitted(sent, asked, e)
  BY <1>4, <1>5, <1>6, SubmitKeeps DEF Good
<1> HIDE DEF sent
<1>8. Handled(sent.w, w) /\ sent.w \in WorldSet /\ Good(sent.w)
  BY <1>4, <1>7, SubmittedGood, HandledTwice DEF Handled, Good, Sound
<1>9. Only(ended, sent.w) /\ ended \in WorldSet
  <2>1. Only(ended, sent.w)
    BY <1>1, <1>8, ServiceOnly
  <2> QED BY <2>1 DEF Only, Around
<1>10. b \in BOOLEAN
  <2>1. sent.w.objects[sent.w.service.state] \in CompositionState
    BY <1>8 DEF WorldSet, Service
  <2> QED BY <2>1 DEF CompositionState
<1> HIDE DEF ended, b
<1>11. Only(back, sent.w)
  <2>1. Only(back, ended)
    BY <1>1, <1>9, <1>10, ServiceOnly
  <2> QED BY <1>9, <2>1, OnlyTwice
<1> HIDE DEF back
<1>12. Handled(back, w) /\ Handled(ended, w)
  BY <1>8, <1>9, <1>11, OnlyHandled, HandledTwice
<1>13. sent.status = "Completed" => Handled(h, w)
  <2>1. sent.status = "Completed" => Handled(h, asked)
    BY <1>4, <1>5, <1>7, <1>9, CompletedAtOnce
  <2> QED BY <1>4, <2>1, HandledTwice
<1> QED BY <1>3, <1>12, <1>13 DEF q

Decisions == [action : {"Compose", "Commit", "Cancel", "PassThrough"}, text : Literal, offers : BOOLEAN]

LEMMA ApplyDecisionKeeps ==
  ASSUME FieldType, NEW w, Good(w), Room(w), w.service.context \in Contexts, NEW literal \in Literal,
         NEW d \in Decisions, NEW answer, NEW F
  PROVE  Handled(ApplyDecision(w, d, literal, answer, F).w, w)
<1> DEFINE shown == IF d.action = "Compose" THEN d.text ELSE <<>>
           asked == [w EXCEPT !.service.raw = shown, !.service.presented = shown]
           e == Edit(asked, "Decision", d.action, d.text, literal, d.offers)
           sent == Submit(asked, e, answer, F)
           ended == EndDaemonSession(sent.w)
           back == [ended EXCEPT !.service.raw = w.service.raw, !.service.presented = w.service.presented]
           h == HandleEditCompleted(sent.w, sent.out)
           q == ApplyDecision(w, d, literal, answer, F)
<1>1. /\ w \in WorldSet /\ w.service.raw \in Literal /\ w.service.presented \in Literal /\ <<>> \in Literal
      /\ shown \in Literal
  BY DEF Good, Sound, WorldSet, Service, Literal, Decisions
<1>2. Only(asked, w)
  <2> HIDE DEF shown
  <2> QED BY <1>1, ServiceOnly
<1>3. q.w \in {back, sent.w} \/ (sent.status = "Completed" /\ q.w = h)
  <2>1. sent.status \in {"Rejected", "Completed", "Queued"}
    BY DEF Submit, AtOnce
  <2> HIDE DEF e
  <2>2. q = DecisionAnswered(w.service.raw, w.service.presented, sent)
    BY DEF ApplyDecision, e
  <2> HIDE DEF sent, q
  <2> QED BY <2>1, <2>2 DEF DecisionAnswered, Passed, Eaten
<1> HIDE DEF asked, q
<1>4. Handled(asked, w) /\ Good(asked) /\ asked \in WorldSet /\ asked.service.context \in Contexts /\ Room(asked)
  BY <1>2, OnlyHandled, AroundKeeps DEF Handled, Good, Sound, Only
<1>5. /\ e \in Edits /\ e.kind = "Decision" /\ e.generation = asked.service.generation
      /\ e.context = asked.service.context /\ e.state = asked.service.state
  <2>1. asked.service.generation \in Nat /\ asked.service.state \in 1 .. MaxObjects
    BY <1>4 DEF WorldSet, Service
  <2> QED BY <1>1, <1>4, <2>1 DEF Edit, Edits, Decisions
<1> HIDE DEF e
<1>6. e \in EditSession
  BY <1>5, EditSessions
<1>7. Submitted(sent, asked, e)
  BY <1>4, <1>5, <1>6, SubmitKeeps DEF Good
<1> HIDE DEF sent
<1>8. Handled(sent.w, w) /\ sent.w \in WorldSet /\ Good(sent.w)
  BY <1>4, <1>7, SubmittedGood, HandledTwice DEF Handled, Good, Sound
<1>9. Only(ended, sent.w) /\ ended \in WorldSet
  <2>1. Only(ended, sent.w)
    BY <1>1, <1>8, ServiceOnly
  <2> QED BY <2>1 DEF Only, Around
<1> HIDE DEF ended
<1>10. Only(back, sent.w)
  <2>1. Only(back, ended)
    BY <1>1, <1>9 DEF Only, Around, WorldSet, Service
  <2> QED BY <1>9, <2>1, OnlyTwice
<1> HIDE DEF back
<1>11. Handled(back, w)
  BY <1>8, <1>10, OnlyHandled, HandledTwice
<1>12. sent.status = "Completed" => Handled(h, w)
  <2>1. Only(sent.w, sent.w)
    BY <1>8 DEF Only, Around
  <2>2. sent.status = "Completed" => Handled(h, asked)
    BY <1>4, <1>5, <1>7, <2>1, CompletedAtOnce
  <2> QED BY <1>4, <2>2, HandledTwice
<1> QED BY <1>3, <1>8, <1>11, <1>12 DEF q

(* What the daemon makes of a key, and what becomes of its session's text.    *)
LEMMA DecisionTyped ==
  ASSUME NEW session, session.text \in Literal, NEW kind, NEW k \in Nat, NEW daemon
  PROVE  Decision(session, kind, k, daemon) \in Decisions
<1> DEFINE longer == Append(session.text, k)
           yes == daemon = "offers"
<1>1. longer \in Literal /\ <<>> \in Literal /\ yes \in BOOLEAN
  BY DEF Literal
<1>2. Decided("Compose", longer, yes) \in Decisions /\ Decided("Commit", longer, FALSE) \in Decisions
  BY <1>1 DEF Decided, Decisions
<1>3. Decided("Cancel", <<>>, FALSE) \in Decisions /\ Decided("PassThrough", <<>>, FALSE) \in Decisions
  BY <1>1 DEF Decided, Decisions
<1>4. Decision(session, kind, k, daemon) \in
        {Decided("Compose", longer, yes), Decided("Commit", longer, FALSE),
         Decided("Cancel", <<>>, FALSE), Decided("PassThrough", <<>>, FALSE)}
  BY DEF Decision
<1> HIDE DEF longer, yes
<1> QED BY <1>2, <1>3, <1>4

LEMMA FollowedKeeps ==
  ASSUME NEW w \in WorldSet, NEW d \in Decisions
  PROVE  Only(Followed(w, d), w)
<1> DEFINE text == IF d.action = "Compose" THEN d.text ELSE <<>>
<1>1. text \in Literal /\ w.service \in Service
  BY DEF Literal, Decisions, WorldSet
<1> DEFINE svc == [w.service EXCEPT !.session.text = text]
<1>2. Followed(w, d) = [w EXCEPT !.service = svc]
  BY DEF Followed, WorldSet
<1>3. svc \in Service /\ svc.state = w.service.state
      /\ svc.context = w.service.context /\ svc.generation = w.service.generation
  <2> HIDE DEF text
  <2> QED BY <1>1 DEF Service
<1> HIDE DEF svc
<1> QED BY <1>2, <1>3 DEF Only, Around, WorldSet

LEMMA AskDaemonKeeps ==
  ASSUME FieldType, NEW w, Good(w), Room(w), w.service.context \in Contexts, NEW kind, NEW k \in Nat,
         NEW daemon, NEW answer, NEW F
  PROVE  Handled(AskDaemon(w, kind, k, daemon, answer, F).w, w)
<1> DEFINE literal == IF kind = "Escape" THEN w.service.raw ELSE Append(w.service.raw, k)
           d == Decision(w.service.session, kind, k, daemon)
           text == IF d.action = "Compose" THEN d.text ELSE literal
           f == Followed(w, d)
<1>1. w \in WorldSet /\ w.service \in Service
  BY DEF Good, Sound, WorldSet
<1>2. literal \in Literal /\ w.service.session.text \in Literal
  BY <1>1 DEF Service, Literal
<1>3. d \in Decisions
  BY <1>2, DecisionTyped
<1>4. text \in Literal
  BY <1>2, <1>3 DEF Decisions
<1> HIDE DEF d, literal
<1>5. Only(f, w)
  BY <1>1, <1>3, FollowedKeeps
<1>6. Good(f) /\ Room(f) /\ f.service.context \in Contexts /\ Handled(f, w)
  BY <1>5, OnlyKeeps, AroundKeeps, OnlyHandled DEF Only
<1>7. AskDaemon(w, kind, k, daemon, answer, F) \in
        {QueueFailOpenText(w, literal, answer, F), Passed(w), Passed(EndDaemonSession(w)),
         ApplyDecision(f, d, text, answer, F)}
  BY DEF AskDaemon, literal, d
<1>8. Handled(QueueFailOpenText(w, literal, answer, F).w, w)
  BY <1>2, QueueFailOpenTextKeeps
<1>9. Handled(Passed(w).w, w)
  <2>1. Only(w, w)
    BY <1>1 DEF Only, Around
  <2> QED BY <2>1, OnlyHandled DEF Passed
<1>10. Handled(Passed(EndDaemonSession(w)).w, w)
  <2>1. <<>> \in Literal
    BY DEF Literal
  <2>2. Only(EndDaemonSession(w), w)
    BY <1>1, <2>1, ServiceOnly
  <2>3. Passed(EndDaemonSession(w)).w = EndDaemonSession(w)
    BY DEF Passed
  <2> QED BY <2>2, <2>3, OnlyHandled
<1>11. Handled(ApplyDecision(f, d, text, answer, F).w, w)
  <2> HIDE DEF f, text
  <2>1. Handled(ApplyDecision(f, d, text, answer, F).w, f)
    BY <1>3, <1>4, <1>6, ApplyDecisionKeeps
  <2> QED BY <1>6, <2>1, HandledTwice
<1> HIDE DEF f, text
<1> QED BY <1>7, <1>8, <1>9, <1>10, <1>11

(* Text that is out of date is dropped with its state, in the same context.   *)
LEMMA ProcessKeyKeeps ==
  ASSUME FieldType, NEW w, Good(w), Room(w), w.service.context \in Contexts, NEW kind, NEW k \in Nat,
         NEW daemon, NEW answer, NEW F
  PROVE  Handled(ProcessKey(w, kind, k, daemon, answer, F).w, w)
<1> DEFINE ended == [EndDaemonSession(w) EXCEPT !.service.raw = <<>>]
           dropped == ReplaceState(ended)
           begun == BeginDaemonSession(dropped)
           stale == /\ w.objects[w.service.state].tracks = "nothing"
                    /\ w.objects[w.service.state].pending = 0
<1>1. w \in WorldSet /\ <<>> \in Literal
  BY DEF Good, Sound, Literal
<1>2. Only(ended, w)
  <2> DEFINE e1 == EndDaemonSession(w)
  <2>1. Only(e1, w)
    BY <1>1, ServiceOnly
  <2>2. e1 \in WorldSet
    BY <2>1 DEF Only, Around
  <2> HIDE DEF e1
  <2>3. Only([e1 EXCEPT !.service.raw = <<>>], e1)
    BY <1>1, <2>2, ServiceOnly
  <2> QED BY <2>1, <2>3, OnlyTwice DEF e1
<1>3. Good(ended) /\ Room(ended) /\ Handled(ended, w) /\ ended.service.context = w.service.context
  BY <1>2, OnlyKeeps, AroundKeeps, OnlyHandled DEF Only
<1>4. ended.objects = w.objects /\ ended.service.state = w.service.state
  BY <1>2 DEF Only, Around
<1> HIDE DEF ended
<1>5. ASSUME stale
      PROVE  Handled(dropped, w) /\ Room(dropped) /\ dropped.service.context = w.service.context
             /\ dropped \in WorldSet
  <2>1. Leaving(ended)
    BY <1>3, <1>4, <1>5, MayReplace DEF Composed
  <2>2. Handled(dropped, ended)
    BY <1>3, <2>1, ReplaceHandled
  <2>3. Ready(dropped) /\ dropped.service = [ended.service EXCEPT !.state = dropped.service.state]
    BY <1>3, <2>1, ReplaceStateKeeps
  <2>4. ended.service \in Service
    BY <1>3 DEF Good, Sound, WorldSet
  <2> HIDE DEF dropped
  <2>5. dropped.service.context = ended.service.context
    BY <2>3, <2>4 DEF Service
  <2> QED BY <1>3, <2>2, <2>3, <2>5, HandledTwice DEF Ready, Room, Handled, Good, Sound
<1> HIDE DEF dropped
<1>6. ASSUME stale
      PROVE  Handled(begun, w) /\ Room(begun) /\ begun.service.context = w.service.context
  <2>1. Only(begun, dropped)
    BY <1>1, <1>5, <1>6, ServiceOnly
  <2> HIDE DEF begun
  <2> QED BY <1>5, <1>6, <2>1, OnlyHandled, HandledTwice, AroundKeeps DEF Only, Handled
<1> HIDE DEF begun
<1>7. \/ ProcessKey(w, kind, k, daemon, answer, F) = AskDaemon(w, kind, k, daemon, answer, F)
      \/ stale /\ ProcessKey(w, kind, k, daemon, answer, F) = Passed(dropped)
      \/ stale /\ ProcessKey(w, kind, k, daemon, answer, F) = AskDaemon(begun, kind, k, daemon, answer, F)
  BY DEF ProcessKey, begun, dropped, ended
<1> HIDE DEF stale
<1>8. CASE ProcessKey(w, kind, k, daemon, answer, F) = AskDaemon(w, kind, k, daemon, answer, F)
  BY <1>8, AskDaemonKeeps
<1>9. CASE stale /\ ProcessKey(w, kind, k, daemon, answer, F) = Passed(dropped)
  BY <1>5, <1>9 DEF Passed
<1>10. CASE stale /\ ProcessKey(w, kind, k, daemon, answer, F) = AskDaemon(begun, kind, k, daemon, answer, F)
  <2>1. Good(begun) /\ begun.service.context \in Contexts
    BY <1>6, <1>10 DEF Handled
  <2>2. Handled(AskDaemon(begun, kind, k, daemon, answer, F).w, begun)
    BY <1>6, <1>10, <2>1, AskDaemonKeeps
  <2> QED BY <1>6, <1>10, <2>2, HandledTwice
<1> QED BY <1>7, <1>8, <1>9, <1>10

------------------------------------------------------------------------------
(* The actions.                                                              *)

(* What is added to a document whose field is not safe is the host's.         *)
Added(v, w) ==
  \A c \in Contexts : field[c] # "Safe" /\ Len(v.document[c]) # Len(w.document[c]) =>
    Len(v.document[c]) > 0 /\ v.document[c][Len(v.document[c])].by = Host

SafeStep ==
  \A c \in Contexts : field[c] # "Safe" /\ Len(document'[c]) > Len(document[c]) =>
    Last(document'[c]).by = Host

LEMMA ShutAdded ==
  ASSUME NEW v, NEW w, Shut(v, w)
  PROVE  Added(v, w)
BY DEF Shut, Added

LEMMA WorldTyped ==
  ASSUME TypeOK
  PROVE  World \in WorldSet /\ FieldType
BY DEF TypeOK, World, WorldSet, FieldType

(* A step that makes the world another good one.                              *)
Steps(v) ==
  /\ World' = Reclaimed(v)
  /\ Good(World') /\ posted' = v.posted
  /\ SafeStep

LEMMA BecomesSteps ==
  ASSUME TypeOK, NEW v, Good(v), Added(v, World), Becomes(v)
  PROVE  Steps(v)
<1> DEFINE r == Reclaimed(v)
<1>1. /\ Good(r) /\ Steady(r, v) /\ r.posted = v.posted
      /\ \A c \in Contexts : \A i \in DOMAIN v.document[c] :
           v.document[c][i].by = Host => r.document[c][i].by = Host
  BY ReclaimedKeeps
<1>2. v \in WorldSet /\ r \in WorldSet
  BY <1>1 DEF Good, Sound
<1>3. /\ service' = r.service /\ objects' = r.objects /\ edits' = r.edits /\ posted' = r.posted
      /\ document' = r.document /\ owed' = r.owed
  BY DEF Becomes
<1> HIDE DEF r
<1>4. World' = r
  BY <1>2, <1>3 DEF World, WorldSet
<1>5. SafeStep
  <2> SUFFICES ASSUME NEW c \in Contexts, field[c] # "Safe", Len(document'[c]) > Len(document[c])
               PROVE  Last(document'[c]).by = Host
    BY DEF SafeStep
  <2>1. document' = r.document /\ World.document = document
    BY <1>3 DEF World
  <2>2. Len(r.document[c]) = Len(v.document[c])
    BY <1>1 DEF Steady
  <2>3. v.document[c] \in Seq(Run) /\ document[c] \in Seq(Run)
    BY <1>2 DEF WorldSet, TypeOK
  <2>4. Len(v.document[c]) # Len(document[c])
    BY <2>1, <2>2, <2>3
  <2>5. Len(v.document[c]) > 0 /\ v.document[c][Len(v.document[c])].by = Host
    BY <2>1, <2>4 DEF Added
  <2>6. Len(v.document[c]) \in DOMAIN v.document[c]
    BY <2>3, <2>5
  <2>7. r.document[c][Len(v.document[c])].by = Host
    BY <1>1, <2>5, <2>6
  <2> QED BY <2>1, <2>2, <2>7 DEF Last
<1> QED BY <1>1, <1>3, <1>4, <1>5 DEF Steps, r

(* What is added to a document is all that differs.                           *)
LEMMA GoodSame ==
  ASSUME NEW w, Good(w), NEW v \in WorldSet,
         v.service = w.service, v.edits = w.edits, v.posted = w.posted, v.objects = w.objects
  PROVE  Good(v)
<1>1. Sound(v)
  BY SoundKept DEF Good
<1>2. Calm => CancelledOK(v)
  BY DEF Good, CancelledOK
<1> QED BY <1>1, <1>2 DEF Good

LEMMA PressedKeeps ==
  ASSUME NEW w \in WorldSet, NEW h, Handled(h.w, w), focus \in Contexts, NEW kind, NEW k \in 1 .. MaxKeys
  PROVE  LET v == Pressed(h, kind, k)
         IN Good(v) /\ Added(v, w) /\ v.posted = w.posted
<1> DEFINE u == h.w
           r == [by |-> Host, text |-> <<k>>]
           typed == [u EXCEPT !.document[focus] = Append(@, r)]
           x == IF h.eaten THEN u ELSE Typed(u, kind, k)
           v == Pressed(h, kind, k)
<1>1. Good(u) /\ Shut(u, w) /\ u.posted = w.posted /\ u \in WorldSet
  BY DEF Handled, Good, Sound
<1>2. r \in Run
  <2>1. k \in Nat /\ <<k>> \in Seq(Nat)
    BY TextServiceAssumption
  <2> QED BY <2>1, TextServiceAssumption DEF Run, Host, Literal
<1> HIDE DEF u, r
<1>3. /\ typed \in WorldSet
      /\ typed.service = u.service /\ typed.edits = u.edits /\ typed.posted = u.posted
      /\ typed.objects = u.objects
      /\ typed.document = [u.document EXCEPT ![focus] = Append(u.document[focus], r)]
  BY <1>1, <1>2, AppendedKeeps
<1>4. Added(typed, w)
  <2> HIDE DEF typed
  <2> SUFFICES ASSUME NEW c \in Contexts, field[c] # "Safe",
                      Len(typed.document[c]) # Len(w.document[c])
               PROVE  Len(typed.document[c]) > 0 /\ typed.document[c][Len(typed.document[c])].by = Host
    BY DEF Added
  <2>1. Len(u.document[c]) = Len(w.document[c])
    BY <1>1 DEF Shut
  <2>2. u.document \in [Contexts -> Seq(Run)]
    BY <1>1 DEF WorldSet
  <2>3. c = focus
    BY <1>3, <2>1, <2>2
  <2>4. typed.document[c] = Append(u.document[c], r)
    BY <1>3, <2>2, <2>3
  <2>5. /\ Len(Append(u.document[c], r)) = Len(u.document[c]) + 1
        /\ Append(u.document[c], r)[Len(u.document[c]) + 1] = r /\ Len(u.document[c]) \in Nat
    BY <1>2, <2>2
  <2> QED BY <2>4, <2>5 DEF r
<1>5. x \in {u, typed}
  BY DEF Typed, r, u
<1> HIDE DEF typed
<1>6. Good(typed)
  BY <1>1, <1>3, GoodSame
<1>7. Good(x) /\ Added(x, w) /\ x.posted = w.posted
  BY <1>1, <1>3, <1>4, <1>5, <1>6, ShutAdded
<1>8. PICK o : o \in SUBSET (1 .. MaxKeys) /\ v = [x EXCEPT !.owed = o]
  <2>1. x.owed \in SUBSET (1 .. MaxKeys)
    BY <1>7 DEF Good, Sound, WorldSet
  <2>2. v = [x EXCEPT !.owed = IF kind = "Escape" \/ x.service.suppressed THEN {} ELSE x.owed \cup {k}]
    BY DEF Pressed, u
  <2> HIDE DEF x, v
  <2>3. (IF kind = "Escape" \/ x.service.suppressed THEN {} ELSE x.owed \cup {k}) \in SUBSET (1 .. MaxKeys)
    BY <2>1
  <2> QED BY <2>2, <2>3
<1> HIDE DEF x, v
<1>9. /\ v \in WorldSet /\ v.service = x.service /\ v.edits = x.edits /\ v.posted = x.posted
      /\ v.objects = x.objects /\ v.document = x.document
  BY <1>7, <1>8 DEF Good, Sound, WorldSet
<1>10. Good(v) /\ Added(v, w) /\ v.posted = w.posted
  BY <1>7, <1>9, GoodSame DEF Added
<1> QED BY <1>10 DEF v

(* With room, the world has an object for a new state whatever a handler adds. *)
LEMMA RoomReady ==
  ASSUME NEW w, NEW v, v.service.state = w.service.state, Held(v) \subseteq Held(w),
         ~ (1 .. MaxObjects \subseteq Held(w) \cup {w.service.state})
  PROVE  Ready(v) /\ Room(v)
BY DEF Ready, Room

LEMMA ReadyRoom ==
  ASSUME NEW w, Ready(w)
  PROVE  Room(w)
BY DEF Ready, Room

LEMMA HasRoomReady ==
  ASSUME HasRoom
  PROVE  Ready(World) /\ Room(World)
<1>1. World.service.state = service.state
  BY DEF World
<1> QED BY <1>1, RoomReady DEF HasRoom

LEMMA OnKeyDownSteps ==
  ASSUME TypeOK, Good(World), NEW kind, NEW seen \in {"Unknown"} \cup {field[c] : c \in {focus} \cap Contexts},
         NEW daemon, NEW answer, NEW F, OnKeyDown(kind, seen, daemon, answer, F)
  PROVE  \E v : Steps(v) /\ v.posted = posted
<1> DEFINE k == keys + 1
           prepared == PrepareSafeContext(World, focus, seen, daemon, answer, F)
           processed == ProcessKey(prepared.w, kind, k, daemon, answer, F)
           handled == IF ShouldHandleKey(kind) THEN IfReady(prepared, kind, k, daemon, answer, F)
                      ELSE Passed(World)
           v == Pressed(handled, kind, k)
<1>1. focus \in Contexts /\ k \in 1 .. MaxKeys /\ k \in Nat /\ FieldType /\ World \in WorldSet
  BY TextServiceAssumption, WorldTyped DEF TypeOK, OnKeyDown
<1>2. seen \in {"Unknown", "Safe", "Sensitive"}
  BY <1>1 DEF FieldType
<1>3. Ready(World)
  BY HasRoomReady DEF OnKeyDown
<1>4. Eased(prepared.w, World) /\ (prepared.ready => prepared.w.service.context = focus)
  BY <1>1, <1>2, <1>3, PrepareSafeContextKeeps
<1>5. Becomes(v)
  BY DEF OnKeyDown
<1> HIDE DEF k, prepared
<1>6. Handled(prepared.w, World) /\ Good(prepared.w) /\ Room(prepared.w)
  BY <1>4, ReadyRoom DEF Eased, Handled
<1>7. ASSUME prepared.ready
      PROVE  Handled(processed.w, World)
  <2>1. Handled(processed.w, prepared.w)
    BY <1>1, <1>4, <1>6, <1>7, ProcessKeyKeeps
  <2> QED BY <1>6, <2>1, HandledTwice
<1>8. Handled(World, World)
  BY <1>1, OnlyHandled DEF Only, Around
<1> HIDE DEF processed
<1>9. \/ prepared.ready /\ handled = processed
      \/ handled = Passed(prepared.w)
      \/ handled = Passed(World)
  BY DEF IfReady, processed
<1> HIDE DEF handled
<1>10. Handled(handled.w, World)
  BY <1>6, <1>7, <1>8, <1>9 DEF Passed
<1>11. Good(v) /\ Added(v, World) /\ v.posted = World.posted
  BY <1>1, <1>10, PressedKeeps
<1> HIDE DEF v
<1>12. Steps(v)
  BY <1>5, <1>11, BecomesSteps
<1> QED BY <1>11, <1>12 DEF World

LEMMA HandledSteps ==
  ASSUME TypeOK, NEW v, Handled(v, World), Becomes(v)
  PROVE  Steps(v) /\ v.posted = posted
<1>1. Good(v) /\ Shut(v, World) /\ v.posted = World.posted
  BY DEF Handled
<1>2. Steps(v)
  BY <1>1, ShutAdded, BecomesSteps
<1> QED BY <1>1, <1>2 DEF World

LEMMA CandidateInvokedSteps ==
  ASSUME TypeOK, Good(World), NEW daemon, NEW answer, NEW F, CandidateInvoked(daemon, answer, F)
  PROVE  \E v : Steps(v) /\ v.posted = posted
<1> DEFINE d == Decided("Commit", service.session.text, FALSE)
           f == Followed(World, d)
           q == QueueFailOpenText(World, service.raw, answer, F).w
           a == ApplyDecision(f, d, service.raw, answer, F).w
<1>1. FieldType /\ World \in WorldSet /\ World.service = service /\ service \in Service
  BY WorldTyped DEF TypeOK, World
<1>2. service.context \in Contexts /\ service.raw \in Literal /\ service.session.text \in Literal
  BY <1>1 DEF CandidateInvoked, Service
<1>3. Room(World)
  BY HasRoomReady DEF CandidateInvoked
<1>4. d \in Decisions
  BY <1>2 DEF Decided, Decisions
<1>5. Becomes(q) \/ Becomes(a)
  BY DEF CandidateInvoked
<1> HIDE DEF d
<1>6. Only(f, World)
  BY <1>1, <1>4, FollowedKeeps
<1>7. Good(f) /\ Room(f) /\ f.service.context \in Contexts /\ Handled(f, World)
  BY <1>1, <1>2, <1>3, <1>6, OnlyKeeps, AroundKeeps, OnlyHandled DEF Only
<1>8. Handled(q, World)
  BY <1>1, <1>2, <1>3, QueueFailOpenTextKeeps
<1> HIDE DEF f
<1>9. Handled(a, World)
  <2>1. Handled(a, f)
    BY <1>1, <1>2, <1>4, <1>7, ApplyDecisionKeeps
  <2> HIDE DEF a
  <2> QED BY <1>7, <2>1, HandledTwice
<1> HIDE DEF q, a
<1> QED BY <1>5, <1>8, <1>9, HandledSteps

LEMMA ContextChangesSteps ==
  ASSUME TypeOK, Good(World), NEW c \in Contexts \cup {None}, NEW answer, NEW F,
         ContextChanges(c, answer, F)
  PROVE  \E v : Steps(v) /\ v.posted = posted
<1> DEFINE x == CloseActiveContext(World, answer, F)
           closed == [x EXCEPT !.service.suppressed = FALSE]
           primed == PrimeContextPrivacy(closed, c, answer, F)
<1>1. FieldType /\ World \in WorldSet
  BY WorldTyped
<1>2. Ready(World)
  BY HasRoomReady DEF ContextChanges
<1>3. Handled(x, World) /\ Ready(x)
  BY <1>1, <1>2, CloseActiveContextCloses DEF Closed
<1>4. Becomes(IF c = None THEN closed ELSE primed)
  BY DEF ContextChanges
<1> HIDE DEF x
<1>5. Good(x) /\ x \in WorldSet
  BY <1>3 DEF Handled, Good, Sound
<1>6. Only(closed, x)
  BY <1>5 DEF Only, Around, WorldSet, Service
<1>7. Eased(closed, x)
  BY <1>3, <1>5, <1>6, OnlyEased
<1>8. Handled(closed, World) /\ Good(closed) /\ Ready(closed)
  BY <1>3, <1>7, HandledTwice DEF Eased, Handled
<1> HIDE DEF closed
<1>9. CASE c = None
  BY <1>4, <1>8, <1>9, HandledSteps
<1>10. CASE c # None
  <2>1. Eased(primed, closed)
    BY <1>1, <1>8, <1>10, PrimeContextPrivacyKeeps
  <2> HIDE DEF primed
  <2>2. Handled(primed, World)
    BY <1>8, <2>1, HandledTwice DEF Eased
  <2> QED BY <1>4, <1>10, <2>2, HandledSteps
<1> QED BY <1>9, <1>10

(* What the host ends itself is tracked no longer.                            *)
LEMMA TerminatedSteps ==
  ASSUME TypeOK, Good(World), NEW s \in 1 .. MaxObjects, OnCompositionTerminated(s)
  PROVE  \E v : Steps(v) /\ v.posted = posted
<1> DEFINE w == World
           v == Untracked(w, s)
<1>1. w \in WorldSet /\ Sound(w) /\ Good(w)
  BY WorldTyped DEF Good
<1> HIDE DEF w
<1>2. Written(v, w, None, s) /\ Steady(v, w) /\ v.objects[s].tracks = "nothing"
  BY <1>1, UntrackedKeeps
<1> HIDE DEF v
<1>3. /\ v \in WorldSet /\ v.service = w.service /\ v.edits = w.edits /\ v.posted = w.posted
      /\ \A t \in 1 .. MaxObjects : t # s => v.objects[t] = w.objects[t]
      /\ v.objects[s].pending = w.objects[s].pending
      /\ v.objects[s].cancelled = w.objects[s].cancelled
  BY <1>2 DEF Written
<1>4. w.service.state \in 1 .. MaxObjects
  BY <1>1 DEF WorldSet, Service
<1>5. PendingOK(v)
  BY <1>1, <1>3 DEF Sound, PendingOK
<1>6. TiedOK(v)
  BY <1>1, <1>3 DEF Sound, TiedOK, Tied
<1>7. StaleOK(v)
  <2> SUFFICES ASSUME NEW i \in DOMAIN w.edits, w.edits[i].kind # "Inspect"
               PROVE  v.objects[w.edits[i].state].cancelled = w.objects[w.edits[i].state].cancelled
    BY <1>1, <1>3 DEF Sound, StaleOK
  <2>1. w.edits[i].state \in 1 .. MaxObjects
    BY <1>1, WaitingTyped
  <2> QED BY <1>3, <2>1
<1>8. Calm => StrandedOK(v)
  <2> SUFFICES ASSUME Calm
               PROVE  StrandedOK(v)
    OBVIOUS
  <2>1. StrandedOK(w)
    BY <1>1 DEF Sound
  <2>2. ASSUME NEW t \in 1 .. MaxObjects, Composed(v, t)
        PROVE  Composed(w, t)
    BY <1>2, <1>3, <2>2 DEF Composed
  <2>3. \A t \in 1 .. MaxObjects : Finishing(w, t) => Finishing(v, t)
    BY <1>3 DEF Finishing
  <2>4. w.service.context = None => v.objects[w.service.state].tracks = "nothing"
    BY <1>2, <1>3, <1>4, <2>1 DEF StrandedOK
  <2> QED BY <1>3, <2>1, <2>2, <2>3, <2>4 DEF StrandedOK
<1>9. Calm => CancelledOK(v)
  BY <1>1, <1>3, <1>4 DEF Good, CancelledOK
<1>10. Handled(v, World)
  BY <1>2, <1>3, <1>5, <1>6, <1>7, <1>8, <1>9, SteadyShut DEF Handled, Good, Sound, w
<1>11. Becomes(v)
  BY DEF OnCompositionTerminated, v, w
<1> QED BY <1>10, <1>11, HandledSteps

(* A completion the service takes leaves the others on their way.             *)
LEMMA TakenKeeps ==
  ASSUME NEW w, Good(w), w.posted # <<>>, Calm => BlockedOK(w.posted)
  PROVE  LET v == [w EXCEPT !.posted = Tail(@)]
         IN /\ Good(v) /\ Expected(v, Head(w.posted)) /\ Steady(v, w)
            /\ v.service = w.service /\ Held(v) \subseteq Held(w) /\ v.posted = Tail(w.posted)
            /\ Calm => BlockedOK(v.posted)
<1> DEFINE q == Tail(w.posted)
           v == [w EXCEPT !.posted = q]
           out == Head(w.posted)
<1>1. w \in WorldSet /\ Sound(w) /\ w.posted \in Seq(EditOutcome)
  BY DEF Good, Sound, WorldSet
<1>2. /\ q \in Seq(EditOutcome) /\ out = w.posted[1] /\ 1 \in DOMAIN w.posted /\ out \in EditOutcome
      /\ \A i \in DOMAIN q : i + 1 \in DOMAIN w.posted /\ q[i] = w.posted[i + 1] /\ i \in Nat
      /\ \A i \in DOMAIN q : 1 < i + 1
      /\ \A i, j \in DOMAIN q : i < j => i + 1 < j + 1
  BY <1>1
<1> HIDE DEF q, out
<1>3. /\ v \in WorldSet /\ v.service = w.service /\ v.edits = w.edits /\ v.posted = q
      /\ v.objects = w.objects /\ v.document = w.document
  BY <1>1, <1>2 DEF WorldSet
<1> HIDE DEF v
<1>4. PendingOK(v) /\ StaleOK(v)
  BY <1>1, <1>3 DEF Sound, PendingOK, StaleOK
<1>5. TiedOK(v)
  <2>1. TiedOK(w)
    BY <1>1 DEF Sound
  <2>2. \A e : Tied(v, e) <=> Tied(w, e)
    BY <1>3 DEF Tied
  <2>3. \A i \in DOMAIN q : q[i].state = q[i].edit.state /\ Tied(w, q[i].edit)
    BY <1>2, <2>1 DEF TiedOK
  <2> QED BY <1>3, <2>1, <2>2, <2>3 DEF TiedOK
<1>6. Calm => StrandedOK(v)
  BY <1>1, <1>3 DEF Sound, StrandedOK, Composed, Finishing
<1>7. Calm => CancelledOK(v)
  BY <1>2, <1>3 DEF Good, CancelledOK
<1>8. Calm => BlockedOK(q)
  BY <1>2 DEF BlockedOK
<1>9. Expected(v, out)
  <2> SUFFICES ASSUME Calm, out.state = w.service.state
               PROVE  /\ out.consumed => ~w.objects[w.service.state].cancelled
                      /\ out.blocked => \A i \in DOMAIN q : q[i].state = w.service.state => ~q[i].consumed
    BY <1>2, <1>3 DEF Expected
  <2>1. out.consumed => ~w.objects[w.service.state].cancelled
    BY <1>2 DEF Good, CancelledOK
  <2>2. ASSUME out.blocked, NEW i \in DOMAIN q, q[i].state = w.service.state
        PROVE  ~q[i].consumed
    BY <1>2, <2>2 DEF BlockedOK
  <2> QED BY <2>1, <2>2
<1>10. Held(v) \subseteq Held(w)
  BY <1>2, <1>3 DEF Held
<1>11. Good(v)
  BY <1>3, <1>4, <1>5, <1>6, <1>7 DEF Good, Sound
<1> QED BY <1>3, <1>8, <1>9, <1>10, <1>11 DEF Steady, v, q, out

LEMMA DeliverSteps ==
  ASSUME TypeOK, Good(World), Calm => BlockedOK(posted), NEW answer, NEW F, Deliver(answer, F)
  PROVE  \E v : Steps(v) /\ (Calm => BlockedOK(v.posted))
<1> DEFINE w == [World EXCEPT !.posted = Tail(posted)]
           out == Head(posted)
           inspected == HandleInspected(w, out, answer, F)
           completed == HandleEditCompleted(w, out)
<1>1. FieldType /\ World \in WorldSet /\ World.posted = posted
  BY WorldTyped DEF World
<1>2. posted # <<>> /\ w = [World EXCEPT !.posted = Tail(@)]
  BY <1>1 DEF Deliver
<1>3. /\ Good(w) /\ Expected(w, out) /\ Steady(w, World) /\ w.service = World.service
      /\ Held(w) \subseteq Held(World) /\ (Calm => BlockedOK(w.posted))
  <2> HIDE DEF w
  <2> QED BY <1>1, <1>2, TakenKeeps
<1>4. Becomes(IF out.edit.kind = "Inspect" THEN inspected ELSE completed)
  BY DEF Deliver
<1> HIDE DEF w, out
<1>5. Ready(w) /\ Room(w)
  <2>1. World.service.state = service.state
    BY DEF World
  <2> QED BY <1>3, <2>1, RoomReady DEF Deliver, HasRoom
<1>6. Handled(inspected, w)
  BY <1>1, <1>3, <1>5, HandleInspectedKeeps DEF Eased
<1>7. Handled(completed, w)
  BY <1>3, <1>5, HandleEditCompletedKeeps
<1>8. PICK v : Handled(v, w) /\ Becomes(v)
  BY <1>4, <1>6, <1>7
<1>9. Good(v) /\ v.posted = w.posted /\ Shut(v, World)
  BY <1>3, <1>8, SteadyShut, ShutTwice DEF Handled
<1>10. Steps(v)
  BY <1>8, <1>9, ShutAdded, BecomesSteps
<1> QED BY <1>3, <1>9, <1>10

(* An edit that ran or was dropped waits no longer.  What its completion says  *)
(* it wrote, it wrote in a field that was safe, with a state not cancelled.   *)
Posts(v, w, e) ==
  \/ v.posted = w.posted
  \/ \E o \in EditOutcome :
       /\ v.posted = Append(w.posted, o) /\ o.edit = e /\ o.state = e.state
       /\ o.blocked => field[e.context] # "Safe"
       /\ o.consumed =>
            /\ e.kind \in {"Decision", "FailOpen"} /\ field[e.context] = "Safe"
            /\ ~w.objects[e.state].cancelled

LEMMA CompletedPosts ==
  ASSUME NEW w \in WorldSet, NEW u, Same(u, w), NEW e \in EditSession, NEW run, Runs(run, w, e)
  PROVE  LET v == Completed(u, run.out)
         IN /\ v \in WorldSet /\ v.service = w.service /\ v.edits = w.edits
            /\ v.objects = u.objects /\ v.document = u.document /\ Posts(v, w, e)
<1> DEFINE o == FailOpenOf(u, run.out)
           v == Completed(u, run.out)
<1>1. OutcomeOf(run.out, e)
  BY DEF Runs
<1>2. OutcomeOf(o, e) /\ o.consumed = run.out.consumed /\ o.blocked = run.out.blocked
  BY <1>1, FailOpenOfKeeps
<1>3. u \in WorldSet /\ u.service = w.service /\ u.edits = w.edits /\ u.posted = w.posted
  BY DEF Same
<1>4. CASE e.kind = "Finish"
  <2>1. v = u
    BY <1>1, <1>4 DEF Completed, OutcomeOf
  <2> QED BY <1>3, <2>1 DEF Posts
<1>5. CASE e.kind # "Finish"
  <2>1. PICK d : d \in SUBSET (1 .. MaxKeys) /\ v = [u EXCEPT !.posted = Append(u.posted, o), !.owed = d]
    <3> DEFINE d == IF run.out.consumed \/ run.out.edit.kind = "Inspect" THEN u.owed ELSE {}
    <3>1. d \in SUBSET (1 .. MaxKeys)
      BY <1>3 DEF WorldSet
    <3>2. v = [u EXCEPT !.posted = Append(u.posted, o), !.owed = d]
      BY <1>1, <1>3, <1>5 DEF Completed, OutcomeOf, WorldSet
    <3> HIDE DEF d
    <3> QED BY <3>1, <3>2
  <2>2. o \in EditOutcome /\ Append(u.posted, o) \in Seq(EditOutcome)
    BY <1>2, <1>3 DEF OutcomeOf, WorldSet
  <2> HIDE DEF v, o
  <2>3. /\ v \in WorldSet /\ v.service = u.service /\ v.edits = u.edits /\ v.objects = u.objects
        /\ v.document = u.document /\ v.posted = Append(u.posted, o)
    BY <1>3, <2>1, <2>2 DEF WorldSet
  <2>4. e.kind = "Inspect" => e \in Inspections
    BY EditSessions DEF Edits
  <2>5. e.kind \in {"Inspect", "Decision", "FailOpen", "Finish"}
    BY EditSessions DEF Edits, Inspections
  <2>6. (o.blocked => field[e.context] # "Safe")
        /\ (o.consumed => /\ e.kind \in {"Decision", "FailOpen"} /\ field[e.context] = "Safe"
                          /\ ~w.objects[e.state].cancelled)
    BY <1>2, <1>5, <2>4, <2>5 DEF Runs
  <2>7. Posts(v, w, e)
    BY <1>2, <1>3, <2>2, <2>3, <2>6 DEF Posts, OutcomeOf
  <2> QED BY <1>3, <2>3, <2>7 DEF v
<1> QED BY <1>4, <1>5

(* What each part of the invariant says once an edit waits no longer.         *)
LEMMA FinishedKeeps ==
  ASSUME FieldType, NEW w, Good(w), NEW n \in DOMAIN w.edits,
         NEW run, Runs(run, [w EXCEPT !.edits = RemoveAt(w.edits, n)], w.edits[n])
  PROVE  LET v == Finished(run)
         IN Good(v) /\ Shut(v, w) /\ Posts(v, w, w.edits[n])
<1> DEFINE e == w.edits[n]
           q == RemoveAt(w.edits, n)
           w0 == [w EXCEPT !.edits = q]
           u == Settled(run.w, run.out)
           v == Finished(run)
<1>1. w \in WorldSet /\ Sound(w) /\ w.edits \in Seq(EditSession) /\ w.service \in Service
  BY DEF Good, Sound, WorldSet
<1>2. /\ e \in EditSession /\ e.kind \in {"Inspect", "Decision", "FailOpen", "Finish"}
      /\ e.kind # "Inspect" => e \in Edits /\ e.state \in 1 .. MaxObjects
      /\ e.context \in Contexts
  BY <1>1, WaitingTyped
<1>3. e \in Edits => e.state \in 1 .. MaxObjects /\ e.kind # "Inspect"
  BY DEF Edits
<1>4. /\ q \in Seq(EditSession)
      /\ \A i \in DOMAIN q : \E j \in DOMAIN w.edits \ {n} : q[i] = w.edits[j]
      /\ \A j \in DOMAIN w.edits \ {n} : \E i \in DOMAIN q : q[i] = w.edits[j]
  BY <1>1, RemoveAtElements, RemoveAtOrigin
<1>5. \A s : Cardinality(With(q, s)) =
               IF e.state = s THEN Cardinality(With(w.edits, s)) - 1 ELSE Cardinality(With(w.edits, s))
  BY <1>1, WithRemoved
<1>6. e \in Edits => w.objects[e.state].pending > 0
  <2> SUFFICES ASSUME e \in Edits
               PROVE  w.objects[e.state].pending > 0
    OBVIOUS
  <2>1. w.objects[e.state].pending = Cardinality(With(w.edits, e.state))
    BY <1>1, <1>3 DEF Sound, PendingOK
  <2>2. n \in With(w.edits, e.state) /\ IsFiniteSet(With(w.edits, e.state))
    BY <1>1, WithFinite DEF With
  <2>3. Cardinality(With(w.edits, e.state)) # 0 /\ Cardinality(With(w.edits, e.state)) \in Nat
    BY <2>2, FS_EmptySet, FS_CardinalityType
  <2> QED BY <2>1, <2>3
<1>7. e.kind = "Finish" => w.objects[e.state].cancelled
  BY <1>1 DEF Sound, StaleOK
<1> HIDE DEF e, q
<1>8. /\ w0 \in WorldSet /\ w0.service = w.service /\ w0.edits = q /\ w0.posted = w.posted
      /\ w0.objects = w.objects /\ w0.document = w.document
  BY <1>1, <1>4 DEF WorldSet
<1>9. Runs(run, w0, e)
  BY DEF e, q
<1> HIDE DEF w0
<1>10. Done(u, w0, e)
  BY <1>2, <1>6, <1>7, <1>8, <1>9, SettledDone
<1>11. Same(u, w0) /\ Shut(u, w0)
  BY <1>10 DEF Done
<1>12. v = Completed(u, run.out)
  BY DEF Finished
<1> HIDE DEF u, v
<1>13. /\ v \in WorldSet /\ v.service = w.service /\ v.edits = q
       /\ v.objects = u.objects /\ v.document = u.document /\ Posts(v, w0, e)
  BY <1>2, <1>8, <1>9, <1>11, <1>12, CompletedPosts
<1>14. Posts(v, w, e)
  BY <1>8, <1>13 DEF Posts
<1>15. Shut(v, w)
  BY <1>8, <1>11, <1>13 DEF Shut
<1>16. \A t \in 1 .. MaxObjects :
         /\ (t # e.state \/ e.kind = "Inspect") => v.objects[t] = w.objects[t]
         /\ v.objects[t].cancelled = w.objects[t].cancelled
         /\ e.kind # "Inspect" /\ t = e.state => v.objects[t].pending = w.objects[t].pending - 1
  <2>1. e.kind = "Inspect" => e \in Inspections
    BY <1>2, EditSessions DEF Edits
  <2> QED BY <1>2, <1>8, <1>10, <1>13, <2>1 DEF Done
<1>17. PendingOK(v)
  <2> SUFFICES ASSUME NEW s \in 1 .. MaxObjects
               PROVE  v.objects[s].pending = Cardinality(With(q, s))
    BY <1>13 DEF PendingOK
  <2>1. w.objects[s].pending = Cardinality(With(w.edits, s))
    BY <1>1 DEF Sound, PendingOK
  <2>2. e.kind = "Inspect" => e.state = 0
    BY <1>2, EditSessions DEF Edits, Inspections
  <2>3. s # 0
    BY TextServiceAssumption
  <2> QED BY <1>5, <1>16, <2>1, <2>2, <2>3
<1>18. TiedOK(v)
  <2>1. \A x : Tied(v, x) <=> Tied(w, x)
    BY <1>13 DEF Tied
  <2>2. \A i \in DOMAIN w.edits : Tied(w, w.edits[i])
    BY <1>1 DEF Sound, TiedOK
  <2>3. \A i \in DOMAIN w.posted : w.posted[i].state = w.posted[i].edit.state /\ Tied(w, w.posted[i].edit)
    BY <1>1 DEF Sound, TiedOK
  <2>4. \A i \in DOMAIN v.edits : Tied(v, v.edits[i])
    BY <1>4, <1>13, <2>1, <2>2
  <2>5. \A i \in DOMAIN v.posted : v.posted[i].state = v.posted[i].edit.state /\ Tied(v, v.posted[i].edit)
    <3>1. CASE v.posted = w.posted
      BY <2>1, <2>3, <3>1
    <3>2. CASE \E o \in EditOutcome : v.posted = Append(w.posted, o) /\ o.edit = e /\ o.state = e.state
      <4>1. PICK o \in EditOutcome : v.posted = Append(w.posted, o) /\ o.edit = e /\ o.state = e.state
        BY <3>2
      <4>2. w.posted \in Seq(EditOutcome)
        BY <1>1 DEF WorldSet
      <4>3. ASSUME NEW i \in DOMAIN v.posted
            PROVE  v.posted[i] = o \/ (i \in DOMAIN w.posted /\ v.posted[i] = w.posted[i])
        BY <4>1, <4>2, <4>3
      <4>4. Tied(w, e)
        BY <2>2 DEF e
      <4> QED BY <2>1, <2>3, <4>1, <4>3, <4>4
    <3> QED BY <1>14, <3>1, <3>2 DEF Posts
  <2> QED BY <2>4, <2>5 DEF TiedOK
<1>19. StaleOK(v)
  <2> SUFFICES ASSUME NEW i \in DOMAIN q
               PROVE  /\ q[i].kind \in {"Decision", "FailOpen"} =>
                           v.objects[q[i].state].cancelled \/ q[i].state = v.service.state
                      /\ q[i].kind = "Finish" => v.objects[q[i].state].cancelled
    BY <1>13 DEF StaleOK
  <2>1. PICK j \in DOMAIN w.edits : q[i] = w.edits[j]
    BY <1>4
  <2>2. q[i].kind # "Inspect" => q[i].state \in 1 .. MaxObjects
    BY <1>1, <2>1, WaitingTyped
  <2>3. /\ q[i].kind \in {"Decision", "FailOpen"} =>
             w.objects[q[i].state].cancelled \/ q[i].state = w.service.state
        /\ q[i].kind = "Finish" => w.objects[q[i].state].cancelled
    BY <1>1, <2>1 DEF Sound, StaleOK
  <2> QED BY <1>13, <1>16, <2>2, <2>3
<1>20. Calm => StrandedOK(v)
  <2> SUFFICES ASSUME Calm
               PROVE  StrandedOK(v)
    OBVIOUS
  <2>1. StrandedOK(w)
    BY <1>1 DEF Sound
  <2>2. ASSUME NEW s \in 1 .. MaxObjects, s # w.service.state, Composed(v, s)
        PROVE  \E i \in DOMAIN q : q[i].state = s /\ q[i].kind = "Finish"
    <3>1. w.objects[s].cancelled
      BY <1>16, <2>2 DEF Composed
    <3>2. Composed(w, s) /\ (s = e.state => e.kind # "Finish")
      <4>1. CASE s # e.state \/ e.kind = "Inspect"
        BY <1>16, <2>2, <4>1 DEF Composed
      <4>2. CASE s = e.state /\ e.kind # "Inspect"
        BY <1>2, <1>8, <1>10, <1>13, <2>2, <3>1, <4>2 DEF Done, Composed
      <4> QED BY <4>1, <4>2
    <3>3. PICK j \in DOMAIN w.edits : w.edits[j].state = s /\ w.edits[j].kind = "Finish"
      BY <2>1, <2>2, <3>2 DEF StrandedOK, Finishing
    <3>4. j # n
      BY <3>2, <3>3 DEF e
    <3> QED BY <1>4, <3>3, <3>4
  <2>3. w.service.context = None => v.objects[w.service.state].tracks = "nothing"
    <3> SUFFICES ASSUME w.service.context = None
                 PROVE  v.objects[w.service.state].tracks = "nothing"
      OBVIOUS
    <3>1. Tied(w, e)
      BY <1>1 DEF Sound, TiedOK, e
    <3>2. e.state # w.service.state
      BY <1>2, <3>1, TextServiceAssumption DEF Tied
    <3>3. w.service.state \in 1 .. MaxObjects
      BY <1>1 DEF Service
    <3>4. v.objects[w.service.state] = w.objects[w.service.state]
      BY <1>16, <3>2, <3>3
    <3> QED BY <2>1, <3>4 DEF StrandedOK
  <2> QED BY <1>13, <2>2, <2>3 DEF StrandedOK, Finishing
<1>21. Calm => CancelledOK(v)
  <2> SUFFICES ASSUME Calm, w.objects[w.service.state].cancelled, NEW i \in DOMAIN v.posted,
                      v.posted[i].state = w.service.state
               PROVE  ~v.posted[i].consumed
    <3>1. w.service.state \in 1 .. MaxObjects
      BY <1>1 DEF Service
    <3> QED BY <1>13, <1>16, <3>1 DEF CancelledOK
  <2>1. CancelledOK(w) /\ w.posted \in Seq(EditOutcome)
    BY <1>1 DEF Good, WorldSet
  <2>2. CASE v.posted = w.posted
    BY <2>1, <2>2 DEF CancelledOK
  <2>3. CASE \E o \in EditOutcome : /\ v.posted = Append(w.posted, o) /\ o.state = e.state
                                    /\ o.consumed => ~w.objects[e.state].cancelled
    <3>1. PICK o \in EditOutcome : /\ v.posted = Append(w.posted, o) /\ o.state = e.state
                                   /\ o.consumed => ~w.objects[e.state].cancelled
      BY <2>3
    <3>2. v.posted[i] = o \/ (i \in DOMAIN w.posted /\ v.posted[i] = w.posted[i])
      BY <2>1, <3>1
    <3> QED BY <2>1, <3>1, <3>2 DEF CancelledOK
  <2> QED BY <1>14, <2>2, <2>3 DEF Posts
<1> QED BY <1>13, <1>14, <1>15, <1>17, <1>18, <1>19, <1>20, <1>21 DEF Good, Sound, e, v

(* An edit that wrote did not follow one that found its field not safe.       *)
LEMMA PostsBlocked ==
  ASSUME NEW w, Good(w), NEW n \in DOMAIN w.edits, NEW v, Posts(v, w, w.edits[n]), BlockedOK(w.posted)
  PROVE  BlockedOK(v.posted)
<1> DEFINE e == w.edits[n]
<1>1. w \in WorldSet /\ Sound(w) /\ w.posted \in Seq(EditOutcome)
  BY DEF Good, Sound, WorldSet
<1>2. CASE v.posted = w.posted
  BY <1>2
<1>3. CASE v.posted # w.posted
  <2>1. PICK o \in EditOutcome :
          /\ v.posted = Append(w.posted, o) /\ o.edit = e /\ o.state = e.state
          /\ o.blocked => field[e.context] # "Safe"
          /\ o.consumed =>
               /\ e.kind \in {"Decision", "FailOpen"} /\ field[e.context] = "Safe"
               /\ ~w.objects[e.state].cancelled
    BY <1>3 DEF Posts
  <2>2. /\ DOMAIN v.posted = DOMAIN w.posted \cup {Len(w.posted) + 1} /\ Len(w.posted) \in Nat
        /\ DOMAIN w.posted = 1 .. Len(w.posted)
        /\ v.posted[Len(w.posted) + 1] = o /\ \A i \in DOMAIN w.posted : v.posted[i] = w.posted[i]
    BY <1>1, <2>1
  <2>3. ASSUME NEW i \in DOMAIN w.posted, w.posted[i].blocked, o.state = w.posted[i].state
        PROVE  ~o.consumed
    <3> SUFFICES ASSUME o.consumed
                 PROVE  FALSE
      OBVIOUS
    <3>1. e.state = w.service.state
      BY <1>1, <2>1 DEF Sound, StaleOK
    <3>2. e.context = w.service.context
      BY <1>1, <3>1 DEF Sound, TiedOK, Tied
    <3>3. w.posted[i].edit.context = w.service.context
      <4>1. w.posted[i].state = w.posted[i].edit.state /\ Tied(w, w.posted[i].edit)
        BY <1>1 DEF Sound, TiedOK
      <4> QED BY <2>1, <2>3, <3>1, <4>1 DEF Tied
    <3>4. field[w.posted[i].edit.context] # "Safe"
      BY <2>3 DEF BlockedOK
    <3> QED BY <2>1, <3>2, <3>3, <3>4
  <2>4. o.blocked => field[o.edit.context] # "Safe"
    BY <2>1
  <2> SUFFICES ASSUME NEW i \in DOMAIN v.posted, v.posted[i].blocked
               PROVE  /\ field[v.posted[i].edit.context] # "Safe"
                      /\ \A j \in DOMAIN v.posted :
                           i < j /\ v.posted[j].state = v.posted[i].state => ~v.posted[j].consumed
    BY DEF BlockedOK
  <2>5. CASE i = Len(w.posted) + 1
    BY <2>2, <2>4, <2>5
  <2>6. CASE i \in DOMAIN w.posted
    <3>1. field[v.posted[i].edit.context] # "Safe"
      BY <2>2, <2>6 DEF BlockedOK
    <3>2. ASSUME NEW j \in DOMAIN v.posted, i < j, v.posted[j].state = v.posted[i].state
          PROVE  ~v.posted[j].consumed
      <4>1. CASE j \in DOMAIN w.posted
        BY <2>2, <2>6, <3>2, <4>1 DEF BlockedOK
      <4>2. CASE j = Len(w.posted) + 1
        BY <2>2, <2>3, <2>6, <3>2, <4>2
      <4> QED BY <2>2, <4>1, <4>2
    <3> QED BY <3>1, <3>2
  <2> QED BY <2>2, <2>5, <2>6
<1> QED BY <1>2, <1>3

LEMMA FirstWaits ==
  ASSUME TypeOK, NEW c, Waiting(c) # {}
  PROVE  First(c) \in DOMAIN edits /\ edits[First(c)].context = c
<1>1. Waiting(c) \subseteq Nat /\ Waiting(c) \subseteq DOMAIN edits
  BY DEF TypeOK, Waiting
<1>2. \E i \in Waiting(c) : \A j \in Waiting(c) : i <= j
  <2> DEFINE R == {ss \in Nat \X Nat : ss[1] < ss[2]}
  <2>1. R = OpToRel(<, Nat)
    BY DEF OpToRel
  <2>2. IsWellFoundedOn(R, Nat)
    BY <2>1, NatLessThanWellFounded
  <2>3. \E i \in Waiting(c) : \A j \in Waiting(c) : ~ (<<j, i>> \in R)
    <3> HIDE DEF R
    <3> QED BY <1>1, <2>2, WFMin
  <2>4. \A i, j \in Waiting(c) : ~ (<<j, i>> \in R) => i <= j
    BY <1>1
  <2> QED BY <2>3, <2>4
<1>3. First(c) \in Waiting(c)
  BY <1>2 DEF First
<1> QED BY <1>3 DEF Waiting

LEMMA FinishedSteps ==
  ASSUME TypeOK, Good(World), Calm => BlockedOK(posted), NEW n \in DOMAIN edits, NEW run,
         Runs(run, [World EXCEPT !.edits = RemoveAt(edits, n)], edits[n]), Becomes(Finished(run))
  PROVE  \E v : Steps(v) /\ (Calm => BlockedOK(v.posted))
<1> DEFINE w == World
           v == Finished(run)
<1>1. FieldType /\ Good(w) /\ w.edits = edits /\ w.posted = posted
  BY WorldTyped DEF World
<1>2. n \in DOMAIN w.edits /\ Runs(run, [w EXCEPT !.edits = RemoveAt(w.edits, n)], w.edits[n])
  BY <1>1
<1> HIDE DEF w
<1>3. Good(v) /\ Shut(v, w) /\ Posts(v, w, w.edits[n])
  BY <1>1, <1>2, FinishedKeeps
<1> HIDE DEF v
<1>4. Calm => BlockedOK(v.posted)
  BY <1>1, <1>2, <1>3, PostsBlocked
<1>5. Steps(v)
  BY <1>3, ShutAdded, BecomesSteps DEF v, w
<1> QED BY <1>4, <1>5

LEMMA HostRunsSteps ==
  ASSUME TypeOK, Good(World), Calm => BlockedOK(posted), NEW c \in Contexts, NEW F, HostRuns(c, F)
  PROVE  \E v : Steps(v) /\ (Calm => BlockedOK(v.posted))
<1> DEFINE n == First(c)
           w0 == [World EXCEPT !.edits = RemoveAt(edits, n)]
           run == DoEditSession(w0, edits[n], F)
<1>1. n \in DOMAIN edits
  BY FirstWaits DEF HostRuns
<1>2. edits \in Seq(EditSession) /\ edits[n] \in EditSession /\ World \in WorldSet /\ FieldType
  BY <1>1, WorldTyped DEF TypeOK
<1>3. Becomes(Finished(run))
  BY DEF HostRuns
<1> HIDE DEF n
<1>4. w0 \in WorldSet
  BY <1>1, <1>2, RemoveAtElements DEF WorldSet
<1>5. Runs(run, w0, edits[n])
  <2> HIDE DEF w0
  <2> QED BY <1>2, <1>4, DoEditSessionRuns
<1> QED BY <1>1, <1>3, <1>5, FinishedSteps

(* A dropped edit did nothing.                                               *)
LEMMA DroppedRuns ==
  ASSUME NEW w \in WorldSet, NEW e \in EditSession
  PROVE  Runs([w |-> w, out |-> Outcome(e)], w, e)
<1> DEFINE run == [w |-> w, out |-> Outcome(e)]
<1>1. run.w = w /\ run.out = Outcome(e)
  OBVIOUS
<1>2. OutcomeOf(Outcome(e), e) /\ ~Outcome(e).consumed /\ ~Outcome(e).blocked /\ ~Outcome(e).desired
  BY OutcomeTyped
<1>3. Written(w, w, e.context, e.state) /\ Shut(w, w)
  BY WrittenNothing, SteadyShut
<1> HIDE DEF run
<1> QED BY <1>1, <1>2, <1>3 DEF Runs, run

LEMMA HostDropsSteps ==
  ASSUME TypeOK, Good(World), Calm => BlockedOK(posted), NEW c \in Contexts, HostDrops(c)
  PROVE  \E v : Steps(v) /\ (Calm => BlockedOK(v.posted))
<1> DEFINE n == First(c)
           w0 == [World EXCEPT !.edits = RemoveAt(edits, n)]
           run == [w |-> w0, out |-> Outcome(edits[n])]
<1>1. n \in DOMAIN edits
  BY FirstWaits DEF HostDrops
<1>2. edits \in Seq(EditSession) /\ edits[n] \in EditSession /\ World \in WorldSet
  BY <1>1, WorldTyped DEF TypeOK
<1>3. Becomes(Finished(run))
  BY DEF HostDrops
<1> HIDE DEF n
<1>4. w0 \in WorldSet
  BY <1>1, <1>2, RemoveAtElements DEF WorldSet
<1>5. Runs(run, w0, edits[n])
  <2> HIDE DEF w0
  <2> QED BY <1>2, <1>4, DroppedRuns
<1> QED BY <1>1, <1>3, <1>5, FinishedSteps

(* The caret comes back from a field that is not safe when nothing waits.      *)
LEMMA FieldChangesKeeps ==
  ASSUME IInv, NEW c \in Contexts, FieldChanges(c)
  PROVE  IInv' /\ SafeStep
<1>1. /\ service' = service /\ objects' = objects /\ edits' = edits /\ posted' = posted
      /\ document' = document /\ focus' = focus /\ keys' = keys
      /\ field' = [field EXCEPT ![c] = IF field[c] = "Safe" THEN "Sensitive" ELSE "Safe"]
      /\ moves' = moves + 1 /\ owed' = {} /\ moves < MaxMoves
  BY DEF FieldChanges
<1>2. TypeOK'
  BY <1>1, TextServiceAssumption DEF IInv, TypeOK
<1>3. World' = [World EXCEPT !.owed = {}]
  BY <1>1 DEF World
<1>4. Good(World')
  <2> DEFINE w == World
  <2>1. w \in WorldSet /\ Good(w)
    BY DEF IInv, Good, Sound
  <2> HIDE DEF w
  <2> DEFINE v == [w EXCEPT !.owed = {}]
  <2>2. /\ v \in WorldSet /\ v.service = w.service /\ v.edits = w.edits /\ v.posted = w.posted
        /\ v.objects = w.objects
    BY <2>1 DEF WorldSet
  <2> HIDE DEF v
  <2>3. Good(v)
    BY <2>1, <2>2, GoodSame
  <2> QED BY <1>3, <2>3 DEF v, w
<1>5. Calm => BlockedOK(posted)'
  <2> SUFFICES ASSUME Calm
               PROVE  BlockedOK(posted)'
    OBVIOUS
  <2>1. field[c] = "Safe" \/ posted = <<>>
    BY DEF FieldChanges, Calm
  <2>2. BlockedOK(posted)
    BY DEF IInv
  <2>3. \A i \in DOMAIN posted : posted[i].edit.context \in Contexts
    <3>1. \A e \in EditSession : e.context \in Contexts
      BY DEF EditSession
    <3>2. \A o \in EditOutcome : o.edit \in EditSession
      BY DEF EditOutcome
    <3>3. \A i \in DOMAIN posted : posted[i] \in EditOutcome
      BY DEF IInv, TypeOK
    <3> QED BY <3>1, <3>2, <3>3
  <2>4. CASE posted = <<>>
    BY <1>1, <2>4 DEF BlockedOK
  <2>5. CASE field[c] = "Safe"
    <3>1. field' = [field EXCEPT ![c] = "Sensitive"] /\ field \in [Contexts -> {"Safe", "Sensitive"}]
      BY <1>1, <2>5 DEF IInv, TypeOK
    <3>2. \A i \in DOMAIN posted : field[posted[i].edit.context] # "Safe" => field'[posted[i].edit.context] # "Safe"
      BY <2>3, <3>1
    <3> QED BY <1>1, <2>2, <3>2 DEF BlockedOK
  <2> QED BY <2>1, <2>4, <2>5
<1>6. SafeStep
  BY <1>1 DEF SafeStep, IInv, TypeOK
<1> QED BY <1>2, <1>4, <1>5, <1>6 DEF IInv

LEMMA StepsKeeps ==
  ASSUME NEW v, Steps(v), Calm => BlockedOK(v.posted), FieldType, field' = field,
         focus' \in Contexts \cup {None}, keys' \in 0 .. MaxKeys, moves' \in 0 .. MaxMoves
  PROVE  IInv' /\ SafeStep
<1>1. Good(World') /\ posted' = v.posted /\ SafeStep
  BY DEF Steps
<1>2. World' \in WorldSet
  BY <1>1 DEF Good, Sound
<1>3. TypeOK'
  BY <1>2 DEF TypeOK, FieldType, World, WorldSet
<1>4. Calm => BlockedOK(posted)'
  BY <1>1 DEF BlockedOK
<1> QED BY <1>1, <1>3, <1>4 DEF IInv

LEMMA InitIInv ==
  ASSUME Init
  PROVE  IInv
<1>1. 1 \in 1 .. MaxObjects
  BY TextServiceAssumption
<1>2. <<>> \in Literal /\ <<>> \in Seq(Run) /\ <<>> \in Seq(EditSession) /\ <<>> \in Seq(EditOutcome)
  BY DEF Literal
<1>3. TypeOK
  <2>1. service \in Service
    BY <1>1, <1>2 DEF Init, Service, NoSession
  <2>2. objects \in [1 .. MaxObjects -> CompositionState]
    BY NewObjectTyped DEF Init
  <2>3. document \in [Contexts -> Seq(Run)]
    BY <1>2 DEF Init
  <2> QED BY <1>2, <2>1, <2>2, <2>3, TextServiceAssumption DEF Init, TypeOK
<1>4. \A s \in 1 .. MaxObjects : objects[s].pending = 0 /\ ~objects[s].cancelled /\ objects[s].tracks = "nothing"
  BY NewObjectTyped DEF Init
<1>5. /\ World \in WorldSet /\ World.objects = objects /\ World.service = service
      /\ World.edits = <<>> /\ World.posted = <<>>
  BY <1>3, WorldTyped DEF Init, World
<1>6. service.state \in 1 .. MaxObjects
  BY <1>3 DEF TypeOK, Service
<1>7. PendingOK(World)
  <2>1. \A s : With(<<>>, s) = {}
    BY DEF With
  <2> QED BY <1>4, <1>5, <2>1, FS_EmptySet DEF PendingOK
<1>8. TiedOK(World) /\ StaleOK(World)
  BY <1>5 DEF TiedOK, StaleOK
<1>9. StrandedOK(World) /\ CancelledOK(World)
  BY <1>4, <1>5, <1>6 DEF StrandedOK, CancelledOK, Composed
<1>10. BlockedOK(posted)
  BY DEF Init, BlockedOK
<1> QED BY <1>3, <1>5, <1>7, <1>8, <1>9, <1>10 DEF IInv, Good, Sound

LEMMA NextIInv ==
  ASSUME IInv, [Next]_vars
  PROVE  IInv' /\ SafeStep
<1>1. TypeOK /\ Good(World) /\ (Calm => BlockedOK(posted)) /\ FieldType
  BY WorldTyped DEF IInv
<1>2. /\ focus \in Contexts \cup {None} /\ keys \in 0 .. MaxKeys /\ moves \in 0 .. MaxMoves
      /\ MaxKeys \in Nat /\ MaxMoves \in Nat
  BY <1>1, TextServiceAssumption DEF TypeOK
<1>3. ASSUME NEW kind \in Kinds, NEW seen \in {"Unknown"} \cup {field[c] : c \in {focus} \cap Contexts},
             NEW daemon, NEW h \in Hosts, OnKeyDown(kind, seen, daemon, h.answer, h.fails)
      PROVE  IInv' /\ SafeStep
  <2>1. PICK v : Steps(v) /\ v.posted = posted
    BY <1>1, <1>3, OnKeyDownSteps
  <2>2. field' = field /\ focus' = focus /\ moves' = moves /\ keys' = keys + 1 /\ keys < MaxKeys
    BY <1>3 DEF OnKeyDown
  <2> QED BY <1>1, <1>2, <2>1, <2>2, StepsKeeps
<1>4. ASSUME NEW daemon, NEW h \in Hosts, CandidateInvoked(daemon, h.answer, h.fails)
      PROVE  IInv' /\ SafeStep
  <2>1. PICK v : Steps(v) /\ v.posted = posted
    BY <1>1, <1>4, CandidateInvokedSteps
  <2>2. field' = field /\ focus' = focus /\ moves' = moves /\ keys' = keys
    BY <1>4 DEF CandidateInvoked
  <2> QED BY <1>1, <1>2, <2>1, <2>2, StepsKeeps
<1>5. ASSUME NEW c \in Contexts \cup {None}, NEW h \in Hosts, ContextChanges(c, h.answer, h.fails)
      PROVE  IInv' /\ SafeStep
  <2>1. PICK v : Steps(v) /\ v.posted = posted
    BY <1>1, <1>5, ContextChangesSteps
  <2>2. field' = field /\ focus' = c /\ moves' = moves + 1 /\ moves < MaxMoves /\ keys' = keys
    BY <1>5 DEF ContextChanges
  <2> QED BY <1>1, <1>2, <2>1, <2>2, StepsKeeps
<1>6. ASSUME NEW h \in Hosts, Deliver(h.answer, h.fails)
      PROVE  IInv' /\ SafeStep
  <2>1. PICK v : Steps(v) /\ (Calm => BlockedOK(v.posted))
    BY <1>1, <1>6, DeliverSteps
  <2>2. field' = field /\ focus' = focus /\ moves' = moves /\ keys' = keys
    BY <1>6 DEF Deliver
  <2> QED BY <1>1, <1>2, <2>1, <2>2, StepsKeeps
<1>7. ASSUME NEW c \in Contexts, FieldChanges(c)
      PROVE  IInv' /\ SafeStep
  BY <1>7, FieldChangesKeeps
<1>8. ASSUME NEW c \in Contexts, HostDrops(c)
      PROVE  IInv' /\ SafeStep
  <2>1. PICK v : Steps(v) /\ (Calm => BlockedOK(v.posted))
    BY <1>1, <1>8, HostDropsSteps
  <2>2. field' = field /\ focus' = focus /\ moves' = moves /\ keys' = keys
    BY <1>8 DEF HostDrops
  <2> QED BY <1>1, <1>2, <2>1, <2>2, StepsKeeps
<1>9. ASSUME NEW c \in Contexts, NEW F \in Faults, HostRuns(c, F)
      PROVE  IInv' /\ SafeStep
  <2>1. PICK v : Steps(v) /\ (Calm => BlockedOK(v.posted))
    BY <1>1, <1>9, HostRunsSteps
  <2>2. field' = field /\ focus' = focus /\ moves' = moves /\ keys' = keys
    BY <1>9 DEF HostRuns
  <2> QED BY <1>1, <1>2, <2>1, <2>2, StepsKeeps
<1>10. ASSUME NEW s \in 1 .. MaxObjects, OnCompositionTerminated(s)
       PROVE  IInv' /\ SafeStep
  <2>1. PICK v : Steps(v) /\ v.posted = posted
    BY <1>1, <1>10, TerminatedSteps
  <2>2. field' = field /\ focus' = focus /\ moves' = moves /\ keys' = keys
    BY <1>10 DEF OnCompositionTerminated
  <2> QED BY <1>1, <1>2, <2>1, <2>2, StepsKeeps
<1>11. CASE UNCHANGED vars
  <2>1. /\ service' = service /\ objects' = objects /\ edits' = edits /\ posted' = posted
        /\ document' = document /\ field' = field /\ focus' = focus /\ keys' = keys /\ moves' = moves
        /\ owed' = owed
    BY <1>11 DEF vars
  <2>2. TypeOK' /\ World' = World /\ (Calm => BlockedOK(posted)')
    BY <1>1, <2>1 DEF TypeOK, World, BlockedOK
  <2>3. SafeStep
    BY <1>1, <2>1 DEF SafeStep, TypeOK
  <2> QED BY <1>1, <2>2, <2>3 DEF IInv
<1>12. CASE Next
  BY <1>3, <1>4, <1>5, <1>6, <1>7, <1>8, <1>9, <1>10, <1>12 DEF Next
<1> QED BY <1>11, <1>12

------------------------------------------------------------------------------
(* The inductive invariant holds for every host: any number of contexts,      *)
(* edits, keys and failures, and any order of what the host may do.           *)
THEOREM Invariance == Spec => []IInv
<1>1. Init => IInv
  BY InitIInv
<1>2. IInv /\ [Next]_vars => IInv'
  BY NextIInv
<1> QED BY <1>1, <1>2, PTL DEF Spec

(* The service's state, what waits and the documents have their types, in     *)
(* every run of LekhTextService within the bounds.                            *)
THEOREM TypeCorrectness == Spec => []TypeOK
<1>1. IInv => TypeOK
  BY DEF IInv
<1> QED BY <1>1, Invariance, PTL

(* An edit session that outlives its context (CloseActiveContext) was         *)
(* cancelled; any other is for the context and generation the service is in.  *)
THEOREM StaleEditsAreCancelled == Spec => []StaleEditsCancelled
<1>1. IInv => StaleEditsCancelled
  <2> SUFFICES ASSUME IInv, NEW i \in DOMAIN edits, edits[i].kind \in {"Decision", "FailOpen"}
               PROVE  \/ objects[edits[i].state].cancelled
                      \/ /\ edits[i].state = service.state
                         /\ edits[i].generation = service.generation
                         /\ edits[i].context = service.context
    BY DEF StaleEditsCancelled
  <2>1. StaleOK(World) /\ TiedOK(World)
    BY DEF IInv, Good, Sound
  <2> QED BY <2>1 DEF StaleOK, TiedOK, Tied, World
<1> QED BY <1>1, Invariance, PTL

(* The service adds nothing to a document whose field is not safe when the     *)
(* edit runs (DoEditSession's check), whatever the host fails, drops, refuses, *)
(* ends or delays.                                                           *)
THEOREM NothingWrittenUnsafe == Spec => SafeFieldsOnly
<1>1. IInv /\ [Next]_vars =>
        [\A c \in Contexts : field[c] # "Safe" /\ Len(document'[c]) > Len(document[c]) =>
           Last(document'[c]).by = Host]_vars
  BY NextIInv DEF SafeStep
<1> QED BY <1>1, Invariance, PTL DEF Spec, SafeFieldsOnly

(* A cancelled composition whose context the service has left has an edit     *)
(* waiting that finishes it (CloseActiveContext), when the caret does not come *)
(* back from an unsafe field while edits or completions are on their way.     *)
THEOREM NothingStranded ==
  ASSUME Calm
  PROVE  Spec => []NoCompositionStranded
<1>1. IInv => NoCompositionStranded
  BY DEF IInv, Good, Sound, StrandedOK, Composed, Finishing, NoCompositionStranded, World
<1> QED BY <1>1, Invariance, PTL
=============================================================================
