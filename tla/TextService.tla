----------------------------- MODULE TextService -----------------------------
(* The Windows text service between a host's documents and the keyboard       *)
(* daemon (native/windows-tsf/skeleton/LekhTextService.cpp, with the edit      *)
(* sessions of TsfEditSession.cpp).  The service may touch a document only in  *)
(* an edit session, which the host runs at once, later, never, or refuses.     *)
(* While an edit waits the user types on, the daemon fails, the field under    *)
(* the caret turns out to be a password field, the host ends the composition   *)
(* or the focus moves.  Everything the service knows is one record, "service", *)
(* and every queued edit shares one composition state object with it, which    *)
(* outlives the context it was made for.  A key is a number and a text is the  *)
(* sequence of the keys it stands for, whatever script it is written in.       *)
EXTENDS Naturals, Sequences, SequencesExt, FiniteSets

CONSTANTS
  Contexts,       \* the host's text contexts
  None,           \* no context
  MaxObjects,     \* bound on the composition state objects alive at a time
  MaxKeys,        \* bound on the keys pressed
  MaxMoves,       \* bound on changes of focus, selection and field
  Kinds,          \* the kinds of key pressed: "Letter", "Space", "Escape"
  Faults,         \* the sets of operations the host may fail in one edit
  Misfits         \* what an unusual host does besides (see each at its guard)

ASSUME TextServiceAssumption ==
  /\ None \notin Contexts
  /\ MaxObjects \in Nat \ {0} /\ MaxKeys \in Nat /\ MaxMoves \in Nat
  /\ Kinds \subseteq {"Letter", "Space", "Escape"}
  /\ {} \in Faults /\ Faults \subseteq SUBSET {"start", "text", "insert", "select", "end"}
  /\ Misfits \subseteq {"terminate", "late", "refuse", "drop", "fail", "flicker"}

VARIABLES
  service,    \* the fields of LekhTextService
  objects,    \* the composition state objects
  edits,      \* edit sessions the host has accepted and not yet run
  posted,     \* completions posted to the service's own window
  document,   \* each context's text: runs of keys, with the object tracking each
  field,      \* whether the field under a context's caret is Safe or Sensitive
  focus,      \* the context that has the host's focus
  keys,       \* keys pressed so far
  moves,      \* changes of focus, selection and field so far
  owed        \* the keys of this stay in the field, none of which may be dropped

vars == <<service, objects, edits, posted, document, field, focus, keys, moves, owed>>

------------------------------------------------------------------------------
(* Every handler is a composition of calls on the state below.               *)
World == [service |-> service, objects |-> objects, edits |-> edits, posted |-> posted,
          document |-> document, owed |-> owed]

NoSession == [live |-> FALSE, text |-> <<>>]

NewObject == [tracks |-> "nothing", pending |-> 0, failOpen |-> FALSE, closing |-> FALSE, cancelled |-> FALSE]

Active(w, s) == w.objects[s].tracks # "nothing"

Held(w) == {w.edits[i].state : i \in DOMAIN w.edits} \cup {w.posted[i].state : i \in DOMAIN w.posted}

(* A text that is no longer tracked stays in the document.                    *)
Released(w, S) ==
  [w EXCEPT !.document = [c \in Contexts |-> [i \in DOMAIN @[c] |->
     IF @[c][i].by \in S THEN [@[c][i] EXCEPT !.by = 0] ELSE @[c][i]]]]

Untracked(w, s) == [Released(w, {s}) EXCEPT !.objects[s].tracks = "nothing"]

(* An object ends with its last reference: the service's, an edit's or a      *)
(* posted completion's.                                                      *)
Reclaimed(w) ==
  LET gone == (1 .. MaxObjects) \ (Held(w) \cup {w.service.state})
  IN [Released(w, gone) EXCEPT !.objects = [s \in 1 .. MaxObjects |-> IF s \in gone THEN NewObject ELSE @[s]]]

ReplaceState(w) ==
  LET new == CHOOSE s \in 1 .. MaxObjects : s \notin Held(w)
  IN [Reclaimed([w EXCEPT !.service.state = 0]) EXCEPT !.service.state = new]

(* Mutant of CancelPendingEdits: the object closes, and its edits still run.  *)
OnlyClose(w, s) == [w EXCEPT !.objects[s].closing = TRUE]

CancelPendingEdits(w, s) == [w EXCEPT !.objects[s].cancelled = TRUE, !.objects[s].closing = TRUE]

Abandon(w, s) == Untracked(CancelPendingEdits(w, s), s)

(* A session is ended, or cancelled and ended: the daemon forgets it, and the *)
(* service has none whether or not the daemon answers.                       *)
EndDaemonSession(w) == [w EXCEPT !.service.session = NoSession, !.service.visible = FALSE]

Suppress(w) == [w EXCEPT !.service.suppressed = TRUE, !.owed = {}]

------------------------------------------------------------------------------
(* What an edit does to a document.  Each operation gives the world after it, *)
(* whether it succeeded, and whether text was changed.                       *)
Result(w, ok, mutated) == [w |-> w, ok |-> ok, mutated |-> mutated]

Rewritten(w, c, s, text) ==
  [w EXCEPT !.document[c] = [i \in DOMAIN @ |-> IF @[i].by = s THEN [@[i] EXCEPT !.text = text] ELSE @[i]]]

EndComposition(w, s, F) ==
  IF w.objects[s].tracks # "composition" THEN Result(w, TRUE, FALSE)
  ELSE IF "end" \in F THEN Result(w, FALSE, FALSE)
  ELSE Result(Untracked(w, s), TRUE, FALSE)

StartComposition(w, c, s, text, F) ==
  LET begun == [Untracked(w, s) EXCEPT !.objects[s].tracks = "composition",
                                       !.document[c] = Append(@, [by |-> s, text |-> <<>>])]
  IN IF "start" \in F THEN Result(w, FALSE, FALSE)
     ELSE IF "text" \in F THEN Result(EndComposition(begun, s, F).w, FALSE, FALSE)
     ELSE IF "select" \in F THEN Result(EndComposition(Rewritten(begun, c, s, text), s, F).w, FALSE, TRUE)
     ELSE Result(Rewritten(begun, c, s, text), TRUE, TRUE)

UpdateComposition(w, c, s, text, finish, F) ==
  LET changed == Rewritten(w, c, s, text)
      ended == IF finish \/ text = <<>> THEN EndComposition(changed, s, F) ELSE Result(changed, TRUE, FALSE)
  IN IF "text" \in F THEN Result(w, FALSE, FALSE)
     ELSE Result(ended.w, ended.ok /\ "select" \notin F, TRUE)

InsertPlainText(w, c, s, text, retain, F) ==
  LET inserted == [w EXCEPT !.document[c] = Append(@, [by |-> 0, text |-> text])]
  IN IF text = <<>> \/ "insert" \in F THEN Result(w, FALSE, FALSE)
     ELSE IF "select" \in F THEN Result(inserted, FALSE, TRUE)
     ELSE IF retain
     THEN Result([Untracked(w, s) EXCEPT !.document[c] = Append(@, [by |-> s, text |-> text]),
                                         !.objects[s].tracks = "range"], TRUE, TRUE)
     ELSE Result(inserted, TRUE, TRUE)

ApplyDesired(w, e, F) ==
  LET c == e.context
      s == e.state
      composing == w.objects[s].tracks = "composition"
  IN CASE e.action = "Compose" /\ composing -> UpdateComposition(w, c, s, e.text, FALSE, F)
       [] e.action = "Compose" /\ ~composing /\ e.text # <<>> -> StartComposition(w, c, s, e.text, F)
       [] e.action = "Commit" /\ composing -> UpdateComposition(w, c, s, e.text, TRUE, F)
       [] e.action = "Commit" /\ ~composing -> InsertPlainText(w, c, s, e.text, FALSE, F)
       [] e.action = "Cancel" /\ composing -> UpdateComposition(w, c, s, <<>>, TRUE, F)
       [] OTHER -> Result(w, TRUE, FALSE)

(* Literal keys in a composition of their own, or as plain text where it did  *)
(* not start.                                                                *)
OrPlainText(start, e, finish, F) ==
  IF ~start.ok
  THEN [InsertPlainText(start.w, e.context, e.state, e.literal, ~finish, F) EXCEPT !.mutated = @ \/ start.mutated]
  ELSE IF finish THEN [EndComposition(start.w, e.state, F) EXCEPT !.mutated = TRUE]
  ELSE start

(* The literal keys in place of what could not be shown: in the range that is *)
(* tracked already, else in a composition, else as plain text.  The last      *)
(* waiting edit lets the text go.                                            *)
ApplyFailOpen(w0, e, F, rejected) ==
  LET c == e.context
      s == e.state
      w == [w0 EXCEPT !.objects[s].failOpen = TRUE]
      finish == w.objects[s].closing \/ w.objects[s].pending <= 1
  IN CASE w.objects[s].tracks = "composition" -> UpdateComposition(w, c, s, e.literal, finish, F)
       [] w.objects[s].tracks = "range" ->
            IF "text" \in F THEN Result(w, FALSE, FALSE)
            ELSE LET changed == Rewritten(w, c, s, e.literal)
                 IN Result(IF finish THEN Untracked(changed, s) ELSE changed, "select" \notin F, TRUE)
       [] w.objects[s].tracks = "nothing" /\ e.literal = <<>> -> Result(w, TRUE, FALSE)
       [] w.objects[s].tracks = "nothing" /\ e.literal # <<>> /\ rejected ->
            InsertPlainText(w, c, s, e.literal, ~finish, F)
       [] OTHER -> OrPlainText(StartComposition(w, c, s, e.literal, F), e, finish, F)

FinishTracked(w, e, F) ==
  IF w.objects[e.state].tracks = "composition"
  THEN IF e.text # <<>> THEN UpdateComposition(w, e.context, e.state, e.text, TRUE, F)
       ELSE EndComposition(w, e.state, F)
  ELSE Result(Untracked(w, e.state), TRUE, FALSE)

------------------------------------------------------------------------------
(* Edit sessions.                                                            *)
Edit(w, kind, action, text, literal, offers) ==
  [kind |-> kind, context |-> w.service.context, generation |-> w.service.generation,
   state |-> IF kind = "Inspect" THEN 0 ELSE w.service.state,
   action |-> action, text |-> text, literal |-> literal, offers |-> offers]

Outcome(e) == [state |-> e.state, edit |-> e, ran |-> FALSE, consumed |-> FALSE, desired |-> FALSE,
               fallback |-> FALSE, blocked |-> FALSE, failOpen |-> FALSE, privacy |-> "Unknown"]

(* A failed edit of a Compose, or of a Commit over a composition, is not      *)
(* tried as a composition again.                                             *)
CompositionRejected(w, e, F) ==
  F \cap {"start", "text"} # {} /\ (e.action = "Commit" => w.objects[e.state].tracks = "composition")

(* Mutant of FieldSafe: the last inspection is trusted.                       *)
FieldLastSeen(w, c) == w.service.context = c /\ w.service.privacy = "Safe"

(* The field under the caret, as it is when the edit runs.                    *)
FieldSafe(w, c) == field[c] = "Safe"

(* How a run comes out: "kept" is what of it tells the key handler that the   *)
(* key was taken.                                                            *)
Ran(e) == [Outcome(e) EXCEPT !.ran = TRUE]
AsDesired(e, r) == [w |-> r.w, out |-> [Ran(e) EXCEPT !.desired = r.ok, !.consumed = r.ok \/ r.mutated]]
AsFallback(e, r, kept) == [w |-> r.w, out |-> [Ran(e) EXCEPT !.fallback = r.ok, !.consumed = r.ok \/ kept]]
AsLiteral(e, r) == AsFallback(e, r, r.mutated)

(* What the engine decided; its literal keys where nothing of it was written. *)
OrFailOpen(e, desired, rejected, F) ==
  IF desired.ok \/ desired.mutated THEN AsDesired(e, desired)
  ELSE AsFallback(e, ApplyFailOpen(desired.w, e, F, rejected), FALSE)

(* DoEditSession: an edit that was cancelled does nothing, and one for a      *)
(* document looks at the field again first.                                  *)
DoEditSession(w, e, F) ==
  CASE e.kind = "Inspect" -> [w |-> w, out |-> [Ran(e) EXCEPT !.privacy = field[e.context]]]
    [] e.kind = "Finish" -> AsDesired(e, [FinishTracked(w, e, F) EXCEPT !.mutated = FALSE])
    [] e.kind \in {"Decision", "FailOpen"} /\ w.objects[e.state].cancelled -> [w |-> w, out |-> Ran(e)]
    [] e.kind \in {"Decision", "FailOpen"} /\ ~w.objects[e.state].cancelled /\ ~FieldSafe(w, e.context) ->
         [w |-> w, out |-> [Ran(e) EXCEPT !.blocked = TRUE]]
    [] OTHER ->
         IF e.kind = "FailOpen" \/ w.objects[e.state].failOpen
         THEN AsLiteral(e, ApplyFailOpen(w, e, F, FALSE))
         ELSE OrFailOpen(e, ApplyDesired(w, e, F), CompositionRejected(w, e, F), F)

(* The edit session's last reference is gone: it no longer counts as pending, *)
(* and a composition that could not be finished is let go of.                *)
Settled(w, out) ==
  LET e == out.edit
      counted == IF e.kind = "Inspect" THEN w ELSE [w EXCEPT !.objects[e.state].pending = @ - 1]
  IN IF e.kind = "Finish" /\ ~out.desired THEN Abandon(counted, e.state) ELSE counted

FailOpenOf(w, out) == [out EXCEPT !.failOpen = out.edit.kind # "Inspect" /\ w.objects[out.state].failOpen]

AtOnce(run) ==
  LET done == IF run.out.edit.kind = "Inspect" THEN run.out.ran ELSE run.out.consumed
  IN [w |-> Settled(run.w, run.out), status |-> IF done THEN "Completed" ELSE "Rejected",
      out |-> FailOpenOf(run.w, run.out)]

(* The host runs the edit now, queues it, or refuses it; behind an edit that  *)
(* waits for the same document it can only wait.                             *)
Submit(w, e, answer, F) ==
  LET waits == \E i \in DOMAIN w.edits : w.edits[i].context = e.context
      counted == IF e.kind = "Inspect" THEN w ELSE [w EXCEPT !.objects[e.state].pending = @ + 1]
      busy == waits \/ (e.kind # "Inspect" /\ Active(w, e.state))
  IN IF answer = "refuse" /\ (~busy \/ "refuse" \in Misfits)
     THEN [w |-> w, status |-> "Rejected", out |-> Outcome(e)]
     ELSE IF answer # "now" \/ waits
     THEN [w |-> [counted EXCEPT !.edits = Append(@, e)], status |-> "Queued", out |-> Outcome(e)]
     ELSE AtOnce(DoEditSession(counted, e, F))

------------------------------------------------------------------------------
(* The service's own handlers.                                               *)
(* Mutant of HandleEditCompleted: an older completion brings its own text     *)
(* back.                                                                     *)
RollBackToCompleted(w, out) ==
  LET svc == w.service
      pending == w.objects[svc.state].pending
      stopped == [Suppress(EndDaemonSession(w)) EXCEPT !.service.raw = <<>>, !.service.failOpen = FALSE]
  IN CASE out.edit.generation # svc.generation \/ out.edit.context # svc.context \/ out.state # svc.state -> w
       [] OTHER ->
          IF out.blocked THEN CancelPendingEdits([stopped EXCEPT !.service.privacy = "Unknown"], svc.state)
          ELSE IF ~out.consumed THEN stopped
          ELSE IF out.fallback \/ out.failOpen
          THEN IF pending > 0 THEN [EndDaemonSession(w) EXCEPT !.service.failOpen = TRUE, !.service.raw = out.edit.literal]
               ELSE ReplaceState([EndDaemonSession(w) EXCEPT !.service.raw = <<>>, !.service.failOpen = FALSE])
          ELSE IF ~out.desired THEN Suppress(EndDaemonSession(w))
          ELSE IF pending > 0 THEN w
          ELSE [w EXCEPT !.service.visible = out.edit.offers]

HandleEditCompleted(w, out) ==
  LET svc == w.service
      pending == w.objects[svc.state].pending
      stopped == [Suppress(EndDaemonSession(w)) EXCEPT !.service.raw = <<>>, !.service.failOpen = FALSE]
  IN CASE out.edit.generation # svc.generation \/ out.edit.context # svc.context \/ out.state # svc.state -> w
       [] OTHER ->
          IF out.blocked THEN CancelPendingEdits([stopped EXCEPT !.service.privacy = "Unknown"], svc.state)
          ELSE IF ~out.consumed THEN stopped
          ELSE IF out.fallback \/ out.failOpen
          THEN IF pending > 0 THEN [EndDaemonSession(w) EXCEPT !.service.failOpen = TRUE]
               ELSE ReplaceState([EndDaemonSession(w) EXCEPT !.service.raw = <<>>, !.service.failOpen = FALSE])
          ELSE IF ~out.desired THEN Suppress(EndDaemonSession(w))
          ELSE IF pending > 0 THEN w
          ELSE [w EXCEPT !.service.visible = out.edit.offers]

(* Leaving a context: what waits is cancelled, a composition is finished with *)
(* the text last presented, and everything about the context is forgotten.   *)
Forgotten(w) ==
  ReplaceState([EndDaemonSession(w) EXCEPT
    !.owed = {}, !.service.context = None, !.service.raw = <<>>, !.service.presented = <<>>,
    !.service.failOpen = FALSE, !.service.inspecting = FALSE, !.service.privacy = "Unknown",
    !.service.generation = @ + 1])

OrAbandoned(finish, s) == IF finish.status = "Rejected" THEN Abandon(finish.w, s) ELSE finish.w

SubmitFinish(w, answer, F) ==
  OrAbandoned(Submit(w, Edit(w, "Finish", "Cancel", w.service.presented, <<>>, FALSE), answer, F), w.service.state)

(* Mutant of CloseActiveContext: a composition with edits waiting is left to  *)
(* them.                                                                     *)
CloseUnlessPending(w, answer, F) ==
  LET cancelled == CancelPendingEdits(w, w.service.state)
  IN Forgotten(IF w.service.context = None \/ w.objects[w.service.state].tracks # "composition"
                  \/ w.objects[w.service.state].pending > 0
               THEN cancelled ELSE SubmitFinish(cancelled, answer, F))

CloseActiveContext(w, answer, F) ==
  LET cancelled == CancelPendingEdits(w, w.service.state)
  IN Forgotten(IF w.service.context = None \/ ~Active(w, w.service.state)
               THEN cancelled ELSE SubmitFinish(cancelled, answer, F))

HandleInspected(w, out, answer, F) ==
  LET seen == [w EXCEPT !.service.inspecting = FALSE]
  IN IF out.edit.generation # w.service.generation \/ out.edit.context # w.service.context THEN w
     ELSE IF ~out.ran THEN seen
     ELSE IF out.privacy = "Safe" THEN [seen EXCEPT !.service.privacy = "Safe"]
     ELSE CloseActiveContext(Suppress(seen), answer, F)

(* Taking a context up: nothing is known of its field until an inspection has *)
(* run in it.                                                                *)
TakeUp(w, c, answer, F) ==
  IF w.service.context = c THEN w
  ELSE [CloseActiveContext(w, answer, F) EXCEPT
          !.service.context = c, !.service.generation = @ + 1, !.service.suppressed = FALSE]

InspectionAnswered(w, sent, answer, F) ==
  CASE sent.status = "Completed" -> HandleInspected(sent.w, sent.out, answer, F)
    [] sent.status = "Rejected" -> w
    [] OTHER -> sent.w

InspectUnknown(w, answer, F) ==
  LET asked == [w EXCEPT !.service.inspecting = TRUE]
  IN IF w.service.privacy # "Unknown" \/ w.service.inspecting THEN w
     ELSE InspectionAnswered(w, Submit(asked, Edit(asked, "Inspect", "None", <<>>, <<>>, FALSE), answer, F), answer, F)

PrimeContextPrivacy(w, c, answer, F) == InspectUnknown(TakeUp(w, c, answer, F), answer, F)

BeginDaemonSession(w) ==
  [w EXCEPT !.service.session = [live |-> TRUE, text |-> <<>>]]

(* A key is for the service only in a context it has seen to be safe, with a  *)
(* daemon session or with literal text under way.  "seen" is what a look at   *)
(* the field gives at once, "Unknown" from a host that allows none.          *)
ReadyIfSafe(w, daemon) ==
  LET literal == w.service.failOpen \/ w.objects[w.service.state].failOpen
      no(v) == [w |-> v, ready |-> FALSE]
  IN IF w.service.privacy = "Sensitive" THEN no(Suppress(w))
     ELSE IF w.service.privacy = "Unknown" THEN no(w)
     ELSE IF literal \/ w.service.session.live THEN [w |-> w, ready |-> TRUE]
     ELSE IF daemon = "down" THEN no(w)
     ELSE [w |-> BeginDaemonSession(w), ready |-> TRUE]

ReadyInContext(w, c, seen, daemon) ==
  IF w.service.context # c THEN [w |-> w, ready |-> FALSE]
  ELSE ReadyIfSafe(IF seen = "Unknown" THEN w ELSE [w EXCEPT !.service.privacy = seen], daemon)

PrepareSafeContext(w, c, seen, daemon, answer, F) ==
  IF w.service.suppressed THEN [w |-> w, ready |-> FALSE]
  ELSE ReadyInContext(IF w.service.context = c THEN w ELSE PrimeContextPrivacy(w, c, answer, F), c, seen, daemon)

Passed(w) == [w |-> w, eaten |-> FALSE]
Eaten(w) == [w |-> w, eaten |-> TRUE]

(* A text that the host refused leaves what the service knew before.          *)
FailOpenAnswered(raw, sent) ==
  LET ended == EndDaemonSession(sent.w)
  IN CASE sent.status = "Rejected" ->
            Passed([ended EXCEPT !.service.raw = raw,
                                 !.service.failOpen = sent.w.objects[sent.w.service.state].failOpen])
       [] sent.status = "Completed" -> Eaten(HandleEditCompleted(ended, sent.out))
       [] OTHER -> Eaten(ended)

QueueFailOpenText(w, literal, answer, F) ==
  LET asked == [w EXCEPT !.service.raw = literal, !.service.failOpen = TRUE]
  IN FailOpenAnswered(w.service.raw,
       Submit(asked, Edit(asked, "FailOpen", "PassThrough", <<>>, literal, FALSE), answer, F))

DecisionAnswered(raw, presented, sent) ==
  CASE sent.status = "Rejected" ->
         Passed([EndDaemonSession(sent.w) EXCEPT !.service.raw = raw, !.service.presented = presented])
    [] sent.status = "Completed" -> Eaten(HandleEditCompleted(sent.w, sent.out))
    [] OTHER -> Eaten(sent.w)

ApplyDecision(w, d, literal, answer, F) ==
  LET shown == IF d.action = "Compose" THEN d.text ELSE <<>>
      asked == [w EXCEPT !.service.raw = shown, !.service.presented = shown]
  IN DecisionAnswered(w.service.raw, w.service.presented,
       Submit(asked, Edit(asked, "Decision", d.action, d.text, literal, d.offers), answer, F))

(* What the daemon makes of a key: the text of its session grows, is committed *)
(* or is dropped; with nothing to act on it passes.                           *)
Decided(action, text, offers) == [action |-> action, text |-> text, offers |-> offers]

Decision(session, kind, k, daemon) ==
  CASE kind = "Letter" -> Decided("Compose", Append(session.text, k), daemon = "offers")
    [] kind = "Space" /\ session.text # <<>> -> Decided("Commit", Append(session.text, k), FALSE)
    [] kind = "Escape" /\ session.text # <<>> -> Decided("Cancel", <<>>, FALSE)
    [] OTHER -> Decided("PassThrough", <<>>, FALSE)

Followed(w, d) == [w EXCEPT !.service.session.text = IF d.action = "Compose" THEN d.text ELSE <<>>]

AskDaemon(w, kind, k, daemon, answer, F) ==
  LET literal == IF kind = "Escape" THEN w.service.raw ELSE Append(w.service.raw, k)
      d == Decision(w.service.session, kind, k, daemon)
      nothing == w.service.raw = <<>> /\ ~Active(w, w.service.state)
      failing == w.service.failOpen \/ w.objects[w.service.state].failOpen
      declined == daemon = "declines" \/ d.action = "PassThrough"
  IN IF failing THEN QueueFailOpenText(w, literal, answer, F)
     ELSE IF ~w.service.session.live THEN Passed(w)
     ELSE IF daemon \notin {"down", "silent"} /\ ~declined
     THEN ApplyDecision(Followed(w, d), d, IF d.action = "Compose" THEN d.text ELSE literal, answer, F)
     ELSE IF daemon \notin {"down", "silent"} /\ nothing THEN Passed(EndDaemonSession(w))
     ELSE QueueFailOpenText(w, literal, answer, F)

(* Text that is remembered and nowhere in the document is out of date: it is  *)
(* dropped with its session, and the key begins another.                     *)
ProcessKey(w, kind, k, daemon, answer, F) ==
  LET object == w.objects[w.service.state]
      stale == /\ w.service.raw # <<>> /\ object.tracks = "nothing"
               /\ ~object.failOpen /\ object.pending = 0
      dropped == ReplaceState([EndDaemonSession(w) EXCEPT !.service.raw = <<>>])
  IN IF ~stale THEN AskDaemon(w, kind, k, daemon, answer, F)
     ELSE IF daemon = "down" THEN Passed(dropped)
     ELSE AskDaemon(BeginDaemonSession(dropped), kind, k, daemon, answer, F)

ShouldHandleKey(kind) ==
  /\ ~service.suppressed
  /\ \/ kind = "Letter"
     \/ kind = "Space" /\ service.visible
     \/ service.failOpen \/ service.raw # <<>> \/ Active(World, service.state)

------------------------------------------------------------------------------
(* Bound: a handler runs while an object is left for a new composition state. *)
HasRoom == ~ (1 .. MaxObjects \subseteq Held(World) \cup {service.state})

Becomes(w0) ==
  LET w == Reclaimed(w0)
  IN /\ service' = w.service /\ objects' = w.objects /\ edits' = w.edits /\ posted' = w.posted
     /\ document' = w.document /\ owed' = w.owed

Host == MaxObjects + 1

(* A key that the service does not take reaches the document as it is; the    *)
(* host's message loop delivers a posted completion before the next key.      *)
Typed(w, kind, k) ==
  IF kind = "Escape" THEN w ELSE [w EXCEPT !.document[focus] = Append(@, [by |-> Host, text |-> <<k>>])]

IfReady(prepared, kind, k, daemon, answer, F) ==
  IF prepared.ready THEN ProcessKey(prepared.w, kind, k, daemon, answer, F) ELSE Passed(prepared.w)

Pressed(handled, kind, k) ==
  LET w == IF handled.eaten THEN handled.w ELSE Typed(handled.w, kind, k)
  IN [w EXCEPT !.owed = IF kind = "Escape" \/ w.service.suppressed THEN {} ELSE @ \cup {k}]

OnKeyDown(kind, seen, daemon, answer, F) ==
  /\ HasRoom
  /\ focus # None /\ keys < MaxKeys
  /\ posted = <<>> \/ "late" \in Misfits
  /\ Becomes(Pressed(IF ShouldHandleKey(kind)
                     THEN IfReady(PrepareSafeContext(World, focus, seen, daemon, answer, F),
                                  kind, keys + 1, daemon, answer, F)
                     ELSE Passed(World), kind, keys + 1))
  /\ keys' = keys + 1
  /\ UNCHANGED <<field, focus, moves>>

(* A candidate is chosen with the mouse.                                      *)
CandidateInvoked(daemon, answer, F) ==
  /\ HasRoom
  /\ service.visible /\ service.context # None /\ service.session.live
  /\ posted = <<>> \/ "late" \in Misfits
  /\ LET session == service.session
         d == Decided("Commit", session.text, FALSE)
     IN Becomes(IF daemon # "answers" \/ session.text = <<>>
                THEN QueueFailOpenText(World, service.raw, answer, F).w
                ELSE ApplyDecision(Followed(World, d), d, service.raw, answer, F).w)
  /\ UNCHANGED <<field, focus, keys, moves>>

(* The focus, the top context, or the selection or input scope of the focused *)
(* context changes; None is a focus lost.                                     *)
ContextChanges(c, answer, F) ==
  /\ HasRoom
  /\ moves < MaxMoves
  /\ LET closed == [CloseActiveContext(World, answer, F) EXCEPT !.service.suppressed = FALSE]
     IN Becomes(IF c = None THEN closed ELSE PrimeContextPrivacy(closed, c, answer, F))
  /\ focus' = c /\ moves' = moves + 1
  /\ UNCHANGED <<field, keys>>

(* The field under the caret becomes another, and nobody has been told yet.   *)
(* The caret comes back from a field that is not safe when nothing waits.      *)
FieldChanges(c) ==
  /\ moves < MaxMoves
  /\ field[c] = "Safe" \/ (edits = <<>> /\ posted = <<>>) \/ "flicker" \in Misfits
  /\ field' = [field EXCEPT ![c] = IF @ = "Safe" THEN "Sensitive" ELSE "Safe"]
  /\ moves' = moves + 1 /\ owed' = {}
  /\ UNCHANGED <<service, objects, edits, posted, document, focus, keys>>

Waiting(c) == {i \in DOMAIN edits : edits[i].context = c}
First(c) == CHOOSE i \in Waiting(c) : \A j \in Waiting(c) : i <= j

(* An edit that ran, or never will, is posted to the service.                 *)
Completed(w, out) ==
  IF out.edit.kind = "Finish" THEN w
  ELSE [w EXCEPT !.posted = Append(@, FailOpenOf(w, out)),
                 !.owed = IF out.consumed \/ out.edit.kind = "Inspect" THEN @ ELSE {}]

Finished(run) == Completed(Settled(run.w, run.out), run.out)

(* The host runs the first edit that waits for a document, or drops it.       *)
HostRuns(c, F) ==
  /\ Waiting(c) # {}
  /\ F = {} \/ "fail" \in Misfits \/ \A i \in Waiting(c) : edits[i].action # "Commit"
  /\ Becomes(Finished(DoEditSession([World EXCEPT !.edits = RemoveAt(edits, First(c))], edits[First(c)], F)))
  /\ UNCHANGED <<field, focus, keys, moves>>

HostDrops(c) ==
  /\ Waiting(c) # {}
  /\ c # service.context \/ "drop" \in Misfits
  /\ Becomes(Finished([w |-> [World EXCEPT !.edits = RemoveAt(edits, First(c))], out |-> Outcome(edits[First(c)])]))
  /\ UNCHANGED <<field, focus, keys, moves>>

(* The host ends a composition of its own accord.                             *)
OnCompositionTerminated(s) ==
  /\ objects[s].tracks = "composition"
  /\ (objects[s].pending = 0 /\ posted = <<>> /\ ~service.visible) \/ "terminate" \in Misfits
  /\ Becomes(Untracked(World, s))
  /\ UNCHANGED <<field, focus, keys, moves>>

Deliver(answer, F) ==
  /\ HasRoom
  /\ posted # <<>>
  /\ LET w == [World EXCEPT !.posted = Tail(posted)]
         out == Head(posted)
     IN Becomes(IF out.edit.kind = "Inspect" THEN HandleInspected(w, out, answer, F)
                ELSE HandleEditCompleted(w, out))
  /\ UNCHANGED <<field, focus, keys, moves>>

Init ==
  /\ service = [context |-> None, generation |-> 0, privacy |-> "Unknown", suppressed |-> FALSE,
                inspecting |-> FALSE, failOpen |-> FALSE, visible |-> FALSE, raw |-> <<>>,
                presented |-> <<>>, session |-> NoSession, state |-> 1]
  /\ objects = [s \in 1 .. MaxObjects |-> NewObject]
  /\ edits = <<>> /\ posted = <<>>
  /\ document = [c \in Contexts |-> <<>>]
  /\ field \in [Contexts -> {"Safe", "Sensitive"}]
  /\ focus = None /\ keys = 0 /\ moves = 0
  /\ owed = {}

(* What the host does with the next request, and what it fails if it runs it. *)
Hosts == {h \in [answer : {"now", "queue", "refuse"}, fails : Faults] : h.answer = "now" \/ h.fails = {}}

Next ==
  \/ \E kind \in Kinds, seen \in {"Unknown"} \cup {field[c] : c \in {focus} \cap Contexts},
        daemon \in {"answers", "offers", "declines", "silent", "down"}, h \in Hosts :
       OnKeyDown(kind, seen, daemon, h.answer, h.fails)
  \/ \E daemon \in {"answers", "silent"}, h \in Hosts : CandidateInvoked(daemon, h.answer, h.fails)
  \/ \E c \in Contexts \cup {None}, h \in Hosts : ContextChanges(c, h.answer, h.fails)
  \/ \E h \in Hosts : Deliver(h.answer, h.fails)
  \/ \E c \in Contexts : FieldChanges(c) \/ HostDrops(c) \/ \E F \in Faults : HostRuns(c, F)
  \/ \E s \in 1 .. MaxObjects : OnCompositionTerminated(s)

Spec == Init /\ [][Next]_vars

------------------------------------------------------------------------------
(* Correctness.                                                              *)
Literal == Seq(Nat)

Service ==
  [context : Contexts \cup {None}, generation : Nat, privacy : {"Unknown", "Safe", "Sensitive"},
   suppressed : BOOLEAN, inspecting : BOOLEAN, failOpen : BOOLEAN, visible : BOOLEAN,
   raw : Literal, presented : Literal, session : [live : BOOLEAN, text : Literal],
   state : 1 .. MaxObjects]

CompositionState ==
  [tracks : {"nothing", "composition", "range"}, pending : Nat,
   failOpen : BOOLEAN, closing : BOOLEAN, cancelled : BOOLEAN]

EditSession ==
  [kind : {"Inspect"}, context : Contexts, generation : Nat, state : {0},
   action : {"None"}, text : {<<>>}, literal : {<<>>}, offers : {FALSE}]
    \cup [kind : {"Decision", "FailOpen", "Finish"}, context : Contexts, generation : Nat,
          state : 1 .. MaxObjects, action : {"Compose", "Commit", "Cancel", "PassThrough"},
          text : Literal, literal : Literal, offers : BOOLEAN]

Run == [by : 0 .. Host, text : Literal]

EditOutcome ==
  [state : 0 .. MaxObjects, edit : EditSession, ran : BOOLEAN, consumed : BOOLEAN, desired : BOOLEAN,
   fallback : BOOLEAN, blocked : BOOLEAN, failOpen : BOOLEAN,
   privacy : {"Unknown", "Safe", "Sensitive"}]

TypeOK ==
  /\ service \in Service
  /\ objects \in [1 .. MaxObjects -> CompositionState]
  /\ edits \in Seq(EditSession)
  /\ posted \in Seq(EditOutcome)
  /\ document \in [Contexts -> Seq(Run)]
  /\ field \in [Contexts -> {"Safe", "Sensitive"}]
  /\ focus \in Contexts \cup {None}
  /\ keys \in 0 .. MaxKeys /\ moves \in 0 .. MaxMoves
  /\ owed \subseteq 1 .. MaxKeys

Text(c) == FlattenSeq([i \in DOMAIN document[c] |-> document[c][i].text])
Shown(c) == ToSet(Text(c))

(* As long as the user stays in the context and types letters and spaces,     *)
(* every key is in the document once, or in an edit that will bring it there, *)
(* whatever the daemon answers and however the host queues.                   *)
EveryKeyOnce ==
  LET text == Text(service.context)
      waiting == UNION {ToSet(edits[i].text) \cup ToSet(edits[i].literal) :
                        i \in {i \in DOMAIN edits : edits[i].state = service.state}}
      times(k) == Cardinality({i \in DOMAIN text : text[i] = k})
  IN service.context # None => \A k \in owed : times(k) = 1 \/ (times(k) = 0 /\ k \in waiting)

(* An edit that outlives its context was cancelled, and one that did not      *)
(* belongs to the context the service is in.                                  *)
StaleEditsCancelled ==
  \A i \in DOMAIN edits : edits[i].kind \in {"Decision", "FailOpen"} =>
    \/ objects[edits[i].state].cancelled
    \/ /\ edits[i].state = service.state
       /\ edits[i].generation = service.generation /\ edits[i].context = service.context

(* A composition whose context the service has left is about to be finished.  *)
NoCompositionStranded ==
  \A s \in 1 .. MaxObjects :
    s # service.state /\ objects[s].cancelled /\ objects[s].tracks = "composition" =>
    \E i \in DOMAIN edits : edits[i].state = s /\ edits[i].kind = "Finish"

(* The service begins no text in a field that is not safe when it is written, *)
(* whenever the edit was asked for.                                          *)
SafeFieldsOnly ==
  [][\A c \in Contexts : field[c] # "Safe" /\ Len(document'[c]) > Len(document[c]) =>
       Last(document'[c]).by = Host]_vars

(* What a document shows stays.                                              *)
ShownTextStays == [][\A c \in Contexts : Shown(c) \subseteq Shown(c)']_vars
==============================================================================
