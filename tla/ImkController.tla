---------------------------- MODULE ImkController ----------------------------
(* The macOS input method's controller between a host's text clients, its own  *)
(* surfaces and the neural candidates (native/macos-imk/skeleton/              *)
(* LekhInputController.swift, LekhCandidateController.swift, the request part  *)
(* of LekhNeuralCandidateService.swift).  Everything runs on the main queue,   *)
(* but in turns: a render waits for the host's geometry and is tried again, a  *)
(* neural answer comes when it comes, a client's callback may come after the   *)
(* focus has left it, and secure input, the screen and the host change         *)
(* between any two turns.  A key is a number, a text the sequence of the keys  *)
(* it stands for, whatever script it is written in, and a candidate a name in  *)
(* the list made for a text.  The source compares generation counters, which   *)
(* only grow; here a bump makes what carries an earlier generation None.       *)
EXTENDS Naturals, Sequences, SequencesExt

CONSTANTS
  Clients,         \* the host's text clients
  None,            \* nothing: no client, text, request, surface
  Offers,          \* the lists of candidates the engine gives
  Hosts,           \* the hosts met when a surface is to be shown
  MaxKeys,         \* bound on the keys that write
  MaxComposition,  \* LekhActiveCompositionWorkBound
  PassiveRows,     \* LekhCandidatePanel.passiveVisibleRows
  Retries,         \* compositionSurfaceRetryDelays, after the first
  Told             \* what a client that loses the focus lets the controller know

(* Whether the host gives the geometry of the text, has room for a completion *)
(* beside it, and lets the system's own candidate window come up.             *)
Host == [geometry: BOOLEAN, room: BOOLEAN, system: BOOLEAN]

ASSUME ImkAssumption ==
  /\ None \notin Clients
  /\ \A o \in Offers : o \in Seq(ToSet(o)) /\ IsInjective(o) /\ "neural" \notin ToSet(o)
  /\ Hosts \subseteq Host
  /\ {MaxKeys, Retries} \subseteq Nat /\ {MaxComposition, PassiveRows} \subseteq Nat \ {0}
  /\ Told \subseteq {"deactivate", "nothing", "late"}

(* A text, the names in a list, LekhSurfaceToken, LekhCandidateAcceptanceReceipt,*)
(* LekhCandidateState, what the panels show, and what waits for its turn.     *)
Text == Seq(1 .. MaxKeys)
Name == {"neural"} \cup UNION {ToSet(o) : o \in Offers}
SurfaceToken == [raw : Text, client : Clients \cup {None}]
AcceptanceReceipt == [name : Name, raw : Text, client : Clients]
CandidateState == [of : Text, names : Seq(Name)]
CandidateWindow == [kind : {"custom", "system"}, of : Text, names : Seq(Name), token : SurfaceToken]
RenderRequest == [raw : Text, left : 0 .. Retries]
NeuralRequest == [raw : Text, names : Offers, stage : {"queued", "posted"}]
Document == [text : Text, marked : Text]
Insertion == [client : Clients, replaced : Text, of : Text, name : Name \cup {"ghost"}]

ASSUME NoneIsNoValue ==
  None \notin Text \cup Name \cup SurfaceToken \cup AcceptanceReceipt \cup CandidateWindow
             \cup RenderRequest \cup NeuralRequest \cup Insertion

VARIABLES
  controller,  \* the fields of LekhInputController, and its engine's buffer
  screen,      \* the panels, as the user sees them
  later,       \* what waits on the main queue and on the neural worker
  document,    \* each client's text and marked text
  secure,      \* IsSecureEventInputEnabled
  focus,       \* the client the user types in
  late,        \* clients one callback of which is still to come
  menu,        \* the candidate the open input menu offers to forget
  keys,        \* keys that write, so far
  typed,       \* history: the keys written in each client and not deleted
  stranded,    \* history: keys left in a marked text the controller forgot
  forgotten,   \* history: candidates forgotten for this very text
  accepted     \* history: the candidate that the last handler inserted

vars == <<controller, screen, later, document, secure, focus, late, menu, keys, typed, stranded,
          forgotten, accepted>>

------------------------------------------------------------------------------
(* Every handler is a composition of calls on the state below.                *)
World == [controller |-> controller, screen |-> screen, later |-> later, document |-> document,
          typed |-> typed, stranded |-> stranded, forgotten |-> forgotten, accepted |-> None]

Become(w) ==
  /\ controller' = w.controller /\ screen' = w.screen /\ later' = w.later
  /\ document' = w.document /\ typed' = w.typed /\ stranded' = w.stranded
  /\ forgotten' = w.forgotten /\ accepted' = w.accepted

NoList == [of |-> <<>>, names |-> <<>>]

Init ==
  /\ controller = [raw |-> <<>>, owner |-> None, list |-> NoList, selected |-> 0, browsing |-> FALSE,
                   receipt |-> None, listToken |-> None, wanted |-> None, ghostToken |-> None,
                   anchored |-> FALSE, dismissed |-> FALSE]
  /\ screen = [on |-> TRUE, list |-> None, ghost |-> None]
  /\ later = [render |-> None, neural |-> None]
  /\ document = [c \in Clients |-> [text |-> <<>>, marked |-> <<>>]]
  /\ secure = FALSE /\ focus \in Clients /\ late = {} /\ menu = None /\ keys = 0
  /\ typed = [c \in Clients |-> {}] /\ stranded = {} /\ forgotten = {} /\ accepted = None

------------------------------------------------------------------------------
(* Tokens: what a surface was shown for.                                      *)
Composing(w) == w.controller.raw # <<>>

MakeToken(w) == [raw |-> w.controller.raw, client |-> w.controller.owner]

IsCurrentToken(w, token, c) == token = [raw |-> w.controller.raw, client |-> c]

ListVisible(w) == w.screen.on /\ w.screen.list # None

GhostVisible(w) == w.screen.on /\ w.screen.ghost # None

(* surfaceRenderGeneration += 1                                               *)
Bump(w) ==
  [w EXCEPT !.controller.receipt = None, !.controller.listToken = None,
            !.controller.ghostToken = None, !.controller.anchored = FALSE, !.later.render = None]

Revoke(w) ==
  [w EXCEPT !.controller.browsing = FALSE, !.controller.receipt = None,
            !.controller.selected = 0, !.controller.listToken = None]

HideWindow(w) == Revoke([w EXCEPT !.screen.list = None])

(* Mutant of CancelPending: a request that was made is answered.              *)
CancelNothing(w) == w

CancelPending(w) == [w EXCEPT !.later.neural = None]

HideCandidates(w) ==
  HideWindow([Bump(CancelPending(w)) EXCEPT
    !.controller.wanted = None, !.controller.dismissed = FALSE, !.screen.ghost = None])

ReplaceList(w, names) ==
  Revoke([w EXCEPT !.controller.list = [of |-> w.controller.raw, names |-> names]])

(* The engine session is reset or ended, and its list goes with it.           *)
Ended(w) ==
  ReplaceList([w EXCEPT !.controller.raw = <<>>, !.controller.owner = None, !.forgotten = {}], <<>>)

Stranded(w) == [w EXCEPT !.stranded = @ \cup ToSet(w.controller.raw)]

(* Mutant of PrepareForClientTransition: the composition moves along.         *)
PrepareByRebinding(w, c) == IF Composing(w) THEN [w EXCEPT !.controller.owner = c] ELSE w

PrepareForClientTransition(w, c) ==
  IF w.controller.owner = c THEN w
  ELSE IF Composing(w) THEN HideCandidates(Ended(Stranded(w)))
  ELSE [w EXCEPT !.controller.owner = None]

------------------------------------------------------------------------------
(* What is written into a document.  A text that is inserted or marked takes  *)
(* the place of the text the client has marked.                               *)
Insert(w, c, text) == [w EXCEPT !.document[c].text = @ \o text, !.document[c].marked = <<>>]

Typed(w, c, n) == [w EXCEPT !.typed[c] = @ \cup {n}]

HostTypes(w, c, n) == Insert(Typed(w, c, n), c, <<n>>)

(* The composition is replaced by "text" and is over.                         *)
Committed(w, c, text) == HideCandidates(Ended(Insert(w, c, text)))

CommitRaw(w, c, suffix) ==
  IF w.controller.owner # c THEN PrepareForClientTransition(w, c)
  ELSE IF ~Composing(w) THEN w
  ELSE Committed(w, c, w.controller.raw \o suffix)

CommitCandidate(w, c, of, name, suffix) ==
  IF w.controller.owner # c THEN PrepareForClientTransition(w, c)
  ELSE [Committed(w, c, w.controller.raw \o suffix) EXCEPT
          !.accepted = [client |-> c, replaced |-> w.controller.raw, of |-> of, name |-> name]]

(* What was typed before secure input began is not kept: it is taken back     *)
(* from the client that owns it, if that is who called.                       *)
ClearForSecure(w, c) ==
  LET cleared == HideCandidates(Ended(w))
  IN IF ~Composing(w) THEN cleared
     ELSE IF w.controller.owner # c THEN HideCandidates(Ended(Stranded(w)))
     ELSE [cleared EXCEPT !.document[c].marked = <<>>, !.typed[c] = @ \ ToSet(w.controller.raw)]

(* Backspace took the last key.                                               *)
CancelLocal(w, c) == HideCandidates(Ended([w EXCEPT !.document[c].marked = <<>>]))

(* A decision that marks text: the list at once, the surfaces and the neural  *)
(* tail later.                                                                *)
Mark(w, c, raw, d) ==
  LET marked == [w EXCEPT !.controller.raw = raw, !.controller.owner = c, !.document[c].marked = raw,
                          !.controller.dismissed = FALSE, !.forgotten = {},
                          !.controller.wanted = IF d.ghost THEN raw ELSE None]
      listed == ReplaceList(marked, d.names)
      asked == IF d.tail THEN [listed EXCEPT !.later.neural = [raw |-> raw, names |-> d.names, stage |-> "queued"]]
               ELSE CancelPending(listed)
  IN [Bump(asked) EXCEPT !.later.render = [raw |-> raw, left |-> Retries]]

Decision == [names: Offers, ghost: BOOLEAN, tail: BOOLEAN]

------------------------------------------------------------------------------
(* The surfaces.                                                              *)
CheckGhost(w, c) ==
  IF GhostVisible(w) /\ IsCurrentToken(w, w.controller.ghostToken, c) THEN w
  ELSE [w EXCEPT !.controller.ghostToken = None]

CheckList(w, c) ==
  IF ListVisible(w) /\ IsCurrentToken(w, w.controller.listToken, c) THEN w ELSE Revoke(w)

Present(w, kind) ==
  LET c == w.controller
      shown == IF kind = "custom" /\ ~c.browsing /\ Len(c.list.names) > PassiveRows
               THEN SubSeq(c.list.names, 1, PassiveRows) ELSE c.list.names
  IN [w EXCEPT !.controller.listToken = MakeToken(w),
               !.screen.list = [kind |-> kind, of |-> c.list.of, names |-> shown, token |-> MakeToken(w)]]

RefreshCandidatePanel(w0, h) ==
  LET w == CheckGhost(w0, w0.controller.owner)
      c == w.controller
      anchored == [w EXCEPT !.controller.anchored = @ \/ h.geometry]
      unshown == [anchored EXCEPT !.screen.list = None, !.controller.listToken = None]
  IN IF \/ c.owner = None \/ c.dismissed \/ c.ghostToken # None
        \/ c.list.names = <<>> \/ (~c.browsing /\ Len(c.list.names) < 2)
     THEN HideWindow(w)
     ELSE IF anchored.controller.anchored /\ w.screen.on THEN Present(anchored, "custom")
     ELSE IF c.browsing /\ h.system /\ w.screen.on THEN Present(unshown, "system")
     ELSE unshown

DismissInlineSuggestion(w) == [Bump(w) EXCEPT !.controller.wanted = None, !.screen.ghost = None]

(* Acceptance: a row is inserted only against the receipt of a physical       *)
(* choice in the list that is on the screen.                                  *)
SelectedName(w) ==
  IF w.controller.selected \in DOMAIN w.controller.list.names
  THEN w.controller.list.names[w.controller.selected] ELSE None

Receipt(w, c, name) == [name |-> name, raw |-> w.controller.raw, client |-> c]

Authorize(w0, c) ==
  LET w == CheckList(w0, c)
  IN IF w.controller.browsing /\ SelectedName(w) # None
     THEN [w EXCEPT !.controller.receipt = Receipt(w, c, SelectedName(w))]
     ELSE Revoke(w)

(* Mutant of Authorized: the highlighted row is authority enough.             *)
AuthorizedByHighlight(w, c) == SelectedName(w) # None

Authorized(w, c) ==
  /\ w.controller.browsing /\ SelectedName(w) # None
  /\ ListVisible(w) /\ IsCurrentToken(w, w.controller.listToken, c)
  /\ w.controller.receipt = Receipt(w, c, SelectedName(w))

AcceptSelected(w, c, suffix) ==
  CommitCandidate(w, c, w.controller.list.of, SelectedName(w), suffix)

(* commitCurrentComposition: what is authorized, else the raw text.           *)
AcceptOrRaw(w, c, suffix) ==
  IF Authorized(w, c) THEN AcceptSelected(w, c, suffix) ELSE CommitRaw(Revoke(w), c, suffix)

AcceptGhostOr(w, c, other) ==
  IF CheckGhost(w, c).controller.ghostToken # None
  THEN CommitCandidate(w, c, w.controller.ghostToken.raw, "ghost", <<>>) ELSE other

------------------------------------------------------------------------------
(* Keys and commands.  Their sender is the client in focus, or one that has   *)
(* lost it and whose callback is late.  A command does what its key does.     *)
FromClient(c) == menu = None /\ c \in {focus} \cup late /\ late' = late \ {c} /\ UNCHANGED <<secure, focus, menu>>

Ready(c) == PrepareForClientTransition(World, c)

NextKey == keys + 1

Writes == keys < MaxKeys /\ keys' = NextKey

(* A key or a command that is the host's, and writes nothing here: in a       *)
(* secure field any, without a composition most of them.                      *)
PassKey(c) ==
  /\ FromClient(c) /\ UNCHANGED keys
  /\ IF secure THEN Become(ClearForSecure(World, c))
     ELSE ~Composing(Ready(c)) /\ Become(Ready(c))

TypeLetter(c) ==
  /\ ~secure /\ FromClient(c) /\ Writes
  /\ \E d \in Decision :
       LET w == Ready(c)
           raw == Append(w.controller.raw, NextKey)
       IN Become(IF Len(raw) > MaxComposition
                 THEN HostTypes(CommitRaw(w, c, <<>>), c, NextKey)
                 ELSE Mark(Typed(CheckList(w, c), c, NextKey), c, raw, d))

(* Space, Return or punctuation.                                              *)
TypeDelimiter(c) ==
  /\ ~secure /\ FromClient(c) /\ Writes
  /\ LET w == Ready(c)
     IN Become(IF Composing(w) THEN AcceptOrRaw(Typed(w, c, NextKey), c, <<NextKey>>)
               ELSE HostTypes(w, c, NextKey))

(* The other keys do something to a composition.                              *)
EditComposition(c) == ~secure /\ FromClient(c) /\ Composing(Ready(c))

Backspace(c) ==
  /\ EditComposition(c) /\ UNCHANGED keys
  /\ \E d \in Decision :
       LET raw == Front(controller.raw)
           deleted == [CheckList(World, c) EXCEPT !.typed[c] = @ \ {Last(controller.raw)}]
       IN Become(IF raw = <<>> THEN CancelLocal(deleted, c) ELSE Mark(deleted, c, raw, d))

(* An arrow opens the list, or moves in it, the last row being next to the    *)
(* first; where no list can be shown, the key is the host's, after the text.  *)
MoveSelection(c, down) ==
  /\ EditComposition(c) /\ UNCHANGED keys
  /\ \E h \in Hosts :
       LET w == DismissInlineSuggestion(World)
           rows == Len(controller.list.names)
           at == controller.selected
           moved == IF down THEN IF at = rows THEN 1 ELSE at + 1
                    ELSE IF at \in {0, 1} THEN rows ELSE at - 1
           chosen == Authorize(RefreshCandidatePanel([w EXCEPT !.controller.selected = moved,
                       !.controller.browsing = TRUE, !.controller.dismissed = FALSE], h), c)
       IN Become(IF rows = 0 THEN CommitRaw(w, c, <<>>)
                 ELSE IF chosen.controller.receipt # None THEN chosen
                 ELSE CommitRaw(Revoke(chosen), c, <<>>))

(* Option and a digit: a row that is on the screen, or else a symbol of the   *)
(* host's after the text.                                                     *)
PickRow(c) ==
  /\ EditComposition(c) /\ Writes
  /\ \E row \in 1 .. (PassiveRows + 1) :
       LET w == CheckList(World, c)
           offered == /\ w.controller.listToken # None /\ row \in DOMAIN w.controller.list.names
                      /\ w.controller.browsing \/ row <= PassiveRows
           picked == Authorize([w EXCEPT !.controller.selected = row, !.controller.browsing = TRUE], c)
       IN Become(IF offered /\ Authorized(picked, c) THEN AcceptSelected(picked, c, <<>>)
                 ELSE HostTypes(CommitRaw(w, c, <<>>), c, NextKey))

Tab(c) ==
  /\ EditComposition(c) /\ UNCHANGED keys
  /\ Become(AcceptGhostOr(World, c, AcceptOrRaw(World, c, <<>>)))

ArrowRight(c) ==
  /\ EditComposition(c) /\ UNCHANGED keys
  /\ Become(AcceptGhostOr(World, c, CommitRaw(World, c, <<>>)))

(* Escape, an unsupported key, a movement, a shortcut, the choice of another  *)
(* mode: the text is finished as it was typed.                                *)
FinishRaw(c) ==
  /\ EditComposition(c) /\ UNCHANGED keys
  /\ Become(CommitRaw(World, c, <<>>))

(* A row of the list is clicked: the custom panel knows what it was shown     *)
(* for, the system's only tells the text.                                     *)
ClickRow ==
  /\ menu = None /\ ListVisible(World) /\ controller.owner # None
  /\ \E row \in DOMAIN screen.list.names :
       LET c == controller.owner
           index == CHOOSE i \in 0 .. Len(controller.list.names) :
                      IF screen.list.names[row] \in ToSet(controller.list.names)
                      THEN i > 0 /\ controller.list.names[i] = screen.list.names[row] ELSE i = 0
           live == /\ IsCurrentToken(World, controller.listToken, c) /\ index > 0
                   /\ screen.list.kind = "custom" => screen.list.token = controller.listToken /\ index = row
           chosen == Authorize([World EXCEPT !.controller.selected = index, !.controller.browsing = TRUE], c)
       IN Become(IF secure THEN IF screen.list.kind = "custom" THEN World ELSE ClearForSecure(World, c)
                 ELSE IF live /\ Authorized(chosen, c) THEN AcceptSelected(chosen, c, <<>>)
                 ELSE IF screen.list.kind = "custom" THEN World ELSE CheckList(World, c))
  /\ UNCHANGED <<secure, focus, late, menu, keys>>

------------------------------------------------------------------------------
(* The host's own callbacks.                                                  *)
CommitComposition(w, c) ==
  IF secure THEN ClearForSecure(w, c)
  ELSE IF Composing(w) THEN CommitRaw(w, c, <<>>) ELSE w

DeactivateServer(w0, c) ==
  LET w == HideCandidates(w0)
  IN IF secure THEN ClearForSecure(w, c)
     ELSE IF Composing(w) /\ w.controller.owner # None THEN CommitRaw(w, w.controller.owner, <<>>)
     ELSE [w EXCEPT !.controller.raw = <<>>, !.controller.owner = None]

ActivateServer(w, c) == IF secure THEN ClearForSecure(w, c) ELSE w

LateCommit(c) ==
  /\ c \in late /\ late' = late \ {c}
  /\ Become(CommitComposition(World, c))
  /\ UNCHANGED <<secure, focus, menu, keys>>

MoveFocus(c, told) ==
  /\ c # focus /\ focus' = c /\ menu = None
  /\ late' = IF told = "late" THEN late \cup {focus} ELSE late
  /\ Become(IF told = "deactivate" THEN ActivateServer(DeactivateServer(World, focus), c) ELSE World)
  /\ UNCHANGED <<secure, menu, keys>>

(* inputControllerWillClose, cancelComposition and a mode taken from the      *)
(* menu: the owner's text is finished as it was typed.                        *)
FinishOwner ==
  /\ Composing(World) /\ controller.owner # None
  /\ Become(IF secure THEN ClearForSecure(World, controller.owner)
            ELSE CommitRaw(World, controller.owner, <<>>))
  /\ UNCHANGED <<secure, focus, late, menu, keys>>

HidePalettes ==
  /\ Become(HideWindow([Bump(CancelPending(World)) EXCEPT
       !.controller.dismissed = TRUE, !.controller.wanted = None, !.screen.ghost = None]))
  /\ UNCHANGED <<secure, focus, late, menu, keys>>

(* sharedPreferencesDidChange, when completions have been turned off.         *)
TurnOffInlinePreview ==
  /\ controller.wanted # None \/ screen.ghost # None
  /\ Become([World EXCEPT !.controller.wanted = None, !.controller.ghostToken = None, !.screen.ghost = None])
  /\ UNCHANGED <<secure, focus, late, menu, keys>>

(* The input menu offers to forget the row that is highlighted when it opens. *)
OpenMenu ==
  /\ ~secure /\ menu = None /\ SelectedName(World) # None
  /\ menu' = SelectedName(World)
  /\ UNCHANGED <<controller, screen, later, document, secure, focus, late, keys, typed, stranded,
                 forgotten, accepted>>

CloseMenu ==
  /\ menu # None /\ menu' = None
  /\ UNCHANGED <<controller, screen, later, document, secure, focus, late, keys, typed, stranded,
                 forgotten, accepted>>

(* filter { $0 != candidate }, and a candidate is in a list once.             *)
Without(names, name) ==
  IF name \in ToSet(names) THEN RemoveAt(names, CHOOSE i \in DOMAIN names : names[i] = name)
  ELSE names

ForgetCandidate ==
  /\ menu # None /\ menu' = None
  /\ Become(IF secure THEN ClearForSecure(World, controller.owner)
            ELSE HideCandidates(ReplaceList(
                   [World EXCEPT !.forgotten = IF Composing(World) THEN @ \cup {menu} ELSE @],
                   Without(controller.list.names, menu))))
  /\ UNCHANGED <<secure, focus, late, keys>>

ChangeSecureInput ==
  /\ secure' = ~secure
  /\ UNCHANGED <<controller, screen, later, document, focus, late, menu, keys, typed, stranded,
                 forgotten, accepted>>

(* A change of Space, or a display that is taken away: the panels are still   *)
(* there, and no longer to be seen.                                           *)
ChangeScreen ==
  /\ screen' = [screen EXCEPT !.on = ~@]
  /\ UNCHANGED <<controller, later, document, secure, focus, late, menu, keys, typed, stranded,
                 forgotten, accepted>>

------------------------------------------------------------------------------
(* What runs later.                                                           *)
RenderSurfaces(w0, h) ==
  LET r == w0.later.render
      w == [w0 EXCEPT !.later.render = None]
      placed == [w EXCEPT !.controller.anchored = @ \/ h.geometry]
      ghost == w.controller.wanted # None /\ placed.controller.anchored /\ h.room
      shown == [placed EXCEPT
        !.screen.ghost = IF ghost THEN w.controller.wanted ELSE None,
        !.controller.ghostToken = IF ghost /\ w.screen.on THEN MakeToken(w) ELSE None]
  IN IF r.raw # w.controller.raw \/ w.controller.dismissed THEN w
     ELSE IF w.controller.owner = None THEN HideCandidates(w)
     ELSE IF ~h.geometry /\ r.left > 0 THEN [w EXCEPT !.later.render = [r EXCEPT !.left = @ - 1]]
     ELSE IF shown.controller.ghostToken # None THEN HideWindow(shown)
     ELSE RefreshCandidatePanel(shown, h)

(* Mutant of Render: secure input is looked at when the key comes.            *)
RenderUnlooked == \E h \in Hosts : Become(RenderSurfaces(World, h))

Render ==
  IF secure THEN Become(ClearForSecure([World EXCEPT !.later.render = None], controller.owner))
  ELSE \E h \in Hosts : Become(RenderSurfaces(World, h))

RenderDue ==
  /\ later.render # None /\ Render
  /\ UNCHANGED <<secure, focus, late, menu, keys>>

(* A render or an announcement of an earlier generation does nothing, unless  *)
(* input has become secure; once a key was marked, one may still be to come.  *)
OutdatedDue ==
  /\ secure /\ keys > 0
  /\ Become(ClearForSecure(World, controller.owner))
  /\ UNCHANGED <<secure, focus, late, menu, keys>>

(* The worker runs the model for the request that is current, unless input    *)
(* has become secure; its answer is posted to the main queue.                 *)
PredictCandidates ==
  /\ later.neural # None /\ later.neural.stage = "queued"
  /\ later' = [later EXCEPT !.neural = IF secure THEN None ELSE [@ EXCEPT !.stage = "posted"]]
  /\ UNCHANGED <<controller, screen, document, secure, focus, late, menu, keys, typed, stranded,
                 forgotten, accepted>>

NeuralAnswer(w0, h) ==
  LET w == [w0 EXCEPT !.later.neural = None]
      owner == w.controller.owner
      listed == ReplaceList(w, Append(w0.later.neural.names, "neural"))
      seen == CheckGhost(listed, owner)
  IN IF secure \/ w0.later.neural.raw # w.controller.raw \/ owner = None THEN w
     ELSE IF w.controller.dismissed THEN listed
     ELSE IF seen.controller.ghostToken # None THEN seen
     ELSE RefreshCandidatePanel(seen, h)

NeuralCandidatesArrive ==
  /\ later.neural # None /\ later.neural.stage = "posted"
  /\ \E h \in Hosts : Become(NeuralAnswer(World, h))
  /\ UNCHANGED <<secure, focus, late, menu, keys>>

------------------------------------------------------------------------------
Next ==
  \/ \E c \in Clients :
       \/ PassKey(c) \/ TypeLetter(c) \/ TypeDelimiter(c) \/ Backspace(c)
       \/ MoveSelection(c, TRUE) \/ MoveSelection(c, FALSE)
       \/ PickRow(c) \/ Tab(c) \/ ArrowRight(c) \/ FinishRaw(c)
       \/ LateCommit(c)
       \/ \E told \in Told : MoveFocus(c, told)
  \/ ClickRow \/ FinishOwner \/ HidePalettes \/ TurnOffInlinePreview
  \/ OpenMenu \/ CloseMenu \/ ForgetCandidate
  \/ ChangeSecureInput \/ ChangeScreen
  \/ RenderDue \/ OutdatedDue \/ PredictCandidates \/ NeuralCandidatesArrive

Spec == Init /\ [][Next]_vars

------------------------------------------------------------------------------
Controller ==
  [raw : Text, owner : Clients \cup {None}, list : CandidateState, selected : Nat,
   browsing : BOOLEAN, receipt : AcceptanceReceipt \cup {None}, listToken : SurfaceToken \cup {None},
   wanted : Text \cup {None}, ghostToken : SurfaceToken \cup {None}, anchored : BOOLEAN,
   dismissed : BOOLEAN]
Screen == [on : BOOLEAN, list : CandidateWindow \cup {None}, ghost : Text \cup {None}]
Later == [render : RenderRequest \cup {None}, neural : NeuralRequest \cup {None}]

(* The fields have their types, and the bounds hold.                          *)
TypeOK ==
  /\ controller \in Controller /\ screen \in Screen /\ later \in Later
  /\ Len(controller.raw) <= MaxComposition
  /\ controller.selected <= Len(controller.list.names)
  /\ document \in [Clients -> Document]
  /\ secure \in BOOLEAN /\ focus \in Clients /\ late \subseteq Clients
  /\ menu \in Name \cup {None} /\ keys \in 0 .. MaxKeys
  /\ typed \in [Clients -> SUBSET (1 .. MaxKeys)] /\ stranded \subseteq 1 .. MaxKeys
  /\ forgotten \subseteq Name /\ accepted \in Insertion \cup {None}

(* What is typed in a client is in that client's document, in order, once,    *)
(* marked or not: only text that the controller left marked, because a        *)
(* callback of another client came in between, can be missing, where a later  *)
(* text took its place.  Nothing typed in one client shows up in another.     *)
Written(c) == document[c].text \o document[c].marked

KeysAreKept ==
  \A c \in Clients :
    /\ ToSet(Written(c)) \subseteq typed[c]
    /\ typed[c] \subseteq ToSet(Written(c)) \cup stranded
    /\ \A i, j \in DOMAIN Written(c) : i < j => Written(c)[i] < Written(c)[j]

(* A candidate is inserted only if the user could see it just then, in a list *)
(* or as a ghost made for the very text it replaces, and that text was marked *)
(* in the client it goes to.                                                  *)
OnScreen(a) ==
  \/ a.name = "ghost" /\ GhostVisible(World) /\ screen.ghost = a.of
  \/ ListVisible(World) /\ screen.list.of = a.of /\ a.name \in ToSet(screen.list.names)

AcceptedWasOnScreen ==
  [][accepted' \notin {None, accepted} => /\ OnScreen(accepted')
                                       /\ accepted'.of = accepted'.replaced
                                       /\ document[accepted'.client].marked = accepted'.of]_vars

(* A candidate the user has had forgotten is not offered again for the same   *)
(* text, in particular not by a neural answer that was under way.             *)
ForgottenStaysAway ==
  /\ forgotten \cap ToSet(controller.list.names) = {}
  /\ screen.list # None /\ screen.list.of = controller.raw
       => forgotten \cap ToSet(screen.list.names) = {}

(* While secure input is on no text is written, no surface is opened and the  *)
(* model is not run, whatever was under way when it began.                    *)
SecureIsQuiet ==
  [][secure => /\ \A c \in Clients : /\ document'[c].text = document[c].text
                                     /\ document'[c].marked \in {document[c].marked, <<>>}
               /\ screen'.list \in {screen.list, None} /\ screen'.ghost \in {screen.ghost, None}
               /\ later'.neural \in {later.neural, None}]_vars
=============================================================================
