------------------------- MODULE ImkControllerProofs -------------------------
(* Proofs about ImkController.  A handler is a composition of calls on a world *)
(* (the record World), so the invariant is stated of a world: its types, what  *)
(* the surfaces stand for, what the documents hold.  Each call has a lemma     *)
(* that says what it keeps, and each action composes them.                     *)
EXTENDS ImkController, SequenceTheorems, TLAPS

WorldSet ==
  [controller : Controller, screen : Screen, later : Later, document : [Clients -> Document],
   typed : [Clients -> SUBSET (1 .. MaxKeys)], stranded : SUBSET (1 .. MaxKeys),
   forgotten : SUBSET Name, accepted : Insertion \cup {None}]

(* The list on the screen is the controller's, up to the rows that only       *)
(* browsing shows.                                                            *)
ListShown(w) ==
  /\ w.screen.list # None /\ w.screen.list.of = w.controller.list.of
  /\ \A i \in DOMAIN w.controller.list.names :
       w.controller.browsing \/ i <= PassiveRows
         => w.controller.list.names[i] \in ToSet(w.screen.list.names)

(* The list, the completion and the request are for the text that is composed,*)
(* a live token stands for what the screen shows, and what was forgotten is   *)
(* neither listed nor asked for.                                              *)
ListOK(w) ==
  /\ w.controller.list.of = w.controller.raw
  /\ w.controller.selected <= Len(w.controller.list.names)
  /\ IsInjective(w.controller.list.names)
  /\ w.controller.list.names # <<>> => w.controller.raw # <<>>
  /\ w.controller.wanted \in {None, w.controller.raw}
  /\ w.controller.ghostToken # None => w.screen.ghost = w.controller.ghostToken.raw
  /\ w.later.neural # None => w.later.neural.raw # <<>> /\ w.forgotten = {}
  /\ w.forgotten \cap ToSet(w.controller.list.names) = {}
  /\ w.screen.list # None => w.forgotten \cap ToSet(w.screen.list.names) = {}

SurfacesOK(w) == ListOK(w) /\ (w.controller.listToken # None => ListShown(w))

(* The text that is composed is marked in its owner's document, and any other *)
(* marked text is stranded.                                                   *)
OwnerOK(w) ==
  /\ Len(w.controller.raw) <= MaxComposition
  /\ w.controller.raw # <<>> => w.controller.owner # None
                              /\ w.document[w.controller.owner].marked = w.controller.raw
  /\ \A c \in Clients : ~(w.controller.raw # <<>> /\ w.controller.owner = c)
                        => ToSet(w.document[c].marked) \subseteq w.stranded

(* The keys written so far are at most n, and those of a client are in its    *)
(* document in their order.                                                   *)
Increasing(s) == \A i, j \in DOMAIN s : i < j => s[i] < s[j]

ClientFits(text, ours, lost, n) ==
  /\ ours \subseteq 1 .. n
  /\ ToSet(text) \subseteq ours /\ ours \subseteq ToSet(text) \cup lost
  /\ Increasing(text)

KeysFit(documents, keysOf, lost, n) ==
  /\ lost \subseteq 1 .. n
  /\ \A c \in Clients :
       ClientFits(documents[c].text \o documents[c].marked, keysOf[c], lost, n)

KeysOK(w, n) == KeysFit(w.document, w.typed, w.stranded, n)

Good(w, n) == w \in WorldSet /\ SurfacesOK(w) /\ OwnerOK(w) /\ KeysOK(w, n)

IInv ==
  /\ TypeOK
  /\ SurfacesOK(World)
  /\ OwnerOK(World)
  /\ KeysOK(World, keys)

------------------------------------------------------------------------------
(* Calls on the surfaces.  None of them touches a text.                       *)
SameText(w, v) ==
  /\ v.controller.raw = w.controller.raw /\ v.controller.owner = w.controller.owner
  /\ v.controller.list = w.controller.list
  /\ v.document = w.document /\ v.typed = w.typed /\ v.stranded = w.stranded
  /\ v.forgotten = w.forgotten /\ v.accepted = w.accepted

(* A call on the surfaces keeps the types and the texts.                      *)
OnSurfaces(w, v) == v \in WorldSet /\ SameText(w, v)

(* surfaceRenderGeneration += 1 revokes the tokens.                           *)
LEMMA BumpSurfaces ==
  ASSUME NEW w \in WorldSet
  PROVE  /\ OnSurfaces(w, Bump(w))
         /\ ListOK(w) => SurfacesOK(Bump(w))
         /\ Bump(w).screen = w.screen /\ Bump(w).later.neural = w.later.neural
         /\ Bump(w).controller.listToken = None /\ Bump(w).controller.ghostToken = None
  BY DEF Bump, WorldSet, Controller, Later, OnSurfaces, SameText, ListOK, SurfacesOK

(* revokeCandidateAcceptance: nothing is chosen.                              *)
LEMMA RevokeSurfaces ==
  ASSUME NEW w \in WorldSet
  PROVE  /\ OnSurfaces(w, Revoke(w))
         /\ ListOK(w) => SurfacesOK(Revoke(w))
         /\ Revoke(w).screen = w.screen /\ Revoke(w).later = w.later
         /\ Revoke(w).controller.ghostToken = w.controller.ghostToken
         /\ Revoke(w).controller.wanted = w.controller.wanted
         /\ Revoke(w).controller.listToken = None /\ Revoke(w).controller.selected = 0
         /\ Revoke(w).controller.receipt = None
  <1>1. OnSurfaces(w, Revoke(w))
    BY DEF Revoke, WorldSet, Controller, OnSurfaces, SameText
  <1>2. /\ Revoke(w).screen = w.screen /\ Revoke(w).later = w.later
        /\ Revoke(w).controller.ghostToken = w.controller.ghostToken
        /\ Revoke(w).controller.wanted = w.controller.wanted
        /\ Revoke(w).controller.listToken = None /\ Revoke(w).controller.selected = 0
        /\ Revoke(w).controller.receipt = None
    BY DEF Revoke, WorldSet, Controller
  <1>3. ListOK(w) => SurfacesOK(Revoke(w))
    <2>1. Len(w.controller.list.names) \in Nat
      BY DEF WorldSet, Controller, CandidateState
    <2> QED
      BY <1>1, <1>2, <2>1 DEF OnSurfaces, SameText, ListOK, SurfacesOK
  <1> QED
    BY <1>1, <1>2, <1>3

(* hideCandidateWindow.                                                       *)
LEMMA HideWindowSurfaces ==
  ASSUME NEW w \in WorldSet
  PROVE  /\ OnSurfaces(w, HideWindow(w))
         /\ ListOK(w) => SurfacesOK(HideWindow(w))
         /\ HideWindow(w).screen = [w.screen EXCEPT !.list = None]
         /\ HideWindow(w).later = w.later
         /\ HideWindow(w).controller.ghostToken = w.controller.ghostToken
         /\ HideWindow(w).controller.wanted = w.controller.wanted
         /\ HideWindow(w).controller.listToken = None /\ HideWindow(w).controller.selected = 0
  <1> DEFINE hidden == [w EXCEPT !.screen.list = None]
  <1>1. /\ OnSurfaces(w, hidden) /\ hidden.later = w.later /\ hidden.controller = w.controller
        /\ hidden.screen = [w.screen EXCEPT !.list = None]
    BY DEF WorldSet, Screen, OnSurfaces, SameText
  <1>2. hidden.screen.list = None /\ hidden.screen.ghost = w.screen.ghost
    BY <1>1 DEF WorldSet, Screen
  <1>3. ListOK(w) => ListOK(hidden)
    BY <1>1, <1>2 DEF OnSurfaces, SameText, ListOK
  <1>4. HideWindow(w) = Revoke(hidden) /\ hidden \in WorldSet
    BY <1>1 DEF HideWindow, OnSurfaces
  <1> HIDE DEF hidden
  <1>5. /\ OnSurfaces(hidden, Revoke(hidden))
        /\ ListOK(hidden) => SurfacesOK(Revoke(hidden))
        /\ Revoke(hidden).screen = hidden.screen /\ Revoke(hidden).later = hidden.later
        /\ Revoke(hidden).controller.ghostToken = hidden.controller.ghostToken
        /\ Revoke(hidden).controller.wanted = hidden.controller.wanted
        /\ Revoke(hidden).controller.listToken = None /\ Revoke(hidden).controller.selected = 0
    BY <1>4, RevokeSurfaces
  <1> QED
    BY <1>1, <1>3, <1>4, <1>5 DEF OnSurfaces, SameText

(* cancelPending: no answer is awaited.                                       *)
LEMMA CancelPendingSurfaces ==
  ASSUME NEW w \in WorldSet
  PROVE  /\ OnSurfaces(w, CancelPending(w))
         /\ ListOK(w) => ListOK(CancelPending(w))
         /\ CancelPending(w).screen = w.screen /\ CancelPending(w).controller = w.controller
         /\ CancelPending(w).later.neural = None
  BY DEF CancelPending, WorldSet, Later, OnSurfaces, SameText, ListOK

(* Nothing is on the screen and nothing is under way.                         *)
Hidden(v) ==
  /\ v.screen.list = None /\ v.screen.ghost = None /\ v.later.neural = None
  /\ v.controller.listToken = None /\ v.controller.ghostToken = None /\ v.controller.wanted = None
  /\ v.controller.selected = 0

(* hideCandidates.                                                            *)
LEMMA HideCandidatesSurfaces ==
  ASSUME NEW w \in WorldSet
  PROVE  OnSurfaces(w, HideCandidates(w)) /\ Hidden(HideCandidates(w))
  <1> DEFINE u == Bump(CancelPending(w))
             v == [u EXCEPT !.controller.wanted = None, !.controller.dismissed = FALSE,
                            !.screen.ghost = None]
  <1>1. OnSurfaces(w, u) /\ u.later.neural = None /\ u.controller.ghostToken = None
    BY CancelPendingSurfaces, BumpSurfaces DEF OnSurfaces, SameText
  <1> HIDE DEF u
  <1>2. OnSurfaces(u, v) /\ v.later = u.later /\ v.controller.ghostToken = None
        /\ v.controller.wanted = None /\ v.screen.ghost = None
    <2>0. u \in WorldSet /\ u.controller \in Controller /\ u.screen \in Screen
      BY <1>1 DEF WorldSet, OnSurfaces
    <2>1. v \in WorldSet
      <3>1. [u.controller EXCEPT !.wanted = None, !.dismissed = FALSE] \in Controller
        BY <2>0 DEF Controller
      <3>2. [u.screen EXCEPT !.ghost = None] \in Screen
        BY <2>0 DEF Screen
      <3> QED
        BY <2>0, <3>1, <3>2 DEF WorldSet
    <2>2. v.screen.ghost = None /\ v.later = u.later /\ SameText(u, v)
      BY <1>1 DEF WorldSet, Controller, Screen, OnSurfaces, SameText
    <2>3. v.controller.ghostToken = None /\ v.controller.wanted = None
      BY <1>1 DEF WorldSet, Controller, OnSurfaces
    <2> QED
      BY <2>1, <2>2, <2>3 DEF OnSurfaces
  <1>3. HideCandidates(w) = HideWindow(v)
    BY DEF HideCandidates, u
  <1> HIDE DEF v
  <1>4. /\ OnSurfaces(v, HideWindow(v)) /\ HideWindow(v).screen = [v.screen EXCEPT !.list = None]
        /\ HideWindow(v).later = v.later
        /\ HideWindow(v).controller.ghostToken = v.controller.ghostToken
        /\ HideWindow(v).controller.wanted = v.controller.wanted
        /\ HideWindow(v).controller.listToken = None /\ HideWindow(v).controller.selected = 0
    BY <1>2, HideWindowSurfaces DEF OnSurfaces
  <1>5. HideWindow(v).screen.list = None /\ HideWindow(v).screen.ghost = v.screen.ghost
    BY <1>2, <1>4 DEF OnSurfaces, WorldSet, Screen
  <1> QED
    BY <1>1, <1>2, <1>3, <1>4, <1>5 DEF OnSurfaces, SameText, Hidden

(* replaceCandidateState: the new list is for the text, and nothing is chosen.*)
LEMMA ReplaceListSurfaces ==
  ASSUME NEW w \in WorldSet, NEW names \in Seq(Name)
  PROVE  LET v == ReplaceList(w, names)
         IN /\ v \in WorldSet
            /\ v.controller.list = [of |-> w.controller.raw, names |-> names]
            /\ v.controller.raw = w.controller.raw /\ v.controller.owner = w.controller.owner
            /\ v.controller.wanted = w.controller.wanted
            /\ v.controller.ghostToken = w.controller.ghostToken
            /\ v.controller.listToken = None /\ v.controller.selected = 0
            /\ v.screen = w.screen /\ v.later = w.later
            /\ v.document = w.document /\ v.typed = w.typed /\ v.stranded = w.stranded
            /\ v.forgotten = w.forgotten /\ v.accepted = w.accepted
  <1> DEFINE u == [w EXCEPT !.controller.list = [of |-> w.controller.raw, names |-> names]]
  <1>1. /\ u \in WorldSet
        /\ u.controller = [w.controller EXCEPT !.list = [of |-> w.controller.raw, names |-> names]]
        /\ u.screen = w.screen /\ u.later = w.later
        /\ u.document = w.document /\ u.typed = w.typed /\ u.stranded = w.stranded
        /\ u.forgotten = w.forgotten /\ u.accepted = w.accepted
    BY DEF WorldSet, Controller, CandidateState
  <1>2. /\ u.controller.list = [of |-> w.controller.raw, names |-> names]
        /\ u.controller.raw = w.controller.raw /\ u.controller.owner = w.controller.owner
        /\ u.controller.wanted = w.controller.wanted
        /\ u.controller.ghostToken = w.controller.ghostToken
    BY <1>1 DEF WorldSet, Controller
  <1>3. ReplaceList(w, names) = Revoke(u)
    BY DEF ReplaceList
  <1> HIDE DEF u
  <1>4. /\ OnSurfaces(u, Revoke(u)) /\ Revoke(u).screen = u.screen /\ Revoke(u).later = u.later
        /\ Revoke(u).controller.ghostToken = u.controller.ghostToken
        /\ Revoke(u).controller.wanted = u.controller.wanted
        /\ Revoke(u).controller.listToken = None /\ Revoke(u).controller.selected = 0
    BY <1>1, RevokeSurfaces
  <1> QED
    BY <1>1, <1>2, <1>3, <1>4 DEF OnSurfaces, SameText

------------------------------------------------------------------------------
(* Texts.                                                                     *)
LEMMA ToSetConcat ==
  ASSUME NEW S, NEW s \in Seq(S), NEW t \in Seq(S)
  PROVE  ToSet(s \o t) = ToSet(s) \cup ToSet(t)
  <1>1. ToSet(s) = Range(s) /\ ToSet(t) = Range(t) /\ ToSet(s \o t) = Range(s \o t)
    BY DEF ToSet, Range
  <1> QED
    BY <1>1, RangeConcatenation

LEMMA ToSetType == ASSUME NEW S, NEW s \in Seq(S) PROVE ToSet(s) \subseteq S
  BY DEF ToSet

LEMMA ToSetOne == ASSUME NEW x PROVE ToSet(<<x>>) = {x}
  BY DEF ToSet

LEMMA ToSetNone == ToSet(<<>>) = {}
  BY DEF ToSet

LEMMA ConcatAssociates ==
  ASSUME NEW s \in Seq(Nat), NEW t \in Seq(Nat), NEW u \in Seq(Nat)
  PROVE  s \o (t \o u) = (s \o t) \o u
  BY SMTT(60)

LEMMA ConcatThree ==
  ASSUME NEW s \in Seq(Nat), NEW t \in Seq(Nat), NEW u \in Seq(Nat)
  PROVE  (s \o (t \o u)) \o <<>> = (s \o t) \o u
  <1>1. s \o (t \o u) \in Seq(Nat) /\ s \o (t \o u) = (s \o t) \o u
    BY ConcatProperties, ConcatAssociates
  <1> QED
    BY <1>1, ConcatEmptySeq

LEMMA ConcatNothing ==
  ASSUME NEW s \in Seq(Nat), NEW t \in Seq(Nat)
  PROVE  (s \o (t \o <<>>)) \o <<>> = s \o t
  <1>1. t \o <<>> = t /\ s \o t \in Seq(Nat)
    BY ConcatEmptySeq
  <1> QED
    BY <1>1, ConcatEmptySeq

(* A larger key goes to the end.                                              *)
LEMMA IncreasingAppend ==
  ASSUME NEW s \in Seq(Nat), NEW n \in Nat, Increasing(s), ToSet(s) \subseteq 1 .. n
  PROVE  Increasing(s \o <<n + 1>>)
  <1> SUFFICES ASSUME NEW i \in DOMAIN (s \o <<n + 1>>), NEW j \in DOMAIN (s \o <<n + 1>>), i < j
               PROVE  (s \o <<n + 1>>)[i] < (s \o <<n + 1>>)[j]
    BY DEF Increasing
  <1>1. i \in DOMAIN s /\ (s \o <<n + 1>>)[i] = s[i]
    OBVIOUS
  <1>2. s[i] \in 1 .. n
    BY <1>1 DEF ToSet
  <1>3. CASE j \in DOMAIN s
    BY <1>1, <1>3 DEF Increasing
  <1>4. CASE j = Len(s) + 1
    BY <1>1, <1>2, <1>4
  <1> QED
    BY <1>3, <1>4

(* The first part of an increasing text is increasing, and has nothing of the *)
(* second.                                                                    *)
LEMMA IncreasingParts ==
  ASSUME NEW s \in Seq(Nat), NEW t \in Seq(Nat), Increasing(s \o t)
  PROVE  Increasing(s) /\ ToSet(s) \cap ToSet(t) = {}
  <1>1. \A i \in DOMAIN s : i \in DOMAIN (s \o t) /\ (s \o t)[i] = s[i]
    OBVIOUS
  <1>2. \A i \in DOMAIN t : Len(s) + i \in DOMAIN (s \o t) /\ (s \o t)[Len(s) + i] = t[i]
    OBVIOUS
  <1>3. Increasing(s)
    BY <1>1 DEF Increasing
  <1>4. ASSUME NEW i \in DOMAIN s, NEW j \in DOMAIN t PROVE s[i] # t[j]
    <2>1. i < Len(s) + j
      OBVIOUS
    <2>2. (s \o t)[i] < (s \o t)[Len(s) + j]
      BY <1>1, <1>2, <2>1 DEF Increasing
    <2> QED
      BY <1>1, <1>2, <2>2
  <1> QED
    BY <1>3, <1>4 DEF ToSet

(* What a handler does to the document and the keys of one client.            *)
LEMMA TextFacts ==
  ASSUME NEW D \in [Clients -> Document], NEW c \in Clients
  PROVE  /\ D[c].text \in Text /\ D[c].marked \in Text
         /\ D[c].text \in Seq(Nat) /\ D[c].marked \in Seq(Nat)
         /\ D[c].text \o D[c].marked \in Seq(Nat)
  <1>1. D[c].text \in Text /\ D[c].marked \in Text
    BY DEF Document
  <1>2. Text \subseteq Seq(Nat)
    BY ImkAssumption DEF Text
  <1> QED
    BY <1>1, <1>2

LEMMA FitOthers ==
  ASSUME NEW D \in [Clients -> Document], NEW T \in [Clients -> SUBSET (1 .. MaxKeys)], NEW L,
         NEW n \in Nat, KeysFit(D, T, L, n), NEW c \in Clients, NEW doc,
         NEW ours, NEW m \in Nat, n <= m, ClientFits(doc.text \o doc.marked, ours, L, m)
  PROVE  KeysFit([D EXCEPT ![c] = doc], [T EXCEPT ![c] = ours], L, m)
  <1> DEFINE E == [D EXCEPT ![c] = doc]
             U == [T EXCEPT ![c] = ours]
  <1>1. 1 .. n \subseteq 1 .. m
    OBVIOUS
  <1>2. ASSUME NEW d \in Clients
        PROVE  ClientFits(E[d].text \o E[d].marked, U[d], L, m)
    <2>1. CASE d = c
      BY <2>1
    <2>2. CASE d # c
      <3>1. ClientFits(D[d].text \o D[d].marked, T[d], L, n)
        BY DEF KeysFit
      <3>2. E[d] = D[d] /\ U[d] = T[d]
        BY <2>2
      <3> QED
        BY <1>1, <3>1, <3>2 DEF ClientFits
    <2> QED
      BY <2>1, <2>2
  <1>3. L \subseteq 1 .. m
    BY <1>1 DEF KeysFit
  <1> QED
    BY <1>2, <1>3 DEF KeysFit

LEMMA FitDocument ==
  ASSUME NEW D \in [Clients -> Document], NEW T \in [Clients -> SUBSET (1 .. MaxKeys)], NEW L,
         NEW n \in Nat, KeysFit(D, T, L, n), NEW c \in Clients, NEW doc,
         ClientFits(doc.text \o doc.marked, T[c], L, n)
  PROVE  KeysFit([D EXCEPT ![c] = doc], T, L, n)
  <1>1. [T EXCEPT ![c] = T[c]] = T
    OBVIOUS
  <1> DEFINE ours == T[c]
  <1>2. n <= n /\ ClientFits(doc.text \o doc.marked, ours, L, n)
    OBVIOUS
  <1> HIDE DEF ours
  <1>3. KeysFit([D EXCEPT ![c] = doc], [T EXCEPT ![c] = ours], L, n)
    BY <1>2, FitOthers
  <1> QED
    BY <1>1, <1>3 DEF ours

(* The text keeps its keys in their order, wherever they are in it.           *)
LEMMA FitMoved ==
  ASSUME NEW D \in [Clients -> Document], NEW T \in [Clients -> SUBSET (1 .. MaxKeys)], NEW L,
         NEW n \in Nat, KeysFit(D, T, L, n), NEW c \in Clients, NEW doc,
         doc.text \o doc.marked = D[c].text \o D[c].marked
  PROVE  KeysFit([D EXCEPT ![c] = doc], T, L, n)
  <1>1. ClientFits(doc.text \o doc.marked, T[c], L, n)
    BY DEF KeysFit
  <1> QED
    BY <1>1, FitDocument

(* The next key is added at the end.                                          *)
LEMMA FitAppended ==
  ASSUME NEW D \in [Clients -> Document], NEW T \in [Clients -> SUBSET (1 .. MaxKeys)], NEW L,
         NEW n \in Nat, KeysFit(D, T, L, n), NEW c \in Clients, NEW doc,
         doc.text \o doc.marked = (D[c].text \o D[c].marked) \o <<n + 1>>
  PROVE  KeysFit([D EXCEPT ![c] = doc], [T EXCEPT ![c] = @ \cup {n + 1}], L, n + 1)
  <1> DEFINE old == D[c].text \o D[c].marked
             whole == doc.text \o doc.marked
  <1>1. /\ T[c] \subseteq 1 .. n /\ ToSet(old) \subseteq T[c] /\ T[c] \subseteq ToSet(old) \cup L
        /\ Increasing(old) /\ L \subseteq 1 .. n
    BY DEF KeysFit, ClientFits
  <1>2. old \in Seq(Nat) /\ <<n + 1>> \in Seq(Nat) /\ whole = old \o <<n + 1>>
    BY TextFacts
  <1> HIDE DEF whole, old
  <1>3. ToSet(whole) = ToSet(old) \cup {n + 1}
    <2> DEFINE key == <<n + 1>>
    <2>0. key \in Seq(Nat)
      BY <1>2
    <2> HIDE DEF key
    <2>1. ToSet(old \o key) = ToSet(old) \cup ToSet(key)
      BY <1>2, <2>0, ToSetConcat
    <2>2. ToSet(<<n + 1>>) = {n + 1}
      BY ToSetOne
    <2> QED
      BY <1>2, <2>1, <2>2 DEF key
  <1>4. Increasing(whole)
    BY <1>1, <1>2, IncreasingAppend
  <1>5. 1 .. n \subseteq 1 .. (n + 1) /\ n + 1 \in 1 .. (n + 1) /\ n <= n + 1 /\ n + 1 \in Nat
    OBVIOUS
  <1>6. ClientFits(whole, T[c] \cup {n + 1}, L, n + 1)
    BY <1>1, <1>3, <1>4, <1>5 DEF ClientFits
  <1>7. KeysFit([D EXCEPT ![c] = doc], [T EXCEPT ![c] = T[c] \cup {n + 1}], L, n + 1)
    BY <1>5, <1>6, FitOthers DEF whole
  <1> QED
    BY <1>7

(* What was at the end is deleted, and its keys with it.                      *)
LEMMA FitDeleted ==
  ASSUME NEW D \in [Clients -> Document], NEW T \in [Clients -> SUBSET (1 .. MaxKeys)], NEW L,
         NEW n \in Nat, KeysFit(D, T, L, n), NEW c \in Clients, NEW doc,
         NEW kept \in Seq(Nat), NEW gone \in Seq(Nat),
         D[c].text \o D[c].marked = kept \o gone, doc.text \o doc.marked = kept
  PROVE  KeysFit([D EXCEPT ![c] = doc], [T EXCEPT ![c] = @ \ ToSet(gone)], L, n)
  <1> DEFINE old == D[c].text \o D[c].marked
  <1>1. /\ T[c] \subseteq 1 .. n /\ ToSet(old) \subseteq T[c] /\ T[c] \subseteq ToSet(old) \cup L
        /\ Increasing(old) /\ L \subseteq 1 .. n
    BY DEF KeysFit, ClientFits
  <1>2. old = kept \o gone
    OBVIOUS
  <1> HIDE DEF old
  <1>3. ToSet(old) = ToSet(kept) \cup ToSet(gone)
    BY <1>2, ToSetConcat
  <1>4. Increasing(kept) /\ ToSet(kept) \cap ToSet(gone) = {}
    BY <1>1, <1>2, IncreasingParts
  <1>5. ClientFits(kept, T[c] \ ToSet(gone), L, n)
    BY <1>1, <1>3, <1>4 DEF ClientFits
  <1> DEFINE ours == T[c] \ ToSet(gone)
  <1>6. n <= n /\ ClientFits(doc.text \o doc.marked, ours, L, n)
    BY <1>5
  <1> HIDE DEF ours
  <1>7. KeysFit([D EXCEPT ![c] = doc], [T EXCEPT ![c] = ours], L, n)
    BY <1>6, FitOthers
  <1> QED
    BY <1>7 DEF ours

(* What was marked is lost, and was stranded before.                          *)
LEMMA FitReplaced ==
  ASSUME NEW D \in [Clients -> Document], NEW T \in [Clients -> SUBSET (1 .. MaxKeys)], NEW L,
         NEW n \in Nat, KeysFit(D, T, L, n), NEW c \in Clients, NEW doc,
         ToSet(D[c].marked) \subseteq L, doc.text \o doc.marked = D[c].text
  PROVE  KeysFit([D EXCEPT ![c] = doc], T, L, n)
  <1> DEFINE old == D[c].text \o D[c].marked
  <1>1. /\ T[c] \subseteq 1 .. n /\ ToSet(old) \subseteq T[c] /\ T[c] \subseteq ToSet(old) \cup L
        /\ Increasing(old) /\ L \subseteq 1 .. n
    BY DEF KeysFit, ClientFits
  <1>2. D[c].text \in Seq(Nat) /\ D[c].marked \in Seq(Nat)
    BY TextFacts
  <1>3. ToSet(old) = ToSet(D[c].text) \cup ToSet(D[c].marked)
    BY <1>2, ToSetConcat
  <1>4. Increasing(D[c].text)
    BY <1>1, <1>2, IncreasingParts
  <1>5. ClientFits(D[c].text, T[c], L, n)
    BY <1>1, <1>3, <1>4 DEF ClientFits
  <1> QED
    BY <1>5, FitDocument

------------------------------------------------------------------------------
(* Calls on the texts.                                                        *)
LEMMA NoText == <<>> \in Text /\ <<>> \in Seq(Name) /\ Len(<<>>) = 0 /\ DOMAIN <<>> = {}
  BY DEF Text

(* The session is reset and everything hidden: the documents are left alone.  *)
LEMMA EndedWorld ==
  ASSUME NEW w \in WorldSet
  PROVE  LET v == HideCandidates(Ended(w))
         IN /\ v \in WorldSet /\ SurfacesOK(v) /\ Hidden(v)
            /\ v.controller.raw = <<>> /\ v.controller.owner = None
            /\ v.controller.list.names = <<>> /\ v.forgotten = {}
            /\ v.document = w.document /\ v.typed = w.typed /\ v.stranded = w.stranded
            /\ v.accepted = w.accepted
  <1> DEFINE u == [w EXCEPT !.controller.raw = <<>>, !.controller.owner = None, !.forgotten = {}]
             e == Ended(w)
             v == HideCandidates(e)
  <1>1. /\ u \in WorldSet /\ u.controller.raw = <<>> /\ u.controller.owner = None
        /\ u.forgotten = {} /\ u.document = w.document /\ u.typed = w.typed
        /\ u.stranded = w.stranded /\ u.accepted = w.accepted
    <2>1. w.controller \in Controller
      BY DEF WorldSet
    <2>2. [w.controller EXCEPT !.raw = <<>>, !.owner = None] \in Controller
      BY <2>1, NoText DEF Controller
    <2>3. u \in WorldSet
      BY <2>2 DEF WorldSet
    <2>4. u.controller.raw = <<>> /\ u.controller.owner = None
      BY <2>1 DEF WorldSet, Controller
    <2> QED
      BY <2>3, <2>4 DEF WorldSet
  <1>2. e = ReplaceList(u, <<>>)
    BY DEF Ended
  <1> HIDE DEF u, e
  <1>3. /\ e \in WorldSet /\ e.controller.raw = <<>> /\ e.controller.owner = None
        /\ e.controller.list = [of |-> <<>>, names |-> <<>>]
        /\ e.forgotten = {} /\ e.document = w.document /\ e.typed = w.typed
        /\ e.stranded = w.stranded /\ e.accepted = w.accepted
    <2> DEFINE none == <<>>
               r == ReplaceList(u, none)
    <2>1. none \in Seq(Name)
      OBVIOUS
    <2> HIDE DEF none
    <2>2. /\ r \in WorldSet
          /\ r.controller.list = [of |-> u.controller.raw, names |-> none]
          /\ r.controller.raw = u.controller.raw /\ r.controller.owner = u.controller.owner
          /\ r.document = u.document /\ r.typed = u.typed /\ r.stranded = u.stranded
          /\ r.forgotten = u.forgotten /\ r.accepted = u.accepted
      BY <1>1, <2>1, ReplaceListSurfaces
    <2> QED
      BY <1>1, <1>2, <2>2 DEF none
  <1>4. OnSurfaces(e, v) /\ Hidden(v)
    BY <1>3, HideCandidatesSurfaces
  <1> HIDE DEF v
  <1>5. /\ v \in WorldSet /\ v.controller.raw = <<>> /\ v.controller.owner = None
        /\ v.controller.list.of = <<>> /\ v.controller.list.names = <<>>
        /\ v.forgotten = {} /\ v.document = w.document /\ v.typed = w.typed
        /\ v.stranded = w.stranded /\ v.accepted = w.accepted
    BY <1>3, <1>4 DEF OnSurfaces, SameText
  <1>6. SurfacesOK(v)
    BY <1>4, <1>5, NoText DEF Hidden, SurfacesOK, ListOK, IsInjective
  <1> QED
    BY <1>4, <1>5, <1>6 DEF v, e

(* The composition is over: whatever is still marked has to be stranded.      *)
LEMMA EndedGood ==
  ASSUME NEW w \in WorldSet, NEW n \in Nat, KeysOK(w, n),
         \A c \in Clients : ToSet(w.document[c].marked) \subseteq w.stranded
  PROVE  LET v == HideCandidates(Ended(w))
         IN Good(v, n) /\ ~Composing(v) /\ v.accepted = w.accepted
  <1> DEFINE v == HideCandidates(Ended(w))
  <1>1. /\ v \in WorldSet /\ SurfacesOK(v) /\ v.controller.raw = <<>>
        /\ v.document = w.document /\ v.typed = w.typed /\ v.stranded = w.stranded
        /\ v.accepted = w.accepted
    BY EndedWorld
  <1> HIDE DEF v
  <1>2. KeysOK(v, n)
    BY <1>1 DEF KeysOK
  <1>3. OwnerOK(v)
    BY <1>1, NoText, ImkAssumption DEF OwnerOK
  <1>4. Good(v, n) /\ ~Composing(v) /\ v.accepted = w.accepted
    BY <1>1, <1>2, <1>3 DEF Good, Composing
  <1> QED
    BY <1>4 DEF v

LEMMA DocumentSet ==
  ASSUME NEW d \in Document, NEW text \in Text, NEW marked \in Text
  PROVE  [[d EXCEPT !.text = text] EXCEPT !.marked = marked] = [text |-> text, marked |-> marked]
  <1> DEFINE e == [[d EXCEPT !.text = text] EXCEPT !.marked = marked]
  <1>1. e \in [text : Text, marked : Text] /\ e.text = text /\ e.marked = marked
    BY DEF Document
  <1> HIDE DEF e
  <1>2. e = [text |-> e.text, marked |-> e.marked]
    BY <1>1
  <1> QED
    BY <1>1, <1>2 DEF e

(* insertText takes the place of the marked text.                             *)
After(d, text) == [text |-> d.text \o text, marked |-> <<>>]

LEMMA InsertWorld ==
  ASSUME NEW w \in WorldSet, NEW c \in Clients, NEW text \in Text
  PROVE  LET E == [w.document EXCEPT ![c] = After(w.document[c], text)]
             v == Insert(w, c, text)
         IN /\ E \in [Clients -> Document]
            /\ v \in WorldSet /\ v.document = E
            /\ v.controller = w.controller /\ v.screen = w.screen /\ v.later = w.later
            /\ v.typed = w.typed /\ v.stranded = w.stranded
            /\ v.forgotten = w.forgotten /\ v.accepted = w.accepted
  <1> DEFINE doc == After(w.document[c], text)
  <1>1. w.document \in [Clients -> Document] /\ w.document[c] \in Document
    BY DEF WorldSet
  <1>2. w.document[c].text \o text \in Text
    BY <1>1 DEF Document, Text
  <1>3. [[w.document[c] EXCEPT !.text = @ \o text] EXCEPT !.marked = <<>>] = doc
    BY <1>1, <1>2, NoText, DocumentSet DEF After
  <1>4. doc \in Document
    BY <1>2, NoText DEF Document, After
  <1> HIDE DEF doc
  <1>5. Insert(w, c, text) = [w EXCEPT !.document = [w.document EXCEPT ![c] = doc]]
    BY <1>1, <1>3 DEF Insert, WorldSet
  <1>6. [w.document EXCEPT ![c] = doc] \in [Clients -> Document]
    BY <1>1, <1>4
  <1> HIDE DEF doc
  <1> QED
    BY <1>5, <1>6 DEF WorldSet, doc

(* The composition can be replaced by its text and "suffix": the keys fit the *)
(* document then.                                                             *)
Due(u, n, c, suffix) ==
  /\ u \in WorldSet /\ OwnerOK(u)
  /\ u.controller.raw # <<>> /\ u.controller.owner = c /\ suffix \in Text
  /\ KeysFit([u.document EXCEPT ![c] = After(u.document[c], u.controller.raw \o suffix)],
             u.typed, u.stranded, n)

LEMMA WorldTypes ==
  ASSUME NEW w \in WorldSet
  PROVE  /\ w.controller \in Controller /\ w.screen \in Screen /\ w.later \in Later
         /\ w.document \in [Clients -> Document] /\ w.typed \in [Clients -> SUBSET (1 .. MaxKeys)]
         /\ w.controller.raw \in Text /\ w.controller.raw \in Seq(Nat)
         /\ w.controller.owner \in Clients \cup {None}
  <1>1. w.controller \in Controller
    BY DEF WorldSet
  <1>2. w.controller.raw \in Text /\ w.controller.owner \in Clients \cup {None}
    BY <1>1 DEF Controller
  <1>3. Text \subseteq Seq(Nat)
    BY ImkAssumption DEF Text
  <1> QED
    BY <1>1, <1>2, <1>3 DEF WorldSet

LEMMA DueNothing ==
  ASSUME NEW w, NEW n \in Nat, Good(w, n), NEW c \in Clients,
         w.controller.raw # <<>>, w.controller.owner = c
  PROVE  Due(w, n, c, <<>>)
  <1>1. /\ w \in WorldSet /\ SurfacesOK(w) /\ OwnerOK(w) /\ KeysFit(w.document, w.typed, w.stranded, n)
    BY DEF Good, KeysOK
  <1>2. /\ w.document \in [Clients -> Document] /\ w.typed \in [Clients -> SUBSET (1 .. MaxKeys)]
        /\ w.controller.raw \in Seq(Nat) /\ w.document[c].text \in Seq(Nat)
        /\ w.document[c].marked = w.controller.raw
    BY <1>1, WorldTypes, TextFacts DEF OwnerOK
  <1> DEFINE doc == After(w.document[c], w.controller.raw \o <<>>)
  <1>3. doc.text \o doc.marked = w.document[c].text \o w.document[c].marked
    BY <1>2, ConcatNothing DEF After
  <1> HIDE DEF doc
  <1>4. KeysFit([w.document EXCEPT ![c] = doc], w.typed, w.stranded, n)
    BY <1>1, <1>2, <1>3, FitMoved
  <1> QED
    BY <1>1, <1>4, NoText DEF Due, doc

(* Typed only counts the key.                                                 *)
LEMMA TypedWorld ==
  ASSUME NEW w \in WorldSet, NEW c \in Clients, NEW n \in 1 .. MaxKeys
  PROVE  LET u == Typed(w, c, n)
         IN /\ u \in WorldSet /\ u.controller = w.controller /\ u.screen = w.screen
            /\ u.later = w.later /\ u.document = w.document /\ u.stranded = w.stranded
            /\ u.forgotten = w.forgotten /\ u.accepted = w.accepted
            /\ u.typed = [w.typed EXCEPT ![c] = @ \cup {n}]
  BY DEF Typed, WorldSet

LEMMA DueKey ==
  ASSUME NEW w, NEW n \in Nat, n < MaxKeys, Good(w, n), NEW c \in Clients,
         w.controller.raw # <<>>, w.controller.owner = c
  PROVE  Due(Typed(w, c, n + 1), n + 1, c, <<n + 1>>)
  <1> DEFINE key == <<n + 1>>
             u == Typed(w, c, n + 1)
             doc == After(w.document[c], w.controller.raw \o key)
  <1>1. /\ w \in WorldSet /\ SurfacesOK(w) /\ OwnerOK(w) /\ KeysFit(w.document, w.typed, w.stranded, n)
        /\ n + 1 \in 1 .. MaxKeys
    BY ImkAssumption DEF Good, KeysOK
  <1>2. /\ w.document \in [Clients -> Document] /\ w.typed \in [Clients -> SUBSET (1 .. MaxKeys)]
        /\ w.controller.raw \in Seq(Nat) /\ w.document[c].text \in Seq(Nat)
        /\ w.document[c].marked = w.controller.raw
    BY <1>1, WorldTypes, TextFacts DEF OwnerOK
  <1>3. key \in Text /\ key \in Seq(Nat)
    BY <1>1 DEF Text
  <1>4. /\ u \in WorldSet /\ u.controller = w.controller /\ u.screen = w.screen
        /\ u.later = w.later /\ u.document = w.document /\ u.stranded = w.stranded
        /\ u.forgotten = w.forgotten /\ u.typed = [w.typed EXCEPT ![c] = @ \cup {n + 1}]
    BY <1>1, TypedWorld
  <1> HIDE DEF u
  <1>5. SurfacesOK(u) /\ OwnerOK(u)
    BY <1>1, <1>4 DEF SurfacesOK, ListOK, ListShown, OwnerOK
  <1> HIDE DEF key
  <1>6. doc.text \o doc.marked = (w.document[c].text \o w.document[c].marked) \o key
    <2>1. doc.text = w.document[c].text \o (w.controller.raw \o key) /\ doc.marked = <<>>
      BY DEF After
    <2> HIDE DEF doc
    <2>2. (w.document[c].text \o (w.controller.raw \o key)) \o <<>>
             = (w.document[c].text \o w.controller.raw) \o key
      BY <1>2, <1>3, ConcatThree
    <2> QED
      BY <1>2, <2>1, <2>2
  <1> HIDE DEF doc
  <1>7. KeysFit([w.document EXCEPT ![c] = doc], [w.typed EXCEPT ![c] = @ \cup {n + 1}], w.stranded, n + 1)
    BY <1>1, <1>2, <1>6, FitAppended DEF key
  <1> QED
    BY <1>1, <1>2, <1>3, <1>4, <1>5, <1>7 DEF Due, doc, u, key

LEMMA DueOnSurfaces ==
  ASSUME NEW u, NEW n, NEW c \in Clients, NEW suffix, Due(u, n, c, suffix),
         NEW v, OnSurfaces(u, v)
  PROVE  Due(v, n, c, suffix)
  BY DEF Due, OnSurfaces, SameText, OwnerOK

(* The text goes into the document and the composition is over.               *)
LEMMA CommittedGood ==
  ASSUME NEW u, NEW n \in Nat, NEW c \in Clients, NEW suffix, Due(u, n, c, suffix)
  PROVE  LET v == Committed(u, c, u.controller.raw \o suffix)
         IN Good(v, n) /\ ~Composing(v) /\ v.accepted = u.accepted
  <1> DEFINE text == u.controller.raw \o suffix
             doc == After(u.document[c], text)
             i == Insert(u, c, text)
  <1>1. /\ u \in WorldSet /\ OwnerOK(u) /\ u.controller.raw \in Text /\ suffix \in Text
        /\ u.controller.owner = c
        /\ KeysFit([u.document EXCEPT ![c] = doc], u.typed, u.stranded, n)
        /\ u.document \in [Clients -> Document]
    BY WorldTypes DEF Due
  <1>2. text \in Text
    BY <1>1 DEF Text
  <1> HIDE DEF text
  <1>4. doc.marked = <<>>
    BY DEF After
  <1>5. /\ i \in WorldSet /\ i.document = [u.document EXCEPT ![c] = doc] /\ i.typed = u.typed
        /\ i.stranded = u.stranded /\ i.accepted = u.accepted
    BY <1>1, <1>2, InsertWorld
  <1> HIDE DEF doc, i
  <1>6. KeysOK(i, n)
    BY <1>1, <1>5 DEF KeysOK
  <1>7. ASSUME NEW d \in Clients PROVE ToSet(i.document[d].marked) \subseteq i.stranded
    <2>1. CASE d = c
      BY <1>1, <1>4, <1>5, <2>1, ToSetNone
    <2>2. CASE d # c
      BY <1>1, <1>5, <2>2 DEF OwnerOK
    <2> QED
      BY <2>1, <2>2
  <1>8. Committed(u, c, text) = HideCandidates(Ended(i))
    BY DEF Committed, i
  <1> DEFINE v == HideCandidates(Ended(i))
  <1>9. Good(v, n) /\ ~Composing(v) /\ v.accepted = i.accepted
    BY <1>5, <1>6, <1>7, EndedGood
  <1> HIDE DEF v
  <1> QED
    BY <1>5, <1>8, <1>9 DEF v, text

(* What the owner has marked is given up: it is stranded then.                *)
LEMMA StrandedWorld ==
  ASSUME NEW w, NEW n \in Nat, Good(w, n)
  PROVE  LET u == Stranded(w)
         IN /\ u \in WorldSet /\ KeysOK(u, n) /\ u.accepted = w.accepted
            /\ \A c \in Clients : ToSet(u.document[c].marked) \subseteq u.stranded
  <1> DEFINE lost == w.stranded \cup ToSet(w.controller.raw)
             u == Stranded(w)
  <1>1. /\ w \in WorldSet /\ OwnerOK(w) /\ KeysFit(w.document, w.typed, w.stranded, n)
        /\ w.controller.raw \in Text
    BY WorldTypes DEF Good, KeysOK
  <1>2. ToSet(w.controller.raw) \subseteq 1 .. MaxKeys
    BY <1>1, ToSetType DEF Text
  <1>3. /\ u \in WorldSet /\ u.stranded = lost /\ u.document = w.document /\ u.typed = w.typed
        /\ u.accepted = w.accepted
    BY <1>1, <1>2 DEF Stranded, WorldSet
  <1>4. ToSet(w.controller.raw) \subseteq 1 .. n
    <2>1. CASE w.controller.raw = <<>>
      BY <2>1, ToSetNone
    <2>2. CASE w.controller.raw # <<>>
      <3> DEFINE o == w.controller.owner
                 text == w.document[o].text
                 marked == w.document[o].marked
      <3>1. o \in Clients /\ marked = w.controller.raw
        BY <1>1, <2>2, WorldTypes DEF OwnerOK
      <3>2. text \in Seq(Nat) /\ marked \in Seq(Nat)
        BY <1>1, <3>1, WorldTypes, TextFacts
      <3>3. ClientFits(text \o marked, w.typed[o], w.stranded, n)
        BY <1>1, <3>1 DEF KeysFit
      <3> HIDE DEF text, marked
      <3>4. ToSet(text \o marked) = ToSet(text) \cup ToSet(marked)
        BY <3>2, ToSetConcat
      <3> QED
        BY <3>1, <3>3, <3>4 DEF ClientFits
    <2> QED
      BY <2>1, <2>2
  <1> HIDE DEF u
  <1>5. KeysFit(w.document, w.typed, lost, n)
    BY <1>1, <1>4 DEF KeysFit, ClientFits
  <1>6. ASSUME NEW c \in Clients PROVE ToSet(w.document[c].marked) \subseteq lost
    <2>1. CASE w.controller.raw # <<>> /\ w.controller.owner = c
      BY <1>1, <2>1 DEF OwnerOK
    <2>2. CASE ~(w.controller.raw # <<>> /\ w.controller.owner = c)
      BY <1>1, <2>2 DEF OwnerOK
    <2> QED
      BY <2>1, <2>2
  <1> HIDE DEF lost
  <1> QED
    BY <1>3, <1>5, <1>6 DEF KeysOK, u

(* Without a composition whatever is marked is stranded.                      *)
LEMMA NotComposing ==
  ASSUME NEW w, NEW n \in Nat, Good(w, n), ~Composing(w)
  PROVE  /\ w \in WorldSet /\ KeysOK(w, n)
         /\ \A c \in Clients : ToSet(w.document[c].marked) \subseteq w.stranded
  BY DEF Good, OwnerOK, Composing

(* A call that belongs to another client ends the composition, and nothing    *)
(* else happens to the texts.                                                 *)
LEMMA PrepareGood ==
  ASSUME NEW w, NEW n \in Nat, Good(w, n), NEW c \in Clients
  PROVE  LET v == PrepareForClientTransition(w, c)
         IN /\ Good(v, n) /\ v.accepted = w.accepted
            /\ Composing(v) => v = w /\ w.controller.owner = c
            /\ w.controller.owner # c => ~Composing(v)
  <1>1. CASE w.controller.owner = c
    BY <1>1 DEF PrepareForClientTransition
  <1>2. CASE w.controller.owner # c /\ Composing(w)
    <2> DEFINE u == Stranded(w)
               v == HideCandidates(Ended(u))
    <2>1. /\ u \in WorldSet /\ KeysOK(u, n) /\ u.accepted = w.accepted
          /\ \A d \in Clients : ToSet(u.document[d].marked) \subseteq u.stranded
      BY StrandedWorld
    <2> HIDE DEF u
    <2>2. Good(v, n) /\ ~Composing(v) /\ v.accepted = u.accepted
      BY <2>1, EndedGood
    <2>3. PrepareForClientTransition(w, c) = v
      BY <1>2 DEF PrepareForClientTransition, u
    <2> HIDE DEF v
    <2> QED
      BY <1>2, <2>1, <2>2, <2>3
  <1>3. CASE w.controller.owner # c /\ ~Composing(w)
    <2> DEFINE v == [w EXCEPT !.controller.owner = None]
    <2>1. w \in WorldSet /\ SurfacesOK(w) /\ OwnerOK(w) /\ KeysOK(w, n)
      BY DEF Good
    <2>2. /\ v \in WorldSet /\ v.controller = [w.controller EXCEPT !.owner = None]
          /\ v.screen = w.screen /\ v.later = w.later /\ v.document = w.document
          /\ v.typed = w.typed /\ v.stranded = w.stranded /\ v.forgotten = w.forgotten
          /\ v.accepted = w.accepted
      BY <2>1 DEF WorldSet, Controller
    <2>3. /\ v.controller.raw = w.controller.raw /\ v.controller.list = w.controller.list
          /\ v.controller.selected = w.controller.selected
          /\ v.controller.browsing = w.controller.browsing
          /\ v.controller.listToken = w.controller.listToken
          /\ v.controller.ghostToken = w.controller.ghostToken
          /\ v.controller.wanted = w.controller.wanted
      BY <2>1, <2>2 DEF WorldSet, Controller
    <2>4. PrepareForClientTransition(w, c) = v
      BY <1>3 DEF PrepareForClientTransition
    <2> HIDE DEF v
    <2>5. SurfacesOK(v)
      BY <2>1, <2>2, <2>3 DEF SurfacesOK, ListOK, ListShown
    <2>6. OwnerOK(v) /\ KeysOK(v, n) /\ ~Composing(v)
      BY <1>3, <2>1, <2>2, <2>3 DEF OwnerOK, KeysOK, Composing
    <2> QED
      BY <1>3, <2>2, <2>4, <2>5, <2>6 DEF Good
  <1> QED
    BY <1>1, <1>2, <1>3

(* commitRawComposition, without a suffix.                                    *)
LEMMA CommitRawGood ==
  ASSUME NEW w, NEW n \in Nat, Good(w, n), NEW c \in Clients
  PROVE  LET v == CommitRaw(w, c, <<>>)
         IN Good(v, n) /\ ~Composing(v) /\ v.accepted = w.accepted
  <1>1. CASE w.controller.owner # c
    BY <1>1, PrepareGood DEF CommitRaw
  <1>2. CASE w.controller.owner = c /\ ~Composing(w)
    BY <1>2 DEF CommitRaw
  <1>3. CASE w.controller.owner = c /\ Composing(w)
    <2>1. Due(w, n, c, <<>>)
      BY <1>3, DueNothing DEF Composing
    <2> DEFINE suffix == <<>>
               v == Committed(w, c, w.controller.raw \o suffix)
    <2>2. Due(w, n, c, suffix) /\ CommitRaw(w, c, suffix) = v
      BY <1>3, <2>1 DEF CommitRaw
    <2> HIDE DEF suffix
    <2>3. Good(v, n) /\ ~Composing(v) /\ v.accepted = w.accepted
      BY <2>2, CommittedGood
    <2> QED
      BY <2>2, <2>3 DEF suffix
  <1> QED
    BY <1>1, <1>2, <1>3

(* ... and with the key that ends the composition.                            *)
LEMMA CommitRawDue ==
  ASSUME NEW u, NEW n \in Nat, NEW c \in Clients, NEW suffix, Due(u, n, c, suffix)
  PROVE  LET v == CommitRaw(u, c, suffix)
         IN Good(v, n) /\ ~Composing(v) /\ v.accepted = u.accepted
  <1>1. CommitRaw(u, c, suffix) = Committed(u, c, u.controller.raw \o suffix)
    BY DEF CommitRaw, Due, Composing
  <1> QED
    BY <1>1, CommittedGood

(* Keys that the host writes itself.                                          *)
LEMMA HostTypesGood ==
  ASSUME NEW w, NEW n \in Nat, n < MaxKeys, Good(w, n), ~Composing(w), NEW c \in Clients
  PROVE  LET v == HostTypes(w, c, n + 1)
         IN Good(v, n + 1) /\ v.accepted = w.accepted
  <1> DEFINE key == <<n + 1>>
             u == Typed(w, c, n + 1)
             v == Insert(u, c, key)
             doc == After(w.document[c], key)
             bare == [text |-> w.document[c].text, marked |-> <<>>]
             D == [w.document EXCEPT ![c] = bare]
  <1>1. /\ w \in WorldSet /\ SurfacesOK(w) /\ OwnerOK(w) /\ KeysFit(w.document, w.typed, w.stranded, n)
        /\ \A d \in Clients : ToSet(w.document[d].marked) \subseteq w.stranded
        /\ n + 1 \in 1 .. MaxKeys
    BY NotComposing, ImkAssumption DEF Good, KeysOK
  <1>2. /\ w.document \in [Clients -> Document] /\ w.typed \in [Clients -> SUBSET (1 .. MaxKeys)]
        /\ w.document[c].text \in Text /\ w.document[c].text \in Seq(Nat)
    BY <1>1, WorldTypes, TextFacts
  <1>3. key \in Text /\ key \in Seq(Nat)
    BY <1>1 DEF Text
  <1>4. /\ u \in WorldSet /\ u.controller = w.controller /\ u.screen = w.screen
        /\ u.later = w.later /\ u.document = w.document /\ u.stranded = w.stranded
        /\ u.forgotten = w.forgotten /\ u.accepted = w.accepted
        /\ u.typed = [w.typed EXCEPT ![c] = @ \cup {n + 1}]
    BY <1>1, TypedWorld
  <1>5. HostTypes(w, c, n + 1) = v
    BY DEF HostTypes
  <1> HIDE DEF u, key
  <1>6. /\ v \in WorldSet /\ v.controller = w.controller /\ v.screen = w.screen
        /\ v.later = w.later /\ v.document = [w.document EXCEPT ![c] = doc]
        /\ v.stranded = w.stranded /\ v.forgotten = w.forgotten /\ v.accepted = w.accepted
        /\ v.typed = [w.typed EXCEPT ![c] = @ \cup {n + 1}]
    BY <1>3, <1>4, InsertWorld
  <1>7. KeysFit(D, w.typed, w.stranded, n) /\ D \in [Clients -> Document]
    <2>1. bare.text \o bare.marked = w.document[c].text /\ bare \in Document
      BY <1>2, NoText, ConcatEmptySeq DEF Document
    <2> HIDE DEF bare
    <2> QED
      BY <1>1, <1>2, <2>1, FitReplaced
  <1>8. doc.text \o doc.marked = (D[c].text \o D[c].marked) \o key
    <2>1. doc.text = w.document[c].text \o key /\ doc.marked = <<>>
      BY DEF After
    <2>2. D[c].text = w.document[c].text /\ D[c].marked = <<>>
      BY <1>2
    <2> HIDE DEF doc, D
    <2>3. w.document[c].text \o key \in Seq(Nat)
      BY <1>2, <1>3
    <2> QED
      BY <1>2, <1>3, <2>1, <2>2, <2>3, ConcatEmptySeq
  <1>9. [w.document EXCEPT ![c] = doc] = [D EXCEPT ![c] = doc]
    BY <1>2
  <1> HIDE DEF doc, D, v
  <1>10. KeysFit([D EXCEPT ![c] = doc], [w.typed EXCEPT ![c] = @ \cup {n + 1}], w.stranded, n + 1)
    BY <1>2, <1>7, <1>8, FitAppended DEF key
  <1>11. SurfacesOK(v) /\ KeysOK(v, n + 1)
    BY <1>1, <1>6, <1>9, <1>10 DEF SurfacesOK, ListOK, ListShown, KeysOK
  <1>12. OwnerOK(v)
    <2>1. ~(w.controller.raw # <<>>)
      BY DEF Composing
    <2>2. ASSUME NEW d \in Clients PROVE ToSet(v.document[d].marked) \subseteq v.stranded
      <3>1. CASE d = c
        BY <1>2, <1>6, <3>1, ToSetNone DEF doc, After
      <3>2. CASE d # c
        BY <1>1, <1>2, <1>6, <3>2
      <3> QED
        BY <3>1, <3>2
    <2> QED
      BY <1>1, <1>6, <2>1, <2>2 DEF OwnerOK
  <1> QED
    BY <1>5, <1>6, <1>11, <1>12 DEF Good

------------------------------------------------------------------------------
(* What the user sees, and what is accepted of it.                            *)
Inserted(w, a) ==
  /\ \/ a.name = "ghost" /\ GhostVisible(w) /\ w.screen.ghost = a.of
     \/ ListVisible(w) /\ w.screen.list.of = a.of /\ a.name \in ToSet(w.screen.list.names)
  /\ a.of = a.replaced
  /\ w.document[a.client].marked = a.of

(* A handler that began in w may end in v, n keys having been written.        *)
StepOK(w, v, n) == Good(v, n) /\ (v.accepted # None => Inserted(w, v.accepted))

LEMMA StepFrom ==
  ASSUME NEW w, NEW u, NEW v, NEW n, StepOK(u, v, n),
         u.screen = w.screen, u.document = w.document
  PROVE  StepOK(w, v, n)
  BY DEF StepOK, Inserted, GhostVisible, ListVisible

(* commitCandidateText.                                                       *)
LEMMA CommitCandidateGood ==
  ASSUME NEW u, NEW n \in Nat, NEW c \in Clients, NEW suffix, Due(u, n, c, suffix),
         NEW of \in Text, NEW name \in Name \cup {"ghost"}
  PROVE  LET v == CommitCandidate(u, c, of, name, suffix)
             a == v.accepted
         IN /\ Good(v, n) /\ a.client = c /\ a.replaced = u.controller.raw /\ a.of = of
            /\ a.name = name
  <1> DEFINE a == [client |-> c, replaced |-> u.controller.raw, of |-> of, name |-> name]
             d == Committed(u, c, u.controller.raw \o suffix)
             v == [d EXCEPT !.accepted = a]
  <1>1. u \in WorldSet /\ u.controller.raw \in Text /\ u.controller.owner = c
    BY WorldTypes DEF Due
  <1>2. CommitCandidate(u, c, of, name, suffix) = v
    BY <1>1 DEF CommitCandidate
  <1>3. Good(d, n)
    BY CommittedGood
  <1>4. a \in Insertion
    BY <1>1 DEF Insertion
  <1>5. a.client = c /\ a.replaced = u.controller.raw /\ a.of = of /\ a.name = name
    OBVIOUS
  <1> HIDE DEF d, a
  <1>6. /\ v \in WorldSet /\ v.accepted = a /\ v.controller = d.controller /\ v.screen = d.screen
        /\ v.later = d.later /\ v.document = d.document /\ v.typed = d.typed
        /\ v.stranded = d.stranded /\ v.forgotten = d.forgotten
    BY <1>3, <1>4 DEF Good, WorldSet
  <1> HIDE DEF v
  <1>7. Good(v, n)
    BY <1>3, <1>6 DEF Good, SurfacesOK, ListOK, ListShown, OwnerOK, KeysOK
  <1> QED
    BY <1>2, <1>5, <1>6, <1>7

LEMMA GhostGood ==
  ASSUME NEW w, NEW n \in Nat, Good(w, n), NEW c \in Clients, w.accepted = None,
         w.controller.raw # <<>>, w.controller.owner = c, NEW other, StepOK(w, other, n)
  PROVE  StepOK(w, AcceptGhostOr(w, c, other), n)
  <1> DEFINE token == w.controller.ghostToken
             suffix == <<>>
             of == token.raw
             name == "ghost"
             v == CommitCandidate(w, c, of, name, suffix)
  <1>1. w \in WorldSet /\ SurfacesOK(w) /\ OwnerOK(w) /\ token \in SurfaceToken \cup {None}
    BY DEF Good, WorldSet, Controller
  <1>2. CASE token # None /\ GhostVisible(w) /\ IsCurrentToken(w, token, c)
    <2>1. CheckGhost(w, c) = w
      BY <1>2 DEF CheckGhost
    <2>2. AcceptGhostOr(w, c, other) = v
      BY <1>2, <2>1 DEF AcceptGhostOr
    <2>3. of \in Text /\ of = w.controller.raw /\ w.screen.ghost = of
      BY <1>1, <1>2 DEF SurfaceToken, IsCurrentToken, SurfacesOK, ListOK
    <2>4. Due(w, n, c, suffix)
      BY DueNothing
    <2>5. w.document[c].marked = w.controller.raw
      BY <1>1 DEF OwnerOK
    <2> HIDE DEF token, suffix, of, name
    <2>0. name \in Name \cup {"ghost"}
      BY DEF name
    <2>6. /\ Good(v, n) /\ v.accepted.client = c /\ v.accepted.replaced = w.controller.raw
          /\ v.accepted.of = of /\ v.accepted.name = name
      BY <2>0, <2>3, <2>4, CommitCandidateGood
    <2> HIDE DEF v
    <2>7. Inserted(w, v.accepted)
      BY <1>2, <2>3, <2>5, <2>6 DEF Inserted, name
    <2> QED
      BY <2>2, <2>6, <2>7 DEF StepOK
  <1>3. CASE ~(token # None /\ GhostVisible(w) /\ IsCurrentToken(w, token, c))
    <2>1. CheckGhost(w, c).controller.ghostToken = None
      BY <1>1, <1>3 DEF CheckGhost, WorldSet, Controller
    <2> QED
      BY <2>1 DEF AcceptGhostOr
  <1> QED
    BY <1>2, <1>3

(* commitSelectedCandidate, of a row that is on the screen.                   *)
LEMMA AcceptSelectedGood ==
  ASSUME NEW u, NEW n \in Nat, NEW c \in Clients, NEW suffix, Due(u, n, c, suffix), ListOK(u),
         SelectedName(u) # None, ListVisible(u), u.screen.list.of = u.controller.list.of,
         SelectedName(u) \in ToSet(u.screen.list.names)
  PROVE  StepOK(u, AcceptSelected(u, c, suffix), n)
  <1> DEFINE of == u.controller.list.of
             name == SelectedName(u)
             v == CommitCandidate(u, c, of, name, suffix)
  <1>1. u \in WorldSet /\ OwnerOK(u) /\ u.controller.raw # <<>> /\ u.controller.owner = c
    BY DEF Due
  <1>2. u.controller.list.names \in Seq(Name) /\ of \in Text
    BY <1>1 DEF WorldSet, Controller, CandidateState
  <1>3. name \in Name \cup {"ghost"}
    BY <1>2 DEF SelectedName
  <1>4. of = u.controller.raw /\ u.document[c].marked = u.controller.raw
    BY <1>1 DEF ListOK, OwnerOK
  <1>5. name \in ToSet(u.screen.list.names) /\ u.screen.list.of = of
    OBVIOUS
  <1>6. AcceptSelected(u, c, suffix) = v
    BY DEF AcceptSelected
  <1> HIDE DEF of, name
  <1>7. /\ Good(v, n) /\ v.accepted.client = c /\ v.accepted.replaced = u.controller.raw
        /\ v.accepted.of = of /\ v.accepted.name = name
    BY <1>2, <1>3, CommitCandidateGood
  <1> HIDE DEF v
  <1>8. Inserted(u, v.accepted)
    BY <1>4, <1>5, <1>7 DEF Inserted
  <1> QED
    BY <1>6, <1>7, <1>8 DEF StepOK

(* commitCurrentComposition: what was chosen is on the screen, since the list *)
(* that the token stands for is.                                              *)
LEMMA AcceptOrRawGood ==
  ASSUME NEW u, NEW n \in Nat, NEW c \in Clients, NEW suffix, Due(u, n, c, suffix), SurfacesOK(u),
         u.accepted = None
  PROVE  StepOK(u, AcceptOrRaw(u, c, suffix), n)
  <1>1. u \in WorldSet
    BY DEF Due
  <1>2. CASE Authorized(u, c)
    <2>1. /\ u.controller.browsing /\ SelectedName(u) # None /\ ListVisible(u)
          /\ u.controller.listToken # None
      BY <1>2, NoneIsNoValue, <1>1 DEF Authorized, IsCurrentToken, SurfaceToken, WorldSet, Controller
    <2>2. ListShown(u) /\ ListOK(u)
      BY <2>1 DEF SurfacesOK
    <2>3. /\ SelectedName(u) \in ToSet(u.screen.list.names)
          /\ u.screen.list.of = u.controller.list.of
      BY <2>1, <2>2 DEF ListShown, SelectedName
    <2>4. AcceptOrRaw(u, c, suffix) = AcceptSelected(u, c, suffix)
      BY <1>2 DEF AcceptOrRaw
    <2> QED
      BY <2>1, <2>2, <2>3, <2>4, AcceptSelectedGood
  <1>3. CASE ~Authorized(u, c)
    <2> DEFINE r == Revoke(u)
    <2>1. OnSurfaces(u, r)
      BY <1>1, RevokeSurfaces
    <2>2. AcceptOrRaw(u, c, suffix) = CommitRaw(r, c, suffix)
      BY <1>3 DEF AcceptOrRaw
    <2> HIDE DEF r
    <2>3. Due(r, n, c, suffix) /\ r.accepted = None
      BY <2>1, DueOnSurfaces DEF OnSurfaces, SameText
    <2> QED
      BY <2>2, <2>3, CommitRawDue DEF StepOK
  <1> QED
    BY <1>2, <1>3

------------------------------------------------------------------------------
(* setMarkedText takes the place of the marked text.                          *)
Marked(d, raw) == [text |-> d.text, marked |-> raw]

LEMMA MarkedDocument ==
  ASSUME NEW d \in Document, NEW raw \in Text
  PROVE  [d EXCEPT !.marked = raw] = Marked(d, raw) /\ Marked(d, raw) \in Document
  <1> DEFINE e == [d EXCEPT !.marked = raw]
  <1>1. e \in [text : Text, marked : Text] /\ e.text = d.text /\ e.marked = raw
    BY DEF Document
  <1> HIDE DEF e
  <1>2. e = [text |-> e.text, marked |-> e.marked]
    BY <1>1
  <1> QED
    BY <1>1, <1>2 DEF e, Marked, Document

(* The keys fit once c's marked text is raw, and what others have marked is   *)
(* stranded.                                                                  *)
Marking(w, c, raw, n) ==
  /\ w \in WorldSet /\ raw \in Text
  /\ \A d \in Clients \ {c} : ToSet(w.document[d].marked) \subseteq w.stranded
  /\ KeysFit([w.document EXCEPT ![c] = Marked(w.document[c], raw)], w.typed, w.stranded, n)

LEMMA MarkingWorld ==
  ASSUME NEW w, NEW c \in Clients, NEW raw, NEW n, Marking(w, c, raw, n)
  PROVE  LET u == [w EXCEPT !.document[c].marked = raw]
             E == [w.document EXCEPT ![c] = Marked(w.document[c], raw)]
         IN /\ u = [w EXCEPT !.document = E] /\ E \in [Clients -> Document]
            /\ E[c].marked = raw
            /\ \A d \in Clients \ {c} : ToSet(E[d].marked) \subseteq w.stranded
  <1> DEFINE doc == Marked(w.document[c], raw)
  <1>1. /\ w \in WorldSet /\ w.document \in [Clients -> Document] /\ w.document[c] \in Document
        /\ raw \in Text
    BY DEF Marking, WorldSet
  <1>2. [w.document[c] EXCEPT !.marked = raw] = doc /\ doc \in Document /\ doc.marked = raw
    BY <1>1, MarkedDocument DEF Marked
  <1> HIDE DEF doc
  <1>3. [w EXCEPT !.document[c].marked = raw] = [w EXCEPT !.document = [w.document EXCEPT ![c] = doc]]
    BY <1>1, <1>2 DEF WorldSet
  <1>4. \A d \in Clients \ {c} : ToSet([w.document EXCEPT ![c] = doc][d].marked) \subseteq w.stranded
    BY <1>1 DEF Marking
  <1> QED
    BY <1>1, <1>2, <1>3, <1>4 DEF doc

(* cancelLocalComposition.                                                    *)
LEMMA CancelLocalGood ==
  ASSUME NEW w, NEW c \in Clients, NEW raw, raw = <<>>, NEW n \in Nat, Marking(w, c, raw, n)
  PROVE  LET v == CancelLocal(w, c) IN Good(v, n) /\ v.accepted = w.accepted
  <1> DEFINE E == [w.document EXCEPT ![c] = Marked(w.document[c], raw)]
             u == [w EXCEPT !.document = E]
             v == HideCandidates(Ended(u))
  <1>1. /\ [w EXCEPT !.document[c].marked = raw] = u /\ E \in [Clients -> Document]
        /\ E[c].marked = raw
        /\ \A d \in Clients \ {c} : ToSet(E[d].marked) \subseteq w.stranded
    BY MarkingWorld
  <1>2. w \in WorldSet /\ KeysFit(E, w.typed, w.stranded, n)
    BY DEF Marking
  <1> HIDE DEF E
  <1>3. /\ u \in WorldSet /\ u.document = E /\ u.typed = w.typed /\ u.stranded = w.stranded
        /\ u.accepted = w.accepted
    BY <1>1, <1>2 DEF WorldSet
  <1>4. CancelLocal(w, c) = v
    <2> HIDE DEF u
    <2> QED
      BY <1>1 DEF CancelLocal
  <1> HIDE DEF u
  <1>5. KeysOK(u, n) /\ \A d \in Clients : ToSet(u.document[d].marked) \subseteq u.stranded
    BY <1>1, <1>2, <1>3, ToSetNone DEF KeysOK
  <1>6. Good(v, n) /\ v.accepted = u.accepted
    BY <1>3, <1>5, EndedGood
  <1> HIDE DEF v
  <1> QED
    BY <1>3, <1>4, <1>6

(* apply: whatever decision it is, the text is marked and the list made for   *)
(* it; the surfaces and the neural answer come later.                         *)
LEMMA MarkGood ==
  ASSUME NEW w, NEW c \in Clients, NEW raw, NEW n \in Nat, Marking(w, c, raw, n),
         raw # <<>>, Len(raw) <= MaxComposition, NEW d \in Decision
  PROVE  LET v == Mark(w, c, raw, d) IN Good(v, n) /\ v.accepted = w.accepted
  <1> DEFINE E == [w.document EXCEPT ![c] = Marked(w.document[c], raw)]
             wanted == IF d.ghost THEN raw ELSE None
             con == [w.controller EXCEPT !.raw = raw, !.owner = c, !.dismissed = FALSE, !.wanted = wanted]
             m == [w EXCEPT !.controller.raw = raw, !.controller.owner = c, !.document[c].marked = raw,
                            !.controller.dismissed = FALSE, !.forgotten = {},
                            !.controller.wanted = wanted]
             l == ReplaceList(m, d.names)
             q == [raw |-> raw, names |-> d.names, stage |-> "queued"]
             a == IF d.tail THEN [l EXCEPT !.later.neural = q] ELSE CancelPending(l)
             b == Bump(a)
             r == [raw |-> raw, left |-> Retries]
             v == [b EXCEPT !.later.render = r]
  <1>1. w \in WorldSet /\ raw \in Text /\ w.controller \in Controller
    BY DEF Marking, WorldSet
  <1>2. /\ [w EXCEPT !.document[c].marked = raw] = [w EXCEPT !.document = E]
        /\ E \in [Clients -> Document] /\ E[c].marked = raw
        /\ \A e \in Clients \ {c} : ToSet(E[e].marked) \subseteq w.stranded
    BY MarkingWorld
  <1>3. KeysFit(E, w.typed, w.stranded, n)
    BY DEF Marking
  <1>4. d.names \in Offers /\ d.names \in Seq(Name) /\ IsInjective(d.names)
    <2>1. d.names \in Offers
      BY DEF Decision
    <2>2. d.names \in Seq(ToSet(d.names)) /\ ToSet(d.names) \subseteq Name /\ IsInjective(d.names)
      BY <2>1, ImkAssumption DEF Name
    <2> QED
      BY <2>1, <2>2
  <1>5. Mark(w, c, raw, d) = v
    BY DEF Mark
  <1>0. m = [w EXCEPT !.controller = con, !.document = E, !.forgotten = {}]
    BY <1>1, <1>2 DEF WorldSet
  <1>6. /\ con \in Controller /\ con.raw = raw /\ con.owner = c /\ con.wanted \in {None, raw}
    BY <1>1 DEF Controller
  <1> HIDE DEF con, E, m
  <1>7. /\ m \in WorldSet /\ m.controller = con /\ m.document = E /\ m.forgotten = {}
        /\ m.screen = w.screen
        /\ m.typed = w.typed /\ m.stranded = w.stranded /\ m.accepted = w.accepted
    BY <1>1, <1>2, <1>6, <1>0 DEF WorldSet
  <1>8. /\ l \in WorldSet /\ l.controller.list = [of |-> raw, names |-> d.names]
        /\ l.controller.raw = raw /\ l.controller.owner = c /\ l.controller.wanted \in {None, raw}
        /\ l.controller.selected = 0
        /\ l.document = E /\ l.forgotten = {} /\ l.typed = w.typed /\ l.stranded = w.stranded
        /\ l.accepted = w.accepted
    BY <1>4, <1>6, <1>7, ReplaceListSurfaces
  <1> HIDE DEF l
  <1>9. /\ a \in WorldSet /\ a.controller = l.controller
        /\ a.document = E /\ a.forgotten = {} /\ a.typed = w.typed /\ a.stranded = w.stranded
        /\ a.accepted = w.accepted
        /\ a.later.neural # None => a.later.neural.raw = raw
    <2>1. CASE d.tail
      <3>1. q \in NeuralRequest /\ q.raw = raw
        BY <1>1, <1>4 DEF NeuralRequest
      <3>2. a = [l EXCEPT !.later.neural = q]
        BY <2>1
      <3> HIDE DEF q, a
      <3> QED
        BY <1>8, <3>1, <3>2 DEF WorldSet, Later
    <2>2. CASE ~d.tail
      BY <1>8, <2>2, CancelPendingSurfaces DEF OnSurfaces, SameText
    <2> QED
      BY <2>1, <2>2
  <1> HIDE DEF a
  <1>10. /\ OnSurfaces(a, b) /\ b.later.neural = a.later.neural
         /\ b.controller.listToken = None /\ b.controller.ghostToken = None
         /\ b.controller.wanted = a.controller.wanted /\ b.controller.selected = a.controller.selected
    BY <1>9, BumpSurfaces DEF Bump, WorldSet, Controller
  <1> HIDE DEF b
  <1>11. r \in RenderRequest
    BY <1>1, ImkAssumption DEF RenderRequest
  <1> HIDE DEF r
  <1>12. OnSurfaces(b, v) /\ v.controller = b.controller /\ v.later.neural = b.later.neural
    BY <1>10, <1>11 DEF OnSurfaces, SameText, WorldSet, Later
  <1> HIDE DEF v
  <1>13. /\ v \in WorldSet /\ v.controller.list = [of |-> raw, names |-> d.names]
         /\ v.controller.raw = raw /\ v.controller.owner = c /\ v.controller.wanted \in {None, raw}
         /\ v.controller.selected = 0 /\ v.controller.listToken = None /\ v.controller.ghostToken = None
         /\ v.document = E /\ v.forgotten = {} /\ v.typed = w.typed /\ v.stranded = w.stranded
         /\ v.accepted = w.accepted
         /\ v.later.neural # None => v.later.neural.raw = raw
    BY <1>8, <1>9, <1>10, <1>12 DEF OnSurfaces, SameText
  <1>14. SurfacesOK(v)
    <2>1. 0 <= Len(d.names) /\ (d.names # <<>> => raw # <<>>)
      BY <1>4
    <2> QED
      BY <1>4, <1>13, <2>1 DEF SurfacesOK, ListOK
  <1>15. OwnerOK(v) /\ KeysOK(v, n)
    BY <1>2, <1>3, <1>13, ImkAssumption DEF OwnerOK, KeysOK
  <1> QED
    BY <1>5, <1>13, <1>14, <1>15 DEF Good

(* clearStateForSecureInput: the text of the client that called is taken back,*)
(* any other is stranded.                                                     *)
LEMMA ClearForSecureGood ==
  ASSUME NEW w, NEW n \in Nat, Good(w, n), NEW c
  PROVE  LET v == ClearForSecure(w, c)
         IN Good(v, n) /\ ~Composing(v) /\ v.accepted = w.accepted
  <1> DEFINE e == HideCandidates(Ended(w))
  <1>0. w \in WorldSet /\ OwnerOK(w) /\ KeysOK(w, n)
    BY DEF Good
  <1>1. CASE ~Composing(w)
    <2>1. ClearForSecure(w, c) = e
      BY <1>1 DEF ClearForSecure
    <2> QED
      BY <1>1, <2>1, NotComposing, EndedGood
  <1>2. CASE Composing(w) /\ w.controller.owner # c
    <2> DEFINE u == Stranded(w)
               v == HideCandidates(Ended(u))
    <2>1. /\ u \in WorldSet /\ KeysOK(u, n) /\ u.accepted = w.accepted
          /\ \A d \in Clients : ToSet(u.document[d].marked) \subseteq u.stranded
      BY StrandedWorld
    <2>2. ClearForSecure(w, c) = v
      BY <1>2 DEF ClearForSecure
    <2> HIDE DEF u
    <2>3. Good(v, n) /\ ~Composing(v) /\ v.accepted = u.accepted
      BY <2>1, EndedGood
    <2> QED
      BY <2>1, <2>2, <2>3
  <1>3. CASE Composing(w) /\ w.controller.owner = c
    <2> DEFINE raw == w.controller.raw
               none == <<>>
               doc == Marked(w.document[c], none)
               v == [e EXCEPT !.document[c].marked = none, !.typed[c] = @ \ ToSet(raw)]
    <2>1. /\ c \in Clients /\ raw \in Seq(Nat) /\ w.document[c].marked = raw
          /\ w.document \in [Clients -> Document] /\ w.document[c] \in Document
          /\ w.typed \in [Clients -> SUBSET (1 .. MaxKeys)]
          /\ w.document[c].text \in Seq(Nat)
      BY <1>0, <1>3, WorldTypes, TextFacts DEF OwnerOK, Composing
    <2>2. ClearForSecure(w, c) = v
      BY <1>3 DEF ClearForSecure
    <2>3. /\ e \in WorldSet /\ SurfacesOK(e) /\ e.controller.raw = <<>>
          /\ e.document = w.document /\ e.typed = w.typed /\ e.stranded = w.stranded
          /\ e.accepted = w.accepted
      BY <1>0, EndedWorld
    <2>4. [w.document[c] EXCEPT !.marked = none] = doc /\ doc \in Document /\ doc.marked = none
          /\ doc.text \o doc.marked = w.document[c].text /\ ToSet(none) = {}
      BY <2>1, NoText, MarkedDocument, ConcatEmptySeq, ToSetNone DEF Marked
    <2>5. w.document[c].text \o w.document[c].marked = w.document[c].text \o raw
      BY <2>1
    <2> HIDE DEF e, raw, none, doc
    <2>6. KeysFit([w.document EXCEPT ![c] = doc], [w.typed EXCEPT ![c] = @ \ ToSet(raw)], w.stranded, n)
      BY <1>0, <2>1, <2>4, <2>5, FitDeleted DEF KeysOK
    <2>7. /\ [w.document EXCEPT ![c] = doc] \in [Clients -> Document]
          /\ [w.typed EXCEPT ![c] = @ \ ToSet(raw)] \in [Clients -> SUBSET (1 .. MaxKeys)]
      BY <2>1, <2>4
    <2>8. v = [e EXCEPT !.document = [w.document EXCEPT ![c] = doc],
                        !.typed = [w.typed EXCEPT ![c] = @ \ ToSet(raw)]]
      BY <2>1, <2>3, <2>4 DEF WorldSet
    <2> HIDE DEF v
    <2>9. /\ v \in WorldSet /\ v.controller = e.controller /\ v.screen = e.screen /\ v.later = e.later
          /\ v.document = [w.document EXCEPT ![c] = doc]
          /\ v.typed = [w.typed EXCEPT ![c] = @ \ ToSet(raw)]
          /\ v.stranded = w.stranded /\ v.forgotten = e.forgotten /\ v.accepted = w.accepted
      BY <2>3, <2>7, <2>8 DEF WorldSet
    <2>10. SurfacesOK(v) /\ KeysOK(v, n)
      BY <2>3, <2>6, <2>9 DEF SurfacesOK, ListOK, ListShown, KeysOK
    <2>11. OwnerOK(v)
      <3>1. ASSUME NEW d \in Clients PROVE ToSet(v.document[d].marked) \subseteq v.stranded
        <4>1. CASE d = c
          BY <2>1, <2>4, <2>9, <4>1
        <4>2. CASE d # c
          BY <1>0, <1>3, <2>1, <2>9, <4>2 DEF OwnerOK
        <4> QED
          BY <4>1, <4>2
      <3> QED
        BY <2>3, <2>9, <3>1, NoText, ImkAssumption DEF OwnerOK
    <2> QED
      BY <2>2, <2>3, <2>9, <2>10, <2>11 DEF Good, Composing
  <1> QED
    BY <1>1, <1>2, <1>3

------------------------------------------------------------------------------
(* The surfaces again: what keeps the invariant.                              *)
LEMMA SurfacesGood ==
  ASSUME NEW w, NEW n, Good(w, n), NEW v, OnSurfaces(w, v), SurfacesOK(v)
  PROVE  Good(v, n) /\ v.accepted = w.accepted /\ (Composing(v) <=> Composing(w))
  BY DEF Good, OnSurfaces, SameText, OwnerOK, KeysOK, Composing

(* visibleInlineSuggestion.                                                   *)
LEMMA CheckGhostSurfaces ==
  ASSUME NEW w \in WorldSet, NEW c
  PROVE  LET v == CheckGhost(w, c)
         IN /\ OnSurfaces(w, v) /\ v.screen = w.screen /\ v.later = w.later
            /\ ListOK(w) => ListOK(v)
            /\ SurfacesOK(w) => SurfacesOK(v)
  <1> DEFINE v == [w EXCEPT !.controller.ghostToken = None]
  <1>1. /\ v \in WorldSet /\ v.controller = [w.controller EXCEPT !.ghostToken = None]
        /\ v.screen = w.screen /\ v.later = w.later /\ v.document = w.document
        /\ v.typed = w.typed /\ v.stranded = w.stranded /\ v.forgotten = w.forgotten
        /\ v.accepted = w.accepted
    BY DEF WorldSet, Controller
  <1>2. /\ v.controller.raw = w.controller.raw /\ v.controller.list = w.controller.list
        /\ v.controller.owner = w.controller.owner
        /\ v.controller.selected = w.controller.selected
        /\ v.controller.browsing = w.controller.browsing
        /\ v.controller.listToken = w.controller.listToken
        /\ v.controller.ghostToken = None /\ v.controller.wanted = w.controller.wanted
    BY <1>1 DEF WorldSet, Controller
  <1>3. CheckGhost(w, c) = w \/ CheckGhost(w, c) = v
    BY DEF CheckGhost
  <1> HIDE DEF v
  <1>4. OnSurfaces(w, v) /\ (ListOK(w) => ListOK(v)) /\ (SurfacesOK(w) => SurfacesOK(v))
    BY <1>1, <1>2 DEF OnSurfaces, SameText, ListOK, SurfacesOK, ListShown
  <1> QED
    BY <1>1, <1>3, <1>4 DEF OnSurfaces, SameText

(* isCurrentCandidateSurface.                                                 *)
LEMMA CheckListSurfaces ==
  ASSUME NEW w \in WorldSet, NEW c
  PROVE  LET v == CheckList(w, c)
         IN /\ OnSurfaces(w, v) /\ v.screen = w.screen /\ v.later = w.later
            /\ SurfacesOK(w) => SurfacesOK(v)
            /\ ListOK(w) => ListOK(v)
            /\ v = w \/ v = Revoke(w)
  <1>1. CheckList(w, c) = w \/ CheckList(w, c) = Revoke(w)
    BY DEF CheckList
  <1> QED
    BY <1>1, RevokeSurfaces DEF OnSurfaces, SameText, SurfacesOK

(* dismissInlineSuggestion.                                                   *)
LEMMA DismissSurfaces ==
  ASSUME NEW w \in WorldSet
  PROVE  LET v == DismissInlineSuggestion(w)
         IN /\ OnSurfaces(w, v) /\ v.screen.list = w.screen.list /\ v.screen.ghost = None
            /\ v.later.neural = w.later.neural /\ (ListOK(w) => SurfacesOK(v))
            /\ v.controller.listToken = None
  <1> DEFINE b == Bump(w)
             v == [b EXCEPT !.controller.wanted = None, !.screen.ghost = None]
  <1>1. /\ OnSurfaces(w, b) /\ (ListOK(w) => SurfacesOK(b)) /\ b.screen = w.screen
        /\ b.later.neural = w.later.neural
        /\ b.controller.listToken = None /\ b.controller.ghostToken = None
    BY BumpSurfaces
  <1>2. DismissInlineSuggestion(w) = v
    BY DEF DismissInlineSuggestion
  <1> HIDE DEF b
  <1>3. b \in WorldSet /\ b.controller \in Controller /\ b.screen \in Screen
    BY <1>1, WorldTypes DEF OnSurfaces
  <1>4. [b.controller EXCEPT !.wanted = None] \in Controller /\ [b.screen EXCEPT !.ghost = None] \in Screen
    BY <1>3 DEF Controller, Screen
  <1>5. /\ v \in WorldSet /\ v.controller = [b.controller EXCEPT !.wanted = None]
        /\ v.screen = [b.screen EXCEPT !.ghost = None] /\ v.later = b.later
        /\ v.document = b.document /\ v.typed = b.typed /\ v.stranded = b.stranded
        /\ v.forgotten = b.forgotten /\ v.accepted = b.accepted
    BY <1>3, <1>4 DEF WorldSet
  <1>6. /\ v.controller.raw = b.controller.raw /\ v.controller.list = b.controller.list
        /\ v.controller.owner = b.controller.owner /\ v.controller.selected = b.controller.selected
        /\ v.controller.listToken = None /\ v.controller.ghostToken = None
        /\ v.controller.wanted = None
        /\ v.screen.list = b.screen.list /\ v.screen.ghost = None
    BY <1>1, <1>3, <1>5 DEF Controller, Screen
  <1> HIDE DEF v
  <1>7. OnSurfaces(w, v)
    BY <1>1, <1>5, <1>6 DEF OnSurfaces, SameText
  <1>8. ListOK(w) => SurfacesOK(v)
    BY <1>1, <1>5, <1>6 DEF SurfacesOK, ListOK
  <1> QED
    BY <1>1, <1>2, <1>5, <1>6, <1>7, <1>8

(* show: the panel has the rows of the list, all of them when browsing.       *)
LEMMA PresentSurfaces ==
  ASSUME NEW w \in WorldSet, ListOK(w), NEW kind \in {"custom", "system"}
  PROVE  LET v == Present(w, kind)
         IN /\ OnSurfaces(w, v) /\ SurfacesOK(v)
            /\ v.screen.ghost = w.screen.ghost /\ v.later = w.later
  <1> DEFINE con == w.controller
             names == con.list.names
             shown == IF kind = "custom" /\ ~con.browsing /\ Len(names) > PassiveRows
                      THEN SubSeq(names, 1, PassiveRows) ELSE names
             token == MakeToken(w)
             window == [kind |-> kind, of |-> con.list.of, names |-> shown, token |-> token]
             v == [w EXCEPT !.controller.listToken = token, !.screen.list = window]
  <1>1. /\ con \in Controller /\ w.screen \in Screen /\ names \in Seq(Name) /\ con.list.of \in Text
        /\ con.raw \in Text /\ con.owner \in Clients \cup {None}
    BY DEF WorldSet, Controller, CandidateState
  <1>2. token \in SurfaceToken
    BY <1>1 DEF MakeToken, SurfaceToken
  <1>3. /\ shown \in Seq(Name) /\ ToSet(shown) \subseteq ToSet(names)
        /\ \A i \in DOMAIN names : con.browsing \/ i <= PassiveRows => names[i] \in ToSet(shown)
    <2> DEFINE some == SubSeq(names, 1, PassiveRows)
    <2>1. CASE shown = names
      BY <1>1, <2>1 DEF ToSet
    <2>2. CASE shown = some /\ ~con.browsing /\ Len(names) > PassiveRows
      <3> HIDE DEF names
      <3>1. some \in Seq(Name) /\ Len(some) = PassiveRows
            /\ \A i \in 1 .. PassiveRows : some[i] = names[i] /\ i \in DOMAIN names
        BY <1>1, <2>2, ImkAssumption, SubSeqProperties
      <3> HIDE DEF some, shown
      <3>2. DOMAIN some = 1 .. PassiveRows
        BY <3>1
      <3>3. ToSet(some) \subseteq ToSet(names)
        BY <3>1, <3>2 DEF ToSet
      <3>4. \A i \in DOMAIN names : i <= PassiveRows => i \in 1 .. PassiveRows
        BY <1>1, ImkAssumption
      <3> QED
        BY <2>2, <3>1, <3>2, <3>3, <3>4 DEF ToSet
    <2> QED
      BY <2>1, <2>2
  <1> HIDE DEF shown, token
  <1>4. window \in CandidateWindow /\ window.of = con.list.of /\ window.names = shown
    BY <1>1, <1>2, <1>3 DEF CandidateWindow
  <1>5. Present(w, kind) = v
    BY DEF Present, shown, token
  <1> HIDE DEF window
  <1>6. [con EXCEPT !.listToken = token] \in Controller /\ [w.screen EXCEPT !.list = window] \in Screen
    BY <1>1, <1>2, <1>4 DEF Controller, Screen
  <1>7. /\ v \in WorldSet /\ v.controller = [con EXCEPT !.listToken = token]
        /\ v.screen = [w.screen EXCEPT !.list = window] /\ v.later = w.later
        /\ v.document = w.document /\ v.typed = w.typed /\ v.stranded = w.stranded
        /\ v.forgotten = w.forgotten /\ v.accepted = w.accepted
    BY <1>6 DEF WorldSet
  <1>8. /\ v.controller.raw = con.raw /\ v.controller.list = con.list /\ v.controller.owner = con.owner
        /\ v.controller.selected = con.selected /\ v.controller.browsing = con.browsing
        /\ v.controller.listToken = token /\ v.controller.ghostToken = con.ghostToken
        /\ v.controller.wanted = con.wanted
        /\ v.screen.list = window /\ v.screen.ghost = w.screen.ghost
    BY <1>1, <1>7 DEF Controller, Screen
  <1> HIDE DEF v
  <1>9. OnSurfaces(w, v)
    BY <1>7, <1>8 DEF OnSurfaces, SameText
  <1>10. ListOK(v)
    BY <1>3, <1>4, <1>7, <1>8 DEF ListOK
  <1>11. ListShown(v)
    BY <1>3, <1>4, <1>8, NoneIsNoValue DEF ListShown
  <1> QED
    BY <1>5, <1>7, <1>8, <1>9, <1>10, <1>11 DEF SurfacesOK

(* refreshCandidatePanel: whether the host gives the geometry or not, the     *)
(* list is on the screen or its token is revoked.                             *)
LEMMA RefreshSurfaces ==
  ASSUME NEW w0 \in WorldSet, ListOK(w0), NEW h \in Hosts
  PROVE  LET v == RefreshCandidatePanel(w0, h)
         IN OnSurfaces(w0, v) /\ SurfacesOK(v) /\ v.later = w0.later
  <1> DEFINE w == CheckGhost(w0, w0.controller.owner)
             anchored == [w EXCEPT !.controller.anchored = @ \/ h.geometry]
             unshown == [anchored EXCEPT !.screen.list = None, !.controller.listToken = None]
             r == RefreshCandidatePanel(w0, h)
  <1>1. OnSurfaces(w0, w) /\ ListOK(w) /\ w.later = w0.later
    BY CheckGhostSurfaces
  <1>2. \/ r = HideWindow(w)
        \/ r = Present(anchored, "custom") \/ r = Present(unshown, "system")
        \/ r = unshown
    BY DEF RefreshCandidatePanel
  <1> HIDE DEF w, r
  <1>3. w \in WorldSet /\ w.controller \in Controller /\ w.screen \in Screen
    BY <1>1, WorldTypes DEF OnSurfaces
  <1>4. OnSurfaces(w, anchored) /\ ListOK(anchored) /\ anchored.later = w.later
        /\ anchored.controller \in Controller /\ anchored.screen \in Screen
    <2>1. h.geometry \in BOOLEAN
      BY ImkAssumption DEF Host
    <2>2. [w.controller EXCEPT !.anchored = @ \/ h.geometry] \in Controller
      BY <1>3, <2>1 DEF Controller
    <2>3. /\ anchored \in WorldSet
          /\ anchored.controller = [w.controller EXCEPT !.anchored = @ \/ h.geometry]
          /\ anchored.screen = w.screen /\ anchored.later = w.later /\ anchored.document = w.document
          /\ anchored.typed = w.typed /\ anchored.stranded = w.stranded
          /\ anchored.forgotten = w.forgotten /\ anchored.accepted = w.accepted
      BY <1>3, <2>2 DEF WorldSet
    <2>4. /\ anchored.controller.raw = w.controller.raw /\ anchored.controller.list = w.controller.list
          /\ anchored.controller.owner = w.controller.owner
          /\ anchored.controller.selected = w.controller.selected
          /\ anchored.controller.ghostToken = w.controller.ghostToken
          /\ anchored.controller.wanted = w.controller.wanted
      BY <1>3, <2>3 DEF Controller
    <2> HIDE DEF anchored
    <2> QED
      BY <1>1, <1>3, <2>2, <2>3, <2>4 DEF OnSurfaces, SameText, ListOK
  <1> HIDE DEF anchored
  <1>5. OnSurfaces(w, unshown) /\ SurfacesOK(unshown) /\ unshown.later = w.later
    <2>1. /\ [anchored.controller EXCEPT !.listToken = None] \in Controller
          /\ [anchored.screen EXCEPT !.list = None] \in Screen
      BY <1>4 DEF Controller, Screen
    <2>2. /\ unshown \in WorldSet
          /\ unshown.controller = [anchored.controller EXCEPT !.listToken = None]
          /\ unshown.screen = [anchored.screen EXCEPT !.list = None] /\ unshown.later = anchored.later
          /\ unshown.document = anchored.document
          /\ unshown.typed = anchored.typed /\ unshown.stranded = anchored.stranded
          /\ unshown.forgotten = anchored.forgotten /\ unshown.accepted = anchored.accepted
      BY <1>4, <2>1 DEF OnSurfaces, WorldSet
    <2>3. /\ unshown.controller.raw = anchored.controller.raw
          /\ unshown.controller.list = anchored.controller.list
          /\ unshown.controller.owner = anchored.controller.owner
          /\ unshown.controller.selected = anchored.controller.selected
          /\ unshown.controller.ghostToken = anchored.controller.ghostToken
          /\ unshown.controller.wanted = anchored.controller.wanted
          /\ unshown.controller.listToken = None
          /\ unshown.screen.list = None /\ unshown.screen.ghost = anchored.screen.ghost
      BY <1>4, <2>2 DEF Controller, Screen
    <2> HIDE DEF unshown
    <2> QED
      BY <1>4, <2>2, <2>3 DEF OnSurfaces, SameText, ListOK, SurfacesOK
  <1> HIDE DEF unshown
  <1>6. OnSurfaces(w, r) /\ SurfacesOK(r) /\ r.later = w.later
    <2>1. CASE r = HideWindow(w)
      BY <1>1, <1>3, <2>1, HideWindowSurfaces
    <2>2. CASE r = Present(anchored, "custom")
      <3> DEFINE kind == "custom"
      <3>1. kind \in {"custom", "system"} /\ r = Present(anchored, kind)
        BY <2>2
      <3> HIDE DEF kind
      <3>2. OnSurfaces(anchored, r) /\ SurfacesOK(r) /\ r.later = anchored.later
        BY <1>4, <3>1, PresentSurfaces DEF OnSurfaces
      <3> QED
        BY <1>4, <3>2 DEF OnSurfaces, SameText
    <2>3. CASE r = Present(unshown, "system")
      <3> DEFINE kind == "system"
      <3>1. kind \in {"custom", "system"} /\ r = Present(unshown, kind)
        BY <2>3
      <3> HIDE DEF kind
      <3>2. OnSurfaces(unshown, r) /\ SurfacesOK(r) /\ r.later = unshown.later
        BY <1>5, <3>1, PresentSurfaces DEF OnSurfaces, SurfacesOK
      <3> QED
        BY <1>5, <3>2 DEF OnSurfaces, SameText
    <2>4. CASE r = unshown
      BY <1>5, <2>4
    <2> QED
      BY <1>2, <2>1, <2>2, <2>3, <2>4
  <1> QED
    BY <1>1, <1>6 DEF OnSurfaces, SameText, r

(* authorizeCurrentCandidate.                                                 *)
LEMMA AuthorizeSurfaces ==
  ASSUME NEW w0 \in WorldSet, NEW c \in Clients
  PROVE  LET v == Authorize(w0, c)
         IN /\ OnSurfaces(w0, v) /\ v.screen = w0.screen /\ v.later = w0.later
            /\ SurfacesOK(w0) => SurfacesOK(v)
            /\ ListOK(w0) => ListOK(v)
            /\ v.controller.browsing => v.controller.selected = w0.controller.selected
  <1> DEFINE w == CheckList(w0, c)
             receipt == Receipt(w, c, SelectedName(w))
             u == [w EXCEPT !.controller.receipt = receipt]
             v == Authorize(w0, c)
  <1>1. /\ OnSurfaces(w0, w) /\ w.screen = w0.screen /\ w.later = w0.later
        /\ SurfacesOK(w0) => SurfacesOK(w)
        /\ ListOK(w0) => ListOK(w)
        /\ w = w0 \/ w = Revoke(w0)
    BY CheckListSurfaces
  <1>2. (v = u /\ SelectedName(w) # None) \/ v = Revoke(w)
    BY DEF Authorize
  <1>3. w.controller.browsing => w.controller.selected = w0.controller.selected
    <2>1. Revoke(w0).controller.browsing = FALSE
      BY DEF Revoke, WorldSet, Controller
    <2> HIDE DEF w
    <2> QED
      BY <1>1, <2>1
  <1>4. w \in WorldSet /\ w.controller \in Controller /\ w.controller.raw \in Text
        /\ w.controller.list.names \in Seq(Name)
    BY <1>1 DEF OnSurfaces, WorldSet, Controller, CandidateState
  <1> HIDE DEF w, v
  <1>5. CASE v = u /\ SelectedName(w) # None
    <2>1. receipt \in AcceptanceReceipt
      BY <1>4, <1>5 DEF Receipt, SelectedName, AcceptanceReceipt
    <2> HIDE DEF receipt
    <2>2. [w.controller EXCEPT !.receipt = receipt] \in Controller
      BY <1>4, <2>1 DEF Controller
    <2>3. /\ u \in WorldSet /\ u.controller = [w.controller EXCEPT !.receipt = receipt]
          /\ u.screen = w.screen /\ u.later = w.later /\ u.document = w.document
          /\ u.typed = w.typed /\ u.stranded = w.stranded /\ u.forgotten = w.forgotten
          /\ u.accepted = w.accepted
      BY <1>4, <2>2 DEF WorldSet
    <2>4. /\ u.controller.raw = w.controller.raw /\ u.controller.list = w.controller.list
          /\ u.controller.owner = w.controller.owner
          /\ u.controller.selected = w.controller.selected
          /\ u.controller.browsing = w.controller.browsing
          /\ u.controller.listToken = w.controller.listToken
          /\ u.controller.ghostToken = w.controller.ghostToken
          /\ u.controller.wanted = w.controller.wanted
      BY <1>4, <2>3 DEF Controller
    <2> HIDE DEF u
    <2>5. OnSurfaces(w0, u)
      BY <1>1, <2>3, <2>4 DEF OnSurfaces, SameText
    <2>6. (ListOK(w) => ListOK(u)) /\ (SurfacesOK(w) => SurfacesOK(u))
      BY <2>3, <2>4 DEF ListOK, SurfacesOK, ListShown
    <2> QED
      BY <1>1, <1>3, <1>5, <2>3, <2>4, <2>5, <2>6 DEF v
  <1>6. CASE v = Revoke(w)
    <2>1. Revoke(w).controller.browsing = FALSE
      BY <1>4 DEF Revoke, WorldSet, Controller
    <2>2. /\ OnSurfaces(w, v) /\ (ListOK(w) => SurfacesOK(v)) /\ v.screen = w.screen
          /\ v.later = w.later
      BY <1>4, <1>6, RevokeSurfaces
    <2> QED
      BY <1>1, <1>6, <2>1, <2>2 DEF OnSurfaces, SameText, SurfacesOK, v
  <1> QED
    BY <1>2, <1>5, <1>6

------------------------------------------------------------------------------
(* The actions.  What a handler leaves behind is the next state.              *)
LEMMA WorldGood ==
  ASSUME IInv
  PROVE  /\ Good(World, keys) /\ World \in WorldSet /\ World.accepted = None
         /\ keys \in Nat /\ keys \in 0 .. MaxKeys
         /\ World.controller = controller /\ World.screen = screen /\ World.later = later
         /\ World.document = document /\ World.typed = typed /\ World.stranded = stranded
         /\ World.forgotten = forgotten
  <1>1. World \in WorldSet
    BY DEF IInv, TypeOK, World, WorldSet
  <1>2. keys \in Nat /\ keys \in 0 .. MaxKeys
    BY ImkAssumption DEF IInv, TypeOK
  <1>3. /\ World.accepted = None
        /\ World.controller = controller /\ World.screen = screen /\ World.later = later
        /\ World.document = document /\ World.typed = typed /\ World.stranded = stranded
        /\ World.forgotten = forgotten
    BY DEF World
  <1> QED
    BY <1>1, <1>2, <1>3 DEF IInv, Good

(* A step keeps the invariant, and inserts only what the user sees.           *)
Step == IInv' /\ (accepted' \notin {None, accepted} => Inserted(World, accepted'))

(* What else changes keeps its type.                                          *)
Around ==
  /\ secure' \in BOOLEAN /\ focus' \in Clients /\ late' \subseteq Clients
  /\ menu' \in Name \cup {None} /\ keys' \in 0 .. MaxKeys

LEMMA BecomeStep ==
  ASSUME Around, NEW v, Become(v), StepOK(World, v, keys')
  PROVE  Step
  <1>1. /\ v \in WorldSet /\ SurfacesOK(v) /\ OwnerOK(v) /\ KeysOK(v, keys')
        /\ (v.accepted # None => Inserted(World, v.accepted))
    BY DEF StepOK, Good
  <1>2. /\ controller' = v.controller /\ screen' = v.screen /\ later' = v.later
        /\ document' = v.document /\ typed' = v.typed /\ stranded' = v.stranded
        /\ forgotten' = v.forgotten /\ accepted' = v.accepted
    BY DEF Become
  <1>3. TypeOK'
    BY <1>1, <1>2 DEF TypeOK, Around, WorldSet, OwnerOK, SurfacesOK, ListOK
  <1>4. /\ World'.controller = v.controller /\ World'.screen = v.screen /\ World'.later = v.later
        /\ World'.document = v.document /\ World'.typed = v.typed /\ World'.stranded = v.stranded
        /\ World'.forgotten = v.forgotten
    BY <1>2 DEF World
  <1> DEFINE u == World'
  <1>5. /\ u.controller = v.controller /\ u.screen = v.screen /\ u.later = v.later
        /\ u.document = v.document /\ u.typed = v.typed /\ u.stranded = v.stranded
        /\ u.forgotten = v.forgotten
    BY <1>4
  <1> HIDE DEF u
  <1>6. SurfacesOK(u) /\ OwnerOK(u) /\ KeysOK(u, keys')
    BY <1>1, <1>5 DEF SurfacesOK, ListOK, ListShown, OwnerOK, KeysOK
  <1>7. IInv'
    BY <1>3, <1>6 DEF IInv, u
  <1> QED
    BY <1>1, <1>2, <1>7 DEF Step

(* What is not accepted was not inserted.                                     *)
LEMMA PlainStep ==
  ASSUME Around, NEW v, Become(v), Good(v, keys'), v.accepted = None
  PROVE  Step
  BY BecomeStep DEF StepOK

LEMMA FromClientAround ==
  ASSUME IInv, NEW c \in Clients, FromClient(c), keys' \in 0 .. MaxKeys
  PROVE  Around
  BY DEF IInv, TypeOK, FromClient, Around

(* A key that writes is the next one.                                         *)
LEMMA WritesKey ==
  ASSUME IInv, Writes
  PROVE  keys \in Nat /\ keys < MaxKeys /\ keys' = keys + 1 /\ keys' \in 0 .. MaxKeys /\ NextKey = keys + 1
  BY ImkAssumption DEF IInv, TypeOK, Writes, NextKey

(* The keys that edit a composition find it owned by their sender.            *)
LEMMA EditedWorld ==
  ASSUME IInv, NEW c \in Clients, EditComposition(c), keys' \in 0 .. MaxKeys
  PROVE  /\ Around /\ Good(World, keys) /\ World \in WorldSet /\ World.accepted = None /\ keys \in Nat
         /\ World.controller.raw # <<>> /\ World.controller.owner = c
         /\ World.controller = controller
  <1>1. Composing(Ready(c)) /\ FromClient(c)
    BY DEF EditComposition
  <1>2. Ready(c) = World /\ World.controller.owner = c
    BY <1>1, WorldGood, PrepareGood DEF Ready
  <1> QED
    BY <1>1, <1>2, WorldGood, FromClientAround DEF Composing

LEMMA PassKeyStep == ASSUME IInv, NEW c \in Clients, PassKey(c) PROVE Step
  <1>1. /\ Good(World, keys) /\ World.accepted = None /\ keys \in Nat /\ keys' = keys
        /\ keys' \in 0 .. MaxKeys
    BY WorldGood DEF PassKey
  <1>2. Around
    BY <1>1, FromClientAround DEF PassKey
  <1>3. CASE secure
    <2> DEFINE v == ClearForSecure(World, c)
    <2>1. Become(v)
      BY <1>3 DEF PassKey
    <2>2. Good(v, keys') /\ v.accepted = None
      BY <1>1, ClearForSecureGood
    <2> HIDE DEF v
    <2> QED
      BY <1>2, <2>1, <2>2, PlainStep
  <1>4. CASE ~secure
    <2> DEFINE v == Ready(c)
    <2>1. Become(v)
      BY <1>4 DEF PassKey
    <2>2. Good(v, keys') /\ v.accepted = None
      BY <1>1, PrepareGood DEF Ready
    <2> HIDE DEF v
    <2> QED
      BY <1>2, <2>1, <2>2, PlainStep
  <1> QED
    BY <1>3, <1>4

(* The next key goes to the end of the marked text.                           *)
LEMMA MarkingKey ==
  ASSUME NEW w, NEW n \in Nat, n < MaxKeys, Good(w, n), NEW c \in Clients,
         Composing(w) => w.controller.owner = c
  PROVE  LET u == Typed(CheckList(w, c), c, n + 1)
         IN Marking(u, c, Append(w.controller.raw, n + 1), n + 1) /\ u.accepted = w.accepted
  <1> DEFINE l == CheckList(w, c)
             u == Typed(l, c, n + 1)
             raw == Append(w.controller.raw, n + 1)
             key == <<n + 1>>
             doc == Marked(w.document[c], raw)
             bare == [text |-> w.document[c].text, marked |-> <<>>]
             D == [w.document EXCEPT ![c] = bare]
  <1>1. /\ w \in WorldSet /\ OwnerOK(w) /\ KeysFit(w.document, w.typed, w.stranded, n)
        /\ n + 1 \in 1 .. MaxKeys
    BY ImkAssumption DEF Good, KeysOK
  <1>2. /\ w.document \in [Clients -> Document] /\ w.typed \in [Clients -> SUBSET (1 .. MaxKeys)]
        /\ w.document[c].text \in Text /\ w.document[c].text \in Seq(Nat)
        /\ w.document[c].marked \in Seq(Nat)
        /\ w.controller.raw \in Text /\ w.controller.raw \in Seq(Nat)
    BY <1>1, WorldTypes, TextFacts
  <1>3. raw \in Text /\ key \in Seq(Nat) /\ raw = w.controller.raw \o key
    BY <1>1, <1>2 DEF Text
  <1>4. OnSurfaces(w, l)
    BY <1>1, CheckListSurfaces
  <1> HIDE DEF l
  <1>5. /\ u \in WorldSet /\ u.document = w.document /\ u.stranded = w.stranded
        /\ u.accepted = w.accepted /\ u.typed = [w.typed EXCEPT ![c] = @ \cup {n + 1}]
    BY <1>1, <1>4, TypedWorld DEF OnSurfaces, SameText
  <1>6. \A d \in Clients \ {c} : ToSet(u.document[d].marked) \subseteq u.stranded
    BY <1>1, <1>5 DEF OwnerOK, Composing
  <1> HIDE DEF u, raw, key
  <1>7. doc.text = w.document[c].text /\ doc.marked = raw
    BY DEF Marked
  <1>8. KeysFit([w.document EXCEPT ![c] = doc], [w.typed EXCEPT ![c] = @ \cup {n + 1}],
                w.stranded, n + 1)
    <2>1. CASE Composing(w)
      <3>1. w.document[c].marked = w.controller.raw
        BY <1>1, <2>1 DEF OwnerOK, Composing
      <3> HIDE DEF doc
      <3>2. doc.text \o doc.marked = (w.document[c].text \o w.document[c].marked) \o key
        <4> DEFINE s == w.document[c].text
                   m == w.document[c].marked
        <4>1. s \in Seq(Nat) /\ m \in Seq(Nat) /\ raw = m \o key /\ doc.text = s /\ doc.marked = raw
          BY <1>2, <1>3, <1>7, <3>1
        <4> HIDE DEF s, m
        <4>2. s \o (m \o key) = (s \o m) \o key
          BY <1>3, <4>1, ConcatAssociates
        <4>3. doc.text \o doc.marked = s \o (m \o key)
          BY <4>1, Zenon
        <4> QED
          BY <4>2, <4>3 DEF s, m
      <3> QED
        BY <1>1, <1>2, <3>2, FitAppended DEF key
    <2>2. CASE ~Composing(w)
      <3>1. ToSet(w.document[c].marked) \subseteq w.stranded /\ w.controller.raw = <<>>
        BY <1>1, <2>2 DEF OwnerOK, Composing
      <3>2. bare.text \o bare.marked = w.document[c].text /\ bare \in Document
        BY <1>2, NoText, ConcatEmptySeq DEF Document
      <3>3. D[c].text = w.document[c].text /\ D[c].marked = <<>>
        BY <1>2
      <3>4. [w.document EXCEPT ![c] = doc] = [D EXCEPT ![c] = doc]
        BY <1>2
      <3> HIDE DEF bare, doc
      <3>5. KeysFit(D, w.typed, w.stranded, n) /\ D \in [Clients -> Document]
        BY <1>1, <1>2, <3>1, <3>2, FitReplaced
      <3> HIDE DEF D
      <3>6. raw = key
        BY <1>2, <1>3, <3>1, ConcatEmptySeq
      <3>7. doc.text \o doc.marked = (D[c].text \o D[c].marked) \o key
        BY <1>2, <1>3, <1>7, <3>3, <3>6, ConcatEmptySeq
      <3>8. KeysFit([D EXCEPT ![c] = doc], [w.typed EXCEPT ![c] = @ \cup {n + 1}],
                    w.stranded, n + 1)
        BY <1>2, <3>5, <3>7, FitAppended DEF key
      <3> QED
        BY <3>4, <3>8
    <2> QED
      BY <2>1, <2>2
  <1> QED
    BY <1>3, <1>5, <1>6, <1>8 DEF Marking, u, raw, l

(* The last key goes.                                                         *)
LEMMA MarkingBack ==
  ASSUME NEW w, NEW n \in Nat, Good(w, n), NEW c \in Clients,
         w.controller.raw # <<>>, w.controller.owner = c
  PROVE  LET raw == w.controller.raw
             u == [CheckList(w, c) EXCEPT !.typed[c] = @ \ {Last(raw)}]
         IN /\ Marking(u, c, Front(raw), n) /\ u.accepted = w.accepted
            /\ Len(Front(raw)) <= MaxComposition
  <1> DEFINE raw == w.controller.raw
             front == Front(raw)
             gone == <<Last(raw)>>
             l == CheckList(w, c)
             u == [l EXCEPT !.typed[c] = @ \ {Last(raw)}]
             doc == Marked(w.document[c], front)
             kept == w.document[c].text \o front
  <1>1. /\ w \in WorldSet /\ OwnerOK(w) /\ KeysFit(w.document, w.typed, w.stranded, n)
    BY DEF Good, KeysOK
  <1>2. /\ w.document \in [Clients -> Document] /\ w.typed \in [Clients -> SUBSET (1 .. MaxKeys)]
        /\ w.document[c].text \in Text /\ w.document[c].text \in Seq(Nat)
        /\ raw \in Text /\ raw \in Seq(Nat) /\ raw # <<>> /\ w.document[c].marked = raw
        /\ Len(raw) <= MaxComposition
    BY <1>1, WorldTypes, TextFacts DEF OwnerOK
  <1> HIDE DEF raw
  <1>3. /\ front \in Text /\ front \in Seq(Nat) /\ Last(raw) \in Nat /\ gone \in Seq(Nat)
        /\ Len(front) <= MaxComposition
    <2>1. Len(raw) \in Nat \ {0} /\ Last(raw) \in Nat
      BY <1>2 DEF Last
    <2> DEFINE top == Len(raw) - 1
    <2>2. front = SubSeq(raw, 1, top)
      BY DEF Front
    <2> HIDE DEF front
    <2>3. \A i \in DOMAIN raw : raw[i] \in Nat /\ raw[i] \in 1 .. MaxKeys
      BY <1>2, ImkAssumption DEF Text
    <2>4. DOMAIN raw = 1 .. Len(raw)
      BY <1>2
    <2>7. /\ top \in Int /\ 1 \in Int /\ (1 <= top => top - 1 + 1 = top) /\ (~(1 <= top) => top = 0)
          /\ \A i \in 1 .. top : raw[i] \in Nat /\ raw[i] \in 1 .. MaxKeys
      BY <2>1, <2>3, <2>4
    <2> HIDE DEF top
    <2>5. front \in Seq(Nat) /\ Len(front) = top
      BY <2>2, <2>7, SubSeqProperties
    <2>6. front \in Seq(1 .. MaxKeys)
      BY <2>2, <2>7, SubSeqProperties
    <2>8. gone \in Seq(Nat)
      BY <2>1
    <2> HIDE DEF front, gone
    <2> QED
      BY <1>2, <2>1, <2>5, <2>6, <2>8, ImkAssumption DEF top, Text
  <1>4. raw = front \o gone
    BY <1>2 DEF Front, Last
  <1>5. OnSurfaces(w, l)
    BY <1>1, CheckListSurfaces
  <1> HIDE DEF l
  <1>6. /\ u \in WorldSet /\ u.document = w.document /\ u.stranded = w.stranded
        /\ u.accepted = w.accepted /\ u.typed = [w.typed EXCEPT ![c] = @ \ {Last(raw)}]
    BY <1>5 DEF OnSurfaces, SameText, WorldSet
  <1>7. \A d \in Clients \ {c} : ToSet(u.document[d].marked) \subseteq u.stranded
    BY <1>1, <1>6 DEF OwnerOK, raw
  <1>8. ToSet(gone) = {Last(raw)}
    BY ToSetOne
  <1> HIDE DEF u, front, gone
  <1>9. doc.text = w.document[c].text /\ doc.marked = front
    BY DEF Marked
  <1> HIDE DEF doc
  <1>10. /\ kept \in Seq(Nat) /\ doc.text \o doc.marked = kept
         /\ w.document[c].text \o w.document[c].marked = kept \o gone
    <2> DEFINE s == w.document[c].text
               m == w.document[c].marked
    <2>1. s \in Seq(Nat) /\ m = front \o gone /\ doc.text = s /\ doc.marked = front /\ kept = s \o front
      BY <1>2, <1>4, <1>9
    <2> HIDE DEF s, m, kept
    <2>2. s \o (front \o gone) = (s \o front) \o gone
      BY <1>3, <2>1, ConcatAssociates
    <2>3. s \o m = s \o (front \o gone) /\ doc.text \o doc.marked = kept
      BY <2>1, Zenon
    <2>4. kept \in Seq(Nat)
      BY <1>3, <2>1
    <2> QED
      BY <2>1, <2>2, <2>3, <2>4 DEF s, m
  <1> HIDE DEF kept
  <1>11. KeysFit([w.document EXCEPT ![c] = doc], [w.typed EXCEPT ![c] = @ \ ToSet(gone)],
                 w.stranded, n)
    BY <1>1, <1>2, <1>3, <1>10, FitDeleted
  <1> QED
    BY <1>3, <1>6, <1>7, <1>8, <1>11 DEF Marking, u, raw, l, front, doc

LEMMA TypeLetterStep == ASSUME IInv, NEW c \in Clients, TypeLetter(c) PROVE Step
  <1>1. PICK d \in Decision :
          LET w == Ready(c)
              raw == Append(w.controller.raw, NextKey)
          IN Become(IF Len(raw) > MaxComposition
                    THEN HostTypes(CommitRaw(w, c, <<>>), c, NextKey)
                    ELSE Mark(Typed(CheckList(w, c), c, NextKey), c, raw, d))
    BY DEF TypeLetter
  <1>2. /\ keys \in Nat /\ keys < MaxKeys /\ keys' = keys + 1 /\ NextKey = keys + 1 /\ keys' \in Nat
        /\ keys' \in 0 .. MaxKeys
    BY WritesKey DEF TypeLetter
  <1>3. Around
    BY <1>2, FromClientAround DEF TypeLetter
  <1> DEFINE w == Ready(c)
             raw == Append(w.controller.raw, NextKey)
             u == Typed(CheckList(w, c), c, NextKey)
             r == CommitRaw(w, c, <<>>)
             whole == HostTypes(r, c, NextKey)
             marked == Mark(u, c, raw, d)
  <1>4. /\ Good(w, keys) /\ w.accepted = None /\ w.controller.raw \in Seq(Nat)
        /\ Composing(w) => w.controller.owner = c
    BY <1>2, WorldGood, PrepareGood, WorldTypes DEF Ready, Good
  <1> HIDE DEF w
  <1>5. CASE Len(raw) > MaxComposition
    <2>1. Become(whole)
      BY <1>1, <1>5 DEF w
    <2>2. Good(r, keys) /\ ~Composing(r) /\ r.accepted = None
      BY <1>2, <1>4, CommitRawGood
    <2> HIDE DEF r
    <2>3. Good(whole, keys') /\ whole.accepted = None
      BY <1>2, <2>2, HostTypesGood
    <2> HIDE DEF whole
    <2> QED
      BY <1>3, <2>1, <2>3, PlainStep
  <1>6. CASE ~(Len(raw) > MaxComposition)
    <2>1. Become(marked)
      BY <1>1, <1>6 DEF w
    <2>2. Marking(u, c, raw, keys') /\ u.accepted = None
      BY <1>2, <1>4, MarkingKey
    <2>3. raw # <<>> /\ Len(raw) <= MaxComposition
      BY <1>4, <1>6, ImkAssumption
    <2> HIDE DEF u, raw
    <2>4. Good(marked, keys') /\ marked.accepted = None
      BY <1>2, <2>2, <2>3, MarkGood
    <2> HIDE DEF marked
    <2> QED
      BY <1>3, <2>1, <2>4, PlainStep
  <1> QED
    BY <1>5, <1>6

LEMMA TypeDelimiterStep == ASSUME IInv, NEW c \in Clients, TypeDelimiter(c) PROVE Step
  <1>1. /\ keys \in Nat /\ keys < MaxKeys /\ keys' = keys + 1 /\ NextKey = keys + 1 /\ keys' \in Nat
        /\ keys' \in 0 .. MaxKeys
    BY WritesKey DEF TypeDelimiter
  <1>2. Around
    BY <1>1, FromClientAround DEF TypeDelimiter
  <1> DEFINE w == Ready(c)
             key == <<NextKey>>
             u == Typed(w, c, NextKey)
             accepts == AcceptOrRaw(u, c, key)
             passes == HostTypes(w, c, NextKey)
  <1>3. /\ Good(w, keys) /\ w.accepted = None
        /\ Composing(w) => w = World /\ w.controller.owner = c
    BY <1>1, WorldGood, PrepareGood DEF Ready
  <1>4. Become(IF Composing(w) THEN accepts ELSE passes)
    BY DEF TypeDelimiter
  <1> HIDE DEF w
  <1>5. CASE Composing(w)
    <2>1. Due(u, keys', c, key)
      BY <1>1, <1>3, <1>5, DueKey DEF Composing
    <2>2. SurfacesOK(u) /\ u.accepted = None /\ u.screen = World.screen /\ u.document = World.document
      <3>1. w \in WorldSet /\ SurfacesOK(w) /\ NextKey \in 1 .. MaxKeys
        BY <1>1, <1>3, ImkAssumption DEF Good
      <3>2. /\ u.controller = w.controller /\ u.screen = w.screen
            /\ u.later = w.later /\ u.document = w.document
            /\ u.forgotten = w.forgotten /\ u.accepted = w.accepted
        BY <3>1, TypedWorld
      <3> HIDE DEF u
      <3> QED
        BY <1>3, <1>5, <3>1, <3>2 DEF SurfacesOK, ListOK, ListShown
    <2> HIDE DEF u, key
    <2>3. StepOK(World, accepts, keys')
      <3>1. StepOK(u, accepts, keys')
        BY <1>1, <2>1, <2>2, AcceptOrRawGood
      <3> HIDE DEF accepts
      <3> QED
        BY <2>2, <3>1, StepFrom
    <2> HIDE DEF accepts
    <2> QED
      BY <1>2, <1>4, <1>5, <2>3, BecomeStep
  <1>6. CASE ~Composing(w)
    <2>1. Good(passes, keys') /\ passes.accepted = None
      BY <1>1, <1>3, <1>6, HostTypesGood
    <2> HIDE DEF passes
    <2> QED
      BY <1>2, <1>4, <1>6, <2>1, PlainStep
  <1> QED
    BY <1>5, <1>6

LEMMA BackspaceStep == ASSUME IInv, NEW c \in Clients, Backspace(c) PROVE Step
  <1>1. keys' = keys /\ EditComposition(c) /\ keys' \in 0 .. MaxKeys
    BY WorldGood DEF Backspace
  <1>2. /\ Around /\ Good(World, keys) /\ World.accepted = None /\ keys \in Nat
        /\ World.controller.raw # <<>> /\ World.controller.owner = c /\ World.controller = controller
    BY <1>1, EditedWorld
  <1> DEFINE raw == Front(controller.raw)
             u == [CheckList(World, c) EXCEPT !.typed[c] = @ \ {Last(controller.raw)}]
  <1>3. PICK d \in Decision : Become(IF raw = <<>> THEN CancelLocal(u, c) ELSE Mark(u, c, raw, d))
    BY DEF Backspace
  <1>4. Marking(u, c, raw, keys') /\ u.accepted = None /\ Len(raw) <= MaxComposition
    BY <1>1, <1>2, MarkingBack
  <1> DEFINE cancelled == CancelLocal(u, c)
             marked == Mark(u, c, raw, d)
  <1> HIDE DEF u, raw
  <1>5. CASE raw = <<>>
    <2>1. Good(cancelled, keys') /\ cancelled.accepted = None
      BY <1>1, <1>2, <1>4, <1>5, CancelLocalGood
    <2> HIDE DEF cancelled
    <2> QED
      BY <1>2, <1>3, <1>5, <2>1, PlainStep DEF cancelled
  <1>6. CASE raw # <<>>
    <2>1. Good(marked, keys') /\ marked.accepted = None
      BY <1>1, <1>2, <1>4, <1>6, MarkGood
    <2>2. Become(marked)
      BY <1>3, <1>6
    <2> HIDE DEF marked
    <2> QED
      BY <1>2, <2>1, <2>2, PlainStep
  <1> QED
    BY <1>5, <1>6

LEMMA TabStep == ASSUME IInv, NEW c \in Clients, Tab(c) PROVE Step
  <1>1. keys' = keys /\ EditComposition(c) /\ keys' \in 0 .. MaxKeys
    BY WorldGood DEF Tab
  <1>2. /\ Around /\ Good(World, keys) /\ World.accepted = None /\ keys \in Nat
        /\ World.controller.raw # <<>> /\ World.controller.owner = c
    BY <1>1, EditedWorld
  <1> DEFINE nothing == <<>>
             other == AcceptOrRaw(World, c, nothing)
             v == AcceptGhostOr(World, c, other)
  <1>3. Become(v)
    BY DEF Tab
  <1>4. Due(World, keys, c, nothing) /\ SurfacesOK(World)
    BY <1>2, DueNothing DEF Good
  <1> HIDE DEF nothing
  <1>5. StepOK(World, other, keys)
    BY <1>2, <1>4, AcceptOrRawGood
  <1> HIDE DEF other
  <1>6. StepOK(World, v, keys)
    BY <1>2, <1>5, GhostGood
  <1> HIDE DEF v
  <1> QED
    BY <1>1, <1>2, <1>3, <1>6, BecomeStep

LEMMA ArrowRightStep == ASSUME IInv, NEW c \in Clients, ArrowRight(c) PROVE Step
  <1>1. keys' = keys /\ EditComposition(c) /\ keys' \in 0 .. MaxKeys
    BY WorldGood DEF ArrowRight
  <1>2. /\ Around /\ Good(World, keys) /\ World.accepted = None /\ keys \in Nat
        /\ World.controller.raw # <<>> /\ World.controller.owner = c
    BY <1>1, EditedWorld
  <1> DEFINE other == CommitRaw(World, c, <<>>)
             v == AcceptGhostOr(World, c, other)
  <1>3. Become(v)
    BY DEF ArrowRight
  <1>4. Good(other, keys) /\ other.accepted = None
    BY <1>2, CommitRawGood
  <1> HIDE DEF other
  <1>5. StepOK(World, other, keys)
    BY <1>4 DEF StepOK
  <1>6. StepOK(World, v, keys)
    BY <1>2, <1>5, GhostGood
  <1> HIDE DEF v
  <1> QED
    BY <1>1, <1>2, <1>3, <1>6, BecomeStep

LEMMA FinishRawStep == ASSUME IInv, NEW c \in Clients, FinishRaw(c) PROVE Step
  <1>1. keys' = keys /\ EditComposition(c) /\ keys' \in 0 .. MaxKeys
    BY WorldGood DEF FinishRaw
  <1>2. Around /\ Good(World, keys) /\ World.accepted = None /\ keys \in Nat
    BY <1>1, EditedWorld
  <1> DEFINE v == CommitRaw(World, c, <<>>)
  <1>3. Become(v)
    BY DEF FinishRaw
  <1>4. Good(v, keys') /\ v.accepted = None
    BY <1>1, <1>2, CommitRawGood
  <1> HIDE DEF v
  <1> QED
    BY <1>2, <1>3, <1>4, PlainStep

(* hideCandidates keeps the composition.                                      *)
LEMMA HideCandidatesGood ==
  ASSUME NEW w, NEW n, Good(w, n)
  PROVE  LET v == HideCandidates(w)
         IN /\ Good(v, n) /\ v.accepted = w.accepted
            /\ v.controller.raw = w.controller.raw /\ v.controller.owner = w.controller.owner
  <1> DEFINE v == HideCandidates(w)
  <1>1. w \in WorldSet /\ ListOK(w)
    BY DEF Good, SurfacesOK
  <1>2. OnSurfaces(w, v) /\ Hidden(v)
    BY <1>1, HideCandidatesSurfaces
  <1> HIDE DEF v
  <1>3. Len(w.controller.list.names) \in Nat
    BY <1>1 DEF WorldSet, Controller, CandidateState
  <1>4. SurfacesOK(v)
    BY <1>1, <1>2, <1>3 DEF SurfacesOK, ListOK, OnSurfaces, SameText, Hidden
  <1>5. Good(v, n) /\ v.accepted = w.accepted
    BY <1>2, <1>4, SurfacesGood
  <1> QED
    BY <1>2, <1>5 DEF OnSurfaces, SameText, v

LEMMA CommitCompositionGood ==
  ASSUME NEW w, NEW n \in Nat, Good(w, n), NEW c \in Clients
  PROVE  LET v == CommitComposition(w, c) IN Good(v, n) /\ v.accepted = w.accepted
  <1>1. CASE secure
    BY <1>1, ClearForSecureGood DEF CommitComposition
  <1>2. CASE ~secure
    BY <1>2, CommitRawGood DEF CommitComposition
  <1> QED
    BY <1>1, <1>2

LEMMA DeactivateServerGood ==
  ASSUME NEW w0, NEW n \in Nat, Good(w0, n), NEW c \in Clients
  PROVE  LET v == DeactivateServer(w0, c) IN Good(v, n) /\ v.accepted = w0.accepted
  <1> DEFINE w == HideCandidates(w0)
             v == DeactivateServer(w0, c)
             u == [w EXCEPT !.controller.raw = <<>>, !.controller.owner = None]
  <1>1. Good(w, n) /\ w.accepted = w0.accepted
    BY HideCandidatesGood
  <1>2. \/ v = ClearForSecure(w, c)
        \/ v = CommitRaw(w, w.controller.owner, <<>>) /\ w.controller.owner # None
        \/ v = u /\ ~(Composing(w) /\ w.controller.owner # None)
    BY DEF DeactivateServer
  <1> HIDE DEF w, v
  <1>3. w \in WorldSet /\ OwnerOK(w) /\ w.controller \in Controller
        /\ w.controller.owner \in Clients \cup {None}
    BY <1>1, WorldTypes DEF Good
  <1>4. CASE v = ClearForSecure(w, c)
    BY <1>1, <1>4, ClearForSecureGood DEF v
  <1>5. CASE v = CommitRaw(w, w.controller.owner, <<>>) /\ w.controller.owner # None
    <2> DEFINE d == w.controller.owner
    <2>1. d \in Clients
      BY <1>3, <1>5
    <2>2. v = CommitRaw(w, d, <<>>)
      BY <1>5
    <2> HIDE DEF d
    <2> QED
      BY <1>1, <2>1, <2>2, CommitRawGood DEF v
  <1>6. CASE v = u /\ ~(Composing(w) /\ w.controller.owner # None)
    <2>1. w.controller.raw = <<>> /\ <<>> \in Text
      BY <1>3, <1>6, NoText DEF OwnerOK, Composing
    <2> DEFINE empty == <<>>
               con == w.controller
    <2>5. u = [w EXCEPT !.controller.raw = empty, !.controller.owner = None] /\ con.raw = empty
          /\ empty \in Text /\ con \in Controller
      BY <1>3, <2>1
    <2> HIDE DEF empty, u
    <2>2. /\ u \in WorldSet /\ u.controller = [con EXCEPT !.raw = empty, !.owner = None]
          /\ u.screen = w.screen /\ u.later = w.later /\ u.document = w.document
          /\ u.typed = w.typed /\ u.stranded = w.stranded /\ u.forgotten = w.forgotten
          /\ u.accepted = w.accepted
      <3>1. [con EXCEPT !.raw = empty, !.owner = None] \in Controller
        BY <2>5 DEF Controller
      <3> QED
        BY <1>3, <2>5, <3>1 DEF WorldSet
    <2>3. /\ u.controller.raw = w.controller.raw /\ u.controller.list = w.controller.list
          /\ u.controller.selected = w.controller.selected
          /\ u.controller.browsing = w.controller.browsing
          /\ u.controller.listToken = w.controller.listToken
          /\ u.controller.ghostToken = w.controller.ghostToken
          /\ u.controller.wanted = w.controller.wanted
      <3> HIDE DEF con
      <3>1. /\ u.controller.raw = con.raw /\ u.controller.list = con.list
            /\ u.controller.selected = con.selected /\ u.controller.browsing = con.browsing
            /\ u.controller.listToken = con.listToken /\ u.controller.ghostToken = con.ghostToken
            /\ u.controller.wanted = con.wanted
        BY <2>2, <2>5 DEF Controller
      <3> QED
        BY <3>1 DEF con
    <2>4. SurfacesOK(u) /\ OwnerOK(u) /\ KeysOK(u, n)
      BY <1>1, <2>1, <2>2, <2>3 DEF Good, SurfacesOK, ListOK, ListShown, OwnerOK, KeysOK
    <2> QED
      BY <1>1, <1>6, <2>2, <2>4 DEF Good, v
  <1> QED
    BY <1>2, <1>4, <1>5, <1>6

LEMMA LateCommitStep == ASSUME IInv, NEW c \in Clients, LateCommit(c) PROVE Step
  <1> DEFINE v == CommitComposition(World, c)
  <1>1. Around /\ Become(v) /\ keys' = keys
    BY WorldGood DEF LateCommit, IInv, TypeOK, Around
  <1>2. Good(v, keys') /\ v.accepted = None
    BY <1>1, WorldGood, CommitCompositionGood
  <1> HIDE DEF v
  <1> QED
    BY <1>1, <1>2, PlainStep

LEMMA MoveFocusStep ==
  ASSUME IInv, NEW c \in Clients, NEW told, MoveFocus(c, told)
  PROVE  Step
  <1> DEFINE left == DeactivateServer(World, focus)
             entered == ActivateServer(left, c)
  <1>1. /\ Around /\ keys' = keys /\ focus \in Clients
        /\ Become(entered) \/ Become(World)
    BY WorldGood DEF MoveFocus, IInv, TypeOK, Around
  <1>2. Good(World, keys') /\ World.accepted = None /\ keys' \in Nat
    BY <1>1, WorldGood
  <1>3. Good(entered, keys') /\ entered.accepted = None
    <2>1. Good(left, keys') /\ left.accepted = None
      BY <1>1, <1>2, DeactivateServerGood
    <2> HIDE DEF left
    <2>2. entered = left \/ entered = ClearForSecure(left, c)
      BY DEF ActivateServer
    <2> QED
      BY <1>2, <2>1, <2>2, ClearForSecureGood
  <1> HIDE DEF entered
  <1> QED
    BY <1>1, <1>2, <1>3, PlainStep

LEMMA FinishOwnerStep == ASSUME IInv, FinishOwner PROVE Step
  <1> DEFINE c == controller.owner
             v == IF secure THEN ClearForSecure(World, c) ELSE CommitRaw(World, c, <<>>)
  <1>1. Around /\ Become(v) /\ keys' = keys /\ c \in Clients
    BY WorldGood DEF FinishOwner, IInv, TypeOK, Controller, Around
  <1> HIDE DEF c
  <1>2. Good(v, keys') /\ v.accepted = None
    <2>1. CASE secure
      BY <1>1, <2>1, WorldGood, ClearForSecureGood
    <2>2. CASE ~secure
      BY <1>1, <2>2, WorldGood, CommitRawGood
    <2> QED
      BY <2>1, <2>2
  <1> HIDE DEF v
  <1> QED
    BY <1>1, <1>2, PlainStep

LEMMA OutdatedDueStep == ASSUME IInv, OutdatedDue PROVE Step
  <1> DEFINE v == ClearForSecure(World, controller.owner)
  <1>1. Around /\ Become(v) /\ keys' = keys
    BY WorldGood DEF OutdatedDue, IInv, TypeOK, Around
  <1>2. Good(v, keys') /\ v.accepted = None
    BY <1>1, WorldGood, ClearForSecureGood
  <1> HIDE DEF v
  <1> QED
    BY <1>1, <1>2, PlainStep

(* A step that touches neither the composition nor the texts.                 *)
LEMMA KeptStep ==
  ASSUME IInv, Around, UNCHANGED <<controller, document, keys, typed, stranded, forgotten, accepted>>,
         screen' \in Screen, screen'.list = screen.list, screen'.ghost = screen.ghost,
         later' \in Later,
         later'.neural # None => later.neural # None /\ later'.neural.raw = later.neural.raw
  PROVE  Step
  <1>1. TypeOK'
    BY DEF IInv, TypeOK, Around
  <1> DEFINE u == World'
             w == World
  <1>2. /\ u.controller = w.controller /\ u.screen.list = w.screen.list
        /\ u.screen.ghost = w.screen.ghost
        /\ u.document = w.document /\ u.typed = w.typed /\ u.stranded = w.stranded
        /\ u.forgotten = w.forgotten
        /\ u.later.neural # None => w.later.neural # None /\ u.later.neural.raw = w.later.neural.raw
    BY DEF World
  <1>3. SurfacesOK(w) /\ OwnerOK(w) /\ KeysOK(w, keys)
    BY DEF IInv
  <1> HIDE DEF u, w
  <1>4. SurfacesOK(u) /\ OwnerOK(u) /\ KeysOK(u, keys)
    BY <1>2, <1>3 DEF SurfacesOK, ListOK, ListShown, OwnerOK, KeysOK
  <1>5. IInv'
    BY <1>1, <1>4 DEF IInv, u
  <1> QED
    BY <1>5 DEF Step

LEMMA SelectedNameType == ASSUME NEW w \in WorldSet PROVE SelectedName(w) \in Name \cup {None}
  <1>1. w.controller.list.names \in Seq(Name)
    BY DEF WorldSet, Controller, CandidateState
  <1> QED
    BY <1>1 DEF SelectedName

LEMMA OtherSteps ==
  ASSUME IInv, OpenMenu \/ CloseMenu \/ ChangeSecureInput \/ ChangeScreen \/ PredictCandidates
  PROVE  Step
  <1>1. screen \in Screen /\ later \in Later
    BY DEF IInv, TypeOK
  <1>2. CASE OpenMenu
    <2>1. SelectedName(World) \in Name \cup {None}
      BY WorldGood, SelectedNameType
    <2>2. Around
      BY <1>2, <2>1 DEF OpenMenu, IInv, TypeOK, Around
    <2> QED
      BY <1>1, <1>2, <2>2, KeptStep DEF OpenMenu
  <1>3. CASE CloseMenu
    <2>1. Around
      BY <1>3 DEF CloseMenu, IInv, TypeOK, Around
    <2> QED
      BY <1>1, <1>3, <2>1, KeptStep DEF CloseMenu
  <1>4. CASE ChangeSecureInput
    <2>1. Around
      BY <1>4 DEF ChangeSecureInput, IInv, TypeOK, Around
    <2> QED
      BY <1>1, <1>4, <2>1, KeptStep DEF ChangeSecureInput
  <1>5. CASE ChangeScreen
    <2>1. Around
      BY <1>5 DEF ChangeScreen, IInv, TypeOK, Around
    <2>2. screen' \in Screen /\ screen'.list = screen.list /\ screen'.ghost = screen.ghost
      BY <1>1, <1>5 DEF ChangeScreen, Screen
    <2> QED
      BY <1>1, <1>5, <2>1, <2>2, KeptStep DEF ChangeScreen
  <1>6. CASE PredictCandidates
    <2>1. Around
      BY <1>6 DEF PredictCandidates, IInv, TypeOK, Around
    <2>2. later.neural \in NeuralRequest
      BY <1>1, <1>6 DEF PredictCandidates, Later
    <2>3. [later.neural EXCEPT !.stage = "posted"] \in NeuralRequest
          /\ [later.neural EXCEPT !.stage = "posted"].raw = later.neural.raw
      BY <2>2 DEF NeuralRequest
    <2> DEFINE posted == [later.neural EXCEPT !.stage = "posted"]
    <2>4. later' = [later EXCEPT !.neural = None] \/ later' = [later EXCEPT !.neural = posted]
      BY <1>6 DEF PredictCandidates
    <2> HIDE DEF posted
    <2>5. /\ later' \in Later
          /\ later'.neural # None => later.neural # None /\ later'.neural.raw = later.neural.raw
      BY <1>1, <1>6, <2>3, <2>4 DEF Later, posted, PredictCandidates
    <2> QED
      BY <1>1, <1>6, <2>1, <2>5, KeptStep DEF PredictCandidates
  <1> QED
    BY <1>2, <1>3, <1>4, <1>5, <1>6

LEMMA HidePalettesStep == ASSUME IInv, HidePalettes PROVE Step
  <1> DEFINE b == Bump(CancelPending(World))
             con == [b.controller EXCEPT !.dismissed = TRUE, !.wanted = None]
             u == [b EXCEPT !.controller.dismissed = TRUE, !.controller.wanted = None, !.screen.ghost = None]
             v == HideWindow(u)
  <1>1. Around /\ Become(v) /\ keys' = keys
    BY WorldGood DEF HidePalettes, IInv, TypeOK, Around
  <1>2. Good(World, keys) /\ World \in WorldSet /\ ListOK(World) /\ World.accepted = None
    BY WorldGood DEF Good, SurfacesOK
  <1>3. OnSurfaces(World, b) /\ ListOK(b) /\ b.controller.ghostToken = None /\ b.later.neural = None
    BY <1>2, CancelPendingSurfaces, BumpSurfaces DEF OnSurfaces, SameText, SurfacesOK
  <1> HIDE DEF b
  <1>4. b \in WorldSet /\ b.controller \in Controller /\ b.screen \in Screen
    BY <1>3, WorldTypes DEF OnSurfaces
  <1>5. con \in Controller /\ [b.screen EXCEPT !.ghost = None] \in Screen
    BY <1>4 DEF Controller, Screen
  <1>6. /\ u \in WorldSet /\ u.controller = con /\ u.screen = [b.screen EXCEPT !.ghost = None]
        /\ u.later = b.later /\ u.document = b.document /\ u.typed = b.typed
        /\ u.stranded = b.stranded /\ u.forgotten = b.forgotten /\ u.accepted = b.accepted
    BY <1>4, <1>5 DEF WorldSet
  <1>7. /\ con.raw = b.controller.raw /\ con.owner = b.controller.owner /\ con.list = b.controller.list
        /\ con.selected = b.controller.selected /\ con.ghostToken = b.controller.ghostToken
        /\ con.wanted = None
        /\ u.screen.list = b.screen.list /\ u.screen.ghost = None
    BY <1>4, <1>6 DEF Controller, Screen
  <1> HIDE DEF u, con
  <1>8. OnSurfaces(b, u) /\ ListOK(u)
    BY <1>3, <1>6, <1>7 DEF OnSurfaces, SameText, ListOK
  <1>9. OnSurfaces(u, v) /\ SurfacesOK(v)
    BY <1>6, <1>8, HideWindowSurfaces
  <1> HIDE DEF v
  <1>10. Good(v, keys) /\ v.accepted = None
    <2>1. OnSurfaces(World, v)
      BY <1>3, <1>8, <1>9 DEF OnSurfaces, SameText
    <2> QED
      BY <1>2, <1>9, <2>1, SurfacesGood
  <1> QED
    BY <1>1, <1>10, PlainStep

LEMMA TurnOffInlinePreviewStep == ASSUME IInv, TurnOffInlinePreview PROVE Step
  <1> DEFINE w == World
             con == [w.controller EXCEPT !.wanted = None, !.ghostToken = None]
             v == [w EXCEPT !.controller.wanted = None, !.controller.ghostToken = None, !.screen.ghost = None]
  <1>1. Around /\ Become(v) /\ keys' = keys
    BY WorldGood DEF TurnOffInlinePreview, IInv, TypeOK, Around
  <1>2. Good(w, keys) /\ w \in WorldSet /\ SurfacesOK(w) /\ w.accepted = None
    BY WorldGood DEF Good
  <1> HIDE DEF w
  <1>3. w.controller \in Controller /\ w.screen \in Screen
    BY <1>2, WorldTypes
  <1>4. con \in Controller /\ [w.screen EXCEPT !.ghost = None] \in Screen
    BY <1>3 DEF Controller, Screen
  <1>5. /\ v \in WorldSet /\ v.controller = con /\ v.screen = [w.screen EXCEPT !.ghost = None]
        /\ v.later = w.later /\ v.document = w.document /\ v.typed = w.typed
        /\ v.stranded = w.stranded /\ v.forgotten = w.forgotten /\ v.accepted = w.accepted
    BY <1>2, <1>4 DEF WorldSet
  <1>6. /\ con.raw = w.controller.raw /\ con.owner = w.controller.owner /\ con.list = w.controller.list
        /\ con.selected = w.controller.selected /\ con.browsing = w.controller.browsing
        /\ con.listToken = w.controller.listToken /\ con.ghostToken = None /\ con.wanted = None
        /\ v.screen.list = w.screen.list /\ v.screen.ghost = None
    BY <1>3, <1>5 DEF Controller, Screen
  <1> HIDE DEF v, con
  <1>7. OnSurfaces(w, v) /\ SurfacesOK(v)
    BY <1>2, <1>5, <1>6 DEF OnSurfaces, SameText, SurfacesOK, ListOK, ListShown
  <1>8. Good(v, keys) /\ v.accepted = None
    BY <1>2, <1>7, SurfacesGood
  <1> QED
    BY <1>1, <1>8, PlainStep

(* Taking a candidate out of a list that has it once leaves it nowhere.       *)
LEMMA WithoutFacts ==
  ASSUME NEW names \in Seq(Name), IsInjective(names), NEW name
  PROVE  LET rest == Without(names, name)
         IN /\ rest \in Seq(Name) /\ IsInjective(rest)
            /\ ToSet(rest) \subseteq ToSet(names) \ {name}
            /\ rest # <<>> => names # <<>>
  <1> DEFINE rest == Without(names, name)
             at == CHOOSE i \in DOMAIN names : names[i] = name
             last == Len(names) - 1
             from(i) == IF i < at THEN i ELSE i + 1
  <1>1. CASE name \notin ToSet(names)
    BY <1>1 DEF Without
  <1>2. CASE name \in ToSet(names)
    <2>1. at \in DOMAIN names /\ names[at] = name
      BY <1>2 DEF ToSet
    <2>2. rest = SubSeq(names, 1, at - 1) \o SubSeq(names, at + 1, Len(names))
      BY <1>2 DEF Without, RemoveAt
    <2> HIDE DEF at, rest
    <2>3. Len(names) \in Nat /\ at \in 1 .. Len(names) /\ at \in Int /\ last \in Nat
          /\ DOMAIN names = 1 .. Len(names)
      BY <2>1
    <2> DEFINE before == SubSeq(names, 1, at - 1)
               after == SubSeq(names, at + 1, Len(names))
    <2>4. /\ before \in Seq(Name) /\ Len(before) = at - 1
          /\ \A i \in 1 .. at - 1 : before[i] = names[i]
      BY <2>3, SubSeqProperties
    <2>5. /\ after \in Seq(Name) /\ Len(after) = Len(names) - at
          /\ \A i \in 1 .. Len(names) - at : after[i] = names[at + i]
      <3> DEFINE m == at + 1
                 n == Len(names)
      <3>1. /\ m \in Int /\ n \in Int /\ \A i \in m .. n : names[i] \in Name
            /\ (IF m <= n THEN n - m + 1 ELSE 0) = Len(names) - at
            /\ n - m + 1 = Len(names) - at
            /\ \A i \in 1 .. Len(names) - at : m + i - 1 = at + i
        <4>1. \A i \in 1 .. Len(names) : names[i] \in Name
          BY <2>3
        <4>2. m \in Int /\ n \in Int /\ \A i \in m .. n : i \in 1 .. Len(names)
          BY <2>3
        <4>3. \A i \in m .. n : names[i] \in Name
          BY <4>1, <4>2
        <4> DEFINE k == Len(names)
        <4>4. k \in Nat /\ at \in 1 .. k /\ n = k /\ m = at + 1
          BY <2>3
        <4> HIDE DEF k, m, n
        <4>5. /\ (IF m <= n THEN n - m + 1 ELSE 0) = k - at /\ n - m + 1 = k - at
              /\ \A i \in 1 .. k - at : m + i - 1 = at + i
          BY <4>4
        <4> QED
          BY <4>2, <4>3, <4>5 DEF k
      <3>2. after = SubSeq(names, m, n)
        OBVIOUS
      <3> HIDE DEF m, n, after
      <3>3. /\ after \in Seq(Name) /\ Len(after) = IF m <= n THEN n - m + 1 ELSE 0
            /\ \A i \in 1 .. n - m + 1 : after[i] = names[m + i - 1]
        BY <3>1, <3>2, SubSeqProperties
      <3> QED
        BY <3>1, <3>3
    <2> HIDE DEF before, after
    <2>6. rest \in Seq(Name) /\ Len(rest) = last
          /\ \A i \in 1 .. last : rest[i] = names[from(i)]
      <3>1. rest = before \o after
        BY <2>2 DEF before, after
      <3>2. rest \in Seq(Name) /\ Len(rest) = last
        <4>2. before \in Seq(Name) /\ after \in Seq(Name)
          BY <2>4, <2>5
        <4>1. rest \in Seq(Name) /\ Len(rest) = Len(before) + Len(after)
          BY <3>1, <4>2
        <4> QED
          BY <2>3, <2>4, <2>5, <4>1
      <3>3. ASSUME NEW i \in 1 .. last PROVE rest[i] = names[from(i)]
        <4>1. CASE i < at
          BY <2>3, <2>4, <2>5, <3>1, <4>1
        <4>2. CASE ~(i < at)
          <5>1. rest[i] = after[i - (at - 1)] /\ i - (at - 1) \in 1 .. Len(names) - at
            BY <2>3, <2>4, <2>5, <3>1, <4>2
          <5>2. at + (i - (at - 1)) = i + 1
            BY <2>3
          <5> QED
            BY <2>5, <4>2, <5>1, <5>2
        <4> QED
          BY <4>1, <4>2
      <3> QED
        BY <3>2, <3>3
    <2>7. \A i \in 1 .. last : from(i) \in DOMAIN names \ {at}
      BY <2>3
    <2>8. \A i, j \in 1 .. last : from(i) = from(j) => i = j
      BY <2>3
    <2>9. DOMAIN rest = 1 .. last
      BY <2>6
    <2> HIDE DEF from, last
    <2>10. IsInjective(rest)
      BY <2>6, <2>7, <2>8, <2>9 DEF IsInjective
    <2>11. ToSet(rest) \subseteq ToSet(names) \ {name}
      BY <2>1, <2>6, <2>7, <2>9 DEF IsInjective, ToSet
    <2>12. names # <<>>
      BY <2>1
    <2> QED
      BY <2>6, <2>10, <2>11, <2>12 DEF rest
  <1> QED
    BY <1>1, <1>2

LEMMA ForgetCandidateStep == ASSUME IInv, ForgetCandidate PROVE Step
  <1>1. Around /\ keys' = keys /\ menu \in Name
    BY WorldGood DEF ForgetCandidate, IInv, TypeOK, Around
  <1>2. Good(World, keys) /\ World \in WorldSet /\ ListOK(World) /\ World.accepted = None
        /\ keys \in Nat /\ World.controller = controller
    BY WorldGood DEF Good, SurfacesOK
  <1> DEFINE cleared == ClearForSecure(World, controller.owner)
             w == World
             gone == IF Composing(w) THEN w.forgotten \cup {menu} ELSE w.forgotten
             rest == Without(w.controller.list.names, menu)
             u == [w EXCEPT !.forgotten = gone]
             l == ReplaceList(u, rest)
             v == HideCandidates(l)
  <1>3. Become(cleared) \/ Become(v)
    BY <1>2 DEF ForgetCandidate
  <1>4. Good(cleared, keys) /\ cleared.accepted = None
    BY <1>2, ClearForSecureGood
  <1>5. Good(v, keys) /\ v.accepted = None
    <2> HIDE DEF w
    <2>1. /\ Good(w, keys) /\ w \in WorldSet /\ ListOK(w) /\ w.accepted = None
      BY <1>2 DEF w
    <2> DEFINE names == w.controller.list.names
    <2>2. names \in Seq(Name) /\ IsInjective(names) /\ w.controller \in Controller /\ w.forgotten \subseteq Name
      BY <2>1 DEF WorldSet, Controller, CandidateState, ListOK
    <2>3. /\ rest \in Seq(Name) /\ IsInjective(rest) /\ ToSet(rest) \subseteq ToSet(names) \ {menu}
          /\ rest # <<>> => names # <<>>
      BY <2>2, WithoutFacts
    <2> HIDE DEF rest
    <2>4. gone \subseteq Name /\ gone \subseteq w.forgotten \cup {menu}
      BY <1>1, <2>2
    <2> HIDE DEF gone
    <2>5. /\ u \in WorldSet /\ u.controller = w.controller /\ u.screen = w.screen /\ u.later = w.later
          /\ u.document = w.document /\ u.typed = w.typed /\ u.stranded = w.stranded
          /\ u.forgotten = gone /\ u.accepted = w.accepted
      BY <2>1, <2>4 DEF WorldSet
    <2> HIDE DEF u
    <2>6. /\ l \in WorldSet /\ l.controller.list = [of |-> u.controller.raw, names |-> rest]
          /\ l.controller.raw = u.controller.raw /\ l.controller.owner = u.controller.owner
          /\ l.document = u.document /\ l.typed = u.typed /\ l.stranded = u.stranded
          /\ l.forgotten = u.forgotten /\ l.accepted = u.accepted
      BY <2>3, <2>5, ReplaceListSurfaces
    <2> HIDE DEF l
    <2>7. OnSurfaces(l, v) /\ Hidden(v)
      BY <2>6, HideCandidatesSurfaces
    <2> HIDE DEF v
    <2>8. Len(rest) \in Nat
      BY <2>3
    <2>9. /\ v.controller.list.of = v.controller.raw /\ v.controller.list.names = rest
          /\ v.controller.raw = w.controller.raw /\ v.controller.owner = w.controller.owner
          /\ v.forgotten = gone /\ v.document = w.document /\ v.typed = w.typed
          /\ v.stranded = w.stranded /\ v.accepted = w.accepted /\ v \in WorldSet
      BY <2>5, <2>6, <2>7 DEF OnSurfaces, SameText
    <2>10. gone \cap ToSet(rest) = {}
      BY <2>1, <2>3, <2>4 DEF ListOK
    <2>11. rest # <<>> => w.controller.raw # <<>>
      BY <2>1, <2>3 DEF ListOK
    <2>12. SurfacesOK(v)
      BY <2>3, <2>7, <2>8, <2>9, <2>10, <2>11 DEF SurfacesOK, ListOK, Hidden
    <2>13. OwnerOK(v) /\ KeysOK(v, keys)
      BY <2>1, <2>9 DEF Good, OwnerOK, KeysOK
    <2> QED
      BY <2>1, <2>9, <2>12, <2>13 DEF Good
  <1> HIDE DEF cleared, v
  <1> QED
    BY <1>1, <1>3, <1>4, <1>5, PlainStep

(* What waits for its turn changes; an answer is awaited as before, or not.   *)
LEMMA LaterChanged ==
  ASSUME NEW w, NEW n, Good(w, n), NEW later2 \in Later,
         later2.neural \in {w.later.neural, None}
  PROVE  LET v == [w EXCEPT !.later = later2]
         IN /\ Good(v, n) /\ v.accepted = w.accepted /\ OnSurfaces(w, v) /\ SurfacesOK(v)
            /\ v.controller = w.controller /\ v.screen = w.screen /\ v.later = later2
  <1> DEFINE v == [w EXCEPT !.later = later2]
  <1>1. w \in WorldSet /\ SurfacesOK(w)
    BY DEF Good
  <1>2. /\ v \in WorldSet /\ v.controller = w.controller /\ v.screen = w.screen
        /\ v.later = later2 /\ v.document = w.document /\ v.typed = w.typed
        /\ v.stranded = w.stranded /\ v.forgotten = w.forgotten /\ v.accepted = w.accepted
    BY <1>1 DEF WorldSet
  <1> HIDE DEF v
  <1>3. OnSurfaces(w, v) /\ SurfacesOK(v)
    BY <1>1, <1>2 DEF OnSurfaces, SameText, SurfacesOK, ListOK, ListShown
  <1> QED
    BY <1>2, <1>3, SurfacesGood DEF v

LEMMA RenderSurfacesGood ==
  ASSUME NEW w0, NEW n, Good(w0, n), w0.later.render # None, NEW h \in Hosts
  PROVE  LET v == RenderSurfaces(w0, h) IN Good(v, n) /\ v.accepted = w0.accepted
  <1> DEFINE r == w0.later.render
             w == [w0 EXCEPT !.later.render = None]
             placed == [w EXCEPT !.controller.anchored = @ \/ h.geometry]
             ghost == w.controller.wanted # None /\ placed.controller.anchored /\ h.room
             seen == IF ghost THEN w.controller.wanted ELSE None
             token == IF ghost /\ w.screen.on THEN MakeToken(w) ELSE None
             shown == [placed EXCEPT !.screen.ghost = seen, !.controller.ghostToken = token]
             again == [w EXCEPT !.later.render = [r EXCEPT !.left = @ - 1]]
             v == RenderSurfaces(w0, h)
  <1>1. w0 \in WorldSet /\ w0.later \in Later
    BY DEF Good, WorldSet
  <1> DEFINE none == [w0.later EXCEPT !.render = None]
  <1>2. /\ Good(w, n) /\ w.accepted = w0.accepted /\ SurfacesOK(w) /\ w.later = none
    <2>1. none \in Later /\ none.neural = w0.later.neural
      BY <1>1 DEF Later
    <2>2. w = [w0 EXCEPT !.later = none]
      BY <1>1 DEF WorldSet
    <2> HIDE DEF none, w
    <2> QED
      BY <2>1, <2>2, LaterChanged
  <1>3. none \in Later /\ none.neural = w0.later.neural /\ none.render = None
    BY <1>1 DEF Later
  <1>4. \/ v = w \/ v = HideCandidates(w)
        \/ v = again /\ r.left > 0
        \/ v = HideWindow(shown) \/ v = RefreshCandidatePanel(shown, h)
    BY DEF RenderSurfaces
  <1> HIDE DEF v, w, none
  <1>5. w \in WorldSet /\ w.controller \in Controller /\ w.screen \in Screen /\ ListOK(w)
    BY <1>2, WorldTypes DEF Good, SurfacesOK
  <1>6. CASE v = w
    BY <1>2, <1>6 DEF v
  <1>7. CASE v = HideCandidates(w)
    BY <1>2, <1>7, HideCandidatesGood DEF v
  <1>8. CASE v = again /\ r.left > 0
    <2> DEFINE less == [r EXCEPT !.left = @ - 1]
               put == [none EXCEPT !.render = less]
    <2>1. less \in RenderRequest
      <3>1. r \in RenderRequest
        BY <1>1 DEF Later
      <3>2. r.left \in 0 .. Retries /\ r.left - 1 \in 0 .. Retries
        BY <1>8, <3>1, ImkAssumption DEF RenderRequest
      <3> HIDE DEF r
      <3> QED
        BY <3>1, <3>2 DEF RenderRequest
    <2> HIDE DEF less, r
    <2>2. put \in Later /\ put.neural = none.neural
      BY <1>3, <2>1 DEF Later
    <2>3. v = [w EXCEPT !.later = put]
      BY <1>2, <1>5, <1>8 DEF WorldSet, less
    <2> HIDE DEF put
    <2>4. put.neural \in {w.later.neural, None}
      BY <1>2, <2>2
    <2> QED
      BY <1>2, <2>2, <2>3, <2>4, LaterChanged DEF v
  <1>9. OnSurfaces(w, shown) /\ ListOK(shown)
    <2>1. placed.controller = [w.controller EXCEPT !.anchored = @ \/ h.geometry]
          /\ placed.screen = w.screen /\ placed.controller.anchored \in BOOLEAN
      <3>1. h.geometry \in BOOLEAN
        BY ImkAssumption DEF Host
      <3>2. placed.controller = [w.controller EXCEPT !.anchored = @ \/ h.geometry]
            /\ placed.screen = w.screen
        BY <1>5 DEF WorldSet
      <3> QED
        BY <1>5, <3>1, <3>2 DEF Controller
    <2>2. /\ seen \in Text \cup {None} /\ token \in SurfaceToken \cup {None}
          /\ token # None => seen = token.raw
      <3>1. w.controller.wanted \in {None, w.controller.raw}
        BY <1>5 DEF ListOK
      <3>2. MakeToken(w) \in SurfaceToken /\ MakeToken(w).raw = w.controller.raw
        BY <1>5 DEF MakeToken, SurfaceToken, Controller
      <3>3. w.controller.wanted \in Text \cup {None}
        BY <1>5 DEF Controller
      <3> HIDE DEF placed
      <3>4. token # None => seen = w.controller.raw /\ token = MakeToken(w)
        BY <3>1
      <3> QED
        BY <3>2, <3>3, <3>4
    <2> HIDE DEF seen, token
    <2> DEFINE near == [w.controller EXCEPT !.anchored = @ \/ h.geometry]
               con == [near EXCEPT !.ghostToken = token]
    <2>6. near \in Controller /\ near = [w.controller EXCEPT !.anchored = near.anchored]
      <3>1. h.geometry \in BOOLEAN
        BY ImkAssumption DEF Host
      <3> QED
        BY <1>5, <3>1 DEF Controller
    <2>7. placed.controller = near
      BY <2>1
    <2>8. /\ near.raw = w.controller.raw /\ near.owner = w.controller.owner
          /\ near.list = w.controller.list /\ near.selected = w.controller.selected
          /\ near.wanted = w.controller.wanted
      BY <1>5 DEF Controller
    <2> HIDE DEF near
    <2>3. con \in Controller /\ [w.screen EXCEPT !.ghost = seen] \in Screen
      BY <1>5, <2>2, <2>6 DEF Controller, Screen
    <2>9. /\ placed \in WorldSet /\ placed.screen = w.screen
          /\ placed.later = w.later /\ placed.document = w.document /\ placed.typed = w.typed
          /\ placed.stranded = w.stranded /\ placed.forgotten = w.forgotten
          /\ placed.accepted = w.accepted
      BY <1>5, <2>1, <2>6, <2>7 DEF WorldSet
    <2> HIDE DEF placed
    <2>4. /\ shown \in WorldSet /\ shown.controller = con /\ shown.screen = [w.screen EXCEPT !.ghost = seen]
          /\ shown.later = w.later /\ shown.document = w.document /\ shown.typed = w.typed
          /\ shown.stranded = w.stranded /\ shown.forgotten = w.forgotten
          /\ shown.accepted = w.accepted
      BY <2>3, <2>7, <2>9 DEF WorldSet
    <2>5. /\ con.raw = w.controller.raw /\ con.owner = w.controller.owner /\ con.list = w.controller.list
          /\ con.selected = w.controller.selected /\ con.ghostToken = token
          /\ con.wanted = w.controller.wanted
          /\ shown.screen.list = w.screen.list /\ shown.screen.ghost = seen
      BY <1>5, <2>4, <2>6, <2>8 DEF Controller, Screen
    <2> HIDE DEF shown, con
    <2> QED
      BY <1>5, <2>2, <2>4, <2>5 DEF OnSurfaces, SameText, ListOK
  <1> HIDE DEF shown
  <1>10. CASE v = HideWindow(shown) \/ v = RefreshCandidatePanel(shown, h)
    <2>1. OnSurfaces(shown, v) /\ SurfacesOK(v)
      BY <1>9, <1>10, HideWindowSurfaces, RefreshSurfaces DEF OnSurfaces
    <2>2. OnSurfaces(w, v)
      BY <1>9, <2>1 DEF OnSurfaces, SameText
    <2> QED
      BY <1>2, <2>1, <2>2, SurfacesGood DEF v
  <1> QED
    BY <1>4, <1>6, <1>7, <1>8, <1>10

LEMMA RenderDueStep == ASSUME IInv, RenderDue PROVE Step
  <1>1. Around /\ keys' = keys /\ later.render # None /\ Render
    BY WorldGood DEF RenderDue, IInv, TypeOK, Around
  <1>2. /\ Good(World, keys) /\ World.accepted = None /\ keys \in Nat /\ World \in WorldSet
        /\ World.later = later /\ World.later \in Later
    BY WorldGood, WorldTypes
  <1>3. CASE secure
    <2> DEFINE w == World
               none == [w.later EXCEPT !.render = None]
               u == [w EXCEPT !.later.render = None]
               v == ClearForSecure(u, controller.owner)
    <2>1. Become(v)
      BY <1>1, <1>3 DEF Render
    <2> HIDE DEF w
    <2>2. none \in Later /\ none.neural = w.later.neural
      BY <1>2 DEF Later, w
    <2>3. u = [w EXCEPT !.later = none]
      BY <1>2 DEF WorldSet, w
    <2> HIDE DEF none, u
    <2>4. Good(u, keys) /\ u.accepted = None
      BY <1>2, <2>2, <2>3, LaterChanged DEF w
    <2>5. Good(v, keys) /\ v.accepted = None
      BY <1>2, <2>4, ClearForSecureGood
    <2> HIDE DEF v
    <2> QED
      BY <1>1, <2>1, <2>5, PlainStep
  <1>4. CASE ~secure
    <2>1. PICK h \in Hosts : Become(RenderSurfaces(World, h))
      BY <1>1, <1>4 DEF Render
    <2> DEFINE v == RenderSurfaces(World, h)
    <2>2. Good(v, keys) /\ v.accepted = None
      BY <1>1, <1>2, RenderSurfacesGood
    <2> HIDE DEF v
    <2> QED
      BY <1>1, <2>1, <2>2, PlainStep DEF v
  <1> QED
    BY <1>3, <1>4

(* A name that is not in the list goes to its end.                            *)
LEMMA AppendedOffer ==
  ASSUME NEW o \in Offers
  PROVE  /\ o \in Seq(Name) /\ IsInjective(o)
         /\ Append(o, "neural") \in Seq(Name) /\ IsInjective(Append(o, "neural"))
  <1> DEFINE name == "neural"
             longer == Append(o, name)
  <1>1. o \in Seq(ToSet(o)) /\ IsInjective(o) /\ name \notin ToSet(o)
    BY ImkAssumption
  <1>2. ToSet(o) \subseteq Name /\ name \in Name
    BY DEF Name
  <1> HIDE DEF name
  <1>3. o \in Seq(Name)
    BY <1>1, <1>2
  <1>4. longer \in Seq(Name) /\ Len(longer) = Len(o) + 1 /\ longer[Len(o) + 1] = name
        /\ \A i \in 1 .. Len(o) : longer[i] = o[i]
    BY <1>2, <1>3
  <1>5. \A i \in 1 .. Len(o) : o[i] # name
    BY <1>1, <1>3 DEF ToSet
  <1>6. DOMAIN longer = 1 .. Len(o) + 1 /\ DOMAIN o = 1 .. Len(o) /\ Len(o) \in Nat
    BY <1>3, <1>4
  <1> HIDE DEF longer
  <1>7. IsInjective(longer)
    BY <1>1, <1>4, <1>5, <1>6 DEF IsInjective
  <1> QED
    BY <1>1, <1>3, <1>4, <1>7 DEF longer, name

LEMMA NeuralAnswerGood ==
  ASSUME NEW w0, NEW n, Good(w0, n), w0.later.neural # None, NEW h \in Hosts
  PROVE  LET v == NeuralAnswer(w0, h) IN Good(v, n) /\ v.accepted = w0.accepted
  <1> DEFINE request == w0.later.neural
             none == [w0.later EXCEPT !.neural = None]
             w == [w0 EXCEPT !.later.neural = None]
             names == Append(request.names, "neural")
             listed == ReplaceList(w, names)
             seen == CheckGhost(listed, w.controller.owner)
             v == NeuralAnswer(w0, h)
  <1>1. w0 \in WorldSet /\ w0.later \in Later /\ request \in NeuralRequest
    BY DEF Good, WorldSet, Later
  <1>2. names \in Seq(Name) /\ IsInjective(names) /\ request.names \in Offers
    BY <1>1, AppendedOffer DEF NeuralRequest
  <1>3. request.raw # <<>> /\ w0.forgotten = {}
    BY DEF Good, SurfacesOK, ListOK
  <1>4. \/ v = w
        \/ v \in {listed, seen, RefreshCandidatePanel(seen, h)} /\ request.raw = w.controller.raw
    BY DEF NeuralAnswer
  <1>5. Good(w, n) /\ w.accepted = w0.accepted /\ w.forgotten = {} /\ w.later.neural = None
    <2>1. none \in Later /\ none.neural = None
      BY <1>1 DEF Later
    <2>2. w = [w0 EXCEPT !.later = none]
      BY <1>1 DEF WorldSet
    <2> HIDE DEF none, w
    <2> QED
      BY <1>3, <2>1, <2>2, LaterChanged DEF OnSurfaces, SameText
  <1> HIDE DEF w, names, request
  <1>6. CASE request.raw = w.controller.raw /\ v \in {listed, seen, RefreshCandidatePanel(seen, h)}
    <2>1. /\ listed \in WorldSet
          /\ listed.controller.list = [of |-> w.controller.raw, names |-> names]
          /\ listed.controller.raw = w.controller.raw /\ listed.controller.owner = w.controller.owner
          /\ listed.controller.wanted = w.controller.wanted
          /\ listed.controller.ghostToken = w.controller.ghostToken
          /\ listed.controller.listToken = None /\ listed.controller.selected = 0
          /\ listed.screen = w.screen /\ listed.later = w.later
          /\ listed.document = w.document /\ listed.typed = w.typed /\ listed.stranded = w.stranded
          /\ listed.forgotten = w.forgotten /\ listed.accepted = w.accepted
      BY <1>2, <1>5, ReplaceListSurfaces DEF Good
    <2> HIDE DEF listed
    <2>2. SurfacesOK(listed)
      <3>1. Len(names) \in Nat
        BY <1>2
      <3>2. listed.controller.list.of = w.controller.raw /\ listed.controller.list.names = names
        BY <2>1
      <3> QED
        BY <1>2, <1>3, <1>5, <1>6, <2>1, <3>1, <3>2 DEF Good, SurfacesOK, ListOK
    <2>3. Good(listed, n) /\ listed.accepted = w0.accepted
      BY <1>5, <2>1, <2>2 DEF Good, OwnerOK, KeysOK
    <2>4. OnSurfaces(listed, seen) /\ ListOK(seen) /\ SurfacesOK(seen)
      BY <2>1, <2>2, CheckGhostSurfaces DEF SurfacesOK
    <2> HIDE DEF seen, v
    <2>5. OnSurfaces(listed, v) /\ SurfacesOK(v)
      <3>1. CASE v = listed
        BY <2>1, <2>2, <3>1 DEF OnSurfaces, SameText
      <3>2. CASE v = seen
        BY <2>4, <3>2
      <3>3. CASE v = RefreshCandidatePanel(seen, h)
        <4>1. OnSurfaces(seen, v) /\ SurfacesOK(v)
          BY <2>4, <3>3, RefreshSurfaces DEF OnSurfaces
        <4> QED
          BY <2>4, <4>1 DEF OnSurfaces, SameText
      <3> QED
        BY <1>6, <3>1, <3>2, <3>3
    <2> QED
      BY <2>3, <2>5, SurfacesGood DEF v
  <1> HIDE DEF v
  <1> QED
    BY <1>4, <1>5, <1>6 DEF v

LEMMA NeuralCandidatesArriveStep == ASSUME IInv, NeuralCandidatesArrive PROVE Step
  <1>1. Around /\ keys' = keys /\ later.neural # None
    BY WorldGood DEF NeuralCandidatesArrive, IInv, TypeOK, Around
  <1>2. Good(World, keys) /\ World.accepted = None /\ World.later = later
    BY WorldGood
  <1>3. PICK h \in Hosts : Become(NeuralAnswer(World, h))
    BY DEF NeuralCandidatesArrive
  <1> DEFINE v == NeuralAnswer(World, h)
  <1>4. Good(v, keys) /\ v.accepted = None
    BY <1>1, <1>2, NeuralAnswerGood
  <1> HIDE DEF v
  <1> QED
    BY <1>1, <1>3, <1>4, PlainStep DEF v

(* A row is highlighted by browsing: the list stays what it was.              *)
LEMMA BrowsedSurfaces ==
  ASSUME NEW w \in WorldSet, ListOK(w), NEW row \in 0 .. Len(w.controller.list.names)
  PROVE  LET u == [w EXCEPT !.controller.selected = row, !.controller.browsing = TRUE]
         IN /\ OnSurfaces(w, u) /\ ListOK(u) /\ u.screen = w.screen /\ u.later = w.later
            /\ u.controller.selected = row
            /\ u.controller = [w.controller EXCEPT !.selected = row, !.browsing = TRUE]
  <1> DEFINE u == [w EXCEPT !.controller.selected = row, !.controller.browsing = TRUE]
             con == [w.controller EXCEPT !.selected = row, !.browsing = TRUE]
  <1>1. w.controller \in Controller /\ row \in Nat /\ row <= Len(w.controller.list.names)
    <2>1. w.controller \in Controller /\ w.controller.list.names \in Seq(Name)
      BY WorldTypes DEF Controller, CandidateState
    <2> QED
      BY <2>1
  <1>2. con \in Controller
    BY <1>1 DEF Controller
  <1>3. /\ u \in WorldSet /\ u.controller = con /\ u.screen = w.screen /\ u.later = w.later
        /\ u.document = w.document /\ u.typed = w.typed /\ u.stranded = w.stranded
        /\ u.forgotten = w.forgotten /\ u.accepted = w.accepted
    BY <1>2 DEF WorldSet
  <1>4. /\ con.raw = w.controller.raw /\ con.owner = w.controller.owner /\ con.list = w.controller.list
        /\ con.selected = row /\ con.ghostToken = w.controller.ghostToken
        /\ con.wanted = w.controller.wanted
    BY <1>1 DEF Controller
  <1> HIDE DEF con, u
  <1>5. OnSurfaces(w, u) /\ ListOK(u)
    BY <1>1, <1>3, <1>4 DEF OnSurfaces, SameText, ListOK
  <1> QED
    BY <1>3, <1>4, <1>5 DEF u, con

(* A row that is on the screen is chosen and accepted.                        *)
LEMMA RowAccepted ==
  ASSUME NEW w, NEW n \in Nat, Good(w, n), NEW c \in Clients,
         w.controller.raw # <<>>, w.controller.owner = c,
         NEW row \in DOMAIN w.controller.list.names,
         w.screen.list # None => w.screen.list.of = w.controller.list.of
                              /\ w.controller.list.names[row] \in ToSet(w.screen.list.names)
  PROVE  LET chosen == Authorize([w EXCEPT !.controller.selected = row, !.controller.browsing = TRUE], c)
         IN Authorized(chosen, c) => StepOK(w, AcceptSelected(chosen, c, <<>>), n)
  <1> DEFINE u == [w EXCEPT !.controller.selected = row, !.controller.browsing = TRUE]
             chosen == Authorize(u, c)
             nothing == <<>>
             v == AcceptSelected(chosen, c, nothing)
  <1>1. w \in WorldSet /\ ListOK(w) /\ row \in 0 .. Len(w.controller.list.names)
    <2>1. w \in WorldSet /\ ListOK(w)
      BY DEF Good, SurfacesOK
    <2>2. w.controller.list.names \in Seq(Name)
      BY <2>1 DEF WorldSet, Controller, CandidateState
    <2> QED
      BY <2>1, <2>2
  <1>2. /\ OnSurfaces(w, u) /\ ListOK(u) /\ u.screen = w.screen /\ u.controller.selected = row
    BY <1>1, BrowsedSurfaces
  <1> HIDE DEF u
  <1>3. /\ OnSurfaces(u, chosen) /\ chosen.screen = u.screen /\ ListOK(chosen)
        /\ chosen.controller.browsing => chosen.controller.selected = u.controller.selected
    BY <1>2, AuthorizeSurfaces DEF OnSurfaces
  <1>4. Due(w, n, c, nothing)
    BY DueNothing
  <1> HIDE DEF nothing, chosen
  <1>5. SUFFICES ASSUME Authorized(chosen, c) PROVE StepOK(w, v, n)
    BY DEF u, chosen, nothing
  <1>6. OnSurfaces(w, chosen)
    BY <1>2, <1>3 DEF OnSurfaces, SameText
  <1>7. Due(chosen, n, c, nothing)
    BY <1>4, <1>6, DueOnSurfaces
  <1>8. /\ chosen.controller.list = w.controller.list /\ chosen.screen = w.screen
        /\ chosen.document = w.document /\ chosen.controller.selected = row
        /\ ListVisible(chosen) /\ SelectedName(chosen) # None
    BY <1>2, <1>3, <1>5, <1>6 DEF Authorized, OnSurfaces, SameText
  <1>9. SelectedName(chosen) = w.controller.list.names[row] /\ w.screen.list # None
    BY <1>8 DEF SelectedName, ListVisible
  <1>10. StepOK(chosen, v, n)
    BY <1>3, <1>7, <1>8, <1>9, AcceptSelectedGood
  <1> HIDE DEF v
  <1> QED
    BY <1>8, <1>10, StepFrom

(* The invariant allows for more keys than were typed.                        *)
LEMMA GoodLater ==
  ASSUME NEW w, NEW n \in Nat, Good(w, n)
  PROVE  Good(w, n + 1)
  <1>1. 1 .. n \subseteq 1 .. (n + 1)
    OBVIOUS
  <1>2. KeysFit(w.document, w.typed, w.stranded, n)
    BY DEF Good, KeysOK
  <1>3. KeysFit(w.document, w.typed, w.stranded, n + 1)
    BY <1>1, <1>2 DEF KeysFit, ClientFits
  <1> QED
    BY <1>3 DEF Good, KeysOK

LEMMA PickRowStep == ASSUME IInv, NEW c \in Clients, PickRow(c) PROVE Step
  <1>1. /\ keys \in Nat /\ keys < MaxKeys /\ keys' = keys + 1 /\ NextKey = keys + 1
        /\ keys' \in 0 .. MaxKeys /\ EditComposition(c)
    BY WritesKey DEF PickRow
  <1>2. /\ Around /\ Good(World, keys) /\ World.accepted = None
        /\ World.controller.raw # <<>> /\ World.controller.owner = c /\ World \in WorldSet
    BY <1>1, EditedWorld
  <1> DEFINE w == CheckList(World, c)
  <1>3. PICK row \in 1 .. (PassiveRows + 1) :
          LET offered == /\ w.controller.listToken # None /\ row \in DOMAIN w.controller.list.names
                         /\ w.controller.browsing \/ row <= PassiveRows
              picked == Authorize([w EXCEPT !.controller.selected = row, !.controller.browsing = TRUE], c)
          IN Become(IF offered /\ Authorized(picked, c) THEN AcceptSelected(picked, c, <<>>)
                    ELSE HostTypes(CommitRaw(w, c, <<>>), c, NextKey))
    BY DEF PickRow
  <1> DEFINE picked == Authorize([w EXCEPT !.controller.selected = row, !.controller.browsing = TRUE], c)
             accepts == AcceptSelected(picked, c, <<>>)
             raw == CommitRaw(w, c, <<>>)
             writes == HostTypes(raw, c, NextKey)
             offered == /\ w.controller.listToken # None /\ row \in DOMAIN w.controller.list.names
                        /\ w.controller.browsing \/ row <= PassiveRows
  <1>4. /\ OnSurfaces(World, w) /\ SurfacesOK(w) /\ w.screen = World.screen
    BY <1>2, CheckListSurfaces DEF Good
  <1>5. \/ Become(accepts) /\ offered /\ Authorized(picked, c)
        \/ Become(writes)
    BY <1>3
  <1> HIDE DEF w
  <1>6. /\ Good(w, keys) /\ w.accepted = None /\ w.controller.raw # <<>> /\ w.controller.owner = c
        /\ w.document = World.document
    BY <1>2, <1>4, SurfacesGood DEF OnSurfaces, SameText
  <1>7. CASE Become(accepts) /\ offered /\ Authorized(picked, c)
    <2>1. ListShown(w) /\ row \in DOMAIN w.controller.list.names
      BY <1>4, <1>7 DEF SurfacesOK
    <2>2. /\ w.screen.list.of = w.controller.list.of
          /\ w.controller.list.names[row] \in ToSet(w.screen.list.names)
      BY <1>7, <2>1 DEF ListShown
    <2>3. StepOK(w, accepts, keys)
      BY <1>1, <1>6, <1>7, <2>1, <2>2, RowAccepted
    <2> HIDE DEF accepts
    <2>4. StepOK(World, accepts, keys)
      BY <1>4, <1>6, <2>3, StepFrom
    <2>5. StepOK(World, accepts, keys')
      BY <1>1, <2>4, GoodLater DEF StepOK
    <2> QED
      BY <1>2, <1>7, <2>5, BecomeStep
  <1>8. CASE Become(writes)
    <2>1. Good(raw, keys) /\ ~Composing(raw) /\ raw.accepted = None
      BY <1>1, <1>6, CommitRawGood
    <2> HIDE DEF raw
    <2>2. Good(writes, keys') /\ writes.accepted = None
      BY <1>1, <2>1, HostTypesGood
    <2> HIDE DEF writes
    <2> QED
      BY <1>2, <1>8, <2>2, PlainStep
  <1> QED
    BY <1>5, <1>7, <1>8

LEMMA MoveSelectionStep ==
  ASSUME IInv, NEW c \in Clients, NEW down, MoveSelection(c, down)
  PROVE  Step
  <1>1. keys' = keys /\ EditComposition(c) /\ keys' \in 0 .. MaxKeys
    BY WorldGood DEF MoveSelection
  <1>2. /\ Around /\ Good(World, keys) /\ World.accepted = None /\ keys \in Nat /\ World \in WorldSet
        /\ World.controller = controller
    BY <1>1, EditedWorld
  <1> DEFINE w == DismissInlineSuggestion(World)
             rows == Len(controller.list.names)
             at == controller.selected
             moved == IF down THEN IF at = rows THEN 1 ELSE at + 1
                      ELSE IF at \in {0, 1} THEN rows ELSE at - 1
             u == [w EXCEPT !.controller.selected = moved, !.controller.browsing = TRUE,
                            !.controller.dismissed = FALSE]
  <1>3. PICK h \in Hosts :
          LET chosen == Authorize(RefreshCandidatePanel(u, h), c)
          IN Become(IF rows = 0 THEN CommitRaw(w, c, <<>>)
                    ELSE IF chosen.controller.receipt # None THEN chosen
                    ELSE CommitRaw(Revoke(chosen), c, <<>>))
    BY DEF MoveSelection
  <1> DEFINE panel == RefreshCandidatePanel(u, h)
             chosen == Authorize(panel, c)
             revoked == Revoke(chosen)
             empty == CommitRaw(w, c, <<>>)
             raw == CommitRaw(revoked, c, <<>>)
  <1>4. Become(empty) \/ (rows # 0 /\ (Become(chosen) \/ Become(raw)))
    BY <1>3
  <1>5. OnSurfaces(World, w) /\ SurfacesOK(w)
    BY <1>2, DismissSurfaces DEF Good, SurfacesOK
  <1> HIDE DEF w
  <1>6. Good(w, keys) /\ w.accepted = None /\ w \in WorldSet /\ ListOK(w)
        /\ w.controller.list = controller.list
    BY <1>2, <1>5, SurfacesGood DEF OnSurfaces, SameText, SurfacesOK
  <1>7. CASE Become(empty)
    <2>1. Good(empty, keys') /\ empty.accepted = None
      BY <1>1, <1>2, <1>6, CommitRawGood
    <2> HIDE DEF empty
    <2> QED
      BY <1>2, <1>7, <2>1, PlainStep
  <1>8. CASE rows # 0 /\ (Become(chosen) \/ Become(raw))
    <2>1. moved \in 0 .. Len(w.controller.list.names)
      <3>1. rows \in Nat /\ at \in Nat /\ at <= rows
        BY <1>2 DEF IInv, TypeOK, Controller, CandidateState
      <3> HIDE DEF rows, at
      <3>2. moved \in 0 .. rows
        BY <1>8, <3>1
      <3> QED
        BY <1>6, <3>2 DEF rows
    <2> HIDE DEF moved
    <2> DEFINE b == [w EXCEPT !.controller.selected = moved, !.controller.browsing = TRUE]
    <2>2. OnSurfaces(w, b) /\ ListOK(b) /\ b.screen = w.screen /\ b.later = w.later
          /\ b.controller = [w.controller EXCEPT !.selected = moved, !.browsing = TRUE]
      BY <1>6, <2>1, BrowsedSurfaces
    <2>3. /\ u.controller = [b.controller EXCEPT !.dismissed = FALSE] /\ b.controller \in Controller
          /\ u.screen = b.screen /\ u.later = b.later /\ u.document = w.document /\ u.typed = w.typed
          /\ u.stranded = w.stranded /\ u.forgotten = w.forgotten /\ u.accepted = w.accepted
          /\ u = [w EXCEPT !.controller = u.controller]
      BY <1>6, <2>2, WorldTypes DEF OnSurfaces, WorldSet
    <2> HIDE DEF b, u
    <2>4. /\ u.controller \in Controller
          /\ u.controller.raw = b.controller.raw /\ u.controller.owner = b.controller.owner
          /\ u.controller.list = b.controller.list /\ u.controller.selected = b.controller.selected
          /\ u.controller.ghostToken = b.controller.ghostToken
          /\ u.controller.wanted = b.controller.wanted
      BY <2>3 DEF Controller
    <2>5. u \in WorldSet
      BY <1>6, <2>3, <2>4 DEF WorldSet
    <2>6. OnSurfaces(b, u) /\ ListOK(u)
      BY <2>2, <2>3, <2>4, <2>5 DEF OnSurfaces, SameText, ListOK
    <2>7. OnSurfaces(u, panel) /\ SurfacesOK(panel)
      BY <2>5, <2>6, RefreshSurfaces
    <2> HIDE DEF panel
    <2>8. OnSurfaces(panel, chosen) /\ SurfacesOK(chosen)
      BY <2>7, AuthorizeSurfaces DEF OnSurfaces
    <2> HIDE DEF chosen
    <2>9. OnSurfaces(w, chosen)
      BY <2>2, <2>6, <2>7, <2>8 DEF OnSurfaces, SameText
    <2>10. Good(chosen, keys') /\ chosen.accepted = None
      BY <1>1, <1>6, <2>8, <2>9, SurfacesGood
    <2>11. OnSurfaces(chosen, revoked) /\ SurfacesOK(revoked)
      BY <2>8, RevokeSurfaces DEF OnSurfaces, SurfacesOK
    <2> HIDE DEF revoked
    <2>12. Good(revoked, keys') /\ revoked.accepted = None
      BY <2>10, <2>11, SurfacesGood
    <2>13. Good(raw, keys') /\ raw.accepted = None
      BY <1>1, <1>2, <2>12, CommitRawGood
    <2> HIDE DEF raw
    <2> QED
      BY <1>2, <1>8, <2>10, <2>13, PlainStep
  <1> QED
    BY <1>4, <1>7, <1>8

LEMMA ClickRowStep == ASSUME IInv, ClickRow PROVE Step
  <1> DEFINE c == controller.owner
             names == controller.list.names
             Index(row) == CHOOSE i \in 0 .. Len(names) :
                             IF screen.list.names[row] \in ToSet(names)
                             THEN i > 0 /\ names[i] = screen.list.names[row] ELSE i = 0
             Live(row) == /\ IsCurrentToken(World, controller.listToken, c) /\ Index(row) > 0
                          /\ screen.list.kind = "custom"
                               => screen.list.token = controller.listToken /\ Index(row) = row
             Chosen(row) == Authorize([World EXCEPT !.controller.selected = Index(row),
                                                    !.controller.browsing = TRUE], c)
  <1>1. /\ Around /\ keys' = keys /\ c \in Clients /\ screen.list # None
        /\ screen.list.names \in Seq(Name) /\ names \in Seq(Name)
    BY WorldGood DEF ClickRow, ListVisible, IInv, TypeOK, Controller, CandidateState, Screen,
                     CandidateWindow, Around
  <1>2. /\ Good(World, keys) /\ World \in WorldSet /\ SurfacesOK(World) /\ World.accepted = None
        /\ keys \in Nat /\ World.controller = controller /\ World.screen = screen
    BY WorldGood DEF Good
  <1>3. PICK row \in DOMAIN screen.list.names :
          \/ Become(World) \/ Become(ClearForSecure(World, c)) \/ Become(CheckList(World, c))
          \/ Live(row) /\ Authorized(Chosen(row), c) /\ Become(AcceptSelected(Chosen(row), c, <<>>))
    BY DEF ClickRow
  <1> DEFINE index == Index(row)
             cleared == ClearForSecure(World, c)
             checked == CheckList(World, c)
             accepts == AcceptSelected(Chosen(row), c, <<>>)
  <1>4. CASE Become(World)
    BY <1>1, <1>2, <1>4, PlainStep
  <1>5. CASE Become(cleared)
    <2>1. Good(cleared, keys') /\ cleared.accepted = None
      BY <1>1, <1>2, ClearForSecureGood
    <2> HIDE DEF cleared
    <2> QED
      BY <1>1, <1>5, <2>1, PlainStep
  <1>6. CASE Become(checked)
    <2>1. OnSurfaces(World, checked) /\ SurfacesOK(checked)
      BY <1>2, CheckListSurfaces
    <2> HIDE DEF checked
    <2>2. Good(checked, keys') /\ checked.accepted = None
      BY <1>1, <1>2, <2>1, SurfacesGood
    <2> QED
      BY <1>1, <1>6, <2>2, PlainStep
  <1>7. CASE Live(row) /\ Authorized(Chosen(row), c) /\ Become(accepts)
    <2> DEFINE name == screen.list.names[row]
               Found(i) == IF name \in ToSet(names) THEN i > 0 /\ names[i] = name ELSE i = 0
    <2>1. Len(names) \in Nat /\ DOMAIN names = 1 .. Len(names)
      BY <1>1
    <2>2. \E i \in 0 .. Len(names) : Found(i)
      <3>1. CASE name \in ToSet(names)
        <4>1. PICK i \in DOMAIN names : names[i] = name
          BY <3>1 DEF ToSet
        <4> QED
          BY <2>1, <3>1, <4>1
      <3>2. CASE name \notin ToSet(names)
        BY <2>1, <3>2
      <3> QED
        BY <3>1, <3>2
    <2>3. index = CHOOSE i \in 0 .. Len(names) : Found(i)
      OBVIOUS
    <2>4. index \in 0 .. Len(names) /\ Found(index)
      <3> HIDE DEF Found, Index
      <3> QED
        BY <2>2, <2>3
    <2>5. index > 0
      BY <1>7
    <2> HIDE DEF Index, names, name
    <2>6. index \in DOMAIN names /\ names[index] = name
      BY <2>1, <2>4, <2>5
    <2>7. name \in ToSet(screen.list.names)
      BY <1>1 DEF ToSet, name
    <2>8. controller.listToken # None
      <3> DEFINE token == [raw |-> controller.raw, client |-> c]
      <3>1. token \in SurfaceToken
        BY <1>1 DEF IInv, TypeOK, Controller, SurfaceToken
      <3>2. controller.listToken = token
        BY <1>2, <1>7 DEF IsCurrentToken
      <3> HIDE DEF token
      <3> QED
        BY <3>1, <3>2, NoneIsNoValue
    <2>9. screen.list.of = controller.list.of
      BY <1>2, <2>8 DEF SurfacesOK, ListShown
    <2>10. controller.raw # <<>>
      <3>1. controller.list.names # <<>>
        BY <2>6 DEF names
      <3> QED
        BY <1>2, <3>1 DEF SurfacesOK, ListOK
    <2>11. /\ index \in DOMAIN World.controller.list.names
           /\ World.controller.list.names[index] \in ToSet(World.screen.list.names)
           /\ World.screen.list.of = World.controller.list.of
           /\ World.controller.raw # <<>> /\ World.controller.owner = c
      BY <1>2, <2>6, <2>7, <2>9, <2>10 DEF names
    <2>12. StepOK(World, accepts, keys)
      <3> HIDE DEF index, c
      <3>1. LET chosen == Authorize([World EXCEPT !.controller.selected = index, !.controller.browsing = TRUE], c)
            IN Authorized(chosen, c) => StepOK(World, AcceptSelected(chosen, c, <<>>), keys)
        BY <1>1, <1>2, <2>11, RowAccepted
      <3> QED
        BY <1>7, <3>1 DEF index
    <2> HIDE DEF accepts
    <2> QED
      BY <1>1, <1>7, <2>12, BecomeStep
  <1> QED
    BY <1>3, <1>4, <1>5, <1>6, <1>7

------------------------------------------------------------------------------
(* The behaviours.                                                            *)
LEMMA InitIInv == ASSUME Init PROVE IInv
  <1> DEFINE nothing == <<>>
             empty == [text |-> nothing, marked |-> nothing]
             list == [of |-> nothing, names |-> nothing]
  <1>1. /\ nothing \in Text /\ nothing \in Seq(Name) /\ Len(nothing) = 0 /\ DOMAIN nothing = {}
        /\ ToSet(nothing) = {} /\ nothing \o nothing = nothing
    BY NoText, ToSetNone
  <1>2. /\ controller.raw = nothing /\ controller.list = list
        /\ controller.owner = None /\ controller.selected = 0 /\ controller.listToken = None
        /\ controller.ghostToken = None /\ controller.wanted = None
        /\ controller.browsing = FALSE /\ controller.receipt = None
        /\ controller = [raw |-> nothing, owner |-> None, list |-> list, selected |-> 0,
                         browsing |-> FALSE, receipt |-> None, listToken |-> None, wanted |-> None,
                         ghostToken |-> None, anchored |-> FALSE, dismissed |-> FALSE]
    BY DEF Init, NoList
  <1>3. document = [c \in Clients |-> empty] /\ keys = 0 /\ typed = [c \in Clients |-> {}]
        /\ stranded = {} /\ forgotten = {} /\ accepted = None
        /\ screen.list = None /\ screen.ghost = None /\ later.neural = None
    BY DEF Init
  <1>4. screen \in Screen /\ later \in Later /\ secure \in BOOLEAN /\ focus \in Clients
        /\ late \subseteq Clients /\ menu \in Name \cup {None}
    BY DEF Init, Screen, Later
  <1> HIDE DEF nothing
  <1>5. list \in CandidateState /\ list.of = nothing /\ list.names = nothing
    BY <1>1 DEF CandidateState
  <1> HIDE DEF list
  <1>6. controller \in Controller
    BY <1>1, <1>2, <1>5 DEF Controller
  <1>7. document \in [Clients -> Document]
    BY <1>1, <1>3 DEF Document
  <1>8. TypeOK
    BY <1>1, <1>2, <1>3, <1>4, <1>5, <1>6, <1>7, ImkAssumption DEF TypeOK
  <1>9. IsInjective(nothing) /\ Increasing(nothing)
    BY <1>1 DEF IsInjective, Increasing
  <1> DEFINE w == World
  <1>10. /\ w.controller = controller /\ w.screen = screen /\ w.later = later /\ w.document = document
         /\ w.typed = typed /\ w.stranded = stranded /\ w.forgotten = forgotten
    BY DEF World
  <1> HIDE DEF w
  <1>11. SurfacesOK(w)
    BY <1>1, <1>2, <1>3, <1>5, <1>9, <1>10 DEF SurfacesOK, ListOK
  <1>12. OwnerOK(w)
    BY <1>1, <1>2, <1>3, <1>10, ImkAssumption DEF OwnerOK
  <1>13. KeysOK(w, keys)
    <2>1. \A c \in Clients : document[c].text \o document[c].marked = nothing /\ typed[c] = {}
      BY <1>1, <1>3
    <2> QED
      BY <1>1, <1>3, <1>9, <1>10, <2>1 DEF KeysOK, KeysFit, ClientFits
  <1> QED
    BY <1>8, <1>11, <1>12, <1>13 DEF IInv, w

LEMMA NextStep == ASSUME IInv, Next PROVE Step
  <1>1. ASSUME NEW c \in Clients,
               \/ PassKey(c) \/ TypeLetter(c) \/ TypeDelimiter(c) \/ Backspace(c)
               \/ MoveSelection(c, TRUE) \/ MoveSelection(c, FALSE)
               \/ PickRow(c) \/ Tab(c) \/ ArrowRight(c) \/ FinishRaw(c) \/ LateCommit(c)
        PROVE  Step
    BY <1>1, PassKeyStep, TypeLetterStep, TypeDelimiterStep, BackspaceStep, MoveSelectionStep,
       PickRowStep, TabStep, ArrowRightStep, FinishRawStep, LateCommitStep
  <1>2. ASSUME NEW c \in Clients, NEW told \in Told, MoveFocus(c, told) PROVE Step
    BY <1>2, MoveFocusStep
  <1>3. CASE ClickRow \/ FinishOwner \/ HidePalettes \/ TurnOffInlinePreview \/ ForgetCandidate
    BY <1>3, ClickRowStep, FinishOwnerStep, HidePalettesStep, TurnOffInlinePreviewStep,
       ForgetCandidateStep
  <1>4. CASE \/ OpenMenu \/ CloseMenu \/ ChangeSecureInput \/ ChangeScreen \/ PredictCandidates
    BY <1>4, OtherSteps
  <1>5. CASE RenderDue \/ OutdatedDue \/ NeuralCandidatesArrive
    BY <1>5, RenderDueStep, OutdatedDueStep, NeuralCandidatesArriveStep
  <1> QED
    BY <1>1, <1>2, <1>3, <1>4, <1>5 DEF Next

LEMMA UnchangedIInv == ASSUME IInv, UNCHANGED vars PROVE IInv'
  BY DEF vars, IInv, TypeOK, World, SurfacesOK, ListOK, ListShown, OwnerOK, KeysOK

(* The inductive invariant: whatever the order of keys, callbacks, renders and*)
(* neural answers, the list and the completion are those of the text that is  *)
(* composed, a live token stands for what the screen shows, the composed text *)
(* is marked with its owner, and every key is in the document it was typed in.*)
THEOREM ImkInvariant == Spec => []IInv
  <1>1. Init => IInv
    BY InitIInv
  <1>2. IInv /\ [Next]_vars => IInv'
    BY NextStep, UnchangedIInv DEF Step
  <1> QED
    BY <1>1, <1>2, PTL DEF Spec

(* The fields of LekhInputController, the panels and the documents have their *)
(* types; the composition and the highlighted row are within their bounds.    *)
THEOREM ImkTypeCorrect == Spec => []TypeOK
  <1>1. IInv => TypeOK
    BY DEF IInv
  <1> QED
    BY <1>1, ImkInvariant, PTL

(* No client loses, doubles or reorders a key, and none receives another's,   *)
(* except for what was stranded in a marked text (commitRawComposition,       *)
(* prepareForClientTransition, apply).                                        *)
THEOREM KeysKept == Spec => []KeysAreKept
  <1>1. IInv => KeysAreKept
    <2> SUFFICES ASSUME IInv, NEW c \in Clients
                 PROVE  /\ ToSet(Written(c)) \subseteq typed[c]
                        /\ typed[c] \subseteq ToSet(Written(c)) \cup stranded
                        /\ \A i, j \in DOMAIN Written(c) : i < j => Written(c)[i] < Written(c)[j]
      BY DEF KeysAreKept
    <2>1. ClientFits(document[c].text \o document[c].marked, typed[c], stranded, keys)
      BY DEF IInv, KeysOK, KeysFit, World
    <2> QED
      BY <2>1 DEF ClientFits, Increasing, Written
  <1> QED
    BY <1>1, ImkInvariant, PTL

(* A candidate that forgetCandidate removed for a text is not in its list     *)
(* again, also not when predictions for the text were under way.              *)
THEOREM ForgottenNotOffered == Spec => []ForgottenStaysAway
  <1>1. IInv => ForgottenStaysAway
    BY DEF IInv, SurfacesOK, ListOK, World, ForgottenStaysAway
  <1> QED
    BY <1>1, ImkInvariant, PTL

(* commitSelectedCandidate and acceptInlineSuggestion insert what the user    *)
(* sees, made for the text it replaces, where that text is marked.            *)
THEOREM AcceptedOnlyFromScreen == Spec => AcceptedWasOnScreen
  <1> DEFINE A == accepted' \notin {None, accepted} => /\ OnScreen(accepted')
                                                     /\ accepted'.of = accepted'.replaced
                                                     /\ document[accepted'.client].marked = accepted'.of
  <1>1. IInv /\ Next => A
    BY NextStep DEF Step, Inserted, OnScreen, World
  <1>2. UNCHANGED vars => A
    BY DEF vars
  <1> HIDE DEF A
  <1>3. IInv /\ [Next]_vars => [A]_vars
    BY <1>1, <1>2
  <1>4. Spec => [][A]_vars
    BY <1>3, ImkInvariant, PTL DEF Spec
  <1> QED
    BY <1>4 DEF A, AcceptedWasOnScreen

------------------------------------------------------------------------------
(* Secure input.                                                              *)
Quiet(w, v) ==
  /\ \A c \in Clients : /\ v.document[c].text = w.document[c].text
                        /\ v.document[c].marked \in {w.document[c].marked, <<>>}
  /\ v.screen.list \in {w.screen.list, None} /\ v.screen.ghost \in {w.screen.ghost, None}
  /\ v.later.neural \in {w.later.neural, None}

LEMMA QuietTwice == ASSUME NEW w, NEW u, NEW v, Quiet(w, u), Quiet(u, v) PROVE Quiet(w, v)
  BY DEF Quiet

LEMMA HiddenQuiet ==
  ASSUME NEW w, NEW v, Hidden(v), v.document = w.document
  PROVE  Quiet(w, v)
  BY DEF Hidden, Quiet

LEMMA ClearForSecureQuiet ==
  ASSUME NEW w \in WorldSet, NEW c
  PROVE  LET v == ClearForSecure(w, c) IN v \in WorldSet /\ Quiet(w, v)
  <1> DEFINE cleared == HideCandidates(Ended(w))
             u == Stranded(w)
             left == HideCandidates(Ended(u))
             back == [cleared EXCEPT !.document[c].marked = <<>>,
                                     !.typed[c] = @ \ ToSet(w.controller.raw)]
             v == ClearForSecure(w, c)
  <1>1. v = cleared \/ v = left \/ v = back
    BY DEF ClearForSecure
  <1>2. cleared \in WorldSet /\ Hidden(cleared) /\ cleared.document = w.document
    BY EndedWorld
  <1>3. u \in WorldSet /\ u.document = w.document
    <2>1. w.controller.raw \in Seq(1 .. MaxKeys)
      BY DEF WorldSet, Controller, Text
    <2>2. ToSet(w.controller.raw) \subseteq 1 .. MaxKeys
      BY <2>1, ToSetType
    <2> QED
      BY <2>2 DEF Stranded, WorldSet
  <1> HIDE DEF cleared, u, v
  <1>4. left \in WorldSet /\ Hidden(left) /\ left.document = w.document
    BY <1>3, EndedWorld
  <1> HIDE DEF left
  <1>5. CASE v = cleared \/ v = left
    BY <1>2, <1>4, <1>5, HiddenQuiet DEF v
  <1>6. CASE v = back
    <2> DEFINE empty == <<>>
               document2 == [cleared.document EXCEPT ![c].marked = empty]
               typed2 == [cleared.typed EXCEPT ![c] = @ \ ToSet(w.controller.raw)]
    <2>1. v = [cleared EXCEPT !.document[c].marked = empty,
                              !.typed[c] = @ \ ToSet(w.controller.raw)] /\ empty \in Text
      BY <1>6, NoText
    <2> HIDE DEF empty
    <2>2. document2 \in [Clients -> Document] /\ typed2 \in [Clients -> SUBSET (1 .. MaxKeys)]
      BY <1>2, <2>1 DEF WorldSet, Document
    <2>3. v \in WorldSet /\ v.document = document2 /\ v.screen = cleared.screen
          /\ v.later = cleared.later
      BY <1>2, <2>1, <2>2 DEF WorldSet
    <2>4. \A d \in Clients : /\ document2[d].text = w.document[d].text
                             /\ document2[d].marked \in {w.document[d].marked, empty}
      BY <1>2 DEF WorldSet, Document
    <2> HIDE DEF document2
    <2> QED
      BY <1>2, <2>3, <2>4 DEF Quiet, Hidden, v, empty
  <1> QED
    BY <1>1, <1>5, <1>6

(* What the next state holds of what a handler leaves.                        *)
QuietStep == Quiet(World, World')

LEMMA BecomeQuiet == ASSUME NEW v, Become(v), Quiet(World, v) PROVE QuietStep
  <1> DEFINE u == World'
  <1>1. u.document = v.document /\ u.screen = v.screen /\ u.later = v.later
    BY DEF Become, World
  <1> HIDE DEF u
  <1>2. Quiet(World, u)
    BY <1>1 DEF Quiet
  <1> QED
    BY <1>2 DEF QuietStep, u

LEMMA BecomeClear ==
  ASSUME IInv, NEW c, Become(ClearForSecure(World, c))
  PROVE  QuietStep
  <1> DEFINE v == ClearForSecure(World, c)
  <1>1. Quiet(World, v)
    BY WorldGood, ClearForSecureQuiet
  <1> HIDE DEF v
  <1> QED
    BY <1>1, BecomeQuiet DEF v

LEMMA SecureStep == ASSUME IInv, Next, secure PROVE QuietStep
  <1>1. World \in WorldSet /\ Quiet(World, World)
    BY WorldGood DEF Quiet
  <1>2. ASSUME NEW c \in Clients, PassKey(c) \/ LateCommit(c) PROVE QuietStep
    BY <1>2, BecomeClear DEF PassKey, LateCommit, CommitComposition
  <1>3. ASSUME NEW c \in Clients, NEW told \in Told, MoveFocus(c, told) PROVE QuietStep
    <2> DEFINE hidden == HideCandidates(World)
               left == ClearForSecure(hidden, focus)
               entered == ClearForSecure(left, c)
    <2>1. Become(entered) \/ Become(World)
      BY <1>3 DEF MoveFocus, ActivateServer, DeactivateServer
    <2>2. hidden \in WorldSet /\ Quiet(World, hidden)
      BY <1>1, HideCandidatesSurfaces, HiddenQuiet DEF OnSurfaces, SameText
    <2> HIDE DEF hidden
    <2>3. left \in WorldSet /\ Quiet(hidden, left)
      BY <2>2, ClearForSecureQuiet
    <2> HIDE DEF left
    <2>4. Quiet(left, entered)
      BY <2>3, ClearForSecureQuiet
    <2> HIDE DEF entered
    <2>5. Quiet(World, entered)
      BY <2>2, <2>3, <2>4, QuietTwice
    <2> QED
      BY <1>1, <2>1, <2>5, BecomeQuiet
  <1>4. ASSUME NEW c \in Clients,
               \/ TypeLetter(c) \/ TypeDelimiter(c) \/ Backspace(c)
               \/ MoveSelection(c, TRUE) \/ MoveSelection(c, FALSE)
               \/ PickRow(c) \/ Tab(c) \/ ArrowRight(c) \/ FinishRaw(c)
        PROVE  FALSE
    BY <1>4 DEF TypeLetter, TypeDelimiter, Backspace, MoveSelection, PickRow, Tab, ArrowRight,
                FinishRaw, EditComposition
  <1>5. CASE ClickRow
    <2>1. Become(World) \/ Become(ClearForSecure(World, controller.owner))
      BY <1>5 DEF ClickRow
    <2> QED
      BY <1>1, <2>1, BecomeClear, BecomeQuiet
  <1>6. CASE FinishOwner \/ ForgetCandidate \/ OutdatedDue
    BY <1>6, BecomeClear DEF FinishOwner, ForgetCandidate, OutdatedDue
  <1>7. CASE HidePalettes
    <2> DEFINE b == Bump(CancelPending(World))
               u == [b EXCEPT !.controller.dismissed = TRUE, !.controller.wanted = None, !.screen.ghost = None]
               v == HideWindow(u)
    <2>1. Become(v)
      BY <1>7 DEF HidePalettes
    <2>2. b \in WorldSet /\ b.document = World.document /\ b.later.neural = None
      BY <1>1, CancelPendingSurfaces, BumpSurfaces DEF OnSurfaces, SameText
    <2> HIDE DEF b
    <2>3. /\ u \in WorldSet /\ u.document = b.document /\ u.later = b.later /\ u.screen.ghost = None
      <3>1. [b.controller EXCEPT !.dismissed = TRUE, !.wanted = None] \in Controller
            /\ [b.screen EXCEPT !.ghost = None] \in Screen
        <4>1. b.controller \in Controller /\ b.screen \in Screen
          BY <2>2, WorldTypes
        <4> QED
          BY <4>1 DEF Controller, Screen
      <3>2. /\ u \in WorldSet /\ u.document = b.document /\ u.later = b.later
            /\ u.screen = [b.screen EXCEPT !.ghost = None] /\ b.screen \in Screen
        BY <2>2, <3>1 DEF WorldSet
      <3> HIDE DEF u
      <3> QED
        BY <3>2 DEF Screen
    <2> HIDE DEF u
    <2>4. v.document = u.document /\ v.screen = [u.screen EXCEPT !.list = None] /\ v.later = u.later
          /\ u.screen \in Screen
      BY <2>3, HideWindowSurfaces, WorldTypes DEF OnSurfaces, SameText
    <2> HIDE DEF v
    <2>5. v.screen.list = None /\ v.screen.ghost = None
      BY <2>3, <2>4 DEF Screen
    <2>6. Quiet(World, v)
      BY <2>2, <2>3, <2>4, <2>5 DEF Quiet
    <2> QED
      BY <2>1, <2>6, BecomeQuiet
  <1>8. CASE TurnOffInlinePreview
    <2> DEFINE w == World
               v == [w EXCEPT !.controller.wanted = None, !.controller.ghostToken = None, !.screen.ghost = None]
    <2>1. Become(v)
      BY <1>8 DEF TurnOffInlinePreview
    <2> HIDE DEF w
    <2>2. v.document = w.document /\ v.later = w.later /\ v.screen = [w.screen EXCEPT !.ghost = None]
          /\ w.screen \in Screen
      BY <1>1 DEF WorldSet, w
    <2> HIDE DEF v
    <2>3. v.screen.list = w.screen.list /\ v.screen.ghost = None
      BY <2>2 DEF Screen
    <2>4. Quiet(World, v)
      BY <2>2, <2>3 DEF Quiet, w
    <2> QED
      BY <2>1, <2>4, BecomeQuiet
  <1>9. CASE OpenMenu \/ CloseMenu \/ ChangeSecureInput \/ ChangeScreen \/ PredictCandidates
    <2>1. screen \in Screen /\ later \in Later
      BY DEF IInv, TypeOK
    <2>2. document' = document /\ screen'.list = screen.list /\ screen'.ghost = screen.ghost
          /\ later'.neural \in {later.neural, None}
      BY <1>9, <2>1 DEF OpenMenu, CloseMenu, ChangeSecureInput, ChangeScreen, PredictCandidates, Screen, Later
    <2> QED
      BY <2>2 DEF QuietStep, Quiet, World
  <1>10. CASE RenderDue
    <2> DEFINE w == World
               u == [w EXCEPT !.later.render = None]
               v == ClearForSecure(u, controller.owner)
    <2>1. Become(v)
      BY <1>10 DEF RenderDue, Render
    <2> HIDE DEF w
    <2>2. u \in WorldSet /\ u.document = w.document /\ u.screen = w.screen
          /\ u.later.neural = w.later.neural
      BY <1>1 DEF WorldSet, Later, w
    <2> HIDE DEF u
    <2>3. Quiet(u, v)
      BY <2>2, ClearForSecureQuiet
    <2> HIDE DEF v
    <2>4. Quiet(World, v)
      BY <2>2, <2>3 DEF Quiet, w
    <2> QED
      BY <2>1, <2>4, BecomeQuiet
  <1>11. CASE NeuralCandidatesArrive
    <2> DEFINE w == World
               v == [w EXCEPT !.later.neural = None]
    <2>1. Become(v)
      BY <1>11 DEF NeuralCandidatesArrive, NeuralAnswer
    <2> HIDE DEF w
    <2>2. v.document = w.document /\ v.screen = w.screen /\ v.later.neural = None
      BY <1>1 DEF WorldSet, Later, w
    <2> HIDE DEF v
    <2>3. Quiet(World, v)
      BY <2>2 DEF Quiet, w
    <2> QED
      BY <2>1, <2>3, BecomeQuiet
  <1> QED
    BY <1>2, <1>3, <1>4, <1>5, <1>6, <1>7, <1>8, <1>9, <1>10, <1>11 DEF Next

(* While IsSecureEventInputEnabled holds no handler writes text, opens a      *)
(* surface or asks the model: at most what is marked or shown is taken away   *)
(* (clearStateForSecureInput).                                                *)
THEOREM SecureInputQuiet == Spec => SecureIsQuiet
  <1> DEFINE A == secure => /\ \A c \in Clients : /\ document'[c].text = document[c].text
                                                  /\ document'[c].marked \in {document[c].marked, <<>>}
                            /\ screen'.list \in {screen.list, None} /\ screen'.ghost \in {screen.ghost, None}
                            /\ later'.neural \in {later.neural, None}
  <1>1. IInv /\ Next => A
    BY SecureStep DEF QuietStep, Quiet, World
  <1>2. UNCHANGED vars => A
    BY DEF vars
  <1> HIDE DEF A
  <1>3. IInv /\ [Next]_vars => [A]_vars
    BY <1>1, <1>2
  <1>4. Spec => [][A]_vars
    BY <1>3, ImkInvariant, PTL DEF Spec
  <1> QED
    BY <1>4 DEF A, SecureIsQuiet
=============================================================================
