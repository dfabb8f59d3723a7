--------------------------- MODULE MCImkController ---------------------------
(* ImkController for TLC: what the engine may offer, and the hosts there are:  *)
(* one without geometry, with or without the system's candidate window, and    *)
(* one with geometry, with or without room for a completion.                   *)
EXTENDS ImkController, TLC

Symmetry == Permutations(Clients)

OneRow == {<<"first">>}

Met(geometry, room, system) == [geometry |-> geometry, room |-> room, system |-> system]

FourHosts ==
  {Met(FALSE, TRUE, TRUE), Met(FALSE, TRUE, FALSE), Met(TRUE, TRUE, FALSE), Met(TRUE, FALSE, FALSE)}
=============================================================================
