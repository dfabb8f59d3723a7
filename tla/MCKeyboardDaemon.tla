-------------------------- MODULE MCKeyboardDaemon --------------------------
(* Small instances of KeyboardDaemon for TLC. *)
EXTENDS KeyboardDaemonInvariant, TLC

Symmetry == Permutations(Client)
=============================================================================
