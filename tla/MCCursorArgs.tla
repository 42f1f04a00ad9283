---------------------------- MODULE MCCursorArgs ----------------------------
(* Small instances of CursorArgs for TLC. *)
EXTENDS CursorArgs, TLC

Symmetry == Permutations(Cursor) \cup Permutations(Client)
=============================================================================
