------------------------- MODULE MCTeammateBreaker -------------------------
(***************************************************************************)
(* TeammateBreaker for TLC: the loop of a manager, and the loop of the     *)
(* same id in the manager that replaces it.                                *)
(***************************************************************************)
EXTENDS TeammateBreaker

CONSTANTS old, new

MCRunner == {old, new}
=============================================================================
