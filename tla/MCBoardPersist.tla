-------------------------- MODULE MCBoardPersist ---------------------------
(***************************************************************************)
(* BoardPersist for TLC.                                                   *)
(***************************************************************************)
EXTENDS BoardPersist, TLC

CONSTANTS MaxTask

MCTaskID == 1 .. MaxTask

OwnerSymmetry == Permutations(Owner)
=============================================================================
