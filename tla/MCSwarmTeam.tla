---------------------------- MODULE MCSwarmTeam ----------------------------
(***************************************************************************)
(* SwarmTeam for TLC.                                                      *)
(***************************************************************************)
EXTENDS SwarmTeam, TLC
=============================================================================
