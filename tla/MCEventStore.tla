---------------------------- MODULE MCEventStore ----------------------------
(***************************************************************************)
(* Three connections appending two keys to a run that exists and to one    *)
(* that does not, and one reader.                                          *)
(***************************************************************************)
EXTENDS Timeline, TLC

ClientSymmetry == Permutations(Clients)
=============================================================================
