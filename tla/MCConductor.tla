------------------------------ MODULE MCConductor ------------------------------
(***************************************************************************)
(* Instances of Conductor for TLC: three ids, so that one is the client's  *)
(* and two are peers.                                                      *)
(***************************************************************************)
EXTENDS Conductor, TLC

IdSymmetry == Permutations(Ids)
=============================================================================
