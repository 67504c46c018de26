---------------------------- MODULE MCFetchQueue ----------------------------
(***************************************************************************)
(* FetchQueue for TLC: the constants are given in the configurations.      *)
(* Keys and workers are interchangeable; item ids are not (their order is  *)
(* created_at order), and symmetry is used for safety runs only.           *)
(***************************************************************************)
EXTENDS FetchQueue, TLC

Symmetry == Permutations(Keys) \cup Permutations(Workers)
=============================================================================
