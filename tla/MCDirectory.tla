---------------------------- MODULE MCDirectory ----------------------------
(* Two providers and two models; one node's own process and the hosted     *)
(* service write the file.  A page holds two transactions, so that a third *)
(* pushes one out; two seconds make equal and different times.             *)
EXTENDS Directory

ProviderSymmetry == Permutations(Keys) \cup Permutations(Models)
=============================================================================
