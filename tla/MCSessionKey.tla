---------------------------- MODULE MCSessionKey ----------------------------
(***************************************************************************)
(* SessionKey with two servers, which have every overlap of two starts, or *)
(* with one; a first start, one that finds its file, and two more.         *)
(***************************************************************************)
EXTENDS SessionKey, TLC

Symmetry == Permutations(Servers) \cup Permutations(Keys)

=============================================================================
