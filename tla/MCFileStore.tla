----------------------------- MODULE MCFileStore -----------------------------
(***************************************************************************)
(* FileStore on small sets: two credential IDs, two concurrent callers,    *)
(* so that a write can race another write of the same or another           *)
(* credential, and a crash with a later call after it.                     *)
(***************************************************************************)
EXTENDS FileStore, TLC

Symmetry == Permutations(Threads) \cup Permutations(Ids)

=============================================================================
