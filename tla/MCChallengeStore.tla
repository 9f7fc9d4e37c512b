-------------------------- MODULE MCChallengeStore --------------------------
(***************************************************************************)
(* ChallengeStore on small sets: the two keys of one name, three           *)
(* challenges, two concurrent Consumes and a clock long enough for a       *)
(* challenge to expire, be swept and be followed by another.  The store    *)
(* treats a key as a whole, so two purposes of one name tell apart what    *)
(* two names would.                                                        *)
(***************************************************************************)
EXTENDS ChallengeStore, TLC

Symmetry == Permutations(Names) \cup Permutations(Challenges)
                                \cup Permutations(Threads)

=============================================================================
