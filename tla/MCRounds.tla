------------------------------ MODULE MCRounds ------------------------------
(* Small instances of Rounds. *)
EXTENDS Rounds
PostSymmetry == Permutations(Post)
=============================================================================
