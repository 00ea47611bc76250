---------------------------- MODULE VideoStoreMC ----------------------------
(* Constants and symmetry of the VideoStore runs. *)
EXTENDS VideoStore, TLC

Symmetry == Permutations(Actors) \cup Permutations(VideoIds) \cup Permutations(Refs)

=============================================================================
