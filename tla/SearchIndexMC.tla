---------------------------- MODULE SearchIndexMC ----------------------------
(* Symmetry of the SearchIndex runs. *)
EXTENDS SearchIndex, TLC

Symmetry == Permutations(Actors) \cup Permutations(VideoIds)

=============================================================================
