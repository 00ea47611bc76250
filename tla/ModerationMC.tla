---------------------------- MODULE ModerationMC ----------------------------
(* Constants and symmetry of the Moderation runs. *)
EXTENDS Moderation, TLC

Symmetry == Permutations(Actors) \cup Permutations(Persons) \cup Permutations(VideoIds)

=============================================================================
