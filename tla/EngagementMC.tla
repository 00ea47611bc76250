---------------------------- MODULE EngagementMC ----------------------------
(* Constants and symmetry of the Engagement runs. *)
EXTENDS Engagement, TLC

Symmetry == Permutations(Actors) \cup Permutations(Persons)

=============================================================================
