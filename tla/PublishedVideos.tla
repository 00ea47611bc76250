--------------------------- MODULE PublishedVideos ---------------------------
(***************************************************************************)
(* What the database promises to those who read videos from it, and to     *)
(* nobody else: each video shows one manifest or none, and a video that is *)
(* withdrawn, by a moderation or a deletion, shows none ever again.        *)
(*                                                                         *)
(* VideoStore keeps this while one operation runs at a time, whatever      *)
(* crashes leave behind; SearchCatalog is built upon it.                   *)
(***************************************************************************)
CONSTANTS Videos, Manifests, NoManifest

VARIABLES withdrawn,  \* the videos moderated or deleted
          shown       \* the manifest each video shows, or NoManifest

sourceVars == <<withdrawn, shown>>

SourceInit ==
    /\ withdrawn = {}
    /\ shown = [v \in Videos |-> NoManifest]

\* A save of the video chooses another manifest.
Show(v, m) ==
    /\ v \notin withdrawn
    /\ shown' = [shown EXCEPT ![v] = m]
    /\ UNCHANGED withdrawn

Withdraw(v) ==
    /\ withdrawn' = withdrawn \cup {v}
    /\ shown' = [shown EXCEPT ![v] = NoManifest]

SourceNext ==
    \/ \E v \in Videos, m \in Manifests \cup {NoManifest} : Show(v, m)
    \/ \E v \in Videos : Withdraw(v)

SourceSpec == SourceInit /\ [][SourceNext]_sourceVars

SourceTypeOK ==
    /\ withdrawn \in SUBSET Videos
    /\ shown \in [Videos -> Manifests \cup {NoManifest}]

\* A withdrawn video shows nothing.
WithdrawnShowNothing == \A v \in withdrawn : shown[v] = NoManifest

=============================================================================
