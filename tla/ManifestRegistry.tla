-------------------------- MODULE ManifestRegistry --------------------------
(***************************************************************************)
(* What the index promises about the manifests it registers, without       *)
(* saying how requests and jobs interleave to keep it:                     *)
(*                                                                         *)
(*   - a manifest is registered once, for one video, with a reference that *)
(*     no other registered manifest holds;                                 *)
(*   - once registered it is decided any number of times, valid or         *)
(*     invalid, never undecided again, and once gone it stays gone;        *)
(*   - a video lists only manifests registered for it, and shows as its    *)
(*     last valid manifest only one that a validation accepted.            *)
(*                                                                         *)
(* Which of its manifests a video lists, and which accepted one it shows,  *)
(* is left open: concurrent saves of one video overwrite each other.       *)
(***************************************************************************)
CONSTANTS Videos, Manifests, Refs, NoVideo, NoManifest, NoRef

VARIABLES status,     \* of each manifest, from unborn to gone
          refOf,      \* the reference of each registered manifest
          home,       \* the video each manifest was registered for
          accepted,   \* the manifests some validation found valid
          listed,     \* the manifests each video lists
          shown       \* the manifest each video shows, or NoManifest

regVars == <<status, refOf, home, accepted, listed, shown>>

Live == {m \in Manifests : status[m] \in {"pending", "valid", "invalid"}}

Init ==
    /\ status = [m \in Manifests |-> "unborn"]
    /\ refOf = [m \in Manifests |-> NoRef]
    /\ home = [m \in Manifests |-> NoVideo]
    /\ accepted = {}
    /\ listed = [v \in Videos |-> {}]
    /\ shown = [v \in Videos |-> NoManifest]

\* A manifest document comes to be, for one video.
Register(m, v, r) ==
    /\ status[m] = "unborn"
    /\ \A k \in Live : refOf[k] # r
    /\ status' = [status EXCEPT ![m] = "pending"]
    /\ refOf' = [refOf EXCEPT ![m] = r]
    /\ home' = [home EXCEPT ![m] = v]
    /\ UNCHANGED <<accepted, listed, shown>>

\* The document of video v, and of no other, is rewritten.
Rewrite(v, acc) ==
    /\ listed' = [listed EXCEPT ![v] = listed'[v]]
    /\ listed'[v] \subseteq {m \in Manifests : home[m] = v}
    /\ shown' = [shown EXCEPT ![v] = shown'[v]]
    /\ shown'[v] \in {NoManifest} \cup {m \in acc : home[m] = v}

Save(v) ==
    /\ Rewrite(v, accepted)
    /\ UNCHANGED <<status, refOf, home, accepted>>

\* A validation of manifest m, of video v, is saved with the video.
Decide(m, v, outcome) ==
    /\ home[m] = v
    /\ status' = [status EXCEPT ![m] = IF m \in Live THEN outcome ELSE @]
    /\ accepted' = IF outcome = "valid" THEN accepted \cup {m} ELSE accepted
    /\ Rewrite(v, accepted')
    /\ UNCHANGED <<refOf, home>>

\* A manifest document is deleted, and no video shows or lists it any more.
Discard(m) ==
    /\ m \in Live
    /\ status' = [status EXCEPT ![m] = "gone"]
    /\ refOf' = [refOf EXCEPT ![m] = NoRef]
    /\ listed' = [v \in Videos |-> listed[v] \ {m}]
    /\ shown' = [v \in Videos |-> IF shown[v] = m THEN NoManifest ELSE shown[v]]
    /\ UNCHANGED <<home, accepted>>

Next ==
    \/ \E m \in Manifests, v \in Videos, r \in Refs : Register(m, v, r)
    \/ \E v \in Videos : Save(v)
    \/ \E m \in Manifests, v \in Videos, o \in {"valid", "invalid"} :
          Decide(m, v, o)
    \/ \E m \in Manifests : Discard(m)

Spec == Init /\ [][Next]_regVars

-----------------------------------------------------------------------------

TypeOK ==
    /\ status \in [Manifests -> {"unborn", "pending", "valid", "invalid", "gone"}]
    /\ refOf \in [Manifests -> Refs \cup {NoRef}]
    /\ home \in [Manifests -> Videos \cup {NoVideo}]
    /\ accepted \in SUBSET Manifests
    /\ listed \in [Videos -> SUBSET Manifests]
    /\ shown \in [Videos -> Manifests \cup {NoManifest}]

(* A reference is held by at most one manifest at a time: the unique index  *)
(* on VideoManifest.ManifestReference.                                      *)
ReferenceHeldOnce ==
    \A m, k \in Live : refOf[m] = refOf[k] => m = k

(* No manifest is listed or shown by a video it was not registered for, and *)
(* what a video shows passed a validation at some time.                     *)
OneHome ==
    \A v \in Videos :
        /\ \A m \in listed[v] : home[m] = v
        /\ shown[v] # NoManifest => home[shown[v]] = v /\ shown[v] \in accepted

=============================================================================
