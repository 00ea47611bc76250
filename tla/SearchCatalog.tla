---------------------------- MODULE SearchCatalog ----------------------------
(***************************************************************************)
(* What the search index promises, without saying which handlers, tasks    *)
(* and writes keep it: a document of a video holds a manifest that the     *)
(* video showed when it was read for the index.  Readers may be as late as *)
(* they like, so documents may lag behind their videos and may be missing; *)
(* but nothing is indexed that was not read, and so a video whose document *)
(* is gone after it was withdrawn, and that no reader still holds, never   *)
(* comes back.                                                             *)
(***************************************************************************)
EXTENDS PublishedVideos

VARIABLES reads,     \* the reads that may still be indexed: <<video, manifest>>
          catalog    \* the manifest in the document of each video, or NoManifest

catalogVars == <<sourceVars, reads, catalog>>

CatalogInit ==
    /\ SourceInit
    /\ reads = {}
    /\ catalog = [v \in Videos |-> NoManifest]

\* The database changes, whatever readers are doing.
Change == SourceNext /\ UNCHANGED <<reads, catalog>>

\* Videos that show a manifest are read.
Read ==
    /\ reads \subseteq reads'
    /\ reads' \subseteq reads \cup {<<v, shown[v]>> : v \in {w \in Videos : shown[w] # NoManifest}}
    /\ UNCHANGED <<sourceVars, catalog>>

\* A reader ends, in success or not.
Forget ==
    /\ reads' \subseteq reads
    /\ UNCHANGED <<sourceVars, catalog>>

\* A video is indexed as it was read.
Index(v, m) ==
    /\ <<v, m>> \in reads
    /\ catalog' = [catalog EXCEPT ![v] = m]
    /\ reads' \subseteq reads
    /\ UNCHANGED sourceVars

\* Documents are removed: one, by an event or a prune, or all of them.
Remove ==
    /\ catalog' = [v \in Videos |-> IF catalog'[v] = NoManifest THEN NoManifest
                                    ELSE catalog[v]]
    /\ UNCHANGED <<sourceVars, reads>>

CatalogNext ==
    \/ Forget \/ Read
    \/ \E v \in Videos, m \in Manifests : Index(v, m)
    \/ Remove
    \/ Change

CatalogSpec == CatalogInit /\ [][CatalogNext]_catalogVars

-----------------------------------------------------------------------------

CatalogTypeOK ==
    /\ SourceTypeOK
    /\ reads \in SUBSET (Videos \X Manifests)
    /\ catalog \in [Videos -> Manifests \cup {NoManifest}]

\* Video v was withdrawn, has no document, and nobody holds an earlier read of it.
Gone(v) ==
    /\ v \in withdrawn
    /\ catalog[v] = NoManifest
    /\ \A m \in Manifests : <<v, m>> \notin reads

(* IVideoService on moderation, "keep video model as a trace", and the       *)
(* removal handlers: once a withdrawn video is out of the index and out of   *)
(* the hands of every reader, no event, retry or maintenance task makes it   *)
(* searchable again.                                                         *)
GoneStays == [][\A v \in Videos : Gone(v) => Gone(v)']_catalogVars

=============================================================================
