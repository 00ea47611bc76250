----------------------------- MODULE SearchIndex -----------------------------
(***************************************************************************)
(* The Elasticsearch index of videos: the event handlers that keep it in   *)
(* step with the database, and the two maintenance tasks, reindex and      *)
(* rebuild, that write it anew.                                            *)
(*                                                                         *)
(* Of the database this module keeps what a document is made from: the     *)
(* manifests of a video that are valid, and its comments, as the number of *)
(* their latest version.  A change of these is one step here; the races of *)
(* the saves behind it are in VideoStore.                                  *)
(*                                                                         *)
(* An actor is a request or a worker: it saves a change and then, in the   *)
(* same request or job, runs the handlers of the events; or it runs a      *)
(* task.  Its steps are the awaits, and steps of actors interleave.        *)
(*                                                                         *)
(* Time is told in runs: clock counts the reindexes begun, and a document  *)
(* is stamped with it.  Stamps are only ever compared with the instant at  *)
(* which a reindex began.                                                  *)
(*                                                                         *)
(* Assumed of Elasticsearch: a document written by id replaces the one     *)
(* with the same id; a write to an index that does not exist creates it    *)
(* with a mapping of its own; indexes are created and dropped when asked,  *)
(* except that the one created when the host starts may not have been; a   *)
(* delete by query takes the documents that match when it begins, as a     *)
(* search would see them then, and deletes one after the other those that  *)
(* were not written since.  A search sees what was written before the last *)
(* refresh, and possibly what was written later.                           *)
(***************************************************************************)
EXTENDS Integers

CONSTANTS Actors,        \* requests and workers that can be in progress
          VideoIds,
          NoVideo,
          MaxManifests,  \* bound: manifests of a video, in creation order
          MaxComments,   \* bound: versions of the comments of a video
          MaxRuns,       \* bound: reindexes begun
          Faults         \* what may go wrong

ASSUME SearchAssumption ==
    /\ MaxManifests \in Nat
    /\ MaxComments \in Nat
    /\ MaxRuns \in Nat
    /\ Faults \in SUBSET {"crash", "lost write", "lost removal"}
    /\ NoVideo \notin VideoIds

ManifestIds == 1 .. MaxManifests
NoManifest == 0

VARIABLES state,        \* of each video: stored, moderated or deleted
          valid,        \* its valid manifests
          comments,     \* its comments, frozen ones left out
          index,        \* absent, mapped, or created by a write
          docs,         \* the documents in the index
          clock,        \* the reindexes begun
          proc,         \* what each actor is doing
          touched,      \* history: videos not left alone during a task
          unannounced   \* history: videos changed without an event since

dbVars == <<state, valid, comments>>
esVars == <<index, docs>>
vars == <<dbVars, esVars, clock, proc, touched, unannounced>>

-----------------------------------------------------------------------------

NoDoc == [manifest |-> NoManifest, comments |-> 0, stamp |-> 0]

Document == [manifest: ManifestIds, comments: 0 .. MaxComments, stamp: 0 .. MaxRuns]

Kinds == {"handler", "reindex", "rebuild"}

Ops == {"idle", "read", "load", "build", "write", "remove", "delete:video",
        "create:index", "cursor", "scan", "query", "prune"}

\* The operations of a task that scans the database.
ScanOps == {"load", "build", "write", "scan"}

Proc == [op: Ops,
         kind: Kinds,
         vid: VideoIds \cup {NoVideo},
         manifest: ManifestIds \cup {NoManifest},  \* last valid one, as it was read
         doc: Document \cup {NoDoc},               \* built, to be written
         read: [VideoIds -> ManifestIds \cup {NoManifest}],  \* the cursor's batch
         todo: SUBSET VideoIds,                    \* videos of it not yet indexed, or the
                                                   \* documents a prune may count on or take
         since: 0 .. MaxRuns]                      \* when the reindex began

NothingRead == [v \in VideoIds |-> NoManifest]

IdleProc == [op |-> "idle", kind |-> "handler", vid |-> NoVideo,
             manifest |-> NoManifest, doc |-> NoDoc, read |-> NothingRead,
             todo |-> {}, since |-> 0]

Idle(a) == proc[a].op = "idle"
IsTask(a) == proc[a].kind # "handler"
Become(a, p) == proc' = [proc EXCEPT ![a] = p]
Finish(a) == Become(a, IdleProc)

\* The actors' records after documents of S were written or removed: a prune does not
\* see them, or skips them for their version.
Conflicting(S) ==
    [a \in Actors |-> IF proc[a].op \in {"query", "prune"}
                      THEN [proc[a] EXCEPT !.todo = @ \ S] ELSE proc[a]]

\* LastValidManifest of a stored video.
Shown(v) ==
    IF \E m \in valid[v] : \A k \in valid[v] : k <= m
    THEN CHOOSE m \in valid[v] : \A k \in valid[v] : k <= m
    ELSE NoManifest

Init ==
    /\ state = [v \in VideoIds |-> "stored"]
    /\ valid = [v \in VideoIds |-> {}]
    /\ comments = [v \in VideoIds |-> 0]
    /\ index \in {"absent", "mapped"}
    /\ docs = [v \in VideoIds |-> NoDoc]
    /\ clock = 0
    /\ proc = [a \in Actors |-> IdleProc]
    /\ touched = [a \in Actors |-> {}]
    /\ unannounced = {}

-----------------------------------------------------------------------------
(* Changes of the database, and the events they raise.                     *)

\* A change of video v is seen by every task in progress.
Touch(v) ==
    touched' = [a \in Actors |-> IF IsTask(a) THEN touched[a] \cup {v}
                                 ELSE {}]

\* Actor a goes on with the handler of an event about video v.
Handle(a, v, op) == Become(a, [IdleProc EXCEPT !.op = op, !.vid = v])

\* SucceededManifestValidation is saved: ManifestSuccessfulValidatedEvent.
Validated(a, v, m) ==
    /\ Idle(a) /\ state[v] = "stored"
    /\ valid' = [valid EXCEPT ![v] = @ \cup {m}]
    /\ Handle(a, v, "read")
    /\ Touch(v)
    /\ unannounced' = unannounced \ {v}
    /\ UNCHANGED <<state, comments, esVars, clock>>

\* FailedManifestValidation of a manifest that was valid is saved: no event.
Rejected(a, v, m) ==
    /\ Idle(a) /\ state[v] = "stored"
    /\ m \in valid[v]
    /\ valid' = [valid EXCEPT ![v] = @ \ {m}]
    /\ Touch(v)
    /\ unannounced' = unannounced \cup {v}
    /\ UNCHANGED <<state, comments, esVars, clock, proc>>

\* A comment of the video is created, edited or removed.  Its handler does nothing for
\* a video without a valid manifest.
Commented(a, v) ==
    /\ Idle(a) /\ state[v] # "deleted"
    /\ comments[v] < MaxComments
    /\ comments' = [comments EXCEPT ![v] = @ + 1]
    /\ Handle(a, v, "read")
    /\ Touch(v)
    /\ unannounced' = IF Shown(v) = NoManifest THEN unannounced ELSE unannounced \ {v}
    /\ UNCHANGED <<state, valid, esVars, clock>>

\* Mutation of Moderated: the video is frozen but goes on showing its manifest.
ModeratedKeepValid(a, v) ==
    /\ Idle(a) /\ state[v] # "deleted"
    /\ state' = [state EXCEPT ![v] = "moderated"]
    /\ Handle(a, v, "remove")
    /\ Touch(v)
    /\ unannounced' = unannounced \ {v}
    /\ UNCHANGED <<valid, comments, esVars, clock>>

\* SetAsUnsuitable is saved, again if it was before: VideoModeratedEvent.
Moderated(a, v) ==
    /\ Idle(a) /\ state[v] # "deleted"
    /\ state' = [state EXCEPT ![v] = "moderated"]
    /\ valid' = [valid EXCEPT ![v] = {}]
    /\ Handle(a, v, "remove")
    /\ Touch(v)
    /\ unannounced' = unannounced \ {v}
    /\ UNCHANGED <<comments, esVars, clock>>

\* The manifests of a video being deleted go first: no handler.
DeleteManifests(a, v) ==
    /\ Idle(a) /\ state[v] # "deleted"
    /\ valid' = [valid EXCEPT ![v] = {}]
    /\ Handle(a, v, "delete:video")
    /\ Touch(v)
    /\ unannounced' = unannounced \cup {v}
    /\ UNCHANGED <<state, comments, esVars, clock>>

\* Then the video: EntityDeletedEvent.
DeleteVideo(a) ==
    LET v == proc[a].vid IN
    /\ proc[a].op = "delete:video"
    /\ state' = [state EXCEPT ![v] = "deleted"]
    /\ valid' = [valid EXCEPT ![v] = {}]
    /\ Handle(a, v, "remove")
    /\ Touch(v)
    /\ unannounced' = unannounced \ {v}
    /\ UNCHANGED <<comments, esVars, clock>>

-----------------------------------------------------------------------------
(* The handlers, and ElasticSearchService.AddVideoAsync, which the tasks    *)
(* call as well.                                                            *)

\* Mutation of ReadVideo: the last valid manifest is not looked at.
ReadAnyVideo(a) ==
    /\ proc[a].op = "read"
    /\ Become(a, [proc[a] EXCEPT !.op = "build", !.manifest = Shown(proc[a].vid)])
    /\ UNCHANGED <<dbVars, esVars, clock, touched, unannounced>>

\* The handler reloads the video, and ends when it is gone or not valid.
ReadVideo(a) ==
    LET p == proc[a] IN
    /\ p.op = "read"
    /\ IF state[p.vid] = "deleted" \/ Shown(p.vid) = NoManifest
       THEN Finish(a)
       ELSE Become(a, [p EXCEPT !.op = "load", !.manifest = Shown(p.vid)])
    /\ UNCHANGED <<dbVars, esVars, clock, touched, unannounced>>

\* The metadata of the manifest is loaded by its id.
LoadMetadata(a) ==
    LET p == proc[a] IN
    /\ p.op = "load"
    /\ p.manifest \in valid[p.vid]
    /\ Become(a, [p EXCEPT !.op = "build"])
    /\ UNCHANGED <<dbVars, esVars, clock, touched, unannounced>>

\* A manifest that was deleted or rejected meanwhile has no metadata: the document
\* cannot be built, and neither handlers nor tasks catch that.
LoadFails(a) ==
    /\ proc[a].op = "load"
    /\ proc[a].manifest \notin valid[proc[a].vid]
    /\ Finish(a)
    /\ UNCHANGED <<dbVars, esVars, clock, touched, unannounced>>

\* The comments are read, and the document is built and stamped.
BuildDocument(a) ==
    LET p == proc[a] IN
    /\ p.op = "build"
    /\ Become(a, [p EXCEPT !.op = "write",
                           !.doc = [manifest |-> p.manifest,
                                    comments |-> comments[p.vid],
                                    stamp |-> clock]])
    /\ UNCHANGED <<dbVars, esVars, clock, touched, unannounced>>

\* After a document was written, a handler ends and a task takes the next video.
Resume(a) ==
    proc' = [Conflicting({proc[a].vid}) EXCEPT ![a] =
                IF IsTask(a) THEN [@ EXCEPT !.op = "scan", !.vid = NoVideo,
                                            !.manifest = NoManifest, !.doc = NoDoc]
                ELSE IdleProc]

\* Mutation of WriteDocument: a document is only written where there is none.
WriteIfNone(a) ==
    LET p == proc[a] IN
    /\ p.op = "write"
    /\ docs' = [docs EXCEPT ![p.vid] = IF @ = NoDoc THEN p.doc ELSE @]
    /\ index' = IF index = "absent" THEN "dynamic" ELSE index
    /\ Resume(a)
    /\ UNCHANGED <<dbVars, clock, touched, unannounced>>

\* IndexDocumentAsync, by the id of the video.
WriteDocument(a) ==
    LET p == proc[a] IN
    /\ p.op = "write"
    /\ docs' = [docs EXCEPT ![p.vid] = p.doc]
    /\ index' = IF index = "absent" THEN "dynamic" ELSE index
    /\ Resume(a)
    /\ UNCHANGED <<dbVars, clock, touched, unannounced>>

\* Mutation of RemoveDocument: the event has no handler.
RemoveNothing(a) ==
    /\ proc[a].op = "remove"
    /\ Finish(a)
    /\ UNCHANGED <<dbVars, esVars, clock, touched, unannounced>>

RemoveDocument(a) ==
    /\ proc[a].op = "remove"
    /\ docs' = [docs EXCEPT ![proc[a].vid] = NoDoc]
    /\ proc' = [Conflicting({proc[a].vid}) EXCEPT ![a] = IdleProc]
    /\ UNCHANGED <<dbVars, index, clock, touched, unannounced>>

\* Elasticsearch does not answer: a handler swallows the exception, in a task it is
\* the end of the job; the answer to a removal is not even looked at.
Lost(a) ==
    /\ \/ proc[a].op = "write" /\ "lost write" \in Faults
       \/ proc[a].op = "remove" /\ "lost removal" \in Faults
    /\ Finish(a)
    /\ UNCHANGED <<dbVars, esVars, clock, touched, unannounced>>

-----------------------------------------------------------------------------
(* ReindexElasticDocumentsTask and RebuildElasticIndexesTask.  A job that   *)
(* fails is begun again by the queue, like a new one.                       *)

\* A task begins while the handlers and tasks in progress are at work.
TouchedAtStart(a) ==
    touched' = [b \in Actors |->
        CASE b = a -> IF \E c \in Actors \ {a} : IsTask(c) THEN VideoIds
                      ELSE {proc[c].vid : c \in Actors} \cap VideoIds
          [] b # a /\ IsTask(b) -> VideoIds
          [] OTHER -> {}]

\* The index exists from here on, and everything indexed is stamped with this run.
BeginReindex(a) ==
    /\ Idle(a) /\ clock < MaxRuns
    /\ index' = IF index = "absent" THEN "mapped" ELSE index
    /\ clock' = clock + 1
    /\ Become(a, [IdleProc EXCEPT !.op = "cursor", !.kind = "reindex",
                                  !.since = clock + 1])
    /\ TouchedAtStart(a)
    /\ UNCHANGED <<dbVars, docs, unannounced>>

\* DestroyIndexesAsync.
BeginRebuild(a) ==
    /\ Idle(a)
    /\ index' = "absent"
    /\ docs' = [v \in VideoIds |-> NoDoc]
    /\ proc' = [Conflicting(VideoIds) EXCEPT ![a] =
                   [IdleProc EXCEPT !.op = "create:index", !.kind = "rebuild"]]
    /\ TouchedAtStart(a)
    /\ UNCHANGED <<dbVars, clock, unannounced>>

\* Mutation of CreateIndex: the index is left to the first write.
CreateNothing(a) ==
    /\ proc[a].op = "create:index"
    /\ Become(a, [proc[a] EXCEPT !.op = "cursor"])
    /\ UNCHANGED <<dbVars, esVars, clock, touched, unannounced>>

\* CreateIndexesAsync: when the index exists already nothing changes, and the error
\* that says so is ignored.
CreateIndex(a) ==
    /\ proc[a].op = "create:index"
    /\ index' = IF index = "absent" THEN "mapped" ELSE index
    /\ Become(a, [proc[a] EXCEPT !.op = "cursor"])
    /\ UNCHANGED <<dbVars, docs, clock, touched, unannounced>>

\* Mutation of ReadBatch: videos without a valid manifest as well.
ReadWholeBatch(a) ==
    /\ proc[a].op = "cursor"
    /\ Become(a, [proc[a] EXCEPT
                     !.op = "scan",
                     !.read = [v \in VideoIds |-> Shown(v)],
                     !.todo = {v \in VideoIds : state[v] # "deleted"}])
    /\ UNCHANGED <<dbVars, esVars, clock, touched, unannounced>>

\* The cursor's batch: the videos stored, with their last valid manifests.
ReadBatch(a) ==
    /\ proc[a].op = "cursor"
    /\ Become(a, [proc[a] EXCEPT
                     !.op = "scan",
                     !.read = [v \in VideoIds |-> Shown(v)],
                     !.todo = {v \in VideoIds : state[v] # "deleted"
                                                /\ Shown(v) # NoManifest}])
    /\ UNCHANGED <<dbVars, esVars, clock, touched, unannounced>>

\* The next video of the batch goes to AddVideoAsync.
Scan(a, v) ==
    /\ proc[a].op = "scan" /\ v \in proc[a].todo
    /\ Become(a, [proc[a] EXCEPT !.op = "load", !.vid = v,
                                 !.manifest = proc[a].read[v], !.todo = @ \ {v}])
    /\ UNCHANGED <<dbVars, esVars, clock, touched, unannounced>>

\* The scan of a reindex is over: the documents so far become visible to searches.
PruneRefresh(a) ==
    /\ proc[a].op = "scan" /\ proc[a].todo = {} /\ proc[a].kind = "reindex"
    /\ index # "absent"
    /\ Become(a, [proc[a] EXCEPT !.op = "query",
                                 !.todo = {v \in VideoIds : docs[v] # NoDoc}])
    /\ UNCHANGED <<dbVars, esVars, clock, touched, unannounced>>

\* Mutation of Pruned: documents stamped at the instant the reindex began as well.
PrunedInclusive(v, since) == docs[v] # NoDoc /\ docs[v].stamp <= since

Pruned(v, since) == docs[v] # NoDoc /\ docs[v].stamp < since

\* Mutation of PruneQuery: nothing is taken.
PruneNothing(a) ==
    /\ proc[a].op = "query"
    /\ index # "absent"
    /\ Become(a, [proc[a] EXCEPT !.op = "prune", !.todo = {}])
    /\ UNCHANGED <<dbVars, esVars, clock, touched, unannounced>>

\* RemoveVideoDocumentsIndexedBeforeAsync begins: the query takes the documents with
\* an older stamp.  One written since the refresh it may see with the stamp it has now;
\* if it sees the one before, the document's version has changed.
PruneQuery(a) ==
    LET p == proc[a] IN
    /\ p.op = "query"
    /\ index # "absent"
    /\ \E S \in SUBSET (VideoIds \ p.todo) :
          Become(a, [p EXCEPT !.op = "prune",
                              !.todo = {v \in p.todo \cup S : Pruned(v, p.since)}])
    /\ UNCHANGED <<dbVars, esVars, clock, touched, unannounced>>

\* One document is deleted, as it has not been written since.
PruneDocument(a, v) ==
    /\ proc[a].op = "prune" /\ v \in proc[a].todo
    /\ docs' = [docs EXCEPT ![v] = NoDoc]
    /\ proc' = [Conflicting({v}) EXCEPT ![a].todo = @ \ {v}]
    /\ UNCHANGED <<dbVars, index, clock, touched, unannounced>>

\* Documents with another version were skipped: the job is done.
PruneDone(a) ==
    /\ proc[a].op = "prune" /\ proc[a].todo = {}
    /\ Finish(a)
    /\ UNCHANGED <<dbVars, esVars, clock, touched, unannounced>>

\* A rebuild has dropped the index: it can be neither refreshed nor queried, and the
\* job fails.
PruneFails(a) ==
    /\ \/ proc[a].op = "scan" /\ proc[a].todo = {} /\ proc[a].kind = "reindex"
       \/ proc[a].op = "query"
    /\ index = "absent"
    /\ Finish(a)
    /\ UNCHANGED <<dbVars, esVars, clock, touched, unannounced>>

RebuildDone(a) ==
    /\ proc[a].op = "scan" /\ proc[a].todo = {} /\ proc[a].kind = "rebuild"
    /\ Finish(a)
    /\ UNCHANGED <<dbVars, esVars, clock, touched, unannounced>>

-----------------------------------------------------------------------------

\* The process of an actor dies: what it did stays done, its events are lost.
Crash(a) ==
    /\ ~Idle(a) /\ "crash" \in Faults
    /\ Finish(a)
    /\ UNCHANGED <<dbVars, esVars, clock, touched, unannounced>>

Progress(a) ==
    \/ DeleteVideo(a)
    \/ ReadVideo(a) \/ LoadMetadata(a) \/ LoadFails(a) \/ BuildDocument(a)
    \/ WriteDocument(a) \/ RemoveDocument(a)
    \/ CreateIndex(a) \/ ReadBatch(a)
    \/ \E v \in VideoIds : Scan(a, v)
    \/ PruneRefresh(a) \/ PruneQuery(a) \/ PruneDone(a) \/ PruneFails(a)
    \/ \E v \in VideoIds : PruneDocument(a, v)
    \/ RebuildDone(a)

Change(a) ==
    \/ \E v \in VideoIds, m \in ManifestIds : Validated(a, v, m) \/ Rejected(a, v, m)
    \/ \E v \in VideoIds : Commented(a, v) \/ Moderated(a, v) \/ DeleteManifests(a, v)

Next ==
    \E a \in Actors :
        \/ Change(a)
        \/ BeginReindex(a) \/ BeginRebuild(a)
        \/ Progress(a)
        \/ Lost(a) \/ Crash(a)

Spec == Init /\ [][Next]_vars

\* A request or a job begun goes on to its end.
Fairness == \A a \in Actors : WF_vars(Progress(a))

FairSpec == Spec /\ Fairness

-----------------------------------------------------------------------------

TypeOK ==
    /\ state \in [VideoIds -> {"stored", "moderated", "deleted"}]
    /\ valid \in [VideoIds -> SUBSET ManifestIds]
    /\ comments \in [VideoIds -> 0 .. MaxComments]
    /\ index \in {"absent", "mapped", "dynamic"}
    /\ docs \in [VideoIds -> Document \cup {NoDoc}]
    /\ clock \in 0 .. MaxRuns
    /\ proc \in [Actors -> Proc]
    /\ touched \in [Actors -> SUBSET VideoIds]
    /\ unannounced \in SUBSET VideoIds

\* The document of a video is the one its indexing would write now.
Synced(v) ==
    IF state[v] = "deleted" \/ Shown(v) = NoManifest
    THEN docs[v] = NoDoc
    ELSE docs[v].manifest = Shown(v) /\ docs[v].comments = comments[v]

AtRest == \A a \in Actors : Idle(a)

(* README, "indexed in Elasticsearch and kept in sync with the domain        *)
(* through events": with nothing in progress, every document is the one its  *)
(* video calls for.                                                          *)
InSync == AtRest => \A v \in VideoIds : Synced(v)

(* The same, of the videos whose last change raised an event: no order of    *)
(* validations, comments, moderations, deletions and tasks, run one after    *)
(* the other, leaves a document behind its video.                            *)
AnnouncedInSync == AtRest => \A v \in VideoIds \ unannounced : Synced(v)

(* Manifests are validated "before becoming searchable": a video that a      *)
(* validation has made valid gets a document with that manifest, unless the  *)
(* video changes again.                                                      *)
SearchableEventually ==
    \A v \in VideoIds, m \in ManifestIds :
        Shown(v) = m /\ v \notin unannounced ~> docs[v].manifest = m \/ Shown(v) # m
                                                \/ v \in unannounced

(* IVideoService, "Delete a video and all dependencies" and "Remove video    *)
(* manifests": a video moderated or deleted leaves the index, and neither a  *)
(* comment on it nor a maintenance task ever brings it back.                 *)
WithdrawnGoesForGood ==
    \A v \in VideoIds : state[v] # "stored" ~> [](docs[v] = NoDoc)

\* Actor a completes a maintenance task in this step.
Completes(a) == PruneDone(a) \/ RebuildDone(a)

(* IReindexElasticDocumentsTask, "the operation for routine reconciliation", *)
(* and IRebuildElasticIndexesTask, "to recover from a drifted index": when a *)
(* task completes, every video that nobody touched while it ran has the      *)
(* document it calls for, whatever crashes, lost writes and lost removals    *)
(* had done to the index before.                                             *)
TaskReconciles ==
    [][\A a \in Actors : Completes(a) =>
          \A v \in VideoIds \ touched[a] : Synced(v)']_vars

(* A rebuild that no request races leaves an index with the mapping that     *)
(* CreateIndexesAsync gives it.                                              *)
RebuildRestoresMapping ==
    [][\A a \in Actors : RebuildDone(a) /\ touched[a] = {} => index' = "mapped"]_vars

(* ReindexElasticDocumentsTask: after the scan, "anything still carrying an    *)
(* older stamp afterwards was not refreshed and is therefore an orphan to be *)
(* pruned".                                                                  *)
RefreshedAreKept ==
    [][\A a \in Actors, v \in VideoIds : PruneDocument(a, v) =>
          proc[a].read[v] = NoManifest]_vars

(* RemoveDocumentsIndexedBeforeAsync: "a document just rewritten is fresh by *)
(* definition": a document built since the reindex began is never taken by   *)
(* its prune, whatever handlers write between the refresh, the query and the *)
(* deletions.                                                                *)
FreshAreKept ==
    [][\A a \in Actors, v \in VideoIds : PruneDocument(a, v) =>
          docs[v].stamp < proc[a].since]_vars

-----------------------------------------------------------------------------
(* The catalog this index implements.                                      *)

Withdrawn == {v \in VideoIds : state[v] # "stored"}

\* What an actor read of videos and may still index: by the step in progress, and for
\* the rest of a task's batch.
Held(p) ==
    (IF p.op \in {"load", "build", "write"} THEN {<<p.vid, p.manifest>>} ELSE {})
    \cup (IF p.op \in ScanOps THEN {<<v, p.read[v]>> : v \in p.todo} ELSE {})

Reads == UNION {Held(proc[a]) : a \in Actors}

Catalog ==
    INSTANCE SearchCatalog
    WITH Videos <- VideoIds, Manifests <- ManifestIds,
         withdrawn <- Withdrawn,
         shown <- [v \in VideoIds |-> Shown(v)],
         reads <- Reads,
         catalog <- [v \in VideoIds |-> docs[v].manifest]

(* Every step of the handlers, the tasks and the database is a step of the   *)
(* catalog, or leaves it as it is: whatever crashes, lost writes and         *)
(* interleavings do, a document holds what its video once showed, and a      *)
(* withdrawn video that is gone from the index stays gone.                   *)
CatalogSpec == Catalog!CatalogSpec

(* IVideoService, "keep video model as a trace" of a moderated video, and    *)
(* the handlers of comments, which do not look at whether it is frozen: once *)
(* a video moderated or deleted is out of the index and no reader holds it,  *)
(* nothing brings it back, whatever crashes and interleavings come.          *)
WithdrawnStayOut == Catalog!GoneStays

=============================================================================
