----------------------------- MODULE VideoStore -----------------------------
(***************************************************************************)
(* The videos and manifests collections, the requests and jobs that change *)
(* them, and the job queue between the two.                                *)
(*                                                                         *)
(* An actor is an API request, an admin page post or a Hangfire worker: it *)
(* runs one operation at a time, step by step, and works on the models it  *)
(* has read (proc[a].doc, proc[a].val), not on what the database holds.    *)
(* Steps of different actors interleave; each step is one await.  What an  *)
(* operation does to its models in memory is computed when it saves them.  *)
(*                                                                         *)
(* Assumed of the outside (Scrinium 0.25.5, MongoDB, Hangfire):            *)
(*   - SaveChangesAsync and DeleteAsync with its cascades are atomic;      *)
(*   - a save replaces what is stored, with no version check.  SaveModes   *)
(*     says what it replaces: the whole document (TRUE), or only the       *)
(*     members that differ from what was read (FALSE).  BOOLEAN leaves it  *)
(*     open;                                                               *)
(*   - a save or a deletion of a document that is gone changes nothing;    *)
(*   - a listed manifest whose document is gone reads as not validated;    *)
(*   - a job is delivered at least once, and retried until its attempts    *)
(*     are over.                                                           *)
(***************************************************************************)
EXTENDS VideoAggregate, FiniteSets

CONSTANTS Actors,        \* requests and workers that can be in progress
          VideoIds,      \* ids the database can assign to videos
          Refs,          \* Swarm references of published manifests
          NoVideo,
          NoRef,
          MaxManifests,  \* bound: manifests ever constructed
          MaxAttempts,   \* attempts of a job before it is given up
          MaxForced,     \* bound: jobs queued when another is forced
          SaveModes,     \* does a save replace the whole document?
          Faults         \* what may crash, and see its calls fail

ASSUME StoreAssumption ==
    /\ MaxManifests \in Nat
    /\ MaxAttempts \in Nat \ {0}
    /\ MaxForced \in Nat
    /\ SaveModes \in SUBSET BOOLEAN
    /\ Faults \in SUBSET {"request", "job"}
    /\ NoVideo \notin VideoIds
    /\ NoRef \notin Refs

ManifestIds == 1 .. MaxManifests

VARIABLES videoState,  \* of each video id: unborn, stored or deleted
          videos,      \* the videos collection
          manifests,   \* the manifests collection
          built,       \* how many manifests were constructed
          jobs,        \* the validation jobs queued
          proc,        \* what each actor is doing
          home,        \* history: the video a manifest was stored for
          accepted     \* history: manifests some validation found valid

vars == <<videoState, videos, manifests, built, jobs, proc, home,
          accepted>>

dbVars == <<videoState, videos, manifests>>

-----------------------------------------------------------------------------

VideoDoc == [frozen: BOOLEAN,
             last: ManifestIds \cup {NoManifest},
             list: SUBSET ManifestIds]

Job == [vid: VideoIds, ref: Refs, attempt: 1 .. MaxAttempts]

ValidateOps ==
    {"validate:load", "validate:save", "validate:events"}

Ops == {"idle", "create:manifest", "update:lookup", "update:manifest", "link",
        "enqueue", "delete:manifests", "moderate:save", "moderate:manifests",
        "vote:save"}
       \cup ValidateOps

Proc == [op: Ops,
         vid: VideoIds \cup {NoVideo},
         ref: Refs \cup {NoRef},
         mid: ManifestIds \cup {NoManifest},
         doc: VideoDoc,                        \* the video, as it was read
         val: [ManifestIds -> Validity],       \* its manifests, as they were read
         todo: SUBSET ManifestIds,             \* manifests still to delete
         attempt: 0 .. MaxAttempts]

\* What each step needs to know is known.
WellFormed(p) ==
    /\ p.op # "idle" => p.vid # NoVideo
    /\ p.op \in {"update:manifest", "link", "validate:save"} => p.mid # NoManifest
    /\ p.op \in ValidateOps \cup {"create:manifest", "update:lookup",
                               "update:manifest", "link", "enqueue"} => p.ref # NoRef
    /\ p.op \in ValidateOps => p.attempt # 0

NothingRead == [m \in ManifestIds |-> "pending"]

IdleProc == [op |-> "idle", vid |-> NoVideo, ref |-> NoRef,
             mid |-> NoManifest, doc |-> EmptyVideo, val |-> NothingRead,
             todo |-> {}, attempt |-> 0]

UnbornManifest == [state |-> "unborn", ref |-> NoRef, valid |-> "pending"]
DeletedManifest == [state |-> "deleted", ref |-> NoRef, valid |-> "pending"]

ManifestDoc == {UnbornManifest, DeletedManifest}
               \cup [state: {"stored"}, ref: Refs, valid: Validity]

StoredManifests == {m \in ManifestIds : manifests[m].state = "stored"}

\* A manifest document holds reference r.
Claimed(r) == \E m \in StoredManifests : manifests[m].ref = r

\* What LoadVideoManifestsAsync and the job's LoadValuesAsync read for a list.
LoadedValidity(list) ==
    [m \in ManifestIds |-> IF m \in list THEN manifests[m].valid ELSE "pending"]
LoadedRefs == [m \in ManifestIds |-> manifests[m].ref]

Idle(a) == proc[a].op = "idle"
Become(a, p) == proc' = [proc EXCEPT ![a] = p]
Finish(a) == Become(a, IdleProc)

\* Room for another construction among those already under way (bound only).
CanBuild ==
    built + Cardinality({b \in Actors : proc[b].op \in {"create:manifest",
                                                        "update:lookup"}})
        < MaxManifests

Init ==
    /\ videoState = [v \in VideoIds |-> "unborn"]
    /\ videos = [v \in VideoIds |-> EmptyVideo]
    /\ manifests = [m \in ManifestIds |-> UnbornManifest]
    /\ built = 0
    /\ jobs = {}
    /\ proc = [a \in Actors |-> IdleProc]
    /\ home = [m \in ManifestIds |-> NoVideo]
    /\ accepted = {}

-----------------------------------------------------------------------------
(* CreateVideoAsync.  A reference already claimed ends the request at once, *)
(* as an idempotent call or a conflict, and changes nothing.                *)

\* No manifest has the reference: the video document is created.
CreateVideo(a, v, r) ==
    /\ Idle(a) /\ CanBuild
    /\ ~Claimed(r)
    /\ videoState[v] = "unborn"
    /\ videoState' = [videoState EXCEPT ![v] = "stored"]
    /\ Become(a, [IdleProc EXCEPT !.op = "create:manifest",
                                  !.vid = v, !.ref = r])
    /\ UNCHANGED <<videos, manifests, built, jobs, home, accepted>>

\* Mutation of StoreManifest: no unique index refuses a second document.
StoreManifestTwice(a, m) ==
    /\ manifests' = [manifests EXCEPT ![m] = [state |-> "stored",
                                              ref |-> proc[a].ref,
                                              valid |-> "pending"]]
    /\ home' = [home EXCEPT ![m] = proc[a].vid]
    /\ UNCHANGED <<videoState, videos, jobs, accepted>>

\* VideoManifests.CreateAsync, through the unique index on the reference.
StoreManifest(a, m) ==
    /\ ~Claimed(proc[a].ref)
    /\ manifests' = [manifests EXCEPT ![m] = [state |-> "stored",
                                              ref |-> proc[a].ref,
                                              valid |-> "pending"]]
    /\ home' = [home EXCEPT ![m] = proc[a].vid]
    /\ UNCHANGED <<videoState, videos, jobs, accepted>>

\* The manifest is constructed and stored.  The video it will be added to is the
\* model this request created.
CreateManifest(a) ==
    LET m == built + 1 IN
    /\ proc[a].op = "create:manifest" /\ m \in ManifestIds
    /\ built' = m
    /\ StoreManifest(a, m)
    /\ Become(a, [proc[a] EXCEPT !.op = "link", !.mid = m])

\* The index refuses the document: the video just created stays without any.
CreateManifestRefused(a) ==
    /\ proc[a].op = "create:manifest"
    /\ Claimed(proc[a].ref)
    /\ Finish(a)
    /\ UNCHANGED <<dbVars, built, jobs, home, accepted>>

-----------------------------------------------------------------------------
(* UpdateVideoHelperAsync.  The caller is the video's owner; other callers  *)
(* are refused before anything is read for them.                            *)

UpdateRead(a, v, r) ==
    /\ Idle(a) /\ CanBuild
    /\ videoState[v] = "stored"
    /\ Become(a, [IdleProc EXCEPT !.op = "update:lookup", !.vid = v,
                                  !.ref = r, !.doc = videos[v]])
    /\ UNCHANGED <<dbVars, built, jobs, home, accepted>>

\* The reference is claimed (same video: idempotent, other video: conflict), or
\* AddManifest throws.
UpdateRefused(a) ==
    /\ proc[a].op = "update:lookup"
    /\ \/ Claimed(proc[a].ref)
       \/ ~CanAdd(proc[a].doc, LoadedRefs, proc[a].ref)
    /\ Finish(a)
    /\ UNCHANGED <<dbVars, built, jobs, home, accepted>>

\* Mutation of UpdateAdd: a document that has the reference is linked as it is.
UpdateAdopt(a) ==
    /\ proc[a].op = "update:lookup"
    /\ \E m \in StoredManifests :
          /\ manifests[m].ref = proc[a].ref
          /\ Become(a, [proc[a] EXCEPT !.op = "link", !.mid = m,
                                       !.val = LoadedValidity(proc[a].doc.list)])
    /\ UNCHANGED <<dbVars, built, jobs, home, accepted>>

\* The manifests listed by the model read earlier are loaded, and the new one is
\* constructed and added in memory.
UpdateAdd(a) ==
    LET m == built + 1 IN
    /\ proc[a].op = "update:lookup" /\ m \in ManifestIds
    /\ ~Claimed(proc[a].ref)
    /\ CanAdd(proc[a].doc, LoadedRefs, proc[a].ref)
    /\ built' = m
    /\ Become(a, [proc[a] EXCEPT !.op = "update:manifest", !.mid = m,
                                 !.val = LoadedValidity(proc[a].doc.list)])
    /\ UNCHANGED <<dbVars, jobs, home, accepted>>

UpdateManifest(a) ==
    /\ proc[a].op = "update:manifest"
    /\ StoreManifest(a, proc[a].mid)
    /\ Become(a, [proc[a] EXCEPT !.op = "link"])
    /\ UNCHANGED built

UpdateManifestRefused(a) ==
    /\ proc[a].op = "update:manifest"
    /\ Claimed(proc[a].ref)
    /\ Finish(a)
    /\ UNCHANGED <<dbVars, built, jobs, home, accepted>>

-----------------------------------------------------------------------------
(* The end of both: the changed video is saved, then a job is enqueued.     *)

\* SaveChangesAsync of a video model that was read as `read': nothing is written
\* when the document is gone.
SaveVideo(v, read, model) ==
    \E whole \in SaveModes :
        LET Written(old, new, stored) == IF whole \/ new # old THEN new ELSE stored
        IN  videos' = IF videoState[v] = "stored"
                      THEN [videos EXCEPT ![v] =
                        [frozen |-> Written(read.frozen, model.frozen, @.frozen),
                         last |-> Written(read.last, model.last, @.last),
                         list |-> Written(read.list, model.list, @.list)]]
                      ELSE videos

Link(a) ==
    LET p == proc[a] IN
    /\ p.op = "link"
    /\ SaveVideo(p.vid, p.doc, AddManifest(p.doc, p.val, p.mid))
    /\ Become(a, [IdleProc EXCEPT !.op = "enqueue", !.vid = p.vid, !.ref = p.ref])
    /\ UNCHANGED <<videoState, manifests, built, jobs, home, accepted>>

NewJob(v, r) == [vid |-> v, ref |-> r, attempt |-> 1]

\* Mutation of Enqueue: the request ends without a job.
EnqueueNothing(a) ==
    /\ proc[a].op = "enqueue"
    /\ Finish(a)
    /\ UNCHANGED <<dbVars, built, jobs, home, accepted>>

Enqueue(a) ==
    /\ proc[a].op = "enqueue"
    /\ jobs' = jobs \cup {NewJob(proc[a].vid, proc[a].ref)}
    /\ Finish(a)
    /\ UNCHANGED <<dbVars, built, home, accepted>>

-----------------------------------------------------------------------------
(* ForceVideoManifestValidationAsync, both overloads, and the admin page's  *)
(* ForceNewValidation: jobs for all manifests of a video, or for one.       *)

\* A listed manifest whose document is gone has no reference to enqueue.
ListedStored(v) == videos[v].list \cap StoredManifests

ForceVideo(v) ==
    /\ videoState[v] = "stored"
    /\ Cardinality(jobs) < MaxForced
    /\ jobs' = jobs \cup {NewJob(v, manifests[m].ref) : m \in ListedStored(v)}
    /\ UNCHANGED <<dbVars, built, proc, home, accepted>>

ForceManifest(v, m) ==
    /\ videoState[v] = "stored"
    /\ m \in ListedStored(v)
    /\ Cardinality(jobs) < MaxForced
    /\ jobs' = jobs \cup {NewJob(v, manifests[m].ref)}
    /\ UNCHANGED <<dbVars, built, proc, home, accepted>>

-----------------------------------------------------------------------------
(* VideoService.DeleteVideoAsync, from the owner's request, and             *)
(* ModerateUnsuitableVideoAsync, from the API or a negative review.         *)

DeleteRead(a, v) ==
    /\ Idle(a)
    /\ videoState[v] = "stored"
    /\ Become(a, [IdleProc EXCEPT !.op = "delete:manifests", !.vid = v,
                                  !.todo = videos[v].list])
    /\ UNCHANGED <<dbVars, built, jobs, home, accepted>>

\* Deletion of one manifest document, with the references videos have to it.
RemoveManifest(m) ==
    IF m \in StoredManifests
    THEN /\ manifests' = [manifests EXCEPT ![m] = DeletedManifest]
         /\ videos' = [v \in VideoIds |-> WithoutManifest(videos[v], m)]
    ELSE UNCHANGED <<manifests, videos>>

DeleteManifest(a, m) ==
    /\ proc[a].op \in {"delete:manifests", "moderate:manifests"}
    /\ m \in proc[a].todo
    /\ RemoveManifest(m)
    /\ Become(a, [proc[a] EXCEPT !.todo = @ \ {m}])
    /\ UNCHANGED <<videoState, built, jobs, home, accepted>>

DeleteVideo(a) ==
    /\ proc[a].op = "delete:manifests" /\ proc[a].todo = {}
    /\ videoState' = [videoState EXCEPT ![proc[a].vid] = "deleted"]
    /\ videos' = [videos EXCEPT ![proc[a].vid] = EmptyVideo]
    /\ Finish(a)
    /\ UNCHANGED <<manifests, built, jobs, home, accepted>>

\* Mutation of ModerateRead: the list to delete is taken after it was cleared.
ModerateReadLate(a, v) ==
    /\ Idle(a)
    /\ videoState[v] = "stored"
    /\ Become(a, [IdleProc EXCEPT !.op = "moderate:save", !.vid = v,
                                  !.doc = videos[v]])
    /\ UNCHANGED <<dbVars, built, jobs, home, accepted>>

ModerateRead(a, v) ==
    /\ Idle(a)
    /\ videoState[v] = "stored"
    /\ Become(a, [IdleProc EXCEPT !.op = "moderate:save", !.vid = v,
                                  !.doc = videos[v],
                                  !.todo = videos[v].list])
    /\ UNCHANGED <<dbVars, built, jobs, home, accepted>>

ModerateSave(a) ==
    /\ proc[a].op = "moderate:save"
    /\ SaveVideo(proc[a].vid, proc[a].doc, SetAsUnsuitable(proc[a].doc))
    /\ Become(a, [proc[a] EXCEPT !.op = "moderate:manifests", !.doc = EmptyVideo])
    /\ UNCHANGED <<videoState, manifests, built, jobs, home, accepted>>

ModerateDone(a) ==
    /\ proc[a].op = "moderate:manifests" /\ proc[a].todo = {}
    /\ Finish(a)
    /\ UNCHANGED <<dbVars, built, jobs, home, accepted>>

-----------------------------------------------------------------------------
(* VoteVideAsync, of which this module keeps that it saves the video: the   *)
(* model read before the votes are changed and counted, with new totals.    *)

VoteRead(a, v) ==
    /\ Idle(a)
    /\ videoState[v] = "stored"
    /\ Become(a, [IdleProc EXCEPT !.op = "vote:save", !.vid = v, !.doc = videos[v]])
    /\ UNCHANGED <<dbVars, built, jobs, home, accepted>>

VoteSave(a) ==
    /\ proc[a].op = "vote:save"
    /\ SaveVideo(proc[a].vid, proc[a].doc, proc[a].doc)
    /\ Finish(a)
    /\ UNCHANGED <<videoState, manifests, built, jobs, home, accepted>>

-----------------------------------------------------------------------------
(* VideoManifestValidatorTask.RunAsync.                                     *)

JobOf(p, n) == [vid |-> p.vid, ref |-> p.ref, attempt |-> n]

\* After an exception in attempt n: the next attempt is scheduled, or none is
\* left and the job waits among the failed ones for an administrator.
Retry(p, n) == IF n < MaxAttempts THEN {JobOf(p, n + 1)} ELSE {}

\* A worker takes a job, fetches the manifest from Swarm, then reads the video.
StartValidation(a, j) ==
    /\ Idle(a)
    /\ j \in jobs
    /\ videoState[j.vid] = "stored"
    /\ jobs' = jobs \ {j}
    /\ Become(a, [IdleProc EXCEPT !.op = "validate:load", !.vid = j.vid,
                                  !.ref = j.ref, !.attempt = j.attempt,
                                  !.doc = videos[j.vid]])
    /\ UNCHANGED <<dbVars, built, home, accepted>>

\* The video is gone.
StartRefused(a, j) ==
    /\ Idle(a)
    /\ j \in jobs
    /\ videoState[j.vid] # "stored"
    /\ jobs' = (jobs \ {j}) \cup Retry(j, j.attempt)
    /\ UNCHANGED <<dbVars, built, proc, home, accepted>>

\* The manifests of the video's own list that have the job's reference.
Resolved(p) == {m \in p.doc.list \cap StoredManifests : manifests[m].ref = p.ref}

\* Mutation of ValidateLoad: a manifest that is not found is not an error.
ValidateLoadAny(a) ==
    /\ proc[a].op = "validate:load"
    /\ \E m \in Resolved(proc[a]) \cup {NoManifest} :
          Become(a, [proc[a] EXCEPT !.op = "validate:save", !.mid = m,
                                    !.val = LoadedValidity(proc[a].doc.list)])
    /\ UNCHANGED <<dbVars, built, jobs, home, accepted>>

ValidateLoad(a) ==
    /\ proc[a].op = "validate:load"
    /\ \E m \in Resolved(proc[a]) :
          Become(a, [proc[a] EXCEPT !.op = "validate:save", !.mid = m,
                                    !.val = LoadedValidity(proc[a].doc.list)])
    /\ UNCHANGED <<dbVars, built, jobs, home, accepted>>

\* Mutation of ValidateSave: a document that is gone is written again.
ValidateSaveUpsert(a, outcome) ==
    LET p == proc[a] IN
    /\ p.op = "validate:save"
    /\ manifests' = [manifests EXCEPT ![p.mid] = [state |-> "stored",
                                                  ref |-> p.ref,
                                                  valid |-> outcome]]
    /\ accepted' = IF outcome = "valid" THEN accepted \cup {p.mid} ELSE accepted
    /\ SaveVideo(p.vid, p.doc, SetOutcome(p.doc, p.val, p.mid, outcome))
    /\ Become(a, [IdleProc EXCEPT !.op = "validate:events", !.vid = p.vid,
                                  !.ref = p.ref, !.attempt = p.attempt])
    /\ UNCHANGED <<videoState, built, jobs, home>>

\* The outcome is what Swarm answered: a manifest of a supported schema, or not.
ValidateSave(a, outcome) ==
    LET p == proc[a] IN
    /\ p.op = "validate:save"
    /\ manifests' = [manifests EXCEPT ![p.mid].valid =
                        IF p.mid \in StoredManifests THEN outcome ELSE @]
    /\ accepted' = IF outcome = "valid" THEN accepted \cup {p.mid} ELSE accepted
    /\ SaveVideo(p.vid, p.doc, SetOutcome(p.doc, p.val, p.mid, outcome))
    /\ Become(a, [IdleProc EXCEPT !.op = "validate:events", !.vid = p.vid,
                                  !.ref = p.ref, !.attempt = p.attempt])
    /\ UNCHANGED <<videoState, built, jobs, home>>

\* The saved events are dispatched, and the job is done.  Until then a crash or a
\* handler that throws delivers it again.
ValidateDone(a) ==
    /\ proc[a].op = "validate:events"
    /\ Finish(a)
    /\ UNCHANGED <<dbVars, built, jobs, home, accepted>>

\* The video does not list the manifest any more, or a call of the job throws.
ValidateFault(a) ==
    LET p == proc[a] IN
    /\ \/ p.op = "validate:load" /\ Resolved(p) = {}
       \/ "job" \in Faults /\ p.op \in ValidateOps
    /\ jobs' = jobs \cup Retry(p, p.attempt)
    /\ Finish(a)
    /\ UNCHANGED <<dbVars, built, home, accepted>>

-----------------------------------------------------------------------------

\* An actor dies, or a call of a request throws: what it did stays done, what it
\* had in memory is lost.  A job it was running is delivered again.
Crash(a) ==
    LET p == proc[a] IN
    /\ ~Idle(a)
    /\ (IF p.op \in ValidateOps THEN "job" ELSE "request") \in Faults
    /\ jobs' = IF p.op \in ValidateOps THEN jobs \cup {JobOf(p, p.attempt)}
               ELSE jobs
    /\ Finish(a)
    /\ UNCHANGED <<dbVars, built, home, accepted>>

\* The steps that bring the operation an actor has begun to its end.
Progress(a) ==
    \/ CreateManifest(a) \/ CreateManifestRefused(a)
    \/ UpdateRefused(a) \/ UpdateAdd(a)
    \/ UpdateManifest(a) \/ UpdateManifestRefused(a)
    \/ Link(a) \/ Enqueue(a)
    \/ \E m \in ManifestIds : DeleteManifest(a, m)
    \/ DeleteVideo(a)
    \/ ModerateSave(a) \/ ModerateDone(a)
    \/ VoteSave(a)
    \/ ValidateLoad(a)
    \/ \E o \in {"valid", "invalid"} : ValidateSave(a, o)
    \/ ValidateDone(a)
    \/ ValidateFault(a)

\* The calls and jobs an idle actor may begin.
Begin(a) ==
    \/ \E v \in VideoIds, r \in Refs : CreateVideo(a, v, r) \/ UpdateRead(a, v, r)
    \/ \E v \in VideoIds : DeleteRead(a, v) \/ ModerateRead(a, v) \/ VoteRead(a, v)
    \/ \E j \in jobs : StartValidation(a, j) \/ StartRefused(a, j)

Next ==
    \/ \E a \in Actors : Begin(a) \/ Progress(a) \/ Crash(a)
    \/ \E v \in VideoIds : ForceVideo(v)
    \/ \E v \in VideoIds, m \in ManifestIds : ForceManifest(v, m)

Spec == Init /\ [][Next]_vars

\* An operation begun goes on, and the queue serves every job: Hangfire's workers
\* poll it in order.  Nothing obliges a caller to call.
Fairness ==
    /\ \A a \in Actors : WF_vars(Progress(a))
    /\ \A j \in Job : SF_vars(\E a \in Actors : StartValidation(a, j) \/ StartRefused(a, j))

FairSpec == Spec /\ Fairness

-----------------------------------------------------------------------------

TypeOK ==
    /\ videoState \in [VideoIds -> {"unborn", "stored", "deleted"}]
    /\ videos \in [VideoIds -> VideoDoc]
    /\ manifests \in [ManifestIds -> ManifestDoc]
    /\ built \in 0 .. MaxManifests
    /\ jobs \in SUBSET Job
    /\ proc \in [Actors -> Proc]
    /\ \A a \in Actors : WellFormed(proc[a])
    /\ home \in [ManifestIds -> VideoIds \cup {NoVideo}]
    /\ accepted \in SUBSET ManifestIds

(* Two manifest documents never hold the same reference, whatever requests   *)
(* race between the lookup and the insertion: IndexApiHandler looks the      *)
(* reference up first, the unique index of IndexDbContext has the last word. *)
ReferenceClaimedOnce ==
    \A m, k \in StoredManifests : manifests[m].ref = manifests[k].ref => m = k

(* A video never lists or shows a manifest stored for another video, however *)
(* stale the model that a request or a job saves.                            *)
ListsOwnManifests ==
    \A v \in VideoIds : \A m \in videos[v].list \cup ({videos[v].last} \ {NoManifest}) :
        home[m] = v

\* What a moderation makes of a video, whatever it read, and the operations that are going to
\* save the model of a video as they read it, with their changes.
Unsuitable == SetAsUnsuitable(EmptyVideo)
CarryingOps == {"create:manifest", "update:lookup", "update:manifest", "link", "vote:save",
                "validate:load", "validate:save"}

\* A video was moderated, and whoever carries a model of it has read it since.
Settled(v) ==
    /\ videoState[v] = "stored" /\ videos[v] = Unsuitable
    /\ \A a \in Actors :
          proc[a].op \in CarryingOps /\ proc[a].vid = v => proc[a].doc = Unsuitable

(* IVideoService on moderation: it keeps the video "as a trace" without      *)
(* manifests.  However many requests and jobs are at work on the video, only *)
(* one that read it before the moderation can undo that: once these are over *)
(* it stays frozen and empty until it is deleted.                            *)
ModerationSettles ==
    [][\A v \in VideoIds : Settled(v) => Settled(v)' \/ videoState'[v] = "deleted"]_vars

(* The manifest a video shows passed a validation: no interleaving of an     *)
(* update, a failing validation and a stale save publishes one that never    *)
(* did.                                                                      *)
ShownWasAccepted ==
    \A v \in VideoIds : videos[v].last # NoManifest => videos[v].last \in accepted

-----------------------------------------------------------------------------
(* What holds while one operation runs at a time.                          *)

AtRest == \A a \in Actors : Idle(a)

ListedValid(v) ==
    {m \in videos[v].list \cap StoredManifests : manifests[m].valid = "valid"}

IsNewestValid(v, m) == m \in ListedValid(v) /\ \A k \in ListedValid(v) : k <= m

(* UpdateLastValidManifest: the manifest a video shows is the newest valid   *)
(* one it lists, once no operation is in progress.                           *)
ShowsNewestValid ==
    AtRest => \A v \in VideoIds :
        ~videos[v].frozen =>
            IF ListedValid(v) = {} THEN videos[v].last = NoManifest
            ELSE IsNewestValid(v, videos[v].last)

(* OrderByDescending(CreationDateTime) in UpdateLastValidManifest, and the   *)
(* validator's comment "the models read after it are the freshest when the   *)
(* validation outcome is saved": an older manifest never takes the place of  *)
(* a newer one that is still listed and valid.                               *)
NewerValidStays ==
    [][\A v \in VideoIds :
          LET m == videos[v].last IN
          /\ m # NoManifest
          /\ m \in videos'[v].list
          /\ manifests'[m].state = "stored" /\ manifests'[m].valid = "valid"
          => videos'[v].last \in {NoManifest} \cup m .. MaxManifests]_vars

(* A video never shows a manifest while it lists a newer valid one, whatever *)
(* steps of a creation, update, deletion or moderation a crash has skipped.  *)
NeverShowsOlder ==
    \A v \in VideoIds :
        videos[v].last # NoManifest => IsNewestValid(v, videos[v].last)

(* IVideoService on moderation: "Remove video manifests, and keep video      *)
(* model as a trace".                                                        *)
ModeratedHasNoManifests ==
    AtRest => \A v \in VideoIds :
        videos[v].frozen => videos[v].list = {} /\ videos[v].last = NoManifest

(* Every manifest document belongs to the list of its video, so its          *)
(* reference can be resolved, validated and deleted with the video.          *)
NoOrphanManifest ==
    AtRest => \A m \in StoredManifests : m \in videos[home[m]].list

(* A video once moderated stays frozen and without manifests until deleted:  *)
(* no request begun later, and no job, brings its content back.              *)
ModerationIsFinal ==
    [][\A v \in VideoIds : videos[v].frozen =>
          /\ videos'[v].list = {}
          /\ videos'[v].frozen \/ videoState'[v] = "deleted"]_vars

Undecided(v, m) ==
    m \in ListedStored(v) /\ manifests[m].valid = "pending"

(* README: manifests "are fetched from the Swarm gateway and validated       *)
(* asynchronously": one that a video lists gets its outcome, unless the      *)
(* video drops it first.                                                     *)
EveryManifestDecided ==
    \A v \in VideoIds, m \in ManifestIds : Undecided(v, m) ~> ~Undecided(v, m)

-----------------------------------------------------------------------------
(* The registry of manifests this store implements.                         *)

Status(m) ==
    CASE manifests[m].state = "unborn" -> "unborn"
      [] manifests[m].state = "deleted" -> "gone"
      [] OTHER -> manifests[m].valid

Registry ==
    INSTANCE ManifestRegistry
    WITH Videos <- VideoIds, Manifests <- ManifestIds,
         status <- [m \in ManifestIds |-> Status(m)],
         refOf <- [m \in ManifestIds |-> manifests[m].ref],
         listed <- [v \in VideoIds |-> videos[v].list],
         shown <- [v \in VideoIds |-> videos[v].last]

(* Every step of the store is a step of the registry, or leaves it as it is. *)
RegistrySpec == Registry!Spec

\* What readers of the store may rely on, the search index among them.
Published ==
    INSTANCE PublishedVideos
    WITH Videos <- VideoIds, Manifests <- ManifestIds,
         withdrawn <- {v \in VideoIds : videos[v].frozen \/ videoState[v] = "deleted"},
         shown <- [v \in VideoIds |-> videos[v].last]

(* One operation at a time, cut off anywhere: a video that was moderated or  *)
(* deleted never shows a manifest again, which is what SearchIndex takes for *)
(* granted of the database.                                                  *)
PublishedSpec == Published!SourceSpec

=============================================================================
