-------------------------- MODULE VideoStoreProofs --------------------------
(***************************************************************************)
(* Safety of VideoStore for any number of actors, videos and references,   *)
(* with or without crashes, and whatever a save replaces.                  *)
(*                                                                         *)
(* The models in memory are what makes the invariants of the collections   *)
(* hold: a save writes back what was read long ago.  IInv therefore says   *)
(* of every model in progress what it says of the documents stored.        *)
(***************************************************************************)
EXTENDS VideoStore, TLAPS

\* Manifest m was stored for video v.  This never ceases to be true.
Owned(m, v) == home[m] = v /\ manifests[m].state # "unborn"

\* A video document, stored or in memory, has only manifests of video v, and
\* shows only an accepted one.
OwnedDoc(doc, v) ==
    /\ \A m \in doc.list : Owned(m, v)
    /\ doc.last # NoManifest => Owned(doc.last, v) /\ doc.last \in accepted

\* An actor's models are those of its video, its manifest is stored when it is
\* about to save the video, and still to be stored before.
ProcInv(p) ==
    /\ OwnedDoc(p.doc, p.vid)
    /\ \A m \in ManifestIds : p.val[m] = "valid" => m \in accepted
    /\ p.op \in {"link", "validate:save"} => Owned(p.mid, p.vid)
    /\ p.op = "update:manifest" =>
          manifests[p.mid].state = "unborn" /\ p.mid <= built

\* A manifest not constructed yet has no document.
FreshInv == \A m \in ManifestIds : m > built => manifests[m].state = "unborn"

\* Two updates do not share the manifest they constructed.
DistinctInv ==
    \A a, b \in Actors :
        proc[a].op = "update:manifest" /\ proc[b].op = "update:manifest"
        /\ proc[a].mid = proc[b].mid => a = b

AcceptedInv == \A m \in ManifestIds : manifests[m].valid = "valid" => m \in accepted

IInv ==
    /\ TypeOK
    /\ ReferenceClaimedOnce
    /\ FreshInv
    /\ DistinctInv
    /\ AcceptedInv
    /\ \A v \in VideoIds : OwnedDoc(videos[v], v)
    /\ \A a \in Actors : ProcInv(proc[a])

-----------------------------------------------------------------------------
(* The operators of the aggregate.                                         *)

(* UpdateLastValidManifest picks a listed manifest that is valid, or none.   *)
LEMMA NewestValidListed ==
    ASSUME NEW list, NEW val
    PROVE  NewestValid(list, val) = NoManifest
           \/ (NewestValid(list, val) \in list /\ val[NewestValid(list, val)] = "valid")
  BY DEF NewestValid

(* A save leaves other videos alone, and gives each member of the saved one  *)
(* the value it had stored or the value in the model.                        *)
LEMMA SaveVideoWrites ==
    ASSUME videos \in [VideoIds -> VideoDoc],
           NEW v \in VideoIds, NEW read \in VideoDoc, NEW model \in VideoDoc,
           SaveVideo(v, read, model)
    PROVE  /\ videos' \in [VideoIds -> VideoDoc]
           /\ \A w \in VideoIds \ {v} : videos'[w] = videos[w]
           /\ videos'[v].list \in {videos[v].list, model.list}
           /\ videos'[v].last \in {videos[v].last, model.last}
  <1>1. PICK whole \in SaveModes :
          videos' = IF videoState[v] = "stored"
            THEN [videos EXCEPT ![v] =
              [frozen |-> IF whole \/ model.frozen # read.frozen
                          THEN model.frozen ELSE videos[v].frozen,
               last |-> IF whole \/ model.last # read.last
                        THEN model.last ELSE videos[v].last,
               list |-> IF whole \/ model.list # read.list
                        THEN model.list ELSE videos[v].list]]
            ELSE videos
    BY DEF SaveVideo
  <1> QED
    BY <1>1 DEF VideoDoc

LEMMA AddManifestType ==
    ASSUME NEW doc \in VideoDoc, NEW m \in ManifestIds,
           NEW val \in [ManifestIds -> Validity]
    PROVE  /\ AddManifest(doc, val, m) \in VideoDoc
           /\ AddManifest(doc, val, m).list = doc.list \cup {m}
           /\ AddManifest(doc, val, m).last = NewestValid(AddManifest(doc, val, m).list, val)
  BY NewestValidListed DEF AddManifest, VideoDoc, ManifestIds, NoManifest

LEMMA SetOutcomeType ==
    ASSUME NEW doc \in VideoDoc, NEW val, NEW m \in ManifestIds, NEW outcome
    PROVE  /\ SetOutcome(doc, val, m, outcome) \in VideoDoc
           /\ SetOutcome(doc, val, m, outcome).list = doc.list
           /\ SetOutcome(doc, val, m, outcome).last
                = NewestValid(doc.list, [val EXCEPT ![m] = outcome])
  BY NewestValidListed DEF SetOutcome, VideoDoc, ManifestIds, NoManifest

LEMMA SetAsUnsuitableType ==
    ASSUME NEW doc \in VideoDoc
    PROVE  /\ SetAsUnsuitable(doc) \in VideoDoc
           /\ SetAsUnsuitable(doc).list = {}
           /\ SetAsUnsuitable(doc).last = NoManifest
  BY DEF SetAsUnsuitable, VideoDoc

LEMMA WithoutManifestType ==
    ASSUME NEW doc \in VideoDoc, NEW m
    PROVE  /\ WithoutManifest(doc, m) \in VideoDoc
           /\ WithoutManifest(doc, m).list = doc.list \ {m}
           /\ WithoutManifest(doc, m).last \in {doc.last, NoManifest}
  BY DEF WithoutManifest, VideoDoc

-----------------------------------------------------------------------------
(* Steps that change no video and no manifest.                             *)

LEMMA IdleProcInv ==
    /\ IdleProc \in Proc
    /\ WellFormed(IdleProc)
  BY StoreAssumption DEF IdleProc, Proc, WellFormed, Ops, ValidateOps, VideoDoc,
     EmptyVideo, NothingRead, Validity, NoManifest

LEMMA LocalStep ==
    ASSUME IInv, NEW a \in Actors, NEW p \in Proc,
           WellFormed(p), ProcInv(p), p.op # "update:manifest",
           Become(a, p),
           videoState' \in [VideoIds -> {"unborn", "stored", "deleted"}],
           jobs' \in SUBSET Job,
           UNCHANGED <<videos, manifests, built, home, accepted>>
    PROVE  IInv'
  <1>1. TypeOK'
    BY DEF IInv, TypeOK, Become
  <1>2. ReferenceClaimedOnce'
    BY DEF IInv, ReferenceClaimedOnce, StoredManifests
  <1>3. FreshInv'
    BY DEF IInv, FreshInv
  <1>4. DistinctInv'
    BY DEF IInv, TypeOK, DistinctInv, Become
  <1>5. AcceptedInv'
    BY DEF IInv, AcceptedInv
  <1>6. (\A v \in VideoIds : OwnedDoc(videos[v], v))'
    BY DEF IInv, OwnedDoc, Owned
  <1>7. (\A b \in Actors : ProcInv(proc[b]))'
    <2> SUFFICES ASSUME NEW b \in Actors PROVE ProcInv(proc[b])'
      OBVIOUS
    <2>1. ProcInv(proc'[b])
      BY DEF IInv, TypeOK, Become
    <2> QED
      BY <2>1 DEF ProcInv, OwnedDoc, Owned
  <1> QED
    BY <1>1, <1>2, <1>3, <1>4, <1>5, <1>6, <1>7 DEF IInv

(* The fields of what an actor works with, and of what is stored.            *)
LEMMA TypeFacts ==
    ASSUME TypeOK
    PROVE  /\ \A a \in Actors :
                 /\ proc[a].op \in Ops
                 /\ proc[a].doc \in VideoDoc
                 /\ proc[a].val \in [ManifestIds -> Validity]
                 /\ proc[a].mid \in ManifestIds \cup {NoManifest}
                 /\ proc[a].todo \in SUBSET ManifestIds
                 /\ proc[a].attempt \in 0 .. MaxAttempts
                 /\ ~Idle(a) => proc[a].vid \in VideoIds
                 /\ proc[a].op \in {"update:manifest", "link", "validate:save"} =>
                       proc[a].mid \in ManifestIds
                 /\ proc[a].op \in ValidateOps \cup {"create:manifest", "update:lookup",
                       "update:manifest", "link", "enqueue"} => proc[a].ref \in Refs
                 /\ proc[a].op \in ValidateOps => proc[a].attempt \in 1 .. MaxAttempts
           /\ \A m \in ManifestIds :
                 /\ manifests[m].state \in {"unborn", "stored", "deleted"}
                 /\ manifests[m].valid \in Validity
                 /\ manifests[m].state = "stored" => manifests[m].ref \in Refs
           /\ \A v \in VideoIds : /\ videos[v] \in VideoDoc
                                   /\ videos[v].list \in SUBSET ManifestIds
  <1>1. ASSUME NEW a \in Actors
        PROVE  proc[a] \in Proc /\ WellFormed(proc[a])
    BY DEF TypeOK
  <1>2. ASSUME NEW m \in ManifestIds
        PROVE  manifests[m] \in ManifestDoc
    BY DEF TypeOK
  <1>3. ASSUME NEW v \in VideoIds
        PROVE  videos[v] \in VideoDoc
    BY DEF TypeOK
  <1> QED
    BY <1>1, <1>2, <1>3, StoreAssumption
    DEF Proc, WellFormed, ManifestDoc, UnbornManifest, DeletedManifest, VideoDoc,
        Validity, Idle, ValidateOps

LEMMA FinishStep ==
    ASSUME IInv, NEW a \in Actors, Finish(a), jobs' \in SUBSET Job,
           UNCHANGED <<videoState, videos, manifests, built, home, accepted>>
    PROVE  IInv'
  <1>1. ProcInv(IdleProc)
    BY StoreAssumption DEF ProcInv, OwnedDoc, IdleProc, EmptyVideo, NothingRead
  <1>2. IdleProc.op # "update:manifest"
    BY DEF IdleProc
  <1>3. videoState' \in [VideoIds -> {"unborn", "stored", "deleted"}]
    BY DEF IInv, TypeOK
  <1>4. Become(a, IdleProc)
    BY DEF Finish
  <1> QED
    BY <1>1, <1>2, <1>3, <1>4, IdleProcInv, LocalStep

LEMMA JobsStep ==
    ASSUME IInv, jobs' \in SUBSET Job,
           UNCHANGED <<videoState, videos, manifests, built, proc, home, accepted>>
    PROVE  IInv'
  <1>1. TypeOK'
    BY DEF IInv, TypeOK
  <1> QED
    BY <1>1 DEF IInv, ReferenceClaimedOnce, StoredManifests, FreshInv, DistinctInv,
        AcceptedInv, OwnedDoc, Owned, ProcInv

LEMMA CreateVideoStep ==
    ASSUME IInv, NEW a \in Actors, NEW v \in VideoIds, NEW r \in Refs,
           CreateVideo(a, v, r)
    PROVE  IInv'
  <1> DEFINE p == [IdleProc EXCEPT !.op = "create:manifest", !.vid = v, !.ref = r]
  <1>1. p \in Proc
    BY IdleProcInv DEF Proc, Ops
  <1>2. WellFormed(p)
    BY StoreAssumption DEF WellFormed, IdleProc, ValidateOps
  <1>3. ProcInv(p)
    BY DEF ProcInv, OwnedDoc, IdleProc, EmptyVideo, NothingRead
  <1>4. p.op # "update:manifest"
    BY DEF IdleProc
  <1>5. videoState' \in [VideoIds -> {"unborn", "stored", "deleted"}]
    BY DEF IInv, TypeOK, CreateVideo
  <1>6. /\ Become(a, p) /\ jobs' \in SUBSET Job
        /\ UNCHANGED <<videos, manifests, built, home, accepted>>
    BY DEF CreateVideo, IInv, TypeOK
  <1> HIDE DEF p
  <1> QED
    BY <1>1, <1>2, <1>3, <1>4, <1>5, <1>6, LocalStep

LEMMA ReadStep ==
    ASSUME IInv, NEW a \in Actors, NEW v \in VideoIds,
           \/ \E r \in Refs : UpdateRead(a, v, r)
           \/ DeleteRead(a, v)
           \/ ModerateRead(a, v)
           \/ VoteRead(a, v)
    PROVE  IInv'
  <1> USE DEF IInv
  <1>1. videos[v] \in VideoDoc /\ videos[v].list \in SUBSET ManifestIds
    BY TypeFacts
  <1>2. OwnedDoc(videos[v], v)
    OBVIOUS
  <1>3. /\ videoState' \in [VideoIds -> {"unborn", "stored", "deleted"}]
        /\ jobs' \in SUBSET Job
        /\ UNCHANGED <<videos, manifests, built, home, accepted>>
    BY DEF TypeOK, UpdateRead, DeleteRead, ModerateRead, VoteRead, dbVars
  <1>4. ASSUME NEW r \in Refs, UpdateRead(a, v, r)
        PROVE  IInv'
    <2> DEFINE p == [IdleProc EXCEPT !.op = "update:lookup", !.vid = v,
                                     !.ref = r, !.doc = videos[v]]
    <2>1. p \in Proc
      BY <1>1, IdleProcInv DEF Proc, Ops
    <2>2. WellFormed(p) /\ p.op # "update:manifest"
      BY StoreAssumption DEF WellFormed, IdleProc, ValidateOps
    <2>3. ProcInv(p)
      BY <1>2 DEF ProcInv, IdleProc, NothingRead
    <2>4. Become(a, p)
      BY <1>4 DEF UpdateRead
    <2> HIDE DEF p
    <2> QED
      BY <2>1, <2>2, <2>3, <2>4, <1>3, LocalStep
  <1>5. CASE DeleteRead(a, v)
    <2> DEFINE p == [IdleProc EXCEPT !.op = "delete:manifests", !.vid = v,
                                     !.todo = videos[v].list]
    <2>1. p \in Proc
      BY <1>1, IdleProcInv DEF Proc, Ops
    <2>2. WellFormed(p) /\ p.op # "update:manifest"
      BY StoreAssumption DEF WellFormed, IdleProc, ValidateOps
    <2>3. ProcInv(p)
      BY DEF ProcInv, OwnedDoc, IdleProc, EmptyVideo, NothingRead
    <2>4. Become(a, p)
      BY <1>5 DEF DeleteRead
    <2> HIDE DEF p
    <2> QED
      BY <2>1, <2>2, <2>3, <2>4, <1>3, LocalStep
  <1>6. CASE ModerateRead(a, v)
    <2> DEFINE p == [IdleProc EXCEPT !.op = "moderate:save", !.vid = v,
                                     !.doc = videos[v], !.todo = videos[v].list]
    <2>1. p \in Proc
      BY <1>1, IdleProcInv DEF Proc, Ops
    <2>2. WellFormed(p) /\ p.op # "update:manifest"
      BY StoreAssumption DEF WellFormed, IdleProc, ValidateOps
    <2>3. ProcInv(p)
      BY <1>2 DEF ProcInv, IdleProc, NothingRead
    <2>4. Become(a, p)
      BY <1>6 DEF ModerateRead
    <2> HIDE DEF p
    <2> QED
      BY <2>1, <2>2, <2>3, <2>4, <1>3, LocalStep
  <1>7. CASE VoteRead(a, v)
    <2> DEFINE p == [IdleProc EXCEPT !.op = "vote:save", !.vid = v, !.doc = videos[v]]
    <2>1. p \in Proc
      BY <1>1, IdleProcInv DEF Proc, Ops
    <2>2. WellFormed(p) /\ p.op # "update:manifest"
      BY StoreAssumption DEF WellFormed, IdleProc, ValidateOps
    <2>3. ProcInv(p)
      BY <1>2 DEF ProcInv, IdleProc, NothingRead
    <2>4. Become(a, p)
      BY <1>7 DEF VoteRead
    <2> HIDE DEF p
    <2> QED
      BY <2>1, <2>2, <2>3, <2>4, <1>3, LocalStep
  <1> QED
    BY <1>4, <1>5, <1>6, <1>7

LEMMA StartValidationStep ==
    ASSUME IInv, NEW a \in Actors, NEW j \in jobs, StartValidation(a, j)
    PROVE  IInv'
  <1> USE DEF IInv
  <1> DEFINE p == [IdleProc EXCEPT !.op = "validate:load", !.vid = j.vid,
                                   !.ref = j.ref, !.attempt = j.attempt,
                                   !.doc = videos[j.vid]]
  <1>1. /\ j \in Job /\ j.vid \in VideoIds /\ j.ref \in Refs
        /\ j.attempt \in 1 .. MaxAttempts /\ j.attempt \in 0 .. MaxAttempts
    BY StoreAssumption DEF TypeOK, Job
  <1>2. videos[j.vid] \in VideoDoc /\ OwnedDoc(videos[j.vid], j.vid)
    BY <1>1, TypeFacts
  <1>3. p \in Proc
    BY <1>1, <1>2, IdleProcInv DEF Proc, Ops, ValidateOps
  <1>4. WellFormed(p) /\ p.op # "update:manifest"
    BY <1>1, StoreAssumption DEF WellFormed, IdleProc
  <1>5. ProcInv(p)
    BY <1>2 DEF ProcInv, IdleProc, NothingRead
  <1>6. Become(a, p) /\ jobs' \in SUBSET Job
    BY DEF StartValidation, TypeOK
  <1>7. /\ videoState' \in [VideoIds -> {"unborn", "stored", "deleted"}]
        /\ UNCHANGED <<videos, manifests, built, home, accepted>>
    BY DEF TypeOK, StartValidation, dbVars
  <1> HIDE DEF p
  <1> QED
    BY <1>3, <1>4, <1>5, <1>6, <1>7, LocalStep

LEMMA ValidateLoadStep ==
    ASSUME IInv, NEW a \in Actors, ValidateLoad(a)
    PROVE  IInv'
  <1> USE DEF IInv
  <1>1. PICK m \in Resolved(proc[a]) :
           Become(a, [proc[a] EXCEPT !.op = "validate:save", !.mid = m,
                                     !.val = LoadedValidity(proc[a].doc.list)])
    BY DEF ValidateLoad
  <1> DEFINE val == LoadedValidity(proc[a].doc.list)
             p == [proc[a] EXCEPT !.op = "validate:save", !.mid = m, !.val = val]
  <1>2. proc[a] \in Proc /\ WellFormed(proc[a]) /\ ProcInv(proc[a])
    BY DEF TypeOK
  <1>3. proc[a].op = "validate:load"
    BY DEF ValidateLoad
  <1>4. m \in ManifestIds /\ m \in proc[a].doc.list /\ m # NoManifest
    BY DEF Resolved, StoredManifests, ManifestIds, NoManifest
  <1>5. /\ val \in [ManifestIds -> Validity]
        /\ \A k \in ManifestIds : val[k] = "valid" => k \in accepted
    BY TypeFacts DEF AcceptedInv, LoadedValidity, Validity
  <1> HIDE DEF val
  <1>6. p \in Proc
    BY <1>2, <1>4, <1>5 DEF Proc, Ops, ValidateOps
  <1>7. WellFormed(p) /\ p.op # "update:manifest"
    BY <1>2, <1>3, <1>4 DEF WellFormed, ValidateOps, Proc
  <1>8. ProcInv(p)
    BY <1>2, <1>3, <1>4, <1>5 DEF ProcInv, OwnedDoc, Proc
  <1>9. Become(a, p) /\ jobs' \in SUBSET Job
    BY <1>1 DEF val, ValidateLoad, TypeOK
  <1>10. /\ videoState' \in [VideoIds -> {"unborn", "stored", "deleted"}]
         /\ UNCHANGED <<videos, manifests, built, home, accepted>>
    BY DEF TypeOK, ValidateLoad, dbVars
  <1> HIDE DEF p
  <1> QED
    BY <1>6, <1>7, <1>8, <1>9, <1>10, LocalStep

\* The steps that end an operation, with a job queued or not.
LEMMA EndStep ==
    ASSUME IInv, NEW a \in Actors,
           \/ CreateManifestRefused(a) \/ UpdateRefused(a)
           \/ UpdateManifestRefused(a) \/ Enqueue(a) \/ ModerateDone(a)
           \/ ValidateDone(a) \/ ValidateFault(a) \/ Crash(a)
    PROVE  IInv'
  <1> USE DEF IInv
  <1>1. /\ Finish(a)
        /\ UNCHANGED <<videoState, videos, manifests, built, home, accepted>>
    BY DEF CreateManifestRefused, UpdateRefused, UpdateManifestRefused, Enqueue,
       ModerateDone, ValidateDone, ValidateFault, Crash, dbVars
  <1>2. jobs' \in SUBSET Job
    <2>1. jobs \in SUBSET Job
      BY DEF TypeOK
    <2>2. CASE Enqueue(a)
      <3>1. NewJob(proc[a].vid, proc[a].ref) \in Job
        BY <2>2, TypeFacts, StoreAssumption
        DEF Enqueue, NewJob, Job, ValidateOps, Idle
      <3> QED
        BY <2>1, <2>2, <3>1 DEF Enqueue
    <2>3. ASSUME proc[a].op \in ValidateOps, NEW n \in 1 .. MaxAttempts
          PROVE  JobOf(proc[a], n) \in Job
      BY <2>3, TypeFacts DEF JobOf, Job, ValidateOps, Idle
    <2>4. CASE ValidateFault(a)
      <3>1. proc[a].op \in ValidateOps
        BY <2>4 DEF ValidateFault, ValidateOps
      <3>2. proc[a].attempt \in 1 .. MaxAttempts
        BY <3>1, TypeFacts
      <3>3. Retry(proc[a], proc[a].attempt) \subseteq Job
        BY <3>1, <3>2, <2>3, StoreAssumption DEF Retry
      <3> QED
        BY <2>1, <2>4, <3>3 DEF ValidateFault
    <2>5. CASE Crash(a)
      <3>1. proc[a].op \in ValidateOps => JobOf(proc[a], proc[a].attempt) \in Job
        BY <2>3, TypeFacts
      <3> QED
        BY <2>1, <2>5, <3>1 DEF Crash
    <2> QED
      BY <2>1, <2>2, <2>4, <2>5
      DEF CreateManifestRefused, UpdateRefused, UpdateManifestRefused,
          ModerateDone, ValidateDone
  <1> QED
    BY <1>1, <1>2, FinishStep

\* The steps that only change the queue.
LEMMA QueueStep ==
    ASSUME IInv,
           \/ \E a \in Actors, j \in jobs : StartRefused(a, j)
           \/ \E v \in VideoIds : ForceVideo(v)
           \/ \E v \in VideoIds, m \in ManifestIds : ForceManifest(v, m)
    PROVE  IInv'
  <1> USE DEF IInv
  <1>1. UNCHANGED <<videoState, videos, manifests, built, proc, home, accepted>>
    BY DEF StartRefused, ForceVideo, ForceManifest, dbVars
  <1>2. jobs \in SUBSET Job
    BY DEF TypeOK
  <1>3. ASSUME NEW v \in VideoIds, NEW m \in ListedStored(v)
        PROVE  NewJob(v, manifests[m].ref) \in Job
    BY <1>3, TypeFacts, StoreAssumption
    DEF ListedStored, StoredManifests, NewJob, Job
  <1>4. ASSUME NEW a \in Actors, NEW j \in jobs, StartRefused(a, j)
        PROVE  jobs' \in SUBSET Job
    <2>1. j \in Job
      BY <1>2
    <2>2. Retry(j, j.attempt) \subseteq Job
      BY <2>1, StoreAssumption DEF Retry, JobOf, Job
    <2> QED
      BY <1>2, <1>4, <2>2 DEF StartRefused
  <1>5. ASSUME NEW v \in VideoIds, ForceVideo(v)
        PROVE  jobs' \in SUBSET Job
    BY <1>2, <1>3, <1>5 DEF ForceVideo
  <1>6. ASSUME NEW v \in VideoIds, NEW m \in ManifestIds, ForceManifest(v, m)
        PROVE  jobs' \in SUBSET Job
    BY <1>2, <1>3, <1>6 DEF ForceManifest
  <1> QED
    BY <1>1, <1>4, <1>5, <1>6, JobsStep

-----------------------------------------------------------------------------
(* Steps that construct or store a manifest.                               *)

LEMMA StoreStep ==
    ASSUME IInv, NEW a \in Actors, NEW m \in ManifestIds, NEW p \in Proc,
           proc[a].op \in {"create:manifest", "update:manifest"},
           manifests[m].state = "unborn",
           StoreManifest(a, m), Become(a, p), WellFormed(p),
           p.op = "link", p.mid = m, p.vid = proc[a].vid,
           p.doc = proc[a].doc, p.val = proc[a].val,
           built' \in built .. MaxManifests, m <= built',
           \A b \in Actors \ {a} : proc[b].op = "update:manifest" => proc[b].mid # m
    PROVE  IInv'
  <1> USE DEF IInv
  <1>1. /\ manifests \in [ManifestIds -> ManifestDoc]
        /\ home \in [ManifestIds -> VideoIds \cup {NoVideo}]
        /\ proc \in [Actors -> Proc] /\ built \in 0 .. MaxManifests
    BY DEF TypeOK
  <1>2. proc[a].ref \in Refs /\ proc[a].vid \in VideoIds
    BY TypeFacts DEF Idle
  <1> DEFINE new == [state |-> "stored", ref |-> proc[a].ref, valid |-> "pending"]
  <1>3. /\ manifests' = [manifests EXCEPT ![m] = new]
        /\ home' = [home EXCEPT ![m] = proc[a].vid]
        /\ proc' = [proc EXCEPT ![a] = p]
        /\ UNCHANGED <<videoState, videos, jobs, accepted>>
        /\ ~Claimed(proc[a].ref)
    BY DEF StoreManifest, Become
  <1>4. new \in ManifestDoc
    BY <1>2 DEF ManifestDoc, Validity
  <1>5. /\ new.state = "stored" /\ new.ref = proc[a].ref /\ new.valid = "pending"
    OBVIOUS
  <1> HIDE DEF new
  <1>6. TypeOK'
    BY <1>1, <1>2, <1>3, <1>4 DEF TypeOK
  <1>7. ReferenceClaimedOnce'
    BY <1>1, <1>3, <1>5 DEF ReferenceClaimedOnce, StoredManifests, Claimed
  <1>8. FreshInv'
    BY <1>1, <1>3, <1>5 DEF FreshInv, ManifestIds
  <1>9. DistinctInv'
    BY <1>1, <1>3 DEF DistinctInv
  <1>10. AcceptedInv'
    BY <1>1, <1>3, <1>5 DEF AcceptedInv
  <1>11. \A k \in ManifestIds : manifests[k].state # "unborn" =>
            manifests'[k] = manifests[k] /\ home'[k] = home[k]
    BY <1>1, <1>3
  <1>12. manifests'[m].state # "unborn" /\ home'[m] = proc[a].vid
    BY <1>1, <1>3, <1>5
  <1>13. (\A v \in VideoIds : OwnedDoc(videos[v], v))'
    BY <1>3, <1>11, TypeFacts DEF OwnedDoc, Owned, VideoDoc
  <1>14. ASSUME NEW b \in Actors
         PROVE  ProcInv(proc[b])'
    <2>1. CASE b = a
      <3>1. OwnedDoc(p.doc, p.vid)'
        BY <1>3, <1>11, TypeFacts DEF OwnedDoc, Owned, VideoDoc, ProcInv
      <3> QED
        BY <2>1, <3>1, <1>1, <1>3, <1>12 DEF ProcInv, OwnedDoc, Owned
    <2>2. CASE b # a
      <3>1. proc'[b] = proc[b]
        BY <2>2, <1>1, <1>3
      <3>2. ProcInv(proc[b]) /\ proc[b].doc \in VideoDoc
        BY TypeFacts
      <3>3. OwnedDoc(proc[b].doc, proc[b].vid)'
        BY <3>1, <3>2, <1>3, <1>11 DEF OwnedDoc, Owned, VideoDoc, ProcInv
      <3>4. proc'[b].op \in {"link", "validate:save"} => Owned(proc[b].mid, proc[b].vid)'
        BY <3>1, <3>2, <1>11, TypeFacts DEF ProcInv, Owned
      <3>5. proc[b].op = "update:manifest" =>
               manifests'[proc[b].mid].state = "unborn" /\ proc[b].mid <= built'
        BY <2>2, <3>2, <1>1, <1>3, TypeFacts DEF ProcInv, ManifestIds
      <3> QED
        BY <3>1, <3>2, <3>3, <3>4, <3>5, <1>3 DEF ProcInv, OwnedDoc, Owned
    <2> QED
      BY <2>1, <2>2
  <1> QED
    BY <1>6, <1>7, <1>8, <1>9, <1>10, <1>13, <1>14

LEMMA CreateManifestStep ==
    ASSUME IInv, NEW a \in Actors, CreateManifest(a)
    PROVE  IInv'
  <1> USE DEF IInv
  <1> DEFINE m == built + 1
             p == [proc[a] EXCEPT !.op = "link", !.mid = m]
  <1>1. /\ proc[a].op = "create:manifest" /\ m \in ManifestIds /\ built' = m
        /\ StoreManifest(a, m) /\ Become(a, p)
    BY DEF CreateManifest
  <1>2. proc[a] \in Proc /\ WellFormed(proc[a]) /\ built \in 0 .. MaxManifests
    BY DEF TypeOK
  <1>3. manifests[m].state = "unborn"
    BY <1>1, <1>2 DEF FreshInv, ManifestIds
  <1>4. /\ p \in Proc
        /\ p.op = "link" /\ p.mid = m /\ p.vid = proc[a].vid
        /\ p.doc = proc[a].doc /\ p.val = proc[a].val
    BY <1>1, <1>2 DEF Proc, Ops
  <1>5. WellFormed(p)
    BY <1>1, <1>2 DEF WellFormed, ValidateOps, Proc, NoManifest
  <1>6. built' \in built .. MaxManifests /\ m <= built'
    BY <1>1, <1>2 DEF ManifestIds
  <1>7. \A b \in Actors \ {a} : proc[b].op = "update:manifest" => proc[b].mid # m
    BY <1>1, <1>2, TypeFacts DEF ProcInv, ManifestIds
  <1>8. proc[a].op \in {"create:manifest", "update:manifest"}
    BY <1>1
  <1> HIDE DEF m, p
  <1> QED
    BY <1>1, <1>3, <1>4, <1>5, <1>6, <1>7, <1>8, StoreStep

LEMMA UpdateManifestStep ==
    ASSUME IInv, NEW a \in Actors, UpdateManifest(a)
    PROVE  IInv'
  <1> USE DEF IInv
  <1> DEFINE m == proc[a].mid
             p == [proc[a] EXCEPT !.op = "link"]
  <1>1. /\ proc[a].op = "update:manifest" /\ built' = built
        /\ StoreManifest(a, m) /\ Become(a, p)
    BY DEF UpdateManifest
  <1>2. proc[a] \in Proc /\ WellFormed(proc[a]) /\ built \in 0 .. MaxManifests
    BY DEF TypeOK
  <1>3. m \in ManifestIds /\ manifests[m].state = "unborn" /\ m <= built
    BY <1>1, TypeFacts DEF ProcInv
  <1>4. /\ p \in Proc
        /\ p.op = "link" /\ p.mid = m /\ p.vid = proc[a].vid
        /\ p.doc = proc[a].doc /\ p.val = proc[a].val
    BY <1>1, <1>2 DEF Proc, Ops
  <1>5. WellFormed(p)
    BY <1>1, <1>2 DEF WellFormed, ValidateOps, Proc, NoManifest
  <1>6. built' \in built .. MaxManifests /\ m <= built'
    BY <1>1, <1>2, <1>3, StoreAssumption
  <1>7. \A b \in Actors \ {a} : proc[b].op = "update:manifest" => proc[b].mid # m
    BY <1>1 DEF DistinctInv
  <1>8. proc[a].op \in {"create:manifest", "update:manifest"}
    BY <1>1
  <1> HIDE DEF m, p
  <1> QED
    BY <1>1, <1>3, <1>4, <1>5, <1>6, <1>7, <1>8, StoreStep

LEMMA UpdateAddStep ==
    ASSUME IInv, NEW a \in Actors, UpdateAdd(a)
    PROVE  IInv'
  <1> USE DEF IInv
  <1> DEFINE m == built + 1
             val == LoadedValidity(proc[a].doc.list)
             p == [proc[a] EXCEPT !.op = "update:manifest", !.mid = m, !.val = val]
  <1>1. /\ proc[a].op = "update:lookup" /\ m \in ManifestIds /\ built' = m
        /\ proc' = [proc EXCEPT ![a] = p]
        /\ UNCHANGED <<videoState, videos, manifests, jobs, home, accepted>>
    BY DEF UpdateAdd, Become, dbVars
  <1>2. proc[a] \in Proc /\ WellFormed(proc[a]) /\ ProcInv(proc[a])
        /\ built \in 0 .. MaxManifests /\ proc \in [Actors -> Proc]
    BY DEF TypeOK
  <1>3. /\ val \in [ManifestIds -> Validity]
        /\ \A k \in ManifestIds : val[k] = "valid" => k \in accepted
    BY TypeFacts DEF AcceptedInv, LoadedValidity, Validity
  <1> HIDE DEF val
  <1>4. /\ p \in Proc
        /\ p.op = "update:manifest" /\ p.mid = m /\ p.vid = proc[a].vid
        /\ p.doc = proc[a].doc /\ p.val = val
    BY <1>1, <1>2, <1>3 DEF Proc, Ops
  <1>5. WellFormed(p)
    BY <1>1, <1>2 DEF WellFormed, ValidateOps, Proc, NoManifest
  <1>6. manifests[m].state = "unborn"
    BY <1>1, <1>2 DEF FreshInv, ManifestIds
  <1>7. /\ OwnedDoc(p.doc, p.vid) /\ p.mid <= built'
        /\ \A k \in ManifestIds : p.val[k] = "valid" => k \in accepted
    BY <1>1, <1>2, <1>3, <1>4 DEF ProcInv, ManifestIds
  <1>8. \A b \in Actors : proc[b].op = "update:manifest" => proc[b].mid <= built
    BY DEF ProcInv
  <1> HIDE DEF p
  <1>9. TypeOK'
    BY <1>1, <1>2, <1>4, <1>5, StoreAssumption DEF TypeOK, ManifestIds
  <1>10. ReferenceClaimedOnce' /\ AcceptedInv'
    BY <1>1 DEF ReferenceClaimedOnce, StoredManifests, AcceptedInv
  <1>11. FreshInv'
    BY <1>1, <1>2 DEF FreshInv, ManifestIds
  <1>12. DistinctInv'
    BY <1>1, <1>2, <1>4, <1>8 DEF DistinctInv
  <1>13. (\A v \in VideoIds : OwnedDoc(videos[v], v))'
    BY <1>1 DEF OwnedDoc, Owned
  <1>14. ASSUME NEW b \in Actors
         PROVE  ProcInv(proc[b])'
    <2>1. CASE b = a
      BY <2>1, <1>1, <1>2, <1>4, <1>6, <1>7 DEF ProcInv, OwnedDoc, Owned
    <2>2. CASE b # a
      <3>1. proc'[b] = proc[b] /\ ProcInv(proc[b])
        BY <2>2, <1>1, <1>2
      <3>2. proc[b].op = "update:manifest" => proc[b].mid <= built'
        BY <1>1, <1>2, <1>8, TypeFacts DEF ManifestIds
      <3> QED
        BY <3>1, <3>2, <1>1 DEF ProcInv, OwnedDoc, Owned
    <2> QED
      BY <2>1, <2>2
  <1> QED
    BY <1>9, <1>10, <1>11, <1>12, <1>13, <1>14

-----------------------------------------------------------------------------
(* Steps that save a video, and those that delete a document.              *)

LEMMA SaveStep ==
    ASSUME IInv, NEW a \in Actors, NEW p \in Proc, NEW model \in VideoDoc,
           ~Idle(a), SaveVideo(proc[a].vid, proc[a].doc, model),
           Become(a, p), WellFormed(p), p.doc = EmptyVideo,
           p.op \notin {"link", "validate:save", "update:manifest"},
           \A m \in ManifestIds : p.val[m] = "valid" => m \in accepted,
           UNCHANGED <<videoState, built, jobs, home>>,
           manifests' \in [ManifestIds -> ManifestDoc],
           accepted' \in SUBSET ManifestIds, accepted \subseteq accepted',
           \A m \in ManifestIds :
              /\ manifests'[m].state = manifests[m].state
              /\ manifests'[m].ref = manifests[m].ref
              /\ manifests'[m].valid = "valid" => m \in accepted',
           model.list \subseteq proc[a].doc.list
              \cup {m \in ManifestIds : Owned(m, proc[a].vid)},
           model.last # NoManifest =>
              model.last \in accepted'
              /\ (model.last \in model.list \/ Owned(model.last, proc[a].vid))
    PROVE  IInv'
  <1> USE DEF IInv
  <1> DEFINE v == proc[a].vid
  <1>1. /\ v \in VideoIds /\ proc[a].doc \in VideoDoc
        /\ videos \in [VideoIds -> VideoDoc] /\ proc \in [Actors -> Proc]
    BY TypeFacts DEF TypeOK
  <1>2. /\ videos' \in [VideoIds -> VideoDoc]
        /\ \A w \in VideoIds \ {v} : videos'[w] = videos[w]
        /\ videos'[v].list \in {videos[v].list, model.list}
        /\ videos'[v].last \in {videos[v].last, model.last}
    BY <1>1, SaveVideoWrites
  <1>3. proc' = [proc EXCEPT ![a] = p]
    BY DEF Become
  <1>4. \A m, w : Owned(m, w) /\ m \in ManifestIds =>
            home'[m] = w /\ manifests'[m].state # "unborn"
    BY DEF Owned
  <1>5. TypeOK'
    BY <1>1, <1>2, <1>3 DEF TypeOK
  <1>6. ReferenceClaimedOnce' /\ FreshInv' /\ AcceptedInv'
    BY DEF ReferenceClaimedOnce, StoredManifests, FreshInv, AcceptedInv
  <1>7. DistinctInv'
    BY <1>1, <1>3 DEF DistinctInv
  <1>8. /\ model.list \subseteq ManifestIds
        /\ \A m \in model.list : Owned(m, v)
        /\ model.last # NoManifest => model.last \in ManifestIds /\ Owned(model.last, v)
    BY <1>1 DEF VideoDoc, ProcInv, OwnedDoc
  <1>9. ASSUME NEW w \in VideoIds
        PROVE  OwnedDoc(videos[w], w)'
    <2>1. OwnedDoc(videos[w], w) /\ videos[w] \in VideoDoc
      BY <1>1
    <2>2. \A m \in videos[w].list : home'[m] = w /\ manifests'[m].state # "unborn"
      BY <2>1, <1>4 DEF OwnedDoc, VideoDoc
    <2>3. videos[w].last # NoManifest =>
             /\ home'[videos[w].last] = w /\ videos[w].last \in accepted'
             /\ manifests'[videos[w].last].state # "unborn"
      BY <2>1, <1>4 DEF OwnedDoc, VideoDoc
    <2>4. CASE w # v
      BY <2>2, <2>3, <2>4, <1>2 DEF OwnedDoc, Owned
    <2>5. CASE w = v
      <3>1. /\ \A m \in model.list : home'[m] = v /\ manifests'[m].state # "unborn"
            /\ model.last # NoManifest =>
                  home'[model.last] = v /\ manifests'[model.last].state # "unborn"
        BY <1>4, <1>8
      <3> QED
        BY <2>2, <2>3, <2>5, <3>1, <1>2 DEF OwnedDoc, Owned
    <2> QED
      BY <2>4, <2>5
  <1>10. ASSUME NEW b \in Actors
         PROVE  ProcInv(proc[b])'
    <2>1. CASE b = a
      BY <2>1, <1>1, <1>3 DEF ProcInv, OwnedDoc, EmptyVideo
    <2>2. CASE b # a
      <3>1. proc'[b] = proc[b] /\ ProcInv(proc[b]) /\ proc[b].doc \in VideoDoc
        BY <2>2, <1>1, <1>3, TypeFacts
      <3>2. OwnedDoc(proc[b].doc, proc[b].vid)'
        BY <3>1, <1>4 DEF OwnedDoc, Owned, VideoDoc, ProcInv
      <3>3. /\ proc[b].op \in {"link", "validate:save"} =>
                  home'[proc[b].mid] = proc[b].vid
                  /\ manifests'[proc[b].mid].state # "unborn"
            /\ proc[b].op = "update:manifest" =>
                  manifests'[proc[b].mid].state = "unborn" /\ proc[b].mid <= built'
        BY <3>1, <1>4, TypeFacts DEF ProcInv
      <3> QED
        BY <3>1, <3>2, <3>3 DEF ProcInv, OwnedDoc, Owned
    <2> QED
      BY <2>1, <2>2
  <1> QED
    BY <1>5, <1>6, <1>7, <1>9, <1>10

LEMMA LinkStep ==
    ASSUME IInv, NEW a \in Actors, Link(a)
    PROVE  IInv'
  <1> USE DEF IInv
  <1> DEFINE q == proc[a]
             model == AddManifest(q.doc, q.val, q.mid)
             p == [IdleProc EXCEPT !.op = "enqueue", !.vid = q.vid, !.ref = q.ref]
  <1>1. /\ q.op = "link" /\ SaveVideo(q.vid, q.doc, model) /\ Become(a, p)
        /\ UNCHANGED <<videoState, manifests, built, jobs, home, accepted>>
    BY DEF Link
  <1>2. /\ q.vid \in VideoIds /\ q.ref \in Refs /\ q.mid \in ManifestIds
        /\ q.doc \in VideoDoc /\ q.val \in [ManifestIds -> Validity] /\ ~Idle(a)
    BY <1>1, TypeFacts DEF Idle
  <1>3. /\ Owned(q.mid, q.vid)
        /\ \A m \in ManifestIds : q.val[m] = "valid" => m \in accepted
    BY <1>1 DEF ProcInv
  <1>4. /\ model \in VideoDoc /\ model.list = q.doc.list \cup {q.mid}
        /\ model.last = NewestValid(model.list, q.val)
    BY <1>2, AddManifestType
  <1>5. model.list \subseteq q.doc.list \cup {m \in ManifestIds : Owned(m, q.vid)}
    BY <1>2, <1>3, <1>4
  <1>6. model.last # NoManifest => model.last \in model.list \cap accepted
    <2> HIDE DEF model
    <2> QED
      BY <1>3, <1>4, NewestValidListed DEF VideoDoc
  <1>7. p \in Proc
    BY <1>2, IdleProcInv DEF Proc, Ops
  <1>8. /\ WellFormed(p) /\ p.doc = EmptyVideo
        /\ p.op \notin {"link", "validate:save", "update:manifest"}
        /\ \A m \in ManifestIds : p.val[m] = "valid" => m \in accepted
    BY <1>2, StoreAssumption DEF WellFormed, IdleProc, ValidateOps, NothingRead
  <1>9. /\ manifests' \in [ManifestIds -> ManifestDoc]
        /\ accepted' \in SUBSET ManifestIds
        /\ \A m \in ManifestIds : manifests'[m].valid = "valid" => m \in accepted'
    BY <1>1 DEF TypeOK, AcceptedInv
  <1> HIDE DEF p, model
  <1> QED
    BY <1>1, <1>2, <1>4, <1>5, <1>6, <1>7, <1>8, <1>9, SaveStep

LEMMA ModerateSaveStep ==
    ASSUME IInv, NEW a \in Actors, ModerateSave(a)
    PROVE  IInv'
  <1> USE DEF IInv
  <1> DEFINE q == proc[a]
             model == SetAsUnsuitable(q.doc)
             p == [q EXCEPT !.op = "moderate:manifests", !.doc = EmptyVideo]
  <1>1. /\ q.op = "moderate:save" /\ SaveVideo(q.vid, q.doc, model) /\ Become(a, p)
        /\ UNCHANGED <<videoState, manifests, built, jobs, home, accepted>>
    BY DEF ModerateSave
  <1>2. /\ q.vid \in VideoIds /\ q.doc \in VideoDoc /\ ~Idle(a)
        /\ q \in Proc /\ WellFormed(q) /\ ProcInv(q)
    BY <1>1, TypeFacts DEF Idle, TypeOK
  <1>3. /\ model \in VideoDoc /\ model.list = {} /\ model.last = NoManifest
    BY <1>2, SetAsUnsuitableType
  <1>4. p \in Proc
    BY <1>2 DEF Proc, Ops, VideoDoc, EmptyVideo
  <1>5. /\ WellFormed(p) /\ p.doc = EmptyVideo
        /\ p.op \notin {"link", "validate:save", "update:manifest"}
        /\ \A m \in ManifestIds : p.val[m] = "valid" => m \in accepted
    BY <1>1, <1>2 DEF WellFormed, ValidateOps, Proc, ProcInv
  <1>6. /\ manifests' \in [ManifestIds -> ManifestDoc]
        /\ accepted' \in SUBSET ManifestIds
        /\ \A m \in ManifestIds : manifests'[m].valid = "valid" => m \in accepted'
    BY <1>1 DEF TypeOK, AcceptedInv
  <1> HIDE DEF p, model
  <1> QED
    BY <1>1, <1>2, <1>3, <1>4, <1>5, <1>6, SaveStep

LEMMA VoteSaveStep ==
    ASSUME IInv, NEW a \in Actors, VoteSave(a)
    PROVE  IInv'
  <1> USE DEF IInv
  <1> DEFINE q == proc[a]
             p == IdleProc
  <1>1. /\ q.op = "vote:save" /\ SaveVideo(q.vid, q.doc, q.doc) /\ Become(a, p)
        /\ UNCHANGED <<videoState, manifests, built, jobs, home, accepted>>
    BY DEF VoteSave, Finish
  <1>2. /\ q.vid \in VideoIds /\ q.doc \in VideoDoc /\ ~Idle(a)
        /\ OwnedDoc(q.doc, q.vid)
    BY <1>1, TypeFacts DEF Idle, TypeOK, ProcInv
  <1>3. p \in Proc /\ WellFormed(p)
    BY IdleProcInv
  <1>4. /\ p.doc = EmptyVideo
        /\ p.op \notin {"link", "validate:save", "update:manifest"}
        /\ \A m \in ManifestIds : p.val[m] = "valid" => m \in accepted
    BY DEF IdleProc, NothingRead
  <1>5. /\ manifests' \in [ManifestIds -> ManifestDoc]
        /\ accepted' \in SUBSET ManifestIds
        /\ \A m \in ManifestIds : manifests'[m].valid = "valid" => m \in accepted'
    BY <1>1 DEF TypeOK, AcceptedInv
  <1>6. /\ \A m \in q.doc.list : Owned(m, q.vid)
        /\ q.doc.last # NoManifest => Owned(q.doc.last, q.vid) /\ q.doc.last \in accepted
    BY <1>2 DEF OwnedDoc
  <1> HIDE DEF p
  <1> QED
    BY <1>1, <1>2, <1>3, <1>4, <1>5, <1>6, SaveStep

LEMMA ValidateSaveStep ==
    ASSUME IInv, NEW a \in Actors, NEW outcome \in {"valid", "invalid"},
           ValidateSave(a, outcome)
    PROVE  IInv'
  <1> USE DEF IInv
  <1> DEFINE q == proc[a]
             model == SetOutcome(q.doc, q.val, q.mid, outcome)
             val == [q.val EXCEPT ![q.mid] = outcome]
             p == [IdleProc EXCEPT !.op = "validate:events", !.vid = q.vid,
                                   !.ref = q.ref, !.attempt = q.attempt]
  <1>1. /\ q.op = "validate:save" /\ SaveVideo(q.vid, q.doc, model) /\ Become(a, p)
        /\ manifests' = [manifests EXCEPT ![q.mid].valid =
                            IF q.mid \in StoredManifests THEN outcome ELSE @]
        /\ accepted' = IF outcome = "valid" THEN accepted \cup {q.mid} ELSE accepted
        /\ UNCHANGED <<videoState, built, jobs, home>>
    BY DEF ValidateSave
  <1>2. /\ q.vid \in VideoIds /\ q.ref \in Refs /\ q.mid \in ManifestIds
        /\ q.doc \in VideoDoc /\ q.val \in [ManifestIds -> Validity] /\ ~Idle(a)
        /\ q.attempt \in 1 .. MaxAttempts /\ q.attempt \in 0 .. MaxAttempts
    BY <1>1, TypeFacts DEF Idle, ValidateOps
  <1>3. /\ manifests \in [ManifestIds -> ManifestDoc]
        /\ accepted \in SUBSET ManifestIds
    BY DEF TypeOK
  <1>4. \A m \in ManifestIds : q.val[m] = "valid" => m \in accepted
    BY DEF ProcInv
  <1>5. accepted' \in SUBSET ManifestIds /\ accepted \subseteq accepted'
    BY <1>1, <1>2, <1>3
  <1>6. ASSUME NEW m \in ManifestIds
        PROVE  /\ manifests'[m] \in ManifestDoc
               /\ manifests'[m].state = manifests[m].state
               /\ manifests'[m].ref = manifests[m].ref
               /\ manifests'[m].valid = "valid" => m \in accepted'
    <2>1. CASE m # q.mid \/ m \notin StoredManifests
      <3>1. manifests'[m] = manifests[m]
        BY <2>1, <1>1, <1>2, <1>3 DEF ManifestDoc, UnbornManifest, DeletedManifest
      <3> QED
        BY <3>1, <1>3, <1>5 DEF AcceptedInv
    <2>2. CASE m = q.mid /\ m \in StoredManifests
      <3>1. manifests'[m] = [manifests[m] EXCEPT !.valid = outcome]
        BY <2>2, <1>1, <1>3
      <3>2. manifests[m] \in [state: {"stored"}, ref: Refs, valid: Validity]
        BY <2>2, <1>3
        DEF StoredManifests, ManifestDoc, UnbornManifest, DeletedManifest
      <3>3. /\ manifests'[m] \in [state: {"stored"}, ref: Refs, valid: Validity]
            /\ manifests'[m].state = manifests[m].state
            /\ manifests'[m].ref = manifests[m].ref
            /\ manifests'[m].valid = outcome
        BY <3>1, <3>2 DEF Validity
      <3> QED
        BY <2>2, <3>3, <1>1 DEF ManifestDoc
    <2> QED
      BY <2>1, <2>2
  <1>7. manifests' \in [ManifestIds -> ManifestDoc]
    <2>1. manifests' = [m \in ManifestIds |-> manifests'[m]]
      BY <1>1, <1>3
    <2> QED
      BY <2>1, <1>6
  <1>8. /\ model \in VideoDoc /\ model.list = q.doc.list
        /\ model.last = NewestValid(model.list, val)
    BY <1>2, SetOutcomeType
  <1>9. model.last # NoManifest => model.last \in model.list \cap accepted'
    <2>1. \A m \in ManifestIds : val[m] = "valid" => m \in accepted'
      BY <1>1, <1>2, <1>4
    <2> HIDE DEF model, val
    <2> QED
      BY <2>1, <1>8, NewestValidListed DEF VideoDoc
  <1>10. p \in Proc
    BY <1>2, IdleProcInv, StoreAssumption DEF Proc, Ops, ValidateOps
  <1>11. /\ WellFormed(p) /\ p.doc = EmptyVideo
         /\ p.op \notin {"link", "validate:save", "update:manifest"}
         /\ \A m \in ManifestIds : p.val[m] = "valid" => m \in accepted
    BY <1>2, StoreAssumption DEF WellFormed, IdleProc, ValidateOps, NothingRead
  <1> HIDE DEF p, model, val
  <1> QED
    BY <1>1, <1>2, <1>5, <1>6, <1>7, <1>8, <1>9, <1>10, <1>11, SaveStep

LEMMA DeleteManifestStep ==
    ASSUME IInv, NEW a \in Actors, NEW d \in ManifestIds, DeleteManifest(a, d)
    PROVE  IInv'
  <1> USE DEF IInv
  <1> DEFINE q == proc[a]
             p == [q EXCEPT !.todo = @ \ {d}]
  <1>1. /\ q.op \in {"delete:manifests", "moderate:manifests"}
        /\ RemoveManifest(d) /\ proc' = [proc EXCEPT ![a] = p]
        /\ UNCHANGED <<videoState, built, jobs, home, accepted>>
    BY DEF DeleteManifest, Become
  <1>2. /\ manifests \in [ManifestIds -> ManifestDoc] /\ proc \in [Actors -> Proc]
        /\ videos \in [VideoIds -> VideoDoc] /\ q \in Proc
        /\ WellFormed(q) /\ ProcInv(q)
    BY DEF TypeOK
  <1>3. /\ p \in Proc /\ WellFormed(p) /\ p.op = q.op /\ p.vid = q.vid
        /\ p.doc = q.doc /\ p.val = q.val
    BY <1>2 DEF Proc, WellFormed
  <1> HIDE DEF p
  <1>4. ASSUME NEW m \in ManifestIds
        PROVE  /\ manifests'[m] \in {manifests[m], DeletedManifest}
               /\ manifests[m].state = "unborn" => manifests'[m] = manifests[m]
    BY <1>1, <1>2 DEF RemoveManifest, StoredManifests
  <1>5. ASSUME NEW v \in VideoIds
        PROVE  /\ videos'[v] \in VideoDoc
               /\ videos'[v].list \subseteq videos[v].list
               /\ videos'[v].last \in {videos[v].last, NoManifest}
    <2>1. videos[v] \in VideoDoc
      BY <1>2
    <2>2. videos'[v] \in {videos[v], WithoutManifest(videos[v], d)}
      BY <1>1, <1>2 DEF RemoveManifest
    <2> QED
      BY <2>1, <2>2, WithoutManifestType
  <1>6. /\ manifests' \in [ManifestIds -> ManifestDoc]
        /\ videos' \in [VideoIds -> VideoDoc]
    <2>1. manifests' = [m \in ManifestIds |-> manifests'[m]]
      BY <1>1, <1>2 DEF RemoveManifest
    <2>2. videos' = [v \in VideoIds |-> videos'[v]]
      BY <1>1, <1>2 DEF RemoveManifest
    <2>3. \A m \in ManifestIds : manifests'[m] \in ManifestDoc
      BY <1>2, <1>4 DEF ManifestDoc
    <2> QED
      BY <2>1, <2>2, <2>3, <1>5
  <1>7. TypeOK'
    BY <1>1, <1>2, <1>3, <1>6 DEF TypeOK
  <1>8. ReferenceClaimedOnce'
    BY <1>4 DEF ReferenceClaimedOnce, StoredManifests, DeletedManifest
  <1>9. FreshInv'
    BY <1>1, <1>4 DEF FreshInv
  <1>10. AcceptedInv'
    BY <1>1, <1>4 DEF AcceptedInv, DeletedManifest
  <1>11. DistinctInv'
    BY <1>1, <1>2, <1>3 DEF DistinctInv
  <1>12. \A m, w : Owned(m, w) /\ m \in ManifestIds =>
            home'[m] = w /\ manifests'[m].state # "unborn"
    BY <1>1, <1>4 DEF Owned, DeletedManifest
  <1>13. ASSUME NEW w \in VideoIds
         PROVE  OwnedDoc(videos[w], w)'
    BY <1>1, <1>2, <1>5, <1>12 DEF OwnedDoc, Owned, VideoDoc
  <1>14. ASSUME NEW b \in Actors
         PROVE  ProcInv(proc[b])'
    <2>1. /\ proc'[b].op = proc[b].op /\ proc'[b].vid = proc[b].vid
          /\ proc'[b].doc = proc[b].doc /\ proc'[b].val = proc[b].val
          /\ proc[b].op \in {"link", "validate:save", "update:manifest"} =>
                proc'[b].mid = proc[b].mid
      BY <1>1, <1>2, <1>3
    <2>2. ProcInv(proc[b]) /\ proc[b].doc \in VideoDoc
      BY TypeFacts
    <2>3. OwnedDoc(proc[b].doc, proc[b].vid)'
      BY <2>1, <2>2, <1>1, <1>12 DEF ProcInv, OwnedDoc, Owned, VideoDoc
    <2>4. /\ proc[b].op \in {"link", "validate:save"} =>
                home'[proc[b].mid] = proc[b].vid
                /\ manifests'[proc[b].mid].state # "unborn"
          /\ proc[b].op = "update:manifest" =>
                manifests'[proc[b].mid].state = "unborn" /\ proc[b].mid <= built'
      BY <2>2, <1>1, <1>4, <1>12, TypeFacts DEF ProcInv
    <2> QED
      BY <2>1, <2>2, <2>3, <2>4, <1>1 DEF ProcInv, OwnedDoc, Owned
  <1> QED
    BY <1>7, <1>8, <1>9, <1>10, <1>11, <1>13, <1>14

LEMMA DeleteVideoStep ==
    ASSUME IInv, NEW a \in Actors, DeleteVideo(a)
    PROVE  IInv'
  <1> USE DEF IInv
  <1> DEFINE v == proc[a].vid
  <1>1. /\ videoState' = [videoState EXCEPT ![v] = "deleted"]
        /\ videos' = [videos EXCEPT ![v] = EmptyVideo]
        /\ proc' = [proc EXCEPT ![a] = IdleProc]
        /\ UNCHANGED <<manifests, built, jobs, home, accepted>>
    BY DEF DeleteVideo, Finish, Become
  <1>2. EmptyVideo \in VideoDoc
    BY DEF VideoDoc, EmptyVideo
  <1>3. TypeOK'
    BY <1>1, <1>2, IdleProcInv DEF TypeOK
  <1>4. ReferenceClaimedOnce' /\ FreshInv' /\ AcceptedInv'
    BY <1>1 DEF ReferenceClaimedOnce, StoredManifests, FreshInv, AcceptedInv
  <1>5. DistinctInv'
    BY <1>1 DEF DistinctInv, TypeOK, IdleProc
  <1>6. ASSUME NEW w \in VideoIds
        PROVE  OwnedDoc(videos[w], w)'
    <2>1. videos'[w] \in {videos[w], EmptyVideo}
      BY <1>1 DEF TypeOK
    <2> QED
      BY <2>1, <1>1 DEF OwnedDoc, Owned, EmptyVideo
  <1>7. ASSUME NEW b \in Actors
        PROVE  ProcInv(proc[b])'
    <2>1. proc'[b] \in {proc[b], IdleProc}
      BY <1>1 DEF TypeOK
    <2>2. ProcInv(IdleProc) /\ ProcInv(proc[b])
      BY DEF ProcInv, OwnedDoc, IdleProc, EmptyVideo, NothingRead
    <2> QED
      BY <2>1, <2>2, <1>1 DEF ProcInv, OwnedDoc, Owned
  <1> QED
    BY <1>3, <1>4, <1>5, <1>6, <1>7

-----------------------------------------------------------------------------
(* The invariant is inductive.                                             *)

LEMMA InitInv == Init => IInv
  <1> SUFFICES ASSUME Init PROVE IInv
    OBVIOUS
  <1> USE DEF Init
  <1>1. TypeOK
    BY IdleProcInv, StoreAssumption
    DEF TypeOK, VideoDoc, EmptyVideo, ManifestDoc, UnbornManifest
  <1>2. ReferenceClaimedOnce /\ FreshInv /\ AcceptedInv /\ DistinctInv
    BY DEF ReferenceClaimedOnce, StoredManifests, FreshInv, AcceptedInv,
       DistinctInv, UnbornManifest, IdleProc
  <1>3. \A v \in VideoIds : OwnedDoc(videos[v], v)
    BY DEF OwnedDoc, EmptyVideo
  <1>4. \A a \in Actors : ProcInv(proc[a])
    BY DEF ProcInv, OwnedDoc, IdleProc, EmptyVideo, NothingRead
  <1> QED
    BY <1>1, <1>2, <1>3, <1>4 DEF IInv

LEMMA NextInv == IInv /\ [Next]_vars => IInv'
  <1> SUFFICES ASSUME IInv, [Next]_vars PROVE IInv'
    OBVIOUS
  <1>1. ASSUME NEW a \in Actors, Begin(a)
        PROVE  IInv'
    <2>1. ASSUME NEW v \in VideoIds, NEW r \in Refs,
                 CreateVideo(a, v, r) \/ UpdateRead(a, v, r)
          PROVE  IInv'
      BY <2>1, CreateVideoStep, ReadStep
    <2>2. ASSUME NEW v \in VideoIds,
                 DeleteRead(a, v) \/ ModerateRead(a, v) \/ VoteRead(a, v)
          PROVE  IInv'
      BY <2>2, ReadStep
    <2>3. ASSUME NEW j \in jobs, StartValidation(a, j) \/ StartRefused(a, j)
          PROVE  IInv'
      BY <2>3, StartValidationStep, QueueStep
    <2> QED
      BY <1>1, <2>1, <2>2, <2>3 DEF Begin
  <1>2. ASSUME NEW a \in Actors, Progress(a)
        PROVE  IInv'
    BY <1>2, EndStep, CreateManifestStep, UpdateAddStep, UpdateManifestStep,
       LinkStep, DeleteManifestStep, DeleteVideoStep, ModerateSaveStep,
       VoteSaveStep, ValidateLoadStep, ValidateSaveStep DEF Progress
  <1>3. ASSUME NEW a \in Actors, Crash(a)
        PROVE  IInv'
    BY <1>3, EndStep
  <1>4. CASE \/ \E v \in VideoIds : ForceVideo(v)
             \/ \E v \in VideoIds, m \in ManifestIds : ForceManifest(v, m)
    BY <1>4, QueueStep
  <1>5. CASE UNCHANGED vars
    BY <1>5, JobsStep DEF vars, IInv, TypeOK
  <1> QED
    BY <1>1, <1>2, <1>3, <1>4, <1>5 DEF Next

(* What every reachable state of the store satisfies, models in progress     *)
(* included.                                                                 *)
THEOREM StoreInvariant == Spec => []IInv
  BY InitInv, NextInv, PTL DEF Spec

(* Requests, jobs and the collections keep the shape the code gives them.    *)
THEOREM StoreTypeOK == Spec => []TypeOK
  <1>1. IInv => TypeOK
    BY DEF IInv
  <1> QED
    BY <1>1, StoreInvariant, PTL

(* No two manifest documents hold the same reference, for any number of      *)
(* concurrent requests: the unique index suffices, the lookups before it are *)
(* only courtesy.                                                            *)
THEOREM StoreReferenceClaimedOnce == Spec => []ReferenceClaimedOnce
  <1>1. IInv => ReferenceClaimedOnce
    BY DEF IInv
  <1> QED
    BY <1>1, StoreInvariant, PTL

(* No save, however stale, lists or shows a manifest of another video.       *)
THEOREM StoreListsOwnManifests == Spec => []ListsOwnManifests
  <1>1. IInv => ListsOwnManifests
    BY DEF IInv, ListsOwnManifests, OwnedDoc, Owned
  <1> QED
    BY <1>1, StoreInvariant, PTL

(* No interleaving publishes a manifest that no validation accepted.         *)
THEOREM StoreShownWasAccepted == Spec => []ShownWasAccepted
  <1>1. IInv => ShownWasAccepted
    BY DEF IInv, ShownWasAccepted, OwnedDoc
  <1> QED
    BY <1>1, StoreInvariant, PTL

-----------------------------------------------------------------------------
(* A moderation that nobody carries an older model past is final.          *)

\* Manifests are only added to a model that is not frozen.
AddersInv ==
    \A a \in Actors :
        proc[a].op \in {"create:manifest", "update:manifest", "link"} => ~proc[a].doc.frozen

LEMMA AddersStep == IInv /\ AddersInv /\ [Next]_vars => AddersInv'
  <1> SUFFICES ASSUME IInv, AddersInv, [Next]_vars PROVE AddersInv'
    OBVIOUS
  <1>1. proc \in [Actors -> Proc]
    BY DEF IInv, TypeOK
  <1>2. ~IdleProc.doc.frozen /\ IdleProc.op = "idle"
    BY DEF IdleProc, EmptyVideo
  <1>3. CASE UNCHANGED proc
    BY <1>3 DEF AddersInv
  <1>4. ASSUME NEW a \in Actors, Begin(a)
        PROVE  AddersInv'
    <2>1. ASSUME NEW p, Become(a, p),
                 p.op \in {"create:manifest", "update:manifest", "link"} => ~p.doc.frozen
          PROVE  AddersInv'
      BY <1>1, <2>1 DEF AddersInv, Become
    <2>2. ASSUME NEW v \in VideoIds, NEW r \in Refs, CreateVideo(a, v, r)
          PROVE  AddersInv'
      BY <2>1, <2>2 DEF CreateVideo, IdleProc, EmptyVideo
    <2>3. ASSUME NEW v \in VideoIds, NEW r \in Refs, UpdateRead(a, v, r)
          PROVE  AddersInv'
      BY <2>1, <2>3 DEF UpdateRead, IdleProc
    <2>4. ASSUME NEW v \in VideoIds, DeleteRead(a, v) \/ ModerateRead(a, v) \/ VoteRead(a, v)
          PROVE  AddersInv'
      BY <2>1, <2>4 DEF DeleteRead, ModerateRead, VoteRead, IdleProc
    <2>5. ASSUME NEW j \in jobs, StartValidation(a, j)
          PROVE  AddersInv'
      BY <2>1, <2>5 DEF StartValidation, IdleProc
    <2>6. ASSUME NEW j \in jobs, StartRefused(a, j)
          PROVE  AddersInv'
      BY <1>3, <2>6 DEF StartRefused
    <2> QED
      BY <1>4, <2>2, <2>3, <2>4, <2>5, <2>6 DEF Begin
  <1>5. ASSUME NEW a \in Actors, Finish(a)
        PROVE  AddersInv'
    BY <1>1, <1>2, <1>5 DEF AddersInv, Finish, Become
  <1>6. ASSUME NEW a \in Actors, Progress(a)
        PROVE  AddersInv'
    <2>1. CASE CreateManifest(a) \/ UpdateManifest(a)
      BY <1>1, <2>1 DEF AddersInv, CreateManifest, UpdateManifest, Become, Proc
    <2>2. CASE UpdateAdd(a)
      BY <1>1, <2>2 DEF AddersInv, UpdateAdd, CanAdd, Become, Proc
    <2>3. CASE Link(a)
      BY <1>1, <2>3 DEF AddersInv, Link, Become, IdleProc
    <2>4. CASE \E m \in ManifestIds : DeleteManifest(a, m)
      BY <1>1, <2>4 DEF AddersInv, DeleteManifest, Become, Proc
    <2>5. CASE ModerateSave(a)
      BY <1>1, <2>5 DEF AddersInv, ModerateSave, Become, Proc
    <2>6. CASE ValidateLoad(a)
      BY <1>1, <2>6 DEF AddersInv, ValidateLoad, Become, Proc
    <2>7. CASE \E o \in {"valid", "invalid"} : ValidateSave(a, o)
      BY <1>1, <2>7 DEF AddersInv, ValidateSave, Become, IdleProc
    <2>8. CASE \/ CreateManifestRefused(a) \/ UpdateRefused(a) \/ UpdateManifestRefused(a)
               \/ Enqueue(a) \/ DeleteVideo(a) \/ ModerateDone(a) \/ VoteSave(a)
               \/ ValidateDone(a) \/ ValidateFault(a)
      BY <1>5, <2>8 DEF CreateManifestRefused, UpdateRefused, UpdateManifestRefused, Enqueue,
         DeleteVideo, ModerateDone, VoteSave, ValidateDone, ValidateFault
    <2> QED
      BY <1>6, <2>1, <2>2, <2>3, <2>4, <2>5, <2>6, <2>7, <2>8 DEF Progress
  <1>7. ASSUME NEW a \in Actors, Crash(a)
        PROVE  AddersInv'
    BY <1>5, <1>7 DEF Crash
  <1>8. CASE \/ \E v \in VideoIds : ForceVideo(v)
             \/ \E v \in VideoIds, m \in ManifestIds : ForceManifest(v, m)
             \/ UNCHANGED vars
    BY <1>3, <1>8 DEF ForceVideo, ForceManifest, vars
  <1> QED
    BY <1>4, <1>6, <1>7, <1>8 DEF Next

\* The operations of the aggregate leave a moderated video as it is.
LEMMA UnsuitableStays ==
    /\ Unsuitable = [frozen |-> TRUE, last |-> NoManifest, list |-> {}]
    /\ \A val, m, o : SetOutcome(Unsuitable, val, m, o) = Unsuitable
    /\ \A doc : SetAsUnsuitable(doc) = Unsuitable
    /\ \A m : WithoutManifest(Unsuitable, m) = Unsuitable
  <1>1. Unsuitable = [frozen |-> TRUE, last |-> NoManifest, list |-> {}]
    BY DEF Unsuitable, SetAsUnsuitable
  <1>2. ASSUME NEW val, NEW m, NEW o
        PROVE  SetOutcome(Unsuitable, val, m, o) = Unsuitable
    <2>1. NewestValid({}, [val EXCEPT ![m] = o]) = NoManifest
      BY NewestValidListed
    <2>2. SetOutcome(Unsuitable, val, m, o) = [Unsuitable EXCEPT !.last = NoManifest]
      BY <1>1, <2>1 DEF SetOutcome
    <2> QED
      BY <1>1, <2>2
  <1>3. \A m : WithoutManifest(Unsuitable, m) = Unsuitable
    BY <1>1 DEF WithoutManifest
  <1> QED
    BY <1>1, <1>2, <1>3 DEF SetAsUnsuitable

\* A save of a model that is as moderated leaves a moderated video so.
LEMMA UnsuitableSave ==
    ASSUME videos \in [VideoIds -> VideoDoc], NEW v \in VideoIds, videos[v] = Unsuitable,
           NEW u \in VideoIds, NEW read, NEW model, SaveVideo(u, read, model),
           u = v => model = Unsuitable
    PROVE  videos'[v] = Unsuitable
  <1>1. PICK whole \in SaveModes :
           LET Written(old, new, stored) == IF whole \/ new # old THEN new ELSE stored
           IN  videos' = IF videoState[u] = "stored"
                         THEN [videos EXCEPT ![u] =
                           [frozen |-> Written(read.frozen, model.frozen, @.frozen),
                            last |-> Written(read.last, model.last, @.last),
                            list |-> Written(read.list, model.list, @.list)]]
                         ELSE videos
    BY DEF SaveVideo
  <1>2. CASE u # v \/ videoState[u] # "stored"
    BY <1>1, <1>2
  <1>3. CASE u = v /\ videoState[u] = "stored"
    BY <1>1, <1>3, UnsuitableStays
  <1> QED
    BY <1>2, <1>3

LEMMA SettledStep ==
    ASSUME IInv, AddersInv, [Next]_vars, NEW v \in VideoIds, Settled(v)
    PROVE  Settled(v)' \/ videoState'[v] = "deleted"
  <1> DEFINE Carries(p) == p.op \in CarryingOps /\ p.vid = v
             Keeps == videoState'[v] = "stored" /\ videos'[v] = Unsuitable
  <1>1. /\ videoState \in [VideoIds -> {"unborn", "stored", "deleted"}]
        /\ videos \in [VideoIds -> VideoDoc]
        /\ proc \in [Actors -> Proc]
    BY DEF IInv, TypeOK
  <1>2. /\ videoState[v] = "stored" /\ videos[v] = Unsuitable
        /\ \A a \in Actors : Carries(proc[a]) => proc[a].doc = Unsuitable
    BY DEF Settled
  <1>3. \A a \in Actors : proc[a].vid = v =>
           proc[a].op \notin {"create:manifest", "update:manifest", "link"}
    BY <1>2, UnsuitableStays DEF AddersInv, CarryingOps
  \* A step of an actor that is not carrying an older model of the video afterwards.
  <1>4. ASSUME NEW a \in Actors, NEW p, Become(a, p), Keeps,
               Carries(p) => p.doc = Unsuitable
        PROVE  Settled(v)'
    <2>1. \A b \in Actors : proc'[b] = IF b = a THEN p ELSE proc[b]
      BY <1>1, <1>4 DEF Become
    <2>2. \A b \in Actors : Carries(proc'[b]) => proc'[b].doc = Unsuitable
      BY <1>2, <1>4, <2>1
    <2> QED
      BY <1>4, <2>2 DEF Settled
  <1>5. ASSUME NEW a \in Actors, Finish(a), Keeps
        PROVE  Settled(v)'
    <2>1. ~Carries(IdleProc)
      BY DEF IdleProc, CarryingOps
    <2> QED
      BY <1>4, <1>5, <2>1 DEF Finish
  <1>6. UNCHANGED dbVars => Keeps
    BY <1>2 DEF dbVars
  <1> HIDE DEF Keeps
  <1>7. UNCHANGED <<dbVars, proc>> => Settled(v)'
    BY <1>2, <1>6 DEF Settled, dbVars, Keeps
  <1> HIDE DEF Carries
  <1>8. ASSUME NEW a \in Actors, Begin(a)
        PROVE  Settled(v)'
    <2>1. ASSUME NEW w \in VideoIds, NEW r \in Refs, CreateVideo(a, w, r)
          PROVE  Settled(v)'
      <3>1. w # v /\ Keeps
        BY <1>1, <1>2, <2>1 DEF CreateVideo, Keeps
      <3>2. ~Carries([IdleProc EXCEPT !.op = "create:manifest", !.vid = w, !.ref = r])
        BY <3>1 DEF IdleProc, Carries
      <3> QED
        BY <1>4, <2>1, <3>1, <3>2 DEF CreateVideo
    <2>2. ASSUME NEW w \in VideoIds, NEW r \in Refs, UpdateRead(a, w, r)
          PROVE  Settled(v)'
      <3> DEFINE p == [IdleProc EXCEPT !.op = "update:lookup", !.vid = w,
                                       !.ref = r, !.doc = videos[w]]
      <3>1. Become(a, p) /\ UNCHANGED dbVars
        BY <2>2 DEF UpdateRead
      <3>2. Carries(p) => p.doc = Unsuitable
        BY <1>2 DEF IdleProc, Carries
      <3> HIDE DEF p
      <3> QED
        BY <1>4, <1>6, <3>1, <3>2
    <2>3. ASSUME NEW w \in VideoIds, DeleteRead(a, w)
          PROVE  Settled(v)'
      <3> DEFINE p == [IdleProc EXCEPT !.op = "delete:manifests", !.vid = w,
                                       !.todo = videos[w].list]
      <3>1. Become(a, p) /\ UNCHANGED dbVars
        BY <2>3 DEF DeleteRead
      <3>2. ~Carries(p)
        BY DEF IdleProc, Carries, CarryingOps
      <3> HIDE DEF p
      <3> QED
        BY <1>4, <1>6, <3>1, <3>2
    <2>4. ASSUME NEW w \in VideoIds, ModerateRead(a, w)
          PROVE  Settled(v)'
      <3> DEFINE p == [IdleProc EXCEPT !.op = "moderate:save", !.vid = w,
                                       !.doc = videos[w], !.todo = videos[w].list]
      <3>1. Become(a, p) /\ UNCHANGED dbVars
        BY <2>4 DEF ModerateRead
      <3>2. ~Carries(p)
        BY DEF IdleProc, Carries, CarryingOps
      <3> HIDE DEF p
      <3> QED
        BY <1>4, <1>6, <3>1, <3>2
    <2>5. ASSUME NEW w \in VideoIds, VoteRead(a, w)
          PROVE  Settled(v)'
      <3> DEFINE p == [IdleProc EXCEPT !.op = "vote:save", !.vid = w, !.doc = videos[w]]
      <3>1. Become(a, p) /\ UNCHANGED dbVars
        BY <2>5 DEF VoteRead
      <3>2. Carries(p) => p.doc = Unsuitable
        BY <1>2 DEF IdleProc, Carries
      <3> HIDE DEF p
      <3> QED
        BY <1>4, <1>6, <3>1, <3>2
    <2>6. ASSUME NEW j \in jobs, StartValidation(a, j)
          PROVE  Settled(v)'
      <3> DEFINE p == [IdleProc EXCEPT !.op = "validate:load", !.vid = j.vid,
                                       !.ref = j.ref, !.attempt = j.attempt,
                                       !.doc = videos[j.vid]]
      <3>1. Become(a, p) /\ UNCHANGED dbVars
        BY <2>6 DEF StartValidation
      <3>2. Carries(p) => p.doc = Unsuitable
        BY <1>2 DEF IdleProc, Carries
      <3> HIDE DEF p
      <3> QED
        BY <1>4, <1>6, <3>1, <3>2
    <2>7. ASSUME NEW j \in jobs, StartRefused(a, j)
          PROVE  Settled(v)'
      BY <1>7, <2>7 DEF StartRefused
    <2> QED
      BY <1>8, <2>1, <2>2, <2>3, <2>4, <2>5, <2>6, <2>7 DEF Begin
  <1>9. ASSUME NEW a \in Actors, Progress(a)
        PROVE  Settled(v)' \/ videoState'[v] = "deleted"
    <2> DEFINE q == proc[a]
    <2>1. q \in Proc /\ WellFormed(q)
      BY <1>1 DEF IInv, TypeOK
    <2>2. ASSUME NEW p, Become(a, p), UNCHANGED dbVars, p.vid = q.vid, p.doc = q.doc,
                 q.op \in CarryingOps \/ p.op \notin CarryingOps
          PROVE  Settled(v)'
      <3>1. Carries(p) => p.doc = Unsuitable
        BY <1>2, <2>2 DEF Carries
      <3> QED
        BY <1>4, <1>6, <2>2, <3>1
    <2>3. CASE CreateManifest(a) \/ UpdateManifest(a)
      <3>1. q.vid # v
        BY <1>3, <2>3 DEF CreateManifest, UpdateManifest
      <3>2. PICK p : Become(a, p) /\ p.vid = q.vid
        <4>1. CASE CreateManifest(a)
          <5> DEFINE p == [q EXCEPT !.op = "link", !.mid = built + 1]
          <5>1. Become(a, p)
            BY <4>1 DEF CreateManifest
          <5>2. p.vid = q.vid
            BY <2>1 DEF Proc
          <5> QED
            BY <5>1, <5>2
        <4>2. CASE UpdateManifest(a)
          BY <2>1, <4>2 DEF UpdateManifest, Proc
        <4> QED
          BY <2>3, <4>1, <4>2
      <3>3. Keeps
        BY <1>2, <2>3 DEF CreateManifest, UpdateManifest, StoreManifest, Keeps
      <3> QED
        BY <1>4, <3>1, <3>2, <3>3 DEF Carries
    <2>4. CASE UpdateAdd(a)
      <3> DEFINE p == [q EXCEPT !.op = "update:manifest", !.mid = built + 1,
                                !.val = LoadedValidity(q.doc.list)]
      <3>1. Become(a, p) /\ UNCHANGED dbVars /\ q.op = "update:lookup"
        BY <2>4 DEF UpdateAdd
      <3>2. p.vid = q.vid /\ p.doc = q.doc
        BY <2>1 DEF Proc
      <3> HIDE DEF p
      <3> QED
        BY <2>2, <3>1, <3>2 DEF CarryingOps
    <2>5. CASE Link(a)
      <3> DEFINE p == [IdleProc EXCEPT !.op = "enqueue", !.vid = q.vid, !.ref = q.ref]
      <3>1. /\ q.op = "link" /\ Become(a, p) /\ UNCHANGED videoState
            /\ SaveVideo(q.vid, q.doc, AddManifest(q.doc, q.val, q.mid))
        BY <2>5 DEF Link
      <3>2. q.vid # v /\ q.vid \in VideoIds
        BY <1>3, <2>1, <3>1 DEF Proc, WellFormed
      <3>3. Keeps
        BY <1>1, <1>2, <3>1, <3>2, UnsuitableSave DEF Keeps
      <3>4. ~Carries(p)
        BY DEF IdleProc, Carries, CarryingOps
      <3> HIDE DEF p
      <3> QED
        BY <1>4, <3>1, <3>3, <3>4
    <2>6. ASSUME NEW m \in ManifestIds, DeleteManifest(a, m)
          PROVE  Settled(v)'
      <3> DEFINE p == [q EXCEPT !.todo = @ \ {m}]
      <3>1. Become(a, p) /\ UNCHANGED videoState /\ RemoveManifest(m)
            /\ q.op \in {"delete:manifests", "moderate:manifests"}
        BY <2>6 DEF DeleteManifest
      <3>2. Keeps
        BY <1>2, <3>1, UnsuitableStays DEF RemoveManifest, Keeps
      <3>3. p.op = q.op
        BY <2>1 DEF Proc
      <3>4. ~Carries(p)
        BY <3>1, <3>3 DEF Carries, CarryingOps
      <3> HIDE DEF p
      <3> QED
        BY <1>4, <3>1, <3>2, <3>4
    <2>7. CASE DeleteVideo(a)
      <3>1. CASE q.vid = v
        BY <1>1, <2>7, <3>1 DEF DeleteVideo
      <3>2. CASE q.vid # v
        <4>1. Keeps
          BY <1>1, <1>2, <2>7, <3>2 DEF DeleteVideo, Keeps
        <4> QED
          BY <1>5, <2>7, <4>1 DEF DeleteVideo
      <3> QED
        BY <3>1, <3>2
    <2>8. CASE ModerateSave(a)
      <3> DEFINE p == [q EXCEPT !.op = "moderate:manifests", !.doc = EmptyVideo]
      <3>1. /\ q.op = "moderate:save" /\ Become(a, p) /\ UNCHANGED videoState
            /\ SaveVideo(q.vid, q.doc, SetAsUnsuitable(q.doc))
        BY <2>8 DEF ModerateSave
      <3>2. q.vid \in VideoIds
        BY <2>1, <3>1 DEF Proc, WellFormed
      <3>3. Keeps
        BY <1>1, <1>2, <3>1, <3>2, UnsuitableSave, UnsuitableStays DEF Keeps
      <3>4. p.op = "moderate:manifests"
        BY <2>1 DEF Proc
      <3>5. ~Carries(p)
        BY <3>4 DEF Carries, CarryingOps
      <3> HIDE DEF p
      <3> QED
        BY <1>4, <3>1, <3>3, <3>5
    <2>9. CASE VoteSave(a)
      <3>1. /\ q.op = "vote:save" /\ Finish(a) /\ UNCHANGED videoState
            /\ SaveVideo(q.vid, q.doc, q.doc)
        BY <2>9 DEF VoteSave
      <3>2. q.vid \in VideoIds /\ (q.vid = v => q.doc = Unsuitable)
        BY <1>2, <2>1, <3>1 DEF Proc, WellFormed, Carries, CarryingOps
      <3>3. Keeps
        BY <1>1, <1>2, <3>1, <3>2, UnsuitableSave DEF Keeps
      <3> QED
        BY <1>5, <3>1, <3>3
    <2>10. CASE ValidateLoad(a)
      <3>1. PICK m : Become(a, [q EXCEPT !.op = "validate:save", !.mid = m,
                                         !.val = LoadedValidity(q.doc.list)])
        BY <2>10 DEF ValidateLoad
      <3> DEFINE p == [q EXCEPT !.op = "validate:save", !.mid = m,
                                !.val = LoadedValidity(q.doc.list)]
      <3>2. p.vid = q.vid /\ p.doc = q.doc
        BY <2>1 DEF Proc
      <3>3. Become(a, p) /\ UNCHANGED dbVars /\ q.op = "validate:load"
        BY <2>10, <3>1 DEF ValidateLoad
      <3> HIDE DEF p
      <3> QED
        BY <2>2, <3>2, <3>3 DEF CarryingOps
    <2>11. ASSUME NEW o \in {"valid", "invalid"}, ValidateSave(a, o)
           PROVE  Settled(v)'
      <3> DEFINE p == [IdleProc EXCEPT !.op = "validate:events", !.vid = q.vid,
                                       !.ref = q.ref, !.attempt = q.attempt]
      <3>1. /\ q.op = "validate:save" /\ Become(a, p) /\ UNCHANGED videoState
            /\ SaveVideo(q.vid, q.doc, SetOutcome(q.doc, q.val, q.mid, o))
        BY <2>11 DEF ValidateSave
      <3>2. q.vid \in VideoIds /\ (q.vid = v => q.doc = Unsuitable)
        BY <1>2, <2>1, <3>1 DEF Proc, WellFormed, Carries, CarryingOps, ValidateOps
      <3>3. q.vid = v => SetOutcome(q.doc, q.val, q.mid, o) = Unsuitable
        BY <3>2, UnsuitableStays
      <3>4. Keeps
        BY <1>1, <1>2, <3>1, <3>2, <3>3, UnsuitableSave DEF Keeps
      <3>5. ~Carries(p)
        BY DEF IdleProc, Carries, CarryingOps
      <3> HIDE DEF p
      <3> QED
        BY <1>4, <3>1, <3>4, <3>5
    <2>12. CASE \/ CreateManifestRefused(a) \/ UpdateRefused(a) \/ UpdateManifestRefused(a)
                \/ Enqueue(a) \/ ModerateDone(a) \/ ValidateDone(a) \/ ValidateFault(a)
      BY <1>5, <1>6, <2>12
      DEF CreateManifestRefused, UpdateRefused, UpdateManifestRefused, Enqueue, ModerateDone,
          ValidateDone, ValidateFault
    <2> QED
      BY <1>9, <2>3, <2>4, <2>5, <2>6, <2>7, <2>8, <2>9, <2>10, <2>11, <2>12 DEF Progress
  <1>10. ASSUME NEW a \in Actors, Crash(a)
         PROVE  Settled(v)'
    BY <1>5, <1>6, <1>10 DEF Crash
  <1>11. CASE \/ \E w \in VideoIds : ForceVideo(w)
              \/ \E w \in VideoIds, m \in ManifestIds : ForceManifest(w, m)
              \/ UNCHANGED vars
    BY <1>7, <1>11 DEF ForceVideo, ForceManifest, vars, dbVars
  <1> QED
    BY <1>8, <1>9, <1>10, <1>11 DEF Next

(* However many requests and jobs are at work, and wherever they are cut     *)
(* off: once none of them carries a model of a moderated video that it read  *)
(* before the moderation, the video stays frozen and without manifests until *)
(* it is deleted.                                                            *)
THEOREM StoreModerationSettles == Spec => ModerationSettles
  <1>1. Init => AddersInv
    BY DEF Init, AddersInv, IdleProc
  <1>2. IInv /\ AddersInv /\ [Next]_vars =>
           [\A v \in VideoIds : Settled(v) => Settled(v)' \/ videoState'[v] = "deleted"]_vars
    BY SettledStep
  <1> QED
    BY <1>1, <1>2, AddersStep, StoreInvariant, PTL DEF Spec, ModerationSettles

-----------------------------------------------------------------------------
(* The store implements the registry of manifests.                         *)

LEMMA InitMaps == Init => Registry!Init
  BY DEF Init, Registry!Init, Status, UnbornManifest, EmptyVideo

\* A manifest is live in the registry when its document is stored.
LEMMA LiveIsStored ==
    ASSUME TypeOK
    PROVE  /\ Registry!Live = StoredManifests
           /\ \A m \in ManifestIds : Status(m) = "unborn" <=> manifests[m].state = "unborn"
  <1>1. \A m \in ManifestIds :
           /\ manifests[m].state \in {"unborn", "stored", "deleted"}
           /\ manifests[m].valid \in Validity
    BY TypeFacts
  <1> QED
    BY <1>1 DEF Registry!Live, StoredManifests, Status, Validity

LEMMA RegisterMaps ==
    ASSUME TypeOK, NEW a \in Actors, NEW m \in ManifestIds,
           manifests[m].state = "unborn", StoreManifest(a, m),
           NEW v \in VideoIds, v = proc[a].vid, NEW r \in Refs, r = proc[a].ref
    PROVE  Registry!Next
  <1>1. /\ ~Claimed(r)
        /\ manifests' = [manifests EXCEPT ![m] = [state |-> "stored",
                                                  ref |-> r,
                                                  valid |-> "pending"]]
        /\ home' = [home EXCEPT ![m] = v]
        /\ UNCHANGED <<videos, accepted>>
    BY DEF StoreManifest
  <1>2. manifests \in [ManifestIds -> ManifestDoc]
    BY DEF TypeOK
  <1>3. \A k \in Registry!Live : manifests[k].ref # r
    BY <1>1, LiveIsStored DEF Claimed
  <1>4. \A k \in ManifestIds :
           /\ Status(k)' = IF k = m THEN "pending" ELSE Status(k)
           /\ manifests'[k].ref = IF k = m THEN r ELSE manifests[k].ref
    BY <1>1, <1>2 DEF Status
  <1>5. Status(m) = "unborn"
    BY DEF Status
  <1>6. Registry!Register(m, v, r)
    BY <1>1, <1>3, <1>4, <1>5 DEF Registry!Register, Registry!Live, StoredManifests
  <1> QED
    BY <1>6 DEF Registry!Next

\* A step that rewrites at most one video, into a state of the invariant.
LEMMA RewriteMaps ==
    ASSUME TypeOK, IInv', NEW v \in VideoIds,
           \A w \in VideoIds \ {v} : videos'[w] = videos[w],
           home' = home
    PROVE  Registry!Rewrite(v, accepted')
  <1>1. OwnedDoc(videos[v], v)'
    BY DEF IInv
  <1>2. videos'[v] \in VideoDoc
    BY DEF IInv, TypeOK
  <1>3. /\ \A m \in videos'[v].list : m \in ManifestIds /\ home[m] = v
        /\ videos'[v].last # NoManifest =>
              videos'[v].last \in accepted' /\ home[videos'[v].last] = v
              /\ videos'[v].last \in ManifestIds
    BY <1>1, <1>2 DEF OwnedDoc, Owned, VideoDoc
  <1> QED
    BY <1>3 DEF Registry!Rewrite

\* A step that changes nothing the registry sees.
LEMMA StutterMaps ==
    ASSUME UNCHANGED <<videos, manifests, home, accepted>>
    PROVE  UNCHANGED Registry!regVars
  BY DEF Registry!regVars, Status

LEMMA DecideMaps ==
    ASSUME IInv, IInv', NEW a \in Actors, NEW outcome \in {"valid", "invalid"},
           ValidateSave(a, outcome), NEW v \in VideoIds, v = proc[a].vid,
           NEW m \in ManifestIds, m = proc[a].mid
    PROVE  Registry!Next
  <1> DEFINE q == proc[a]
  <1>1. /\ q.op = "validate:save"
        /\ manifests' = [manifests EXCEPT ![m].valid =
                            IF m \in StoredManifests THEN outcome ELSE @]
        /\ accepted' = IF outcome = "valid" THEN accepted \cup {m} ELSE accepted
        /\ home' = home
    BY DEF ValidateSave
  <1>2. /\ TypeOK /\ q.doc \in VideoDoc
        /\ q.val \in [ManifestIds -> Validity]
    BY <1>1, TypeFacts DEF IInv, Idle
  <1>3. home[m] = v
    BY <1>1 DEF IInv, ProcInv, Owned
  <1>4. \A w \in VideoIds \ {v} : videos'[w] = videos[w]
    <2>1. SetOutcome(q.doc, q.val, m, outcome) \in VideoDoc
      BY <1>2, SetOutcomeType
    <2>2. SaveVideo(v, q.doc, SetOutcome(q.doc, q.val, m, outcome))
      BY DEF ValidateSave
    <2> QED
      BY <1>2, <2>1, <2>2, SaveVideoWrites DEF TypeOK
  <1>5. Registry!Rewrite(v, accepted')
    BY <1>1, <1>2, <1>4, RewriteMaps
  <1>6. manifests \in [ManifestIds -> ManifestDoc] /\ Registry!Live = StoredManifests
    BY <1>2, LiveIsStored DEF TypeOK
  <1>7. \A k \in ManifestIds :
           /\ k # m => manifests'[k] = manifests[k]
           /\ manifests'[k].state = manifests[k].state
           /\ manifests'[k].ref = manifests[k].ref
           /\ manifests'[k].valid =
                 IF k = m /\ k \in StoredManifests THEN outcome ELSE manifests[k].valid
    BY <1>1, <1>2, <1>6 DEF ManifestDoc, UnbornManifest, DeletedManifest
  <1>8. \A k \in ManifestIds :
           Status(k)' = IF k = m /\ k \in StoredManifests THEN outcome ELSE Status(k)
    BY <1>7 DEF Status, StoredManifests
  <1>9. Registry!Decide(m, v, outcome)
    BY <1>1, <1>2, <1>3, <1>5, <1>6, <1>7, <1>8 DEF Registry!Decide
  <1> QED
    BY <1>9 DEF Registry!Next

LEMMA DiscardMaps ==
    ASSUME TypeOK, NEW a \in Actors, NEW d \in ManifestIds, DeleteManifest(a, d)
    PROVE  Registry!Next \/ UNCHANGED Registry!regVars
  <1>1. RemoveManifest(d) /\ UNCHANGED <<home, accepted>>
    BY DEF DeleteManifest
  <1>2. CASE d \notin StoredManifests
    BY <1>1, <1>2, StutterMaps DEF RemoveManifest
  <1>3. CASE d \in StoredManifests
    <2>1. /\ manifests' = [manifests EXCEPT ![d] = DeletedManifest]
          /\ videos' = [v \in VideoIds |-> WithoutManifest(videos[v], d)]
      BY <1>1, <1>3 DEF RemoveManifest
    <2>2. manifests \in [ManifestIds -> ManifestDoc]
      BY DEF TypeOK
    <2>3. \A k \in ManifestIds :
             /\ Status(k)' = IF k = d THEN "gone" ELSE Status(k)
             /\ manifests'[k].ref = IF k = d THEN NoRef ELSE manifests[k].ref
      BY <2>1, <2>2 DEF Status, DeletedManifest
    <2>4. \A v \in VideoIds :
             /\ videos'[v].list = videos[v].list \ {d}
             /\ videos'[v].last =
                   IF videos[v].last = d THEN NoManifest ELSE videos[v].last
      BY <2>1 DEF WithoutManifest
    <2>5. d \in Registry!Live
      BY <1>3, LiveIsStored
    <2>6. Registry!Discard(d)
      BY <1>1, <2>3, <2>4, <2>5 DEF Registry!Discard
    <2> QED
      BY <2>6 DEF Registry!Next
  <1> QED
    BY <1>2, <1>3

LEMMA SaveMaps ==
    ASSUME IInv, IInv', NEW a \in Actors,
           Link(a) \/ ModerateSave(a) \/ VoteSave(a) \/ DeleteVideo(a),
           NEW v \in VideoIds, v = proc[a].vid
    PROVE  Registry!Next
  <1> DEFINE q == proc[a]
  <1>1. /\ UNCHANGED <<manifests, home, accepted>>
        /\ q.op \in {"link", "moderate:save", "vote:save", "delete:manifests"}
    BY DEF Link, ModerateSave, VoteSave, DeleteVideo
  <1>2. /\ TypeOK /\ q.doc \in VideoDoc
        /\ q.val \in [ManifestIds -> Validity]
        /\ q.op = "link" => q.mid \in ManifestIds
    BY <1>1, TypeFacts DEF IInv, Idle
  <1>3. \A w \in VideoIds \ {v} : videos'[w] = videos[w]
    <2>1. CASE DeleteVideo(a)
      BY <2>1, <1>2 DEF DeleteVideo, TypeOK
    <2>2. CASE Link(a)
      <3>1. AddManifest(q.doc, q.val, q.mid) \in VideoDoc
        BY <2>2, <1>2, AddManifestType DEF Link
      <3> QED
        BY <2>2, <3>1, <1>2, SaveVideoWrites DEF Link, TypeOK
    <2>3. CASE ModerateSave(a)
      <3>1. SetAsUnsuitable(q.doc) \in VideoDoc
        BY <1>2, SetAsUnsuitableType
      <3> QED
        BY <2>3, <3>1, <1>2, SaveVideoWrites DEF ModerateSave, TypeOK
    <2>4. CASE VoteSave(a)
      BY <2>4, <1>2, SaveVideoWrites DEF VoteSave, TypeOK
    <2> QED
      BY <2>1, <2>2, <2>3, <2>4
  <1>4. Registry!Rewrite(v, accepted)
    BY <1>1, <1>2, <1>3, RewriteMaps DEF Registry!Rewrite
  <1>5. Registry!Save(v)
    BY <1>1, <1>4 DEF Registry!Save, Status
  <1> QED
    BY <1>5 DEF Registry!Next

LEMMA StepMaps ==
    IInv /\ IInv' /\ [Next]_vars => [Registry!Next]_(Registry!regVars)
  <1> SUFFICES ASSUME IInv, IInv', [Next]_vars
               PROVE  Registry!Next \/ UNCHANGED Registry!regVars
    OBVIOUS
  <1>1. TypeOK
    BY DEF IInv
  <1>2. ASSUME NEW a \in Actors, CreateManifest(a)
        PROVE  Registry!Next
    <2> DEFINE m == built + 1
    <2>1. m \in ManifestIds /\ StoreManifest(a, m) /\ proc[a].op = "create:manifest"
      BY <1>2 DEF CreateManifest
    <2>2. manifests[m].state = "unborn"
      BY <2>1 DEF IInv, FreshInv, TypeOK, ManifestIds
    <2>3. proc[a].vid \in VideoIds /\ proc[a].ref \in Refs
      BY <1>1, <2>1, TypeFacts DEF Idle
    <2> HIDE DEF m
    <2> QED
      BY <1>1, <2>1, <2>2, <2>3, RegisterMaps
  <1>3. ASSUME NEW a \in Actors, UpdateManifest(a)
        PROVE  Registry!Next
    <2>1. StoreManifest(a, proc[a].mid) /\ proc[a].op = "update:manifest"
      BY <1>3 DEF UpdateManifest
    <2>2. proc[a].vid \in VideoIds /\ proc[a].ref \in Refs /\ proc[a].mid \in ManifestIds
      BY <1>1, <2>1, TypeFacts DEF Idle
    <2>3. manifests[proc[a].mid].state = "unborn"
      BY <2>1 DEF IInv, ProcInv
    <2> QED
      BY <1>1, <2>1, <2>2, <2>3, RegisterMaps
  <1>4. ASSUME NEW a \in Actors, Link(a) \/ ModerateSave(a) \/ VoteSave(a) \/ DeleteVideo(a)
        PROVE  Registry!Next
    <2>1. proc[a].vid \in VideoIds
      BY <1>1, <1>4, TypeFacts DEF Link, ModerateSave, VoteSave, DeleteVideo, Idle
    <2> QED
      BY <1>4, <2>1, SaveMaps
  <1>5. ASSUME NEW a \in Actors, NEW o \in {"valid", "invalid"}, ValidateSave(a, o)
        PROVE  Registry!Next
    <2>1. proc[a].vid \in VideoIds /\ proc[a].mid \in ManifestIds
      BY <1>1, <1>5, TypeFacts DEF ValidateSave, Idle
    <2> QED
      BY <1>5, <2>1, DecideMaps
  <1>6. ASSUME NEW a \in Actors, NEW d \in ManifestIds, DeleteManifest(a, d)
        PROVE  Registry!Next \/ UNCHANGED Registry!regVars
    BY <1>1, <1>6, DiscardMaps
  <1>7. CASE UNCHANGED vars
    BY <1>7, StutterMaps DEF vars
  <1>8. ASSUME NEW a \in Actors, Begin(a)
        PROVE  UNCHANGED Registry!regVars
    BY <1>8, StutterMaps
    DEF Begin, CreateVideo, UpdateRead, DeleteRead, ModerateRead, VoteRead,
        StartValidation, StartRefused, dbVars
  <1>9. ASSUME NEW a \in Actors,
               \/ CreateManifestRefused(a) \/ UpdateRefused(a) \/ UpdateAdd(a)
               \/ UpdateManifestRefused(a) \/ Enqueue(a) \/ ModerateDone(a)
               \/ ValidateLoad(a) \/ ValidateDone(a) \/ ValidateFault(a) \/ Crash(a)
        PROVE  UNCHANGED Registry!regVars
    BY <1>9, StutterMaps
    DEF CreateManifestRefused, UpdateRefused, UpdateAdd, UpdateManifestRefused,
        Enqueue, ModerateDone, ValidateLoad, ValidateDone, ValidateFault, Crash, dbVars
  <1>10. CASE \/ \E v \in VideoIds : ForceVideo(v)
              \/ \E v \in VideoIds, m \in ManifestIds : ForceManifest(v, m)
    BY <1>10, StutterMaps DEF ForceVideo, ForceManifest, dbVars
  <1> QED
    BY <1>2, <1>3, <1>4, <1>5, <1>6, <1>7, <1>8, <1>9, <1>10 DEF Next, Progress

(* Every behaviour of requests and jobs is one of the registry: a manifest   *)
(* is registered once for one video with a reference of its own, decided any *)
(* number of times, and once discarded never comes back.                     *)
THEOREM StoreImplementsRegistry == Spec => RegistrySpec
  BY InitMaps, StepMaps, StoreInvariant, PTL DEF Spec, RegistrySpec, Registry!Spec

=============================================================================
