----------------------- MODULE VideoStoreSerialProofs -----------------------
(***************************************************************************)
(* What VideoStore keeps while one operation runs at a time, for any       *)
(* number of videos, manifests and references.                             *)
(*                                                                         *)
(* Alone, an actor saves models that are what the database holds.  With    *)
(* crashes anywhere (SerialInv), a video then shows its newest valid       *)
(* manifest or none, and a withdrawn one none; when no request is cut off  *)
(* (CompleteInv), it shows one whenever it can, and no manifest is left    *)
(* out of the list of its video.                                           *)
(***************************************************************************)
EXTENDS VideoStoreProofs, WellFoundedInduction

\* One operation runs at a time.
Serial == \A a, b \in Actors : a = b

\* A video without a document is like a new one.
UnstoredInv == \A v \in VideoIds : videoState[v] # "stored" => videos[v] = EmptyVideo

\* A moderated video lists and shows nothing.
ModeratedInv ==
    \A v \in VideoIds : videos[v].frozen => videos[v].list = {} /\ videos[v].last = NoManifest

\* The steps that go on with a model of the video, and with its manifests.
ModelOps == {"create:manifest", "update:lookup", "update:manifest", "link",
             "moderate:save", "vote:save", "validate:load", "validate:save"}
LoadedOps == {"create:manifest", "update:manifest", "link", "validate:save"}

\* Alone, an actor works with what is stored, and adds a manifest that is new to a video
\* that is not moderated.
Alone(p) ==
    /\ p.op # "idle" => videoState[p.vid] = "stored"
    /\ p.op \in ModelOps => p.doc = videos[p.vid]
    /\ p.op \in LoadedOps => \A m \in p.doc.list : p.val[m] = manifests[m].valid
    /\ p.op = "create:manifest" => p.doc = EmptyVideo /\ p.val = NothingRead
    /\ p.op \in {"update:manifest", "link"} => ~p.doc.frozen /\ p.val[p.mid] # "valid"
    /\ p.op = "link" => p.mid \notin p.doc.list /\ manifests[p.mid].valid = "pending"
                        /\ manifests[p.mid].state = "stored"
    /\ p.op = "validate:save" => p.mid \in p.doc.list \cap StoredManifests

SerialInv ==
    /\ IInv
    /\ UnstoredInv
    /\ ModeratedInv
    /\ NeverShowsOlder
    /\ \A a \in Actors : Alone(proc[a])

\* What a deletion or a moderation has still to delete is of its video.
Removing(p) ==
    /\ \A m \in p.todo : home[m] = p.vid
    /\ p.op \in {"delete:manifests", "moderate:save"} =>
          videos[p.vid].list \cap StoredManifests \subseteq p.todo
    /\ p.op = "moderate:manifests" => videos[p.vid].frozen

Deleting(v) == \E a \in Actors : proc[a].op = "delete:manifests" /\ proc[a].vid = v

\* Manifest m is being added to the list of its video, or deleted after it left it.
InHand(m) ==
    \E a \in Actors :
        \/ proc[a].op = "link" /\ proc[a].mid = m
        \/ proc[a].op = "moderate:manifests" /\ m \in proc[a].todo

CompleteInv ==
    /\ SerialInv
    /\ \A v \in VideoIds :
          ~Deleting(v) /\ ListedValid(v) # {} => videos[v].last # NoManifest
    /\ \A m \in StoredManifests :
          home[m] \in VideoIds /\ (m \in videos[home[m]].list \/ InHand(m))
    /\ \A a \in Actors : Removing(proc[a])

-----------------------------------------------------------------------------
(* Sets of numbers, and the choice of the newest valid manifest.            *)

\* A set of numbers up to a bound has a greatest one, if it has any.
LEMMA GreatestNumber ==
    ASSUME NEW N \in Nat, NEW S \in SUBSET (1 .. N), S # {}
    PROVE  \E m \in S : \A k \in S : k <= m
<1> DEFINE T == {N - k : k \in S}
<1>1. T \subseteq Nat /\ T # {}
    <2>1. \A k \in S : N - k \in Nat
        OBVIOUS
    <2>. QED
        BY <2>1
<1>2. \E x \in T : \A y \in T : ~(y < x)
    <2> HIDE DEF T
    <2>1. PICK x \in T : \A y \in T : ~(<<y, x>> \in OpToRel(<, Nat))
        BY <1>1, NatLessThanWellFounded, WFMin
    <2>2. ASSUME NEW y \in T, y < x
          PROVE  <<y, x>> \in OpToRel(<, Nat)
        BY <1>1, <2>2 DEF OpToRel
    <2>. QED
        BY <2>1, <2>2
<1>3. PICK x \in T : \A y \in T : ~(y < x)
    BY <1>2
<1>4. PICK m \in S : x = N - m
    OBVIOUS
<1>5. ASSUME NEW k \in S
      PROVE  k <= m
    <2>1. N - k \in T /\ ~(N - k < N - m)
        BY <1>3, <1>4
    <2>2. k \in Int /\ m \in Int
        OBVIOUS
    <2> HIDE DEF T
    <2>. QED
        BY <2>1, <2>2
<1>. QED
    BY <1>5

\* UpdateLastValidManifest finds the newest of the valid manifests, if there is one.
LEMMA NewestValidIs ==
    ASSUME NEW list \in SUBSET ManifestIds, NEW val
    PROVE  LET n == NewestValid(list, val)
               ok == {k \in list : val[k] = "valid"}
           IN  /\ n = NoManifest => ok = {}
               /\ n # NoManifest => n \in ok /\ \A k \in ok : k <= n
<1> DEFINE ok == {m \in list : val[m] = "valid"}
<1>1. ok # {} => \E m \in ok : \A k \in ok : k <= m
    BY GreatestNumber, StoreAssumption DEF ManifestIds
<1>2. ok = {} => NewestValid(list, val) = NoManifest
    BY DEF NewestValid
<1>3. ok # {} => /\ NewestValid(list, val) \in ok
                 /\ \A k \in ok : k <= NewestValid(list, val)
    BY <1>1 DEF NewestValid
<1>4. \A m \in ok : m # NoManifest
    BY DEF ManifestIds, NoManifest
<1>. QED
    BY <1>2, <1>3, <1>4

-----------------------------------------------------------------------------
(* What one actor does, one video at a time.                                *)

\* A video shows its newest valid manifest, or none.
ShowsNewest(v) == videos[v].last # NoManifest => IsNewestValid(v, videos[v].last)

\* The invariant after a step, from what the step does to each video and to its actor.
LEMMA SerialBy ==
    ASSUME Serial, IInv', NEW a \in Actors, Alone(proc[a])',
           \A v \in VideoIds :
              /\ videoState'[v] # "stored" => videos'[v] = EmptyVideo
              /\ videos'[v].frozen => videos'[v].list = {} /\ videos'[v].last = NoManifest
              /\ ShowsNewest(v)'
    PROVE  SerialInv'
<1>1. UnstoredInv' /\ ModeratedInv'
    BY DEF UnstoredInv, ModeratedInv
<1>2. NeverShowsOlder'
    BY DEF NeverShowsOlder, ShowsNewest
<1>3. \A b \in Actors : b = a
    BY DEF Serial
<1>. QED
    BY <1>1, <1>2, <1>3 DEF SerialInv

\* What the invariant says of each video.
LEMMA SerialFacts ==
    ASSUME SerialInv
    PROVE  /\ TypeOK
           /\ \A v \in VideoIds :
                 /\ videos[v] \in VideoDoc /\ videos[v].list \in SUBSET ManifestIds
                 /\ videoState[v] # "stored" => videos[v] = EmptyVideo
                 /\ videos[v].frozen => videos[v].list = {} /\ videos[v].last = NoManifest
                 /\ ShowsNewest(v)
                 /\ \A m \in videos[v].list : home[m] = v /\ manifests[m].state # "unborn"
                 /\ videos[v].last # NoManifest => home[videos[v].last] = v
           /\ \A a \in Actors : Alone(proc[a])
BY TypeFacts DEF SerialInv, IInv, UnstoredInv, ModeratedInv, NeverShowsOlder, ShowsNewest,
   OwnedDoc, Owned

\* A step that changes what the actor has in memory only.
LEMMA MemoryStep ==
    ASSUME Serial, SerialInv, IInv', NEW a \in Actors,
           UNCHANGED <<videoState, videos, manifests>>, Alone(proc'[a])
    PROVE  SerialInv'
<1>1. Alone(proc[a])'
    BY DEF Alone, StoredManifests
<1>2. \A v \in VideoIds : ShowsNewest(v)' = ShowsNewest(v)
    BY DEF ShowsNewest, IsNewestValid, ListedValid, StoredManifests
<1>. QED
    BY <1>1, <1>2, SerialFacts, SerialBy

LEMMA AloneIdle == Alone(IdleProc)
BY DEF Alone, IdleProc, ModelOps, LoadedOps

\* An actor reads the video it is going to change, and nothing else.
LEMMA AloneReads ==
    ASSUME NEW p, NEW v \in VideoIds, videoState[v] = "stored", p.vid = v,
           \/ p.op \in {"delete:manifests"}
           \/ p.op \in {"update:lookup", "moderate:save", "vote:save", "validate:load"}
              /\ p.doc = videos[v]
    PROVE  Alone(p)
BY DEF Alone, ModelOps, LoadedOps

LEMMA AloneBegin ==
    ASSUME Serial, SerialInv, IInv', NEW a \in Actors, NEW v \in VideoIds,
           \/ \E r \in Refs : UpdateRead(a, v, r)
           \/ DeleteRead(a, v)
           \/ ModerateRead(a, v)
           \/ VoteRead(a, v)
           \/ \E j \in jobs : j.vid = v /\ StartValidation(a, j)
    PROVE  SerialInv'
<1>1. UNCHANGED <<videoState, videos, manifests>> /\ videoState[v] = "stored"
    BY DEF UpdateRead, DeleteRead, ModerateRead, VoteRead, StartValidation, dbVars
<1>2. proc \in [Actors -> Proc]
    BY SerialFacts DEF TypeOK
<1>3. /\ proc'[a].vid = v
      /\ \/ proc'[a].op \in {"delete:manifests"}
         \/ proc'[a].op \in {"update:lookup", "moderate:save", "vote:save", "validate:load"}
            /\ proc'[a].doc = videos[v]
    <2>1. ASSUME NEW r \in Refs, UpdateRead(a, v, r)
          PROVE  proc'[a].vid = v /\ proc'[a].op = "update:lookup" /\ proc'[a].doc = videos[v]
        BY <1>2, <2>1 DEF UpdateRead, Become, IdleProc
    <2>2. CASE DeleteRead(a, v)
        BY <1>2, <2>2 DEF DeleteRead, Become, IdleProc
    <2>3. CASE ModerateRead(a, v)
        BY <1>2, <2>3 DEF ModerateRead, Become, IdleProc
    <2>4. CASE VoteRead(a, v)
        BY <1>2, <2>4 DEF VoteRead, Become, IdleProc
    <2>5. ASSUME NEW j \in jobs, j.vid = v, StartValidation(a, j)
          PROVE  proc'[a].vid = v /\ proc'[a].op = "validate:load" /\ proc'[a].doc = videos[v]
        BY <1>2, <2>5 DEF StartValidation, Become, IdleProc
    <2>. QED
        BY <2>1, <2>2, <2>3, <2>4, <2>5
<1>. QED
    BY <1>1, <1>3, AloneReads, MemoryStep

LEMMA AloneEnd ==
    ASSUME Serial, SerialInv, IInv', NEW a \in Actors,
           \/ CreateManifestRefused(a) \/ UpdateRefused(a) \/ UpdateManifestRefused(a)
           \/ Enqueue(a) \/ ModerateDone(a) \/ ValidateDone(a) \/ ValidateFault(a) \/ Crash(a)
    PROVE  SerialInv'
<1>1. Finish(a) /\ UNCHANGED <<videoState, videos, manifests>>
    BY DEF CreateManifestRefused, UpdateRefused, UpdateManifestRefused, Enqueue, ModerateDone,
       ValidateDone, ValidateFault, Crash, dbVars
<1>2. proc'[a] = IdleProc
    BY <1>1, SerialFacts DEF Finish, Become, TypeOK
<1>. QED
    BY <1>1, <1>2, AloneIdle, MemoryStep

LEMMA AloneQueue ==
    ASSUME Serial, SerialInv, IInv', NEW a \in Actors, UNCHANGED <<videoState, videos, manifests, proc>>
    PROVE  SerialInv'
BY SerialFacts, MemoryStep

LEMMA AloneUpdateAdd ==
    ASSUME Serial, SerialInv, IInv', NEW a \in Actors, UpdateAdd(a)
    PROVE  SerialInv'
<1> DEFINE p == proc[a]
           m == built + 1
           val == LoadedValidity(p.doc.list)
<1>1. /\ p.op = "update:lookup" /\ m \in ManifestIds /\ CanAdd(p.doc, LoadedRefs, p.ref)
      /\ proc' = [proc EXCEPT ![a] = [p EXCEPT !.op = "update:manifest", !.mid = m, !.val = val]]
      /\ UNCHANGED <<videoState, videos, manifests>>
    BY DEF UpdateAdd, Become, dbVars
<1>2. p \in Proc /\ p.vid \in VideoIds /\ proc \in [Actors -> Proc] /\ built \in Nat
    BY <1>1, SerialFacts, TypeFacts, StoreAssumption DEF TypeOK, Idle
<1>3. videoState[p.vid] = "stored" /\ p.doc = videos[p.vid]
    BY <1>1, SerialFacts DEF Alone, ModelOps
<1>4. manifests[m].state = "unborn" /\ m > built
    BY <1>1, <1>2 DEF SerialInv, IInv, FreshInv
<1>5. m \notin p.doc.list /\ p.doc.list \in SUBSET ManifestIds
    BY <1>2, <1>3, <1>4, SerialFacts
<1> HIDE DEF m
<1>6. /\ \A k \in p.doc.list : val[k] = manifests[k].valid
      /\ val[m] = "pending"
    BY <1>1, <1>5 DEF LoadedValidity
<1> HIDE DEF val
<1>7. /\ proc'[a].op = "update:manifest" /\ proc'[a].mid = m /\ proc'[a].val = val
      /\ proc'[a].vid = p.vid /\ proc'[a].doc = p.doc
    BY <1>1, <1>2 DEF Proc
<1>8. ~p.doc.frozen
    BY <1>1 DEF CanAdd
<1>9. Alone(proc'[a])
    BY <1>3, <1>6, <1>7, <1>8 DEF Alone, ModelOps, LoadedOps
<1>. QED
    BY <1>1, <1>9, MemoryStep

LEMMA AloneValidateLoad ==
    ASSUME Serial, SerialInv, IInv', NEW a \in Actors, ValidateLoad(a)
    PROVE  SerialInv'
<1> DEFINE p == proc[a]
           val == LoadedValidity(p.doc.list)
<1>1. PICK m \in Resolved(p) :
           proc' = [proc EXCEPT ![a] = [p EXCEPT !.op = "validate:save", !.mid = m, !.val = val]]
    BY DEF ValidateLoad, Become
<1>2. p.op = "validate:load" /\ UNCHANGED <<videoState, videos, manifests>>
    BY DEF ValidateLoad, dbVars
<1>3. p \in Proc /\ p.vid \in VideoIds /\ proc \in [Actors -> Proc]
    BY <1>2, SerialFacts, TypeFacts DEF TypeOK, Idle, ValidateOps
<1>4. videoState[p.vid] = "stored" /\ p.doc = videos[p.vid]
    BY <1>2, SerialFacts DEF Alone, ModelOps
<1>5. m \in p.doc.list \cap StoredManifests
    BY DEF Resolved
<1>6. \A k \in p.doc.list : val[k] = manifests[k].valid
    BY <1>3, <1>4, SerialFacts DEF LoadedValidity
<1> HIDE DEF val
<1>7. /\ proc'[a].op = "validate:save" /\ proc'[a].mid = m /\ proc'[a].val = val
      /\ proc'[a].vid = p.vid /\ proc'[a].doc = p.doc
    BY <1>1, <1>3 DEF Proc
<1>8. Alone(proc'[a])
    BY <1>4, <1>5, <1>6, <1>7 DEF Alone, ModelOps, LoadedOps
<1>. QED
    BY <1>2, <1>8, MemoryStep

-----------------------------------------------------------------------------
(* The steps that change a collection.                                      *)

LEMMA AloneCreateVideo ==
    ASSUME Serial, SerialInv, IInv', NEW a \in Actors, NEW v \in VideoIds, NEW r \in Refs,
           CreateVideo(a, v, r)
    PROVE  SerialInv'
<1>1. /\ videoState' = [videoState EXCEPT ![v] = "stored"] /\ videoState[v] = "unborn"
      /\ Become(a, [IdleProc EXCEPT !.op = "create:manifest", !.vid = v, !.ref = r])
      /\ UNCHANGED <<videos, manifests>>
    BY DEF CreateVideo
<1>2. /\ proc'[a].op = "create:manifest" /\ proc'[a].vid = v
      /\ proc'[a].doc = EmptyVideo /\ proc'[a].val = NothingRead
    BY <1>1, SerialFacts DEF TypeOK, Become, IdleProc
<1>3. videoState'[v] = "stored" /\ \A w \in VideoIds \ {v} : videoState'[w] = videoState[w]
    BY <1>1, SerialFacts DEF TypeOK
<1>4. videos[v] = EmptyVideo /\ EmptyVideo.list = {}
    BY <1>1, SerialFacts DEF EmptyVideo
<1>5. Alone(proc[a])'
    BY <1>1, <1>2, <1>3, <1>4 DEF Alone
<1>6. \A w \in VideoIds : ShowsNewest(w)' = ShowsNewest(w)
    BY <1>1 DEF ShowsNewest, IsNewestValid, ListedValid, StoredManifests
<1>. QED
    BY <1>1, <1>3, <1>5, <1>6, SerialFacts, SerialBy

\* A manifest document that comes to be is on no list yet.
LEMMA AloneStore ==
    ASSUME Serial, SerialInv, IInv', NEW a \in Actors, NEW m \in ManifestIds,
           manifests[m].state = "unborn", StoreManifest(a, m),
           proc[a].vid \in VideoIds, videoState[proc[a].vid] = "stored",
           proc[a].doc = videos[proc[a].vid], ~proc[a].doc.frozen, proc[a].val[m] # "valid",
           \A k \in proc[a].doc.list : proc[a].val[k] = manifests[k].valid,
           proc'[a].op = "link", proc'[a].vid = proc[a].vid, proc'[a].mid = m,
           proc'[a].doc = proc[a].doc, proc'[a].val = proc[a].val
    PROVE  SerialInv'
<1> DEFINE p == proc[a]
<1>1. UNCHANGED <<videoState, videos>>
    BY DEF StoreManifest
<1>2. /\ manifests'[m].state = "stored" /\ manifests'[m].valid = "pending"
      /\ \A k \in ManifestIds \ {m} : manifests'[k] = manifests[k]
    BY SerialFacts DEF StoreManifest, TypeOK
<1>3. \A v \in VideoIds : m \notin videos[v].list
    BY SerialFacts
<1>4. \A v \in VideoIds : ShowsNewest(v)' = ShowsNewest(v)
    <2> SUFFICES ASSUME NEW v \in VideoIds PROVE ListedValid(v)' = ListedValid(v)
        BY <1>1 DEF ShowsNewest, IsNewestValid
    <2>1. \A k \in videos[v].list : manifests'[k] = manifests[k]
        BY <1>2, <1>3, SerialFacts
    <2>. QED
        BY <1>1, <2>1 DEF ListedValid, StoredManifests
<1>5. \A k \in p.doc.list : manifests'[k] = manifests[k]
    BY <1>2, <1>3, SerialFacts
<1>6. Alone(proc[a])'
    BY <1>1, <1>2, <1>3, <1>5 DEF Alone, ModelOps, LoadedOps
<1>. QED
    BY <1>1, <1>4, <1>6, SerialFacts, SerialBy

LEMMA AloneCreateManifest ==
    ASSUME Serial, SerialInv, IInv', NEW a \in Actors, CreateManifest(a)
    PROVE  SerialInv'
<1> DEFINE p == proc[a]
           m == built + 1
<1>1. p.op = "create:manifest" /\ m \in ManifestIds /\ StoreManifest(a, m)
      /\ Become(a, [p EXCEPT !.op = "link", !.mid = m])
    BY DEF CreateManifest
<1>2. p \in Proc /\ p.vid \in VideoIds /\ proc \in [Actors -> Proc] /\ built \in Nat
    BY <1>1, SerialFacts, TypeFacts, StoreAssumption DEF TypeOK, Idle
<1>3. manifests[m].state = "unborn"
    BY <1>1, <1>2 DEF SerialInv, IInv, FreshInv
<1>4. videoState[p.vid] = "stored" /\ p.doc = videos[p.vid] /\ p.doc = EmptyVideo
      /\ p.val = NothingRead
    BY <1>1, SerialFacts DEF Alone, ModelOps
<1> HIDE DEF m
<1>5. ~p.doc.frozen /\ p.doc.list = {} /\ p.val[m] # "valid"
    BY <1>1, <1>4 DEF EmptyVideo, NothingRead
<1>6. /\ proc'[a].op = "link" /\ proc'[a].vid = p.vid /\ proc'[a].mid = m
      /\ proc'[a].doc = p.doc /\ proc'[a].val = p.val
    BY <1>1, <1>2 DEF Become, Proc
<1>. QED
    BY <1>1, <1>2, <1>3, <1>4, <1>5, <1>6, AloneStore

LEMMA AloneUpdateManifest ==
    ASSUME Serial, SerialInv, IInv', NEW a \in Actors, UpdateManifest(a)
    PROVE  SerialInv'
<1> DEFINE p == proc[a]
           m == p.mid
<1>1. p.op = "update:manifest" /\ StoreManifest(a, m) /\ Become(a, [p EXCEPT !.op = "link"])
    BY DEF UpdateManifest
<1>2. p \in Proc /\ p.vid \in VideoIds /\ m \in ManifestIds /\ proc \in [Actors -> Proc]
    BY <1>1, SerialFacts, TypeFacts DEF TypeOK, Idle
<1>3. manifests[m].state = "unborn"
    BY <1>1 DEF SerialInv, IInv, ProcInv
<1>4. /\ videoState[p.vid] = "stored" /\ p.doc = videos[p.vid]
      /\ ~p.doc.frozen /\ p.val[m] # "valid"
      /\ \A k \in p.doc.list : p.val[k] = manifests[k].valid
    BY <1>1, SerialFacts DEF Alone, ModelOps, LoadedOps
<1>5. /\ proc'[a].op = "link" /\ proc'[a].vid = p.vid /\ proc'[a].mid = m
      /\ proc'[a].doc = p.doc /\ proc'[a].val = p.val
    BY <1>1, <1>2 DEF Become, Proc
<1>. QED
    BY <1>1, <1>2, <1>3, <1>4, <1>5, AloneStore

\* The model of an actor alone replaces the video, whatever a save writes of it.
LEMMA SaveAlone ==
    ASSUME videos \in [VideoIds -> VideoDoc], NEW v \in VideoIds, videoState[v] = "stored",
           NEW model \in VideoDoc, SaveVideo(v, videos[v], model)
    PROVE  videos' = [videos EXCEPT ![v] = model]
<1> DEFINE old == videos[v]
<1>1. PICK whole \in SaveModes :
          videos' = [videos EXCEPT ![v] =
            [frozen |-> IF whole \/ model.frozen # old.frozen THEN model.frozen ELSE old.frozen,
             last |-> IF whole \/ model.last # old.last THEN model.last ELSE old.last,
             list |-> IF whole \/ model.list # old.list THEN model.list ELSE old.list]]
    BY DEF SaveVideo
<1>2. /\ (IF whole \/ model.frozen # old.frozen THEN model.frozen ELSE old.frozen) = model.frozen
      /\ (IF whole \/ model.last # old.last THEN model.last ELSE old.last) = model.last
      /\ (IF whole \/ model.list # old.list THEN model.list ELSE old.list) = model.list
    OBVIOUS
<1>3. videos' = [videos EXCEPT ![v] = [frozen |-> model.frozen, last |-> model.last,
                                       list |-> model.list]]
    BY <1>1, <1>2
<1>4. [frozen |-> model.frozen, last |-> model.last, list |-> model.list] = model
    BY DEF VideoDoc
<1>. QED
    BY <1>3, <1>4

\* A save of the video an actor works on, from which the others cannot be told.
LEMMA AloneSave ==
    ASSUME Serial, SerialInv, IInv', NEW a \in Actors, NEW v \in VideoIds,
           videoState[v] = "stored", UNCHANGED videoState,
           NEW model \in VideoDoc, videos' = [videos EXCEPT ![v] = model],
           model.frozen => model.list = {} /\ model.last = NoManifest,
           \A w \in VideoIds \ {v} : ListedValid(w)' = ListedValid(w),
           model.last # NoManifest =>
              model.last \in ListedValid(v)' /\ \A k \in ListedValid(v)' : k <= model.last,
           proc'[a].op \notin ModelOps, proc'[a].op # "idle" => proc'[a].vid = v
    PROVE  SerialInv'
<1>1. videos'[v] = model /\ \A w \in VideoIds \ {v} : videos'[w] = videos[w]
    BY SerialFacts DEF TypeOK
<1>2. Alone(proc[a])'
    BY DEF Alone, ModelOps, LoadedOps
<1>3. \A w \in VideoIds \ {v} : ShowsNewest(w)'
    BY <1>1, SerialFacts DEF ShowsNewest, IsNewestValid
<1>4. ShowsNewest(v)'
    BY <1>1 DEF ShowsNewest, IsNewestValid
<1>5. ASSUME NEW w \in VideoIds
      PROVE  /\ videoState'[w] # "stored" => videos'[w] = EmptyVideo
             /\ videos'[w].frozen => videos'[w].list = {} /\ videos'[w].last = NoManifest
             /\ ShowsNewest(w)'
    BY <1>1, <1>3, <1>4, SerialFacts
<1>. QED
    BY <1>2, <1>5, SerialBy

\* Only a stored manifest reads as valid.
LEMMA ValidIsStored ==
    ASSUME TypeOK, NEW m \in ManifestIds, manifests[m].valid = "valid"
    PROVE  m \in StoredManifests
<1>1. manifests[m] \in ManifestDoc
    BY DEF TypeOK
<1>. QED
    BY <1>1 DEF ManifestDoc, UnbornManifest, DeletedManifest, StoredManifests

\* What an actor that has loaded its manifests is about to save.
LEMMA LoadedModel ==
    ASSUME SerialInv, NEW a \in Actors, proc[a].op \in {"link", "validate:save"}
    PROVE  /\ proc[a] \in Proc /\ proc \in [Actors -> Proc] /\ TypeOK
           /\ proc[a].vid \in VideoIds /\ proc[a].mid \in ManifestIds
           /\ videoState[proc[a].vid] = "stored" /\ proc[a].doc = videos[proc[a].vid]
           /\ proc[a].doc \in VideoDoc /\ proc[a].doc.list \in SUBSET ManifestIds
           /\ proc[a].val \in [ManifestIds -> Validity]
           /\ \A m \in proc[a].doc.list : proc[a].val[m] = manifests[m].valid
           /\ home[proc[a].mid] = proc[a].vid
BY SerialFacts, TypeFacts
DEF TypeOK, Idle, ValidateOps, Alone, ModelOps, LoadedOps, SerialInv, IInv, ProcInv, Owned

LEMMA LinkAlone ==
    ASSUME SerialInv, NEW a \in Actors, Link(a), NEW v \in VideoIds, v = proc[a].vid
    PROVE  LET p == proc[a]
               model == AddManifest(p.doc, p.val, p.mid)
           IN  /\ p.op = "link" /\ model \in VideoDoc
               /\ videos' = [videos EXCEPT ![p.vid] = model]
               /\ UNCHANGED <<videoState, manifests, home>>
               /\ ~model.frozen /\ model.list = p.doc.list \cup {p.mid}
               /\ model.last = NewestValid(model.list, p.val)
               /\ {k \in model.list : p.val[k] = "valid"} = ListedValid(v)'
               /\ ListedValid(v)' = ListedValid(v)
               /\ proc'[a].op = "enqueue" /\ proc'[a].vid = p.vid /\ proc'[a].todo = {}
<1> DEFINE p == proc[a]
           model == AddManifest(p.doc, p.val, p.mid)
<1>1. /\ p.op = "link" /\ SaveVideo(p.vid, p.doc, model)
      /\ Become(a, [IdleProc EXCEPT !.op = "enqueue", !.vid = p.vid, !.ref = p.ref])
      /\ UNCHANGED <<videoState, manifests, home>>
    BY DEF Link
<1>2. /\ p.vid \in VideoIds /\ p.mid \in ManifestIds /\ proc \in [Actors -> Proc]
      /\ videoState[p.vid] = "stored" /\ p.doc = videos[p.vid] /\ p.doc \in VideoDoc
      /\ p.doc.list \in SUBSET ManifestIds /\ p.val \in [ManifestIds -> Validity] /\ TypeOK
      /\ \A k \in p.doc.list : p.val[k] = manifests[k].valid
    BY <1>1, LoadedModel
<1>3. ~p.doc.frozen /\ p.val[p.mid] # "valid" /\ manifests[p.mid].valid = "pending"
    BY <1>1, SerialFacts DEF Alone
<1>4. /\ model \in VideoDoc /\ model.list = p.doc.list \cup {p.mid}
      /\ model.last = NewestValid(model.list, p.val)
    BY <1>2, AddManifestType
<1>5. ~model.frozen
    BY <1>3 DEF AddManifest
<1> HIDE DEF model
<1>6. videos' = [videos EXCEPT ![p.vid] = model]
    BY <1>1, <1>2, <1>4, SaveAlone DEF TypeOK
<1>7. videos'[p.vid] = model
    BY <1>2, <1>6 DEF TypeOK
<1>8. ListedValid(v)' = {k \in model.list \cap StoredManifests : manifests[k].valid = "valid"}
    BY <1>1, <1>7 DEF ListedValid, StoredManifests
<1>9. \A k \in model.list : p.val[k] = "valid" <=> manifests[k].valid = "valid"
    BY <1>2, <1>3, <1>4
<1>10. {k \in model.list : p.val[k] = "valid"} = ListedValid(v)'
    BY <1>2, <1>4, <1>8, <1>9, ValidIsStored
<1>11. ListedValid(v)' = ListedValid(v)
    BY <1>2, <1>3, <1>4, <1>8 DEF ListedValid
<1>12. proc'[a].op = "enqueue" /\ proc'[a].vid = p.vid /\ proc'[a].todo = {}
    BY <1>1, <1>2 DEF Become, IdleProc
<1>. QED
    BY <1>1, <1>4, <1>5, <1>6, <1>10, <1>11, <1>12 DEF model

LEMMA ModerateAlone ==
    ASSUME SerialInv, NEW a \in Actors, ModerateSave(a)
    PROVE  LET p == proc[a]
               model == SetAsUnsuitable(p.doc)
           IN  /\ p.op = "moderate:save" /\ model \in VideoDoc
               /\ p.vid \in VideoIds /\ videoState[p.vid] = "stored"
               /\ videos' = [videos EXCEPT ![p.vid] = model]
               /\ UNCHANGED <<videoState, manifests, home>>
               /\ model.frozen /\ model.list = {} /\ model.last = NoManifest
               /\ proc'[a].op = "moderate:manifests" /\ proc'[a].vid = p.vid
               /\ proc'[a].todo = p.todo
<1> DEFINE p == proc[a]
           model == SetAsUnsuitable(p.doc)
<1>1. /\ p.op = "moderate:save" /\ SaveVideo(p.vid, p.doc, model)
      /\ Become(a, [p EXCEPT !.op = "moderate:manifests", !.doc = EmptyVideo])
      /\ UNCHANGED <<videoState, manifests, home>>
    BY DEF ModerateSave
<1>2. /\ p \in Proc /\ proc \in [Actors -> Proc] /\ p.vid \in VideoIds /\ TypeOK
      /\ videoState[p.vid] = "stored" /\ p.doc = videos[p.vid] /\ p.doc \in VideoDoc
    BY <1>1, SerialFacts, TypeFacts DEF TypeOK, Idle, Alone, ModelOps
<1>3. model \in VideoDoc /\ model.frozen /\ model.list = {} /\ model.last = NoManifest
    BY <1>2, SetAsUnsuitableType DEF SetAsUnsuitable
<1> HIDE DEF model
<1>4. videos' = [videos EXCEPT ![p.vid] = model]
    BY <1>1, <1>2, <1>3, SaveAlone DEF TypeOK
<1>5. proc'[a].op = "moderate:manifests" /\ proc'[a].vid = p.vid /\ proc'[a].todo = p.todo
    BY <1>1, <1>2 DEF Become, Proc
<1>. QED
    BY <1>1, <1>2, <1>3, <1>4, <1>5 DEF model

LEMMA VoteAlone ==
    ASSUME SerialInv, NEW a \in Actors, VoteSave(a)
    PROVE  UNCHANGED <<videoState, videos, manifests, home>> /\ proc'[a] = IdleProc
<1> DEFINE p == proc[a]
<1>1. /\ p.op = "vote:save" /\ SaveVideo(p.vid, p.doc, p.doc) /\ Finish(a)
      /\ UNCHANGED <<videoState, manifests, home>>
    BY DEF VoteSave
<1>2. /\ proc \in [Actors -> Proc] /\ p.vid \in VideoIds /\ TypeOK
      /\ videoState[p.vid] = "stored" /\ p.doc = videos[p.vid] /\ p.doc \in VideoDoc
    BY <1>1, SerialFacts, TypeFacts DEF TypeOK, Idle, Alone, ModelOps
<1>3. videos' = [videos EXCEPT ![p.vid] = videos[p.vid]]
    BY <1>1, <1>2, SaveAlone DEF TypeOK
<1>4. videos' = videos
    BY <1>2, <1>3 DEF TypeOK
<1>. QED
    BY <1>1, <1>2, <1>4 DEF Finish, Become

\* What a validation is about to save, and the manifests with the outcome set.
OutcomeModel(p, outcome) == SetOutcome(p.doc, p.val, p.mid, outcome)
OutcomeVal(p, outcome) == [p.val EXCEPT ![p.mid] = outcome]

LEMMA ValidateAlone ==
    ASSUME SerialInv, NEW a \in Actors, NEW outcome \in {"valid", "invalid"},
           ValidateSave(a, outcome), NEW v \in VideoIds, v = proc[a].vid
    PROVE  LET p == proc[a]
               model == OutcomeModel(p, outcome)
           IN  /\ p.op = "validate:save" /\ model \in VideoDoc
               /\ videos' = [videos EXCEPT ![v] = model]
               /\ UNCHANGED <<videoState, home>> /\ StoredManifests' = StoredManifests
               /\ \A k \in ManifestIds \ {p.mid} : manifests'[k] = manifests[k]
               /\ model.frozen = p.doc.frozen /\ model.list = p.doc.list
               /\ model.last = NewestValid(model.list, OutcomeVal(p, outcome))
               /\ {k \in model.list : OutcomeVal(p, outcome)[k] = "valid"} = ListedValid(v)'
               /\ proc'[a].op = "validate:events" /\ proc'[a].vid = v /\ proc'[a].todo = {}
<1> DEFINE p == proc[a]
           model == OutcomeModel(p, outcome)
           val == OutcomeVal(p, outcome)
<1> USE DEF OutcomeModel, OutcomeVal
<1>1. /\ p.op = "validate:save" /\ SaveVideo(p.vid, p.doc, model)
      /\ manifests' = [manifests EXCEPT ![p.mid].valid =
                          IF p.mid \in StoredManifests THEN outcome ELSE @]
      /\ Become(a, [IdleProc EXCEPT !.op = "validate:events", !.vid = p.vid,
                                    !.ref = p.ref, !.attempt = p.attempt])
      /\ UNCHANGED <<videoState, home>>
    BY DEF ValidateSave
<1>2. /\ p.vid \in VideoIds /\ p.mid \in ManifestIds /\ proc \in [Actors -> Proc]
      /\ videoState[p.vid] = "stored" /\ p.doc = videos[p.vid] /\ p.doc \in VideoDoc
      /\ p.doc.list \in SUBSET ManifestIds /\ p.val \in [ManifestIds -> Validity] /\ TypeOK
      /\ \A k \in p.doc.list : p.val[k] = manifests[k].valid
    BY <1>1, LoadedModel
<1>3. p.mid \in p.doc.list /\ p.mid \in StoredManifests
    BY <1>1, SerialFacts DEF Alone
<1>4. /\ model \in VideoDoc /\ model.list = p.doc.list
      /\ model.last = NewestValid(model.list, val)
    BY <1>2, SetOutcomeType
<1>5. model.frozen = p.doc.frozen
    BY <1>2 DEF SetOutcome, VideoDoc
<1> HIDE DEF OutcomeModel
<1>6. videos' = [videos EXCEPT ![p.vid] = model]
    BY <1>1, <1>2, <1>4, SaveAlone DEF TypeOK
<1>7. videos'[p.vid] = model
    BY <1>2, <1>6 DEF TypeOK
<1>8. /\ manifests'[p.mid].state = "stored" /\ manifests'[p.mid].valid = outcome
      /\ \A k \in ManifestIds \ {p.mid} : manifests'[k] = manifests[k]
    <2>1. manifests[p.mid] \in ManifestDoc /\ manifests[p.mid].state = "stored"
        BY <1>2, <1>3 DEF TypeOK, StoredManifests
    <2>2. manifests' = [manifests EXCEPT ![p.mid] = [manifests[p.mid] EXCEPT !.valid = outcome]]
        BY <1>1, <1>3
    <2>3. /\ [manifests[p.mid] EXCEPT !.valid = outcome].state = "stored"
          /\ [manifests[p.mid] EXCEPT !.valid = outcome].valid = outcome
        BY <2>1 DEF ManifestDoc, UnbornManifest, DeletedManifest
    <2>. QED
        BY <1>2, <2>2, <2>3 DEF TypeOK
<1>9. StoredManifests' = StoredManifests
    BY <1>3, <1>8 DEF StoredManifests
<1>10. ListedValid(v)' = {k \in model.list \cap StoredManifests : manifests'[k].valid = "valid"}
    BY <1>7, <1>9 DEF ListedValid
<1>11. /\ val[p.mid] = outcome
       /\ \A k \in ManifestIds \ {p.mid} : val[k] = p.val[k]
    BY <1>2
<1> HIDE DEF OutcomeVal
<1>12. \A k \in model.list : val[k] = "valid" <=> manifests'[k].valid = "valid"
    BY <1>2, <1>3, <1>4, <1>8, <1>11
<1>13. \A k \in model.list : val[k] = "valid" => k \in StoredManifests
    BY <1>2, <1>3, <1>4, <1>11, ValidIsStored
<1>14. {k \in model.list : val[k] = "valid"} = ListedValid(v)'
    BY <1>10, <1>12, <1>13
<1>15. proc'[a].op = "validate:events" /\ proc'[a].vid = p.vid /\ proc'[a].todo = {}
    BY <1>1, <1>2 DEF Become, IdleProc
<1>. QED
    BY <1>1, <1>4, <1>5, <1>6, <1>8, <1>9, <1>14, <1>15

\* What the other videos list, no step on a video and its manifests changes.
LEMMA OthersListed ==
    ASSUME SerialInv, NEW v \in VideoIds, NEW w \in VideoIds \ {v},
           videos'[w].list = videos[w].list,
           StoredManifests' = StoredManifests,
           \A m \in ManifestIds : home[m] # v => manifests'[m] = manifests[m]
    PROVE  ListedValid(w)' = ListedValid(w)
<1>1. \A m \in videos[w].list : m \in ManifestIds /\ manifests'[m] = manifests[m]
    BY SerialFacts
<1>. QED
    BY <1>1 DEF ListedValid

LEMMA AloneLink ==
    ASSUME Serial, SerialInv, IInv', NEW a \in Actors, Link(a)
    PROVE  SerialInv'
<1> DEFINE p == proc[a]
           v == p.vid
           model == AddManifest(p.doc, p.val, p.mid)
<1>1. proc[a].op = "link"
    BY DEF Link
<1>2. v \in VideoIds /\ videoState[v] = "stored" /\ p.doc.list \in SUBSET ManifestIds
      /\ p.mid \in ManifestIds
    BY <1>1, LoadedModel
<1>3. PICK u \in VideoIds : u = v
    BY <1>2
<1>4. /\ model \in VideoDoc /\ videos' = [videos EXCEPT ![u] = model]
      /\ UNCHANGED <<videoState, manifests, home>>
      /\ ~model.frozen /\ model.list = p.doc.list \cup {p.mid}
      /\ model.last = NewestValid(model.list, p.val)
      /\ {k \in model.list : p.val[k] = "valid"} = ListedValid(u)'
      /\ proc'[a].op = "enqueue" /\ proc'[a].vid = u
    BY <1>3, LinkAlone
<1> HIDE DEF model, v
<1>5. model.last # NoManifest =>
         model.last \in ListedValid(u)' /\ \A k \in ListedValid(u)' : k <= model.last
    <2>1. model.list \in SUBSET ManifestIds
        BY <1>2, <1>4
    <2>2. LET n == NewestValid(model.list, p.val)
              ok == {k \in model.list : p.val[k] = "valid"}
          IN  n # NoManifest => n \in ok /\ \A k \in ok : k <= n
        BY <2>1, NewestValidIs
    <2>. QED
        BY <1>4, <2>2
<1>6. ASSUME NEW w \in VideoIds \ {u}
      PROVE  ListedValid(w)' = ListedValid(w)
    <2>1. videos'[w] = videos[w]
        BY <1>4, SerialFacts DEF TypeOK
    <2>. QED
        BY <1>4, <2>1 DEF ListedValid, StoredManifests
<1>. QED
    BY <1>2, <1>3, <1>4, <1>5, <1>6, AloneSave DEF ModelOps

LEMMA AloneModerateSave ==
    ASSUME Serial, SerialInv, IInv', NEW a \in Actors, ModerateSave(a)
    PROVE  SerialInv'
<1> DEFINE p == proc[a]
           model == SetAsUnsuitable(p.doc)
<1>1. /\ p.vid \in VideoIds /\ videoState[p.vid] = "stored" /\ model \in VideoDoc
      /\ videos' = [videos EXCEPT ![p.vid] = model]
      /\ UNCHANGED <<videoState, manifests>>
      /\ model.list = {} /\ model.last = NoManifest
      /\ proc'[a].op = "moderate:manifests" /\ proc'[a].vid = p.vid
    BY ModerateAlone
<1>2. PICK u \in VideoIds : u = p.vid
    BY <1>1
<1> HIDE DEF model
<1>3. ASSUME NEW w \in VideoIds \ {u}
      PROVE  ListedValid(w)' = ListedValid(w)
    <2>1. videos'[w] = videos[w]
        BY <1>1, <1>2, SerialFacts DEF TypeOK
    <2>. QED
        BY <1>1, <2>1 DEF ListedValid, StoredManifests
<1>. QED
    BY <1>1, <1>2, <1>3, AloneSave DEF ModelOps

LEMMA AloneVoteSave ==
    ASSUME Serial, SerialInv, IInv', NEW a \in Actors, VoteSave(a)
    PROVE  SerialInv'
BY VoteAlone, AloneIdle, MemoryStep

LEMMA AloneValidateSave ==
    ASSUME Serial, SerialInv, IInv', NEW a \in Actors, NEW outcome \in {"valid", "invalid"},
           ValidateSave(a, outcome)
    PROVE  SerialInv'
<1> DEFINE p == proc[a]
           v == p.vid
           model == OutcomeModel(p, outcome)
           val == OutcomeVal(p, outcome)
<1>1. proc[a].op = "validate:save"
    BY DEF ValidateSave
<1>2. v \in VideoIds /\ videoState[v] = "stored" /\ p.doc.list \in SUBSET ManifestIds
      /\ p.mid \in ManifestIds /\ home[p.mid] = v /\ p.doc = videos[v]
    BY <1>1, LoadedModel
<1>3. PICK u \in VideoIds : u = v
    BY <1>2
<1>4. /\ model \in VideoDoc /\ videos' = [videos EXCEPT ![u] = model]
      /\ UNCHANGED <<videoState, home>> /\ StoredManifests' = StoredManifests
      /\ \A k \in ManifestIds \ {p.mid} : manifests'[k] = manifests[k]
      /\ model.frozen = p.doc.frozen /\ model.list = p.doc.list
      /\ model.last = NewestValid(model.list, val)
      /\ {k \in model.list : val[k] = "valid"} = ListedValid(u)'
      /\ proc'[a].op = "validate:events" /\ proc'[a].vid = u
    BY <1>3, ValidateAlone
<1> HIDE DEF model, val, v
<1>5. model.last # NoManifest =>
         model.last \in ListedValid(u)' /\ \A k \in ListedValid(u)' : k <= model.last
    <2>1. model.list \in SUBSET ManifestIds
        BY <1>2, <1>4
    <2>2. LET n == NewestValid(model.list, val)
              ok == {k \in model.list : val[k] = "valid"}
          IN  n # NoManifest => n \in ok /\ \A k \in ok : k <= n
        BY <2>1, NewestValidIs
    <2>. QED
        BY <1>4, <2>2
<1>6. ASSUME NEW w \in VideoIds \ {u}
      PROVE  ListedValid(w)' = ListedValid(w)
    <2>1. videos'[w] = videos[w]
        BY <1>4, SerialFacts DEF TypeOK
    <2>. QED
        BY <1>2, <1>3, <1>4, <2>1, OthersListed
<1>7. ~model.frozen
    <2>1. p.mid \in p.doc.list
        BY <1>1, SerialFacts DEF Alone
    <2>. QED
        BY <1>2, <1>4, <2>1, SerialFacts
<1>. QED
    BY <1>2, <1>3, <1>4, <1>5, <1>6, <1>7, AloneSave DEF ModelOps

\* What is left of the documents without manifest d.
LEMMA Removed ==
    ASSUME SerialInv, NEW a \in Actors, NEW d \in ManifestIds, DeleteManifest(a, d)
    PROVE  /\ \A v \in VideoIds :
                 /\ videos'[v].frozen = videos[v].frozen
                 /\ ListedValid(v)' = ListedValid(v) \ {d}
                 /\ videos'[v].last = IF videos[v].last = d THEN NoManifest ELSE videos[v].last
                 /\ videos'[v].list \subseteq videos[v].list
                 /\ videos[v].list \ {d} \subseteq videos'[v].list
                 /\ d \notin videos[v].list =>
                       videos'[v].list = videos[v].list /\ videos'[v].last = videos[v].last
                 /\ videos[v] = EmptyVideo => videos'[v] = EmptyVideo
           /\ StoredManifests' = StoredManifests \ {d}
<1>0. TypeOK /\ \A v \in VideoIds : videos[v] \in VideoDoc /\ ShowsNewest(v)
    BY SerialFacts
<1>1. CASE d \notin StoredManifests
    <2>1. UNCHANGED <<videos, manifests>>
        BY <1>1 DEF DeleteManifest, RemoveManifest
    <2>2. StoredManifests' = StoredManifests /\ StoredManifests = StoredManifests \ {d}
        BY <1>1, <2>1 DEF StoredManifests
    <2>3. \A v \in VideoIds : ListedValid(v)' = ListedValid(v) /\ d \notin ListedValid(v)
        BY <1>1, <2>1, <2>2 DEF ListedValid
    <2>4. \A v \in VideoIds : videos[v].last = d => d = NoManifest
        BY <1>0, <2>3 DEF ShowsNewest, IsNewestValid
    <2>. QED
        BY <1>1, <2>1, <2>2, <2>3, <2>4
<1>2. CASE d \in StoredManifests
    <2>1. /\ manifests' = [manifests EXCEPT ![d] = DeletedManifest]
          /\ videos' = [v \in VideoIds |-> WithoutManifest(videos[v], d)]
        BY <1>2 DEF DeleteManifest, RemoveManifest
    <2>2. /\ manifests'[d].state = "deleted"
          /\ \A k \in ManifestIds \ {d} : manifests'[k] = manifests[k]
        BY <1>0, <2>1 DEF TypeOK, DeletedManifest
    <2>3. StoredManifests' = StoredManifests \ {d}
        BY <2>2 DEF StoredManifests
    <2>4. ASSUME NEW v \in VideoIds
          PROVE  /\ videos'[v].frozen = videos[v].frozen
                 /\ videos'[v].list = videos[v].list \ {d}
                 /\ videos'[v].last = IF videos[v].last = d THEN NoManifest ELSE videos[v].last
                 /\ videos[v] = EmptyVideo => videos'[v] = EmptyVideo
        <3>1. videos'[v] = WithoutManifest(videos[v], d)
            BY <2>1
        <3>2. WithoutManifest(EmptyVideo, d) = EmptyVideo
            <4>1. {} \ {d} = {}
                OBVIOUS
            <4>2. (IF NoManifest = d THEN NoManifest ELSE NoManifest) = NoManifest
                OBVIOUS
            <4>. QED
                BY <4>1, <4>2 DEF WithoutManifest, EmptyVideo
        <3>. QED
            BY <3>1, <3>2 DEF WithoutManifest
    <2>5. ASSUME NEW v \in VideoIds
          PROVE  ListedValid(v)' = ListedValid(v) \ {d}
        <3>1. videos[v].list \in SUBSET ManifestIds
            BY SerialFacts
        <3>. QED
            BY <2>2, <2>3, <2>4, <3>1 DEF ListedValid
    <2>6. ASSUME NEW v \in VideoIds, d \notin videos[v].list
          PROVE  videos[v].last = d => d = NoManifest
        BY <1>0, <2>6 DEF ShowsNewest, IsNewestValid, ListedValid
    <2>7. ASSUME NEW v \in VideoIds, d \notin videos[v].list
          PROVE  videos'[v].list = videos[v].list /\ videos'[v].last = videos[v].last
        BY <2>4, <2>6, <2>7
    <2>. QED
        BY <2>3, <2>4, <2>5, <2>7
<1>. QED
    BY <1>1, <1>2

LEMMA AloneDeleteManifest ==
    ASSUME Serial, SerialInv, IInv', NEW a \in Actors, NEW d \in ManifestIds,
           DeleteManifest(a, d)
    PROVE  SerialInv'
<1>1. /\ proc[a].op \in {"delete:manifests", "moderate:manifests"}
      /\ Become(a, [proc[a] EXCEPT !.todo = @ \ {d}])
      /\ UNCHANGED videoState
    BY DEF DeleteManifest
<1>2. proc \in [Actors -> Proc] /\ proc[a] \in Proc
    BY SerialFacts DEF TypeOK
<1>3. proc'[a].op = proc[a].op /\ proc'[a].vid = proc[a].vid
    BY <1>1, <1>2 DEF Become, Proc
<1>4. Alone(proc[a])'
    <2>1. videoState[proc[a].vid] = "stored"
        BY <1>1, SerialFacts DEF Alone
    <2>. QED
        BY <1>1, <1>3, <2>1 DEF Alone, ModelOps, LoadedOps
<1>5. ASSUME NEW v \in VideoIds
      PROVE  /\ videoState'[v] # "stored" => videos'[v] = EmptyVideo
             /\ videos'[v].frozen => videos'[v].list = {} /\ videos'[v].last = NoManifest
             /\ ShowsNewest(v)'
    <2>1. ShowsNewest(v)'
        BY SerialFacts, Removed DEF ShowsNewest, IsNewestValid
    <2>2. videoState'[v] # "stored" => videos'[v] = EmptyVideo
        BY <1>1, SerialFacts, Removed
    <2>3. videos'[v].frozen => videos'[v].list = {} /\ videos'[v].last = NoManifest
        BY SerialFacts, Removed
    <2>. QED
        BY <2>1, <2>2, <2>3
<1>. QED
    BY <1>4, <1>5, SerialBy

LEMMA AloneDeleteVideo ==
    ASSUME Serial, SerialInv, IInv', NEW a \in Actors, DeleteVideo(a)
    PROVE  SerialInv'
<1> DEFINE p == proc[a]
<1>1. /\ p.op = "delete:manifests"
      /\ videoState' = [videoState EXCEPT ![p.vid] = "deleted"]
      /\ videos' = [videos EXCEPT ![p.vid] = EmptyVideo]
      /\ Finish(a) /\ UNCHANGED manifests
    BY DEF DeleteVideo
<1>2. p.vid \in VideoIds /\ TypeOK
    BY <1>1, SerialFacts, TypeFacts DEF Idle
<1>3. proc'[a] = IdleProc
    BY <1>1, <1>2 DEF Finish, Become, TypeOK
<1>4. Alone(proc[a])'
    BY <1>3 DEF Alone, IdleProc, ModelOps, LoadedOps
<1>5. /\ videos'[p.vid] = EmptyVideo
      /\ \A w \in VideoIds \ {p.vid} : videos'[w] = videos[w] /\ videoState'[w] = videoState[w]
    BY <1>1, <1>2 DEF TypeOK
<1>6. EmptyVideo.list = {} /\ EmptyVideo.last = NoManifest
    BY DEF EmptyVideo
<1>7. ASSUME NEW w \in VideoIds
      PROVE  /\ videoState'[w] # "stored" => videos'[w] = EmptyVideo
             /\ videos'[w].frozen => videos'[w].list = {} /\ videos'[w].last = NoManifest
             /\ ShowsNewest(w)'
    <2>1. CASE w = p.vid
        BY <1>5, <1>6, <2>1 DEF ShowsNewest
    <2>2. CASE w # p.vid
        <3>1. ShowsNewest(w)' = ShowsNewest(w)
            BY <1>1, <1>5, <2>2 DEF ShowsNewest, IsNewestValid, ListedValid, StoredManifests
        <3>. QED
            BY <1>5, <2>2, <3>1, SerialFacts
    <2>. QED
        BY <2>1, <2>2
<1>. QED
    BY <1>4, <1>7, SerialBy

-----------------------------------------------------------------------------

LEMMA SerialInit == Init => SerialInv
<1> SUFFICES ASSUME Init PROVE SerialInv
    OBVIOUS
<1>1. IInv
    BY InitInv
<1>2. \A v \in VideoIds : videos[v] = EmptyVideo
    BY DEF Init
<1>3. EmptyVideo.frozen = FALSE /\ EmptyVideo.last = NoManifest
    BY DEF EmptyVideo
<1>4. UnstoredInv /\ ModeratedInv /\ NeverShowsOlder
    BY <1>2, <1>3 DEF UnstoredInv, ModeratedInv, NeverShowsOlder
<1>5. \A a \in Actors : Alone(proc[a])
    BY AloneIdle DEF Init
<1>. QED
    BY <1>1, <1>4, <1>5 DEF SerialInv

LEMMA SerialStep ==
    ASSUME Serial, SerialInv, [Next]_vars
    PROVE  SerialInv'
<1>1. IInv'
    BY NextInv DEF SerialInv
<1>2. ASSUME NEW a \in Actors, Begin(a)
      PROVE  SerialInv'
    <2>1. ASSUME NEW v \in VideoIds, NEW r \in Refs, CreateVideo(a, v, r)
          PROVE  SerialInv'
        BY <1>1, <2>1, AloneCreateVideo
    <2>2. ASSUME NEW v \in VideoIds,
                 \/ \E r \in Refs : UpdateRead(a, v, r)
                 \/ DeleteRead(a, v) \/ ModerateRead(a, v) \/ VoteRead(a, v)
          PROVE  SerialInv'
        BY <1>1, <2>2, AloneBegin
    <2>3. ASSUME NEW j \in jobs, StartValidation(a, j)
          PROVE  SerialInv'
        <3>1. j.vid \in VideoIds
            BY SerialFacts DEF TypeOK, Job
        <3>. QED
            BY <1>1, <2>3, <3>1, AloneBegin
    <2>4. ASSUME NEW j \in jobs, StartRefused(a, j)
          PROVE  SerialInv'
        BY <1>1, <2>4, AloneQueue DEF StartRefused, dbVars
    <2>. QED
        BY <1>2, <2>1, <2>2, <2>3, <2>4 DEF Begin
<1>3. ASSUME NEW a \in Actors, Progress(a) \/ Crash(a)
      PROVE  SerialInv'
    <2>1. CASE \/ CreateManifestRefused(a) \/ UpdateRefused(a) \/ UpdateManifestRefused(a)
               \/ Enqueue(a) \/ ModerateDone(a) \/ ValidateDone(a) \/ ValidateFault(a)
               \/ Crash(a)
        BY <1>1, <2>1, AloneEnd
    <2>2. CASE CreateManifest(a)
        BY <1>1, <2>2, AloneCreateManifest
    <2>3. CASE UpdateAdd(a)
        BY <1>1, <2>3, AloneUpdateAdd
    <2>4. CASE UpdateManifest(a)
        BY <1>1, <2>4, AloneUpdateManifest
    <2>5. CASE Link(a)
        BY <1>1, <2>5, AloneLink
    <2>6. CASE \E d \in ManifestIds : DeleteManifest(a, d)
        BY <1>1, <2>6, AloneDeleteManifest
    <2>7. CASE DeleteVideo(a)
        BY <1>1, <2>7, AloneDeleteVideo
    <2>8. CASE ModerateSave(a)
        BY <1>1, <2>8, AloneModerateSave
    <2>9. CASE VoteSave(a)
        BY <1>1, <2>9, AloneVoteSave
    <2>10. CASE ValidateLoad(a)
        BY <1>1, <2>10, AloneValidateLoad
    <2>11. CASE \E o \in {"valid", "invalid"} : ValidateSave(a, o)
        BY <1>1, <2>11, AloneValidateSave
    <2>. QED
        BY <1>3, <2>1, <2>2, <2>3, <2>4, <2>5, <2>6, <2>7, <2>8, <2>9, <2>10, <2>11 DEF Progress
<1>4. CASE UNCHANGED <<videoState, videos, manifests, proc>>
    <2>1. CASE \E a \in Actors : TRUE
        BY <1>1, <1>4, <2>1, AloneQueue
    <2>2. CASE ~\E a \in Actors : TRUE
        BY <1>1, <1>4, <2>2
        DEF SerialInv, UnstoredInv, ModeratedInv, NeverShowsOlder, IsNewestValid, ListedValid,
            StoredManifests
    <2>. QED
        BY <2>1, <2>2
<1>5. CASE \/ \E v \in VideoIds : ForceVideo(v)
           \/ \E v \in VideoIds, m \in ManifestIds : ForceManifest(v, m)
           \/ UNCHANGED vars
    BY <1>4, <1>5 DEF ForceVideo, ForceManifest, vars, dbVars
<1>. QED
    BY <1>2, <1>3, <1>5 DEF Next

LEMMA SerialInvariant ==
    ASSUME Serial
    PROVE  Spec => []SerialInv
<1>1. SerialInv /\ [Next]_vars => SerialInv'
    BY SerialStep
<1>. QED
    BY <1>1, SerialInit, PTL DEF Spec

\* While one operation runs at a time, a video never shows a manifest older than a valid one
\* it lists, wherever crashes cut operations off.
THEOREM SerialNeverShowsOlder ==
    ASSUME Serial
    PROVE  Spec => []NeverShowsOlder
<1>1. SerialInv => NeverShowsOlder
    BY DEF SerialInv
<1>. QED
    BY <1>1, SerialInvariant, PTL

\* While one operation runs at a time, a moderated video has no manifests.
THEOREM SerialModeratedHasNoManifests ==
    ASSUME Serial
    PROVE  Spec => []ModeratedHasNoManifests
<1>1. SerialInv => ModeratedHasNoManifests
    BY DEF SerialInv, ModeratedInv, ModeratedHasNoManifests
<1>. QED
    BY <1>1, SerialInvariant, PTL


-----------------------------------------------------------------------------
(* What readers of the videos see of a step.                                *)

\* The video was moderated or deleted.
Hidden(v) == videos[v].frozen \/ videoState[v] = "deleted"

SameShown(v) == (Hidden(v)' <=> Hidden(v)) /\ videos'[v].last = videos[v].last

\* The step chooses what a video shows, or hides it and shows nothing.
ShownAnew(v) ==
    \/ ~Hidden(v) /\ ~Hidden(v)'
    \/ Hidden(v)' /\ videos'[v].last = NoManifest

OneShown ==
    \/ \A v \in VideoIds : SameShown(v)
    \/ \E v \in VideoIds : ShownAnew(v) /\ \A w \in VideoIds \ {v} : SameShown(w)

LEMMA SaveShown ==
    ASSUME TypeOK, NEW v \in VideoIds, NEW model, videos' = [videos EXCEPT ![v] = model],
           UNCHANGED videoState,
           \/ model.frozen /\ model.last = NoManifest
           \/ ~model.frozen /\ ~videos[v].frozen /\ videoState[v] = "stored"
    PROVE  OneShown
<1>1. videos'[v] = model /\ \A w \in VideoIds \ {v} : videos'[w] = videos[w]
    BY DEF TypeOK
<1>. QED
    BY <1>1 DEF OneShown, SameShown, ShownAnew, Hidden

LEMMA DeletionShown ==
    ASSUME SerialInv, NEW a \in Actors, NEW d \in ManifestIds, DeleteManifest(a, d)
    PROVE  OneShown
<1>1. UNCHANGED videoState
    BY DEF DeleteManifest
<1>2. \A v \in VideoIds :
         /\ videos'[v].frozen = videos[v].frozen
         /\ videos'[v].last = IF videos[v].last = d THEN NoManifest ELSE videos[v].last
    BY Removed
<1>3. \A v \in VideoIds : Hidden(v)' <=> Hidden(v)
    BY <1>1, <1>2 DEF Hidden
<1>4. d # NoManifest
    BY DEF ManifestIds, NoManifest
<1>5. CASE \A v \in VideoIds : videos[v].last # d
    BY <1>2, <1>3, <1>5 DEF OneShown, SameShown
<1>6. ASSUME NEW v \in VideoIds, videos[v].last = d
      PROVE  OneShown
    <2>1. \A w \in VideoIds \ {v} : videos[w].last # d
        BY <1>4, <1>6, SerialFacts
    <2>2. ~videos[v].frozen
        BY <1>4, <1>6, SerialFacts
    <2>3. videoState[v] = "stored"
        BY <1>4, <1>6, SerialFacts DEF EmptyVideo
    <2>4. ~Hidden(v)
        BY <2>2, <2>3 DEF Hidden
    <2>. QED
        BY <1>2, <1>3, <2>1, <2>4 DEF OneShown, SameShown, ShownAnew
<1>. QED
    BY <1>5, <1>6

LEMMA StepShown ==
    ASSUME Serial, SerialInv, [Next]_vars
    PROVE  OneShown
<1>0. TypeOK
    BY SerialFacts
<1>1. CASE UNCHANGED <<videoState, videos>>
    BY <1>1 DEF OneShown, SameShown, Hidden
<1>2. ASSUME NEW a \in Actors, NEW v \in VideoIds, NEW r \in Refs, CreateVideo(a, v, r)
      PROVE  OneShown
    <2>1. /\ videoState[v] = "unborn" /\ videoState' = [videoState EXCEPT ![v] = "stored"]
          /\ UNCHANGED videos
        BY <1>2 DEF CreateVideo
    <2>2. \A w \in VideoIds : videoState'[w] = "deleted" <=> videoState[w] = "deleted"
        BY <1>0, <2>1 DEF TypeOK
    <2>. QED
        BY <2>1, <2>2 DEF OneShown, SameShown, Hidden
<1>3. ASSUME NEW a \in Actors, Link(a)
      PROVE  OneShown
    <2> DEFINE p == proc[a]
               model == AddManifest(p.doc, p.val, p.mid)
    <2>1. p.op = "link"
        BY <1>3 DEF Link
    <2>2. p.vid \in VideoIds /\ videoState[p.vid] = "stored" /\ p.doc = videos[p.vid]
        BY <2>1, LoadedModel
    <2>3. ~p.doc.frozen
        BY <2>1, SerialFacts DEF Alone
    <2>4. PICK u \in VideoIds : u = p.vid
        BY <2>2
    <2>5. videos' = [videos EXCEPT ![u] = model] /\ ~model.frozen /\ UNCHANGED videoState
        BY <1>3, <2>4, LinkAlone
    <2> HIDE DEF model
    <2>. QED
        BY <1>0, <2>2, <2>3, <2>4, <2>5, SaveShown
<1>4. ASSUME NEW a \in Actors, NEW o \in {"valid", "invalid"}, ValidateSave(a, o)
      PROVE  OneShown
    <2> DEFINE p == proc[a]
               model == OutcomeModel(p, o)
    <2>1. p.op = "validate:save"
        BY <1>4 DEF ValidateSave
    <2>2. p.vid \in VideoIds /\ videoState[p.vid] = "stored" /\ p.doc = videos[p.vid]
        BY <2>1, LoadedModel
    <2>3. p.mid \in p.doc.list
        BY <2>1, SerialFacts DEF Alone
    <2>4. PICK u \in VideoIds : u = p.vid
        BY <2>2
    <2>5. /\ videos' = [videos EXCEPT ![u] = model] /\ model.frozen = p.doc.frozen
          /\ UNCHANGED videoState
        BY <1>4, <2>4, ValidateAlone
    <2> HIDE DEF model
    <2>6. ~videos[u].frozen
        BY <2>2, <2>3, <2>4, SerialFacts
    <2>. QED
        BY <1>0, <2>2, <2>4, <2>5, <2>6, SaveShown
<1>5. ASSUME NEW a \in Actors, ModerateSave(a)
      PROVE  OneShown
    <2> DEFINE p == proc[a]
               model == SetAsUnsuitable(p.doc)
    <2>1. /\ p.vid \in VideoIds /\ videos' = [videos EXCEPT ![p.vid] = model]
          /\ UNCHANGED videoState /\ model.frozen /\ model.last = NoManifest
        BY <1>5, ModerateAlone
    <2> HIDE DEF model
    <2>2. PICK u \in VideoIds : u = p.vid
        BY <2>1
    <2>. QED
        BY <1>0, <2>1, <2>2, SaveShown
<1>6. ASSUME NEW a \in Actors, DeleteVideo(a)
      PROVE  OneShown
    <2>1. /\ proc[a].op = "delete:manifests"
          /\ videoState' = [videoState EXCEPT ![proc[a].vid] = "deleted"]
          /\ videos' = [videos EXCEPT ![proc[a].vid] = EmptyVideo]
        BY <1>6 DEF DeleteVideo
    <2>2. PICK u \in VideoIds : u = proc[a].vid
        BY <2>1, SerialFacts, TypeFacts DEF Idle
    <2>3. /\ videos'[u] = EmptyVideo /\ videoState'[u] = "deleted"
          /\ \A w \in VideoIds \ {u} : videos'[w] = videos[w] /\ videoState'[w] = videoState[w]
        BY <1>0, <2>1, <2>2 DEF TypeOK
    <2>. QED
        BY <2>3 DEF OneShown, SameShown, ShownAnew, Hidden, EmptyVideo
<1>7. ASSUME NEW a \in Actors, VoteSave(a)
      PROVE  OneShown
    BY <1>1, <1>7, VoteAlone
<1>8. ASSUME NEW a \in Actors, Begin(a)
      PROVE  OneShown
    BY <1>1, <1>2, <1>8
    DEF Begin, UpdateRead, DeleteRead, ModerateRead, VoteRead, StartValidation, StartRefused, dbVars
<1>9. ASSUME NEW a \in Actors, Progress(a) \/ Crash(a)
      PROVE  OneShown
    <2>1. CASE \/ CreateManifestRefused(a) \/ UpdateRefused(a) \/ UpdateManifestRefused(a)
               \/ UpdateAdd(a) \/ Enqueue(a) \/ ModerateDone(a) \/ ValidateLoad(a)
               \/ ValidateDone(a) \/ ValidateFault(a) \/ Crash(a)
        BY <1>1, <2>1
        DEF CreateManifestRefused, UpdateRefused, UpdateManifestRefused, UpdateAdd, Enqueue,
            ModerateDone, ValidateLoad, ValidateDone, ValidateFault, Crash, dbVars
    <2>2. CASE CreateManifest(a) \/ UpdateManifest(a)
        BY <1>1, <2>2 DEF CreateManifest, UpdateManifest, StoreManifest
    <2>3. CASE \E d \in ManifestIds : DeleteManifest(a, d)
        BY <2>3, DeletionShown
    <2>. QED
        BY <1>3, <1>4, <1>5, <1>6, <1>7, <1>9, <2>1, <2>2, <2>3 DEF Progress
<1>10. CASE \/ \E v \in VideoIds : ForceVideo(v)
            \/ \E v \in VideoIds, m \in ManifestIds : ForceManifest(v, m)
            \/ UNCHANGED vars
    BY <1>1, <1>10 DEF ForceVideo, ForceManifest, vars, dbVars
<1>. QED
    BY <1>8, <1>9, <1>10 DEF Next

\* While one operation runs at a time, what was moderated stays frozen and without manifests
\* until it is deleted, wherever crashes cut operations off.
THEOREM SerialModerationIsFinal ==
    ASSUME Serial
    PROVE  Spec => ModerationIsFinal
<1>1. ASSUME SerialInv, [Next]_vars, NEW v \in VideoIds, videos[v].frozen
      PROVE  videos'[v].list = {} /\ (videos'[v].frozen \/ videoState'[v] = "deleted")
    <2>1. SerialInv'
        BY <1>1, SerialStep
    <2>2. Hidden(v)
        BY <1>1 DEF Hidden
    <2>3. OneShown
        BY <1>1, StepShown
    <2>4. Hidden(v)'
        BY <2>2, <2>3 DEF OneShown, SameShown, ShownAnew
    <2>5. videos'[v].frozen => videos'[v].list = {}
        BY <2>1 DEF SerialInv, ModeratedInv
    <2>6. videoState'[v] = "deleted" => videos'[v].list = {}
        BY <2>1 DEF SerialInv, UnstoredInv, EmptyVideo
    <2>. QED
        BY <2>4, <2>5, <2>6 DEF Hidden
<1>2. SerialInv /\ [Next]_vars =>
         [\A v \in VideoIds : videos[v].frozen =>
             /\ videos'[v].list = {}
             /\ videos'[v].frozen \/ videoState'[v] = "deleted"]_vars
    BY <1>1
<1>. QED
    BY <1>2, SerialInvariant, PTL DEF Spec, ModerationIsFinal

\* While one operation runs at a time, an older manifest never takes the place of a newer one
\* that is still listed and valid.
THEOREM SerialNewerValidStays ==
    ASSUME Serial
    PROVE  Spec => NewerValidStays
<1>1. ASSUME SerialInv, [Next]_vars, NEW v \in VideoIds, videos[v].last # NoManifest,
             videos[v].last \in videos'[v].list, manifests'[videos[v].last].state = "stored",
             manifests'[videos[v].last].valid = "valid"
      PROVE  videos'[v].last \in {NoManifest} \cup videos[v].last .. MaxManifests
    <2> DEFINE m == videos[v].last
               n == videos'[v].last
    <2>1. SerialInv'
        BY <1>1, SerialStep
    <2>2. TypeOK /\ TypeOK'
        BY <1>1, <2>1, SerialFacts DEF SerialInv, IInv
    <2>3. m \in ManifestIds /\ n \in ManifestIds \cup {NoManifest}
        BY <1>1, <2>2 DEF TypeOK, VideoDoc
    <2>4. m \in ListedValid(v)'
        BY <1>1, <2>3 DEF ListedValid, StoredManifests
    <2>5. n # NoManifest => m <= n
        BY <2>1, <2>4 DEF SerialInv, NeverShowsOlder, IsNewestValid
    <2> HIDE DEF m, n
    <2>6. n \in {NoManifest} \cup m .. MaxManifests
        BY <2>3, <2>5, StoreAssumption DEF ManifestIds
    <2>. QED
        BY <2>6 DEF m, n
<1>2. SerialInv /\ [Next]_vars =>
         [\A v \in VideoIds :
             LET m == videos[v].last IN
             /\ m # NoManifest
             /\ m \in videos'[v].list
             /\ manifests'[m].state = "stored" /\ manifests'[m].valid = "valid"
             => videos'[v].last \in {NoManifest} \cup m .. MaxManifests]_vars
    BY <1>1
<1>. QED
    BY <1>2, SerialInvariant, PTL DEF Spec, NewerValidStays

-----------------------------------------------------------------------------
(* The store implements the published videos.                               *)

LEMMA PublishedInit == Init => Published!SourceInit
BY DEF Init, Published!SourceInit, EmptyVideo

LEMMA PublishedStep ==
    ASSUME TypeOK, TypeOK', OneShown
    PROVE  [Published!SourceNext]_(Published!sourceVars)
<1> DEFINE withdrawn == {w \in VideoIds : Hidden(w)}
           shown == [w \in VideoIds |-> videos[w].last]
<1>1. CASE \A v \in VideoIds : SameShown(v)
    <2>1. UNCHANGED <<withdrawn, shown>>
        BY <1>1 DEF SameShown
    <2>. QED
        BY <2>1 DEF Published!sourceVars, Hidden
<1>2. ASSUME NEW v \in VideoIds, ShownAnew(v), \A w \in VideoIds \ {v} : SameShown(w)
      PROVE  Published!SourceNext
    <2>1. shown' = [shown EXCEPT ![v] = videos'[v].last]
        BY <1>2 DEF SameShown
    <2>2. CASE ~Hidden(v) /\ ~Hidden(v)'
        <3>1. v \notin withdrawn /\ withdrawn' = withdrawn
            BY <1>2, <2>2 DEF SameShown
        <3>2. videos'[v].last \in ManifestIds \cup {NoManifest}
            BY DEF TypeOK, VideoDoc
        <3>3. PICK n \in ManifestIds \cup {NoManifest} : n = videos'[v].last
            BY <3>2
        <3>4. Published!Show(v, n)
            BY <2>1, <3>1, <3>3 DEF Published!Show, Hidden
        <3>. QED
            BY <3>4 DEF Published!SourceNext
    <2>3. CASE Hidden(v)' /\ videos'[v].last = NoManifest
        <3>1. withdrawn' = withdrawn \cup {v}
            BY <1>2, <2>3 DEF SameShown
        <3>2. shown' = [shown EXCEPT ![v] = NoManifest]
            BY <2>1, <2>3
        <3>3. Published!Withdraw(v)
            BY <3>1, <3>2 DEF Published!Withdraw, Hidden
        <3>. QED
            BY <3>3 DEF Published!SourceNext
    <2>. QED
        BY <1>2, <2>2, <2>3 DEF ShownAnew
<1>. QED
    BY <1>1, <1>2 DEF OneShown

\* While one operation runs at a time, the store is a source of published videos: what was
\* moderated or deleted never shows a manifest again, wherever crashes cut operations off.
THEOREM SerialImplementsPublished ==
    ASSUME Serial
    PROVE  Spec => PublishedSpec
<1>1. SerialInv /\ [Next]_vars => [Published!SourceNext]_(Published!sourceVars)
    <2> SUFFICES ASSUME SerialInv, [Next]_vars
                 PROVE  [Published!SourceNext]_(Published!sourceVars)
        OBVIOUS
    <2>1. SerialInv'
        BY SerialStep
    <2>2. TypeOK /\ TypeOK'
        BY <2>1 DEF SerialInv, IInv
    <2>. QED
        BY <2>2, StepShown, PublishedStep
<1>. QED
    BY <1>1, PublishedInit, SerialInvariant, PTL DEF Spec, PublishedSpec, Published!SourceSpec

-----------------------------------------------------------------------------
(* When no request is cut off.                                              *)

\* The invariant after a step, from what the step does to each video and to its actor.
LEMMA CompleteBy ==
    ASSUME Serial, SerialInv', NEW a \in Actors, Removing(proc[a])',
           \A v \in VideoIds :
              ~(proc'[a].op = "delete:manifests" /\ proc'[a].vid = v) /\ ListedValid(v)' # {}
                 => videos'[v].last # NoManifest,
           \A m \in StoredManifests' :
              /\ home'[m] \in VideoIds
              /\ \/ m \in videos'[home'[m]].list
                 \/ proc'[a].op = "link" /\ proc'[a].mid = m
                 \/ proc'[a].op = "moderate:manifests" /\ m \in proc'[a].todo
    PROVE  CompleteInv'
<1>1. \A b \in Actors : b = a
    BY DEF Serial
<1>2. \A v \in VideoIds :
         ~Deleting(v)' /\ ListedValid(v)' # {} => videos'[v].last # NoManifest
    BY DEF Deleting
<1>3. \A m \in StoredManifests' :
         home'[m] \in VideoIds /\ (m \in videos'[home'[m]].list \/ InHand(m)')
    BY DEF InHand
<1>4. \A b \in Actors : Removing(proc[b])'
    BY <1>1
<1>. QED
    BY <1>2, <1>3, <1>4 DEF CompleteInv

\* What the invariant says of the actor, of each video and of each manifest.
LEMMA CompleteFacts ==
    ASSUME Serial, CompleteInv, NEW a \in Actors
    PROVE  /\ SerialInv /\ Removing(proc[a])
           /\ \A v \in VideoIds :
                 ~(proc[a].op = "delete:manifests" /\ proc[a].vid = v) /\ ListedValid(v) # {}
                    => videos[v].last # NoManifest
           /\ \A m \in StoredManifests :
                 /\ home[m] \in VideoIds
                 /\ \/ m \in videos[home[m]].list
                    \/ proc[a].op = "link" /\ proc[a].mid = m
                    \/ proc[a].op = "moderate:manifests" /\ m \in proc[a].todo
<1>1. \A b \in Actors : b = a
    BY DEF Serial
<1>. QED
    BY <1>1 DEF CompleteInv, Deleting, InHand

\* A step that changes no collection, and does not drop a deletion in progress.
LEMMA CompleteLocal ==
    ASSUME Serial, CompleteInv, SerialInv', NEW a \in Actors,
           UNCHANGED <<videos, manifests, home>>,
           proc[a].op \notin {"delete:manifests", "link"},
           proc[a].op = "moderate:manifests" => proc[a].todo = {},
           Removing(proc'[a])
    PROVE  CompleteInv'
<1>1. Removing(proc[a])'
    BY DEF Removing, StoredManifests
<1>2. StoredManifests' = StoredManifests /\ \A v \in VideoIds : ListedValid(v)' = ListedValid(v)
    BY DEF ListedValid, StoredManifests
<1>. QED
    BY <1>1, <1>2, CompleteFacts, CompleteBy

LEMMA CompleteQueue ==
    ASSUME Serial, CompleteInv, SerialInv', UNCHANGED <<videos, manifests, home, proc>>
    PROVE  CompleteInv'
BY DEF CompleteInv, Deleting, InHand, Removing, ListedValid, StoredManifests

LEMMA RemovingNothing ==
    ASSUME NEW p, p.todo = {}, p.op \notin {"delete:manifests", "moderate:save", "moderate:manifests"}
    PROVE  Removing(p)
BY DEF Removing

LEMMA CompleteBegin ==
    ASSUME Serial, CompleteInv, SerialInv', NEW a \in Actors, NEW v \in VideoIds,
           \/ \E r \in Refs : CreateVideo(a, v, r) \/ UpdateRead(a, v, r)
           \/ DeleteRead(a, v)
           \/ ModerateRead(a, v)
           \/ VoteRead(a, v)
           \/ \E j \in jobs : StartValidation(a, j)
    PROVE  CompleteInv'
<1>1. proc \in [Actors -> Proc]
    BY CompleteFacts, SerialFacts DEF TypeOK
<1>2. UNCHANGED <<videos, manifests, home>> /\ proc[a].op = "idle"
    BY DEF CreateVideo, UpdateRead, DeleteRead, ModerateRead, VoteRead, StartValidation, dbVars,
       Idle
<1>3. Removing(proc'[a])
    <2>1. ASSUME NEW r \in Refs, CreateVideo(a, v, r) \/ UpdateRead(a, v, r)
          PROVE  proc'[a].todo = {} /\ proc'[a].op \in {"create:manifest", "update:lookup"}
        BY <1>1, <2>1 DEF CreateVideo, UpdateRead, Become, IdleProc
    <2>2. CASE VoteRead(a, v)
        <3>1. proc'[a].todo = {} /\ proc'[a].op = "vote:save"
            BY <1>1, <2>2 DEF VoteRead, Become, IdleProc
        <3>. QED
            BY <3>1, RemovingNothing
    <2>3. ASSUME NEW j \in jobs, StartValidation(a, j)
          PROVE  proc'[a].todo = {} /\ proc'[a].op = "validate:load"
        BY <1>1, <2>3 DEF StartValidation, Become, IdleProc
    <2>4. CASE DeleteRead(a, v) \/ ModerateRead(a, v)
        <3>1. /\ proc'[a].op \in {"delete:manifests", "moderate:save"}
              /\ proc'[a].vid = v /\ proc'[a].todo = videos[v].list
            BY <1>1, <2>4 DEF DeleteRead, ModerateRead, Become, IdleProc
        <3>2. \A m \in videos[v].list : home[m] = v
            BY CompleteFacts, SerialFacts
        <3>. QED
            BY <3>1, <3>2 DEF Removing
    <2>. QED
        BY <2>1, <2>2, <2>3, <2>4, RemovingNothing
<1>. QED
    BY <1>2, <1>3, CompleteLocal

LEMMA CompleteEnd ==
    ASSUME Serial, "request" \notin Faults, CompleteInv, SerialInv', NEW a \in Actors,
           \/ CreateManifestRefused(a) \/ UpdateRefused(a) \/ UpdateManifestRefused(a)
           \/ Enqueue(a) \/ ModerateDone(a) \/ ValidateDone(a) \/ ValidateFault(a) \/ Crash(a)
    PROVE  CompleteInv'
<1>1. Finish(a) /\ UNCHANGED <<videos, manifests, home>>
    BY DEF CreateManifestRefused, UpdateRefused, UpdateManifestRefused, Enqueue, ModerateDone,
       ValidateDone, ValidateFault, Crash, dbVars
<1>2. /\ proc[a].op \notin {"delete:manifests", "link"}
      /\ proc[a].op = "moderate:manifests" => proc[a].todo = {}
    BY DEF CreateManifestRefused, UpdateRefused, UpdateManifestRefused, Enqueue, ModerateDone,
       ValidateDone, ValidateFault, Crash, ValidateOps
<1>3. proc'[a] = IdleProc
    BY <1>1, CompleteFacts, SerialFacts DEF Finish, Become, TypeOK
<1>4. Removing(proc'[a])
    BY <1>3 DEF Removing, IdleProc
<1>. QED
    BY <1>1, <1>2, <1>4, CompleteLocal

\* An update or a validation loads what it needs.
LEMMA CompleteLoad ==
    ASSUME Serial, CompleteInv, SerialInv', NEW a \in Actors, UpdateAdd(a) \/ ValidateLoad(a)
    PROVE  CompleteInv'
<1>1. /\ proc[a].op \in {"update:lookup", "validate:load"}
      /\ UNCHANGED <<videos, manifests, home>>
    BY DEF UpdateAdd, ValidateLoad, dbVars
<1>2. proc \in [Actors -> Proc] /\ proc[a] \in Proc
    BY CompleteFacts, SerialFacts DEF TypeOK
<1>3. /\ proc'[a].op \in {"update:manifest", "validate:save"}
      /\ proc'[a].vid = proc[a].vid /\ proc'[a].todo = proc[a].todo
    <2>1. CASE UpdateAdd(a)
        BY <1>2, <2>1 DEF UpdateAdd, Become, Proc
    <2>2. CASE ValidateLoad(a)
        <3>1. PICK m : proc' = [proc EXCEPT ![a] =
                 [proc[a] EXCEPT !.op = "validate:save", !.mid = m,
                                 !.val = LoadedValidity(proc[a].doc.list)]]
            BY <2>2 DEF ValidateLoad, Become
        <3>. QED
            BY <1>2, <3>1 DEF Proc
    <2>. QED
        BY <2>1, <2>2
<1>4. Removing(proc'[a])
    BY <1>3, CompleteFacts DEF Removing
<1>. QED
    BY <1>1, <1>4, CompleteLocal

\* A manifest just stored is about to be linked.
LEMMA CompleteStore ==
    ASSUME Serial, CompleteInv, SerialInv', NEW a \in Actors, NEW m \in ManifestIds,
           manifests[m].state = "unborn", StoreManifest(a, m),
           proc[a].vid \in VideoIds, proc[a].op \in {"create:manifest", "update:manifest"},
           proc'[a].op = "link", proc'[a].vid = proc[a].vid, proc'[a].mid = m,
           proc'[a].todo = proc[a].todo
    PROVE  CompleteInv'
<1> DEFINE v == proc[a].vid
<1>1. UNCHANGED <<videoState, videos>>
    BY DEF StoreManifest
<1>2. TypeOK
    BY CompleteFacts, SerialFacts
<1>3. /\ manifests'[m].state = "stored" /\ home'[m] = v
      /\ \A k \in ManifestIds \ {m} : manifests'[k] = manifests[k] /\ home'[k] = home[k]
    BY <1>2 DEF StoreManifest, TypeOK
<1>4. StoredManifests' = StoredManifests \cup {m} /\ m \notin StoredManifests
    BY <1>3 DEF StoredManifests
<1>5. ASSUME NEW w \in VideoIds
      PROVE  ListedValid(w)' = ListedValid(w)
    <2>1. m \notin videos[w].list /\ videos[w].list \in SUBSET ManifestIds
        BY CompleteFacts, SerialFacts
    <2>. QED
        BY <1>1, <1>3, <1>4, <2>1 DEF ListedValid
<1>6. ASSUME NEW k \in StoredManifests'
      PROVE  home'[k] \in VideoIds /\ (k \in videos'[home'[k]].list \/ k = m)
    <2>1. k # m => k \in StoredManifests /\ k \in ManifestIds /\ home'[k] = home[k]
        BY <1>3, <1>4 DEF StoredManifests
    <2>. QED
        BY <1>1, <1>3, <2>1, CompleteFacts
<1>7. Removing(proc[a])'
    <2>1. \A k \in proc[a].todo : home[k] = v /\ k \in ManifestIds
        BY <1>2, CompleteFacts DEF Removing, TypeOK, Proc
    <2>2. \A k \in proc[a].todo : home'[k] = v
        BY <1>3, <2>1
    <2>. QED
        BY <2>2 DEF Removing
<1>8. \A w \in VideoIds : ListedValid(w)' # {} => videos'[w].last # NoManifest
    BY <1>1, <1>5, CompleteFacts
<1>. QED
    BY <1>6, <1>7, <1>8, CompleteBy

LEMMA CompleteNewManifest ==
    ASSUME Serial, CompleteInv, SerialInv', NEW a \in Actors,
           CreateManifest(a) \/ UpdateManifest(a)
    PROVE  CompleteInv'
<1>0. SerialInv /\ TypeOK /\ proc \in [Actors -> Proc] /\ proc[a] \in Proc
    BY CompleteFacts, SerialFacts DEF TypeOK
<1>1. CASE CreateManifest(a)
    <2> DEFINE m == built + 1
    <2>1. /\ proc[a].op = "create:manifest" /\ m \in ManifestIds /\ StoreManifest(a, m)
          /\ Become(a, [proc[a] EXCEPT !.op = "link", !.mid = m])
        BY <1>1 DEF CreateManifest
    <2>2. built \in Nat
        BY <1>0, StoreAssumption DEF TypeOK
    <2>3. manifests[m].state = "unborn"
        BY <1>0, <2>1, <2>2 DEF SerialInv, IInv, FreshInv
    <2>4. proc[a].vid \in VideoIds
        BY <1>0, <2>1, TypeFacts DEF Idle
    <2> HIDE DEF m
    <2>5. /\ proc'[a].op = "link" /\ proc'[a].vid = proc[a].vid /\ proc'[a].mid = m
          /\ proc'[a].todo = proc[a].todo
        BY <1>0, <2>1 DEF Become, Proc
    <2>. QED
        BY <2>1, <2>3, <2>4, <2>5, CompleteStore
<1>2. CASE UpdateManifest(a)
    <2> DEFINE m == proc[a].mid
    <2>1. /\ proc[a].op = "update:manifest" /\ StoreManifest(a, m)
          /\ Become(a, [proc[a] EXCEPT !.op = "link"])
        BY <1>2 DEF UpdateManifest
    <2>2. proc[a].vid \in VideoIds /\ m \in ManifestIds
        BY <1>0, <2>1, TypeFacts DEF Idle
    <2>3. manifests[m].state = "unborn"
        BY <1>0, <2>1 DEF SerialInv, IInv, ProcInv
    <2>4. /\ proc'[a].op = "link" /\ proc'[a].vid = proc[a].vid /\ proc'[a].mid = m
          /\ proc'[a].todo = proc[a].todo
        BY <1>0, <2>1 DEF Become, Proc
    <2>. QED
        BY <2>1, <2>2, <2>3, <2>4, CompleteStore
<1>. QED
    BY <1>1, <1>2

\* A video that got a model with its newest valid manifest, and all the manifests it had.
LEMMA CompleteSave ==
    ASSUME Serial, CompleteInv, SerialInv', NEW a \in Actors, NEW v \in VideoIds,
           NEW model, videos' = [videos EXCEPT ![v] = model],
           UNCHANGED home, StoredManifests' = StoredManifests,
           \A w \in VideoIds \ {v} : ListedValid(w)' = ListedValid(w),
           model.last = NoManifest => ListedValid(v)' = {},
           videos[v].list \subseteq model.list,
           proc[a].op \in {"link", "validate:save"},
           proc[a].op = "link" => home[proc[a].mid] = v /\ proc[a].mid \in model.list,
           proc'[a].op \in {"enqueue", "validate:events"}, proc'[a].todo = {}
    PROVE  CompleteInv'
<1>1. videos'[v] = model /\ \A w \in VideoIds \ {v} : videos'[w] = videos[w]
    BY CompleteFacts, SerialFacts DEF TypeOK
<1>2. Removing(proc[a])'
    BY DEF Removing
<1>3. \A w \in VideoIds : ListedValid(w)' # {} => videos'[w].last # NoManifest
    <2>1. \A w \in VideoIds \ {v} : ListedValid(w)' # {} => videos'[w].last # NoManifest
        BY <1>1, CompleteFacts
    <2>. QED
        BY <1>1, <2>1
<1>4. ASSUME NEW m \in StoredManifests'
      PROVE  home'[m] \in VideoIds /\ m \in videos'[home'[m]].list
    <2>1. m \in videos[home[m]].list \/ (proc[a].op = "link" /\ proc[a].mid = m)
        BY <1>4, CompleteFacts
    <2>2. home[m] \in VideoIds
        BY <1>4, CompleteFacts
    <2>3. CASE home[m] = v
        BY <1>1, <2>1, <2>3
    <2>4. CASE home[m] # v
        BY <1>1, <2>1, <2>2, <2>4
    <2>. QED
        BY <2>3, <2>4
<1>. QED
    BY <1>2, <1>3, <1>4, CompleteBy

LEMMA CompleteLink ==
    ASSUME Serial, CompleteInv, SerialInv', NEW a \in Actors, Link(a)
    PROVE  CompleteInv'
<1> DEFINE p == proc[a]
           model == AddManifest(p.doc, p.val, p.mid)
<1>0. SerialInv
    BY CompleteFacts
<1>1. p.op = "link"
    BY DEF Link
<1>2. /\ p.vid \in VideoIds /\ p.doc.list \in SUBSET ManifestIds /\ p.mid \in ManifestIds
      /\ home[p.mid] = p.vid /\ p.doc = videos[p.vid]
    BY <1>0, <1>1, LoadedModel
<1>3. PICK u \in VideoIds : u = p.vid
    BY <1>2
<1>4. /\ videos' = [videos EXCEPT ![u] = model]
      /\ UNCHANGED <<videoState, manifests, home>>
      /\ model.list = p.doc.list \cup {p.mid}
      /\ model.last = NewestValid(model.list, p.val)
      /\ {k \in model.list : p.val[k] = "valid"} = ListedValid(u)'
      /\ proc'[a].op = "enqueue" /\ proc'[a].todo = {}
    BY <1>0, <1>3, LinkAlone
<1> HIDE DEF model
<1>5. model.last = NoManifest => ListedValid(u)' = {}
    <2>1. model.list \in SUBSET ManifestIds
        BY <1>2, <1>4
    <2>2. LET n == NewestValid(model.list, p.val)
              ok == {k \in model.list : p.val[k] = "valid"}
          IN  n = NoManifest => ok = {}
        BY <2>1, NewestValidIs
    <2>. QED
        BY <1>4, <2>2
<1>6. ASSUME NEW w \in VideoIds \ {u}
      PROVE  ListedValid(w)' = ListedValid(w)
    <2>1. videos'[w] = videos[w]
        BY <1>0, <1>4, SerialFacts DEF TypeOK
    <2>. QED
        BY <1>4, <2>1 DEF ListedValid, StoredManifests
<1>7. StoredManifests' = StoredManifests /\ UNCHANGED home
    BY <1>4 DEF StoredManifests
<1>8. videos[u].list \subseteq model.list /\ home[p.mid] = u /\ p.mid \in model.list
    BY <1>2, <1>3, <1>4
<1>. QED
    BY <1>1, <1>4, <1>5, <1>6, <1>7, <1>8, CompleteSave

LEMMA CompleteValidateSave ==
    ASSUME Serial, CompleteInv, SerialInv', NEW a \in Actors, NEW outcome \in {"valid", "invalid"},
           ValidateSave(a, outcome)
    PROVE  CompleteInv'
<1> DEFINE p == proc[a]
           model == OutcomeModel(p, outcome)
           val == OutcomeVal(p, outcome)
<1>0. SerialInv
    BY CompleteFacts
<1>1. p.op = "validate:save"
    BY DEF ValidateSave
<1>2. /\ p.vid \in VideoIds /\ p.doc.list \in SUBSET ManifestIds /\ p.mid \in ManifestIds
      /\ home[p.mid] = p.vid /\ p.doc = videos[p.vid]
    BY <1>0, <1>1, LoadedModel
<1>3. PICK u \in VideoIds : u = p.vid
    BY <1>2
<1>4. /\ videos' = [videos EXCEPT ![u] = model]
      /\ UNCHANGED home /\ StoredManifests' = StoredManifests
      /\ \A k \in ManifestIds \ {p.mid} : manifests'[k] = manifests[k]
      /\ model.list = p.doc.list
      /\ model.last = NewestValid(model.list, val)
      /\ {k \in model.list : val[k] = "valid"} = ListedValid(u)'
      /\ proc'[a].op = "validate:events" /\ proc'[a].todo = {}
    BY <1>0, <1>3, ValidateAlone
<1> HIDE DEF model, val
<1>5. model.last = NoManifest => ListedValid(u)' = {}
    <2>1. model.list \in SUBSET ManifestIds
        BY <1>2, <1>4
    <2>2. LET n == NewestValid(model.list, val)
              ok == {k \in model.list : val[k] = "valid"}
          IN  n = NoManifest => ok = {}
        BY <2>1, NewestValidIs
    <2>. QED
        BY <1>4, <2>2
<1>6. ASSUME NEW w \in VideoIds \ {u}
      PROVE  ListedValid(w)' = ListedValid(w)
    <2>1. videos'[w] = videos[w]
        BY <1>0, <1>4, SerialFacts DEF TypeOK
    <2>. QED
        BY <1>0, <1>2, <1>3, <1>4, <2>1, OthersListed
<1>7. videos[u].list \subseteq model.list
    BY <1>2, <1>3, <1>4
<1>. QED
    BY <1>1, <1>4, <1>5, <1>6, <1>7, CompleteSave

LEMMA CompleteModerateSave ==
    ASSUME Serial, CompleteInv, SerialInv', NEW a \in Actors, ModerateSave(a)
    PROVE  CompleteInv'
<1> DEFINE p == proc[a]
           model == SetAsUnsuitable(p.doc)
<1>0. SerialInv /\ TypeOK /\ Removing(p)
    BY CompleteFacts, SerialFacts
<1>1. /\ p.op = "moderate:save" /\ p.vid \in VideoIds
      /\ videos' = [videos EXCEPT ![p.vid] = model]
      /\ UNCHANGED <<manifests, home>>
      /\ model.frozen /\ model.list = {}
      /\ proc'[a].op = "moderate:manifests" /\ proc'[a].vid = p.vid /\ proc'[a].todo = p.todo
    BY <1>0, ModerateAlone
<1>2. PICK u \in VideoIds : u = p.vid
    BY <1>1
<1> HIDE DEF model
<1>3. videos'[u] = model /\ \A w \in VideoIds \ {u} : videos'[w] = videos[w]
    BY <1>0, <1>1, <1>2 DEF TypeOK
<1>4. StoredManifests' = StoredManifests
    BY <1>1 DEF StoredManifests
<1>5. ASSUME NEW w \in VideoIds, ListedValid(w)' # {}
      PROVE  videos'[w].last # NoManifest
    <2>1. w # u
        BY <1>1, <1>3, <1>5 DEF ListedValid
    <2>2. ListedValid(w)' = ListedValid(w) /\ videos'[w] = videos[w]
        BY <1>1, <1>3, <1>4, <2>1 DEF ListedValid
    <2>. QED
        BY <1>1, <1>5, <2>2, CompleteFacts
<1>6. ASSUME NEW m \in StoredManifests'
      PROVE  /\ home'[m] \in VideoIds
             /\ m \in videos'[home'[m]].list \/ m \in p.todo
    <2>1. home[m] \in VideoIds /\ m \in videos[home[m]].list
        BY <1>1, <1>4, <1>6, CompleteFacts
    <2>2. home[m] = u => m \in p.todo
        BY <1>0, <1>1, <1>2, <1>4, <1>6, <2>1 DEF Removing
    <2>. QED
        BY <1>1, <1>3, <2>1, <2>2
<1>7. Removing(proc[a])'
    BY <1>0, <1>1, <1>2, <1>3 DEF Removing
<1>. QED
    BY <1>1, <1>5, <1>6, <1>7, CompleteBy

LEMMA CompleteDeleteManifest ==
    ASSUME Serial, CompleteInv, SerialInv', NEW a \in Actors, NEW d \in ManifestIds,
           DeleteManifest(a, d)
    PROVE  CompleteInv'
<1> DEFINE p == proc[a]
<1>0. SerialInv /\ TypeOK /\ Removing(p) /\ proc \in [Actors -> Proc] /\ p \in Proc
    BY CompleteFacts, SerialFacts DEF TypeOK
<1>1. /\ p.op \in {"delete:manifests", "moderate:manifests"} /\ d \in p.todo
      /\ Become(a, [p EXCEPT !.todo = @ \ {d}])
      /\ UNCHANGED home
    BY DEF DeleteManifest
<1>2. proc'[a].op = p.op /\ proc'[a].vid = p.vid /\ proc'[a].todo = p.todo \ {d}
    BY <1>0, <1>1 DEF Become, Proc
<1>3. /\ StoredManifests' = StoredManifests \ {d}
      /\ \A w \in VideoIds :
           /\ videos'[w].frozen = videos[w].frozen
           /\ ListedValid(w)' = ListedValid(w) \ {d}
           /\ videos'[w].last = IF videos[w].last = d THEN NoManifest ELSE videos[w].last
           /\ videos'[w].list \subseteq videos[w].list
           /\ videos[w].list \ {d} \subseteq videos'[w].list
    BY <1>0, Removed
<1>4. p.vid \in VideoIds /\ home[d] = p.vid /\ d # NoManifest
    BY <1>0, <1>1, TypeFacts DEF Idle, Removing, ManifestIds, NoManifest
<1>5. PICK u \in VideoIds : u = p.vid
    BY <1>4
<1>6. p.op = "moderate:manifests" => videos'[u].frozen /\ ListedValid(u)' = {}
    <2>1. p.op = "moderate:manifests" => videos'[u].frozen
        BY <1>0, <1>3, <1>5 DEF Removing
    <2>2. videos'[u].frozen => videos'[u].list = {}
        BY DEF SerialInv, ModeratedInv
    <2>3. videos'[u].list = {} => ListedValid(u)' = {}
        BY DEF ListedValid
    <2>. QED
        BY <2>1, <2>2, <2>3
<1>7. ASSUME NEW w \in VideoIds, ListedValid(w)' # {},
             ~(proc'[a].op = "delete:manifests" /\ proc'[a].vid = w)
      PROVE  videos'[w].last # NoManifest
    <2>1. w # u
        BY <1>1, <1>2, <1>5, <1>6, <1>7
    <2>2. ListedValid(w) # {}
        BY <1>3, <1>7
    <2>3. videos[w].last # NoManifest
        BY <1>5, <2>1, <2>2, CompleteFacts
    <2>4. videos[w].last # d
        BY <1>0, <1>4, <1>5, <2>1, SerialFacts
    <2>. QED
        BY <1>3, <2>3, <2>4
<1>8. ASSUME NEW m \in StoredManifests'
      PROVE  /\ home'[m] \in VideoIds
             /\ \/ m \in videos'[home'[m]].list
                \/ proc'[a].op = "moderate:manifests" /\ m \in proc'[a].todo
    <2>1. m \in StoredManifests /\ m # d
        BY <1>3, <1>8
    <2>2. /\ home[m] \in VideoIds
          /\ \/ m \in videos[home[m]].list
             \/ p.op = "moderate:manifests" /\ m \in p.todo
        BY <1>1, <2>1, CompleteFacts
    <2>. QED
        BY <1>1, <1>2, <1>3, <2>1, <2>2
<1>9. Removing(proc[a])'
    <2>1. \A m \in p.todo \ {d} : home'[m] = p.vid
        BY <1>0, <1>1 DEF Removing
    <2>2. p.op = "delete:manifests" => videos'[u].list \cap StoredManifests' \subseteq p.todo \ {d}
        BY <1>0, <1>3, <1>5 DEF Removing
    <2>. QED
        BY <1>1, <1>2, <1>5, <1>6, <2>1, <2>2 DEF Removing
<1>. QED
    BY <1>7, <1>8, <1>9, CompleteBy

LEMMA CompleteDeleteVideo ==
    ASSUME Serial, CompleteInv, SerialInv', NEW a \in Actors, DeleteVideo(a)
    PROVE  CompleteInv'
<1> DEFINE p == proc[a]
<1>0. SerialInv /\ TypeOK /\ Removing(p)
    BY CompleteFacts, SerialFacts
<1>1. /\ p.op = "delete:manifests" /\ p.todo = {}
      /\ videos' = [videos EXCEPT ![p.vid] = EmptyVideo]
      /\ Finish(a) /\ UNCHANGED <<manifests, home>>
    BY DEF DeleteVideo
<1>2. PICK u \in VideoIds : u = p.vid
    BY <1>0, <1>1, TypeFacts DEF Idle
<1>3. videos'[u].list = {} /\ \A w \in VideoIds \ {u} : videos'[w] = videos[w]
    BY <1>0, <1>1, <1>2 DEF TypeOK, EmptyVideo
<1>4. StoredManifests' = StoredManifests
    BY <1>1 DEF StoredManifests
<1>5. proc'[a] = IdleProc
    BY <1>0, <1>1 DEF Finish, Become, TypeOK
<1>6. Removing(proc[a])'
    BY <1>5 DEF Removing, IdleProc
<1>7. ASSUME NEW w \in VideoIds, ListedValid(w)' # {}
      PROVE  videos'[w].last # NoManifest
    <2>1. w # u
        BY <1>3, <1>7 DEF ListedValid
    <2>2. ListedValid(w)' = ListedValid(w) /\ videos'[w] = videos[w]
        BY <1>1, <1>3, <1>4, <2>1 DEF ListedValid
    <2>. QED
        BY <1>2, <1>7, <2>1, <2>2, CompleteFacts
<1>8. ASSUME NEW m \in StoredManifests'
      PROVE  home'[m] \in VideoIds /\ m \in videos'[home'[m]].list
    <2>1. home[m] \in VideoIds /\ m \in videos[home[m]].list
        BY <1>1, <1>4, <1>8, CompleteFacts
    <2>2. home[m] # u
        BY <1>0, <1>1, <1>2, <1>4, <1>8, <2>1 DEF Removing
    <2>. QED
        BY <1>1, <1>3, <2>1, <2>2
<1>. QED
    BY <1>6, <1>7, <1>8, CompleteBy

-----------------------------------------------------------------------------

LEMMA CompleteInit == Init => CompleteInv
<1> SUFFICES ASSUME Init PROVE CompleteInv
    OBVIOUS
<1>1. \A v \in VideoIds : ListedValid(v) = {}
    BY DEF Init, ListedValid, EmptyVideo
<1>2. StoredManifests = {}
    BY DEF Init, StoredManifests, UnbornManifest
<1>3. \A a \in Actors : Removing(proc[a])
    BY DEF Init, Removing, IdleProc
<1>. QED
    BY <1>1, <1>2, <1>3, SerialInit DEF CompleteInv

LEMMA CompleteStep ==
    ASSUME Serial, "request" \notin Faults, CompleteInv, [Next]_vars
    PROVE  CompleteInv'
<1>1. SerialInv /\ SerialInv'
    BY SerialStep DEF CompleteInv
<1>2. ASSUME NEW a \in Actors, Begin(a)
      PROVE  CompleteInv'
    <2>1. ASSUME NEW v \in VideoIds,
                 \/ \E r \in Refs : CreateVideo(a, v, r) \/ UpdateRead(a, v, r)
                 \/ DeleteRead(a, v) \/ ModerateRead(a, v) \/ VoteRead(a, v)
          PROVE  CompleteInv'
        BY <1>1, <2>1, CompleteBegin
    <2>2. ASSUME NEW j \in jobs, StartValidation(a, j)
          PROVE  CompleteInv'
        <3>1. j.vid \in VideoIds
            BY <1>1, SerialFacts DEF TypeOK, Job
        <3>. QED
            BY <1>1, <2>2, <3>1, CompleteBegin
    <2>3. ASSUME NEW j \in jobs, StartRefused(a, j)
          PROVE  CompleteInv'
        BY <1>1, <2>3, CompleteQueue DEF StartRefused, dbVars
    <2>. QED
        BY <1>2, <2>1, <2>2, <2>3 DEF Begin
<1>3. ASSUME NEW a \in Actors, Progress(a) \/ Crash(a)
      PROVE  CompleteInv'
    <2>1. CASE \/ CreateManifestRefused(a) \/ UpdateRefused(a) \/ UpdateManifestRefused(a)
               \/ Enqueue(a) \/ ModerateDone(a) \/ ValidateDone(a) \/ ValidateFault(a)
               \/ Crash(a)
        BY <1>1, <2>1, CompleteEnd
    <2>2. CASE UpdateAdd(a) \/ ValidateLoad(a)
        BY <1>1, <2>2, CompleteLoad
    <2>3. CASE CreateManifest(a) \/ UpdateManifest(a)
        BY <1>1, <2>3, CompleteNewManifest
    <2>4. CASE Link(a)
        BY <1>1, <2>4, CompleteLink
    <2>5. CASE \E d \in ManifestIds : DeleteManifest(a, d)
        BY <1>1, <2>5, CompleteDeleteManifest
    <2>6. CASE DeleteVideo(a)
        BY <1>1, <2>6, CompleteDeleteVideo
    <2>7. CASE ModerateSave(a)
        BY <1>1, <2>7, CompleteModerateSave
    <2>8. CASE VoteSave(a)
        <3>1. UNCHANGED <<videos, manifests, home>> /\ proc'[a] = IdleProc
            BY <1>1, <2>8, VoteAlone
        <3>2. Removing(proc'[a]) /\ proc[a].op = "vote:save"
            BY <2>8, <3>1 DEF Removing, IdleProc, VoteSave
        <3>. QED
            BY <1>1, <3>1, <3>2, CompleteLocal
    <2>9. CASE \E o \in {"valid", "invalid"} : ValidateSave(a, o)
        BY <1>1, <2>9, CompleteValidateSave
    <2>. QED
        BY <1>3, <2>1, <2>2, <2>3, <2>4, <2>5, <2>6, <2>7, <2>8, <2>9 DEF Progress
<1>4. CASE \/ \E v \in VideoIds : ForceVideo(v)
           \/ \E v \in VideoIds, m \in ManifestIds : ForceManifest(v, m)
           \/ UNCHANGED vars
    <2>1. UNCHANGED <<videos, manifests, home, proc>>
        BY <1>4 DEF ForceVideo, ForceManifest, vars, dbVars
    <2>. QED
        BY <1>1, <2>1, CompleteQueue
<1>. QED
    BY <1>2, <1>3, <1>4 DEF Next

LEMMA CompleteInvariant ==
    ASSUME Serial, "request" \notin Faults
    PROVE  Spec => []CompleteInv
<1>1. CompleteInv /\ [Next]_vars => CompleteInv'
    BY CompleteStep
<1>. QED
    BY <1>1, CompleteInit, PTL DEF Spec

\* While one operation runs at a time and no request is cut off, a video at rest shows the
\* newest of the valid manifests it lists, whatever jobs fail.
THEOREM SerialShowsNewestValid ==
    ASSUME Serial, "request" \notin Faults
    PROVE  Spec => []ShowsNewestValid
<1>1. CompleteInv => ShowsNewestValid
    <2> SUFFICES ASSUME CompleteInv, AtRest, NEW v \in VideoIds
                 PROVE  IF ListedValid(v) = {} THEN videos[v].last = NoManifest
                        ELSE IsNewestValid(v, videos[v].last)
        BY DEF ShowsNewestValid
    <2>1. ~Deleting(v)
        BY DEF AtRest, Idle, Deleting
    <2>2. videos[v].last # NoManifest => IsNewestValid(v, videos[v].last)
        BY DEF CompleteInv, SerialInv, NeverShowsOlder
    <2>. QED
        BY <2>1, <2>2 DEF CompleteInv, IsNewestValid
<1>. QED
    BY <1>1, CompleteInvariant, PTL

\* While one operation runs at a time and no request is cut off, every manifest document is
\* in the list of its video when nothing is in progress.
THEOREM SerialNoOrphanManifest ==
    ASSUME Serial, "request" \notin Faults
    PROVE  Spec => []NoOrphanManifest
<1>1. CompleteInv => NoOrphanManifest
    BY DEF CompleteInv, InHand, AtRest, Idle, NoOrphanManifest
<1>. QED
    BY <1>1, CompleteInvariant, PTL
=============================================================================
