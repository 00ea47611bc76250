-------------------------- MODULE SearchIndexProofs --------------------------
(***************************************************************************)
(* Theorems about SearchIndex: its type invariant, and that it implements  *)
(* SearchCatalog, for any number of actors and videos.                     *)
(*                                                                         *)
(* The invariant says of each actor what its operation needs: that it has  *)
(* a video, a manifest and, before a write, a document of that manifest.   *)
(* The refinement compares what actors hold before and after each step.    *)
(***************************************************************************)
EXTENDS SearchIndex, TLAPS

\* An actor has what its operation is going to use.
Ready(p) ==
    /\ p.op \in {"read", "remove", "delete:video"} => p.vid \in VideoIds /\ p.todo = {}
    /\ p.op \in {"load", "build", "write"} =>
          p.vid \in VideoIds /\ p.manifest \in ManifestIds
    /\ p.op = "write" => p.doc \in Document /\ p.doc.manifest = p.manifest
    /\ p.op \in ScanOps => \A v \in p.todo : p.read[v] \in ManifestIds

\* What the records of the actors are at any time.
Records == {p \in Proc : Ready(p)}

SearchInv ==
    /\ TypeOK
    /\ proc \in [Actors -> Records]
    /\ \A v \in VideoIds : state[v] # "stored" => valid[v] = {}

LEMMA ShownIsValid ==
    ASSUME TypeOK, NEW v \in VideoIds
    PROVE  /\ Shown(v) \in ManifestIds \cup {NoManifest}
           /\ Shown(v) # NoManifest => Shown(v) \in ManifestIds
           /\ valid[v] = {} => Shown(v) = NoManifest
<1>1. CASE \E m \in valid[v] : \A k \in valid[v] : k <= m
    <2>1. Shown(v) \in valid[v]
        BY <1>1 DEF Shown
    <2>. QED
        BY <2>1 DEF TypeOK
<1>2. CASE ~ \E m \in valid[v] : \A k \in valid[v] : k <= m
    BY <1>2 DEF Shown
<1>. QED
    BY <1>1, <1>2

-----------------------------------------------------------------------------
(* The records of actors.                                                  *)

LEMMA Numbers == 0 \in 0 .. MaxRuns /\ 0 \in 0 .. MaxComments /\ NoManifest \notin ManifestIds
<1>1. MaxRuns \in Nat /\ MaxComments \in Nat /\ MaxManifests \in Nat
    BY SearchAssumption
<1>. QED
    BY <1>1 DEF NoManifest, ManifestIds

LEMMA IdleRecord ==
    IdleProc \in Records /\ Held(IdleProc) = {} /\ IdleProc.todo = {}
<1>1. NothingRead \in [VideoIds -> ManifestIds \cup {NoManifest}]
    BY DEF NothingRead
<1>2. IdleProc \in Proc
    BY <1>1, Numbers DEF IdleProc, Proc, Ops, Kinds
<1>. QED
    BY <1>2 DEF Records, Ready, IdleProc, Held, ScanOps

\* An actor that begins to handle an event about a video holds nothing.
LEMMA HandlerRecord ==
    ASSUME NEW v \in VideoIds, NEW op \in {"read", "remove", "delete:video"}
    PROVE  LET p == [IdleProc EXCEPT !.op = op, !.vid = v]
           IN  p \in Records /\ Held(p) = {}
<1>1. [IdleProc EXCEPT !.op = op, !.vid = v] \in Proc
    BY IdleRecord DEF Records, Proc, Ops
<1>. QED
    BY <1>1 DEF Records, Ready, IdleProc, Held, ScanOps

LEMMA SkippingRecord ==
    ASSUME NEW p \in Records, p.op \in {"query", "prune"}, NEW S
    PROVE  LET q == [p EXCEPT !.todo = @ \ S]
           IN  q \in Records /\ Held(q) = Held(p)
<1>1. [p EXCEPT !.todo = @ \ S] \in Proc
    BY DEF Records, Proc
<1>. QED
    BY <1>1 DEF Records, Ready, Proc, Held, ScanOps

LEMMA ConflictingRecords ==
    ASSUME proc \in [Actors -> Records], NEW S
    PROVE  /\ Conflicting(S) \in [Actors -> Records]
           /\ \A b \in Actors : Held(Conflicting(S)[b]) = Held(proc[b])
           /\ \A b \in Actors : proc[b].op \notin {"query", "prune"} =>
                 Conflicting(S)[b] = proc[b]
<1>1. ASSUME NEW b \in Actors
      PROVE  Conflicting(S)[b] \in Records /\ Held(Conflicting(S)[b]) = Held(proc[b])
    BY SkippingRecord DEF Conflicting
<1>2. Conflicting(S) = [b \in Actors |-> Conflicting(S)[b]]
    BY DEF Conflicting
<1>. QED
    BY <1>1, <1>2 DEF Conflicting


-----------------------------------------------------------------------------
(* The steps of the catalog, in terms of the index.                        *)

USE DEF Catalog!catalogVars, Catalog!sourceVars

LEMMA DatabaseKept ==
    ASSUME UNCHANGED <<state, valid>>
    PROVE  /\ Withdrawn' = Withdrawn
           /\ [v \in VideoIds |-> Shown(v)]' = [v \in VideoIds |-> Shown(v)]
BY DEF Withdrawn, Shown

\* Actors hold no more than before.
LEMMA ForgetStep ==
    ASSUME UNCHANGED <<state, valid, docs>>,
           \A b \in Actors : Held(proc'[b]) \subseteq Held(proc[b])
    PROVE  Catalog!CatalogNext
<1>1. Reads' \subseteq Reads
    BY DEF Reads
<1>2. Catalog!Forget
    BY <1>1, DatabaseKept DEF Catalog!Forget
<1>. QED
    BY <1>2 DEF Catalog!CatalogNext

\* An actor that held nothing reads what videos show.
LEMMA ReadStep ==
    ASSUME NEW a \in Actors, NEW q,
           proc \in [Actors -> Records], proc' = [proc EXCEPT ![a] = q],
           UNCHANGED <<state, valid, docs>>,
           Held(proc[a]) = {},
           \A x \in Held(q) :
              \E v \in VideoIds : Shown(v) # NoManifest /\ x = <<v, Shown(v)>>
    PROVE  Catalog!CatalogNext
<1>1. \A b \in Actors : Held(proc[b]) \subseteq Held(proc'[b])
    OBVIOUS
<1>2. Reads \subseteq Reads'
    BY <1>1 DEF Reads
<1>3. ASSUME NEW x \in Reads', x \notin Reads
      PROVE  \E v \in VideoIds : Shown(v) # NoManifest /\ x = <<v, Shown(v)>>
    <2>1. PICK b \in Actors : x \in Held(proc'[b])
        BY DEF Reads
    <2>2. b = a
        BY <1>3, <2>1 DEF Reads
    <2>3. x \in Held(q)
        BY <2>1, <2>2
    <2>. QED
        BY <2>3
<1> DEFINE shown == [v \in VideoIds |-> Shown(v)]
<1>4. Reads' \subseteq Reads \cup {<<v, shown[v]>> : v \in {w \in VideoIds : shown[w] # NoManifest}}
    BY <1>3
<1>5. Catalog!Read
    BY <1>2, <1>4, DatabaseKept DEF Catalog!Read
<1>. QED
    BY <1>5 DEF Catalog!CatalogNext

\* Documents are removed.
LEMMA RemoveStep ==
    ASSUME NEW S, docs' = [v \in VideoIds |-> IF v \in S THEN NoDoc ELSE docs[v]],
           UNCHANGED <<state, valid>>,
           \A b \in Actors : Held(proc'[b]) = Held(proc[b])
    PROVE  Catalog!CatalogNext
<1>1. Reads' = Reads
    BY DEF Reads
<1> DEFINE catalog == [v \in VideoIds |-> docs[v].manifest]
<1>2. ASSUME NEW v \in VideoIds
      PROVE  catalog'[v] = IF catalog'[v] = NoManifest THEN NoManifest ELSE catalog[v]
    BY DEF NoDoc
<1>3. catalog' = [v \in VideoIds |-> IF catalog'[v] = NoManifest THEN NoManifest
                                     ELSE catalog[v]]
    BY <1>2
<1>4. Catalog!Remove
    BY <1>1, <1>3, DatabaseKept DEF Catalog!Remove
<1>. QED
    BY <1>4 DEF Catalog!CatalogNext

\* The database changes, in what it shows of one video.
LEMMA ChangeStep ==
    ASSUME TypeOK', NEW v \in VideoIds,
           \A w \in VideoIds \ {v} : valid'[w] = valid[w],
           \/ state[v] = "stored" /\ state' = state
           \/ /\ \E s \in {"moderated", "deleted"} : state' = [state EXCEPT ![v] = s]
              /\ valid'[v] = {}
           \/ state' = state /\ valid' = valid,
           state \in [VideoIds -> {"stored", "moderated", "deleted"}],
           docs' = docs,
           \A b \in Actors : Held(proc'[b]) = Held(proc[b])
    PROVE  [Catalog!CatalogNext]_Catalog!catalogVars
<1>1. Reads' = Reads
    BY DEF Reads
<1> DEFINE shown == [w \in VideoIds |-> Shown(w)]
<1>2. shown' = [shown EXCEPT ![v] = Shown(v)']
    BY DEF Shown
<1>3. CASE state[v] = "stored" /\ state' = state
    <2>1. Shown(v)' \in ManifestIds \cup {NoManifest}
        <3>1. CASE \E m \in valid'[v] : \A k \in valid'[v] : k <= m
            <4>1. Shown(v)' \in valid'[v]
                BY <3>1 DEF Shown
            <4>. QED
                BY <4>1 DEF TypeOK
        <3>2. CASE ~ \E m \in valid'[v] : \A k \in valid'[v] : k <= m
            BY <3>2 DEF Shown
        <3>. QED
            BY <3>1, <3>2
    <2>2. Catalog!Show(v, Shown(v)')
        BY <1>2, <1>3 DEF Catalog!Show, Withdrawn
    <2>. QED
        BY <1>1, <2>1, <2>2 DEF Catalog!CatalogNext, Catalog!Change, Catalog!SourceNext
<1>4. CASE /\ \E s \in {"moderated", "deleted"} : state' = [state EXCEPT ![v] = s]
           /\ valid'[v] = {}
    <2>1. Shown(v)' = NoManifest
        BY <1>4 DEF Shown
    <2>2. Withdrawn' = Withdrawn \cup {v}
        BY <1>4 DEF Withdrawn
    <2>3. Catalog!Withdraw(v)
        BY <1>2, <2>1, <2>2 DEF Catalog!Withdraw
    <2>. QED
        BY <1>1, <2>3 DEF Catalog!CatalogNext, Catalog!Change, Catalog!SourceNext
<1>5. CASE state' = state /\ valid' = valid
    BY <1>1, <1>5, DatabaseKept
<1>. QED
    BY <1>3, <1>4, <1>5

\* A video is indexed as it was read.
LEMMA IndexStep ==
    ASSUME NEW a \in Actors, NEW v \in VideoIds, NEW d \in Document,
           <<v, d.manifest>> \in Held(proc[a]),
           docs \in [VideoIds -> Document \cup {NoDoc}],
           docs' = [docs EXCEPT ![v] = d],
           UNCHANGED <<state, valid>>,
           \A b \in Actors : Held(proc'[b]) \subseteq Held(proc[b])
    PROVE  Catalog!CatalogNext
<1>1. Reads' \subseteq Reads /\ <<v, d.manifest>> \in Reads
    BY DEF Reads
<1>2. d.manifest \in ManifestIds
    BY DEF Document
<1> DEFINE catalog == [w \in VideoIds |-> docs[w].manifest]
<1>3. catalog' = [catalog EXCEPT ![v] = d.manifest]
    OBVIOUS
<1>4. Catalog!Index(v, d.manifest)
    BY <1>1, <1>3, DatabaseKept DEF Catalog!Index
<1>. QED
    BY <1>2, <1>4 DEF Catalog!CatalogNext

-----------------------------------------------------------------------------
(* Every step keeps the invariant and is a step of the catalog.            *)

Kept == SearchInv' /\ [Catalog!CatalogNext]_Catalog!catalogVars

\* A step of an actor that changes nothing but what the actor does.
LEMMA OnlyRecords ==
    ASSUME SearchInv, UNCHANGED <<dbVars, esVars, clock, touched, unannounced>>,
           proc' \in [Actors -> Records]
    PROVE  SearchInv'
BY DEF SearchInv, TypeOK, Records, dbVars, esVars

\* Such a step after which the actor holds no more than before.
LEMMA ActorGoesOn ==
    ASSUME SearchInv, NEW a \in Actors, NEW q \in Records, Become(a, q),
           UNCHANGED <<dbVars, esVars, clock, touched, unannounced>>,
           Held(q) \subseteq Held(proc[a])
    PROVE  Kept
<1>1. proc' \in [Actors -> Records]
    BY DEF Become, SearchInv
<1>2. \A b \in Actors : Held(proc'[b]) \subseteq Held(proc[b])
    BY DEF Become, SearchInv
<1>. QED
    BY <1>1, <1>2, OnlyRecords, ForgetStep DEF Kept, dbVars, esVars

LEMMA FinishStep ==
    ASSUME SearchInv, NEW a \in Actors, Finish(a),
           UNCHANGED <<dbVars, esVars, clock, touched, unannounced>>
    PROVE  Kept
BY IdleRecord, ActorGoesOn DEF Finish

\* What the steps that change the database have in common: the actor held nothing and
\* goes on with a handler.
LEMMA ChangeRecords ==
    ASSUME SearchInv, NEW a \in Actors, NEW v \in VideoIds,
           NEW op \in {"read", "remove", "delete:video"}, Handle(a, v, op),
           Held(proc[a]) = {}
    PROVE  /\ proc' \in [Actors -> Records]
           /\ \A b \in Actors : Held(proc'[b]) = Held(proc[b])
BY HandlerRecord DEF Handle, Become, SearchInv

LEMMA IdleHoldsNothing ==
    ASSUME SearchInv, NEW a \in Actors, Idle(a) PROVE Held(proc[a]) = {}
BY DEF Idle, Held, ScanOps

LEMMA TouchTyped ==
    ASSUME TypeOK, NEW v \in VideoIds, Touch(v) PROVE touched' \in [Actors -> SUBSET VideoIds]
BY DEF TypeOK, Touch

LEMMA ValidatedStep ==
    ASSUME SearchInv, NEW a \in Actors, NEW v \in VideoIds, NEW m \in ManifestIds,
           Validated(a, v, m)
    PROVE  Kept
<1>. USE DEF Validated
<1>1. /\ proc' \in [Actors -> Records]
      /\ \A b \in Actors : Held(proc'[b]) = Held(proc[b])
    BY ChangeRecords, IdleHoldsNothing
<1>2. touched' \in [Actors -> SUBSET VideoIds]
    BY TouchTyped DEF SearchInv
<1>3. SearchInv'
    BY <1>1, <1>2 DEF SearchInv, TypeOK, Records, esVars
<1>. QED
    BY <1>1, <1>3, ChangeStep DEF Kept, SearchInv, TypeOK, esVars

LEMMA RejectedStep ==
    ASSUME SearchInv, NEW a \in Actors, NEW v \in VideoIds, NEW m \in ManifestIds,
           Rejected(a, v, m)
    PROVE  Kept
<1>. USE DEF Rejected
<1>1. touched' \in [Actors -> SUBSET VideoIds]
    BY TouchTyped DEF SearchInv
<1>2. SearchInv'
    BY <1>1 DEF SearchInv, TypeOK, Records, esVars
<1>. QED
    BY <1>2, ChangeStep DEF Kept, SearchInv, TypeOK, esVars

LEMMA CommentedStep ==
    ASSUME SearchInv, NEW a \in Actors, NEW v \in VideoIds, Commented(a, v)
    PROVE  Kept
<1>. USE DEF Commented
<1>1. /\ proc' \in [Actors -> Records]
      /\ \A b \in Actors : Held(proc'[b]) = Held(proc[b])
    BY ChangeRecords, IdleHoldsNothing
<1>2. touched' \in [Actors -> SUBSET VideoIds]
    BY TouchTyped DEF SearchInv
<1>3. comments' \in [VideoIds -> 0 .. MaxComments]
    <2>1. MaxComments \in Nat
        BY SearchAssumption
    <2>2. comments[v] \in 0 .. MaxComments /\ comments[v] < MaxComments
        BY DEF SearchInv, TypeOK
    <2>3. comments[v] + 1 \in 0 .. MaxComments
        BY <2>1, <2>2
    <2>. QED
        BY <2>3 DEF SearchInv, TypeOK
<1>4. SearchInv'
    BY <1>1, <1>2, <1>3 DEF SearchInv, TypeOK, Records, esVars
<1>. QED
    BY <1>1, <1>4, ForgetStep DEF Kept, esVars

LEMMA ModeratedStep ==
    ASSUME SearchInv, NEW a \in Actors, NEW v \in VideoIds, Moderated(a, v)
    PROVE  Kept
<1>. USE DEF Moderated
<1>1. /\ proc' \in [Actors -> Records]
      /\ \A b \in Actors : Held(proc'[b]) = Held(proc[b])
    BY ChangeRecords, IdleHoldsNothing
<1>2. touched' \in [Actors -> SUBSET VideoIds]
    BY TouchTyped DEF SearchInv
<1>3. SearchInv'
    BY <1>1, <1>2 DEF SearchInv, TypeOK, Records, esVars
<1>4. valid'[v] = {}
    BY DEF SearchInv, TypeOK
<1>. QED
    BY <1>1, <1>3, <1>4, ChangeStep DEF Kept, SearchInv, TypeOK, esVars

LEMMA DeleteManifestsStep ==
    ASSUME SearchInv, NEW a \in Actors, NEW v \in VideoIds, DeleteManifests(a, v)
    PROVE  Kept
<1>. USE DEF DeleteManifests
<1>1. /\ proc' \in [Actors -> Records]
      /\ \A b \in Actors : Held(proc'[b]) = Held(proc[b])
    BY ChangeRecords, IdleHoldsNothing
<1>2. touched' \in [Actors -> SUBSET VideoIds]
    BY TouchTyped DEF SearchInv
<1>3. SearchInv'
    BY <1>1, <1>2 DEF SearchInv, TypeOK, Records, esVars
<1>4. state[v] # "stored" => valid' = valid
    BY DEF SearchInv, TypeOK
<1>. QED
    BY <1>1, <1>3, <1>4, ChangeStep DEF Kept, SearchInv, TypeOK, esVars

LEMMA DeleteVideoStep ==
    ASSUME SearchInv, NEW a \in Actors, DeleteVideo(a)
    PROVE  Kept
<1> DEFINE v == proc[a].vid
<1>. USE DEF DeleteVideo
<1>0. v \in VideoIds /\ Held(proc[a]) = {}
    BY DEF SearchInv, Records, Ready, Held, ScanOps
<1>1. /\ proc' \in [Actors -> Records]
      /\ \A b \in Actors : Held(proc'[b]) = Held(proc[b])
    BY <1>0, ChangeRecords
<1>2. touched' \in [Actors -> SUBSET VideoIds]
    BY <1>0, TouchTyped DEF SearchInv
<1>3. SearchInv'
    BY <1>0, <1>1, <1>2 DEF SearchInv, TypeOK, Records, esVars
<1>4. valid'[v] = {}
    BY <1>0 DEF SearchInv, TypeOK
<1>. QED
    BY <1>0, <1>1, <1>3, <1>4, ChangeStep DEF Kept, SearchInv, TypeOK, esVars

LEMMA ReadVideoStep ==
    ASSUME SearchInv, NEW a \in Actors, ReadVideo(a)
    PROVE  Kept
<1> DEFINE p == proc[a]
           v == proc[a].vid
           q == [p EXCEPT !.op = "load", !.manifest = Shown(p.vid)]
<1>. USE DEF ReadVideo
<1>1. p \in Records /\ v \in VideoIds /\ Held(p) = {}
    BY DEF SearchInv, Records, Ready, Held, ScanOps
<1>2. CASE Finish(a)
    BY <1>2, FinishStep
<1>3. CASE Shown(v) # NoManifest /\ Become(a, q)
    <2>1. Shown(v) \in ManifestIds
        BY <1>1, <1>3, ShownIsValid DEF SearchInv
    <2>2. q \in Proc
        BY <1>1, <2>1 DEF Records, Proc, Ops
    <2>. HIDE DEF q
    <2>3. q.op = "load" /\ q.vid = v /\ q.manifest = Shown(v) /\ q.todo = {}
        BY <1>1 DEF q, Records, Ready, Proc
    <2>4. q \in Records
        BY <1>1, <2>1, <2>2, <2>3 DEF Records, Ready
    <2>5. \A x \in Held(q) : Shown(v) # NoManifest /\ x = <<v, Shown(v)>>
        BY <1>3, <2>3 DEF Held
    <2>6. proc' \in [Actors -> Records] /\ proc' = [proc EXCEPT ![a] = q]
        BY <1>3, <2>4 DEF Become, SearchInv
    <2>7. Catalog!CatalogNext
        BY <1>1, <2>5, <2>6, ReadStep DEF SearchInv, dbVars, esVars
    <2>. QED
        BY <2>6, <2>7, OnlyRecords DEF Kept
<1>. QED
    BY <1>2, <1>3

LEMMA LoadMetadataStep ==
    ASSUME SearchInv, NEW a \in Actors, LoadMetadata(a)
    PROVE  Kept
<1> DEFINE p == proc[a]
           q == [p EXCEPT !.op = "build"]
<1>. USE DEF LoadMetadata
<1>1. p \in Records
    BY DEF SearchInv
<1>2. q \in Records /\ Held(q) = Held(p)
    BY <1>1 DEF Records, Proc, Ops, Ready, Held, ScanOps
<1>. QED
    BY <1>2, ActorGoesOn

LEMMA LoadFailsStep ==
    ASSUME SearchInv, NEW a \in Actors, LoadFails(a)
    PROVE  Kept
BY FinishStep DEF LoadFails

LEMMA BuildDocumentStep ==
    ASSUME SearchInv, NEW a \in Actors, BuildDocument(a)
    PROVE  Kept
<1> DEFINE p == proc[a]
           d == [manifest |-> p.manifest, comments |-> comments[p.vid], stamp |-> clock]
           q == [p EXCEPT !.op = "write", !.doc = d]
<1>1. p \in Records /\ p.op = "build"
    BY DEF SearchInv, BuildDocument
<1>2. p.vid \in VideoIds /\ p.manifest \in ManifestIds
    BY <1>1 DEF Records, Ready
<1>3. d \in Document
    BY <1>2 DEF SearchInv, TypeOK, Document
<1>4. q \in Proc
    BY <1>1, <1>3 DEF Records, Proc, Ops
<1>5. /\ q.op = "write" /\ q.doc = d /\ q.vid = p.vid /\ q.manifest = p.manifest
      /\ q.todo = p.todo /\ q.read = p.read
    BY <1>1 DEF Records, Proc
<1>. HIDE DEF q
<1>6. q \in Records
    BY <1>1, <1>2, <1>3, <1>4, <1>5 DEF Records, Ready, ScanOps
<1>7. Held(q) = Held(p)
    BY <1>1, <1>5 DEF Held, ScanOps
<1>. QED
    BY <1>6, <1>7, ActorGoesOn DEF BuildDocument, q

\* The record with which a task takes the next video of its batch.
LEMMA ResumedRecord ==
    ASSUME NEW p \in Records, p.op = "write"
    PROVE  LET q == [p EXCEPT !.op = "scan", !.vid = NoVideo,
                              !.manifest = NoManifest, !.doc = NoDoc]
           IN  q \in Records /\ Held(q) \subseteq Held(p)
<1> DEFINE q == [p EXCEPT !.op = "scan", !.vid = NoVideo,
                          !.manifest = NoManifest, !.doc = NoDoc]
<1>1. q \in Proc
    BY DEF Records, Proc, Ops
<1>2. q \in Records
    BY <1>1 DEF Records, Proc, Ready, ScanOps
<1>3. Held(q) \subseteq Held(p)
    BY DEF Records, Proc, Held, ScanOps
<1>. QED
    BY <1>2, <1>3

LEMMA WriteDocumentStep ==
    ASSUME SearchInv, NEW a \in Actors, WriteDocument(a)
    PROVE  Kept
<1> DEFINE p == proc[a]
<1>1. p \in Records /\ p.op = "write"
    BY DEF SearchInv, WriteDocument
<1>2. p.vid \in VideoIds /\ p.doc \in Document /\ <<p.vid, p.doc.manifest>> \in Held(p)
    BY <1>1 DEF Records, Ready, Held
<1>3. /\ proc' \in [Actors -> Records]
      /\ \A b \in Actors : Held(proc'[b]) \subseteq Held(proc[b])
    <2> DEFINE c == Conflicting({p.vid})
    <2>1. c \in [Actors -> Records] /\ c[a] = p /\ \A b \in Actors : Held(c[b]) = Held(proc[b])
        BY <1>1, ConflictingRecords DEF SearchInv
    <2>2. PICK q \in Records : proc' = [c EXCEPT ![a] = q] /\ Held(q) \subseteq Held(p)
        BY <1>1, <2>1, ResumedRecord, IdleRecord DEF WriteDocument, Resume
    <2>. QED
        BY <2>1, <2>2
<1>4. docs' \in [VideoIds -> Document \cup {NoDoc}]
    BY <1>2 DEF SearchInv, TypeOK, WriteDocument
<1>5. SearchInv'
    BY <1>3, <1>4 DEF SearchInv, TypeOK, Records, WriteDocument, dbVars
<1>6. Catalog!CatalogNext
    BY <1>2, <1>3, IndexStep DEF SearchInv, TypeOK, WriteDocument, dbVars
<1>. QED
    BY <1>5, <1>6 DEF Kept

\* One document is removed, and a prune in progress passes over it.
LEMMA OneRemoved ==
    ASSUME SearchInv, NEW v \in VideoIds, docs' = [docs EXCEPT ![v] = NoDoc],
           proc' \in [Actors -> Records],
           \A b \in Actors : Held(proc'[b]) = Held(proc[b]),
           UNCHANGED <<dbVars, index, clock, touched, unannounced>>
    PROVE  Kept
<1>1. docs' = [w \in VideoIds |-> IF w \in {v} THEN NoDoc ELSE docs[w]]
    BY DEF SearchInv, TypeOK
<1>2. docs' \in [VideoIds -> Document \cup {NoDoc}]
    BY DEF SearchInv, TypeOK
<1>3. SearchInv'
    BY <1>2 DEF SearchInv, TypeOK, Records, dbVars
<1>4. Catalog!CatalogNext
    BY <1>1, RemoveStep DEF dbVars
<1>. QED
    BY <1>3, <1>4 DEF Kept

LEMMA RemoveDocumentStep ==
    ASSUME SearchInv, NEW a \in Actors, RemoveDocument(a)
    PROVE  Kept
<1> DEFINE p == proc[a]
           c == Conflicting({p.vid})
<1>1. p \in Records /\ p.op = "remove"
    BY DEF SearchInv, RemoveDocument
<1>2. p.vid \in VideoIds /\ Held(p) = {}
    BY <1>1 DEF Records, Ready, Held, ScanOps
<1>3. c \in [Actors -> Records] /\ \A b \in Actors : Held(c[b]) = Held(proc[b])
    BY ConflictingRecords DEF SearchInv
<1>4. /\ proc' \in [Actors -> Records]
      /\ \A b \in Actors : Held(proc'[b]) = Held(proc[b])
    BY <1>2, <1>3, IdleRecord DEF RemoveDocument
<1>. QED
    BY <1>2, <1>4, OneRemoved DEF RemoveDocument

LEMMA PruneDocumentStep ==
    ASSUME SearchInv, NEW a \in Actors, NEW v \in VideoIds, PruneDocument(a, v)
    PROVE  Kept
<1> DEFINE c == Conflicting({v})
           q == [c[a] EXCEPT !.todo = @ \ {v}]
<1>1. c \in [Actors -> Records] /\ \A b \in Actors : Held(c[b]) = Held(proc[b])
    BY ConflictingRecords DEF SearchInv
<1>2. c[a].op = "prune"
    BY DEF PruneDocument, Conflicting, SearchInv, Records, Proc
<1>3. q \in Records /\ Held(q) = Held(c[a])
    BY <1>1, <1>2, SkippingRecord
<1>4. /\ proc' \in [Actors -> Records]
      /\ \A b \in Actors : Held(proc'[b]) = Held(proc[b])
    BY <1>1, <1>3 DEF PruneDocument
<1>. QED
    BY <1>4, OneRemoved DEF PruneDocument

LEMMA TouchedAtStartTyped ==
    ASSUME TypeOK, NEW a \in Actors, TouchedAtStart(a)
    PROVE  touched' \in [Actors -> SUBSET VideoIds]
<1>1. ASSUME NEW b \in Actors PROVE touched'[b] \in SUBSET VideoIds
    BY DEF TypeOK, TouchedAtStart
<1>2. touched' = [b \in Actors |-> touched'[b]]
    BY DEF TouchedAtStart
<1>. QED
    BY <1>1, <1>2

\* A task that begins holds nothing.
LEMMA TaskRecord ==
    ASSUME NEW op \in {"cursor", "create:index"}, NEW kind \in Kinds,
           NEW since \in 0 .. MaxRuns
    PROVE  LET q == [IdleProc EXCEPT !.op = op, !.kind = kind, !.since = since]
           IN  q \in Records /\ Held(q) = {}
<1>1. [IdleProc EXCEPT !.op = op, !.kind = kind, !.since = since] \in Proc
    BY IdleRecord DEF Records, Proc, Ops
<1>. QED
    BY <1>1 DEF Records, Ready, IdleProc, Held, ScanOps

LEMMA BeginReindexStep ==
    ASSUME SearchInv, NEW a \in Actors, BeginReindex(a)
    PROVE  Kept
<1> DEFINE q == [IdleProc EXCEPT !.op = "cursor", !.kind = "reindex", !.since = clock + 1]
<1>1. clock + 1 \in 0 .. MaxRuns
    <2>1. MaxRuns \in Nat
        BY SearchAssumption
    <2>2. clock \in 0 .. MaxRuns /\ clock < MaxRuns
        BY DEF SearchInv, TypeOK, BeginReindex
    <2>. QED
        BY <2>1, <2>2
<1>2. q \in Records /\ Held(q) = {}
    BY <1>1, TaskRecord DEF Kinds
<1>3. /\ proc' \in [Actors -> Records]
      /\ \A b \in Actors : Held(proc'[b]) \subseteq Held(proc[b])
    BY <1>2 DEF BeginReindex, Become, SearchInv
<1>4. touched' \in [Actors -> SUBSET VideoIds]
    BY TouchedAtStartTyped DEF SearchInv, BeginReindex
<1>5. SearchInv'
    BY <1>1, <1>3, <1>4 DEF SearchInv, TypeOK, Records, BeginReindex, dbVars
<1>6. Catalog!CatalogNext
    BY <1>3, ForgetStep DEF BeginReindex, dbVars
<1>. QED
    BY <1>5, <1>6 DEF Kept

LEMMA BeginRebuildStep ==
    ASSUME SearchInv, NEW a \in Actors, BeginRebuild(a)
    PROVE  Kept
<1> DEFINE c == Conflicting(VideoIds)
           q == [IdleProc EXCEPT !.op = "create:index", !.kind = "rebuild"]
<1>1. q \in Records /\ Held(q) = {}
    <2>1. q \in Proc
        BY IdleRecord DEF Records, Proc, Ops, Kinds
    <2>. QED
        BY <2>1 DEF Records, Ready, IdleProc, Held, ScanOps
<1>2. c \in [Actors -> Records] /\ \A b \in Actors : Held(c[b]) = Held(proc[b])
    BY ConflictingRecords DEF SearchInv
<1>3. /\ proc' \in [Actors -> Records]
      /\ \A b \in Actors : Held(proc'[b]) = Held(proc[b])
    BY <1>1, <1>2, IdleHoldsNothing DEF BeginRebuild
<1>4. touched' \in [Actors -> SUBSET VideoIds]
    BY TouchedAtStartTyped DEF SearchInv, BeginRebuild
<1>5. docs' = [v \in VideoIds |-> IF v \in VideoIds THEN NoDoc ELSE docs[v]]
    BY DEF BeginRebuild
<1>6. SearchInv'
    BY <1>3, <1>4 DEF SearchInv, TypeOK, Records, BeginRebuild, dbVars
<1>7. Catalog!CatalogNext
    BY <1>3, <1>5, RemoveStep DEF BeginRebuild, dbVars
<1>. QED
    BY <1>6, <1>7 DEF Kept

LEMMA CreateIndexStep ==
    ASSUME SearchInv, NEW a \in Actors, CreateIndex(a)
    PROVE  Kept
<1> DEFINE p == proc[a]
           q == [p EXCEPT !.op = "cursor"]
<1>1. p \in Records /\ p.op = "create:index"
    BY DEF SearchInv, CreateIndex
<1>2. q \in Records /\ Held(q) = {}
    BY <1>1 DEF Records, Proc, Ops, Ready, Held, ScanOps
<1>3. /\ proc' \in [Actors -> Records]
      /\ \A b \in Actors : Held(proc'[b]) \subseteq Held(proc[b])
    BY <1>2 DEF CreateIndex, Become, SearchInv
<1>4. SearchInv'
    BY <1>3 DEF SearchInv, TypeOK, Records, CreateIndex, dbVars
<1>5. Catalog!CatalogNext
    BY <1>3, ForgetStep DEF CreateIndex, dbVars
<1>. QED
    BY <1>4, <1>5 DEF Kept

LEMMA ReadBatchStep ==
    ASSUME SearchInv, NEW a \in Actors, ReadBatch(a)
    PROVE  Kept
<1> DEFINE p == proc[a]
           read == [v \in VideoIds |-> Shown(v)]
           todo == {v \in VideoIds : state[v] # "deleted" /\ Shown(v) # NoManifest}
           q == [p EXCEPT !.op = "scan", !.read = read, !.todo = todo]
<1>1. p \in Records /\ p.op = "cursor" /\ Held(p) = {}
    BY DEF SearchInv, ReadBatch, Held, ScanOps
<1>2. read \in [VideoIds -> ManifestIds \cup {NoManifest}]
    BY ShownIsValid DEF SearchInv
<1>3. q \in Proc
    <2>1. todo \in SUBSET VideoIds /\ p \in Proc
        BY <1>1 DEF Records
    <2>. HIDE DEF todo, read
    <2>. QED
        BY <1>2, <2>1 DEF Proc, Ops
<1>4. q.op = "scan" /\ q.todo = todo /\ q.read = read
    BY <1>1 DEF Records, Proc
<1>. HIDE DEF q
<1>5. \A v \in todo : read[v] \in ManifestIds
    BY ShownIsValid DEF SearchInv
<1>6. q \in Records
    BY <1>3, <1>4, <1>5 DEF Records, Ready
<1>7. \A x \in Held(q) : \E v \in VideoIds : Shown(v) # NoManifest /\ x = <<v, Shown(v)>>
    BY <1>4 DEF Held, ScanOps
<1>8. proc' \in [Actors -> Records] /\ proc' = [proc EXCEPT ![a] = q]
    BY <1>6 DEF ReadBatch, Become, SearchInv, q
<1>9. Catalog!CatalogNext
    BY <1>1, <1>7, <1>8, ReadStep DEF SearchInv, ReadBatch, dbVars, esVars
<1>. QED
    BY <1>8, <1>9, OnlyRecords DEF Kept, ReadBatch

LEMMA ScanStep ==
    ASSUME SearchInv, NEW a \in Actors, NEW v \in VideoIds, Scan(a, v)
    PROVE  Kept
<1> DEFINE p == proc[a]
           q == [p EXCEPT !.op = "load", !.vid = v, !.manifest = p.read[v], !.todo = @ \ {v}]
<1>1. p \in Records /\ p.op = "scan" /\ v \in p.todo
    BY DEF SearchInv, Scan
<1>2. p.read[v] \in ManifestIds /\ \A w \in p.todo : p.read[w] \in ManifestIds
    BY <1>1 DEF Records, Ready, ScanOps
<1>3. q \in Proc
    BY <1>1, <1>2 DEF Records, Proc, Ops
<1>4. /\ q.op = "load" /\ q.vid = v /\ q.manifest = p.read[v]
      /\ q.todo = p.todo \ {v} /\ q.read = p.read
    BY <1>1 DEF Records, Proc
<1>. HIDE DEF q
<1>5. q \in Records
    BY <1>2, <1>3, <1>4 DEF Records, Ready
<1>6. Held(q) \subseteq Held(p)
    BY <1>1, <1>4 DEF Held, ScanOps
<1>. QED
    BY <1>5, <1>6, ActorGoesOn DEF Scan, q

\* A task whose scan is over holds nothing any more.
LEMMA ScannedRecord ==
    ASSUME NEW p \in Records, NEW todo \in SUBSET VideoIds, NEW op \in {"query", "prune"}
    PROVE  LET q == [p EXCEPT !.op = op, !.todo = todo]
           IN  q \in Records /\ Held(q) = {}
<1> DEFINE q == [p EXCEPT !.op = op, !.todo = todo]
<1>1. q \in Proc /\ q.op = op
    BY DEF Records, Proc, Ops
<1>. HIDE DEF q
<1>2. q \in Records /\ Held(q) = {}
    BY <1>1 DEF Records, Ready, Held, ScanOps
<1>. QED
    BY <1>2 DEF q

LEMMA PruneRefreshStep ==
    ASSUME SearchInv, NEW a \in Actors, PruneRefresh(a)
    PROVE  Kept
<1>1. proc[a] \in Records
    BY DEF SearchInv
<1> DEFINE todo == {v \in VideoIds : docs[v] # NoDoc}
           q == [proc[a] EXCEPT !.op = "query", !.todo = todo]
<1>2. q \in Records /\ Held(q) = {}
    BY <1>1, ScannedRecord
<1>. QED
    BY <1>2, ActorGoesOn DEF PruneRefresh

LEMMA PruneQueryStep ==
    ASSUME SearchInv, NEW a \in Actors, PruneQuery(a)
    PROVE  Kept
<1> DEFINE p == proc[a]
<1>1. p \in Records /\ p.todo \in SUBSET VideoIds
    BY DEF SearchInv, Records, Proc
<1>2. PICK S \in SUBSET (VideoIds \ p.todo) :
          Become(a, [p EXCEPT !.op = "prune",
                              !.todo = {v \in p.todo \cup S : Pruned(v, p.since)}])
    BY DEF PruneQuery
<1> DEFINE todo == {v \in p.todo \cup S : Pruned(v, p.since)}
           q == [p EXCEPT !.op = "prune", !.todo = todo]
<1>3. todo \in SUBSET VideoIds
    BY <1>1
<1>4. q \in Records /\ Held(q) = {}
    BY <1>1, <1>3, ScannedRecord
<1>. QED
    BY <1>2, <1>4, ActorGoesOn DEF PruneQuery

LEMMA ProgressStep ==
    ASSUME SearchInv, NEW a \in Actors, Progress(a)
    PROVE  Kept
<1>1. CASE PruneDone(a) \/ PruneFails(a) \/ RebuildDone(a)
    BY <1>1, FinishStep DEF PruneDone, PruneFails, RebuildDone
<1>. QED
    BY <1>1, DeleteVideoStep, ReadVideoStep, LoadMetadataStep, LoadFailsStep,
       BuildDocumentStep, WriteDocumentStep, RemoveDocumentStep, CreateIndexStep,
       ReadBatchStep, ScanStep, PruneRefreshStep, PruneQueryStep, PruneDocumentStep
       DEF Progress

LEMMA ChangesStep ==
    ASSUME SearchInv, NEW a \in Actors, Change(a)
    PROVE  Kept
BY ValidatedStep, RejectedStep, CommentedStep, ModeratedStep, DeleteManifestsStep DEF Change

LEMMA SearchStep ==
    ASSUME SearchInv, [Next]_vars
    PROVE  Kept
<1>1. CASE UNCHANGED vars
    <2>1. SearchInv'
        BY <1>1 DEF vars, dbVars, esVars, SearchInv, TypeOK, Records
    <2>2. UNCHANGED Catalog!catalogVars
        BY <1>1, DatabaseKept DEF vars, dbVars, esVars, Reads
    <2>. QED
        BY <2>1, <2>2 DEF Kept
<1>2. ASSUME NEW a \in Actors, Lost(a) \/ Crash(a) PROVE Kept
    BY <1>2, FinishStep DEF Lost, Crash
<1>. QED
    BY <1>1, <1>2, ChangesStep, BeginReindexStep, BeginRebuildStep, ProgressStep DEF Next

LEMMA SearchInitial == Init => SearchInv /\ Catalog!CatalogInit
<1>. SUFFICES ASSUME Init PROVE SearchInv /\ Catalog!CatalogInit
    OBVIOUS
<1>. USE DEF Init
<1>1. proc \in [Actors -> Records]
    BY IdleRecord
<1>2. TypeOK
    BY <1>1, Numbers DEF TypeOK, Records
<1>3. SearchInv
    BY <1>1, <1>2 DEF SearchInv
<1>4. \A v \in VideoIds : Shown(v) = NoManifest
    BY <1>2, ShownIsValid
<1>5. Reads = {}
    BY IdleRecord DEF Reads
<1>6. Withdrawn = {}
    BY DEF Withdrawn
<1>7. Catalog!CatalogInit
    BY <1>4, <1>5, <1>6 DEF Catalog!CatalogInit, Catalog!SourceInit, NoDoc
<1>. QED
    BY <1>3, <1>7

\* The state of the index, the database and every actor has its type, and every actor
\* has what its operation uses: a video, a manifest of it, a document to write.
THEOREM SearchTypes == Spec => []TypeOK
<1>1. SearchInv /\ [Next]_vars => SearchInv'
    BY SearchStep DEF Kept
<1>2. SearchInv => TypeOK
    BY DEF SearchInv
<1>. QED
    BY <1>1, <1>2, SearchInitial, PTL DEF Spec

\* The handlers and the tasks implement the catalog: whatever they do, and however they
\* interleave, crash and lose writes, a document holds a manifest that its video showed
\* when a reader read it.
THEOREM SearchImplementsCatalog == Spec => CatalogSpec
<1>1. SearchInv /\ [Next]_vars => SearchInv' /\ [Catalog!CatalogNext]_Catalog!catalogVars
    BY SearchStep DEF Kept
<1>. QED
    BY <1>1, SearchInitial, PTL DEF Spec, CatalogSpec, Catalog!CatalogSpec

-----------------------------------------------------------------------------
(* What a prune takes.                                                     *)

\* What a prune may still take was stamped before its reindex began.
PruneInv ==
    \A a \in Actors : proc[a].op = "prune" =>
        \A v \in proc[a].todo : docs[v].stamp < proc[a].since

\* No document that an actor is about to delete was written in this step, and no actor
\* begins to delete.
LEMMA PrunesGoOn ==
    ASSUME PruneInv,
           \A b \in Actors : proc'[b].op = "prune" =>
              /\ proc[b].op = "prune" /\ proc'[b].since = proc[b].since
              /\ \A v \in proc'[b].todo : v \in proc[b].todo /\ docs'[v] = docs[v]
    PROVE  PruneInv'
BY DEF PruneInv

\* The step of an actor that neither deletes nor writes documents.
LEMMA OtherRecords ==
    ASSUME SearchInv, PruneInv, NEW a \in Actors, NEW q, q.op # "prune",
           proc' = [proc EXCEPT ![a] = q], docs' = docs
    PROVE  PruneInv'
BY PrunesGoOn DEF SearchInv, Records, Proc

\* Documents of S are written or removed, by an actor that is not deleting.
LEMMA OtherDocuments ==
    ASSUME SearchInv, PruneInv, NEW a \in Actors, NEW q, q.op # "prune", NEW S,
           proc' = [Conflicting(S) EXCEPT ![a] = q],
           \A v \in VideoIds \ S : docs'[v] = docs[v]
    PROVE  PruneInv'
<1>1. Conflicting(S) \in [Actors -> Records]
    BY ConflictingRecords DEF SearchInv
<1>2. ASSUME NEW b \in Actors, proc'[b].op = "prune"
      PROVE  /\ proc[b].op = "prune" /\ proc'[b].since = proc[b].since
             /\ \A v \in proc'[b].todo : v \in proc[b].todo /\ docs'[v] = docs[v]
    <2>1. b # a /\ proc'[b] = Conflicting(S)[b]
        BY <1>1, <1>2
    <2>2. proc[b].op = "prune"
        BY <1>2, <2>1 DEF Conflicting, SearchInv, Records, Proc
    <2>3. proc'[b] = [proc[b] EXCEPT !.todo = @ \ S]
        BY <2>1, <2>2 DEF Conflicting
    <2>. QED
        BY <2>2, <2>3 DEF SearchInv, Records, Proc
<1>. QED
    BY <1>2, PrunesGoOn

LEMMA HandlesStep ==
    ASSUME SearchInv, PruneInv, NEW a \in Actors, NEW v, NEW op, Handle(a, v, op),
           op # "prune", docs' = docs
    PROVE  PruneInv'
<1>1. [IdleProc EXCEPT !.op = op, !.vid = v].op # "prune"
    BY DEF IdleProc
<1>. QED
    BY <1>1, OtherRecords DEF Handle, Become

LEMMA FinishesStep ==
    ASSUME SearchInv, PruneInv, NEW a \in Actors, Finish(a), docs' = docs
    PROVE  PruneInv'
BY OtherRecords DEF Finish, Become, IdleProc

LEMMA PruneChangeStep ==
    ASSUME SearchInv, PruneInv, NEW a \in Actors, Change(a) \/ DeleteVideo(a)
    PROVE  PruneInv'
<1>1. ASSUME NEW v \in VideoIds, NEW m \in ManifestIds, Rejected(a, v, m) PROVE PruneInv'
    BY <1>1 DEF Rejected, PruneInv, esVars
<1>. QED
    BY <1>1, HandlesStep
       DEF Change, Validated, Commented, Moderated, DeleteManifests, DeleteVideo, esVars

LEMMA PruneHandlerStep ==
    ASSUME SearchInv, PruneInv, NEW a \in Actors,
           \/ ReadVideo(a) \/ LoadMetadata(a) \/ LoadFails(a) \/ BuildDocument(a)
           \/ WriteDocument(a) \/ RemoveDocument(a) \/ Lost(a) \/ Crash(a)
    PROVE  PruneInv'
<1>. proc[a] \in Proc
    BY DEF SearchInv, Records
<1>1. CASE ReadVideo(a)
    <2>1. [proc[a] EXCEPT !.op = "load", !.manifest = Shown(proc[a].vid)].op # "prune"
        BY DEF Proc
    <2>. QED
        BY <1>1, <2>1, FinishesStep, OtherRecords DEF ReadVideo, Become, esVars
<1>2. CASE LoadMetadata(a)
    <2>1. [proc[a] EXCEPT !.op = "build"].op # "prune"
        BY DEF Proc
    <2>. QED
        BY <1>2, <2>1, OtherRecords DEF LoadMetadata, Become, esVars
<1>3. CASE LoadFails(a) \/ Lost(a) \/ Crash(a)
    BY <1>3, FinishesStep DEF LoadFails, Lost, Crash, esVars
<1>4. CASE BuildDocument(a)
    <2> DEFINE d == [manifest |-> proc[a].manifest, comments |-> comments[proc[a].vid],
                     stamp |-> clock]
               q == [proc[a] EXCEPT !.op = "write", !.doc = d]
    <2>1. q.op # "prune"
        BY DEF Proc
    <2>2. proc' = [proc EXCEPT ![a] = q] /\ docs' = docs
        BY <1>4 DEF BuildDocument, Become, esVars
    <2>. QED
        BY <2>1, <2>2, OtherRecords
<1>5. CASE WriteDocument(a)
    <2> DEFINE c == Conflicting({proc[a].vid})
    <2>1. c[a] = proc[a]
        BY <1>5, ConflictingRecords DEF WriteDocument, SearchInv
    <2>2. PICK q : q.op # "prune" /\ proc' = [c EXCEPT ![a] = q]
        BY <1>5, <2>1 DEF WriteDocument, Resume, IdleProc, Proc
    <2>3. \A v \in VideoIds \ {proc[a].vid} : docs'[v] = docs[v]
        BY <1>5 DEF WriteDocument, SearchInv, TypeOK
    <2>. QED
        BY <2>2, <2>3, OtherDocuments
<1>6. CASE RemoveDocument(a)
    <2>1. \A v \in VideoIds \ {proc[a].vid} : docs'[v] = docs[v]
        BY <1>6 DEF RemoveDocument, SearchInv, TypeOK
    <2>2. IdleProc.op # "prune"
        BY DEF IdleProc
    <2>. QED
        BY <1>6, <2>1, <2>2, OtherDocuments DEF RemoveDocument
<1>. QED
    BY <1>1, <1>2, <1>3, <1>4, <1>5, <1>6

LEMMA PruneTaskStep ==
    ASSUME SearchInv, PruneInv, NEW a \in Actors,
           \/ BeginReindex(a) \/ BeginRebuild(a) \/ CreateIndex(a) \/ ReadBatch(a)
           \/ \E v \in VideoIds : Scan(a, v)
           \/ PruneRefresh(a) \/ PruneDone(a) \/ PruneFails(a) \/ RebuildDone(a)
    PROVE  PruneInv'
<1>. proc[a] \in Proc
    BY DEF SearchInv, Records
<1>1. CASE BeginReindex(a)
    <2>1. [IdleProc EXCEPT !.op = "cursor", !.kind = "reindex",
                           !.since = clock + 1].op # "prune"
        BY DEF IdleProc
    <2>. QED
        BY <1>1, <2>1, OtherRecords DEF BeginReindex, Become
<1>2. CASE BeginRebuild(a)
    <2>1. [IdleProc EXCEPT !.op = "create:index", !.kind = "rebuild"].op # "prune"
        BY DEF IdleProc
    <2>. QED
        BY <1>2, <2>1, OtherDocuments DEF BeginRebuild
<1>3. CASE CreateIndex(a)
    <2>1. [proc[a] EXCEPT !.op = "cursor"].op # "prune"
        BY DEF Proc
    <2>. QED
        BY <1>3, <2>1, OtherRecords DEF CreateIndex, Become
<1>4. CASE ReadBatch(a)
    <2> DEFINE read == [v \in VideoIds |-> Shown(v)]
               todo == {v \in VideoIds : state[v] # "deleted" /\ Shown(v) # NoManifest}
               q == [proc[a] EXCEPT !.op = "scan", !.read = read, !.todo = todo]
    <2>1. proc' = [proc EXCEPT ![a] = q] /\ docs' = docs
        BY <1>4 DEF ReadBatch, Become, esVars
    <2>. HIDE DEF read, todo
    <2>2. q.op # "prune"
        BY DEF Proc
    <2>. QED
        BY <2>1, <2>2, OtherRecords
<1>5. ASSUME NEW v \in VideoIds, Scan(a, v) PROVE PruneInv'
    <2>1. [proc[a] EXCEPT !.op = "load", !.vid = v, !.manifest = proc[a].read[v],
                          !.todo = @ \ {v}].op # "prune"
        BY DEF Proc
    <2>. QED
        BY <1>5, <2>1, OtherRecords DEF Scan, Become, esVars
<1>6. CASE PruneRefresh(a)
    <2> DEFINE todo == {v \in VideoIds : docs[v] # NoDoc}
               q == [proc[a] EXCEPT !.op = "query", !.todo = todo]
    <2>1. proc' = [proc EXCEPT ![a] = q] /\ docs' = docs
        BY <1>6 DEF PruneRefresh, Become, esVars
    <2>. HIDE DEF todo
    <2>2. q.op # "prune"
        BY DEF Proc
    <2>. QED
        BY <2>1, <2>2, OtherRecords
<1>7. CASE PruneDone(a) \/ PruneFails(a) \/ RebuildDone(a)
    BY <1>7, FinishesStep DEF PruneDone, PruneFails, RebuildDone, esVars
<1>. QED
    BY <1>1, <1>2, <1>3, <1>4, <1>5, <1>6, <1>7

\* The query takes documents with an older stamp, and of those written since the refresh
\* none that it did not see written.
LEMMA PruneQueryTakesOld ==
    ASSUME SearchInv, PruneInv, NEW a \in Actors, PruneQuery(a)
    PROVE  PruneInv'
<1> DEFINE p == proc[a]
<1>1. PICK S : proc' = [proc EXCEPT ![a] = [p EXCEPT !.op = "prune",
                            !.todo = {v \in p.todo \cup S : Pruned(v, p.since)}]]
    BY DEF PruneQuery, Become
<1> DEFINE todo == {v \in p.todo \cup S : Pruned(v, p.since)}
           q == [p EXCEPT !.op = "prune", !.todo = todo]
<1>2. \A v \in todo : docs[v].stamp < p.since
    BY DEF Pruned
<1>. HIDE DEF todo
<1>3. q.todo = todo /\ q.since = p.since
    BY DEF SearchInv, Records, Proc
<1>4. proc' = [proc EXCEPT ![a] = q] /\ docs' = docs
    BY <1>1 DEF PruneQuery, esVars, todo
<1>. HIDE DEF q
<1>5. ASSUME NEW b \in Actors, proc'[b].op = "prune", NEW v \in proc'[b].todo
      PROVE  docs'[v].stamp < proc'[b].since
    <2>1. CASE b = a
        BY <1>2, <1>3, <1>4, <1>5, <2>1 DEF SearchInv
    <2>2. CASE b # a
        BY <1>4, <1>5, <2>2 DEF PruneInv, SearchInv
    <2>. QED
        BY <2>1, <2>2
<1>. QED
    BY <1>5 DEF PruneInv

LEMMA PruneDocumentTakesOne ==
    ASSUME SearchInv, PruneInv, NEW a \in Actors, NEW v \in VideoIds, PruneDocument(a, v)
    PROVE  PruneInv'
<1> DEFINE c == Conflicting({v})
<1>1. c \in [Actors -> Records]
    BY ConflictingRecords DEF SearchInv
<1>2. ASSUME NEW b \in Actors, proc'[b].op = "prune"
      PROVE  /\ proc[b].op = "prune" /\ proc'[b].since = proc[b].since
             /\ \A w \in proc'[b].todo : w \in proc[b].todo /\ w # v
    <2>1. c[b].op = "prune" /\ c[b].since = proc'[b].since /\ proc'[b].todo \subseteq c[b].todo
        BY <1>1, <1>2 DEF PruneDocument, Records, Proc
    <2>2. proc[b].op = "prune"
        BY <2>1 DEF Conflicting, SearchInv, Records, Proc
    <2>3. c[b] = [proc[b] EXCEPT !.todo = @ \ {v}]
        BY <2>2 DEF Conflicting
    <2>. QED
        BY <2>1, <2>2, <2>3 DEF SearchInv, Records, Proc
<1>3. \A w \in VideoIds \ {v} : docs'[w] = docs[w]
    BY DEF PruneDocument, SearchInv, TypeOK
<1>4. \A b \in Actors : proc[b].todo \subseteq VideoIds
    BY DEF SearchInv, Records, Proc
<1>. QED
    BY <1>2, <1>3, <1>4, PrunesGoOn

LEMMA PruneStep ==
    ASSUME SearchInv, PruneInv, [Next]_vars
    PROVE  PruneInv'
<1>1. CASE UNCHANGED vars
    BY <1>1 DEF vars, esVars, PruneInv
<1>. QED
    BY <1>1, PruneChangeStep, PruneHandlerStep, PruneTaskStep, PruneQueryTakesOld,
       PruneDocumentTakesOne DEF Next, Progress

\* A reindex never deletes a document that was written since it began, whatever handlers
\* and other tasks write between its refresh, its query and its deletions.
THEOREM PruneKeepsFresh == Spec => FreshAreKept
<1>1. Init => PruneInv
    BY DEF Init, PruneInv, IdleProc
<1>2. SearchInv /\ PruneInv /\ [Next]_vars => SearchInv' /\ PruneInv'
    BY SearchStep, PruneStep DEF Kept
<1>3. SearchInv /\ PruneInv /\ [Next]_vars =>
         [\A a \in Actors, v \in VideoIds : PruneDocument(a, v) =>
             docs[v].stamp < proc[a].since]_vars
    BY DEF PruneInv, PruneDocument
<1>. QED
    BY <1>1, <1>2, <1>3, SearchInitial, PTL DEF Spec, FreshAreKept

-----------------------------------------------------------------------------
(* What the catalog promises holds of the index.                           *)

Promise ==
    INSTANCE SearchCatalogProofs
    WITH Videos <- VideoIds, Manifests <- ManifestIds,
         withdrawn <- Withdrawn,
         shown <- [v \in VideoIds |-> Shown(v)],
         reads <- Reads,
         catalog <- [v \in VideoIds |-> docs[v].manifest]

\* A video that was moderated or deleted, has no document and is held by no reader stays
\* out of the index for good.
THEOREM SearchWithdrawnStayOut == Spec => WithdrawnStayOut
<1>1. Catalog!CatalogInit => Promise!CatalogInit
    BY DEF Catalog!CatalogInit, Catalog!SourceInit, Promise!CatalogInit, Promise!SourceInit
<1>2. [Catalog!CatalogNext]_Catalog!catalogVars => [Promise!CatalogNext]_Promise!catalogVars
    BY DEF Catalog!CatalogNext, Catalog!Forget, Catalog!Read, Catalog!Index, Catalog!Remove,
           Catalog!Change, Catalog!SourceNext, Catalog!Show, Catalog!Withdraw,
           Promise!CatalogNext, Promise!Forget, Promise!Read, Promise!Index, Promise!Remove,
           Promise!Change, Promise!SourceNext, Promise!Show, Promise!Withdraw,
           Promise!catalogVars, Promise!sourceVars
<1>3. [\A v \in VideoIds : Promise!Gone(v) => Promise!Gone(v)']_Promise!catalogVars
      => [\A v \in VideoIds : Catalog!Gone(v) => Catalog!Gone(v)']_Catalog!catalogVars
    BY DEF Catalog!Gone, Promise!Gone, Promise!catalogVars, Promise!sourceVars
<1>. QED
    BY <1>1, <1>2, <1>3, SearchImplementsCatalog, Promise!CatalogGoneStays, PTL
       DEF CatalogSpec, Catalog!CatalogSpec, Promise!CatalogSpec,
           WithdrawnStayOut, Catalog!GoneStays, Promise!GoneStays

==============================================================================
