-------------------------- MODULE SearchTaskProofs --------------------------
(***************************************************************************)
(* What the maintenance tasks of SearchIndex achieve, for any number of    *)
(* actors and videos, whatever crashes and lost calls did before; and that *)
(* the index is in step while one operation runs at a time.                *)
(*                                                                         *)
(* A task is followed on each video left alone while it runs (TasksInv):   *)
(* nobody else has to do with the video then, and its document is either   *)
(* still to be dealt with by the task, or as it must be in the end.        *)
(***************************************************************************)
EXTENDS SearchIndexProofs, WellFoundedInduction

\* What an actor has of stamps is of reindexes that have begun.
ClockOf(p) == p.since <= clock /\ (p.op = "write" => p.doc.stamp <= clock)

ClockInv ==
    /\ \A v \in VideoIds : docs[v].stamp <= clock
    /\ \A a \in Actors : ClockOf(proc[a])

\* The operations of a task are those of its kind.
KindOf(p) ==
    /\ p.op = "create:index" => p.kind = "rebuild"
    /\ p.op \in {"query", "prune"} => p.kind = "reindex"
    /\ p.op \in {"cursor", "scan"} => p.kind # "handler"
    /\ p.op \in {"idle", "read", "remove", "delete:video"} => p.kind = "handler"

\* A video that a task has for itself.
Followed(a, v) == IsTask(a) /\ v \in VideoIds /\ v \notin touched[a]

Exclusive ==
    \A a, b \in Actors : a # b =>
        \A v \in VideoIds : Followed(a, v) => ~IsTask(b) /\ proc[b].vid # v

\* The video calls for a document.
Called(v) == state[v] # "deleted" /\ Shown(v) # NoManifest

\* There is no document, or one that the prune of a reindex will take.
Left(p, v) == docs[v] = NoDoc \/ (p.kind = "reindex" /\ docs[v].stamp < p.since)

\* The document the video calls for, written by this task.
Renewed(p, v) ==
    /\ docs[v].manifest = Shown(v) /\ docs[v].comments = comments[v]
    /\ docs[v].stamp >= p.since

\* The task is indexing the video.
Indexing(p, v) == p.op \in {"load", "build", "write"} /\ p.vid = v

\* How far a task has come with a video that it has for itself.
Along(p, v) ==
    /\ p.op \in {"create:index", "cursor"} => Left(p, v)
    /\ p.op \in ScanOps \cup {"query", "prune"} =>
          /\ ~Called(v) => Left(p, v) /\ (p.op \in ScanOps => v \notin p.todo /\ ~Indexing(p, v))
          /\ Called(v) => \/ Renewed(p, v)
                          \/ p.op \in ScanOps /\ (v \in p.todo \/ Indexing(p, v))
    /\ p.op \in ScanOps /\ v \in p.todo => p.read[v] = Shown(v)
    /\ Indexing(p, v) => p.manifest = Shown(v)
    /\ p.op = "write" /\ p.vid = v =>
          p.doc.comments = comments[v] /\ p.doc.stamp >= p.since
    /\ p.op = "query" /\ docs[v] # NoDoc => v \in p.todo
    /\ p.op = "prune" /\ docs[v] # NoDoc /\ docs[v].stamp < p.since => v \in p.todo

TasksInv ==
    /\ SearchInv
    /\ ClockInv
    /\ \A a \in Actors : KindOf(proc[a])
    /\ Exclusive
    /\ \A a \in Actors, v \in VideoIds : Followed(a, v) => Along(proc[a], v)

\* The index has the mapping from its creation on, while a rebuild has all videos for itself.
MappingInv ==
    \A a \in Actors :
        proc[a].kind = "rebuild" /\ touched[a] = {} =>
            IF proc[a].op = "create:index" THEN index = "absent" ELSE index = "mapped"

-----------------------------------------------------------------------------
(* What a step leaves to the other actors.                                  *)

\* The other actors go on, but for documents of S that were written or removed.
OthersKept(b, S) ==
    \A a \in Actors \ {b} : proc'[a] = proc[a] \/ proc'[a] = Conflicting(S)[a]

\* Video v and its document are as they were.
VideoKept(v) ==
    /\ state'[v] = state[v] /\ valid'[v] = valid[v] /\ comments'[v] = comments[v]
    /\ docs'[v] = docs[v]

LEMMA OtherFields ==
    ASSUME proc \in [Actors -> Records], NEW b \in Actors, NEW S, OthersKept(b, S),
           NEW a \in Actors \ {b}
    PROVE  /\ proc'[a].op = proc[a].op /\ proc'[a].kind = proc[a].kind
           /\ proc'[a].vid = proc[a].vid /\ proc'[a].manifest = proc[a].manifest
           /\ proc'[a].doc = proc[a].doc /\ proc'[a].read = proc[a].read
           /\ proc'[a].since = proc[a].since
           /\ \A v : v \notin S => (v \in proc'[a].todo <=> v \in proc[a].todo)
<1>1. CASE proc'[a] = proc[a]
    BY <1>1
<1>2. CASE proc'[a] = Conflicting(S)[a] /\ proc[a].op \in {"query", "prune"}
    <2>1. proc'[a] = [proc[a] EXCEPT !.todo = @ \ S]
        BY <1>2 DEF Conflicting
    <2>2. proc[a] \in Proc
        BY DEF Records
    <2>. QED
        BY <2>1, <2>2 DEF Proc
<1>3. CASE proc'[a] = Conflicting(S)[a] /\ proc[a].op \notin {"query", "prune"}
    BY <1>3, ConflictingRecords
<1>. QED
    BY <1>1, <1>2, <1>3 DEF OthersKept

LEMMA ShownKept ==
    ASSUME NEW v \in VideoIds, valid'[v] = valid[v] PROVE Shown(v)' = Shown(v)
BY DEF Shown

\* A task is where it was with a video that the step leaves alone.
LEMMA AlongKept ==
    ASSUME NEW a \in Actors, NEW v \in VideoIds, Along(proc[a], v), VideoKept(v),
           proc'[a].op = proc[a].op, proc'[a].kind = proc[a].kind,
           proc'[a].vid = proc[a].vid, proc'[a].manifest = proc[a].manifest,
           proc'[a].doc = proc[a].doc, proc'[a].read = proc[a].read,
           proc'[a].since = proc[a].since,
           v \in proc'[a].todo <=> v \in proc[a].todo
    PROVE  Along(proc[a], v)'
<1>1. Shown(v)' = Shown(v)
    BY ShownKept DEF VideoKept
<1>2. Called(v)' <=> Called(v)
    BY <1>1 DEF Called, VideoKept
<1>3. Left(proc[a], v)' <=> Left(proc[a], v)
    BY DEF Left, VideoKept
<1>4. Renewed(proc[a], v)' <=> Renewed(proc[a], v)
    BY <1>1 DEF Renewed, VideoKept
<1>5. Indexing(proc[a], v)' <=> Indexing(proc[a], v)
    BY DEF Indexing
<1>. QED
    BY <1>1, <1>2, <1>3, <1>4, <1>5 DEF Along, VideoKept

\* Instants are numbers.
LEMMA Instants ==
    ASSUME TypeOK
    PROVE  /\ clock \in Int /\ 0 <= clock /\ clock <= clock
           /\ \A p \in Records : p.since \in Int /\ (p.op = "write" => p.doc.stamp \in Int)
           /\ \A d \in Document \cup {NoDoc} : d.stamp \in Int
<1>1. 0 .. MaxRuns \subseteq Int /\ \A x \in 0 .. MaxRuns : 0 <= x
    OBVIOUS
<1>2. clock \in 0 .. MaxRuns
    BY DEF TypeOK
<1>3. \A d \in Document \cup {NoDoc} : d.stamp \in Int
    BY <1>1 DEF Document, NoDoc
<1>4. \A p \in Records : p.since \in 0 .. MaxRuns /\ (p.op = "write" => p.doc \in Document)
    BY DEF Records, Proc, Ready
<1>5. clock \in Int /\ 0 <= clock /\ clock <= clock
    BY <1>1, <1>2
<1>6. \A p \in Records : p.since \in Int
    BY <1>1, <1>4
<1>. QED
    BY <1>3, <1>4, <1>5, <1>6

\* The invariant after a step, from what it does to its actor and to the videos of others.
LEMMA TasksBy ==
    ASSUME TasksInv, SearchInv', NEW b \in Actors, NEW S, OthersKept(b, S),
           \A a \in Actors \ {b} : IsTask(a) => touched[a] \subseteq touched'[a],
           \A a \in Actors \ {b}, v \in VideoIds : Followed(a, v)' =>
              v \notin S /\ VideoKept(v) /\ ~IsTask(b)' /\ proc'[b].vid # v,
           \A v \in VideoIds : Followed(b, v)' =>
              Along(proc[b], v)' /\ \A c \in Actors \ {b} : ~IsTask(c) /\ proc[c].vid # v,
           clock <= clock', \A v \in VideoIds : docs'[v].stamp <= clock',
           ClockOf(proc[b])', KindOf(proc'[b])
    PROVE  TasksInv'
<1>0. proc \in [Actors -> Records] /\ TypeOK /\ TypeOK'
    BY DEF TasksInv, SearchInv
<1>1. ASSUME NEW a \in Actors \ {b}
      PROVE  /\ proc'[a].op = proc[a].op /\ proc'[a].kind = proc[a].kind
             /\ proc'[a].vid = proc[a].vid /\ proc'[a].manifest = proc[a].manifest
             /\ proc'[a].doc = proc[a].doc /\ proc'[a].read = proc[a].read
             /\ proc'[a].since = proc[a].since
             /\ \A v : v \notin S => (v \in proc'[a].todo <=> v \in proc[a].todo)
    BY <1>0, OtherFields
<1>2. ASSUME NEW a \in Actors \ {b}, NEW v \in VideoIds, Followed(a, v)'
      PROVE  Followed(a, v)
    BY <1>1, <1>2 DEF Followed, IsTask
<1>3. ASSUME NEW a \in Actors, NEW v \in VideoIds, Followed(a, v)'
      PROVE  Along(proc[a], v)'
    <2>1. CASE a = b
        BY <1>3, <2>1
    <2>2. CASE a # b
        <3>1. Along(proc[a], v) /\ VideoKept(v) /\ v \notin S
            BY <1>2, <1>3, <2>2 DEF TasksInv
        <3>. QED
            BY <1>1, <2>2, <3>1, AlongKept
    <2>. QED
        BY <2>1, <2>2
<1>4. ASSUME NEW a \in Actors, NEW c \in Actors, a # c, NEW v \in VideoIds, Followed(a, v)'
      PROVE  ~IsTask(c)' /\ proc'[c].vid # v
    <2>1. CASE a = b
        BY <1>1, <1>4, <2>1 DEF IsTask
    <2>2. CASE c = b
        BY <1>4, <2>2
    <2>3. CASE a # b /\ c # b
        <3>1. ~IsTask(c) /\ proc[c].vid # v
            BY <1>2, <1>4, <2>3 DEF TasksInv, Exclusive
        <3>. QED
            BY <1>1, <2>3, <3>1 DEF IsTask
    <2>. QED
        BY <2>1, <2>2, <2>3
<1>5. ClockInv'
    <2>1. ASSUME NEW a \in Actors \ {b} PROVE ClockOf(proc[a])'
        <3>1. ClockOf(proc[a]) /\ proc[a] \in Proc
            BY <1>0 DEF TasksInv, ClockInv, Records
        <3>2. /\ clock \in Int /\ clock' \in Int /\ proc[a].since \in Int
              /\ proc[a].op = "write" => proc[a].doc.stamp \in Int
            <4>1. clock' \in 0 .. MaxRuns
                BY <1>0 DEF TypeOK
            <4>. QED
                BY <1>0, <4>1, Instants
        <3>3. proc[a].since <= clock'
            BY <3>1, <3>2 DEF ClockOf
        <3>4. proc[a].op = "write" => proc[a].doc.stamp <= clock'
            BY <3>1, <3>2 DEF ClockOf
        <3>. QED
            BY <1>1, <3>3, <3>4 DEF ClockOf
    <2>. QED
        BY <2>1 DEF ClockInv
<1>6. \A a \in Actors : KindOf(proc'[a])
    BY <1>1 DEF TasksInv, KindOf
<1>7. Exclusive'
    BY <1>4 DEF Exclusive
<1>. QED
    BY <1>3, <1>5, <1>6, <1>7 DEF TasksInv

\* A step that changes neither the database nor a document.
LEMMA TaskLocal ==
    ASSUME TasksInv, SearchInv', NEW b \in Actors, NEW q, proc' = [proc EXCEPT ![b] = q],
           UNCHANGED <<dbVars, docs, clock, touched>>, KindOf(q), ClockOf(q),
           q.kind \in {proc[b].kind, "handler"},
           q.kind = "handler" => q.vid \in {proc[b].vid, NoVideo},
           \A v \in VideoIds : IsTask(b) /\ q.kind # "handler" /\ v \notin touched[b] =>
              Along(proc[b], v)'
    PROVE  TasksInv'
<1>0. proc \in [Actors -> Records] /\ TypeOK
    BY DEF TasksInv, SearchInv
<1>1. proc'[b] = q /\ \A a \in Actors \ {b} : proc'[a] = proc[a]
    BY <1>0
<1>2. OthersKept(b, {})
    BY <1>1 DEF OthersKept
<1>3. \A v \in VideoIds : VideoKept(v)
    BY DEF VideoKept, dbVars
<1>4. ASSUME NEW a \in Actors \ {b}, NEW v \in VideoIds, Followed(a, v)'
      PROVE  ~IsTask(b)' /\ proc'[b].vid # v
    <2>1. Followed(a, v)
        BY <1>1, <1>4 DEF Followed, IsTask
    <2>2. ~IsTask(b) /\ proc[b].vid # v
        BY <2>1 DEF TasksInv, Exclusive
    <2>3. q.kind = "handler"
        BY <2>2 DEF IsTask
    <2>. QED
        BY <1>1, <2>2, <2>3, SearchAssumption DEF IsTask
<1>5. ASSUME NEW v \in VideoIds, Followed(b, v)'
      PROVE  Along(proc[b], v)' /\ \A c \in Actors \ {b} : ~IsTask(c) /\ proc[c].vid # v
    <2>1. Followed(b, v) /\ q.kind # "handler"
        BY <1>1, <1>5 DEF Followed, IsTask
    <2>2. Along(proc[b], v)'
        BY <2>1 DEF Followed
    <2>. QED
        BY <2>1, <2>2 DEF TasksInv, Exclusive
<1>6. clock <= clock' /\ \A v \in VideoIds : docs'[v].stamp <= clock'
    BY <1>0, Instants DEF TasksInv, ClockInv
<1>7. ClockOf(proc[b])' /\ KindOf(proc'[b])
    BY <1>1 DEF ClockOf
<1>8. \A a \in Actors \ {b} : touched[a] \subseteq touched'[a]
    OBVIOUS
<1>. QED
    BY <1>2, <1>3, <1>4, <1>5, <1>6, <1>7, <1>8, TasksBy

LEMMA IdleTask == KindOf(IdleProc) /\ IdleProc.kind = "handler" /\ IdleProc.vid = NoVideo
BY DEF KindOf, IdleProc

\* An operation comes to its end.
LEMMA TaskEnds ==
    ASSUME TasksInv, SearchInv', NEW b \in Actors, Finish(b),
           UNCHANGED <<dbVars, docs, clock, touched>>
    PROVE  TasksInv'
<1>1. ClockOf(IdleProc)
    <2>1. 0 <= clock
        BY Instants DEF TasksInv, SearchInv
    <2>. QED
        BY <2>1 DEF ClockOf, IdleProc
<1>. QED
    BY <1>1, IdleTask, TaskLocal DEF Finish, Become

-----------------------------------------------------------------------------
(* Steps of an operation that read.                                         *)

LEMMA OwnKept ==
    ASSUME NEW b \in Actors, NEW v \in VideoIds, VideoKept(v),
           proc'[b].kind = proc[b].kind, proc'[b].since = proc[b].since
    PROVE  /\ Shown(v)' = Shown(v) /\ (Called(v)' <=> Called(v))
           /\ Left(proc[b], v)' <=> Left(proc[b], v)
           /\ Renewed(proc[b], v)' <=> Renewed(proc[b], v)
<1>1. Shown(v)' = Shown(v)
    BY ShownKept DEF VideoKept
<1>. QED
    BY <1>1 DEF Called, Left, Renewed, VideoKept

\* Nothing that a step of reading changes concerns the videos.
LEMMA NothingWritten ==
    ASSUME UNCHANGED <<dbVars, docs>> PROVE \A v \in VideoIds : VideoKept(v)
BY DEF VideoKept, dbVars

LEMMA TaskReadVideo ==
    ASSUME TasksInv, SearchInv', NEW b \in Actors, ReadVideo(b)
    PROVE  TasksInv'
<1> DEFINE p == proc[b]
           q == [p EXCEPT !.op = "load", !.manifest = Shown(p.vid)]
<1>1. CASE Finish(b)
    BY <1>1, TaskEnds DEF ReadVideo, esVars
<1>2. CASE proc' = [proc EXCEPT ![b] = q]
    <2>1. p \in Proc /\ p.op = "read" /\ KindOf(p) /\ ClockOf(p)
        BY DEF ReadVideo, TasksInv, SearchInv, TypeOK, ClockInv
    <2>2. q.op = "load" /\ q.kind = p.kind /\ q.vid = p.vid /\ q.since = p.since
        BY <2>1 DEF Proc
    <2>3. KindOf(q) /\ ClockOf(q) /\ p.kind = "handler"
        BY <2>1, <2>2 DEF KindOf, ClockOf
    <2> HIDE DEF q
    <2>. QED
        BY <1>2, <2>2, <2>3, TaskLocal DEF ReadVideo, esVars, IsTask
<1>. QED
    BY <1>1, <1>2 DEF ReadVideo, Become

LEMMA TaskLoadMetadata ==
    ASSUME TasksInv, SearchInv', NEW b \in Actors, LoadMetadata(b)
    PROVE  TasksInv'
<1> DEFINE p == proc[b]
           q == [p EXCEPT !.op = "build"]
<1>1. p \in Proc /\ p.op = "load" /\ ClockOf(p) /\ proc \in [Actors -> Proc]
    BY DEF LoadMetadata, TasksInv, SearchInv, TypeOK, ClockInv
<1>2. /\ q.op = "build" /\ q.kind = p.kind /\ q.vid = p.vid /\ q.since = p.since
      /\ q.todo = p.todo /\ q.read = p.read /\ q.manifest = p.manifest /\ q.doc = p.doc
    BY <1>1 DEF Proc
<1>3. proc' = [proc EXCEPT ![b] = q] /\ UNCHANGED <<dbVars, docs, clock, touched>>
    BY DEF LoadMetadata, Become, esVars
<1> HIDE DEF q
<1>4. proc'[b] = q
    BY <1>1, <1>3
<1>5. KindOf(q) /\ ClockOf(q)
    BY <1>1, <1>2 DEF KindOf, ClockOf
<1>6. ASSUME NEW v \in VideoIds, IsTask(b), v \notin touched[b]
      PROVE  Along(proc[b], v)'
    <2>1. Along(p, v)
        BY <1>6 DEF TasksInv, Followed
    <2>2. /\ Shown(v)' = Shown(v) /\ (Called(v)' <=> Called(v))
          /\ Left(proc[b], v)' <=> Left(p, v)
          /\ Renewed(proc[b], v)' <=> Renewed(p, v)
        BY <1>2, <1>3, <1>4, NothingWritten, OwnKept
    <2>3. Indexing(proc[b], v)' <=> Indexing(p, v)
        BY <1>1, <1>2, <1>4 DEF Indexing
    <2>. QED
        BY <1>1, <1>2, <1>4, <2>1, <2>2, <2>3 DEF Along, ScanOps
<1>. QED
    BY <1>2, <1>3, <1>5, <1>6, TaskLocal

LEMMA TaskBuildDocument ==
    ASSUME TasksInv, SearchInv', NEW b \in Actors, BuildDocument(b)
    PROVE  TasksInv'
<1> DEFINE p == proc[b]
           d == [manifest |-> p.manifest, comments |-> comments[p.vid], stamp |-> clock]
           q == [p EXCEPT !.op = "write", !.doc = d]
<1>1. p \in Proc /\ p.op = "build" /\ ClockOf(p) /\ proc \in [Actors -> Proc]
    BY DEF BuildDocument, TasksInv, SearchInv, TypeOK, ClockInv
<1>2. /\ q.op = "write" /\ q.kind = p.kind /\ q.vid = p.vid /\ q.since = p.since
      /\ q.todo = p.todo /\ q.read = p.read /\ q.manifest = p.manifest /\ q.doc = d
    BY <1>1 DEF Proc
<1>3. proc' = [proc EXCEPT ![b] = q] /\ UNCHANGED <<dbVars, docs, clock, touched>>
    BY DEF BuildDocument, Become, esVars
<1>4. d.comments = comments[p.vid] /\ d.stamp = clock
    OBVIOUS
<1> HIDE DEF q, d
<1>5. proc'[b] = q
    BY <1>1, <1>3
<1>6. p.since <= clock /\ p.since \in Int /\ clock \in Int
    BY <1>1, Instants DEF ClockOf, TasksInv, SearchInv
<1>7. KindOf(q) /\ ClockOf(q)
    BY <1>2, <1>4, <1>6 DEF KindOf, ClockOf
<1>8. ASSUME NEW v \in VideoIds, IsTask(b), v \notin touched[b]
      PROVE  Along(proc[b], v)'
    <2>1. Along(p, v)
        BY <1>8 DEF TasksInv, Followed
    <2>2. /\ Shown(v)' = Shown(v) /\ (Called(v)' <=> Called(v))
          /\ Left(proc[b], v)' <=> Left(p, v)
          /\ Renewed(proc[b], v)' <=> Renewed(p, v)
        BY <1>2, <1>3, <1>5, NothingWritten, OwnKept
    <2>3. Indexing(proc[b], v)' <=> Indexing(p, v)
        BY <1>1, <1>2, <1>5 DEF Indexing
    <2>4. p.vid = v => q.doc.comments = comments'[v] /\ q.doc.stamp >= q.since
        BY <1>2, <1>3, <1>4, <1>6 DEF dbVars
    <2>. QED
        BY <1>1, <1>2, <1>5, <2>1, <2>2, <2>3, <2>4 DEF Along, ScanOps
<1>. QED
    BY <1>2, <1>3, <1>7, <1>8, TaskLocal

LEMMA TaskCreateIndex ==
    ASSUME TasksInv, SearchInv', NEW b \in Actors, CreateIndex(b)
    PROVE  TasksInv'
<1> DEFINE p == proc[b]
           q == [p EXCEPT !.op = "cursor"]
<1>1. p \in Proc /\ p.op = "create:index" /\ ClockOf(p) /\ KindOf(p) /\ proc \in [Actors -> Proc]
    BY DEF CreateIndex, TasksInv, SearchInv, TypeOK, ClockInv
<1>2. q.op = "cursor" /\ q.kind = p.kind /\ q.vid = p.vid /\ q.since = p.since
    BY <1>1 DEF Proc
<1>3. proc' = [proc EXCEPT ![b] = q] /\ UNCHANGED <<dbVars, docs, clock, touched>>
    BY DEF CreateIndex, Become
<1> HIDE DEF q
<1>4. proc'[b] = q
    BY <1>1, <1>3
<1>5. KindOf(q) /\ ClockOf(q)
    BY <1>1, <1>2 DEF KindOf, ClockOf
<1>6. ASSUME NEW v \in VideoIds, IsTask(b), v \notin touched[b]
      PROVE  Along(proc[b], v)'
    <2>1. Along(p, v)
        BY <1>6 DEF TasksInv, Followed
    <2>2. Left(proc[b], v)' <=> Left(p, v)
        BY <1>2, <1>3, <1>4, NothingWritten, OwnKept
    <2>. QED
        BY <1>1, <1>2, <1>4, <2>1, <2>2 DEF Along, ScanOps, Indexing
<1>. QED
    BY <1>2, <1>3, <1>5, <1>6, TaskLocal

LEMMA TaskReadBatch ==
    ASSUME TasksInv, SearchInv', NEW b \in Actors, ReadBatch(b)
    PROVE  TasksInv'
<1> DEFINE p == proc[b]
           read == [v \in VideoIds |-> Shown(v)]
           todo == {v \in VideoIds : state[v] # "deleted" /\ Shown(v) # NoManifest}
           q == [p EXCEPT !.op = "scan", !.read = read, !.todo = todo]
<1>1. p \in Proc /\ p.op = "cursor" /\ ClockOf(p) /\ KindOf(p) /\ proc \in [Actors -> Proc]
    BY DEF ReadBatch, TasksInv, SearchInv, TypeOK, ClockInv
<1>2. proc' = [proc EXCEPT ![b] = q] /\ UNCHANGED <<dbVars, docs, clock, touched>>
    BY DEF ReadBatch, Become, esVars
<1>3. \A v \in VideoIds : read[v] = Shown(v) /\ (v \in todo <=> Called(v))
    BY DEF Called
<1> HIDE DEF read, todo
<1>4. /\ q.op = "scan" /\ q.kind = p.kind /\ q.vid = p.vid /\ q.since = p.since
      /\ q.todo = todo /\ q.read = read
    BY <1>1 DEF Proc
<1> HIDE DEF q
<1>5. proc'[b] = q
    BY <1>1, <1>2
<1>6. KindOf(q) /\ ClockOf(q)
    BY <1>1, <1>4 DEF KindOf, ClockOf
<1>7. ASSUME NEW v \in VideoIds, IsTask(b), v \notin touched[b]
      PROVE  Along(proc[b], v)'
    <2>1. Along(p, v)
        BY <1>7 DEF TasksInv, Followed
    <2>2. /\ Shown(v)' = Shown(v) /\ (Called(v)' <=> Called(v))
          /\ Left(proc[b], v)' <=> Left(p, v)
        BY <1>2, <1>4, <1>5, NothingWritten, OwnKept
    <2>3. ~Indexing(proc[b], v)'
        BY <1>4, <1>5 DEF Indexing
    <2>4. Left(p, v)
        BY <1>1, <2>1 DEF Along
    <2>. QED
        BY <1>3, <1>4, <1>5, <2>2, <2>3, <2>4 DEF Along, ScanOps
<1>. QED
    BY <1>2, <1>4, <1>6, <1>7, TaskLocal

LEMMA TaskScan ==
    ASSUME TasksInv, SearchInv', NEW b \in Actors, NEW w \in VideoIds, Scan(b, w)
    PROVE  TasksInv'
<1> DEFINE p == proc[b]
           q == [p EXCEPT !.op = "load", !.vid = w, !.manifest = p.read[w], !.todo = @ \ {w}]
<1>1. /\ p \in Proc /\ p.op = "scan" /\ w \in p.todo
      /\ ClockOf(p) /\ KindOf(p) /\ proc \in [Actors -> Proc]
    BY DEF Scan, TasksInv, SearchInv, TypeOK, ClockInv
<1>2. /\ q.op = "load" /\ q.kind = p.kind /\ q.vid = w /\ q.since = p.since
      /\ q.todo = p.todo \ {w} /\ q.read = p.read /\ q.manifest = p.read[w]
    BY <1>1 DEF Proc
<1>3. proc' = [proc EXCEPT ![b] = q] /\ UNCHANGED <<dbVars, docs, clock, touched>>
    BY DEF Scan, Become, esVars
<1> HIDE DEF q
<1>4. proc'[b] = q
    BY <1>1, <1>3
<1>5. KindOf(q) /\ ClockOf(q) /\ p.kind # "handler"
    BY <1>1, <1>2 DEF KindOf, ClockOf
<1>6. ASSUME NEW v \in VideoIds, IsTask(b), v \notin touched[b]
      PROVE  Along(proc[b], v)'
    <2>1. Along(p, v)
        BY <1>6 DEF TasksInv, Followed
    <2>2. /\ Shown(v)' = Shown(v) /\ (Called(v)' <=> Called(v))
          /\ Left(proc[b], v)' <=> Left(p, v)
          /\ Renewed(proc[b], v)' <=> Renewed(p, v)
        BY <1>2, <1>3, <1>4, NothingWritten, OwnKept
    <2>3. ~Indexing(p, v) /\ (Indexing(proc[b], v)' <=> v = w)
        BY <1>1, <1>2, <1>4 DEF Indexing
    <2>4. /\ ~Called(v) => Left(p, v) /\ v \notin p.todo
          /\ Called(v) => Renewed(p, v) \/ v \in p.todo
          /\ v \in p.todo => p.read[v] = Shown(v)
        BY <1>1, <2>1, <2>3 DEF Along, ScanOps
    <2>. QED
        BY <1>1, <1>2, <1>4, <2>2, <2>3, <2>4 DEF Along, ScanOps
<1>. QED
    BY <1>2, <1>3, <1>5, <1>6, TaskLocal

LEMMA TaskPruneRefresh ==
    ASSUME TasksInv, SearchInv', NEW b \in Actors, PruneRefresh(b)
    PROVE  TasksInv'
<1> DEFINE p == proc[b]
           todo == {v \in VideoIds : docs[v] # NoDoc}
           q == [p EXCEPT !.op = "query", !.todo = todo]
<1>1. /\ p \in Proc /\ p.op = "scan" /\ p.todo = {} /\ p.kind = "reindex"
      /\ ClockOf(p) /\ proc \in [Actors -> Proc]
    BY DEF PruneRefresh, TasksInv, SearchInv, TypeOK, ClockInv
<1>2. proc' = [proc EXCEPT ![b] = q] /\ UNCHANGED <<dbVars, docs, clock, touched>>
    BY DEF PruneRefresh, Become, esVars
<1>3. \A v \in VideoIds : docs'[v] # NoDoc => v \in todo
    BY <1>2
<1> HIDE DEF todo
<1>4. q.op = "query" /\ q.kind = p.kind /\ q.vid = p.vid /\ q.since = p.since /\ q.todo = todo
    BY <1>1 DEF Proc
<1> HIDE DEF q
<1>5. proc'[b] = q
    BY <1>1, <1>2
<1>6. KindOf(q) /\ ClockOf(q)
    BY <1>1, <1>4 DEF KindOf, ClockOf
<1>7. ASSUME NEW v \in VideoIds, IsTask(b), v \notin touched[b]
      PROVE  Along(proc[b], v)'
    <2>1. Along(p, v)
        BY <1>7 DEF TasksInv, Followed
    <2>2. /\ Called(v)' <=> Called(v)
          /\ Left(proc[b], v)' <=> Left(p, v)
          /\ Renewed(proc[b], v)' <=> Renewed(p, v)
        BY <1>2, <1>4, <1>5, NothingWritten, OwnKept
    <2>3. ~Indexing(p, v) /\ ~Indexing(proc[b], v)'
        BY <1>1, <1>4, <1>5 DEF Indexing
    <2>4. IF Called(v) THEN Renewed(p, v) ELSE Left(p, v)
        BY <1>1, <2>1, <2>3 DEF Along, ScanOps
    <2>. QED
        BY <1>3, <1>4, <1>5, <2>2, <2>3, <2>4 DEF Along, ScanOps
<1>. QED
    BY <1>2, <1>4, <1>6, <1>7, TaskLocal

LEMMA TaskPruneQuery ==
    ASSUME TasksInv, SearchInv', NEW b \in Actors, PruneQuery(b)
    PROVE  TasksInv'
<1> DEFINE p == proc[b]
<1>1. PICK S : proc' = [proc EXCEPT ![b] = [p EXCEPT !.op = "prune",
                            !.todo = {v \in p.todo \cup S : Pruned(v, p.since)}]]
    BY DEF PruneQuery, Become
<1> DEFINE todo == {v \in p.todo \cup S : Pruned(v, p.since)}
           q == [p EXCEPT !.op = "prune", !.todo = todo]
<1>2. /\ p \in Proc /\ p.op = "query" /\ ClockOf(p) /\ KindOf(p) /\ proc \in [Actors -> Proc]
      /\ UNCHANGED <<dbVars, docs, clock, touched>>
    BY DEF PruneQuery, TasksInv, SearchInv, TypeOK, ClockInv, esVars
<1>3. \A v \in p.todo : docs[v] # NoDoc /\ docs[v].stamp < p.since => v \in todo
    BY DEF Pruned
<1>4. proc' = [proc EXCEPT ![b] = q]
    BY <1>1
<1> HIDE DEF todo
<1>5. q.op = "prune" /\ q.kind = p.kind /\ q.vid = p.vid /\ q.since = p.since /\ q.todo = todo
    BY <1>2 DEF Proc
<1> HIDE DEF q
<1>6. proc'[b] = q
    BY <1>2, <1>4
<1>7. KindOf(q) /\ ClockOf(q)
    BY <1>2, <1>5 DEF KindOf, ClockOf
<1>8. ASSUME NEW v \in VideoIds, IsTask(b), v \notin touched[b]
      PROVE  Along(proc[b], v)'
    <2>1. Along(p, v)
        BY <1>8 DEF TasksInv, Followed
    <2>2. /\ Called(v)' <=> Called(v)
          /\ Left(proc[b], v)' <=> Left(p, v)
          /\ Renewed(proc[b], v)' <=> Renewed(p, v)
        BY <1>2, <1>5, <1>6, NothingWritten, OwnKept
    <2>3. ~Indexing(proc[b], v)'
        BY <1>5, <1>6 DEF Indexing
    <2>4. /\ IF Called(v) THEN Renewed(p, v) ELSE Left(p, v)
          /\ docs[v] # NoDoc => v \in p.todo
        BY <1>2, <2>1 DEF Along, ScanOps
    <2>5. docs'[v] # NoDoc /\ docs'[v].stamp < q.since => v \in todo
        BY <1>2, <1>3, <1>5, <2>4
    <2>. QED
        BY <1>5, <1>6, <2>2, <2>3, <2>4, <2>5 DEF Along, ScanOps
<1>. QED
    BY <1>2, <1>4, <1>5, <1>7, <1>8, TaskLocal

-----------------------------------------------------------------------------
(* Steps that change the database, or write documents.                      *)

LEMMA HandlerTask ==
    ASSUME TypeOK, NEW v \in VideoIds, NEW op \in {"read", "remove", "delete:video"}
    PROVE  LET q == [IdleProc EXCEPT !.op = op, !.vid = v]
           IN  KindOf(q) /\ ClockOf(q) /\ q.kind = "handler" /\ q.vid = v
<1>1. 0 <= clock
    BY Instants
<1>. QED
    BY <1>1 DEF KindOf, ClockOf, IdleProc

\* A change of the database takes its video from every task.
LEMMA TaskTouch ==
    ASSUME TasksInv, SearchInv', NEW b \in Actors, NEW w \in VideoIds, Touch(w),
           UNCHANGED <<docs, clock>>, ~IsTask(b),
           \A v \in VideoIds \ {w} : state'[v] = state[v] /\ valid'[v] = valid[v]
                                     /\ comments'[v] = comments[v],
           NEW q, proc' = [proc EXCEPT ![b] = q], KindOf(q), ClockOf(q),
           q.kind = "handler", q.vid \in {proc[b].vid, w}
    PROVE  TasksInv'
<1>0. proc \in [Actors -> Records] /\ TypeOK
    BY DEF TasksInv, SearchInv
<1>1. proc'[b] = q /\ \A a \in Actors \ {b} : proc'[a] = proc[a]
    BY <1>0
<1>2. OthersKept(b, {})
    BY <1>1 DEF OthersKept
<1>3. \A v \in VideoIds \ {w} : VideoKept(v)
    BY DEF VideoKept
<1>4. \A a \in Actors : IsTask(a) => touched'[a] = touched[a] \cup {w}
    BY DEF Touch
<1>5. ASSUME NEW a \in Actors \ {b}, NEW v \in VideoIds, Followed(a, v)'
      PROVE  v # w /\ ~IsTask(b)' /\ proc'[b].vid # v
    <2>1. Followed(a, v) /\ v # w
        BY <1>1, <1>4, <1>5 DEF Followed, IsTask
    <2>2. proc[b].vid # v
        BY <2>1 DEF TasksInv, Exclusive
    <2>. QED
        BY <1>1, <2>1, <2>2 DEF IsTask
<1>6. \A v \in VideoIds : ~Followed(b, v)'
    BY <1>1 DEF Followed, IsTask
<1>7. clock <= clock' /\ \A v \in VideoIds : docs'[v].stamp <= clock'
    BY <1>0, Instants DEF TasksInv, ClockInv
<1>8. ClockOf(proc[b])' /\ KindOf(proc'[b])
    BY <1>1 DEF ClockOf
<1>9. \A a \in Actors \ {b} : IsTask(a) => touched[a] \subseteq touched'[a]
    BY <1>4
<1>. QED
    BY <1>2, <1>3, <1>5, <1>6, <1>7, <1>8, <1>9, TasksBy

\* The same, of a change that its actor goes on to handle.
LEMMA TaskHandles ==
    ASSUME TasksInv, SearchInv', NEW b \in Actors, NEW w \in VideoIds, Touch(w),
           UNCHANGED <<docs, clock>>, proc[b].op \in {"idle", "delete:video"},
           \A v \in VideoIds \ {w} : state'[v] = state[v] /\ valid'[v] = valid[v]
                                     /\ comments'[v] = comments[v],
           NEW op \in {"read", "remove", "delete:video"}, Handle(b, w, op)
    PROVE  TasksInv'
<1> DEFINE q == [IdleProc EXCEPT !.op = op, !.vid = w]
<1>1. KindOf(q) /\ ClockOf(q) /\ q.kind = "handler" /\ q.vid = w
    BY HandlerTask DEF TasksInv, SearchInv
<1>2. ~IsTask(b)
    BY DEF TasksInv, KindOf, IsTask
<1>3. proc' = [proc EXCEPT ![b] = q]
    BY DEF Handle, Become
<1>. HIDE DEF q
<1>. QED
    BY <1>1, <1>2, <1>3, TaskTouch

LEMMA TaskChange ==
    ASSUME TasksInv, SearchInv', NEW b \in Actors, Change(b) \/ DeleteVideo(b)
    PROVE  TasksInv'
<1>0. TypeOK /\ proc \in [Actors -> Records]
    BY DEF TasksInv, SearchInv
<1>1. ASSUME NEW v \in VideoIds, NEW m \in ManifestIds, Validated(b, v, m) PROVE TasksInv'
    BY <1>0, <1>1, TaskHandles DEF Validated, Idle, TypeOK, esVars
<1>2. ASSUME NEW v \in VideoIds, NEW m \in ManifestIds, Rejected(b, v, m) PROVE TasksInv'
    <2>1. /\ KindOf(proc[b]) /\ ClockOf(proc[b]) /\ proc[b].op = "idle"
          /\ proc' = [proc EXCEPT ![b] = proc[b]]
        BY <1>0, <1>2 DEF Rejected, Idle, TasksInv, ClockInv
    <2>2. ~IsTask(b) /\ proc[b].kind = "handler"
        BY <2>1 DEF KindOf, IsTask
    <2>3. UNCHANGED <<state, comments, docs, clock>> /\ Touch(v)
          /\ \A w \in VideoIds \ {v} : valid'[w] = valid[w]
        BY <1>0, <1>2 DEF Rejected, TypeOK, esVars
    <2>. QED
        BY <2>1, <2>2, <2>3, TaskTouch
<1>3. ASSUME NEW v \in VideoIds, Commented(b, v) PROVE TasksInv'
    BY <1>0, <1>3, TaskHandles DEF Commented, Idle, TypeOK, esVars
<1>4. ASSUME NEW v \in VideoIds, Moderated(b, v) PROVE TasksInv'
    BY <1>0, <1>4, TaskHandles DEF Moderated, Idle, TypeOK, esVars
<1>5. ASSUME NEW v \in VideoIds, DeleteManifests(b, v) PROVE TasksInv'
    BY <1>0, <1>5, TaskHandles DEF DeleteManifests, Idle, TypeOK, esVars
<1>6. CASE DeleteVideo(b)
    <2>1. PICK v \in VideoIds : v = proc[b].vid
        BY <1>0, <1>6 DEF DeleteVideo, Records, Ready
    <2>2. /\ proc[b].op = "delete:video" /\ Handle(b, v, "remove") /\ Touch(v)
          /\ UNCHANGED <<comments, docs, clock>>
          /\ \A w \in VideoIds \ {v} : state'[w] = state[w] /\ valid'[w] = valid[w]
        BY <1>0, <1>6, <2>1 DEF DeleteVideo, TypeOK, esVars
    <2>. QED
        BY <2>2, TaskHandles
<1>. QED
    BY <1>1, <1>2, <1>3, <1>4, <1>5, <1>6 DEF Change

\* A document is written, or removed, by the handler of its video or by a task.
LEMMA TaskWrites ==
    ASSUME TasksInv, SearchInv', NEW b \in Actors, NEW w \in VideoIds, NEW d, NEW q,
           docs' = [docs EXCEPT ![w] = d], d.stamp <= clock,
           proc' = [Conflicting({w}) EXCEPT ![b] = q],
           UNCHANGED <<dbVars, clock, touched>>, IsTask(b) \/ proc[b].vid = w,
           KindOf(q), ClockOf(q), q.kind \in {proc[b].kind, "handler"},
           q.kind = "handler" => q.vid \in {proc[b].vid, NoVideo},
           \A v \in VideoIds : IsTask(b) /\ q.kind # "handler" /\ v \notin touched[b] =>
              Along(proc[b], v)'
    PROVE  TasksInv'
<1>0. proc \in [Actors -> Records] /\ TypeOK /\ Conflicting({w}) \in [Actors -> Records]
    BY ConflictingRecords DEF TasksInv, SearchInv
<1>1. proc'[b] = q /\ \A a \in Actors \ {b} : proc'[a] = Conflicting({w})[a]
    BY <1>0
<1>2. OthersKept(b, {w})
    BY <1>1 DEF OthersKept
<1>3. \A v \in VideoIds \ {w} : VideoKept(v)
    BY <1>0 DEF VideoKept, dbVars, TypeOK
<1>4. ASSUME NEW a \in Actors \ {b}, NEW v \in VideoIds, Followed(a, v)'
      PROVE  v \notin {w} /\ VideoKept(v) /\ ~IsTask(b)' /\ proc'[b].vid # v
    <2>1. proc'[a].kind = proc[a].kind
        BY <1>0, <1>2, OtherFields
    <2>2. Followed(a, v)
        BY <1>4, <2>1 DEF Followed, IsTask
    <2>3. ~IsTask(b) /\ proc[b].vid # v
        BY <2>2 DEF TasksInv, Exclusive
    <2>4. q.kind = "handler"
        BY <2>3 DEF IsTask
    <2>. QED
        BY <1>1, <1>3, <2>3, <2>4, SearchAssumption DEF IsTask
<1>5. ASSUME NEW v \in VideoIds, Followed(b, v)'
      PROVE  Along(proc[b], v)' /\ \A c \in Actors \ {b} : ~IsTask(c) /\ proc[c].vid # v
    <2>1. Followed(b, v) /\ q.kind # "handler"
        BY <1>1, <1>5 DEF Followed, IsTask
    <2>2. Along(proc[b], v)'
        BY <2>1 DEF Followed
    <2>. QED
        BY <2>1, <2>2 DEF TasksInv, Exclusive
<1>6. clock <= clock'
    BY <1>0, Instants
<1>7. \A v \in VideoIds : docs'[v].stamp <= clock'
    BY <1>0 DEF TasksInv, ClockInv, TypeOK
<1>8. ClockOf(proc[b])' /\ KindOf(proc'[b])
    BY <1>1 DEF ClockOf
<1>9. \A a \in Actors \ {b} : IsTask(a) => touched[a] \subseteq touched'[a]
    OBVIOUS
<1>. QED
    BY <1>2, <1>4, <1>5, <1>6, <1>7, <1>8, <1>9, TasksBy

\* A task has written a document and takes the next video, or a handler ends.
LEMMA TaskWriteDocument ==
    ASSUME TasksInv, SearchInv', NEW b \in Actors, WriteDocument(b)
    PROVE  TasksInv'
<1> DEFINE p == proc[b]
           c == Conflicting({p.vid})
           r == [p EXCEPT !.op = "scan", !.vid = NoVideo, !.manifest = NoManifest, !.doc = NoDoc]
<1>0. TypeOK /\ proc \in [Actors -> Records]
    BY DEF TasksInv, SearchInv
<1>1. /\ p \in Proc /\ p.op = "write" /\ ClockOf(p) /\ KindOf(p)
      /\ p.doc \in Document /\ p.doc.manifest = p.manifest
    BY <1>0 DEF WriteDocument, TasksInv, ClockInv, Records, Ready
<1>2. PICK w \in VideoIds : w = p.vid
    BY <1>0, <1>1 DEF Records, Ready
<1>3. c \in [Actors -> Records] /\ c[b] = p
    BY <1>0, <1>1, ConflictingRecords
<1>4. docs' = [docs EXCEPT ![w] = p.doc] /\ UNCHANGED <<dbVars, clock, touched>>
    BY <1>2 DEF WriteDocument
<1>5. p.doc.stamp <= clock
    BY <1>1 DEF ClockOf
<1>6. CASE ~IsTask(b)
    <2>1. proc' = [c EXCEPT ![b] = IdleProc]
        BY <1>6 DEF WriteDocument, Resume
    <2>2. ClockOf(IdleProc)
        <3>1. 0 <= clock
            BY <1>0, Instants
        <3>. QED
            BY <3>1 DEF ClockOf, IdleProc
    <2>. QED
        BY <1>2, <1>4, <1>5, <1>6, <2>1, <2>2, IdleTask, TaskWrites
<1>7. CASE IsTask(b)
    <2>1. proc' = [c EXCEPT ![b] = r]
        BY <1>3, <1>7 DEF WriteDocument, Resume
    <2>2. /\ r.op = "scan" /\ r.kind = p.kind /\ r.vid = NoVideo /\ r.since = p.since
          /\ r.todo = p.todo /\ r.read = p.read
        BY <1>1 DEF Proc
    <2>. HIDE DEF r
    <2>3. KindOf(r) /\ ClockOf(r)
        BY <1>1, <1>7, <2>2 DEF KindOf, ClockOf, IsTask
    <2>4. proc'[b] = r
        BY <1>3, <2>1
    <2>5. ASSUME NEW v \in VideoIds, v \notin touched[b]
          PROVE  Along(proc[b], v)'
        <3>1. Along(p, v)
            BY <1>7, <2>5 DEF TasksInv, Followed
        <3>2. Indexing(p, v) <=> v = w
            BY <1>1, <1>2 DEF Indexing
        <3>3. ~Indexing(proc[b], v)'
            BY <2>2, <2>4 DEF Indexing
        <3>4. Shown(v)' = Shown(v) /\ (Called(v)' <=> Called(v))
            BY <1>4, ShownKept DEF Called, dbVars
        <3>5. CASE v = w
            <4>1. Called(v) /\ (v \in p.todo => p.read[v] = Shown(v)) /\ p.manifest = Shown(v)
                  /\ p.doc.comments = comments[v] /\ p.doc.stamp >= p.since
                BY <1>1, <1>2, <3>1, <3>2, <3>5 DEF Along, ScanOps
            <4>2. docs'[v] = p.doc
                BY <1>0, <1>4, <3>5 DEF TypeOK
            <4>3. Renewed(proc[b], v)'
                BY <1>1, <1>4, <2>2, <2>4, <3>4, <4>1, <4>2 DEF Renewed, dbVars
            <4>. QED
                BY <2>2, <2>4, <3>3, <3>4, <4>1, <4>3 DEF Along, ScanOps
        <3>6. CASE v # w
            <4>1. VideoKept(v)
                BY <1>0, <1>4, <3>6 DEF VideoKept, dbVars, TypeOK
            <4>2. /\ Left(proc[b], v)' <=> Left(p, v)
                  /\ Renewed(proc[b], v)' <=> Renewed(p, v)
                BY <2>2, <2>4, <4>1, OwnKept
            <4>. QED
                BY <1>1, <2>2, <2>4, <3>1, <3>2, <3>3, <3>4, <3>6, <4>2 DEF Along, ScanOps
        <3>. QED
            BY <3>5, <3>6
    <2>6. r.kind # "handler"
        BY <1>7, <2>2 DEF IsTask
    <2>. QED
        BY <1>2, <1>4, <1>5, <1>7, <2>1, <2>2, <2>3, <2>5, <2>6, TaskWrites
<1>. QED
    BY <1>6, <1>7

LEMMA TaskRemoveDocument ==
    ASSUME TasksInv, SearchInv', NEW b \in Actors, RemoveDocument(b)
    PROVE  TasksInv'
<1>0. TypeOK /\ proc \in [Actors -> Records]
    BY DEF TasksInv, SearchInv
<1>1. proc[b].op = "remove" /\ KindOf(proc[b])
    BY DEF RemoveDocument, TasksInv
<1>2. PICK w \in VideoIds : w = proc[b].vid
    BY <1>0, <1>1 DEF Records, Ready
<1>3. ~IsTask(b)
    BY <1>1 DEF KindOf, IsTask
<1>4. NoDoc.stamp <= clock /\ ClockOf(IdleProc)
    <2>1. 0 <= clock
        BY <1>0, Instants
    <2>. QED
        BY <2>1 DEF ClockOf, IdleProc, NoDoc
<1>5. /\ docs' = [docs EXCEPT ![w] = NoDoc] /\ proc' = [Conflicting({w}) EXCEPT ![b] = IdleProc]
      /\ UNCHANGED <<dbVars, clock, touched>>
    BY <1>2 DEF RemoveDocument
<1>. QED
    BY <1>2, <1>3, <1>4, <1>5, IdleTask, TaskWrites

\* A prune takes a document that nobody wrote since the reindex began.
LEMMA TaskPruneDocument ==
    ASSUME TasksInv, PruneInv, SearchInv', NEW b \in Actors, NEW w \in VideoIds,
           PruneDocument(b, w)
    PROVE  TasksInv'
<1> DEFINE p == proc[b]
           c == Conflicting({w})
           q == [c[b] EXCEPT !.todo = @ \ {w}]
<1>0. TypeOK /\ proc \in [Actors -> Records]
    BY DEF TasksInv, SearchInv
<1>1. p \in Proc /\ p.op = "prune" /\ w \in p.todo /\ ClockOf(p) /\ KindOf(p)
    BY <1>0 DEF PruneDocument, TasksInv, ClockInv, Records
<1>2. c \in [Actors -> Records] /\ c[b] = [p EXCEPT !.todo = @ \ {w}]
    BY <1>0, <1>1, ConflictingRecords DEF Conflicting
<1>3. /\ docs' = [docs EXCEPT ![w] = NoDoc] /\ UNCHANGED <<dbVars, clock, touched>>
      /\ proc' = [c EXCEPT ![b] = q]
    BY DEF PruneDocument
<1>4. /\ q.op = "prune" /\ q.kind = p.kind /\ q.vid = p.vid /\ q.since = p.since
      /\ \A v : v # w => (v \in q.todo <=> v \in p.todo)
    BY <1>1, <1>2 DEF Proc
<1>. HIDE DEF q, c
<1>5. proc'[b] = q
    BY <1>2, <1>3
<1>6. KindOf(q) /\ ClockOf(q) /\ IsTask(b)
    BY <1>1, <1>4 DEF KindOf, ClockOf, IsTask
<1>7. docs[w].stamp < p.since /\ docs[w].stamp \in Int /\ p.since \in Int
    <2>1. docs[w] \in Document \cup {NoDoc}
        BY <1>0 DEF TypeOK
    <2>. QED
        BY <1>0, <1>1, <2>1, Instants DEF PruneInv
<1>8. ASSUME NEW v \in VideoIds, v \notin touched[b]
      PROVE  Along(proc[b], v)'
    <2>1. Along(p, v)
        BY <1>6, <1>8 DEF TasksInv, Followed
    <2>2. IF Called(v) THEN Renewed(p, v) ELSE Left(p, v)
        BY <1>1, <2>1 DEF Along, ScanOps
    <2>3. ~Indexing(proc[b], v)'
        BY <1>4, <1>5 DEF Indexing
    <2>4. Called(v)' <=> Called(v)
        BY <1>3, ShownKept DEF Called, dbVars
    <2>5. CASE v = w
        <3>1. ~Called(v)
            BY <1>7, <2>2, <2>5 DEF Renewed
        <3>2. docs'[v] = NoDoc
            BY <1>0, <1>3, <2>5 DEF TypeOK
        <3>. QED
            BY <1>4, <1>5, <2>3, <2>4, <3>1, <3>2 DEF Along, ScanOps, Left
    <2>6. CASE v # w
        <3>1. VideoKept(v)
            BY <1>0, <1>3, <2>6 DEF VideoKept, dbVars, TypeOK
        <3>2. /\ Left(proc[b], v)' <=> Left(p, v)
              /\ Renewed(proc[b], v)' <=> Renewed(p, v)
            BY <1>4, <1>5, <3>1, OwnKept
        <3>. QED
            BY <1>1, <1>4, <1>5, <2>1, <2>2, <2>3, <2>4, <2>6, <3>1, <3>2 DEF Along, ScanOps, VideoKept
    <2>. QED
        BY <2>5, <2>6
<1>9. NoDoc.stamp <= clock
    BY <1>0, Instants DEF NoDoc
<1>10. proc' = [Conflicting({w}) EXCEPT ![b] = q]
    BY <1>3 DEF c
<1>. QED
    BY <1>3, <1>4, <1>6, <1>8, <1>9, <1>10, TaskWrites DEF IsTask

-----------------------------------------------------------------------------
(* Tasks begin.                                                             *)

\* The task has no video that another operation in progress has to do with, and tasks in
\* progress have none from here on.
LEMMA TaskBegins ==
    ASSUME TasksInv, SearchInv', NEW b \in Actors, TouchedAtStart(b), NEW S, OthersKept(b, S),
           KindOf(proc'[b]), ClockOf(proc[b])', proc'[b].kind # "handler",
           proc'[b].op \in {"create:index", "cursor"},
           \A v \in VideoIds : Left(proc[b], v)' /\ docs'[v].stamp <= clock',
           clock <= clock'
    PROVE  TasksInv'
<1>0. proc \in [Actors -> Records] /\ TypeOK
    BY DEF TasksInv, SearchInv
<1>1. \A a \in Actors \ {b} : proc'[a].kind = proc[a].kind
    BY <1>0, OtherFields
<1>2. \A a \in Actors \ {b} : IsTask(a) => touched'[a] = VideoIds
    BY DEF TouchedAtStart
<1>3. \A a \in Actors \ {b}, v \in VideoIds : ~Followed(a, v)'
    BY <1>1, <1>2 DEF Followed, IsTask
<1>4. ASSUME NEW v \in VideoIds, Followed(b, v)'
      PROVE  Along(proc[b], v)' /\ \A c \in Actors \ {b} : ~IsTask(c) /\ proc[c].vid # v
    <2>1. touched'[b] = IF \E c \in Actors \ {b} : IsTask(c) THEN VideoIds
                        ELSE {proc[c].vid : c \in Actors} \cap VideoIds
        BY DEF TouchedAtStart
    <2>2. \A c \in Actors \ {b} : ~IsTask(c) /\ proc[c].vid # v
        BY <1>4, <2>1 DEF Followed
    <2>3. Along(proc[b], v)'
        BY DEF Along, ScanOps, Indexing
    <2>. QED
        BY <2>2, <2>3
<1>5. \A a \in Actors \ {b} : IsTask(a) => touched[a] \subseteq touched'[a]
    BY <1>0, <1>2 DEF TypeOK
<1>. QED
    BY <1>3, <1>4, <1>5, TasksBy

LEMMA TaskBeginReindex ==
    ASSUME TasksInv, SearchInv', NEW b \in Actors, BeginReindex(b)
    PROVE  TasksInv'
<1> DEFINE q == [IdleProc EXCEPT !.op = "cursor", !.kind = "reindex", !.since = clock + 1]
<1>0. proc \in [Actors -> Records] /\ TypeOK
    BY DEF TasksInv, SearchInv
<1>1. /\ proc' = [proc EXCEPT ![b] = q] /\ clock' = clock + 1 /\ UNCHANGED docs
      /\ TouchedAtStart(b)
    BY DEF BeginReindex, Become
<1>2. q.op = "cursor" /\ q.kind = "reindex" /\ q.since = clock + 1
    BY DEF IdleProc
<1>. HIDE DEF q
<1>3. proc'[b] = q /\ OthersKept(b, {})
    BY <1>0, <1>1 DEF OthersKept
<1>4. clock \in Int
    BY <1>0, Instants
<1>5. ASSUME NEW v \in VideoIds
      PROVE  docs'[v].stamp < clock' /\ docs'[v].stamp <= clock'
    <2>1. docs[v].stamp <= clock
        BY DEF TasksInv, ClockInv
    <2>2. docs[v].stamp \in Int
        BY <1>0, Instants DEF TypeOK
    <2>. QED
        BY <1>1, <1>4, <2>1, <2>2
<1>6. \A v \in VideoIds : Left(proc[b], v)'
    BY <1>1, <1>2, <1>3, <1>5 DEF Left
<1>7. KindOf(proc'[b]) /\ ClockOf(proc[b])' /\ clock <= clock'
    BY <1>1, <1>2, <1>3, <1>4 DEF KindOf, ClockOf
<1>. QED
    BY <1>1, <1>2, <1>3, <1>5, <1>6, <1>7, TaskBegins

LEMMA TaskBeginRebuild ==
    ASSUME TasksInv, SearchInv', NEW b \in Actors, BeginRebuild(b)
    PROVE  TasksInv'
<1> DEFINE c == Conflicting(VideoIds)
           q == [IdleProc EXCEPT !.op = "create:index", !.kind = "rebuild"]
<1>0. proc \in [Actors -> Records] /\ TypeOK /\ c \in [Actors -> Records]
    BY ConflictingRecords DEF TasksInv, SearchInv
<1>1. /\ proc' = [c EXCEPT ![b] = q] /\ clock' = clock /\ docs' = [v \in VideoIds |-> NoDoc]
      /\ TouchedAtStart(b)
    BY DEF BeginRebuild
<1>2. q.op = "create:index" /\ q.kind = "rebuild" /\ q.since = 0
    BY DEF IdleProc
<1>. HIDE DEF q
<1>3. proc'[b] = q /\ OthersKept(b, VideoIds)
    BY <1>0, <1>1 DEF OthersKept
<1>4. 0 <= clock /\ clock <= clock
    BY <1>0, Instants
<1>5. \A v \in VideoIds : Left(proc[b], v)' /\ docs'[v].stamp <= clock'
    BY <1>1, <1>4 DEF Left, NoDoc
<1>6. KindOf(proc'[b]) /\ ClockOf(proc[b])' /\ clock <= clock'
    BY <1>1, <1>2, <1>3, <1>4 DEF KindOf, ClockOf
<1>. QED
    BY <1>1, <1>2, <1>3, <1>5, <1>6, TaskBegins

-----------------------------------------------------------------------------

LEMMA TasksInit == Init => TasksInv
<1>. SUFFICES ASSUME Init PROVE TasksInv
    OBVIOUS
<1>1. SearchInv
    BY SearchInitial
<1>2. \A a \in Actors : proc[a] = IdleProc
    BY DEF Init
<1>3. 0 <= clock
    BY <1>1, Instants DEF SearchInv
<1>4. ClockInv
    BY <1>2, <1>3 DEF ClockInv, ClockOf, IdleProc, Init, NoDoc
<1>5. \A a \in Actors : KindOf(proc[a]) /\ ~IsTask(a)
    BY <1>2, IdleTask DEF IsTask
<1>. QED
    BY <1>1, <1>4, <1>5 DEF TasksInv, Exclusive, Followed

LEMMA TasksStutter ==
    ASSUME TasksInv, UNCHANGED vars
    PROVE  TasksInv'
<1>1. /\ state' = state /\ valid' = valid /\ comments' = comments /\ index' = index
      /\ docs' = docs /\ clock' = clock /\ proc' = proc /\ touched' = touched
      /\ unannounced' = unannounced
    BY DEF vars, dbVars, esVars
<1>2. SearchInv' /\ ClockInv' /\ (\A a \in Actors : KindOf(proc[a]))'
    <2>1. TypeOK'
        BY <1>1 DEF TasksInv, SearchInv, TypeOK
    <2>2. SearchInv'
        BY <1>1, <2>1 DEF TasksInv, SearchInv
    <2>. QED
        BY <1>1, <2>2 DEF TasksInv, ClockInv, ClockOf
<1>3. \A a \in Actors : IsTask(a)' <=> IsTask(a)
    BY <1>1 DEF IsTask
<1>4. \A a \in Actors, v \in VideoIds : Followed(a, v)' <=> Followed(a, v)
    BY <1>1, <1>3 DEF Followed
<1>5. Exclusive'
    BY <1>1, <1>3, <1>4 DEF TasksInv, Exclusive
<1>6. \A v \in VideoIds : VideoKept(v)
    BY <1>1 DEF VideoKept
<1>7. \A a \in Actors, v \in VideoIds : Followed(a, v)' => Along(proc[a], v)'
    BY <1>1, <1>4, <1>6, AlongKept DEF TasksInv
<1>. QED
    BY <1>2, <1>5, <1>7 DEF TasksInv

LEMMA TasksStep ==
    ASSUME TasksInv, PruneInv, [Next]_vars
    PROVE  TasksInv'
<1>0. SearchInv'
    BY SearchStep DEF Kept, TasksInv
<1>1. CASE UNCHANGED vars
    BY <1>1, TasksStutter
<1>2. ASSUME NEW b \in Actors,
             LoadFails(b) \/ Lost(b) \/ Crash(b) \/ PruneDone(b) \/ PruneFails(b) \/ RebuildDone(b)
      PROVE  TasksInv'
    BY <1>0, <1>2, TaskEnds
       DEF LoadFails, Lost, Crash, PruneDone, PruneFails, RebuildDone, esVars
<1>3. ASSUME NEW b \in Actors, Change(b) \/ DeleteVideo(b) PROVE TasksInv'
    BY <1>0, <1>3, TaskChange
<1>4. ASSUME NEW b \in Actors, BeginReindex(b) \/ BeginRebuild(b) PROVE TasksInv'
    BY <1>0, <1>4, TaskBeginReindex, TaskBeginRebuild
<1>5. ASSUME NEW b \in Actors,
             \/ ReadVideo(b) \/ LoadMetadata(b) \/ BuildDocument(b) \/ WriteDocument(b)
             \/ RemoveDocument(b) \/ CreateIndex(b) \/ ReadBatch(b)
             \/ PruneRefresh(b) \/ PruneQuery(b)
      PROVE  TasksInv'
    BY <1>0, <1>5, TaskReadVideo, TaskLoadMetadata, TaskBuildDocument, TaskWriteDocument,
       TaskRemoveDocument, TaskCreateIndex, TaskReadBatch, TaskPruneRefresh, TaskPruneQuery
<1>6. ASSUME NEW b \in Actors, NEW v \in VideoIds, Scan(b, v) \/ PruneDocument(b, v)
      PROVE  TasksInv'
    BY <1>0, <1>6, TaskScan, TaskPruneDocument
<1>. QED
    BY <1>1, <1>2, <1>3, <1>4, <1>5, <1>6 DEF Next, Progress

LEMMA PruneInitial == Init => PruneInv
BY DEF Init, PruneInv, IdleProc

\* What the invariant says of a task that comes to its end.
LEMMA TaskCompletes ==
    ASSUME TasksInv, NEW a \in Actors, Completes(a), NEW v \in VideoIds \ touched[a]
    PROVE  Synced(v)'
<1>1. /\ proc[a].todo = {} /\ UNCHANGED <<dbVars, docs>>
      /\ \/ proc[a].op = "prune"
         \/ proc[a].op = "scan" /\ proc[a].kind = "rebuild"
    BY DEF Completes, PruneDone, RebuildDone, esVars
<1>2. KindOf(proc[a]) /\ IsTask(a)
    BY <1>1 DEF TasksInv, KindOf, IsTask
<1>3. Along(proc[a], v) /\ ~Indexing(proc[a], v)
    BY <1>1, <1>2 DEF TasksInv, Followed, Indexing
<1>4. Called(v)' <=> Called(v)
    BY <1>1, ShownKept DEF Called, dbVars
<1>5. CASE Called(v)
    <2>1. Renewed(proc[a], v)
        BY <1>1, <1>3, <1>5 DEF Along, ScanOps
    <2>2. docs'[v].manifest = Shown(v)' /\ docs'[v].comments = comments'[v]
        BY <1>1, <2>1, ShownKept DEF Renewed, dbVars
    <2>. QED
        BY <1>4, <1>5, <2>2 DEF Synced, Called
<1>6. CASE ~Called(v)
    <2>1. docs[v] = NoDoc
        BY <1>1, <1>3, <1>6 DEF Along, ScanOps, Left
    <2>. QED
        BY <1>1, <1>4, <1>6, <2>1 DEF Synced, Called
<1>. QED
    BY <1>5, <1>6

\* When a reindex or a rebuild completes, every video that nobody touched while it ran has
\* the document it calls for, whatever crashes, lost writes and lost removals had done to
\* the index before: for any number of actors, tasks and videos.
THEOREM TasksReconcile == Spec => TaskReconciles
<1>1. TasksInv /\ PruneInv /\ [Next]_vars => TasksInv' /\ PruneInv'
    BY TasksStep, PruneStep DEF TasksInv
<1>2. TasksInv => \A a \in Actors : Completes(a) => \A v \in VideoIds \ touched[a] : Synced(v)'
    BY TaskCompletes
<1>3. TasksInv =>
         [\A a \in Actors : Completes(a) => \A v \in VideoIds \ touched[a] : Synced(v)']_vars
    BY <1>2
<1>. QED
    BY <1>1, <1>3, TasksInit, PruneInitial, PTL DEF Spec, TaskReconciles

-----------------------------------------------------------------------------
(* The mapping of the index.                                                *)

\* A step that leaves the index alone, and is neither the beginning of a rebuild nor the
\* creation of its index.
LEMMA MappingKept ==
    ASSUME MappingInv, index' = index,
           \A a \in Actors : proc'[a].kind = "rebuild" /\ touched'[a] = {} =>
              /\ proc[a].kind = "rebuild" /\ touched[a] = {}
              /\ proc'[a].op = "create:index" <=> proc[a].op = "create:index"
    PROVE  MappingInv'
BY DEF MappingInv

LEMMA MappingLocal ==
    ASSUME TasksInv, MappingInv, UNCHANGED <<index, touched>>, NEW b \in Actors, NEW q,
           proc' = [proc EXCEPT ![b] = q],
           q.kind \in {proc[b].kind, "handler"},
           (q.op # "create:index" /\ proc[b].op # "create:index") \/ q.kind = "handler"
    PROVE  MappingInv'
<1>1. proc \in [Actors -> Records]
    BY DEF TasksInv, SearchInv
<1>2. proc'[b] = q /\ \A a \in Actors \ {b} : proc'[a] = proc[a]
    BY <1>1
<1>. QED
    BY <1>2, MappingKept

LEMMA MappingDocuments ==
    ASSUME TasksInv, MappingInv, UNCHANGED <<index, touched>>, NEW b \in Actors, NEW q, NEW w,
           proc' = [Conflicting({w}) EXCEPT ![b] = q],
           q.kind \in {proc[b].kind, "handler"},
           (q.op # "create:index" /\ proc[b].op # "create:index") \/ q.kind = "handler"
    PROVE  MappingInv'
<1>1. proc \in [Actors -> Records] /\ Conflicting({w}) \in [Actors -> Records]
    BY ConflictingRecords DEF TasksInv, SearchInv
<1>2. proc'[b] = q /\ \A a \in Actors \ {b} : proc'[a] = Conflicting({w})[a]
    BY <1>1
<1>3. OthersKept(b, {w})
    BY <1>2 DEF OthersKept
<1>4. \A a \in Actors \ {b} : proc'[a].kind = proc[a].kind /\ proc'[a].op = proc[a].op
    BY <1>1, <1>3, OtherFields
<1>. QED
    BY <1>2, <1>4, MappingKept

\* Changes of the database are seen by every task.
LEMMA MappingChange ==
    ASSUME TasksInv, MappingInv, NEW b \in Actors, Change(b) \/ DeleteVideo(b)
    PROVE  MappingInv'
<1>1. proc \in [Actors -> Records]
    BY DEF TasksInv, SearchInv
<1>2. index' = index
    BY DEF Change, Validated, Rejected, Commented, Moderated, DeleteManifests, DeleteVideo, esVars
<1>3. \E w : Touch(w)
    BY DEF Change, Validated, Rejected, Commented, Moderated, DeleteManifests, DeleteVideo
<1>4. \/ proc' = proc
      \/ \E w, op : Handle(b, w, op)
    BY DEF Change, Validated, Rejected, Commented, Moderated, DeleteManifests, DeleteVideo
<1>5. \A a \in Actors : proc'[a].kind = "rebuild" => proc[a].kind = "rebuild"
    <2>1. CASE proc' = proc
        BY <2>1
    <2>2. ASSUME NEW w, NEW op, Handle(b, w, op)
          PROVE  \A a \in Actors : proc'[a].kind = "rebuild" => proc[a].kind = "rebuild"
        <3>1. [IdleProc EXCEPT !.op = op, !.vid = w].kind = "handler"
            BY DEF IdleProc
        <3>. QED
            BY <1>1, <2>2, <3>1 DEF Handle, Become
    <2>. QED
        BY <1>4, <2>1, <2>2
<1>6. \A a \in Actors : proc[a].kind = "rebuild" => touched'[a] # {}
    BY <1>3 DEF Touch, IsTask
<1>. QED
    BY <1>2, <1>5, <1>6, MappingKept

LEMMA MappingTask ==
    ASSUME VideoIds # {}, TasksInv, MappingInv, NEW b \in Actors,
           BeginReindex(b) \/ BeginRebuild(b) \/ CreateIndex(b) \/ WriteDocument(b)
    PROVE  MappingInv'
<1>0. proc \in [Actors -> Records]
    BY DEF TasksInv, SearchInv
<1>1. ASSUME TouchedAtStart(b), NEW S, OthersKept(b, S), NEW a \in Actors \ {b},
             proc'[a].kind = "rebuild", touched'[a] = {}
      PROVE  FALSE
    <2>1. proc[a].kind = "rebuild"
        BY <1>0, <1>1, OtherFields
    <2>2. touched'[a] = VideoIds
        BY <1>1, <2>1 DEF TouchedAtStart, IsTask
    <2>. QED
        BY <1>1, <2>2
<1>2. CASE BeginReindex(b)
    <2> DEFINE q == [IdleProc EXCEPT !.op = "cursor", !.kind = "reindex", !.since = clock + 1]
    <2>1. proc' = [proc EXCEPT ![b] = q] /\ TouchedAtStart(b) /\ q.kind = "reindex"
        BY <1>2 DEF BeginReindex, Become, IdleProc
    <2>. HIDE DEF q
    <2>2. proc'[b] = q /\ OthersKept(b, {})
        BY <1>0, <2>1 DEF OthersKept
    <2>. QED
        BY <1>1, <2>1, <2>2 DEF MappingInv
<1>3. CASE BeginRebuild(b)
    <2> DEFINE q == [IdleProc EXCEPT !.op = "create:index", !.kind = "rebuild"]
    <2>1. /\ proc' = [Conflicting(VideoIds) EXCEPT ![b] = q] /\ TouchedAtStart(b)
          /\ q.op = "create:index" /\ index' = "absent"
        BY <1>3 DEF BeginRebuild, IdleProc
    <2>. HIDE DEF q
    <2>2. Conflicting(VideoIds) \in [Actors -> Records]
        BY <1>0, ConflictingRecords
    <2>3. proc'[b] = q /\ OthersKept(b, VideoIds)
        BY <2>1, <2>2 DEF OthersKept
    <2>. QED
        BY <1>1, <2>1, <2>3 DEF MappingInv
<1>4. ASSUME UNCHANGED touched, NEW S, OthersKept(b, S), NEW a \in Actors \ {b},
             proc'[a].kind = "rebuild", touched'[a] = {}
      PROVE  ~IsTask(b) /\ proc[b].vid \notin VideoIds
    <2>1. proc[a].kind = "rebuild"
        BY <1>0, <1>4, OtherFields
    <2>2. \A v \in VideoIds : Followed(a, v)
        BY <1>4, <2>1 DEF Followed, IsTask
    <2>. QED
        BY <2>2 DEF TasksInv, Exclusive
<1>5. CASE CreateIndex(b)
    <2> DEFINE q == [proc[b] EXCEPT !.op = "cursor"]
    <2>1. /\ proc' = [proc EXCEPT ![b] = q] /\ UNCHANGED touched /\ q.op = "cursor"
          /\ q.kind = proc[b].kind /\ proc[b].op = "create:index" /\ KindOf(proc[b])
          /\ index' = IF index = "absent" THEN "mapped" ELSE index
        BY <1>0, <1>5 DEF CreateIndex, Become, Records, Proc, TasksInv
    <2>. HIDE DEF q
    <2>2. proc'[b] = q /\ OthersKept(b, {}) /\ IsTask(b)
        BY <1>0, <2>1 DEF OthersKept, KindOf, IsTask
    <2>. QED
        BY <1>4, <2>1, <2>2 DEF MappingInv
<1>6. CASE WriteDocument(b)
    <2> DEFINE c == Conflicting({proc[b].vid})
               r == [c[b] EXCEPT !.op = "scan", !.vid = NoVideo,
                                 !.manifest = NoManifest, !.doc = NoDoc]
               q == IF IsTask(b) THEN r ELSE IdleProc
    <2>1. c \in [Actors -> Records] /\ c[b] = proc[b]
        BY <1>0, <1>6, ConflictingRecords DEF WriteDocument
    <2>2. /\ proc' = [c EXCEPT ![b] = q] /\ UNCHANGED touched /\ proc[b].op = "write"
          /\ index' = IF index = "absent" THEN "dynamic" ELSE index
        BY <1>6 DEF WriteDocument, Resume
    <2>3. r.op = "scan" /\ r.kind = proc[b].kind
        BY <2>1 DEF Records, Proc
    <2>4. q.kind \in {proc[b].kind, "handler"} /\ (q.kind # "handler" => q.op = "scan")
        BY <2>3 DEF IdleProc
    <2>5. proc'[b].kind \in {proc[b].kind, "handler"}
          /\ (proc'[b].kind # "handler" => proc'[b].op = "scan")
        BY <2>1, <2>2, <2>4
    <2>6. OthersKept(b, {proc[b].vid})
        BY <2>1, <2>2 DEF OthersKept
    <2>7. proc[b].vid \in VideoIds
        BY <1>0, <2>2 DEF Records, Ready
    <2>8. ASSUME NEW a \in Actors, proc'[a].kind = "rebuild", touched'[a] = {}
          PROVE  a = b
        BY <1>4, <2>2, <2>6, <2>7, <2>8
    <2>. QED
        BY <2>2, <2>5, <2>8 DEF MappingInv
<1>. QED
    BY <1>2, <1>3, <1>5, <1>6

\* An actor goes on with its operation.
GoesOn(b) ==
    \E q : /\ proc' = [proc EXCEPT ![b] = q]
           /\ q.kind = proc[b].kind /\ q.op # "create:index" /\ proc[b].op # "create:index"

LEMMA TaskReads ==
    ASSUME TasksInv, NEW b \in Actors,
           \/ LoadMetadata(b) \/ BuildDocument(b) \/ ReadBatch(b)
           \/ (\E v \in VideoIds : Scan(b, v)) \/ PruneRefresh(b) \/ PruneQuery(b)
    PROVE  GoesOn(b)
<1> DEFINE p == proc[b]
<1>0. p \in Proc
    BY DEF TasksInv, SearchInv, TypeOK
<1>2. CASE LoadMetadata(b)
    <2>1. [p EXCEPT !.op = "build"].kind = p.kind /\ [p EXCEPT !.op = "build"].op = "build"
        BY <1>0 DEF Proc
    <2>. QED
        BY <1>2, <2>1 DEF LoadMetadata, Become, GoesOn
<1>3. CASE BuildDocument(b)
    <2> DEFINE d == [manifest |-> p.manifest, comments |-> comments[p.vid], stamp |-> clock]
               q == [p EXCEPT !.op = "write", !.doc = d]
    <2>1. proc' = [proc EXCEPT ![b] = q] /\ p.op = "build"
        BY <1>3 DEF BuildDocument, Become
    <2>. HIDE DEF d
    <2>2. q.kind = p.kind /\ q.op = "write"
        BY <1>0 DEF Proc
    <2>. QED
        BY <2>1, <2>2 DEF GoesOn
<1>4. CASE ReadBatch(b)
    <2> DEFINE read == [v \in VideoIds |-> Shown(v)]
               todo == {v \in VideoIds : state[v] # "deleted" /\ Shown(v) # NoManifest}
               q == [p EXCEPT !.op = "scan", !.read = read, !.todo = todo]
    <2>1. proc' = [proc EXCEPT ![b] = q] /\ p.op = "cursor"
        BY <1>4 DEF ReadBatch, Become
    <2>. HIDE DEF read, todo
    <2>2. q.kind = p.kind /\ q.op = "scan"
        BY <1>0 DEF Proc
    <2>. QED
        BY <2>1, <2>2 DEF GoesOn
<1>5. ASSUME NEW v \in VideoIds, Scan(b, v)
      PROVE  GoesOn(b)
    <2> DEFINE q == [p EXCEPT !.op = "load", !.vid = v, !.manifest = p.read[v],
                              !.todo = @ \ {v}]
    <2>1. proc' = [proc EXCEPT ![b] = q] /\ p.op = "scan"
        BY <1>5 DEF Scan, Become
    <2>2. q.kind = p.kind /\ q.op = "load"
        BY <1>0 DEF Proc
    <2>. QED
        BY <2>1, <2>2 DEF GoesOn
<1>6. CASE PruneRefresh(b)
    <2> DEFINE todo == {v \in VideoIds : docs[v] # NoDoc}
               q == [p EXCEPT !.op = "query", !.todo = todo]
    <2>1. proc' = [proc EXCEPT ![b] = q] /\ p.op = "scan"
        BY <1>6 DEF PruneRefresh, Become
    <2>. HIDE DEF todo
    <2>2. q.kind = p.kind /\ q.op = "query"
        BY <1>0 DEF Proc
    <2>. QED
        BY <2>1, <2>2 DEF GoesOn
<1>7. CASE PruneQuery(b)
    <2>1. PICK S : proc' = [proc EXCEPT ![b] = [p EXCEPT !.op = "prune",
                                !.todo = {v \in p.todo \cup S : Pruned(v, p.since)}]]
        BY <1>7 DEF PruneQuery, Become
    <2> DEFINE todo == {v \in p.todo \cup S : Pruned(v, p.since)}
               q == [p EXCEPT !.op = "prune", !.todo = todo]
    <2>2. proc' = [proc EXCEPT ![b] = q] /\ p.op = "query"
        BY <1>7, <2>1 DEF PruneQuery
    <2>. HIDE DEF todo
    <2>3. q.kind = p.kind /\ q.op = "prune"
        BY <1>0 DEF Proc
    <2>. QED
        BY <2>2, <2>3 DEF GoesOn
<1>. QED
    BY <1>2, <1>3, <1>4, <1>5, <1>6, <1>7

LEMMA MappingReads ==
    ASSUME TasksInv, MappingInv, NEW b \in Actors,
           \/ ReadVideo(b) \/ LoadMetadata(b) \/ BuildDocument(b) \/ ReadBatch(b)
           \/ (\E v \in VideoIds : Scan(b, v)) \/ PruneRefresh(b) \/ PruneQuery(b)
    PROVE  MappingInv'
<1>0. UNCHANGED <<index, touched>>
    BY DEF ReadVideo, LoadMetadata, BuildDocument, ReadBatch, Scan, PruneRefresh, PruneQuery, esVars
<1>1. CASE ReadVideo(b) /\ Finish(b)
    BY <1>0, <1>1, IdleTask, MappingLocal DEF Finish, Become
<1>2. CASE ReadVideo(b) /\ ~Finish(b)
    <2> DEFINE q == [proc[b] EXCEPT !.op = "load", !.manifest = Shown(proc[b].vid)]
    <2>1. proc' = [proc EXCEPT ![b] = q] /\ proc[b].op = "read" /\ proc[b] \in Proc
        BY <1>2 DEF ReadVideo, Become, TasksInv, SearchInv, TypeOK
    <2>2. q.kind = proc[b].kind /\ q.op = "load"
        BY <2>1 DEF Proc
    <2>. HIDE DEF q
    <2>. QED
        BY <1>0, <2>1, <2>2, MappingLocal
<1>3. CASE ~ReadVideo(b)
    <2>1. GoesOn(b)
        BY <1>3, TaskReads
    <2>. QED
        BY <1>0, <2>1, MappingLocal DEF GoesOn
<1>. QED
    BY <1>1, <1>2, <1>3

LEMMA MappingStep ==
    ASSUME VideoIds # {}, TasksInv, MappingInv, [Next]_vars
    PROVE  MappingInv'
<1>1. CASE UNCHANGED vars
    BY <1>1 DEF vars, esVars, MappingInv
<1>2. ASSUME NEW b \in Actors,
             LoadFails(b) \/ Lost(b) \/ Crash(b) \/ PruneDone(b) \/ PruneFails(b) \/ RebuildDone(b)
      PROVE  MappingInv'
    BY <1>2, MappingLocal, IdleTask
       DEF LoadFails, Lost, Crash, PruneDone, PruneFails, RebuildDone, Finish, Become, esVars
<1>3. ASSUME NEW b \in Actors, Change(b) \/ DeleteVideo(b) PROVE MappingInv'
    BY <1>3, MappingChange
<1>4. ASSUME NEW b \in Actors,
             BeginReindex(b) \/ BeginRebuild(b) \/ CreateIndex(b) \/ WriteDocument(b)
      PROVE  MappingInv'
    BY <1>4, MappingTask
<1>5. ASSUME NEW b \in Actors,
             \/ ReadVideo(b) \/ LoadMetadata(b) \/ BuildDocument(b) \/ ReadBatch(b)
             \/ (\E v \in VideoIds : Scan(b, v)) \/ PruneRefresh(b) \/ PruneQuery(b)
      PROVE  MappingInv'
    BY <1>5, MappingReads
<1>6. ASSUME NEW b \in Actors, RemoveDocument(b) PROVE MappingInv'
    <2>1. /\ proc' = [Conflicting({proc[b].vid}) EXCEPT ![b] = IdleProc]
          /\ UNCHANGED <<index, touched>> /\ IdleProc.kind = "handler"
        BY <1>6, IdleTask DEF RemoveDocument
    <2>. QED
        BY <2>1, MappingDocuments
<1>7. ASSUME NEW b \in Actors, NEW v \in VideoIds, PruneDocument(b, v) PROVE MappingInv'
    <2> DEFINE c == Conflicting({v})
               q == [c[b] EXCEPT !.todo = @ \ {v}]
    <2>1. proc[b].op = "prune" /\ c[b] = [proc[b] EXCEPT !.todo = @ \ {v}] /\ proc[b] \in Proc
        BY <1>7 DEF PruneDocument, Conflicting, TasksInv, SearchInv, TypeOK
    <2>2. q.op = "prune" /\ q.kind = proc[b].kind
        BY <2>1 DEF Proc
    <2>3. proc' = [c EXCEPT ![b] = q] /\ UNCHANGED <<index, touched>>
        BY <1>7 DEF PruneDocument
    <2>. HIDE DEF q
    <2>. QED
        BY <2>1, <2>2, <2>3, MappingDocuments
<1>. QED
    BY <1>1, <1>2, <1>3, <1>4, <1>5, <1>6, <1>7 DEF Next, Progress

\* A rebuild that no request and no other task races leaves an index with the mapping that
\* CreateIndexesAsync gives it, for any number of actors and videos.  Without a video there
\* is no telling that another task ran.
THEOREM RebuildsRestoreMapping ==
    ASSUME VideoIds # {} PROVE Spec => RebuildRestoresMapping
<1>1. Init => MappingInv
    BY IdleTask DEF Init, MappingInv
<1>2. TasksInv /\ PruneInv /\ MappingInv /\ [Next]_vars =>
         TasksInv' /\ PruneInv' /\ MappingInv'
    BY TasksStep, PruneStep, MappingStep DEF TasksInv
<1>3. MappingInv /\ [Next]_vars =>
         [\A a \in Actors : RebuildDone(a) /\ touched[a] = {} => index' = "mapped"]_vars
    BY DEF MappingInv, RebuildDone, esVars
<1>. QED
    BY <1>1, <1>2, <1>3, TasksInit, PruneInitial, PTL DEF Spec, RebuildRestoresMapping

-----------------------------------------------------------------------------
(* One operation at a time.                                                 *)

\* There is one actor.
Serial == Actors # {} /\ \A a, b \in Actors : a = b

\* A video whose last change raised an event has the document it calls for.
InStep(v) == v \in unannounced \/ Synced(v)

\* What is still to do for the video of a handler.
Handling(p) ==
    /\ p.op = "idle" => p.vid = NoVideo
    /\ p.op = "read" => InStep(p.vid) \/ Called(p.vid)
    /\ p.op \in {"load", "build", "write"} => Called(p.vid) /\ p.manifest = Shown(p.vid)
    /\ p.op = "write" => p.doc.comments = comments[p.vid]
    /\ p.op = "remove" => ~Called(p.vid)
    /\ p.op = "delete:video" => p.vid \in unannounced

\* A task has all videos for itself, and a handler has one of which the index is behind.
AtWork(a) ==
    IF IsTask(a)
    THEN touched[a] = {} /\ (proc[a].kind = "reindex" => index # "absent")
    ELSE Handling(proc[a]) /\ \A v \in VideoIds : v # proc[a].vid => InStep(v)

SyncInv == \A a \in Actors : AtWork(a)

\* Every nonempty set of numbers up to N has a greatest.
LEMMA GreatestOf ==
    ASSUME NEW N \in Nat, NEW S \in SUBSET (1 .. N), S # {}
    PROVE  \E m \in S : \A k \in S : k <= m
<1> DEFINE T == {N - k : k \in S}
<1>1. T \subseteq Nat /\ T # {}
    <2>1. \A k \in S : N - k \in Nat
        OBVIOUS
    <2>. QED
        BY <2>1
<1>2. \E x \in T : \A y \in T : ~(y < x)
    <2> HIDE DEF T
    <2>1. PICK x \in T : \A y \in T : ~(<<y, x>> \in OpToRel(<, Nat))
        BY <1>1, NatLessThanWellFounded, WFMin
    <2>2. ASSUME NEW y \in T, y < x
          PROVE  <<y, x>> \in OpToRel(<, Nat)
        BY <1>1, <2>2 DEF OpToRel
    <2>. QED
        BY <2>1, <2>2
<1>3. PICK x \in T : \A y \in T : ~(y < x)
    BY <1>2
<1>4. PICK m \in S : x = N - m
    OBVIOUS
<1>5. ASSUME NEW k \in S
      PROVE  k <= m
    <2>1. N - k \in T /\ ~(N - k < N - m)
        BY <1>3, <1>4
    <2>2. k \in Int /\ m \in Int
        OBVIOUS
    <2> HIDE DEF T
    <2>. QED
        BY <2>1, <2>2
<1>. QED
    BY <1>5

\* A video shows one of its valid manifests, if it has any.
LEMMA ShownIs ==
    ASSUME NEW v \in VideoIds, valid[v] \subseteq ManifestIds
    PROVE  /\ valid[v] # {} => Shown(v) \in valid[v] /\ Shown(v) # NoManifest
           /\ valid[v] = {} => Shown(v) = NoManifest
<1>1. valid[v] # {} => \E m \in valid[v] : \A k \in valid[v] : k <= m
    BY GreatestOf, SearchAssumption DEF ManifestIds
<1>2. valid[v] # {} => Shown(v) \in valid[v]
    BY <1>1 DEF Shown
<1>3. \A m \in valid[v] : m # NoManifest
    BY Numbers
<1>. QED
    BY <1>2, <1>3 DEF Shown

\* The invariant after a step of the only actor.
LEMMA SyncBy ==
    ASSUME Serial, NEW a \in Actors, AtWork(a)' PROVE SyncInv'
BY DEF Serial, SyncInv

LEMMA SyncHandler ==
    ASSUME NEW a \in Actors, proc'[a].kind = "handler", Handling(proc[a])',
           \A v \in VideoIds : v # proc'[a].vid => InStep(v)'
    PROVE  AtWork(a)'
BY DEF AtWork, IsTask

LEMMA InStepKept ==
    ASSUME NEW v \in VideoIds, InStep(v), VideoKept(v),
           v \in unannounced => v \in unannounced'
    PROVE  InStep(v)'
<1>1. Shown(v)' = Shown(v)
    BY ShownKept DEF VideoKept
<1>. QED
    BY <1>1 DEF InStep, Synced, VideoKept

\* The actor ends, and no video is left behind.
LEMMA SyncEnds ==
    ASSUME Serial, TasksInv, NEW a \in Actors, proc'[a] = IdleProc,
           \A v \in VideoIds : InStep(v)'
    PROVE  SyncInv'
<1>1. Handling(proc[a])' /\ proc'[a].kind = "handler"
    BY DEF Handling, IdleProc
<1>. QED
    BY <1>1, SyncHandler, SyncBy

\* A handler begins on a change of video w; the index is behind on no other.
LEMMA SyncBegins ==
    ASSUME Serial, TasksInv, NEW b \in Actors, NEW w \in VideoIds,
           NEW op \in {"read", "remove", "delete:video"}, Handle(b, w, op),
           \A v \in VideoIds \ {w} : VideoKept(v) /\ InStep(v),
           \A v \in VideoIds \ {w} : v \in unannounced => v \in unannounced',
           op = "read" => InStep(w)' \/ Called(w)',
           op = "remove" => ~Called(w)',
           op = "delete:video" => w \in unannounced'
    PROVE  SyncInv'
<1> DEFINE q == [IdleProc EXCEPT !.op = op, !.vid = w]
<1>1. proc' = [proc EXCEPT ![b] = q] /\ proc \in [Actors -> Records]
    BY DEF Handle, Become, TasksInv, SearchInv
<1>2. q.op = op /\ q.vid = w /\ q.kind = "handler"
    BY DEF IdleProc
<1>. HIDE DEF q
<1>3. proc'[b].op = op /\ proc'[b].vid = w /\ proc'[b].kind = "handler"
    BY <1>1, <1>2
<1>4. Handling(proc[b])'
    <2>1. (InStep(proc[b].vid) \/ Called(proc[b].vid))' <=> InStep(w)' \/ Called(w)'
        BY <1>3 DEF InStep, Called, Synced, Shown
    <2>2. Called(proc[b].vid)' <=> Called(w)'
        BY <1>3 DEF Called, Shown
    <2>. QED
        BY <1>3, <2>1, <2>2 DEF Handling
<1>5. \A v \in VideoIds : v # w => InStep(v)'
    BY InStepKept
<1>. QED
    BY <1>3, <1>4, <1>5, SyncHandler, SyncBy

LEMMA SyncChange ==
    ASSUME Serial, TasksInv, SyncInv, SearchInv', NEW b \in Actors, Change(b) \/ DeleteVideo(b)
    PROVE  SyncInv'
<1>0. /\ TypeOK /\ TypeOK' /\ proc \in [Actors -> Records] /\ AtWork(b) /\ KindOf(proc[b])
      /\ \A v \in VideoIds : state[v] # "stored" => valid[v] = {}
      /\ \A v \in VideoIds : valid[v] \subseteq ManifestIds /\ valid'[v] \subseteq ManifestIds
    BY DEF TasksInv, SearchInv, SyncInv, TypeOK
<1>1. ASSUME Idle(b)
      PROVE  proc[b].vid = NoVideo /\ ~IsTask(b) /\ \A v \in VideoIds : InStep(v)
    <2>1. proc[b].op = "idle" /\ ~IsTask(b)
        BY <1>0, <1>1 DEF Idle, KindOf, IsTask
    <2>2. proc[b].vid = NoVideo
        BY <1>0, <2>1 DEF AtWork, Handling
    <2>. QED
        BY <1>0, <2>1, <2>2, SearchAssumption DEF AtWork
<1>2. ASSUME NEW w \in VideoIds, NEW m \in ManifestIds, Validated(b, w, m) PROVE SyncInv'
    <2>1. /\ \A v \in VideoIds \ {w} : VideoKept(v)
          /\ state'[w] = "stored" /\ m \in valid'[w]
          /\ unannounced' = unannounced \ {w} /\ Handle(b, w, "read")
        BY <1>0, <1>2 DEF Validated, VideoKept, TypeOK, esVars
    <2>2. Called(w)'
        <3>1. valid'[w] \in SUBSET ManifestIds /\ valid'[w] # {}
            BY <1>0, <2>1
        <3>2. \E n \in valid'[w] : \A k \in valid'[w] : k <= n
            BY <3>1, GreatestOf, SearchAssumption DEF ManifestIds
        <3>3. Shown(w)' \in valid'[w]
            BY <3>2 DEF Shown
        <3>4. Shown(w)' # NoManifest
            BY <3>1, <3>3, Numbers
        <3>. QED
            BY <2>1, <3>4 DEF Called
    <2>. QED
        BY <1>1, <1>2, <2>1, <2>2, SyncBegins DEF Validated
<1>3. ASSUME NEW w \in VideoIds, NEW m \in ManifestIds, Rejected(b, w, m) PROVE SyncInv'
    <2>1. /\ \A v \in VideoIds \ {w} : VideoKept(v)
          /\ unannounced' = unannounced \cup {w} /\ proc' = proc /\ Idle(b)
        BY <1>0, <1>3 DEF Rejected, VideoKept, TypeOK, esVars
    <2>2. \A v \in VideoIds : InStep(v)'
        BY <1>1, <2>1, InStepKept DEF InStep
    <2>3. proc'[b].kind = "handler" /\ proc'[b].op = "idle" /\ proc'[b].vid = NoVideo
        BY <1>1, <2>1 DEF IsTask, Idle
    <2>4. Handling(proc[b])'
        BY <2>3 DEF Handling
    <2>. QED
        BY <2>2, <2>3, <2>4, SyncHandler, SyncBy
<1>4. ASSUME NEW w \in VideoIds, Commented(b, w) PROVE SyncInv'
    <2>1. /\ \A v \in VideoIds \ {w} : VideoKept(v)
          /\ \A v \in VideoIds \ {w} : v \in unannounced => v \in unannounced'
          /\ state[w] # "deleted" /\ state' = state /\ valid' = valid /\ docs' = docs
          /\ unannounced' = IF Shown(w) = NoManifest THEN unannounced ELSE unannounced \ {w}
        BY <1>0, <1>4 DEF Commented, VideoKept, TypeOK, esVars
    <2>2. Shown(w)' = Shown(w)
        BY <2>1, ShownKept
    <2>3. CASE Shown(w) = NoManifest
        <3>1. InStep(w)'
            BY <1>1, <1>4, <2>1, <2>2, <2>3 DEF InStep, Synced, Commented
        <3>. QED
            BY <1>1, <1>4, <2>1, <3>1, SyncBegins DEF Commented
    <2>4. CASE Shown(w) # NoManifest
        <3>1. Called(w)'
            BY <2>1, <2>2, <2>4 DEF Called
        <3>. QED
            BY <1>1, <1>4, <2>1, <3>1, SyncBegins DEF Commented
    <2>. QED
        BY <2>3, <2>4
<1>5. ASSUME NEW w \in VideoIds, Moderated(b, w) PROVE SyncInv'
    <2>1. /\ \A v \in VideoIds \ {w} : VideoKept(v)
          /\ unannounced' = unannounced \ {w} /\ valid'[w] = {}
        BY <1>0, <1>5 DEF Moderated, VideoKept, TypeOK, esVars
    <2>2. ~Called(w)'
        <3>1. Shown(w)' = NoManifest
            BY <2>1 DEF Shown
        <3>. QED
            BY <3>1 DEF Called
    <2>. QED
        BY <1>1, <1>5, <2>1, <2>2, SyncBegins DEF Moderated
<1>6. ASSUME NEW w \in VideoIds, DeleteManifests(b, w) PROVE SyncInv'
    <2>1. /\ \A v \in VideoIds \ {w} : VideoKept(v)
          /\ unannounced' = unannounced \cup {w}
        BY <1>0, <1>6 DEF DeleteManifests, VideoKept, TypeOK, esVars
    <2>. QED
        BY <1>1, <1>6, <2>1, SyncBegins DEF DeleteManifests
<1>7. CASE DeleteVideo(b)
    <2>1. PICK w \in VideoIds : w = proc[b].vid
        BY <1>0, <1>7 DEF DeleteVideo, Records, Ready
    <2>2. /\ \A v \in VideoIds \ {w} : VideoKept(v)
          /\ unannounced' = unannounced \ {w} /\ state'[w] = "deleted"
          /\ proc[b].op = "delete:video" /\ Handle(b, w, "remove")
        BY <1>0, <1>7, <2>1 DEF DeleteVideo, VideoKept, TypeOK, esVars
    <2>3. ~IsTask(b)
        BY <1>0, <2>2 DEF KindOf, IsTask
    <2>4. \A v \in VideoIds \ {w} : InStep(v)
        BY <1>0, <2>1, <2>3 DEF AtWork
    <2>5. ~Called(w)'
        BY <2>2 DEF Called
    <2>. QED
        BY <2>2, <2>4, <2>5, SyncBegins
<1>. QED
    BY <1>2, <1>3, <1>4, <1>5, <1>6, <1>7 DEF Change

\* A handler reads its video, and goes on with it or ends.
LEMMA SyncReadVideo ==
    ASSUME Serial, TasksInv, SyncInv, NEW b \in Actors, ReadVideo(b)
    PROVE  SyncInv'
<1> DEFINE p == proc[b]
           q == [p EXCEPT !.op = "load", !.manifest = Shown(p.vid)]
<1>0. /\ p \in Proc /\ p.op = "read" /\ KindOf(p) /\ AtWork(b) /\ proc \in [Actors -> Records]
      /\ UNCHANGED <<dbVars, docs, unannounced>>
    BY DEF ReadVideo, TasksInv, SearchInv, TypeOK, SyncInv, esVars
<1>1. PICK w \in VideoIds : w = p.vid
    BY <1>0 DEF Records, Ready
<1>2. p.kind = "handler" /\ Handling(p) /\ \A v \in VideoIds : v # w => InStep(v)
    BY <1>0, <1>1 DEF KindOf, AtWork, IsTask
<1>3. \A v \in VideoIds : VideoKept(v) /\ (InStep(v) => InStep(v)')
    BY <1>0, NothingWritten, InStepKept
<1>4. CASE ~Called(w)
    <2>1. InStep(w)
        BY <1>0, <1>1, <1>2, <1>4 DEF Handling
    <2>2. Finish(b)
        BY <1>1, <1>4 DEF ReadVideo, Called
    <2>3. proc'[b] = IdleProc
        BY <1>0, <2>2 DEF Finish, Become
    <2>. QED
        BY <1>2, <1>3, <2>1, <2>3, SyncEnds
<1>5. CASE Called(w)
    <2>1. proc' = [proc EXCEPT ![b] = q]
        BY <1>1, <1>5 DEF ReadVideo, Called, Become
    <2>2. q.op = "load" /\ q.kind = "handler" /\ q.vid = w /\ q.manifest = Shown(w)
        BY <1>0, <1>1, <1>2 DEF Proc
    <2>. HIDE DEF q
    <2>3. proc'[b].op = "load" /\ proc'[b].kind = "handler" /\ proc'[b].vid = w
          /\ proc'[b].manifest = Shown(w)
        BY <1>0, <2>1, <2>2
    <2>4. Shown(w)' = Shown(w) /\ Called(w)'
        BY <1>3, <1>5, ShownKept DEF Called, VideoKept
    <2>5. Called(proc[b].vid)' /\ proc'[b].manifest = Shown(proc[b].vid)'
        BY <2>3, <2>4 DEF Called, Shown
    <2>6. Handling(proc[b])'
        BY <2>3, <2>5 DEF Handling
    <2>. QED
        BY <1>2, <1>3, <2>3, <2>6, SyncHandler, SyncBy
<1>. QED
    BY <1>4, <1>5

\* A handler loads the metadata and the comments, and builds the document.
LEMMA SyncBuilds ==
    ASSUME Serial, TasksInv, SyncInv, NEW b \in Actors, ~IsTask(b),
           LoadMetadata(b) \/ BuildDocument(b)
    PROVE  SyncInv'
<1> DEFINE p == proc[b]
           d == [manifest |-> p.manifest, comments |-> comments[p.vid], stamp |-> clock]
<1>0. /\ p \in Proc /\ p.op \in {"load", "build"} /\ AtWork(b) /\ proc \in [Actors -> Records]
      /\ UNCHANGED <<dbVars, docs, unannounced>>
    BY DEF LoadMetadata, BuildDocument, TasksInv, SearchInv, TypeOK, SyncInv, esVars
<1>1. PICK w \in VideoIds : w = p.vid
    BY <1>0 DEF Records, Ready
<1>2. p.kind = "handler" /\ Handling(p) /\ \A v \in VideoIds : v # w => InStep(v)
    BY <1>0, <1>1 DEF AtWork, IsTask
<1>3. Called(w) /\ p.manifest = Shown(w)
    BY <1>0, <1>1, <1>2 DEF Handling
<1>4. \A v \in VideoIds : VideoKept(v) /\ (InStep(v) => InStep(v)')
    BY <1>0, NothingWritten, InStepKept
<1>5. /\ proc'[b].op \in {"build", "write"} /\ proc'[b].kind = "handler" /\ proc'[b].vid = w
      /\ proc'[b].manifest = Shown(w)
      /\ proc'[b].op = "write" => proc'[b].doc.comments = comments[w]
    <2>1. CASE LoadMetadata(b)
        <3>1. proc'[b] = [p EXCEPT !.op = "build"]
            BY <1>0, <2>1 DEF LoadMetadata, Become
        <3>. QED
            BY <1>0, <1>1, <1>2, <1>3, <3>1 DEF Proc
    <2>2. CASE BuildDocument(b)
        <3>1. proc'[b] = [p EXCEPT !.op = "write", !.doc = d]
            BY <1>0, <2>2 DEF BuildDocument, Become
        <3>2. d.comments = comments[w]
            BY <1>1
        <3>. HIDE DEF d
        <3>. QED
            BY <1>0, <1>1, <1>2, <1>3, <3>1, <3>2 DEF Proc
    <2>. QED
        BY <2>1, <2>2
<1>6. Shown(w)' = Shown(w) /\ Called(w)' /\ comments'[w] = comments[w]
    BY <1>3, <1>4, ShownKept DEF Called, VideoKept
<1>7. Called(proc[b].vid)' /\ proc'[b].manifest = Shown(proc[b].vid)'
    BY <1>5, <1>6 DEF Called, Shown
<1>8. Handling(proc[b])'
    BY <1>5, <1>6, <1>7 DEF Handling
<1>. QED
    BY <1>2, <1>4, <1>5, <1>8, SyncHandler, SyncBy

LEMMA SyncHandlerWrites ==
    ASSUME Serial, TasksInv, SyncInv, NEW b \in Actors, ~IsTask(b),
           WriteDocument(b) \/ RemoveDocument(b)
    PROVE  SyncInv'
<1> DEFINE p == proc[b]
<1>0. /\ TypeOK /\ AtWork(b) /\ proc \in [Actors -> Records] /\ p.op \in {"write", "remove"}
      /\ UNCHANGED <<dbVars, unannounced>>
    BY DEF WriteDocument, RemoveDocument, TasksInv, SearchInv, SyncInv
<1>1. PICK w \in VideoIds : w = p.vid
    BY <1>0 DEF Records, Ready
<1>2. Handling(p) /\ \A v \in VideoIds : v # w => InStep(v)
    BY <1>0, <1>1 DEF AtWork
<1>3. proc'[b] = IdleProc /\ \A v \in VideoIds : v # w => docs'[v] = docs[v]
    <2>1. Conflicting({p.vid}) \in [Actors -> Records]
        BY <1>0, ConflictingRecords
    <2>. QED
        BY <1>0, <1>1, <2>1 DEF WriteDocument, RemoveDocument, Resume, TypeOK
<1>4. \A v \in VideoIds : v # w => InStep(v)'
    BY <1>0, <1>2, <1>3, InStepKept DEF VideoKept, dbVars
<1>5. Shown(w)' = Shown(w) /\ (Called(w)' <=> Called(w))
    BY <1>0, ShownKept DEF Called, dbVars
<1>6. InStep(w)'
    <2>1. CASE WriteDocument(b)
        <3>1. docs'[w] = p.doc /\ p.op = "write"
            BY <1>0, <1>1, <2>1 DEF WriteDocument, TypeOK
        <3>2. Called(w) /\ p.doc.manifest = Shown(w) /\ p.doc.comments = comments[w]
            BY <1>0, <1>1, <1>2, <3>1 DEF Handling, Records, Ready
        <3>. QED
            BY <1>0, <1>5, <3>1, <3>2 DEF InStep, Synced, Called, dbVars
    <2>2. CASE RemoveDocument(b)
        <3>1. docs'[w] = NoDoc /\ p.op = "remove"
            BY <1>0, <1>1, <2>2 DEF RemoveDocument, TypeOK
        <3>2. ~Called(w)
            BY <1>1, <1>2, <3>1 DEF Handling
        <3>. QED
            BY <1>5, <3>1, <3>2 DEF InStep, Synced, Called
    <2>. QED
        BY <2>1, <2>2
<1>. QED
    BY <1>3, <1>4, <1>6, SyncEnds

\* A task that goes on has every video still to itself.
LEMMA SyncTask ==
    ASSUME Serial, SyncInv, NEW b \in Actors, IsTask(b), proc'[b].kind = proc[b].kind,
           touched' = touched, index' = index \/ index' # "absent"
    PROVE  SyncInv'
<1>1. AtWork(b)'
    BY DEF SyncInv, AtWork, IsTask
<1>. QED
    BY <1>1, SyncBy

LEMMA SyncTaskBegins ==
    ASSUME Serial, TasksInv, SyncInv, NEW b \in Actors, BeginReindex(b) \/ BeginRebuild(b)
    PROVE  SyncInv'
<1>0. proc \in [Actors -> Records] /\ proc[b].op = "idle" /\ KindOf(proc[b]) /\ AtWork(b)
    BY DEF BeginReindex, BeginRebuild, Idle, TasksInv, SearchInv, SyncInv
<1>1. proc[b].vid = NoVideo
    BY <1>0 DEF KindOf, AtWork, IsTask, Handling
<1>2. touched'[b] = {}
    <2>1. Actors = {b}
        BY DEF Serial
    <2>2. touched'[b] = {proc[c].vid : c \in Actors} \cap VideoIds
        BY <2>1 DEF BeginReindex, BeginRebuild, TouchedAtStart
    <2>3. \A c \in Actors : proc[c].vid \notin VideoIds
        BY <1>1, <2>1, SearchAssumption
    <2>. QED
        BY <2>2, <2>3
<1>3. CASE BeginReindex(b)
    <2> DEFINE q == [IdleProc EXCEPT !.op = "cursor", !.kind = "reindex", !.since = clock + 1]
    <2>1. proc' = [proc EXCEPT ![b] = q] /\ index' # "absent" /\ q.kind = "reindex"
        BY <1>3 DEF BeginReindex, Become, IdleProc
    <2>. HIDE DEF q
    <2>2. AtWork(b)'
        BY <1>0, <1>2, <2>1 DEF AtWork, IsTask
    <2>. QED
        BY <2>2, SyncBy
<1>4. CASE BeginRebuild(b)
    <2> DEFINE q == [IdleProc EXCEPT !.op = "create:index", !.kind = "rebuild"]
    <2>1. /\ proc' = [Conflicting(VideoIds) EXCEPT ![b] = q] /\ q.kind = "rebuild"
          /\ Conflicting(VideoIds) \in [Actors -> Records]
        BY <1>0, <1>4, ConflictingRecords DEF BeginRebuild, IdleProc
    <2>. HIDE DEF q
    <2>2. AtWork(b)'
        BY <1>2, <2>1 DEF AtWork, IsTask
    <2>. QED
        BY <2>2, SyncBy
<1>. QED
    BY <1>3, <1>4

LEMMA SyncTaskGoesOn ==
    ASSUME Serial, TasksInv, SyncInv, NEW b \in Actors,
           \/ IsTask(b) /\ (LoadMetadata(b) \/ BuildDocument(b) \/ WriteDocument(b))
           \/ CreateIndex(b) \/ ReadBatch(b) \/ (\E v \in VideoIds : Scan(b, v))
           \/ PruneRefresh(b) \/ PruneQuery(b) \/ \E v \in VideoIds : PruneDocument(b, v)
    PROVE  SyncInv'
<1>0. proc[b] \in Proc /\ KindOf(proc[b]) /\ proc \in [Actors -> Records]
    BY DEF TasksInv, SearchInv, TypeOK
<1>1. IsTask(b) /\ touched' = touched
    BY <1>0 DEF KindOf, IsTask, LoadMetadata, BuildDocument, WriteDocument, CreateIndex, ReadBatch,
                Scan, PruneRefresh, PruneQuery, PruneDocument
<1>2. CASE \/ LoadMetadata(b) \/ BuildDocument(b) \/ ReadBatch(b)
           \/ (\E v \in VideoIds : Scan(b, v)) \/ PruneRefresh(b) \/ PruneQuery(b)
    <2>1. index' = index
        BY <1>2 DEF LoadMetadata, BuildDocument, ReadBatch, Scan, PruneRefresh, PruneQuery, esVars
    <2>2. proc'[b].kind = proc[b].kind
        BY <1>0, <1>2, TaskReads DEF GoesOn
    <2>. QED
        BY <1>1, <2>1, <2>2, SyncTask
<1>3. CASE CreateIndex(b)
    <2>1. proc'[b] = [proc[b] EXCEPT !.op = "cursor"] /\ index' # "absent"
        BY <1>0, <1>3 DEF CreateIndex, Become
    <2>2. proc'[b].kind = proc[b].kind
        BY <1>0, <2>1 DEF Proc
    <2>. QED
        BY <1>1, <2>1, <2>2, SyncTask
<1>4. CASE WriteDocument(b)
    <2> DEFINE c == Conflicting({proc[b].vid})
    <2>1. c \in [Actors -> Records] /\ c[b] = proc[b]
        BY <1>0, <1>4, ConflictingRecords DEF WriteDocument
    <2>2. /\ proc'[b] = [proc[b] EXCEPT !.op = "scan", !.vid = NoVideo,
                                        !.manifest = NoManifest, !.doc = NoDoc]
          /\ index' # "absent"
        BY <1>1, <1>4, <2>1 DEF WriteDocument, Resume
    <2>3. proc'[b].kind = proc[b].kind
        BY <1>0, <2>2 DEF Proc
    <2>. QED
        BY <1>1, <2>2, <2>3, SyncTask
<1>5. ASSUME NEW v \in VideoIds, PruneDocument(b, v) PROVE SyncInv'
    <2> DEFINE c == Conflicting({v})
    <2>1. /\ c \in [Actors -> Records] /\ c[b] = [proc[b] EXCEPT !.todo = @ \ {v}]
          /\ proc' = [c EXCEPT ![b] = [c[b] EXCEPT !.todo = @ \ {v}]] /\ index' = index
        BY <1>0, <1>5, ConflictingRecords DEF PruneDocument, Conflicting
    <2>2. c[b].kind = proc[b].kind /\ c[b] \in Proc
        BY <1>0, <2>1 DEF Proc, Records
    <2>. HIDE DEF c
    <2>3. proc'[b].kind = proc[b].kind
        BY <2>1, <2>2 DEF Proc
    <2>. QED
        BY <1>1, <2>1, <2>3, SyncTask
<1>. QED
    BY <1>2, <1>3, <1>4, <1>5

\* Alone, neither the metadata of a manifest nor the index goes away, and a task leaves
\* every video with the document it calls for.
LEMMA SyncOperationEnds ==
    ASSUME Serial, TasksInv, SyncInv, NEW b \in Actors,
           LoadFails(b) \/ PruneDone(b) \/ PruneFails(b) \/ RebuildDone(b)
    PROVE  SyncInv'
<1>0. /\ TypeOK /\ KindOf(proc[b]) /\ AtWork(b) /\ proc \in [Actors -> Records]
      /\ \A v \in VideoIds : valid[v] \subseteq ManifestIds
    BY DEF TasksInv, SearchInv, SyncInv, TypeOK
<1>1. ~LoadFails(b)
    <2>. SUFFICES ASSUME LoadFails(b) PROVE FALSE
        OBVIOUS
    <2>1. proc[b].op = "load" /\ proc[b].manifest \notin valid[proc[b].vid]
        BY DEF LoadFails
    <2>2. PICK w \in VideoIds : w = proc[b].vid
        BY <1>0, <2>1 DEF Records, Ready
    <2>3. Called(w) /\ proc[b].manifest = Shown(w)
        <3>1. CASE IsTask(b)
            <4>1. Along(proc[b], w) /\ Indexing(proc[b], w)
                BY <1>0, <2>1, <2>2, <3>1 DEF TasksInv, Followed, AtWork, Indexing
            <4>. QED
                BY <2>1, <4>1 DEF Along, ScanOps
        <3>2. CASE ~IsTask(b)
            BY <1>0, <2>1, <2>2, <3>2 DEF AtWork, Handling
        <3>. QED
            BY <3>1, <3>2
    <2>4. Shown(w) \in valid[w]
        BY <1>0, <2>3, ShownIs DEF Called
    <2>. QED
        BY <2>1, <2>2, <2>3, <2>4
<1>2. ~PruneFails(b)
    BY <1>0 DEF PruneFails, KindOf, AtWork, IsTask
<1>3. CASE Completes(b)
    <2>1. IsTask(b) /\ Finish(b)
        BY <1>0, <1>3 DEF Completes, PruneDone, RebuildDone, KindOf, IsTask
    <2>2. \A v \in VideoIds : v \notin touched[b]
        BY <1>0, <2>1 DEF AtWork
    <2>3. \A v \in VideoIds : InStep(v)'
        BY <1>3, <2>2, TaskCompletes DEF InStep
    <2>4. proc'[b] = IdleProc
        BY <1>0, <2>1 DEF Finish, Become
    <2>. QED
        BY <2>3, <2>4, SyncEnds
<1>. QED
    BY <1>1, <1>2, <1>3 DEF Completes

LEMMA SyncInit == Init => SyncInv
<1>. SUFFICES ASSUME Init PROVE SyncInv
    OBVIOUS
<1>1. \A a \in Actors : proc[a] = IdleProc
    BY DEF Init
<1>2. \A v \in VideoIds : Synced(v)
    BY DEF Init, Synced, Shown
<1>3. IdleProc.op = "idle"
    BY DEF IdleProc
<1>4. \A a \in Actors : proc[a].op = "idle" /\ proc[a].vid = NoVideo /\ ~IsTask(a)
    BY <1>1, <1>3, IdleTask DEF IsTask
<1>5. \A a \in Actors : Handling(proc[a])
    BY <1>4 DEF Handling
<1>. QED
    BY <1>2, <1>4, <1>5 DEF SyncInv, AtWork, InStep

LEMMA SyncStutter ==
    ASSUME SyncInv, UNCHANGED vars PROVE SyncInv'
<1>1. /\ state' = state /\ valid' = valid /\ comments' = comments /\ index' = index
      /\ docs' = docs /\ proc' = proc /\ touched' = touched /\ unannounced' = unannounced
    BY DEF vars, dbVars, esVars
<1>2. ASSUME NEW v PROVE Shown(v)' = Shown(v)
    BY <1>1 DEF Shown
<1>3. ASSUME NEW a \in Actors PROVE Handling(proc[a])' <=> Handling(proc[a])
    BY <1>1, <1>2 DEF Handling, Called, InStep, Synced
<1>4. ASSUME NEW v \in VideoIds PROVE InStep(v)' <=> InStep(v)
    BY <1>1, <1>2 DEF InStep, Synced
<1>. QED
    BY <1>1, <1>3, <1>4 DEF SyncInv, AtWork, IsTask

LEMMA SyncStep ==
    ASSUME Serial, Faults = {}, TasksInv, SyncInv, [Next]_vars
    PROVE  SyncInv'
<1>1. CASE UNCHANGED vars
    BY <1>1, SyncStutter
<1>2. ASSUME NEW b \in Actors, Lost(b) \/ Crash(b) PROVE SyncInv'
    BY <1>2 DEF Lost, Crash
<1>3. ASSUME NEW b \in Actors, Change(b) \/ DeleteVideo(b) PROVE SyncInv'
    BY <1>3, SyncChange, SearchStep DEF TasksInv, Kept
<1>4. ASSUME NEW b \in Actors, BeginReindex(b) \/ BeginRebuild(b) PROVE SyncInv'
    BY <1>4, SyncTaskBegins
<1>5. ASSUME NEW b \in Actors, ReadVideo(b) PROVE SyncInv'
    BY <1>5, SyncReadVideo
<1>6. ASSUME NEW b \in Actors, LoadMetadata(b) \/ BuildDocument(b) PROVE SyncInv'
    BY <1>6, SyncBuilds, SyncTaskGoesOn
<1>7. ASSUME NEW b \in Actors, WriteDocument(b) PROVE SyncInv'
    BY <1>7, SyncHandlerWrites, SyncTaskGoesOn
<1>8. ASSUME NEW b \in Actors, RemoveDocument(b) PROVE SyncInv'
    <2>1. ~IsTask(b)
        BY <1>8 DEF RemoveDocument, TasksInv, KindOf, IsTask
    <2>. QED
        BY <1>8, <2>1, SyncHandlerWrites
<1>9. ASSUME NEW b \in Actors,
             \/ CreateIndex(b) \/ ReadBatch(b) \/ (\E v \in VideoIds : Scan(b, v))
             \/ PruneRefresh(b) \/ PruneQuery(b) \/ \E v \in VideoIds : PruneDocument(b, v)
      PROVE  SyncInv'
    BY <1>9, SyncTaskGoesOn
<1>10. ASSUME NEW b \in Actors, LoadFails(b) \/ PruneDone(b) \/ PruneFails(b) \/ RebuildDone(b)
       PROVE  SyncInv'
    BY <1>10, SyncOperationEnds
<1>. QED
    BY <1>1, <1>2, <1>3, <1>4, <1>5, <1>6, <1>7, <1>8, <1>9, <1>10 DEF Next, Progress

\* While one operation runs at a time, nothing dies and no call is lost, every video whose
\* last change raised an event has the document it calls for whenever nothing is in
\* progress: after any order of validations, comments, moderations, deletions and tasks,
\* with any number of videos and manifests.
THEOREM SerialAnnouncedInSync ==
    ASSUME Serial, Faults = {} PROVE Spec => []AnnouncedInSync
<1>1. TasksInv /\ PruneInv /\ SyncInv /\ [Next]_vars => TasksInv' /\ PruneInv' /\ SyncInv'
    BY TasksStep, PruneStep, SyncStep DEF TasksInv
<1>2. ASSUME TasksInv, SyncInv PROVE AnnouncedInSync
    <2>. SUFFICES ASSUME AtRest, NEW v \in VideoIds \ unannounced PROVE Synced(v)
        BY DEF AnnouncedInSync
    <2>1. PICK a \in Actors : TRUE
        BY DEF Serial
    <2>2. proc[a].op = "idle" /\ KindOf(proc[a]) /\ AtWork(a)
        BY <1>2 DEF AtRest, Idle, TasksInv, SyncInv
    <2>3. proc[a].vid = NoVideo /\ ~IsTask(a)
        BY <2>2 DEF KindOf, IsTask, AtWork, Handling
    <2>4. InStep(v)
        BY <2>2, <2>3, SearchAssumption DEF AtWork
    <2>. QED
        BY <2>4 DEF InStep
<1>. QED
    BY <1>1, <1>2, TasksInit, PruneInitial, SyncInit, PTL DEF Spec
=============================================================================
