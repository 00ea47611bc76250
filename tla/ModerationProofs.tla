-------------------------- MODULE ModerationProofs --------------------------
(***************************************************************************)
(* Theorems about Moderation, for any number of requests, persons, videos, *)
(* manifests and reports: its type invariant, that a person reports a      *)
(* manifest once, what no save does to a report, and what a review has     *)
(* done when it is over.                                                   *)
(*                                                                         *)
(* The invariant says of which video each manifest is, what each request   *)
(* has found on the way to its step, and, of a request that no other one   *)
(* overtook, that what it has found is still so and what it has done is    *)
(* still done.                                                             *)
(***************************************************************************)
EXTENDS Moderation, TLAPS

\* A manifest is of a video by the video's list, by a report or by a request.
Claimed(m, v) ==
    \/ m \in videos[v].list
    \/ \E i \in ReportIds : reports[i] # NoReport /\ reports[i].mid = m /\ reports[i].vid = v
    \/ \E a \in Actors : proc[a].mid = m /\ proc[a].vid = v

\* They agree, and no manifest is known before it is published.
OneVideo ==
    \A m \in ManifestIds, v \in VideoIds :
       Claimed(m, v) => m <= published /\ \A w \in VideoIds : Claimed(m, w) => v = w

\* Report i is by this person of this manifest.
IsOf(i, p, m) == reports[i] # NoReport /\ reports[i].reporter = p /\ reports[i].mid = m

\* What a request has found: reports that there are on its video, or none of its own.
Founded(p) ==
    /\ p.op = "report:load" => p.mid # NoId /\ p.person # None
    /\ p.review # None => p.vid = p.review.vid
    /\ \A m \in p.content : m <= published
    /\ \A i \in ReportIds : p.seen[i] # NoReport =>
          /\ reports[i] # NoReport /\ reports[i].vid = p.vid
          /\ p.op = "archive:save" => p.seen[i].names = "video"
    /\ p.op = "report:create" =>
          \A i \in ReportIds : IsOf(i, p.person, p.mid) => <<p.person, p.mid>> \in raced

Emptied == [frozen |-> TRUE, list |-> {}]

\* Of what was reviewed, the manifests that still exist.
Left(p) == p.content \cap manifests

\* The reports a request has read are still as it read them.
Unsaved(p) ==
    /\ \A i \in ReportIds : p.seen[i] # NoReport =>
          /\ p.seen[i].archived = reports[i].archived
          /\ p.seen[i].text = reports[i].text
          /\ reports[i].names = "video" => p.seen[i].names = "video"
    /\ p.op = "archive:save" => \A i \in ReportsNaming(p.vid) : p.seen[i] # NoReport

\* The handlers of a review that have run have had their effect.
Archived(p) ==
    p.op \notin {"review:create", "archive:save"} /\ "archive" \notin p.events =>
       \A i \in ReportsNaming(p.vid) : reports[i].archived

Verified(p) ==
    /\ p.op = "review:create" => Left(p) \subseteq videos[p.vid].list
    /\ p.op \in {"review:events", "archive:save"} /\ "verify" \in p.events =>
          Left(p) \subseteq videos[p.vid].list
    /\ p.op = "moderate:save" =>
          p.vid \in stored /\ Left(p) \cup videos[p.vid].list \subseteq p.todo
    /\ p.op = "moderate:manifests" =>
          videos[p.vid] = Emptied /\ Left(p) \subseteq p.todo
    /\ p.op \in {"review:events", "archive:save"} /\ "verify" \notin p.events /\ ~p.review.isValid =>
          videos[p.vid] = Emptied /\ Left(p) = {}

\* What a request has found is still so, and what it has done is still done.
Current(p) ==
    /\ Unsaved(p)
    /\ p.review # None => Archived(p) /\ Verified(p)

ModerationInv ==
    /\ TypeOK
    /\ OneVideo
    /\ ReportedOnce
    /\ \A a \in Actors : Founded(proc[a]) /\ (a \notin overtaken => Current(proc[a]))

-----------------------------------------------------------------------------
(* The records of requests, and steps that change nothing else.            *)

LEMMA Bounds ==
    /\ MaxManifests \in Nat /\ MaxReports \in Nat /\ MaxManifests >= 1 /\ MaxReports >= 1
    /\ NoId \notin ManifestIds
<1>1. MaxManifests \in Nat /\ MaxReports \in Nat /\ MaxManifests >= 1 /\ MaxReports >= 1
    BY ModerationAssumption
<1>. QED
    BY <1>1 DEF NoId, ManifestIds

LEMMA NoneIsNot == None \notin Persons /\ None \notin VideoIds /\ None \notin Review
BY ModerationAssumption DEF Review

\* A report is not the absence of one.
LEMMA ReportIsThere ==
    ASSUME NEW r \in Report
    PROVE  r # NoReport /\ r.vid # None
<1>1. NoReport.vid = None /\ r.vid \in VideoIds
    BY DEF Report, NoReport
<1>. QED
    BY <1>1, NoneIsNot

LEMMA IdleRecord ==
    /\ IdleProc \in Proc /\ NothingFound \in Reports /\ WellFormed(IdleProc)
    /\ Founded(IdleProc) /\ Current(IdleProc) /\ IdleProc.mid = NoId
<1>1. NothingFound \in Reports /\ \A i \in ReportIds : NothingFound[i] = NoReport
    BY DEF NothingFound, Reports
<1>2. IdleProc \in Proc
    BY <1>1 DEF IdleProc, Proc, Ops
<1>3. IdleProc.op = "idle" /\ IdleProc.seen = NothingFound /\ IdleProc.review = None
      /\ IdleProc.content = {} /\ IdleProc.mid = NoId
    BY DEF IdleProc
<1>. QED
    BY <1>1, <1>2, <1>3 DEF WellFormed, Founded, Current, Unsaved

\* What a request keeps in a step.
Kept(b) == Founded(proc[b])' /\ (b \notin overtaken' => Current(proc[b])')

\* No more is said of the videos of manifests than before.
LEMMA FewerClaims ==
    ASSUME OneVideo, published' = published,
           \A v \in VideoIds : videos'[v].list \subseteq videos[v].list,
           \A i \in ReportIds : reports'[i] # NoReport =>
              \/ reports[i] # NoReport /\ reports'[i].mid = reports[i].mid
                                       /\ reports'[i].vid = reports[i].vid
              \/ Claimed(reports'[i].mid, reports'[i].vid),
           \A a \in Actors : proc'[a].mid \in ManifestIds =>
              \/ proc'[a].mid = proc[a].mid /\ proc'[a].vid = proc[a].vid
              \/ Claimed(proc'[a].mid, proc'[a].vid)
    PROVE  OneVideo'
<1>1. ASSUME NEW m \in ManifestIds, NEW v \in VideoIds, Claimed(m, v)'
      PROVE  Claimed(m, v)
    BY <1>1 DEF Claimed
<1>. QED
    BY <1>1 DEF OneVideo

\* A step after which only one request has changed, and has what it needs.
LEMMA OnlyRequest ==
    ASSUME ModerationInv, NEW a \in Actors, NEW q \in Proc, Become(a, q),
           UNCHANGED <<dbVars, raced>>, overtaken' \in {overtaken, overtaken \ {a}},
           q.mid \in ManifestIds =>
              (q.mid = proc[a].mid /\ q.vid = proc[a].vid) \/ Claimed(q.mid, q.vid),
           WellFormed(q), Founded(q), a \notin overtaken' => Current(q)
    PROVE  ModerationInv'
<1>1. \A b \in Actors : proc'[b] = IF b = a THEN q ELSE proc[b]
    BY DEF Become, ModerationInv, TypeOK
<1>2. TypeOK'
    <2>1. \A b \in Actors : WellFormed(proc'[b])
        BY <1>1 DEF ModerationInv, TypeOK
    <2>2. \A b \in Actors : WellFormed(proc[b])'
        BY <2>1 DEF WellFormed
    <2>3. proc' \in [Actors -> Proc]
        BY DEF Become, ModerationInv, TypeOK
    <2>. QED
        BY <2>2, <2>3 DEF ModerationInv, TypeOK, dbVars
<1>3. OneVideo'
    BY <1>1, FewerClaims DEF ModerationInv, dbVars
<1>4. ReportedOnce'
    BY DEF ModerationInv, ReportedOnce, dbVars
<1>5. ASSUME NEW b \in Actors
      PROVE  Kept(b)
    <2>1. Founded(proc'[b]) /\ (b \notin overtaken' => Current(proc'[b]))
        BY <1>1 DEF ModerationInv
    <2>. QED
        BY <2>1 DEF Kept, dbVars, Founded, Current, Unsaved, Archived, Verified, Left, IsOf,
           ReportsNaming
<1>. QED
    BY <1>2, <1>3, <1>4, <1>5 DEF ModerationInv, Kept

LEMMA RequestGoesOn ==
    ASSUME ModerationInv, NEW a \in Actors, NEW q \in Proc, Go(a, q), UNCHANGED dbVars,
           q.mid = proc[a].mid, q.vid = proc[a].vid,
           WellFormed(q), Founded(q), a \notin overtaken => Current(q)
    PROVE  ModerationInv'
BY OnlyRequest DEF Go

LEMMA RequestEnds ==
    ASSUME ModerationInv, NEW a \in Actors, End(a), UNCHANGED dbVars
    PROVE  ModerationInv'
BY OnlyRequest, IdleRecord, Bounds DEF End

-----------------------------------------------------------------------------
(* A report is made.                                                        *)

LEMMA ReportVideoStep ==
    ASSUME ModerationInv, NEW a \in Actors, NEW p \in Persons, NEW v \in VideoIds,
           NEW m \in ManifestIds, ReportVideo(a, p, v, m)
    PROVE  ModerationInv'
<1> DEFINE q == [IdleProc EXCEPT !.op = "report:load", !.vid = v, !.mid = m, !.person = p]
<1>1. q \in Proc
    BY IdleRecord DEF Proc, Ops
<1>2. q.op = "report:load" /\ q.vid = v /\ q.mid = m /\ q.person = p
      /\ q.review = None /\ q.content = {} /\ q.seen = NothingFound
    BY DEF IdleProc
<1>3. \A i \in ReportIds : NothingFound[i] = NoReport
    BY DEF NothingFound
<1>4. Claimed(m, v)
    BY DEF ReportVideo, Claimed
<1>5. Become(a, q) /\ UNCHANGED <<dbVars, overtaken, raced>>
    BY DEF ReportVideo, Go
<1> HIDE DEF q
<1>6. WellFormed(q) /\ Founded(q) /\ Current(q)
    BY <1>2, <1>3, NoneIsNot, Bounds DEF WellFormed, Founded, Current, Unsaved
<1>. QED
    BY <1>1, <1>2, <1>4, <1>5, <1>6, OnlyRequest

LEMMA LoadManifestsStep ==
    ASSUME ModerationInv, NEW a \in Actors, LoadManifests(a)
    PROVE  ModerationInv'
<1> DEFINE p == proc[a]
           q == [p EXCEPT !.op = "report:lookup"]
<1>1. CASE p.mid \in manifests
    <2>1. p \in Proc /\ p.op = "report:load" /\ WellFormed(p) /\ Founded(p)
          /\ (a \notin overtaken => Current(p))
        BY DEF LoadManifests, ModerationInv, TypeOK
    <2>2. q \in Proc /\ q.op = "report:lookup" /\ q.vid = p.vid /\ q.mid = p.mid
          /\ q.person = p.person /\ q.review = p.review /\ q.content = p.content
          /\ q.seen = p.seen /\ q.events = p.events
        BY <2>1 DEF Proc, Ops
    <2>3. Go(a, q) /\ UNCHANGED dbVars
        BY <1>1 DEF LoadManifests
    <2> HIDE DEF p, q
    <2>4. WellFormed(q) /\ Founded(q) /\ (a \notin overtaken => Current(q))
        BY <2>1, <2>2 DEF WellFormed, Founded, Current, Unsaved, Archived, Verified
    <2>. QED
        BY <2>2, <2>3, <2>4, RequestGoesOn DEF p
<1>. QED
    BY <1>1, RequestEnds DEF LoadManifests

\* Reports are read as they are, but for a video that an older version did not name.
LEMMA FoundReports ==
    ASSUME reports \in Reports, NEW S \in SUBSET ReportIds,
           \A i \in S : reports[i] # NoReport
    PROVE  /\ Found(S) \in Reports
           /\ \A i \in ReportIds :
                 /\ Found(S)[i] # NoReport => i \in S
                 /\ i \in S =>
                       /\ Found(S)[i] # NoReport
                       /\ Found(S)[i].text = reports[i].text
                       /\ Found(S)[i].archived = reports[i].archived
                       /\ reports[i].names = "video" => Found(S)[i].names = "video"
<1>1. ASSUME NEW r \in Report
      PROVE  /\ Read(r) \in Report /\ Read(r) # NoReport
             /\ Read(r).text = r.text /\ Read(r).archived = r.archived
             /\ r.names = "video" => Read(r).names = "video"
    <2>1. Read(r) \in Report /\ Read(r).text = r.text /\ Read(r).archived = r.archived
          /\ (r.names = "video" => Read(r).names = "video")
        BY DEF Read, Report
    <2>. QED
        BY <2>1, ReportIsThere
<1>2. \A i \in S : reports[i] \in Report
    BY DEF Reports
<1>3. \A i \in ReportIds : Found(S)[i] = IF i \in S THEN Read(reports[i]) ELSE NoReport
    BY DEF Found
<1>4. Found(S) \in Reports
    BY <1>1, <1>2 DEF Found, Reports
<1>. QED
    BY <1>1, <1>2, <1>3, <1>4

LEMMA LookupReportStep ==
    ASSUME ModerationInv, NEW a \in Actors, LookupReport(a)
    PROVE  ModerationInv'
<1> DEFINE p == proc[a]
<1>1. p \in Proc /\ p.op = "report:lookup" /\ WellFormed(p) /\ Founded(p)
      /\ (a \notin overtaken => Current(p))
      /\ reports \in Reports
    BY DEF LookupReport, ModerationInv, TypeOK
<1>2. CASE ReportsOf(p.person, p.mid) = {}
    <2> DEFINE q == [p EXCEPT !.op = "report:create"]
    <2>1. q \in Proc /\ q.op = "report:create" /\ q.vid = p.vid /\ q.mid = p.mid
          /\ q.person = p.person /\ q.review = p.review /\ q.content = p.content
          /\ q.seen = p.seen /\ q.events = p.events
        BY <1>1 DEF Proc, Ops
    <2>2. Go(a, q) /\ UNCHANGED dbVars
        BY <1>2 DEF LookupReport
    <2>3. \A i \in ReportIds : ~IsOf(i, p.person, p.mid)
        BY <1>2 DEF ReportsOf, IsOf
    <2> HIDE DEF p, q
    <2>4. WellFormed(q) /\ Founded(q) /\ (a \notin overtaken => Current(q))
        BY <1>1, <2>1, <2>3 DEF WellFormed, Founded, Current, Unsaved, Archived, Verified
    <2>. QED
        BY <2>1, <2>2, <2>4, RequestGoesOn DEF p
<1>3. CASE ReportsOf(p.person, p.mid) # {}
    <2>1. PICK i \in ReportsOf(p.person, p.mid) :
             Go(a, [p EXCEPT !.op = "report:save", !.seen = Found({i})])
        BY <1>3 DEF LookupReport
    <2> DEFINE q == [p EXCEPT !.op = "report:save", !.seen = Found({i})]
    <2>2. i \in ReportIds /\ reports[i] # NoReport /\ reports[i].mid = p.mid
        BY DEF ReportsOf
    <2>3. Found({i}) \in Reports /\ \A k \in ReportIds :
             Found({i})[k] # NoReport =>
                       /\ k = i
                       /\ Found({i})[k].text = reports[k].text
                       /\ Found({i})[k].archived = reports[k].archived
                       /\ reports[k].names = "video" => Found({i})[k].names = "video"
        BY <1>1, <2>2, FoundReports
    <2>4. q \in Proc /\ q.op = "report:save" /\ q.vid = p.vid /\ q.mid = p.mid
          /\ q.person = p.person /\ q.review = p.review /\ q.content = p.content
          /\ q.seen = Found({i}) /\ q.events = p.events
        BY <1>1, <2>3 DEF Proc, Ops
    <2>5. p.mid \in ManifestIds /\ p.vid \in VideoIds /\ reports[i].vid \in VideoIds
        BY <1>1, <2>2 DEF WellFormed, Proc, Reports, Report
    <2>6. reports[i].vid = p.vid
        <3>1. Claimed(p.mid, p.vid) /\ Claimed(p.mid, reports[i].vid)
            BY <2>2 DEF Claimed
        <3>. QED
            BY <3>1, <2>5 DEF ModerationInv, OneVideo
    <2>7. Go(a, q) /\ UNCHANGED dbVars
        BY <2>1 DEF LookupReport
    <2> HIDE DEF p, q
    <2>8. WellFormed(q) /\ Founded(q)
        BY <1>1, <2>2, <2>3, <2>4, <2>6 DEF WellFormed, Founded
    <2>9. Unsaved(q)
        BY <2>3, <2>4 DEF Unsaved
    <2>10. a \notin overtaken => Current(q)
        BY <1>1, <2>4, <2>9 DEF Current, Archived, Verified
    <2>. QED
        BY <2>4, <2>7, <2>8, <2>10, RequestGoesOn DEF p
<1>. QED
    BY <1>2, <1>3

-----------------------------------------------------------------------------
(* Reports are created and saved.                                           *)

\* A report is of what it was of.
SameMatter(r, s) == r.vid = s.vid /\ r.mid = s.mid /\ r.reporter = s.reporter

\* What a request has found stays found, as long as reports stay what they are of.
LEMMA StillFounded ==
    ASSUME ModerationInv, NEW b \in Actors, proc'[b] = proc[b],
           published \in Nat, published' \in Nat, published <= published', raced \subseteq raced',
           \A i \in ReportIds : reports[i] # NoReport =>
              reports'[i] # NoReport /\ SameMatter(reports'[i], reports[i]),
           \A i \in ReportIds :
              reports[i] = NoReport /\ proc[b].op = "report:create"
              /\ IsOf(i, proc[b].person, proc[b].mid)' =>
                 <<proc[b].person, proc[b].mid>> \in raced'
    PROVE  Founded(proc[b])'
<1> DEFINE p == proc[b]
<1>1. Founded(p) /\ p \in Proc
    BY DEF ModerationInv, TypeOK
<1>2. \A m \in p.content : m <= published'
    BY <1>1 DEF Founded, Proc, ManifestIds
<1>3. ASSUME p.op = "report:create", NEW i \in ReportIds, IsOf(i, p.person, p.mid)'
      PROVE  <<p.person, p.mid>> \in raced'
    <2>1. CASE reports[i] = NoReport
        BY <1>3, <2>1
    <2>2. CASE reports[i] # NoReport
        <3>1. IsOf(i, p.person, p.mid)
            BY <1>3, <2>2 DEF IsOf, SameMatter
        <3>. QED
            BY <1>1, <1>3, <3>1 DEF Founded
    <2>. QED
        BY <2>1, <2>2
<1>4. \A i \in ReportIds : p.seen[i] # NoReport =>
         reports'[i] # NoReport /\ reports'[i].vid = p.vid
    BY <1>1 DEF Founded, SameMatter
<1>. QED
    BY <1>1, <1>2, <1>3, <1>4 DEF Founded, IsOf

\* What it has found is still so when only reports of another video change.
LEMMA StillCurrentReports ==
    ASSUME NEW b \in Actors, proc'[b] = proc[b], Founded(proc[b]), Current(proc[b]),
           NEW v \in VideoIds, proc[b].vid # v,
           \A i \in ReportIds : reports[i].vid = v \/ reports'[i].vid = v \/ reports'[i] = reports[i],
           \A i \in ReportIds : reports[i] # NoReport => SameMatter(reports'[i], reports[i]),
           UNCHANGED <<stored, videos, manifests>>
    PROVE  Current(proc[b])'
<1> DEFINE p == proc[b]
<1>1. \A i \in ReportIds : p.seen[i] # NoReport => reports'[i] = reports[i]
    BY DEF Founded, SameMatter
<1>2. \A i \in ReportIds : reports'[i].vid = p.vid => reports'[i] = reports[i]
    <2>1. ASSUME NEW i \in ReportIds, reports'[i].vid = p.vid, reports[i].vid = v
          PROVE  reports'[i] = reports[i]
        BY <2>1, NoneIsNot DEF SameMatter, NoReport
    <2>. QED
        BY <2>1
<1>3. ReportsNaming(p.vid)' \subseteq ReportsNaming(p.vid)
    BY <1>2 DEF ReportsNaming
<1>4. \A i \in ReportsNaming(p.vid)' : reports'[i] = reports[i]
    BY <1>2 DEF ReportsNaming
<1>5. Unsaved(proc[b])'
    BY <1>1, <1>3 DEF Current, Unsaved
<1>6. Archived(proc[b])' \/ ~Archived(proc[b])
    BY <1>3, <1>4 DEF Archived
<1>7. Verified(proc[b])' \/ ~Verified(proc[b])
    BY DEF Verified, Left
<1>. QED
    BY <1>5, <1>6, <1>7 DEF Current

\* A request that is over has nothing to keep.
LEMMA IdleKept ==
    ASSUME NEW a \in Actors, proc'[a] = IdleProc
    PROVE  Kept(a)
<1>1. \A k \in ReportIds : IdleProc.seen[k] = NoReport
    BY DEF IdleProc, NothingFound
<1>2. IdleProc.op = "idle" /\ IdleProc.review = None /\ IdleProc.content = {}
    BY DEF IdleProc
<1>. QED
    BY <1>1, <1>2 DEF Kept, Founded, Current, Unsaved

\* A step that changes reports of one video, and overtakes the requests on it.
LEMMA ReportsStep ==
    ASSUME ModerationInv, NEW a \in Actors, NEW q \in Proc, Become(a, q),
           NEW v \in VideoIds,
           UNCHANGED <<stored, videos, manifests, published>>,
           reports' \in Reports,
           \A i \in ReportIds : reports[i].vid = v \/ reports'[i].vid = v \/ reports'[i] = reports[i],
           \A i \in ReportIds : reports[i] # NoReport => SameMatter(reports'[i], reports[i]),
           \A b \in Actors \ {a} :
              /\ b \notin overtaken' => b \notin overtaken /\ proc[b].vid # v
              /\ proc[b].op = "report:create" =>
                    \A i \in ReportIds :
                       reports[i] = NoReport /\ reports'[i] # NoReport
                       /\ reports'[i].reporter = proc[b].person /\ reports'[i].mid = proc[b].mid =>
                          <<proc[b].person, proc[b].mid>> \in raced',
           raced \subseteq raced', raced' \in SUBSET (Persons \X ManifestIds),
           overtaken' \in SUBSET Actors,
           ReportedOnce', OneVideo',
           WellFormed(q), Kept(a)
    PROVE  ModerationInv'
<1>1. \A b \in Actors : proc'[b] = IF b = a THEN q ELSE proc[b]
    BY DEF Become, ModerationInv, TypeOK
<1>2. TypeOK'
    <2>1. \A b \in Actors : WellFormed(proc[b])'
        BY <1>1 DEF ModerationInv, TypeOK, WellFormed
    <2>2. proc' \in [Actors -> Proc]
        BY DEF Become, ModerationInv, TypeOK
    <2>. QED
        BY <2>1, <2>2 DEF ModerationInv, TypeOK
<1>3. ASSUME NEW b \in Actors
      PROVE  Kept(b)
    <2>1. CASE b = a
        BY <2>1
    <2>2. CASE b # a
        <3>1. proc'[b] = proc[b] /\ Founded(proc[b]) /\ (b \notin overtaken => Current(proc[b]))
            BY <1>1, <2>2 DEF ModerationInv
        <3>2. \A i \in ReportIds : reports[i] # NoReport => reports'[i] # NoReport
            <4>1. \A i \in ReportIds : reports[i] # NoReport => reports[i] \in Report
                BY DEF ModerationInv, TypeOK, Reports
            <4>2. \A i \in ReportIds : reports[i] # NoReport => reports'[i].vid = reports[i].vid
                BY DEF SameMatter
            <4>3. NoReport.vid = None
                BY DEF NoReport
            <4>. QED
                BY <4>1, <4>2, <4>3, ReportIsThere
        <3>3. Founded(proc[b])'
            <4>1. published \in Nat /\ published' \in Nat /\ published <= published'
                BY DEF ModerationInv, TypeOK
            <4>2. \A i \in ReportIds :
                     reports[i] = NoReport /\ proc[b].op = "report:create"
                     /\ IsOf(i, proc[b].person, proc[b].mid)' =>
                        <<proc[b].person, proc[b].mid>> \in raced'
                BY <2>2, <3>1 DEF IsOf
            <4>. QED
                BY <3>1, <3>2, <4>1, <4>2, StillFounded
        <3>4. b \notin overtaken' => Current(proc[b])'
            BY <2>2, <3>1, StillCurrentReports
        <3>. QED
            BY <3>3, <3>4 DEF Kept
    <2>. QED
        BY <2>1, <2>2
<1>. QED
    BY <1>2, <1>3 DEF ModerationInv, Kept

LEMMA CreateReportStep ==
    ASSUME ModerationInv, NEW a \in Actors, CreateReport(a)
    PROVE  ModerationInv'
<1> DEFINE p == proc[a]
           new == NewReport(p.person, p.vid, p.mid)
           same == {b \in Actors \ {a} : /\ proc[b].op = "report:create"
                                         /\ proc[b].person = p.person /\ proc[b].mid = p.mid}
<1>1. p \in Proc /\ p.op = "report:create" /\ WellFormed(p) /\ Founded(p)
      /\ reports \in Reports /\ proc \in [Actors -> Proc]
    BY DEF CreateReport, ModerationInv, TypeOK
<1>2. PICK i \in ReportIds : reports[i] = NoReport /\ reports' = [reports EXCEPT ![i] = new]
    BY DEF CreateReport
<1>3. /\ Become(a, IdleProc)
      /\ overtaken' = (overtaken \cup OnVideo(p.vid)) \ {a}
      /\ raced' = IF same = {} THEN raced ELSE raced \cup {<<p.person, p.mid>>}
      /\ UNCHANGED <<stored, videos, manifests, published>>
    BY DEF CreateReport
<1>4. p.vid \in VideoIds /\ p.mid \in ManifestIds /\ p.person \in Persons
    BY <1>1 DEF WellFormed, Proc
<1>5. new \in Report /\ new.vid = p.vid /\ new.mid = p.mid /\ new.reporter = p.person
    BY <1>4 DEF NewReport, Report
<1>6. new # NoReport
    BY <1>5, ReportIsThere
<1>7. \A b \in Actors : proc'[b] = IF b = a THEN IdleProc ELSE proc[b]
    BY <1>1, <1>3 DEF Become
<1> HIDE DEF p, new
<1>8. reports' \in Reports /\ \A k \in ReportIds : reports'[k] = IF k = i THEN new ELSE reports[k]
    BY <1>1, <1>2, <1>5 DEF Reports, new
<1>9. OneVideo'
    <2>1. Claimed(p.mid, p.vid)
        BY DEF Claimed, p
    <2>2. \A b \in Actors : proc'[b].mid \in ManifestIds =>
             proc'[b].mid = proc[b].mid /\ proc'[b].vid = proc[b].vid
        BY <1>7, IdleRecord, Bounds
    <2>3. \A k \in ReportIds : reports'[k] # NoReport =>
             \/ reports[k] # NoReport /\ reports'[k].mid = reports[k].mid
                                      /\ reports'[k].vid = reports[k].vid
             \/ Claimed(reports'[k].mid, reports'[k].vid)
        BY <1>5, <1>8, <2>1
    <2>. QED
        BY <1>3, <2>2, <2>3, FewerClaims DEF ModerationInv
<1>10. ReportedOnce'
    <2>1. \A k \in ReportIds : IsOf(k, p.person, p.mid) => <<p.person, p.mid>> \in raced
        BY <1>1 DEF Founded
    <2>2. raced \subseteq raced'
        BY <1>3
    <2>3. ASSUME NEW j \in ReportIds, NEW k \in ReportIds,
                 reports'[j] # NoReport, reports'[k] # NoReport,
                 reports'[j].reporter = reports'[k].reporter, reports'[j].mid = reports'[k].mid,
                 j # k
          PROVE  <<reports'[j].reporter, reports'[j].mid>> \in raced'
        <3>1. CASE j # i /\ k # i
            BY <1>8, <2>2, <2>3, <3>1 DEF ModerationInv, ReportedOnce
        <3>2. CASE j = i
            BY <1>5, <1>8, <2>1, <2>2, <2>3, <3>2 DEF IsOf
        <3>3. CASE k = i
            BY <1>5, <1>8, <2>1, <2>2, <2>3, <3>3 DEF IsOf
        <3>. QED
            BY <3>1, <3>2, <3>3
    <2>. QED
        BY <2>3 DEF ReportedOnce
<1>11. \A b \in Actors \ {a} :
          /\ b \notin overtaken' => b \notin overtaken /\ proc[b].vid # p.vid
          /\ proc[b].op = "report:create" =>
                \A k \in ReportIds :
                   reports[k] = NoReport /\ reports'[k] # NoReport
                   /\ reports'[k].reporter = proc[b].person /\ reports'[k].mid = proc[b].mid =>
                      <<proc[b].person, proc[b].mid>> \in raced'
    BY <1>3, <1>5, <1>8 DEF OnVideo
<1>12. \A k \in ReportIds :
          /\ reports[k].vid = p.vid \/ reports'[k].vid = p.vid \/ reports'[k] = reports[k]
          /\ reports[k] # NoReport => SameMatter(reports'[k], reports[k])
    BY <1>2, <1>5, <1>8 DEF SameMatter
<1>13. Kept(a)
    BY <1>7, IdleKept
<1>14. raced \subseteq raced' /\ raced' \in SUBSET (Persons \X ManifestIds)
       /\ overtaken' \in SUBSET Actors
    BY <1>3, <1>4 DEF ModerationInv, TypeOK, OnVideo
<1>. QED
    BY <1>3, <1>4, <1>8, <1>9, <1>10, <1>11, <1>12, <1>13, <1>14, IdleRecord, ReportsStep

\* What a save makes of each report that was read.
LEMMA DescriptionSaved ==
    ASSUME reports \in Reports, NEW seen \in Reports, SaveReports(seen, ChangeDescription),
           NEW i \in ReportIds, reports[i] # NoReport
    PROVE  /\ seen[i] = NoReport => reports'[i] = reports[i]
           /\ reports'[i] \in Report /\ SameMatter(reports'[i], reports[i])
           /\ seen[i] # NoReport =>
                 /\ reports'[i].names \in {reports[i].names, seen[i].names}
                 /\ \/ reports'[i].text = "later"
                    \/ seen[i].text = "later" /\ reports'[i].text = reports[i].text
                 /\ reports'[i].archived \in {reports[i].archived, seen[i].archived}
<1>1. reports[i] \in Report /\ (seen[i] # NoReport => seen[i] \in Report)
    BY DEF Reports
<1>2. CASE seen[i] = NoReport
    BY <1>1, <1>2 DEF SaveReports, SameMatter
<1>3. CASE seen[i] # NoReport
    <2>1. PICK whole \in SaveModes :
             reports'[i] = [reports[i] EXCEPT
                     !.names = IF whole THEN seen[i].names ELSE @,
                     !.text = Written(whole, seen[i].text, ChangeDescription(seen[i]).text, @),
                     !.archived = Written(whole, seen[i].archived,
                                          ChangeDescription(seen[i]).archived, @)]
        BY <1>3 DEF SaveReports
    <2>. QED
        BY <1>1, <1>3, <2>1 DEF Report, ChangeDescription, Written, SameMatter
<1>. QED
    BY <1>2, <1>3

LEMMA ArchivedSaved ==
    ASSUME reports \in Reports, NEW seen \in Reports, SaveReports(seen, SetArchived),
           NEW i \in ReportIds, reports[i] # NoReport
    PROVE  /\ seen[i] = NoReport => reports'[i] = reports[i]
           /\ reports'[i] \in Report /\ SameMatter(reports'[i], reports[i])
           /\ seen[i] # NoReport =>
                 /\ reports'[i].names \in {reports[i].names, seen[i].names}
                 /\ reports'[i].text \in {reports[i].text, seen[i].text}
                 /\ \/ reports'[i].archived = TRUE
                    \/ seen[i].archived /\ reports'[i].archived = reports[i].archived
<1>1. reports[i] \in Report /\ (seen[i] # NoReport => seen[i] \in Report)
    BY DEF Reports
<1>2. CASE seen[i] = NoReport
    BY <1>1, <1>2 DEF SaveReports, SameMatter
<1>3. CASE seen[i] # NoReport
    <2>1. PICK whole \in SaveModes :
             reports'[i] = [reports[i] EXCEPT
                     !.names = IF whole THEN seen[i].names ELSE @,
                     !.text = Written(whole, seen[i].text, SetArchived(seen[i]).text, @),
                     !.archived = Written(whole, seen[i].archived,
                                          SetArchived(seen[i]).archived, @)]
        BY <1>3 DEF SaveReports
    <2>. QED
        BY <1>1, <1>3, <2>1 DEF Report, SetArchived, Written, SameMatter
<1>. QED
    BY <1>2, <1>3

LEMMA MissingSaved ==
    ASSUME reports \in Reports, NEW seen \in Reports, NEW i \in ReportIds, seen[i] = NoReport,
           SaveReports(seen, ChangeDescription) \/ SaveReports(seen, SetArchived)
    PROVE  reports'[i] = reports[i]
BY DEF SaveReports

\* The reports that a request saves are those it read, which are there and stay what they
\* are of.
LEMMA SavedReports ==
    ASSUME ModerationInv, NEW a \in Actors,
           \/ SaveReports(proc[a].seen, ChangeDescription)
           \/ SaveReports(proc[a].seen, SetArchived)
    PROVE  /\ reports' \in Reports
           /\ \A i \in ReportIds :
                 /\ proc[a].seen[i] = NoReport => reports'[i] = reports[i]
                 /\ proc[a].seen[i] # NoReport =>
                       reports[i] # NoReport /\ reports[i].vid = proc[a].vid
                 /\ reports[i] # NoReport =>
                       reports'[i] \in Report /\ SameMatter(reports'[i], reports[i])
<1> DEFINE seen == proc[a].seen
<1>1. reports \in Reports /\ seen \in Reports
    BY DEF ModerationInv, TypeOK, Proc
<1>2. \A i \in ReportIds : seen[i] # NoReport => reports[i] # NoReport /\ reports[i].vid = proc[a].vid
    BY DEF ModerationInv, Founded
<1> HIDE DEF seen
<1>3. ASSUME NEW i \in ReportIds
      PROVE  /\ seen[i] = NoReport => reports'[i] = reports[i]
             /\ reports[i] # NoReport =>
                       reports'[i] \in Report /\ SameMatter(reports'[i], reports[i])
             /\ reports'[i] \in Report \cup {NoReport}
    <2>1. SaveReports(seen, ChangeDescription) \/ SaveReports(seen, SetArchived)
        BY DEF seen
    <2>2. CASE reports[i] = NoReport
        BY <2>1, <2>2, <1>1, <1>2, MissingSaved
    <2>3. CASE reports[i] # NoReport
        BY <2>1, <2>3, <1>1, DescriptionSaved, ArchivedSaved
    <2>. QED
        BY <2>2, <2>3
<1>4. reports' \in Reports
    <2>1. \E f : reports' = [i \in ReportIds |-> f[i]]
        <3>1. reports' = [i \in ReportIds |-> reports'[i]]
            BY DEF SaveReports
        <3>. QED
            BY <3>1
    <2>. QED
        BY <1>3, <2>1 DEF Reports
<1>. QED
    BY <1>2, <1>3, <1>4 DEF seen

LEMMA SaveStep ==
    ASSUME ModerationInv, NEW a \in Actors, NEW q \in Proc, Become(a, q),
           \/ SaveReports(proc[a].seen, ChangeDescription)
           \/ SaveReports(proc[a].seen, SetArchived),
           UNCHANGED <<stored, videos, manifests, published, raced>>,
           overtaken' \in SUBSET Actors,
           \A b \in Actors \ {a} : b \in OnVideo(proc[a].vid) \cup overtaken => b \in overtaken',
           q.mid = NoId \/ (q.mid = proc[a].mid /\ q.vid = proc[a].vid),
           proc[a].vid \in VideoIds, WellFormed(q), Kept(a)
    PROVE  ModerationInv'
<1>1. /\ reports' \in Reports
      /\ \A i \in ReportIds :
            /\ proc[a].seen[i] = NoReport => reports'[i] = reports[i]
            /\ proc[a].seen[i] # NoReport => reports[i] # NoReport /\ reports[i].vid = proc[a].vid
            /\ reports[i] # NoReport => SameMatter(reports'[i], reports[i])
    BY SavedReports
<1>2. \A i \in ReportIds :
         /\ reports[i].vid = proc[a].vid \/ reports'[i].vid = proc[a].vid \/ reports'[i] = reports[i]
         /\ reports[i] = NoReport => reports'[i] = NoReport
    BY <1>1
<1>3. \A b \in Actors : proc'[b] = IF b = a THEN q ELSE proc[b]
    BY DEF Become, ModerationInv, TypeOK
<1>4. OneVideo'
    <2>1. \A b \in Actors : proc'[b].mid \in ManifestIds =>
             proc'[b].mid = proc[b].mid /\ proc'[b].vid = proc[b].vid
        BY <1>3, Bounds
    <2>2. \A i \in ReportIds : reports'[i] # NoReport =>
             reports[i] # NoReport /\ reports'[i].mid = reports[i].mid
                                   /\ reports'[i].vid = reports[i].vid
        BY <1>1, <1>2 DEF SameMatter
    <2>. QED
        BY <2>1, <2>2, FewerClaims DEF ModerationInv
<1>5. ReportedOnce'
    <2>1. \A i \in ReportIds : reports'[i] # NoReport =>
             reports[i] # NoReport /\ reports'[i].mid = reports[i].mid
                                   /\ reports'[i].reporter = reports[i].reporter
        BY <1>1, <1>2 DEF SameMatter
    <2>. QED
        BY <2>1 DEF ModerationInv, ReportedOnce
<1>6. \A b \in Actors \ {a} : b \notin overtaken' => b \notin overtaken /\ proc[b].vid # proc[a].vid
    BY DEF OnVideo
<1>7. raced' \in SUBSET (Persons \X ManifestIds)
    BY DEF ModerationInv, TypeOK
<1>. QED
    BY <1>1, <1>2, <1>4, <1>5, <1>6, <1>7, ReportsStep

LEMMA SaveReportStep ==
    ASSUME ModerationInv, NEW a \in Actors, SaveReport(a)
    PROVE  ModerationInv'
<1>1. proc[a] \in Proc /\ proc[a].op = "report:save" /\ WellFormed(proc[a])
      /\ proc \in [Actors -> Proc]
    BY DEF SaveReport, ModerationInv, TypeOK
<1>2. proc[a].vid \in VideoIds
    BY <1>1 DEF WellFormed, Proc
<1>3. /\ SaveReports(proc[a].seen, ChangeDescription)
      /\ Become(a, IdleProc)
      /\ overtaken' = (overtaken \cup OnVideo(proc[a].vid)) \ {a}
      /\ UNCHANGED <<stored, videos, manifests, published, raced>>
    BY DEF SaveReport
<1>4. Kept(a)
    BY <1>1, <1>3, IdleKept DEF Become
<1>5. overtaken' \in SUBSET Actors
      /\ \A b \in Actors \ {a} : b \in OnVideo(proc[a].vid) \cup overtaken => b \in overtaken'
    BY <1>3 DEF ModerationInv, TypeOK, OnVideo
<1>6. IdleProc \in Proc /\ IdleProc.mid = NoId /\ WellFormed(IdleProc)
    BY IdleRecord
<1>. QED
    BY <1>2, <1>3, <1>4, <1>5, <1>6, SaveStep

LEMMA SaveArchivedStep ==
    ASSUME ModerationInv, NEW a \in Actors, SaveArchived(a)
    PROVE  ModerationInv'
<1> DEFINE p == proc[a]
           q == [p EXCEPT !.op = "review:events", !.seen = NothingFound]
<1>1. p \in Proc /\ p.op = "archive:save" /\ WellFormed(p) /\ Founded(p)
      /\ (a \notin overtaken => Current(p))
      /\ proc \in [Actors -> Proc] /\ reports \in Reports
    BY DEF SaveArchived, ModerationInv, TypeOK
<1>2. p.vid \in VideoIds /\ p.review # None /\ p.seen \in Reports
    BY <1>1 DEF WellFormed, Proc
<1>3. /\ SaveReports(p.seen, SetArchived)
      /\ Become(a, q)
      /\ overtaken' = overtaken \cup (OnVideo(p.vid) \ {a})
      /\ UNCHANGED <<stored, videos, manifests, published, raced>>
    BY DEF SaveArchived, Overtake
<1>4. q \in Proc /\ q.op = "review:events" /\ q.vid = p.vid /\ q.mid = p.mid
      /\ q.review = p.review /\ q.content = p.content
      /\ q.seen = NothingFound /\ q.events = p.events
    BY <1>1, IdleRecord DEF Proc, Ops
<1>5. overtaken' \in SUBSET Actors
      /\ \A b \in Actors \ {a} : b \in OnVideo(p.vid) \cup overtaken => b \in overtaken'
    BY <1>3 DEF ModerationInv, TypeOK, OnVideo
<1>6. \A i \in ReportIds :
         /\ p.seen[i] = NoReport => reports'[i] = reports[i]
         /\ p.seen[i] # NoReport => reports[i] # NoReport
    BY <1>3, SavedReports
<1>7. \A i \in ReportIds : p.seen[i] # NoReport =>
         /\ SameMatter(reports'[i], reports[i])
         /\ reports'[i].names \in {reports[i].names, p.seen[i].names}
         /\ \/ reports'[i].archived = TRUE
            \/ p.seen[i].archived /\ reports'[i].archived = reports[i].archived
    BY <1>1, <1>2, <1>3, <1>6, ArchivedSaved
<1>8. proc'[a] = q
    BY <1>1, <1>3 DEF Become
<1> HIDE DEF p, q
<1>9. WellFormed(q)
    BY <1>1, <1>2, <1>4 DEF WellFormed
<1>10. ASSUME a \notin overtaken, NEW i \in ReportsNaming(proc[a].vid)'
       PROVE  reports'[i].archived = TRUE
    <2>1. i \in ReportIds /\ reports'[i].vid = p.vid /\ reports'[i].names = "video"
        BY <1>4, <1>8 DEF ReportsNaming
    <2>2. Unsaved(p)
        BY <1>1, <1>10 DEF Current
    <2>3. p.seen[i] # NoReport
        BY <1>1, <1>6, <2>1, <2>2 DEF Unsaved, ReportsNaming
    <2>. QED
        BY <1>7, <2>1, <2>2, <2>3 DEF Unsaved
<1>11. \A i \in ReportIds : q.seen[i] = NoReport
    BY <1>4 DEF NothingFound
<1>12. Kept(a)
    <2>1. a \notin overtaken' => a \notin overtaken
        BY <1>3
    <2>2. Founded(proc[a])'
        BY <1>1, <1>2, <1>3, <1>4, <1>8, <1>11 DEF Founded
    <2>3. Unsaved(proc[a])'
        BY <1>4, <1>8, <1>11 DEF Unsaved
    <2>4. a \notin overtaken => Archived(proc[a])'
        BY <1>4, <1>8, <1>10 DEF Archived
    <2>5. a \notin overtaken => Verified(proc[a])'
        BY <1>1, <1>2, <1>3, <1>4, <1>8 DEF Current, Verified, Left
    <2>. QED
        BY <2>1, <2>2, <2>3, <2>4, <2>5 DEF Kept, Current
<1>. QED
    BY <1>2, <1>3, <1>4, <1>5, <1>9, <1>12, SaveStep DEF p

-----------------------------------------------------------------------------
(* A video is reviewed.                                                     *)

LEMMA ReadReviewedStep ==
    ASSUME ModerationInv, NEW a \in Actors, NEW v \in VideoIds, NEW isValid \in BOOLEAN,
           ReadReviewed(a, v, isValid)
    PROVE  ModerationInv'
<1> DEFINE r == [vid |-> v, isValid |-> isValid]
           q == [IdleProc EXCEPT !.op = "review:create", !.vid = v, !.review = r,
                                 !.content = videos[v].list]
<1>1. videos[v].list \in SUBSET ManifestIds /\ published \in Nat
    BY DEF ModerationInv, TypeOK, Video
<1>2. r \in Review /\ r.vid = v /\ r # None
    <2>1. r \in Review /\ r.vid = v
        BY DEF Review
    <2>. QED
        BY <2>1, NoneIsNot
<1>3. q \in Proc
    BY <1>1, <1>2, IdleRecord DEF Proc, Ops
<1>4. q.op = "review:create" /\ q.vid = v /\ q.mid = NoId /\ q.review = r
      /\ q.content = videos[v].list /\ q.seen = NothingFound
    BY DEF IdleProc
<1>5. \A i \in ReportIds : NothingFound[i] = NoReport
    BY DEF NothingFound
<1>6. \A m \in q.content : m <= published
    BY <1>1, <1>4 DEF ModerationInv, OneVideo, Claimed
<1>7. Become(a, q) /\ UNCHANGED <<dbVars, overtaken, raced>>
    BY DEF ReadReviewed, Go
<1> HIDE DEF q, r
<1>8. WellFormed(q) /\ Founded(q)
    BY <1>2, <1>4, <1>5, <1>6, NoneIsNot DEF WellFormed, Founded
<1>9. Current(q)
    BY <1>4, <1>5 DEF Current, Unsaved, Archived, Verified, Left
<1>. QED
    BY <1>3, <1>4, <1>7, <1>8, <1>9, Bounds, OnlyRequest

LEMMA CreateReviewStep ==
    ASSUME ModerationInv, NEW a \in Actors, CreateReview(a)
    PROVE  ModerationInv'
<1> DEFINE p == proc[a]
           q == [p EXCEPT !.op = "review:events", !.events = {"archive", "verify"}]
<1>1. p \in Proc /\ p.op = "review:create" /\ WellFormed(p) /\ Founded(p)
      /\ (a \notin overtaken => Current(p))
    BY DEF CreateReview, ModerationInv, TypeOK
<1>2. q \in Proc /\ q.op = "review:events" /\ q.vid = p.vid /\ q.mid = p.mid
      /\ q.person = p.person /\ q.review = p.review /\ q.content = p.content
      /\ q.seen = p.seen /\ q.events = {"archive", "verify"}
    BY <1>1 DEF Proc, Ops
<1>3. Go(a, q) /\ UNCHANGED dbVars
    BY DEF CreateReview
<1> HIDE DEF p, q
<1>4. WellFormed(q) /\ Founded(q)
    BY <1>1, <1>2 DEF WellFormed, Founded
<1>5. a \notin overtaken => Current(q)
    BY <1>1, <1>2 DEF Current, Unsaved, Archived, Verified, Left
<1>. QED
    BY <1>2, <1>3, <1>4, <1>5, RequestGoesOn DEF p

LEMMA ArchiveReportsStep ==
    ASSUME ModerationInv, NEW a \in Actors, ArchiveReports(a)
    PROVE  ModerationInv'
<1> DEFINE p == proc[a]
           S == ReportsNaming(p.vid)
           found == Found(S)
           q == [p EXCEPT !.op = "archive:save", !.events = @ \ {"archive"}, !.seen = found]
<1>1. p \in Proc /\ p.op = "review:events" /\ WellFormed(p) /\ Founded(p)
      /\ (a \notin overtaken => Current(p)) /\ reports \in Reports
    BY DEF ArchiveReports, ModerationInv, TypeOK
<1>2. p.vid \in VideoIds
    BY <1>1 DEF WellFormed, Proc
<1>3. S \in SUBSET ReportIds
      /\ \A i \in S : reports[i] # NoReport /\ reports[i].vid = p.vid /\ reports[i].names = "video"
    BY <1>2, NoneIsNot DEF ReportsNaming, NoReport
<1>4. /\ found \in Reports
      /\ \A i \in ReportIds :
            /\ found[i] # NoReport => i \in S
            /\ i \in S =>
                  /\ found[i] # NoReport
                  /\ found[i].text = reports[i].text
                  /\ found[i].archived = reports[i].archived
                  /\ reports[i].names = "video" => found[i].names = "video"
    BY <1>1, <1>3, FoundReports
<1>5. Go(a, q) /\ UNCHANGED dbVars
    BY DEF ArchiveReports
<1> HIDE DEF found
<1>6. q \in Proc /\ q.op = "archive:save" /\ q.vid = p.vid /\ q.mid = p.mid
      /\ q.person = p.person /\ q.review = p.review /\ q.content = p.content
      /\ q.seen = found /\ q.events = p.events \ {"archive"}
    BY <1>1, <1>4 DEF Proc, Ops
<1> HIDE DEF p, q, S
<1>7. WellFormed(q) /\ Founded(q)
    BY <1>1, <1>3, <1>4, <1>6 DEF WellFormed, Founded
<1>8. Unsaved(q)
    BY <1>3, <1>4, <1>6 DEF Unsaved, S
<1>9. a \notin overtaken => Current(q)
    BY <1>1, <1>6, <1>8 DEF Current, Archived, Verified, Left
<1>. QED
    BY <1>5, <1>6, <1>7, <1>9, RequestGoesOn DEF p

\* A request begins to moderate a video, for a review or not.
LEMMA ModerateStep ==
    ASSUME ModerationInv, NEW a \in Actors, NEW p \in Proc, NEW v \in VideoIds,
           Moderate(a, p, v), UNCHANGED dbVars,
           Founded(p), p.mid = NoId \/ (p.mid = proc[a].mid /\ proc[a].vid = v),
           p.review # None => v = p.review.vid,
           \A i \in ReportIds : p.seen[i] # NoReport => reports[i].vid = v,
           a \notin overtaken =>
              /\ Unsaved(p)
              /\ p.review # None =>
                    /\ "archive" \notin p.events => \A i \in ReportsNaming(v) : reports[i].archived
                    /\ Left(p) \subseteq videos[v].list
    PROVE  ModerationInv'
<1>1. CASE v \in stored
    <2> DEFINE q == [p EXCEPT !.op = "moderate:save", !.vid = v, !.todo = videos[v].list]
    <2>1. videos[v].list \in SUBSET ManifestIds
        BY DEF ModerationInv, TypeOK, Video
    <2>2. q \in Proc /\ q.op = "moderate:save" /\ q.vid = v /\ q.mid = p.mid
          /\ q.person = p.person /\ q.review = p.review /\ q.content = p.content
          /\ q.seen = p.seen /\ q.events = p.events /\ q.todo = videos[v].list
        BY <2>1 DEF Proc, Ops
    <2>3. Become(a, q) /\ UNCHANGED <<overtaken, raced>>
        BY <1>1 DEF Moderate, Go
    <2> HIDE DEF q
    <2>4. WellFormed(q) /\ Founded(q)
        BY <2>2, NoneIsNot DEF WellFormed, Founded
    <2>5. a \notin overtaken => Current(q)
        BY <1>1, <2>2 DEF Current, Unsaved, Archived, Verified, Left
    <2>6. q.mid \in ManifestIds => q.mid = proc[a].mid /\ q.vid = proc[a].vid
        BY <2>2, Bounds
    <2>. QED
        BY <2>2, <2>3, <2>4, <2>5, <2>6, OnlyRequest DEF dbVars
<1>2. CASE v \notin stored
    BY <1>2, RequestEnds DEF Moderate
<1>. QED
    BY <1>1, <1>2

LEMMA VerifyStep ==
    ASSUME ModerationInv, NEW a \in Actors, Verify(a)
    PROVE  ModerationInv'
<1> DEFINE p == proc[a]
           q == [p EXCEPT !.events = @ \ {"verify"}]
<1>1. p \in Proc /\ p.op = "review:events" /\ "verify" \in p.events
      /\ WellFormed(p) /\ Founded(p) /\ (a \notin overtaken => Current(p))
    BY DEF Verify, ModerationInv, TypeOK
<1>2. q \in Proc /\ q.op = "review:events" /\ q.vid = p.vid /\ q.mid = p.mid
      /\ q.person = p.person /\ q.review = p.review /\ q.content = p.content
      /\ q.seen = p.seen /\ q.events = p.events \ {"verify"}
    BY <1>1 DEF Proc
<1>3. p.review # None /\ p.review \in Review /\ p.vid = p.review.vid /\ p.vid \in VideoIds
    BY <1>1 DEF WellFormed, Founded, Proc
<1>4. IF p.review.isValid THEN Go(a, q) ELSE Moderate(a, q, p.vid)
    BY <1>2 DEF Verify
<1>5. UNCHANGED dbVars
    BY DEF Verify
<1> HIDE DEF q
<1>6. WellFormed(q) /\ Founded(q)
    BY <1>1, <1>2 DEF WellFormed, Founded
<1>7. CASE p.review.isValid
    <2>1. a \notin overtaken => Current(q)
        BY <1>1, <1>2, <1>7 DEF Current, Unsaved, Archived, Verified, Left
    <2>. QED
        BY <1>2, <1>4, <1>5, <1>6, <1>7, <2>1, RequestGoesOn
<1>8. CASE ~p.review.isValid
    <2>1. a \notin overtaken =>
              /\ Unsaved(q)
              /\ "archive" \notin q.events => \A i \in ReportsNaming(p.vid) : reports[i].archived
              /\ Left(q) \subseteq videos[p.vid].list
        BY <1>1, <1>2, <1>3 DEF Current, Unsaved, Archived, Verified, Left
    <2>2. \A i \in ReportIds : q.seen[i] # NoReport => reports[i].vid = p.vid
        BY <1>1, <1>2 DEF Founded
    <2>3. q.review # None => p.vid = q.review.vid
        BY <1>2, <1>3
    <2>4. q.mid = NoId \/ (q.mid = proc[a].mid /\ proc[a].vid = p.vid)
        BY <1>2
    <2>. QED
        BY <1>2, <1>3, <1>4, <1>5, <1>6, <1>8, <2>1, <2>2, <2>3, <2>4, ModerateStep
<1>. QED
    BY <1>7, <1>8

LEMMA ModerateVideoStep ==
    ASSUME ModerationInv, NEW a \in Actors, NEW v \in VideoIds, ModerateVideo(a, v)
    PROVE  ModerationInv'
<1>1. \A i \in ReportIds : IdleProc.seen[i] = NoReport
    BY DEF IdleProc, NothingFound
<1>2. IdleProc.op = "idle" /\ IdleProc.review = None
    BY DEF IdleProc
<1>3. Unsaved(IdleProc)
    BY <1>1, <1>2 DEF Unsaved
<1>. QED
    BY <1>1, <1>2, <1>3, IdleRecord, ModerateStep DEF ModerateVideo

LEMMA ModerateDoneStep ==
    ASSUME ModerationInv, NEW a \in Actors, ModerateDone(a)
    PROVE  ModerationInv'
<1> DEFINE p == proc[a]
           q == [p EXCEPT !.op = "review:events"]
<1>1. CASE p.review # None
    <2>1. p \in Proc /\ p.op = "moderate:manifests" /\ p.todo = {}
          /\ WellFormed(p) /\ Founded(p) /\ (a \notin overtaken => Current(p))
        BY DEF ModerateDone, ModerationInv, TypeOK
    <2>2. q \in Proc /\ q.op = "review:events" /\ q.vid = p.vid /\ q.mid = p.mid
          /\ q.person = p.person /\ q.review = p.review /\ q.content = p.content
          /\ q.seen = p.seen /\ q.events = p.events
        BY <2>1 DEF Proc, Ops
    <2>3. Go(a, q) /\ UNCHANGED dbVars
        BY <1>1 DEF ModerateDone
    <2> HIDE DEF p, q
    <2>4. WellFormed(q) /\ Founded(q)
        BY <1>1, <2>1, <2>2 DEF WellFormed, Founded
    <2>5. a \notin overtaken => Current(q)
        BY <1>1, <2>1, <2>2 DEF Current, Unsaved, Archived, Verified, Left
    <2>. QED
        BY <2>2, <2>3, <2>4, <2>5, RequestGoesOn DEF p
<1>. QED
    BY <1>1, RequestEnds DEF ModerateDone

-----------------------------------------------------------------------------
(* Videos and manifests change.                                             *)

\* What a request has found is still so when only another video changes.
LEMMA StillCurrentVideos ==
    ASSUME NEW b \in Actors, proc'[b] = proc[b], proc[b] \in Proc,
           Founded(proc[b]), Current(proc[b]),
           NEW v \in VideoIds, proc[b].vid # v,
           \A w \in VideoIds \ {v} : videos'[w] = videos[w],
           stored \ {v} \subseteq stored',
           proc[b].content \cap manifests' \subseteq manifests,
           UNCHANGED reports
    PROVE  Current(proc[b])'
<1> DEFINE p == proc[b]
<1>1. Unsaved(proc[b])'
    BY DEF Current, Unsaved, ReportsNaming
<1>2. p.review # None => p.vid \in VideoIds /\ videos'[p.vid] = videos[p.vid]
    <2>1. ASSUME p.review # None
          PROVE  p.vid \in VideoIds
        <3>1. p.review \in Review
            BY <2>1 DEF Proc
        <3>. QED
            BY <2>1, <3>1 DEF Founded, Review
    <2>. QED
        BY <2>1
<1>3. Left(proc[b])' \subseteq Left(p)
    BY DEF Left
<1>4. ASSUME p.review # None
      PROVE  Archived(proc[b])' /\ Verified(proc[b])'
    <2>1. Archived(p) /\ Verified(p)
        BY <1>4 DEF Current
    <2>2. Archived(proc[b])'
        BY <2>1 DEF Archived, ReportsNaming
    <2>3. Verified(proc[b])'
        BY <1>2, <1>3, <1>4, <2>1 DEF Verified
    <2>. QED
        BY <2>2, <2>3
<1>. QED
    BY <1>1, <1>4 DEF Current

\* A step that changes one video and its manifests, and overtakes the requests on it but
\* its own.
LEMMA VideoStep ==
    ASSUME ModerationInv, NEW v \in VideoIds, NEW S,
           proc' \in [Actors -> Proc], \A b \in Actors : WellFormed(proc[b])',
           UNCHANGED <<reports, raced>>, stored' \in SUBSET VideoIds, stored \ {v} \subseteq stored',
           videos' \in [VideoIds -> Video], \A w \in VideoIds \ {v} : videos'[w] = videos[w],
           manifests' \in SUBSET ManifestIds,
           manifests' \subseteq manifests \cup {m \in ManifestIds : m > published},
           published' \in 0 .. MaxManifests, published <= published',
           overtaken' \in SUBSET Actors,
           \A b \in Actors \ S :
              /\ proc'[b] = proc[b]
              /\ b \notin overtaken' => b \notin overtaken /\ proc[b].vid # v,
           \A b \in Actors \cap S : Kept(b),
           OneVideo'
    PROVE  ModerationInv'
<1>1. TypeOK'
    BY DEF ModerationInv, TypeOK
<1>2. ReportedOnce'
    BY DEF ModerationInv, ReportedOnce
<1>3. published \in Nat /\ published' \in Nat /\ proc \in [Actors -> Proc]
    BY Bounds DEF ModerationInv, TypeOK
<1>4. ASSUME NEW b \in Actors \ S
      PROVE  Kept(b)
    <2>1. proc'[b] = proc[b] /\ Founded(proc[b]) /\ (b \notin overtaken => Current(proc[b]))
        BY DEF ModerationInv
    <2>2. Founded(proc[b])'
        <3>1. \A i \in ReportIds : SameMatter(reports'[i], reports[i])
            BY DEF SameMatter
        <3>2. \A i \in ReportIds : reports[i] = NoReport => ~IsOf(i, proc[b].person, proc[b].mid)'
            BY DEF IsOf
        <3>. QED
            BY <1>3, <2>1, <3>1, <3>2, StillFounded
    <2>3. proc[b].content \cap manifests' \subseteq manifests
        <3>1. \A m \in proc[b].content : m <= published /\ m \in ManifestIds
            BY <1>3, <2>1 DEF Founded, Proc
        <3>2. \A m \in ManifestIds : m <= published => ~(m > published)
            BY <1>3 DEF ManifestIds
        <3>. QED
            BY <3>1, <3>2
    <2>4. b \notin overtaken' => Current(proc[b])'
        BY <1>3, <2>1, <2>3, StillCurrentVideos
    <2>. QED
        BY <2>2, <2>4 DEF Kept
<1>. QED
    BY <1>1, <1>2, <1>4 DEF ModerationInv, Kept

LEMMA SaveUnsuitableStep ==
    ASSUME ModerationInv, NEW a \in Actors, SaveUnsuitable(a)
    PROVE  ModerationInv'
<1> DEFINE p == proc[a]
           q == [p EXCEPT !.op = "moderate:manifests"]
           old == videos[p.vid]
<1>1. p \in Proc /\ p.op = "moderate:save" /\ WellFormed(p) /\ Founded(p)
      /\ (a \notin overtaken => Current(p))
      /\ videos \in [VideoIds -> Video] /\ proc \in [Actors -> Proc]
    BY DEF SaveUnsuitable, ModerationInv, TypeOK
<1>2. p.vid \in VideoIds /\ old \in Video
    BY <1>1 DEF WellFormed, Proc
<1>3. q \in Proc /\ q.op = "moderate:manifests" /\ q.vid = p.vid /\ q.mid = p.mid
      /\ q.person = p.person /\ q.review = p.review /\ q.content = p.content
      /\ q.seen = p.seen /\ q.events = p.events /\ q.todo = p.todo
    BY <1>1 DEF Proc, Ops
<1>4. PICK list \in {{}, old.list} :
         /\ p.vid \in stored => videos' = [videos EXCEPT ![p.vid] = [frozen |-> TRUE, list |-> list]]
         /\ p.vid \notin stored => videos' = videos
         /\ old.list \subseteq p.todo => list = {}
    <2>1. PICK whole \in SaveModes :
             videos' = IF p.vid \in stored
                    THEN [videos EXCEPT ![p.vid] =
                            [frozen |-> TRUE,
                             list |-> Written(whole, p.todo, {}, @.list)]]
                    ELSE videos
        BY DEF SaveUnsuitable
    <2> DEFINE list == Written(whole, p.todo, {}, old.list)
    <2>2. list \in {{}, old.list} /\ (old.list \subseteq p.todo => list = {})
        BY DEF Written
    <2>3. p.vid \in stored => videos' = [videos EXCEPT ![p.vid] = [frozen |-> TRUE, list |-> list]]
        BY <2>1
    <2>4. p.vid \notin stored => videos' = videos
        BY <2>1
    <2> HIDE DEF list
    <2>. QED
        BY <2>2, <2>3, <2>4
<1>5. /\ Become(a, q)
      /\ overtaken' = overtaken \cup (OnVideo(p.vid) \ {a})
      /\ UNCHANGED <<stored, manifests, published, reports, raced>>
    BY DEF SaveUnsuitable, Overtake
<1>6. \A b \in Actors : proc'[b] = IF b = a THEN q ELSE proc[b]
    BY <1>1, <1>5 DEF Become
<1>7. list \in SUBSET ManifestIds /\ list \subseteq old.list
    BY <1>2, <1>4 DEF Video
<1> HIDE DEF p, q
<1>8. /\ videos' \in [VideoIds -> Video]
      /\ \A w \in VideoIds \ {p.vid} : videos'[w] = videos[w]
      /\ \A w \in VideoIds : videos'[w].list \subseteq videos[w].list
      /\ p.vid \in stored => videos'[p.vid] = [frozen |-> TRUE, list |-> list]
    <2>1. CASE p.vid \notin stored
        BY <1>1, <1>4, <2>1
    <2>2. CASE p.vid \in stored
        <3> DEFINE new == [frozen |-> TRUE, list |-> list]
        <3>1. new \in Video /\ new.list = list
            BY <1>7 DEF Video
        <3>2. videos' = [videos EXCEPT ![p.vid] = new]
            BY <1>4, <2>2
        <3> HIDE DEF new
        <3>3. videos' \in [VideoIds -> Video] /\ videos'[p.vid] = new
              /\ \A w \in VideoIds \ {p.vid} : videos'[w] = videos[w]
            BY <1>1, <1>2, <3>1, <3>2
        <3>4. \A w \in VideoIds : videos'[w].list \subseteq videos[w].list
            BY <1>7, <3>1, <3>3
        <3>. QED
            BY <3>3, <3>4 DEF new
    <2>. QED
        BY <2>1, <2>2
<1>9. proc' \in [Actors -> Proc] /\ \A b \in Actors : WellFormed(proc[b])'
    <2>1. WellFormed(q)
        BY <1>1, <1>3 DEF WellFormed
    <2>2. \A b \in Actors : WellFormed(proc'[b])
        BY <1>6, <2>1 DEF ModerationInv, TypeOK
    <2>. QED
        BY <1>1, <1>3, <1>5, <2>2 DEF Become, WellFormed
<1>10. OneVideo'
    <2>1. \A b \in Actors : proc'[b].mid = proc[b].mid /\ proc'[b].vid = proc[b].vid
        BY <1>3, <1>6 DEF p
    <2>. QED
        BY <1>5, <1>8, <2>1, FewerClaims DEF ModerationInv
<1>11. Kept(a)
    <2>1. proc'[a] = q /\ (a \notin overtaken' => a \notin overtaken)
        BY <1>5, <1>6
    <2>2. Founded(proc[a])'
        BY <1>1, <1>3, <1>5, <2>1 DEF Founded
    <2>3. a \notin overtaken => Unsaved(proc[a])'
        BY <1>1, <1>3, <1>5, <2>1 DEF Current, Unsaved, ReportsNaming
    <2>4. a \notin overtaken /\ p.review # None => Archived(proc[a])'
        BY <1>1, <1>3, <1>5, <2>1 DEF Current, Archived, ReportsNaming
    <2>5. a \notin overtaken /\ p.review # None => Verified(proc[a])'
        <3>1. a \notin overtaken /\ p.review # None =>
                 p.vid \in stored /\ Left(p) \cup videos[p.vid].list \subseteq p.todo
            BY <1>1 DEF Current, Verified
        <3>2. Left(proc[a])' = Left(p)
            BY <1>3, <1>5, <2>1 DEF Left
        <3>3. a \notin overtaken /\ p.review # None => videos'[p.vid] = Emptied
            BY <1>4, <1>8, <3>1 DEF Emptied
        <3>. QED
            BY <1>3, <2>1, <3>1, <3>2, <3>3 DEF Verified, Emptied
    <2>. QED
        BY <1>3, <2>1, <2>2, <2>3, <2>4, <2>5 DEF Kept, Current
<1>12. overtaken' \in SUBSET Actors /\ stored' \in SUBSET VideoIds
       /\ published' \in 0 .. MaxManifests /\ published <= published'
       /\ manifests' \in SUBSET ManifestIds
    BY <1>5, Bounds DEF ModerationInv, TypeOK, OnVideo
<1>13. \A b \in Actors \ {a} :
          /\ proc'[b] = proc[b]
          /\ b \notin overtaken' => b \notin overtaken /\ proc[b].vid # p.vid
    BY <1>5, <1>6 DEF OnVideo
<1>. QED
    <2>1. UNCHANGED <<reports, raced>> /\ stored \ {p.vid} \subseteq stored'
        BY <1>5
    <2>2. manifests' \subseteq manifests \cup {m \in ManifestIds : m > published}
        BY <1>5
    <2>3. \A b \in Actors \cap {a} : Kept(b)
        BY <1>11
    <2>. QED
        BY <1>2, <1>8, <1>9, <1>10, <1>12, <1>13, <2>1, <2>2, <2>3, VideoStep

\* A manifest that is deleted is on no list, so what was left of a reviewed list is as far.
LEMMA DeleteManifestStep ==
    ASSUME ModerationInv, NEW a \in Actors, NEW m \in ManifestIds, DeleteManifest(a, m)
    PROVE  ModerationInv'
<1> DEFINE p == proc[a]
           q == [p EXCEPT !.todo = @ \ {m}]
<1>1. p \in Proc /\ p.op = "moderate:manifests" /\ WellFormed(p)
      /\ videos \in [VideoIds -> Video] /\ proc \in [Actors -> Proc]
    BY DEF DeleteManifest, ModerationInv, TypeOK
<1>2. q \in Proc /\ q.op = p.op /\ q.vid = p.vid /\ q.mid = p.mid
      /\ q.person = p.person /\ q.review = p.review /\ q.content = p.content
      /\ q.seen = p.seen /\ q.events = p.events /\ q.todo = p.todo \ {m}
    BY <1>1 DEF Proc
<1>3. /\ Become(a, q)
      /\ manifests' = manifests \ {m}
      /\ videos' = [v \in VideoIds |-> [videos[v] EXCEPT !.list = @ \ {m}]]
      /\ UNCHANGED <<stored, published, reports, overtaken, raced>>
    BY DEF DeleteManifest
<1> HIDE DEF q
<1>4. \A b \in Actors : proc'[b] = IF b = a THEN q ELSE proc[b]
    BY <1>1, <1>3 DEF Become
<1>5. \A v \in VideoIds : /\ videos'[v] \in Video
                          /\ videos'[v].frozen = videos[v].frozen
                          /\ videos'[v].list = videos[v].list \ {m}
                          /\ videos[v] = Emptied => videos'[v] = Emptied
    <2> SUFFICES ASSUME NEW v \in VideoIds
                 PROVE  /\ videos'[v] \in Video
                        /\ videos'[v].frozen = videos[v].frozen
                        /\ videos'[v].list = videos[v].list \ {m}
                        /\ videos[v] = Emptied => videos'[v] = Emptied
        OBVIOUS
    <2> DEFINE old == videos[v]
    <2>1. old \in Video /\ videos'[v] = [old EXCEPT !.list = @ \ {m}]
        BY <1>1, <1>3
    <2> HIDE DEF old
    <2>2. videos'[v] = [frozen |-> old.frozen, list |-> old.list \ {m}]
        BY <2>1 DEF Video
    <2>3. old.frozen \in BOOLEAN /\ old.list \in SUBSET ManifestIds
        BY <2>1 DEF Video
    <2>4. videos'[v] \in Video
        BY <2>2, <2>3 DEF Video
    <2>5. old = Emptied => videos'[v] = Emptied
        <3>1. Emptied.list = {} /\ Emptied.frozen = TRUE
            BY DEF Emptied
        <3>2. old = Emptied => old.list \ {m} = {} /\ old.frozen = TRUE
            BY <3>1
        <3>. QED
            BY <2>2, <3>2 DEF Emptied
    <2>. QED
        BY <2>2, <2>4, <2>5 DEF old
<1>6. TypeOK'
    <2>1. videos' \in [VideoIds -> Video]
        BY <1>3, <1>5
    <2>2. WellFormed(q) /\ q \in Proc
        BY <1>1, <1>2 DEF WellFormed
    <2>3. \A b \in Actors : WellFormed(proc'[b])
        BY <1>4, <2>2 DEF ModerationInv, TypeOK
    <2>4. proc' \in [Actors -> Proc]
        BY <1>1, <1>3, <2>2 DEF Become
    <2>5. \A b \in Actors : WellFormed(proc[b])'
        BY <2>3 DEF WellFormed
    <2>. QED
        BY <1>3, <2>1, <2>4, <2>5 DEF ModerationInv, TypeOK
<1>7. OneVideo'
    <2>1. \A b \in Actors : proc'[b].mid = proc[b].mid /\ proc'[b].vid = proc[b].vid
        BY <1>2, <1>4
    <2>. QED
        BY <1>3, <1>5, <2>1, FewerClaims DEF ModerationInv
<1>8. ReportedOnce'
    BY <1>3 DEF ModerationInv, ReportedOnce
<1>9. ASSUME NEW b \in Actors
      PROVE  Kept(b)
    <2> DEFINE r == proc[b]
    <2>1. /\ r \in Proc /\ Founded(r)
          /\ b \notin overtaken => Current(r)
        BY <1>1 DEF ModerationInv
    <2>2. /\ proc'[b].op = r.op /\ proc'[b].vid = r.vid /\ proc'[b].mid = r.mid
          /\ proc'[b].person = r.person /\ proc'[b].review = r.review
          /\ proc'[b].content = r.content /\ proc'[b].seen = r.seen
          /\ proc'[b].events = r.events /\ r.todo \ {m} \subseteq proc'[b].todo
        BY <1>2, <1>4
    <2>3. Founded(proc[b])'
        BY <1>3, <2>1, <2>2 DEF Founded, IsOf
    <2>4. b \notin overtaken => Unsaved(proc[b])'
        BY <1>3, <2>1, <2>2 DEF Current, Unsaved, ReportsNaming
    <2>5. b \notin overtaken /\ r.review # None => Archived(proc[b])'
        BY <1>3, <2>1, <2>2 DEF Current, Archived, ReportsNaming
    <2>6. ASSUME b \notin overtaken, r.review # None
          PROVE  Verified(proc[b])'
        <3>1. r.vid \in VideoIds
            <4>1. r.review \in Review
                BY <2>1, <2>6 DEF Proc
            <4>. QED
                BY <2>1, <2>6, <4>1 DEF Founded, Review
        <3>2. Left(proc[b])' = Left(r) \ {m}
            BY <1>3, <2>2 DEF Left
        <3>3. Verified(r)
            BY <2>1, <2>6 DEF Current
        <3>. QED
            BY <1>3, <1>5, <2>2, <3>1, <3>2, <3>3 DEF Verified
    <2>. QED
        BY <1>3, <2>2, <2>3, <2>4, <2>5, <2>6 DEF Kept, Current
<1>. QED
    BY <1>6, <1>7, <1>8, <1>9 DEF ModerationInv, Kept

\* A manifest that is published is known of no video before.
LEMMA PublishStep ==
    ASSUME ModerationInv, NEW v \in VideoIds, Publish(v)
    PROVE  ModerationInv'
<1> DEFINE n == published + 1
<1>1. /\ n \in ManifestIds /\ published' = n /\ manifests' = manifests \cup {n}
      /\ videos' = [videos EXCEPT ![v].list = @ \cup {n}]
      /\ overtaken' = overtaken \cup OnVideo(v)
      /\ UNCHANGED <<stored, reports, proc, raced>>
    BY DEF Publish
<1>2. published \in Nat /\ n > published /\ videos \in [VideoIds -> Video]
      /\ manifests \in SUBSET ManifestIds
    BY Bounds DEF ModerationInv, TypeOK
<1>3. /\ videos'[v] = [videos[v] EXCEPT !.list = @ \cup {n}]
      /\ \A w \in VideoIds \ {v} : videos'[w] = videos[w]
    BY <1>1, <1>2
<1>4. videos'[v] \in Video /\ videos'[v].list = videos[v].list \cup {n}
    BY <1>1, <1>2, <1>3 DEF Video
<1>5. videos' \in [VideoIds -> Video]
    BY <1>1, <1>2, <1>4
<1>6. n \in 0 .. MaxManifests
    BY <1>1, Bounds DEF ManifestIds
<1> HIDE DEF n
<1>7. ASSUME NEW m \in ManifestIds, NEW w \in VideoIds, Claimed(m, w)'
      PROVE  Claimed(m, w) \/ (m = n /\ w = v)
    BY <1>1, <1>3, <1>4, <1>7 DEF Claimed
<1>8. \A w \in VideoIds : ~Claimed(n, w)
    <2>1. ASSUME NEW w \in VideoIds, Claimed(n, w)
          PROVE  n <= published
        BY <1>1, <2>1 DEF ModerationInv, OneVideo
    <2>2. ~(n <= published)
        BY <1>2, <1>6
    <2>. QED
        BY <2>1, <2>2
<1>9. OneVideo'
    <2>1. ASSUME NEW m \in ManifestIds, NEW w \in VideoIds, Claimed(m, w)'
          PROVE  m <= published' /\ \A u \in VideoIds : Claimed(m, u)' => w = u
        <3>1. CASE m = n
            BY <1>1, <1>2, <1>6, <1>7, <1>8, <2>1, <3>1
        <3>2. CASE m # n
            <4>1. Claimed(m, w) /\ m <= published
                BY <1>7, <2>1, <3>2 DEF ModerationInv, OneVideo
            <4>2. m <= published'
                BY <1>1, <1>2, <4>1 DEF n, ManifestIds
            <4>. QED
                BY <1>7, <3>2, <4>1, <4>2 DEF ModerationInv, OneVideo
        <3>. QED
            BY <3>1, <3>2
    <2>. QED
        BY <2>1 DEF OneVideo
<1>10. proc' \in [Actors -> Proc] /\ \A b \in Actors : WellFormed(proc[b])'
    BY <1>1 DEF ModerationInv, TypeOK, WellFormed
<1>11. UNCHANGED <<reports, raced>> /\ stored \ {v} \subseteq stored'
       /\ stored' \in SUBSET VideoIds /\ overtaken' \in SUBSET Actors
    BY <1>1 DEF ModerationInv, TypeOK, OnVideo
<1>12. manifests' \in SUBSET ManifestIds
       /\ manifests' \subseteq manifests \cup {m \in ManifestIds : m > published}
    BY <1>1, <1>2
<1>13. published' \in 0 .. MaxManifests /\ published <= published'
    BY <1>1, <1>2, <1>6 DEF n
<1>14. \A b \in Actors \ {} :
          /\ proc'[b] = proc[b]
          /\ b \notin overtaken' => b \notin overtaken /\ proc[b].vid # v
    BY <1>1 DEF OnVideo
<1>15. \A b \in Actors \cap {} : Kept(b)
    OBVIOUS
<1>. QED
    BY <1>3, <1>5, <1>9, <1>10, <1>11, <1>12, <1>13, <1>14, <1>15, VideoStep

LEMMA DeleteVideoStep ==
    ASSUME ModerationInv, NEW v \in VideoIds, DeleteVideo(v)
    PROVE  ModerationInv'
<1>1. /\ stored' = stored \ {v} /\ manifests' = manifests \ videos[v].list
      /\ videos' = [videos EXCEPT ![v] = EmptyVideo]
      /\ overtaken' = overtaken \cup OnVideo(v)
      /\ UNCHANGED <<published, reports, proc, raced>>
    BY DEF DeleteVideo
<1>2. EmptyVideo \in Video /\ EmptyVideo.list = {}
    BY DEF EmptyVideo, Video
<1>3. /\ videos' \in [VideoIds -> Video] /\ videos'[v] = EmptyVideo
      /\ \A w \in VideoIds \ {v} : videos'[w] = videos[w]
    BY <1>1, <1>2 DEF ModerationInv, TypeOK
<1>4. OneVideo'
    <2>1. \A w \in VideoIds : videos'[w].list \subseteq videos[w].list
        BY <1>2, <1>3
    <2>. QED
        BY <1>1, <2>1, FewerClaims DEF ModerationInv
<1>5. proc' \in [Actors -> Proc] /\ \A b \in Actors : WellFormed(proc[b])'
    BY <1>1 DEF ModerationInv, TypeOK, WellFormed
<1>6. UNCHANGED <<reports, raced>> /\ stored \ {v} \subseteq stored'
      /\ stored' \in SUBSET VideoIds /\ overtaken' \in SUBSET Actors
      /\ manifests' \in SUBSET ManifestIds
    BY <1>1 DEF ModerationInv, TypeOK, OnVideo
<1>7. manifests' \subseteq manifests \cup {m \in ManifestIds : m > published}
    BY <1>1
<1>8. published' \in 0 .. MaxManifests /\ published <= published'
    BY <1>1, Bounds DEF ModerationInv, TypeOK
<1>9. \A b \in Actors \ {} :
          /\ proc'[b] = proc[b]
          /\ b \notin overtaken' => b \notin overtaken /\ proc[b].vid # v
    BY <1>1 DEF OnVideo
<1>10. \A b \in Actors \cap {} : Kept(b)
    OBVIOUS
<1>. QED
    BY <1>3, <1>4, <1>5, <1>6, <1>7, <1>8, <1>9, <1>10, VideoStep

-----------------------------------------------------------------------------

LEMMA ModerationInit == Init => ModerationInv
<1> SUFFICES ASSUME Init PROVE ModerationInv
    OBVIOUS
<1>1. /\ stored = VideoIds /\ proc = [a \in Actors |-> IdleProc]
      /\ overtaken = {} /\ raced = {}
    BY DEF Init
<1>2. EmptyVideo \in Video /\ EmptyVideo.list = {}
    BY DEF EmptyVideo, Video
<1>3. \A i \in ReportIds : NothingFound[i] = NoReport
    BY DEF NothingFound
<1>4. \A a \in Actors : proc[a] = IdleProc /\ proc[a].mid \notin ManifestIds
    BY <1>1, IdleRecord, Bounds
<1>5. (\A a \in Actors : WellFormed(proc[a]) /\ Founded(proc[a]) /\ Current(proc[a]))
      /\ proc \in [Actors -> Proc]
    BY <1>1, <1>4, IdleRecord
<1>6. SUFFICES /\ videos \in [VideoIds -> Video] /\ manifests \in SUBSET ManifestIds
               /\ published \in 0 .. MaxManifests /\ reports \in Reports
               /\ OneVideo /\ ReportedOnce
    BY <1>1, <1>5 DEF ModerationInv, TypeOK
<1>7. CASE /\ videos = [v \in VideoIds |-> EmptyVideo]
           /\ manifests = {} /\ published = 0 /\ reports = NothingFound
    <2>1. \A m \in ManifestIds, v \in VideoIds : ~Claimed(m, v)
        BY <1>2, <1>3, <1>4, <1>7 DEF Claimed
    <2>2. ReportedOnce
        BY <1>3, <1>7 DEF ReportedOnce
    <2>. QED
        BY <1>2, <1>7, <2>1, <2>2, IdleRecord, Bounds DEF OneVideo
<1>8. ASSUME NEW p \in Persons, NEW v \in VideoIds,
             videos = [w \in VideoIds |->
                         IF w = v THEN [EmptyVideo EXCEPT !.list = {1}] ELSE EmptyVideo],
             manifests = {1}, published = 1,
             reports = [NothingFound EXCEPT ![1] = LegacyReport(p, v)]
      PROVE  /\ videos \in [VideoIds -> Video] /\ manifests \in SUBSET ManifestIds
             /\ published \in 0 .. MaxManifests /\ reports \in Reports
             /\ OneVideo /\ ReportedOnce
    <2> DEFINE first == LegacyReport(p, v)
    <2>1. 1 \in ManifestIds /\ 1 \in ReportIds /\ 1 \in 0 .. MaxManifests
        BY Bounds DEF ManifestIds, ReportIds
    <2>2. first \in Report /\ first.vid = v /\ first.mid = 1
        BY <2>1 DEF LegacyReport, NewReport, Report
    <2>3. [EmptyVideo EXCEPT !.list = {1}] \in Video
          /\ [EmptyVideo EXCEPT !.list = {1}].list = {1}
        BY <2>1 DEF EmptyVideo, Video
    <2>4. videos \in [VideoIds -> Video] /\ videos[v].list = {1}
          /\ \A w \in VideoIds \ {v} : videos[w].list = {}
        BY <1>2, <1>8, <2>3
    <2> HIDE DEF first
    <2>5. reports \in Reports /\ reports[1] = first
          /\ \A i \in ReportIds \ {1} : reports[i] = NoReport
        <3>1. reports = [NothingFound EXCEPT ![1] = first]
            BY <1>8 DEF first
        <3>. QED
            BY <1>3, <2>1, <2>2, <3>1, IdleRecord DEF Reports
    <2>6. \A m \in ManifestIds, w \in VideoIds : Claimed(m, w) => m = 1 /\ w = v
        BY <1>4, <2>2, <2>4, <2>5 DEF Claimed
    <2>7. OneVideo
        BY <1>8, <2>6 DEF OneVideo
    <2>8. ReportedOnce
        BY <2>5 DEF ReportedOnce
    <2>. QED
        BY <1>8, <2>1, <2>4, <2>5, <2>7, <2>8
<1>. QED
    BY <1>7, <1>8 DEF Init

LEMMA ModerationStep == ModerationInv /\ [Next]_vars => ModerationInv'
<1> SUFFICES ASSUME ModerationInv, [Next]_vars PROVE ModerationInv'
    OBVIOUS
<1>1. ASSUME NEW a \in Actors, Begin(a) PROVE ModerationInv'
    BY <1>1, ReportVideoStep, ModerateVideoStep, ReadReviewedStep DEF Begin
<1>2. ASSUME NEW a \in Actors, Progress(a) PROVE ModerationInv'
    <2>1. CASE LoadManifests(a)
        BY <2>1, LoadManifestsStep
    <2>2. CASE LookupReport(a)
        BY <2>2, LookupReportStep
    <2>3. CASE CreateReport(a)
        BY <2>3, CreateReportStep
    <2>4. CASE SaveReport(a)
        BY <2>4, SaveReportStep
    <2>5. CASE CreateReview(a)
        BY <2>5, CreateReviewStep
    <2>6. CASE ArchiveReports(a)
        BY <2>6, ArchiveReportsStep
    <2>7. CASE SaveArchived(a)
        BY <2>7, SaveArchivedStep
    <2>8. CASE Verify(a)
        BY <2>8, VerifyStep
    <2>9. CASE ReviewDone(a)
        BY <2>9, RequestEnds DEF ReviewDone
    <2>10. CASE SaveUnsuitable(a)
        BY <2>10, SaveUnsuitableStep
    <2>11. CASE ModerateDone(a)
        BY <2>11, ModerateDoneStep
    <2>12. CASE \E m \in ManifestIds : DeleteManifest(a, m)
        BY <2>12, DeleteManifestStep
    <2>. QED
        BY <1>2, <2>1, <2>2, <2>3, <2>4, <2>5, <2>6, <2>7, <2>8, <2>9, <2>10, <2>11, <2>12
           DEF Progress
<1>3. ASSUME NEW a \in Actors, Crash(a) PROVE ModerationInv'
    BY <1>3, RequestEnds DEF Crash
<1>4. ASSUME NEW v \in VideoIds, Publish(v) PROVE ModerationInv'
    BY <1>4, PublishStep
<1>5. ASSUME NEW v \in VideoIds, DeleteVideo(v) PROVE ModerationInv'
    BY <1>5, DeleteVideoStep
<1>6. CASE UNCHANGED vars
    <2>1. TypeOK' /\ OneVideo' /\ ReportedOnce'
        BY <1>6 DEF vars, dbVars, ModerationInv, TypeOK, WellFormed, OneVideo, Claimed,
           ReportedOnce
    <2>2. ASSUME NEW b \in Actors
          PROVE  Kept(b)
        <3>1. Founded(proc[b]) /\ (b \notin overtaken => Current(proc[b]))
            BY DEF ModerationInv
        <3>. QED
            BY <3>1, <1>6 DEF vars, dbVars, Kept, Founded, Current, Unsaved, Archived, Verified,
               Left, IsOf, ReportsNaming
    <2>. QED
        BY <2>1, <2>2 DEF ModerationInv, Kept
<1>. QED
    BY <1>1, <1>2, <1>3, <1>4, <1>5, <1>6 DEF Next

LEMMA ModerationInvariant == Spec => []ModerationInv
<1>. QED
    BY ModerationInit, ModerationStep, PTL DEF Spec

\* The type invariant of Moderation: videos, manifests and reports are of their shape, no
\* more than the bounds allow, and a request knows what its step is going to use.
THEOREM ModerationTypes == Spec => []TypeOK
<1>1. ModerationInv => TypeOK
    BY DEF ModerationInv
<1>. QED
    BY <1>1, ModerationInvariant, PTL

\* A person reports a manifest once, unless two requests of the person found no report of
\* it and created one each.
THEOREM ReportsAreUnique == Spec => []ReportedOnce
<1>1. ModerationInv => ReportedOnce
    BY DEF ModerationInv
<1>. QED
    BY <1>1, ModerationInvariant, PTL

-----------------------------------------------------------------------------
(* What a review has done, and what no step does to a report.               *)

\* A review that no other request overtook has archived the reports of the video when it
\* is over and, if it was negative, frozen the video and deleted the manifests it listed.
THEOREM ReviewsTakeEffect == Spec => ReviewTakesEffect
<1>1. ASSUME ModerationInv, NEW a \in Actors, ReviewDone(a), a \notin overtaken
      PROVE  LET p == proc[a] IN
             /\ \A i \in ReportsNaming(p.vid) : reports[i].archived
             /\ ~p.review.isValid =>
                   /\ videos[p.vid] = [frozen |-> TRUE, list |-> {}]
                   /\ p.content \cap manifests = {}
    <2> DEFINE p == proc[a]
    <2>1. WellFormed(p) /\ Current(p) /\ p.op = "review:events" /\ p.events = {}
        BY <1>1 DEF ModerationInv, TypeOK, ReviewDone
    <2>2. p.review # None
        BY <2>1 DEF WellFormed
    <2>3. \A i \in ReportsNaming(p.vid) : reports[i].archived
        BY <2>1, <2>2 DEF Current, Archived
    <2>4. ~p.review.isValid => videos[p.vid] = Emptied /\ Left(p) = {}
        BY <2>1, <2>2 DEF Current, Verified
    <2>. QED
        BY <2>3, <2>4 DEF Emptied, Left
<1>2. ModerationInv /\ [Next]_vars =>
         [\A a \in Actors :
            ReviewDone(a) /\ a \notin overtaken =>
               LET p == proc[a] IN
               /\ \A i \in ReportsNaming(p.vid) : reports[i].archived
               /\ ~p.review.isValid =>
                     /\ videos[p.vid] = [frozen |-> TRUE, list |-> {}]
                     /\ p.content \cap manifests = {}]_vars
    BY <1>1
<1>. QED
    BY <1>2, ModerationInvariant, PTL DEF Spec, ReviewTakesEffect

\* What the steps leave of a report: all of it, or all but what a save changes.
LEMMA ReportsInAStep ==
    ASSUME ModerationInv, [Next]_vars, NEW i \in ReportIds, reports[i] # NoReport
    PROVE  \/ reports'[i] = reports[i]
           \/ \E a \in Actors :
                 /\ SaveReport(a) \/ SaveArchived(a)
                 /\ proc[a].seen[i] # NoReport
                 /\ reports'[i] \in Report /\ SameMatter(reports'[i], reports[i])
<1>1. ASSUME NEW a \in Actors, SaveReport(a) \/ SaveArchived(a)
      PROVE  reports'[i] = reports[i] \/
               /\ proc[a].seen[i] # NoReport
               /\ reports'[i] \in Report /\ SameMatter(reports'[i], reports[i])
    BY <1>1, SavedReports DEF SaveReport, SaveArchived
<1>2. ASSUME NEW a \in Actors, CreateReport(a)
      PROVE  reports'[i] = reports[i]
    BY <1>2 DEF CreateReport, ModerationInv, TypeOK, Reports
<1>3. ASSUME NEW a \in Actors, Begin(a) \/ Crash(a)
      PROVE  reports' = reports
    BY <1>3 DEF Begin, Crash, ReportVideo, ReadReviewed, ModerateVideo, dbVars
<1>4. ASSUME NEW a \in Actors, Progress(a), ~SaveReport(a), ~SaveArchived(a), ~CreateReport(a)
      PROVE  reports' = reports
    BY <1>4 DEF Progress, LoadManifests, LookupReport, CreateReview, ArchiveReports, Verify,
       ReviewDone, SaveUnsuitable, ModerateDone, DeleteManifest, dbVars
<1>5. ASSUME NEW v \in VideoIds, Publish(v) \/ DeleteVideo(v)
      PROVE  reports' = reports
    BY <1>5 DEF Publish, DeleteVideo
<1>6. CASE UNCHANGED vars
    BY <1>6 DEF vars, dbVars
<1>. QED
    BY <1>1, <1>2, <1>3, <1>4, <1>5, <1>6 DEF Next

\* What a save by a request that nothing overtook leaves of a report it had read.
LEMMA CurrentSave ==
    ASSUME ModerationInv, NEW a \in Actors, a \notin overtaken, SaveReport(a) \/ SaveArchived(a),
           NEW i \in ReportIds, proc[a].seen[i] # NoReport
    PROVE  /\ reports[i].archived => reports'[i].archived
           /\ reports[i].text = "later" => reports'[i].text = "later"
           /\ reports[i].names = "video" => reports'[i].names = "video"
<1>1. reports \in Reports /\ proc[a].seen \in Reports /\ reports[i] # NoReport
    BY DEF ModerationInv, TypeOK, Proc, Founded
<1>2. /\ proc[a].seen[i].archived = reports[i].archived
      /\ proc[a].seen[i].text = reports[i].text
      /\ reports[i].names = "video" => proc[a].seen[i].names = "video"
    BY DEF ModerationInv, Current, Unsaved
<1>3. CASE SaveReport(a)
    BY <1>1, <1>2, <1>3, DescriptionSaved DEF SaveReport
<1>4. CASE SaveArchived(a)
    BY <1>1, <1>2, <1>4, ArchivedSaved DEF SaveArchived
<1>. QED
    BY <1>3, <1>4

\* An archived report stays archived and a changed description stays, unless a request
\* saves the report that read it before.
THEOREM ArchivedReportsStay == Spec => ArchivedStays
<1>1. ASSUME ModerationInv, [Next]_vars, NEW i \in ReportIds, reports[i] # NoReport
      PROVE  \/ /\ reports[i].archived => reports'[i].archived
                /\ reports[i].text = "later" => reports'[i].text = "later"
             \/ \E a \in overtaken : SaveReport(a) \/ SaveArchived(a)
    BY <1>1, ReportsInAStep, CurrentSave
<1>2. ModerationInv /\ [Next]_vars =>
         [\A i \in ReportIds :
            LET r == reports'[i] IN
            reports[i] # NoReport /\ r # NoReport =>
               \/ /\ reports[i].archived => r.archived
                  /\ reports[i].text = "later" => r.text = "later"
               \/ \E a \in overtaken : SaveReport(a) \/ SaveArchived(a)]_vars
    BY <1>1
<1>. QED
    BY <1>2, ModerationInvariant, PTL DEF Spec, ArchivedStays

\* No step makes a report vanish or changes what it is of, and only a save of what was read
\* before takes away the video it names.
THEOREM ReportsSurvive == Spec => RecordsSurvive
<1>1. ASSUME ModerationInv, [Next]_vars, NEW i \in ReportIds, reports[i] # NoReport
      PROVE  /\ reports'[i] # NoReport
             /\ \/ reports[i].names = "video" => reports'[i].names = "video"
                \/ \E a \in overtaken : SaveReport(a)
             /\ SameMatter(reports'[i], reports[i])
    <2>1. CASE reports'[i] = reports[i]
        BY <1>1, <2>1 DEF SameMatter
    <2>2. ASSUME NEW a \in Actors, SaveReport(a) \/ SaveArchived(a),
                 proc[a].seen[i] # NoReport,
                 reports'[i] \in Report, SameMatter(reports'[i], reports[i])
          PROVE  /\ reports'[i] # NoReport
                 /\ \/ reports[i].names = "video" => reports'[i].names = "video"
                    \/ \E b \in overtaken : SaveReport(b)
        <3>1. reports'[i] # NoReport
            BY <2>2, ReportIsThere
        <3>2. CASE a \in overtaken /\ SaveArchived(a)
            <4>1. reports \in Reports /\ proc[a].seen \in Reports
                  /\ proc[a].seen[i].names = "video"
                BY <1>1, <2>2, <3>2 DEF SaveArchived, ModerationInv, TypeOK, Proc, Founded
            <4>2. reports'[i].names \in {reports[i].names, "video"}
                BY <1>1, <2>2, <3>2, <4>1, ArchivedSaved DEF SaveArchived
            <4>. QED
                BY <3>1, <4>2
        <3>. QED
            BY <1>1, <2>2, <3>1, <3>2, CurrentSave
    <2>. QED
        BY <1>1, <2>1, <2>2, ReportsInAStep
<1>2. ModerationInv /\ [Next]_vars =>
         [\A i \in ReportIds :
            reports[i] # NoReport =>
               /\ reports'[i] # NoReport
               /\ \/ reports[i].names = "video" => reports'[i].names = "video"
                  \/ \E a \in overtaken : SaveReport(a)
               /\ \A field \in {"vid", "mid", "reporter"} :
                      reports'[i][field] = reports[i][field]]_vars
    BY <1>1 DEF SameMatter
<1>. QED
    BY <1>2, ModerationInvariant, PTL DEF Spec, RecordsSurvive

=============================================================================
