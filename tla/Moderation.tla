----------------------------- MODULE Moderation -----------------------------
(***************************************************************************)
(* Reports of unsuitable videos, and the manual reviews that settle them.  *)
(*                                                                         *)
(* A user reports a manifest of a video; a moderator reviews the video,    *)
(* and the event handlers of the review archive the reports and, when the  *)
(* review is negative, take the video's content away.                      *)
(*                                                                         *)
(* An actor is a request; its steps are the awaits, and steps of different *)
(* requests interleave.  Of videos and manifests this module keeps what    *)
(* the handlers act on: publishing a manifest and deleting a video are one *)
(* step here, and VideoStore has their steps and what becomes of their     *)
(* validation.  As there, SaveModes says whether a save replaces the whole *)
(* document or the members that changed, a save of a document that is gone *)
(* does nothing, and a read sees what the database holds.                  *)
(*                                                                         *)
(* The reviews themselves are only ever added to, and read by the history  *)
(* of the admin page: a review is here what its handlers make of it.       *)
(***************************************************************************)
EXTENDS Integers, FiniteSets

CONSTANTS Actors,        \* requests that can be in progress
          Persons,       \* shared user infos of those who report
          VideoIds,
          None,
          MaxManifests,  \* bound: manifests ever published
          MaxReports,    \* bound: reports ever created
          SaveModes,     \* does a save replace the whole document?
          Crashes        \* may a request be cut off?

ASSUME ModerationAssumption ==
    /\ MaxManifests \in Nat \ {0} /\ MaxReports \in Nat \ {0}
    /\ SaveModes \in SUBSET BOOLEAN
    /\ Crashes \in BOOLEAN
    /\ None \notin Persons \cup VideoIds
    /\ None \notin [vid: VideoIds, isValid: BOOLEAN]

ManifestIds == 1 .. MaxManifests
ReportIds == 1 .. MaxReports
NoId == 0

VARIABLES stored,     \* the videos not deleted
          videos,     \* of each, whether it is frozen, and its manifests
          manifests,  \* the manifest documents
          published,  \* how many manifests were ever published
          reports,    \* the reports, in creation order
          proc,       \* what each actor is doing
          overtaken,  \* history: requests whose video another one changed since
          raced       \* history: what a person reported in two requests at once

dbVars == <<stored, videos, manifests, published, reports>>
vars == <<dbVars, proc, overtaken, raced>>

-----------------------------------------------------------------------------

Video == [frozen: BOOLEAN, list: SUBSET ManifestIds]
EmptyVideo == [frozen |-> FALSE, list |-> {}]

\* A report is of a video, which its document names; one written by an older version
\* does not, and one read when the video could not be found names none for good.
NoReport == [vid |-> None]
Report == [vid: VideoIds, mid: ManifestIds, reporter: Persons,
           text: {"first", "later"}, archived: BOOLEAN,
           names: {"video", "older schema", "nothing"}]
Reports == [ReportIds -> Report \cup {NoReport}]

Review == [vid: VideoIds, isValid: BOOLEAN]

Ops == {"idle", "report:load", "report:lookup", "report:create", "report:save",
        "review:create", "review:events", "archive:save",
        "moderate:save", "moderate:manifests"}

Proc == [op: Ops,
         vid: VideoIds \cup {None},
         mid: ManifestIds \cup {NoId},
         person: Persons \cup {None},
         seen: Reports,                        \* the reports found, as they were read
         review: Review \cup {None},           \* the review that goes on
         content: SUBSET ManifestIds,          \* history: what it is a review of
         events: SUBSET {"archive", "verify"}, \* its handlers still to run
         todo: SUBSET ManifestIds]             \* the list read, still to be deleted

NothingFound == [i \in ReportIds |-> NoReport]

IdleProc == [op |-> "idle", vid |-> None, mid |-> NoId, person |-> None,
             seen |-> NothingFound, review |-> None,
             content |-> {}, events |-> {}, todo |-> {}]

Idle(a) == proc[a].op = "idle"
Become(a, p) == proc' = [proc EXCEPT ![a] = p]

\* A step of a request that only reads, and its end.
Go(a, p) == Become(a, p) /\ UNCHANGED <<overtaken, raced>>
End(a) == Become(a, IdleProc) /\ overtaken' = overtaken \ {a} /\ UNCHANGED raced

\* The other requests at work on a video are overtaken when actor a changes it.
OnVideo(v) == {b \in Actors : proc[b].vid = v}
Overtake(a, v) == overtaken' = overtaken \cup (OnVideo(v) \ {a})

NewReport(p, v, m) == [vid |-> v, mid |-> m, reporter |-> p, text |-> "first",
                       archived |-> FALSE, names |-> "video"]

\* A report of the first manifest, stored by a version that did not name the video.
LegacyReport(p, v) == [NewReport(p, v, 1) EXCEPT !.names = "older schema"]

\* Nothing has happened yet, or a video was published and reported long ago.
Init ==
    /\ stored = VideoIds
    /\ \/ /\ videos = [v \in VideoIds |-> EmptyVideo]
          /\ manifests = {}
          /\ published = 0
          /\ reports = NothingFound
       \/ \E p \in Persons, v \in VideoIds :
          /\ videos = [w \in VideoIds |->
                         IF w = v THEN [EmptyVideo EXCEPT !.list = {1}] ELSE EmptyVideo]
          /\ manifests = {1}
          /\ published = 1
          /\ reports = [NothingFound EXCEPT ![1] = LegacyReport(p, v)]
    /\ proc = [a \in Actors |-> IdleProc]
    /\ overtaken = {}
    /\ raced = {}

-----------------------------------------------------------------------------
(* ReportVideoAsync.                                                        *)

\* The video is read, with a list that has the manifest.
ReportVideo(a, p, v, m) ==
    /\ Idle(a)
    /\ v \in stored /\ m \in videos[v].list
    /\ Go(a, [IdleProc EXCEPT !.op = "report:load", !.vid = v, !.mid = m, !.person = p])
    /\ UNCHANGED dbVars

\* The references of its manifests are loaded: one that is gone meanwhile has none, and
\* the request fails.
LoadManifests(a) ==
    /\ proc[a].op = "report:load"
    /\ IF proc[a].mid \in manifests
       THEN Go(a, [proc[a] EXCEPT !.op = "report:lookup"])
       ELSE End(a)
    /\ UNCHANGED dbVars

\* The reports by this person of this manifest, whether archived or not.
ReportsOf(p, m) ==
    {i \in ReportIds : reports[i] # NoReport /\ reports[i].reporter = p
                       /\ reports[i].mid = m}

\* A report is read: what an older version left out is looked up, among the videos that
\* list the manifest now.
Read(r) ==
    IF r.names # "older schema" THEN r
    ELSE [r EXCEPT !.names = IF \E v \in stored : r.mid \in videos[v].list
                             THEN "video" ELSE "nothing"]

Found(ids) == [i \in ReportIds |-> IF i \in ids THEN Read(reports[i]) ELSE NoReport]

\* Mutation of LookupReport: reports that were archived are not looked at.
LookupOpenReport(a) ==
    LET p == proc[a]
        open == {i \in ReportsOf(p.person, p.mid) : ~reports[i].archived}
    IN
    /\ p.op = "report:lookup"
    /\ IF open = {}
       THEN Go(a, [p EXCEPT !.op = "report:create"])
       ELSE \E i \in open : Go(a, [p EXCEPT !.op = "report:save", !.seen = Found({i})])
    /\ UNCHANGED dbVars

\* A report by this person of this manifest is changed, or the first one created.
LookupReport(a) ==
    LET p == proc[a] IN
    /\ p.op = "report:lookup"
    /\ IF ReportsOf(p.person, p.mid) = {}
       THEN Go(a, [p EXCEPT !.op = "report:create"])
       ELSE \E i \in ReportsOf(p.person, p.mid) :
               Go(a, [p EXCEPT !.op = "report:save", !.seen = Found({i})])
    /\ UNCHANGED dbVars

\* No index keeps two requests from creating the same report.
CreateReport(a) ==
    LET p == proc[a]
        same == {b \in Actors \ {a} : /\ proc[b].op = "report:create"
                                      /\ proc[b].person = p.person /\ proc[b].mid = p.mid}
    IN
    /\ p.op = "report:create"
    /\ \E i \in ReportIds :
          /\ reports[i] = NoReport
          /\ \A k \in ReportIds : k < i => reports[k] # NoReport
          /\ reports' = [reports EXCEPT ![i] = NewReport(p.person, p.vid, p.mid)]
    /\ Become(a, IdleProc)
    /\ overtaken' = (overtaken \cup OnVideo(p.vid)) \ {a}
    /\ raced' = IF same = {} THEN raced ELSE raced \cup {<<p.person, p.mid>>}
    /\ UNCHANGED <<stored, videos, manifests, published>>

Written(whole, read, model, old) == IF whole \/ model # read THEN model ELSE old

\* SaveChangesAsync of the reports read as `seen', all changed by Change in one save.
SaveReports(seen, Change(_)) ==
    \E whole \in SaveModes :
        reports' = [i \in ReportIds |->
            IF seen[i] = NoReport THEN reports[i]
            ELSE [reports[i] EXCEPT
                     !.names = IF whole THEN seen[i].names ELSE @,
                     !.text = Written(whole, seen[i].text, Change(seen[i]).text, @),
                     !.archived = Written(whole, seen[i].archived,
                                          Change(seen[i]).archived, @)]]

\* Mutation of ChangeDescription: a report that is changed is open again.
Reopen(r) == [r EXCEPT !.text = "later", !.archived = FALSE]

ChangeDescription(r) == [r EXCEPT !.text = "later"]

SetArchived(r) == [r EXCEPT !.archived = TRUE]

SaveReport(a) ==
    /\ proc[a].op = "report:save"
    /\ SaveReports(proc[a].seen, ChangeDescription)
    /\ Become(a, IdleProc)
    /\ overtaken' = (overtaken \cup OnVideo(proc[a].vid)) \ {a}
    /\ UNCHANGED <<stored, videos, manifests, published, raced>>

-----------------------------------------------------------------------------
(* CreateReviewAsync of the admin page, and the handlers of its event.      *)

\* The moderator's page reads the video.
ReadReviewed(a, v, isValid) ==
    /\ Idle(a)
    /\ v \in stored
    /\ Go(a, [IdleProc EXCEPT !.op = "review:create", !.vid = v,
                              !.review = [vid |-> v, isValid |-> isValid],
                              !.content = videos[v].list])
    /\ UNCHANGED dbVars

\* The review is created, and its event dispatched to both handlers.
CreateReview(a) ==
    /\ proc[a].op = "review:create"
    /\ Go(a, [proc[a] EXCEPT !.op = "review:events", !.events = {"archive", "verify"}])
    /\ UNCHANGED dbVars

\* Mutation of ArchiveReports: only reports on manifests the video still lists.
ArchiveListed(a) ==
    LET p == proc[a] IN
    /\ p.op = "review:events" /\ "archive" \in p.events
    /\ Go(a, [p EXCEPT !.op = "archive:save", !.events = @ \ {"archive"},
                       !.seen = Found({i \in ReportIds : /\ reports[i].vid = p.vid
                                                         /\ reports[i].names = "video"
                                                         /\ reports[i].mid \in videos[p.vid].list})])
    /\ UNCHANGED dbVars

\* The reports that a query by video finds.
ReportsNaming(v) == {i \in ReportIds : reports[i].vid = v /\ reports[i].names = "video"}

\* OnManualVideoReviewCreatedThenArchiveRelatedVideoReports: the reports of the video
\* are read, whatever the result.
ArchiveReports(a) ==
    LET p == proc[a] IN
    /\ p.op = "review:events" /\ "archive" \in p.events
    /\ Go(a, [p EXCEPT !.op = "archive:save", !.events = @ \ {"archive"},
                       !.seen = Found(ReportsNaming(p.vid))])
    /\ UNCHANGED dbVars

SaveArchived(a) ==
    /\ proc[a].op = "archive:save"
    /\ SaveReports(proc[a].seen, SetArchived)
    /\ Become(a, [proc[a] EXCEPT !.op = "review:events", !.seen = NothingFound])
    /\ Overtake(a, proc[a].vid)
    /\ UNCHANGED <<stored, videos, manifests, published, raced>>

\* Mutation of Moderate: what to delete is listed after the list was cleared.
ModerateLate(a, p, v) ==
    IF v \in stored
    THEN Go(a, [p EXCEPT !.op = "moderate:save", !.vid = v])
    ELSE End(a)

\* ModerateUnsuitableVideoAsync begins: the video, and the list to delete.
Moderate(a, p, v) ==
    IF v \in stored
    THEN Go(a, [p EXCEPT !.op = "moderate:save", !.vid = v, !.todo = videos[v].list])
    ELSE End(a)

\* OnManualVideoReviewCreatedThenVerifyIfRemoveVideoManifests: a negative review
\* moderates the video, and fails when it is gone.
Verify(a) ==
    LET p == [proc[a] EXCEPT !.events = @ \ {"verify"}] IN
    /\ proc[a].op = "review:events" /\ "verify" \in proc[a].events
    /\ IF p.review.isValid THEN Go(a, p) ELSE Moderate(a, p, p.vid)
    /\ UNCHANGED dbVars

\* Both handlers have run.
ReviewDone(a) ==
    /\ proc[a].op = "review:events" /\ proc[a].events = {}
    /\ End(a)
    /\ UNCHANGED dbVars

-----------------------------------------------------------------------------
(* ModerateVideoAsync, and VideoService.ModerateUnsuitableVideoAsync.       *)

ModerateVideo(a, v) ==
    /\ Idle(a)
    /\ v \in stored
    /\ Moderate(a, IdleProc, v)
    /\ UNCHANGED dbVars

\* SetAsUnsuitable is saved.
SaveUnsuitable(a) ==
    LET p == proc[a] IN
    /\ p.op = "moderate:save"
    /\ \E whole \in SaveModes :
          videos' = IF p.vid \in stored
                    THEN [videos EXCEPT ![p.vid] =
                            [frozen |-> TRUE,
                             list |-> Written(whole, p.todo, {}, @.list)]]
                    ELSE videos
    /\ Become(a, [p EXCEPT !.op = "moderate:manifests"])
    /\ Overtake(a, p.vid)
    /\ UNCHANGED <<stored, manifests, published, reports, raced>>

\* The manifests of the list saved before are deleted one by one.
DeleteManifest(a, m) ==
    /\ proc[a].op = "moderate:manifests" /\ m \in proc[a].todo
    /\ manifests' = manifests \ {m}
    /\ videos' = [v \in VideoIds |-> [videos[v] EXCEPT !.list = @ \ {m}]]
    /\ Become(a, [proc[a] EXCEPT !.todo = @ \ {m}])
    /\ UNCHANGED <<stored, published, reports, overtaken, raced>>

\* Mutation of ModerateDone: every moderation goes on with the handlers of a review.
ModerateForReview(a) ==
    /\ proc[a].op = "moderate:manifests" /\ proc[a].todo = {}
    /\ Go(a, [proc[a] EXCEPT !.op = "review:events"])
    /\ UNCHANGED dbVars

\* The request ends, or goes on with the handlers of its review.
ModerateDone(a) ==
    /\ proc[a].op = "moderate:manifests" /\ proc[a].todo = {}
    /\ IF proc[a].review = None THEN End(a)
       ELSE Go(a, [proc[a] EXCEPT !.op = "review:events"])
    /\ UNCHANGED dbVars

-----------------------------------------------------------------------------
(* What the owner does meanwhile.                                           *)

\* A manifest is added to a video that is not frozen.
Publish(v) ==
    LET m == published + 1 IN
    /\ m \in ManifestIds
    /\ v \in stored /\ ~videos[v].frozen
    /\ published' = m
    /\ manifests' = manifests \cup {m}
    /\ videos' = [videos EXCEPT ![v].list = @ \cup {m}]
    /\ overtaken' = overtaken \cup OnVideo(v)
    /\ UNCHANGED <<stored, reports, proc, raced>>

\* Mutation of DeleteVideo: the reports go with the video.
DeleteVideoAndReports(v) ==
    /\ v \in stored
    /\ stored' = stored \ {v}
    /\ manifests' = manifests \ videos[v].list
    /\ videos' = [videos EXCEPT ![v] = EmptyVideo]
    /\ reports' = [i \in ReportIds |-> IF reports[i].vid = v THEN NoReport ELSE reports[i]]
    /\ overtaken' = overtaken \cup OnVideo(v)
    /\ UNCHANGED <<published, proc, raced>>

\* The video is deleted with its manifests; reports and reviews map both with
\* OriginDeleteMode.KeepReference.
DeleteVideo(v) ==
    /\ v \in stored
    /\ stored' = stored \ {v}
    /\ manifests' = manifests \ videos[v].list
    /\ videos' = [videos EXCEPT ![v] = EmptyVideo]
    /\ overtaken' = overtaken \cup OnVideo(v)
    /\ UNCHANGED <<published, reports, proc, raced>>

\* A request is cut off, or one of its calls throws: what it did stays done.
Crash(a) ==
    /\ ~Idle(a) /\ Crashes
    /\ End(a)
    /\ UNCHANGED dbVars

-----------------------------------------------------------------------------

Begin(a) ==
    \/ \E p \in Persons, v \in VideoIds, m \in ManifestIds : ReportVideo(a, p, v, m)
    \/ \E v \in VideoIds :
          ModerateVideo(a, v) \/ \E isValid \in BOOLEAN : ReadReviewed(a, v, isValid)

Progress(a) ==
    \/ LoadManifests(a) \/ LookupReport(a) \/ CreateReport(a) \/ SaveReport(a)
    \/ CreateReview(a) \/ ArchiveReports(a) \/ SaveArchived(a)
    \/ Verify(a) \/ ReviewDone(a)
    \/ SaveUnsuitable(a) \/ ModerateDone(a)
    \/ \E m \in ManifestIds : DeleteManifest(a, m)

Next ==
    \/ \E a \in Actors : Begin(a) \/ Progress(a) \/ Crash(a)
    \/ \E v \in VideoIds : Publish(v) \/ DeleteVideo(v)

Spec == Init /\ [][Next]_vars

-----------------------------------------------------------------------------

\* What each step needs to know is known.
WellFormed(p) ==
    /\ p.op # "idle" => p.vid # None
    /\ p.op \in {"report:lookup", "report:create"} => p.mid # NoId /\ p.person # None
    /\ p.op \in {"review:create", "review:events", "archive:save"} => p.review # None

TypeOK ==
    /\ stored \in SUBSET VideoIds
    /\ videos \in [VideoIds -> Video]
    /\ manifests \in SUBSET ManifestIds
    /\ published \in 0 .. MaxManifests
    /\ reports \in Reports
    /\ proc \in [Actors -> Proc]
    /\ \A a \in Actors : WellFormed(proc[a])
    /\ overtaken \in SUBSET Actors
    /\ raced \in SUBSET (Persons \X ManifestIds)

(* When a review that no other request overtook is done, it has taken        *)
(* effect, in whatever order its handlers ran: every report that names the   *)
(* video is archived and, after a negative one, the video is frozen, lists nothing,   *)
(* and no manifest that it listed when it was reviewed exists any more.      *)
ReviewTakesEffect ==
    [][\A a \in Actors :
          ReviewDone(a) /\ a \notin overtaken =>
             LET p == proc[a] IN
             /\ \A i \in ReportsNaming(p.vid) : reports[i].archived
             /\ ~p.review.isValid =>
                   /\ videos[p.vid] = [frozen |-> TRUE, list |-> {}]
                   /\ p.content \cap manifests = {}]_vars

(* A report once archived stays so, and off the moderators' page, unless a   *)
(* request saves it that read it before: a second report by the same person  *)
(* does not open it again.  Nor does a review lose a description changed     *)
(* meanwhile, unless it had read the report before the change.               *)
ArchivedStays ==
    [][\A i \in ReportIds :
          LET r == reports'[i] IN
          reports[i] # NoReport /\ r # NoReport =>
             \/ /\ reports[i].archived => r.archived
                /\ reports[i].text = "later" => r.text = "later"
             \/ \E a \in overtaken : SaveReport(a) \/ SaveArchived(a)]_vars

(* A person has one report on a manifest, which later requests change: two   *)
(* only if two requests found none and created it at once, which no index    *)
(* prevents.                                                                 *)
ReportedOnce ==
    \A i, k \in ReportIds :
        /\ reports[i] # NoReport /\ reports[k] # NoReport
        /\ reports[i].reporter = reports[k].reporter /\ reports[i].mid = reports[k].mid
        => i = k \/ <<reports[i].reporter, reports[i].mid>> \in raced

(* UnsuitableReportMap, "moderation records survive the deletion of the      *)
(* reported video and manifest": no deletion, moderation or stale save makes *)
(* a report vanish, changes what it is of, or takes away the video it names; *)
(* only a request that read an older schema before another one saved it may. *)
RecordsSurvive ==
    [][\A i \in ReportIds :
          reports[i] # NoReport =>
             /\ reports'[i] # NoReport
             /\ \/ reports[i].names = "video" => reports'[i].names = "video"
                \/ \E a \in overtaken : SaveReport(a)
             /\ \A field \in {"vid", "mid", "reporter"} :
                    reports'[i][field] = reports[i][field]]_vars

=============================================================================
