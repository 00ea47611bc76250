# Etherna Index: formal models

TLA+ models of Etherna Index, the service that registers the manifests of
videos published on Swarm, validates them, and makes the videos searchable,
commentable and subject to moderation. TLC checks the models on small
instances; for all instances, TLAPS proves every safety property that a passing run checks, under
the same limits (one actor, no crashes) where the run has them.

Paths below are those of the repository, with `Domain` for
`src/src/EthernaIndex.Domain`, and so on.

## The system

| Part | State it keeps | Operations | Hard because |
|---|---|---|---|
| Video aggregate (`Domain/Models/Video.cs`, `VideoAgg/VideoManifest.cs`) | frozen flag, list of manifests, last valid manifest; validity of each manifest | add a manifest, succeed or fail its validation, set as unsuitable | the last valid manifest is recomputed from members loaded separately |
| Publication, validation, deletion (`Areas/Api/IndexApiHandler.cs`, `Services/Domain/VideoService.cs`, `Services/Tasks/VideoManifestValidatorTask.cs`) | collections `videos` and `videoManifests`; the Hangfire queue | create, update, force a validation, delete, moderate, validate | several writes per operation without a transaction; saves without a version check; jobs delivered at least once; crashes between a save and an enqueue |
| Search index (`ElasticSearch`, `Services/EventHandlers`, reindex and rebuild tasks) | the Elasticsearch documents and mapping | index or remove on an event; reindex in place and prune; drop and rebuild | handlers read before they write, swallow errors, and run beside maintenance tasks |
| Votes, comments, users (`VoteVideAsync`, `CreateCommentAsync` and the like, `Services/Domain/UserService.cs`) | `votes`, `comments`, `users`, totals on the video | vote, comment, edit, remove, moderate a comment, find or create a user | delete-then-create, counting in two queries, stale saves, unique indexes as the only guard |
| Reports and reviews (`ReportVideoAsync`, admin page `VideoModeration/Video`, two handlers of the review's event) | `unsuitableVideoReports`, `manualVideoReviews` | report or change a report, review, archive, moderate | handlers in any order, partial failure, records that outlive the video |
| Reads: search, listings, pages (`SearchVideoAsync`, `PaginatedEnumerableDto`) | none | an offset, a page, the number of the last page | 32-bit products, divisions at the boundary, the result window of the index |
| DTOs, HTTP mapping and authorization, host | none | | |

Requests and jobs interact through MongoDB documents (read, changed in memory,
saved by `SaveChangesAsync`), through the Hangfire queue (`create` and `update`
enqueue what the validator consumes), and through domain events: `DomainRepository`
and `IndexDbContext.SaveChangesAsync` dispatch events after the write, in the same
request or job, and the handlers change Elasticsearch, the reports or the video. Readers of
videos (the search index, the listings) rely on what the store promises them: a video shows
one manifest or none, and a withdrawn one none for good.

What makes each part correct: a manifest reference belongs to one manifest of one
video; a video shows only manifests of its own that a validation accepted, and
the newest of them when nothing interferes; every listed manifest is decided; a
moderated video stays empty; documents follow their videos, and maintenance
repairs them when they do not; totals agree with votes; removed comments stay
removed; a review takes effect whole. `PROJECT.json` lists the hazards at their lines.

## Modules

| Module | Models |
|---|---|
| `VideoAggregate` | the aggregate's methods as operators on a record: `NewestValid` is `UpdateLastValidManifest`, `CanAdd`/`AddManifest`, `SetOutcome` for the two validation outcomes, `SetAsUnsuitable`, and `WithoutManifest` for what the deletion of a manifest removes from a video (`OriginDeleteMode.RemoveReference`) |
| `VideoStore` | the collections, the job queue, and every request and job that changes them; extends `VideoAggregate` |
| `ManifestRegistry` | the abstract promise: manifests are registered once with a unique reference for one video, decided, discarded; videos list their own and show accepted ones |
| `PublishedVideos` | the abstract promise to readers of videos: what each video shows, and that a withdrawn one shows nothing |
| `SearchIndex` | event handlers, documents, reindex with its prune, rebuild |
| `SearchCatalog` | the abstract promise of the index, built upon `PublishedVideos`: a document holds what its video showed when it was read |
| `CommentBudget` | which comments of a video go into its document |
| `Paging` | the offset of a page in an `int`, its answer, the number of the last page |
| `Engagement` | votes, comments, users |
| `Moderation` | reports, reviews, their handlers, the moderation they cause |
| `*MC` | symmetry sets for TLC; `SearchSerialMC` extends `SearchIndex`, `Paging` and `CommentBudget`, and asks the pure operators for all bounded inputs at the steps that make use of what they compute |
| `VideoStoreProofs`, `SearchIndexProofs`, `SearchCatalogProofs`, `EngagementProofs`, `ModerationProofs` | the theorems about the module each is named after |
| `VideoStoreSerialProofs` | what `VideoStore` keeps while operations do not overlap |
| `SearchTaskProofs` | what the maintenance tasks of `SearchIndex` achieve, and the index while operations do not overlap |
| `SearchSerialProofs` | the theorems about `Paging`, `CommentBudget` and the properties `SearchSerialMC` states of them |

The modules compose at two places. `VideoStore` and `SearchIndex` are joined by
`PublishedVideos`: `VideoStore` implements it while operations do not overlap (`PublishedSpec`, proved), `SearchCatalog`
extends it, and `SearchIndex` implements `SearchCatalog` (`CatalogSpec`, proved). `VideoStore`
implements `ManifestRegistry` (`RegistrySpec`, proved).

`VideoStore`, `SearchIndex`, `Engagement` and `Moderation` have the same shape. An actor is a request, an admin post,
or a Hangfire worker. `proc[a]` is what it is doing: `op` names the await it is
at, and the other members are the models it has read. An operation that reads in one
await and saves in a later one is two actions, so that other actors can act
in between, and it saves what it computed from what it *read*. Steps that only touch
memory belong to the action of the await that follows them. A request that throws
ends, and what it had saved stays.

In `VideoStore`, `CreateVideo`, `CreateManifest`, `Link`, `Enqueue` are the four
writes of `CreateVideoAsync`; `UpdateRead`, `UpdateAdd`, `UpdateManifest`, `Link`,
`Enqueue` those of `UpdateVideoHelperAsync`; the `...Refused` actions are their early returns,
their exceptions, and the refusals of the unique index. `StartValidation`,
`ValidateLoad`, `ValidateSave`, `ValidateDone`, `ValidateFault` are the job. `VoteRead`
and `VoteSave` are what a vote means to the video document: a save of a model
read earlier. `SearchIndex` keeps of the database what a document is made from
and makes each change of it one step, because the races of those saves are in
`VideoStore`. That they exist matters to readers: `store_unmoderated` shows that with
overlapping saves the store breaks its promise to readers, and a stale save can even leave a video
showing a manifest that was rejected meanwhile, which no task can index.
`SearchIndex` says nothing of such videos. `Moderation` does the same with publication and deletion. Reviews are not kept there: their
collection is only added to, and only the history of an admin page reads it.

The prune of a reindex is `PruneRefresh`, `PruneQuery`, one `PruneDocument` for each document taken, and
`PruneDone`. Between them other actors write: a document written after the query has another version and is
skipped (`Conflicting`, from `Conflicts.Proceed`), one written between the refresh and the query may be seen or not.
`PruneFails` is the prune of an index that a rebuild has dropped.

`Moderation` starts with or without a report of the older schema (`LegacyReport`). It does not name its video:
`Read` looks it up by the lists of manifests whenever the report is loaded, so that a moderation or a deletion
leaves it naming nothing. Archiving queries the stored documents (`ReportsNaming`), as the handler does.

`Paging` and `CommentBudget` are pure operators. In `CommentBudget` comments are the sequence of the lengths of their texts,
which may exceed the maximum, since an edit does not check it; `Loop` is the loop of `AddVideoAsync`, `TakeNext` its body, and
`filled` its `break`.

History variables (`home`, `accepted`, `touched`, `unannounced`, `overtaken`,
`raced`, and `content` of a review) are read by properties only. Mutations of
definitions, each preceded by a comment saying so, are used by no action; they stand in for the
bugs that the properties are to find.

### Assumptions about the outside

- `SaveChangesAsync`, and `DeleteAsync` with its cascades, are atomic. The driver is not part
  of the repository.
- A save has no version check, and replaces either the whole document or only the
  members that changed. The constant `SaveModes` leaves it open: in every run
  each save may be either. A property that passes holds for both.
- A save or deletion of a document that is gone does nothing; a listed manifest whose
  document is gone reads as not validated; a read sees what the database holds.
- The members of `LastValidManifest` that its summary copies are not kept apart from
  those of the manifest document.
- `DeleteVideoAsync` and `ModerateUnsuitableVideoAsync` delete manifests in any
  order (the code: list order). Nothing depends on it.
- Hangfire delivers a job at least once, and retries it after an exception until
  `MaxAttempts`. The queue is a set: two equal jobs waiting count as one.
- Elasticsearch replaces a document written with the same id; a write to a missing index
  creates one with a dynamic mapping; creating and dropping indexes succeeds, except that the
  index created at startup may be missing (`Init`). A refresh makes what was written before visible to searches;
  a search may see later writes. A delete by query fixes what it takes when it begins, and skips documents whose version has
  changed since. A page that ends beyond `index.max_result_window`, or has a negative offset, is refused.
- `SearchIndex` takes for granted what `PublishedVideos` says: that a withdrawn video shows nothing for good.

## Runs

Bounds are small because the hazards need few parties: the races are between two
holders of one document, and crash recovery is about one operation cut off.

| Run | Instance | Shows |
|---|---|---|
| `store_concurrent` | 2 actors, 1 video, 2 references, 2 manifests, 1 attempt, crashes and faults | `ReferenceClaimedOnce`, `ShownWasAccepted` and the refinement `RegistrySpec` survive every race of two operations on one video; `ModerationSettles`: only a model read before a moderation can undo it |
| `store_recovery` | 1 actor, 2 videos, 2 references, 2 manifests, 2 attempts, crashes and faults | whatever a crash skips, a video lists only its own stored manifests (`ListsOwnManifests`), never shows an older manifest while it lists a newer valid one (`NeverShowsOlder`), moderation is final, and readers get what they rely on (`PublishedSpec`) |
| `store_serial` | 1 actor, 2 videos, 3 manifests, no faults, fair | with nothing in progress a video shows its newest valid manifest, a moderated one has none, no manifest is an orphan; every manifest is decided |
| `store_stale_validation` | 2 actors, no faults | violation: a stale validation puts an older manifest back |
| `store_unmoderated` | 2 actors, no faults | violation: a stale save undoes a moderation |
| `store_lost_job` | 1 actor, crashes, fair | violation: a crash before the enqueue leaves a manifest undecided for ever |
| `search_serial` | 1 actor, 2 videos, 2 manifests, 1 comment change, 1 reindex, fair | `AnnouncedInSync`: any sequence of changes with events, and tasks, leaves documents right; `SearchableEventually`; `WithdrawnGoesForGood`. Over bounded inputs, `PagesShowAll` (ints of 32 values, a result window of 12, up to 14 results, pages of up to 6) and `IndexesNewestComments` (2 comments and 2 characters fit; up to 3 comments of up to 3 characters) |
| `search_tasks` | 2 actors, 2 videos, 2 reindexes that may overlap each other or a rebuild, crashes, lost writes and removals | `TaskReconciles`: a completed task has repaired every video not touched while it ran; `RebuildRestoresMapping`; `FreshAreKept`: no prune takes a document written since its reindex began; `CatalogSpec` and, in particular, `WithdrawnStayOut`: what was withdrawn and is gone stays out |
| `search_prune` | 2 actors, 1 video | violation: the prune removes a document that the scan had refreshed |
| `search_revalidation` | 1 actor, 1 video | violation: a failed revalidation leaves its document |
| `engagement` | 2 requests, 2 persons, 1 video, 2 users, 2 votes, 1 comment, history of 2 texts, crashes | `OneVotePerPerson`; `TotalsHeal` and `VoteTakesEffect` for a vote that nothing overtook; `RemovalIsFinal` up to a stale save; `TracesRemoved` |
| `moderation` | 2 requests, 2 persons, 1 video, 1 manifest, 2 reports, one of which may be of the older schema, crashes | `ReviewTakesEffect` in every order of the handlers; `ArchivedStays`, `ReportedOnce`, `RecordsSurvive` |

Every bound cuts off only growth. Three manifests in `store_serial` let a video fall
back from its newest valid manifest to another while a third is pending; two manifests are
what a stale choice needs. One reindex separates documents written before it from those after it, which
is all a stamp is compared with, and two can overlap; the arithmetic of pages is the same for any even number of values of an int, and
32 lets a product overflow to both sides. `MaxForced` bounds the queue when an administrator
forces validations (0: none is forced); jobs enqueued by requests are not limited. `MaxEditHistory` is
10 in the code and 2 here, the smallest with an allowed and a refused edit.
Symmetry is declared only in runs without liveness properties. Deadlock is checked in
`engagement`, where a comment can always be asked for; elsewhere bounded systems
may stop, when every video and every reference has been used up.

Violations are disagreements between the code and its own documentation; `PROJECT.json`
quotes each. The passing counterparts show how far the statement
holds: moderation is final when operations do not overlap (and, when they do, once no model read before it
is left: `ModerationSettles`), every manifest is decided
when nobody crashes, documents follow changes that raise events, and a task
reconciles what nobody touches meanwhile. Four properties concern a request
"nothing overtook": the code has no optimistic concurrency, so an overtaken
request may lose its effect, and the properties say that this is the only way to lose it.

### Fairness

`VideoStore!Fairness` has weak fairness of the steps of an operation begun (a request
or worker runs to its end unless its process dies) and strong fairness of starting each
queued job: `Program.cs` starts `2 * ProcessorCount` workers that poll the queues
and serve every job, and an actor that is free again and again is such a worker. No caller
is obliged to call. `SearchIndex!Fairness` is weak fairness of an actor's progress: handlers run in the
request or job that raised the event. Where crashes are allowed, fairness
says nothing against them.

## Proofs

Each inductive invariant below was first checked by TLC on the constants of the runs. Assumptions on
constants only say what kind they are (`StoreAssumption`, `SearchAssumption` and so on); what a theorem assumes
beyond them is said here.

### The store

`VideoStoreProofs` proves, for any sets of actors, videos and references, any bounds, any
`SaveModes` and any `Faults`:

- `StoreTypeOK`, `StoreReferenceClaimedOnce`, `StoreListsOwnManifests`,
  `StoreShownWasAccepted`: `Spec => []P`;
- `StoreModerationSettles`: `Spec => ModerationSettles`;
- `StoreImplementsRegistry`: `Spec => RegistrySpec`, the refinement of `ManifestRegistry`.

They rest on the inductive invariant `IInv`. The properties are not inductive: a save writes
back a document read long ago, so a property of the stored documents has to hold of
the models in memory too. `IInv` adds to `TypeOK` and `ReferenceClaimedOnce`:

- `OwnedDoc` of every stored video *and* of every model an actor holds (`ProcInv`): it has
  only manifests stored for that video, and shows only an accepted one. "Was stored for"
  and "was accepted" are history and never cease to hold, which is why stale models are harmless to them;
- every validity an actor has loaded as valid is of an accepted manifest, so the last
  valid manifest recomputed from stale members is an accepted one;
- `FreshInv` and `DistinctInv`: a manifest constructed and not stored yet belongs to one update, and
  no document has its number.

`ModerationSettles` needs `AddersInv` besides: whoever is about to add a manifest carries a model that was not frozen, so
nobody adds to a moderated one; every other save of a model read since the moderation writes the moderated model again.

The step lemmas are one per action, above lemmas on the aggregate's operators
(`NewestValidListed`, `AddManifestType`, ...) and on what a save writes (`SaveVideoWrites`).
The refinement uses `IInv` in both states of a step: creations map to `Register`,
saves to `Save`, outcomes to `Decide`, deletions to `Discard`, the rest to stutters.

### The store, one operation at a time

`VideoStoreSerialProofs` assumes `Serial`: there is one actor. It is what the theorems cannot do without: with two, `store_stale_validation` refutes
`NewerValidStays` and `store_unmoderated` refutes `ModerationIsFinal`. The actor may die at
any step, and jobs may fail or be delivered again:

- `SerialNeverShowsOlder`, `SerialModeratedHasNoManifests`, `SerialModerationIsFinal`, and `SerialNewerValidStays`, the statement
  that `store_stale_validation` refutes for two actors;
- `SerialImplementsPublished`: `Spec => PublishedSpec`, what readers rely on.

Requests that are not cut off (`"request" \notin Faults`; jobs still may fail) are needed in addition by

- `SerialShowsNewestValid` and `SerialNoOrphanManifest`: a crash between two writes leaves what they exclude.

`SerialInv` adds to `IInv` what being alone is worth (`Alone`): every model in memory equals the stored document, every
loaded validity equals the stored one, and a manifest about to be linked is pending and not listed. Without it a save
could restore anything. `UnstoredInv` and `ModeratedInv` say of stored documents what the saves then preserve. `CompleteInv` follows the
request between its writes: a stored manifest is in the list of its video or in the hand of the update that is about to link it
(`InHand`), and a video with a valid manifest shows one unless it is being deleted (`Removing`). That the newest of the valid manifests exists
is `GreatestNumber`, from the library's theorem that a set of numbers has a least element.

### The search index

`SearchIndexProofs` proves, for any sets of actors and videos, any bounds and any `Faults`:

- `SearchTypes`: `Spec => []TypeOK`, and `SearchImplementsCatalog`: `Spec => CatalogSpec`;
- `SearchWithdrawnStayOut`: `Spec => WithdrawnStayOut`;
- `PruneKeepsFresh`: `Spec => FreshAreKept`.

The invariant `SearchInv` adds to `TypeOK` that every actor has what its operation uses (`Ready`: a video, a manifest, a document of
that manifest, a batch of manifests), and that a withdrawn video has no valid manifest. What an actor holds (`Held`) is the
state that the catalog calls `reads`. One lemma for each kind of step of the catalog (`ForgetStep`, `ReadStep`, `IndexStep`, `RemoveStep`,
`ChangeStep`) says when a step of the index is one, and one lemma per action applies it. `SearchWithdrawnStayOut` then is the theorem
`CatalogGoneStays` about the abstract catalog (`SearchCatalogProofs`: nothing is read of a video that shows nothing,
and a withdrawn one shows nothing), carried over by the refinement. `PruneKeepsFresh` rests on `PruneInv`: what a
prune may still delete was stamped before its reindex began, because any write of it would have taken it off the list.

### Maintenance tasks

`SearchTaskProofs` proves, again for any number of actors, and whatever is lost or cut off:

- `TasksReconcile`: `Spec => TaskReconciles`;
- `RebuildsRestoreMapping`: `Spec => RebuildRestoresMapping`, if there is a video: without one `touched` says nothing of a race.

`TasksInv` follows a task on each video that nobody else touched (`Followed`). `Exclusive`: while a video is followed no other task
runs, and no handler has it. `Along` says where the task is with it: still to come in its scan and its document is absent or
old, or in its hands, or done with a document that holds what the video shows, written by this task; or the video calls for no document,
and the prune will take any it has. `ClockInv` orders stamps: a document is either older than the reindex or of it. `MappingInv` says that an
index of which a rebuild has all videos for itself is mapped from its creation on; only a write by somebody else while it is missing could make it
dynamic.

- `SerialAnnouncedInSync`: `Spec => []AnnouncedInSync`, for one actor, without crashes and lost calls. Each of them
  would break it, and the maintenance tasks are there for that. `SyncInv` says of the one actor at work which
  video's document may be behind: that of the event being handled.

### Votes, comments and users

`EngagementProofs` proves, for any number of requests, persons, videos, votes, comments and users, with crashes anywhere: `EngagementTypes` (`TypeOK`),
`VotesAreUnique` (`OneVotePerPerson`), `DeletionLeavesNoTrace` (`TracesRemoved`), `VotesHealTotals` (`TotalsHeal`), `VotesTakeEffect`
(`VoteTakesEffect`), `RemovalsAreFinal` (`RemovalIsFinal`).

`EngagementInv` has three parts. `Unique` and `Referenced`: users have different persons, votes differ in owner or video, and what is referenced is
there, unless its video was deleted under a request. `Equipped` and `Founded`: a request has
what its step will use, and found what it says. `Current`, only of a request that nothing overtook: the video read and the votes counted are
still what the database holds, and the person has no vote on the video but those about to be deleted. The last is what `TotalsHeal` and `VoteTakesEffect` need; that it is lost as soon as another request
writes is why they exempt overtaken ones.

### Reports, reviews and moderation

`ModerationProofs` proves, for any number of requests, persons, videos, manifests and reports, with crashes anywhere: `ModerationTypes` (`TypeOK`), `ReportsAreUnique`
(`ReportedOnce`), `ReviewsTakeEffect` (`ReviewTakesEffect`), `ArchivedReportsStay` (`ArchivedStays`), `ReportsSurvive` (`RecordsSurvive`). `ModerationAssumption`
includes that there may be a manifest and a report: with a report of the older schema `Init` has one of each.

In `ModerationInv`, `OneVideo` says that a manifest is of one video, by whatever names it: a list, a report, or a request. A report of the older schema, which names only the
manifest, is thereby of one video as well, before and after its manifest is gone. `Founded` is what requests found, and `Current`, of a review that nothing overtook, what its handlers have achieved so far, in the order
they happen to run: the reports still to be archived are the ones it holds, and the moderated video is frozen and empty.

### Pages and comments of a document

`SearchSerialProofs` proves about searches of any size and pages of any size: a page whose offset fits in an int is
answered if and only if it ends within the result window, and then with its results, and one whose offset overflows is refused
or shows the results at another offset (`AnswersArePages`); a walk from the first page to `MaxPage` sees every result once, as far as the result
window goes (`WalksShowAll`); without results `MaxPage` is -1 when pages
take one result, and 0 otherwise (`NoResultsNoPage`); and with ints of 32 bits there is an overflow that comes out
positive, so that page 42949673 of 100 results shows those from the fifth on (`AnotherPageIsShown`).

`TakesNewest` says of the comments of a video, however many and however long, and of any budget: the loop takes the newest that fit together, and no
others. The induction over the comments is spelled out as one over a set of numbers (`UpTo`), since the library's induction
takes an operator; `Recursion` says that a function defined by its previous value exists, for the same reason.
`LoopInvariant` is what a reader of the loop would write beside it: the comments taken are the first `j`, their characters are counted right and fit, and
`j` is all so far unless the next one did not fit.

`PagesAreShown` and `NewestAreIndexed` are the properties `PagesShowAll` and `IndexesNewestComments` of the run, from `WalksShowAll`, `AnswersArePages` and
`TakesNewest`, for any values of its bounds.

### Only model-checked

Liveness (`EveryManifestDecided`, `SearchableEventually`, `WithdrawnGoesForGood`): the prover does not reason about fairness and
`ENABLED`. The statements of the runs that end in a violation are false in general, and each theorem on the same subject
says under what limits they hold. The interplay of `VideoStore` and `SearchIndex` without `Serial` is not stated: with overlapping saves
the store breaks the promise that the index relies on. No module uses recursive operators.

## Not modelled

The text query of a search (Elasticsearch's) and the listings by page (the driver's), DTOs and OpenAPI
documents, authorization and the mapping of exceptions to status codes (a
refused request changes nothing), the older schemas of videos, manifests, comments and users, which
rename members or extract metadata of one document when it is read, Swarm (its answers
are the outcomes of `ValidateSave` and `ValidateFault`), configuration, logging, key storage, and the checker of
external services. The scripts under `wwwroot` are a vendored validation library and an empty placeholder. `Video.RemoveManifest` is
called by nothing. Totals of votes in search documents are left out: the documents never set them.

## Plan

Done: the core (`VideoAggregate`, `VideoStore`, `ManifestRegistry`), `SearchIndex` with `SearchCatalog`, `PublishedVideos` and
`CommentBudget`, `Paging`, `Engagement`, `Moderation`, and proofs of all their safety properties.

Next, in this order:

1. `SearchIndex` upon a database whose saves are stale: a video that shows a rejected manifest, and what that does to the tasks.
2. The order of listings by page when elements tie or change between two pages.
