----------------------------- MODULE Engagement -----------------------------
(***************************************************************************)
(* Votes and comments: the requests that make them, and the users found or *)
(* created on the way.                                                     *)
(*                                                                         *)
(* An actor is a request.  It keeps the models it has read, and saves them *)
(* as it changed them; its steps are the awaits, and steps of different    *)
(* requests interleave.  As in VideoStore, SaveModes says whether a save   *)
(* replaces the whole document or only the members that changed, and a     *)
(* save or a deletion of a document that is gone does nothing.             *)
(***************************************************************************)
EXTENDS Integers, FiniteSets

CONSTANTS Actors,          \* requests that can be in progress
          Persons,         \* shared user infos, from the SSO database
          VideoIds,
          None,
          MaxUsers,        \* bound: user documents
          MaxVotes,        \* bound: votes ever cast
          MaxComments,     \* bound: comments ever written
          MaxEditHistory,  \* texts a comment can have had
          SaveModes,       \* does a save replace the whole document?
          Crashes          \* may a request be cut off?

ASSUME EngagementAssumption ==
    /\ MaxUsers \in Nat /\ MaxVotes \in Nat /\ MaxComments \in Nat
    /\ MaxEditHistory \in Nat \ {0}
    /\ SaveModes \in SUBSET BOOLEAN
    /\ Crashes \in BOOLEAN
    /\ None \notin Persons \cup VideoIds

UserIds == 1 .. MaxUsers
CommentIds == 1 .. MaxComments
Nobody == 0
NoComment == 0

VARIABLES stored,     \* the videos not deleted
          totals,     \* of each video, its TotUpvotes and TotDownvotes
          users,      \* the person of each user document
          votes,      \* the votes collection
          cast,       \* how many votes were ever cast
          comments,   \* the comments collection
          proc,       \* what each actor is doing
          overtaken,  \* history: requests whose target another one changed since
          raced       \* history: videos deleted while a request was at work on them

dbVars == <<stored, totals, users, votes, cast, comments>>
vars == <<dbVars, proc, overtaken, raced>>

-----------------------------------------------------------------------------

Values == {"up", "down", "neutral"}
Texts == {"own", "removed by author", "removed by moderator"}
Verbs == {"edit", "remove", "moderate"}

Tallies == [up: 0 .. MaxVotes, down: 0 .. MaxVotes]
NoTally == [up |-> 0, down |-> 0]

Vote == [id: 1 .. MaxVotes, owner: UserIds, vid: VideoIds, value: Values \ {"neutral"}]

\* A comment: its last text, how many it had, and whether its 24 hours are not over.
Comment == [state: {"unborn", "stored", "deleted"}, author: UserIds \cup {Nobody},
            vid: VideoIds \cup {None}, text: Texts, edits: 1 .. MaxEditHistory,
            frozen: BOOLEAN, young: BOOLEAN]

NewComment(u, v) ==
    [state |-> "stored", author |-> u, vid |-> v, text |-> "own", edits |-> 1,
     frozen |-> FALSE, young |-> TRUE]

UnbornComment == [NewComment(Nobody, None) EXCEPT !.state = "unborn"]

Ops == {"idle", "create:user", "vote:video", "vote:previous", "vote:delete",
        "vote:down", "vote:up", "vote:save",
        "comment:video", "comment:create", "change:read", "change:save"}

Proc == [op: Ops,
         next: Ops,                            \* the step after the user is created
         person: Persons \cup {None},
         user: UserIds \cup {Nobody},
         vid: VideoIds \cup {None},
         cid: CommentIds \cup {NoComment},
         value: Values,
         verb: Verbs,
         read: Tallies,                        \* the video's totals, as they were read
         tally: Tallies,                       \* the votes counted
         todo: SUBSET (1 .. MaxVotes),         \* the votes to delete
         seen: Comment]                        \* the comment, as it was read

IdleProc == [op |-> "idle", next |-> "idle", person |-> None, user |-> Nobody,
             vid |-> None, cid |-> NoComment, value |-> "neutral", verb |-> "edit",
             read |-> NoTally, tally |-> NoTally, todo |-> {}, seen |-> UnbornComment]

Idle(a) == proc[a].op = "idle"
Become(a, p) == proc' = [proc EXCEPT ![a] = p]
Finish(a) == Become(a, IdleProc)

\* The next step of the same request, and its end.
Go(a, p) == Become(a, p) /\ UNCHANGED <<overtaken, raced>>
End(a) == Finish(a) /\ overtaken' = overtaken \ {a} /\ UNCHANGED raced

\* The requests at work on a video, or on a comment.
OnVideo(v) == {b \in Actors : proc[b].vid = v}
OnComment(c) == {b \in Actors : proc[b].cid = c}

Init ==
    /\ stored = VideoIds
    /\ totals = [v \in VideoIds |-> NoTally]
    /\ users = [u \in UserIds |-> None]
    /\ votes = {}
    /\ cast = 0
    /\ comments = [c \in CommentIds |-> UnbornComment]
    /\ proc = [a \in Actors |-> IdleProc]
    /\ overtaken = {}
    /\ raced = {}

-----------------------------------------------------------------------------
(* UserService.FindUserAsync, the beginning of every request of a user.    *)

UsersOf(p) == {u \in UserIds : users[u] = p}

\* Request q begins: the user is looked up, and created next when there is none.
Call(a, q) ==
    /\ Idle(a)
    /\ IF UsersOf(q.person) = {}
       THEN Become(a, [q EXCEPT !.op = "create:user", !.next = q.op])
       ELSE \E u \in UsersOf(q.person) : Become(a, [q EXCEPT !.user = u])
    /\ UNCHANGED <<dbVars, overtaken, raced>>

\* The next user document is created, and the request goes on with it.
AddUser(a) ==
    \E u \in UserIds :
        /\ users[u] = None /\ \A k \in UserIds : k < u => users[k] # None
        /\ users' = [users EXCEPT ![u] = proc[a].person]
        /\ Go(a, [proc[a] EXCEPT !.op = proc[a].next, !.next = "idle", !.user = u])
        /\ UNCHANGED <<stored, totals, votes, cast, comments>>

\* Mutation of CreateUser: no unique index on the shared info.
CreateUserTwice(a) == proc[a].op = "create:user" /\ AddUser(a)

CreateUser(a) ==
    /\ proc[a].op = "create:user"
    /\ UsersOf(proc[a].person) = {}
    /\ AddUser(a)

\* The unique index on SharedInfoId refuses the document: the request fails.
CreateUserRefused(a) ==
    /\ proc[a].op = "create:user"
    /\ UsersOf(proc[a].person) # {}
    /\ End(a)
    /\ UNCHANGED dbVars

-----------------------------------------------------------------------------
(* VoteVideAsync.                                                           *)

\* Room for another vote among those under way (bound only).
CanCast ==
    cast + Cardinality({b \in Actors : proc[b].op \in
        {"create:user", "vote:video", "vote:previous", "vote:delete"}})
      < MaxVotes

VoteVideo(a, p, v, value) ==
    /\ CanCast
    /\ Call(a, [IdleProc EXCEPT !.op = "vote:video", !.person = p, !.vid = v,
                                !.value = value])

\* The video is read, or the request ends because it is gone.
ReadVideo(a) ==
    /\ proc[a].op = "vote:video"
    /\ IF proc[a].vid \in stored
       THEN Go(a, [proc[a] EXCEPT !.op = "vote:previous", !.read = totals[proc[a].vid]])
       ELSE End(a)
    /\ UNCHANGED dbVars

\* Mutation of FindPrevious: a neutral vote leaves the previous one.
FindPreviousToReplace(a) ==
    LET p == proc[a] IN
    /\ p.op = "vote:previous"
    /\ Go(a, [p EXCEPT !.op = "vote:delete",
                       !.todo = IF p.value = "neutral" THEN {}
                                ELSE {x.id : x \in {y \in votes : y.owner = p.user
                                                                  /\ y.vid = p.vid}}])
    /\ UNCHANGED dbVars

FindPrevious(a) ==
    LET p == proc[a] IN
    /\ p.op = "vote:previous"
    /\ Go(a, [p EXCEPT !.op = "vote:delete",
                       !.todo = {x.id : x \in {y \in votes : y.owner = p.user
                                                             /\ y.vid = p.vid}}])
    /\ UNCHANGED dbVars

\* The previous votes are deleted one by one.
DeletePrevious(a, i) ==
    /\ proc[a].op = "vote:delete" /\ i \in proc[a].todo
    /\ votes' = {x \in votes : x.id # i}
    /\ Become(a, [proc[a] EXCEPT !.todo = @ \ {i}])
    /\ overtaken' = overtaken \cup (OnVideo(proc[a].vid) \ {a})
    /\ UNCHANGED <<stored, totals, users, cast, comments, raced>>

Deleted(a) == proc[a].op = "vote:delete" /\ proc[a].todo = {}

\* The unique index on owner and video has the vote of another request.
VotedAlready(p) == \E x \in votes : x.owner = p.user /\ x.vid = p.vid

CreateVote(a) ==
    LET p == proc[a] IN
    /\ Deleted(a) /\ p.value # "neutral"
    /\ ~VotedAlready(p)
    /\ cast < MaxVotes
    /\ votes' = votes \cup {[id |-> cast + 1, owner |-> p.user, vid |-> p.vid,
                             value |-> p.value]}
    /\ cast' = cast + 1
    /\ Become(a, [p EXCEPT !.op = "vote:down"])
    /\ overtaken' = overtaken \cup (OnVideo(p.vid) \ {a})
    /\ UNCHANGED <<stored, totals, users, comments, raced>>

CreateVoteRefused(a) ==
    /\ Deleted(a) /\ proc[a].value # "neutral"
    /\ VotedAlready(proc[a])
    /\ End(a)
    /\ UNCHANGED dbVars

Count(v, value) == Cardinality({x \in votes : x.vid = v /\ x.value = value})

CountDown(a) ==
    /\ \/ proc[a].op = "vote:down"
       \/ Deleted(a) /\ proc[a].value = "neutral"
    /\ Go(a, [proc[a] EXCEPT !.op = "vote:up",
                             !.tally.down = Count(proc[a].vid, "down")])
    /\ UNCHANGED dbVars

\* Mutation of CountUp: one more than the video had.
CountUpFromRead(a) ==
    LET p == proc[a] IN
    /\ p.op = "vote:up"
    /\ Go(a, [p EXCEPT !.op = "vote:save",
                       !.tally.up = IF p.value = "up" /\ p.read.up < MaxVotes
                                    THEN p.read.up + 1 ELSE p.read.up])
    /\ UNCHANGED dbVars

CountUp(a) ==
    /\ proc[a].op = "vote:up"
    /\ Go(a, [proc[a] EXCEPT !.op = "vote:save", !.tally.up = Count(proc[a].vid, "up")])
    /\ UNCHANGED dbVars

\* What a save makes of a member: whole documents are replaced, or members changed.
Written(whole, read, model, old) == IF whole \/ model # read THEN model ELSE old

\* The totals of the video are saved, if it is still there.
SaveTotals(a) ==
    LET p == proc[a] IN
    /\ p.op = "vote:save"
    /\ \E whole \in SaveModes :
          totals' = IF p.vid \in stored
                    THEN [totals EXCEPT ![p.vid] =
                           [up |-> Written(whole, p.read.up, p.tally.up, @.up),
                            down |-> Written(whole, p.read.down, p.tally.down, @.down)]]
                    ELSE totals
    /\ Finish(a)
    /\ overtaken' = (overtaken \cup OnVideo(p.vid)) \ {a}
    /\ UNCHANGED <<stored, users, votes, cast, comments, raced>>

-----------------------------------------------------------------------------
(* CreateCommentAsync, and the changes of a comment.                        *)

\* Room for another comment among those under way (bound only).
CanWrite ==
    Cardinality({c \in CommentIds : comments[c].state # "unborn"})
      + Cardinality({b \in Actors : proc[b].op \in
            {"create:user", "comment:video", "comment:create"}})
      < MaxComments

WriteComment(a, p, v) ==
    /\ CanWrite
    /\ Call(a, [IdleProc EXCEPT !.op = "comment:video", !.person = p, !.vid = v])

\* The video is read, or the request ends because it is gone.
ReadCommentedVideo(a) ==
    /\ proc[a].op = "comment:video"
    /\ IF proc[a].vid \in stored
       THEN Go(a, [proc[a] EXCEPT !.op = "comment:create"])
       ELSE End(a)
    /\ UNCHANGED dbVars

\* The comment is created, with an id of its own.
CreateComment(a) ==
    /\ proc[a].op = "comment:create"
    /\ \E c \in CommentIds :
          /\ comments[c].state = "unborn"
          /\ \A k \in CommentIds : k < c => comments[k].state # "unborn"
          /\ comments' = [comments EXCEPT ![c] = NewComment(proc[a].user, proc[a].vid)]
    /\ End(a)
    /\ UNCHANGED <<stored, totals, users, votes, cast>>

\* UpdateCommentAsync, DeleteOwnedCommentAsync.
ChangeComment(a, p, c, verb) ==
    Call(a, [IdleProc EXCEPT !.op = "change:read", !.person = p, !.cid = c,
                             !.verb = verb])

\* ModerateCommentAsync, whose user is not looked up.
ModerateComment(a, c) ==
    /\ Idle(a)
    /\ Become(a, [IdleProc EXCEPT !.op = "change:read", !.cid = c, !.verb = "moderate"])
    /\ UNCHANGED <<dbVars, overtaken, raced>>

\* Mutation of IsEditable: one edit more than the history holds.
IsEditableOnceMore(d) == ~d.frozen /\ d.young /\ d.edits <= MaxEditHistory

IsEditable(d) == ~d.frozen /\ d.young /\ d.edits < MaxEditHistory

\* Mutation of Accepts: a comment already removed can be removed again.
AcceptsFrozen(p, d) ==
    /\ d.state = "stored"
    /\ p.verb # "moderate" => d.author = p.user
    /\ p.verb = "edit" => d.young /\ d.edits < MaxEditHistory

\* The comment is there, of the user who changes it, and allows the change.
Accepts(p, d) ==
    /\ d.state = "stored"
    /\ p.verb # "moderate" => d.author = p.user
    /\ IF p.verb = "edit" THEN IsEditable(d) ELSE ~d.frozen

ReadComment(a) ==
    LET d == comments[proc[a].cid] IN
    /\ proc[a].op = "change:read"
    /\ IF Accepts(proc[a], d)
       THEN Go(a, [proc[a] EXCEPT !.op = "change:save", !.seen = d])
       ELSE End(a)
    /\ UNCHANGED dbVars

\* EditByAuthor, SetAsDeletedByAuthor and SetAsDeletedByModerator.
Changed(d, verb) ==
    CASE verb = "edit" -> [d EXCEPT !.edits = @ + 1]
      [] verb = "remove" -> [d EXCEPT !.text = "removed by author", !.edits = 1,
                                      !.frozen = TRUE]
      [] verb = "moderate" -> [d EXCEPT !.text = "removed by moderator", !.edits = 1,
                                        !.frozen = TRUE]

\* The comment is saved, if it is still there.  Every change has changed its history.
SaveComment(a) ==
    LET p == proc[a]
        model == Changed(p.seen, p.verb)
        old == comments[p.cid]
    IN
    /\ p.op = "change:save"
    /\ \E whole \in SaveModes :
          comments' = IF old.state = "stored"
                      THEN [comments EXCEPT ![p.cid] =
                              [old EXCEPT !.text = model.text, !.edits = model.edits,
                                          !.frozen = Written(whole, p.seen.frozen,
                                                             model.frozen, old.frozen)]]
                      ELSE comments
    /\ Finish(a)
    /\ overtaken' = (overtaken \cup OnComment(p.cid)) \ {a}
    /\ UNCHANGED <<stored, totals, users, votes, cast, raced>>

-----------------------------------------------------------------------------
(* What else happens to them.                                               *)

\* The 24 hours in which a comment can be edited are over; for a frozen one that
\* makes no difference.
Expire(c) ==
    /\ comments[c].state = "stored" /\ comments[c].young /\ ~comments[c].frozen
    /\ comments' = [comments EXCEPT ![c].young = FALSE]
    /\ UNCHANGED <<stored, totals, users, votes, cast, proc, overtaken, raced>>

CommentsOf(v) == {c \in CommentIds : comments[c].state = "stored" /\ comments[c].vid = v}

\* Mutation of DeleteVideo: comments keep their reference to the video.
DeleteVideoOnly(v) ==
    /\ v \in stored
    /\ stored' = stored \ {v}
    /\ totals' = [totals EXCEPT ![v] = NoTally]
    /\ votes' = {x \in votes : x.vid # v}
    /\ raced' = IF OnVideo(v) = {} THEN raced ELSE raced \cup {v}
    /\ overtaken' = overtaken \cup OnVideo(v) \cup UNION {OnComment(c) : c \in CommentsOf(v)}
    /\ UNCHANGED <<users, cast, comments, proc>>

\* The video is deleted, and with it the documents that map it with
\* OriginDeleteMode.DeleteReferencingDocument.
DeleteVideo(v) ==
    /\ v \in stored
    /\ stored' = stored \ {v}
    /\ totals' = [totals EXCEPT ![v] = NoTally]
    /\ votes' = {x \in votes : x.vid # v}
    /\ comments' = [c \in CommentIds |->
                       IF c \in CommentsOf(v)
                       THEN [UnbornComment EXCEPT !.state = "deleted"] ELSE comments[c]]
    /\ raced' = IF OnVideo(v) = {} THEN raced ELSE raced \cup {v}
    /\ overtaken' = overtaken \cup OnVideo(v) \cup UNION {OnComment(c) : c \in CommentsOf(v)}
    /\ UNCHANGED <<users, cast, proc>>

\* A request is cut off, or one of its calls throws: what it did stays done.
Crash(a) ==
    /\ ~Idle(a) /\ Crashes
    /\ End(a)
    /\ UNCHANGED dbVars

Begin(a) ==
    \/ \E p \in Persons, v \in VideoIds :
          WriteComment(a, p, v) \/ \E x \in Values : VoteVideo(a, p, v, x)
    \/ \E p \in Persons, c \in CommentIds, b \in {"edit", "remove"} :
          ChangeComment(a, p, c, b)
    \/ \E c \in CommentIds : ModerateComment(a, c)

Progress(a) ==
    \/ CreateUser(a) \/ CreateUserRefused(a)
    \/ ReadVideo(a) \/ FindPrevious(a)
    \/ \E i \in 1 .. MaxVotes : DeletePrevious(a, i)
    \/ CreateVote(a) \/ CreateVoteRefused(a)
    \/ CountDown(a) \/ CountUp(a) \/ SaveTotals(a)
    \/ ReadCommentedVideo(a) \/ CreateComment(a)
    \/ ReadComment(a) \/ SaveComment(a)

Next ==
    \/ \E a \in Actors : Begin(a) \/ Progress(a) \/ Crash(a)
    \/ \E c \in CommentIds : Expire(c)
    \/ \E v \in VideoIds : DeleteVideo(v)

Spec == Init /\ [][Next]_vars

-----------------------------------------------------------------------------

TypeOK ==
    /\ stored \in SUBSET VideoIds
    /\ totals \in [VideoIds -> Tallies]
    /\ users \in [UserIds -> Persons \cup {None}]
    /\ votes \in SUBSET Vote
    /\ cast \in 0 .. MaxVotes
    /\ comments \in [CommentIds -> Comment]
    /\ proc \in [Actors -> Proc]
    /\ overtaken \in SUBSET Actors
    /\ raced \in SUBSET VideoIds

(* A person has at most one vote on a video, whatever requests of theirs     *)
(* race: VoteVideAsync deletes and creates in separate steps, and only the   *)
(* unique indexes of users and votes stand between two requests of a person  *)
(* who votes, or appears, for the first time.                                *)
OneVotePerPerson ==
    \A x, y \in votes :
        users[x.owner] = users[y.owner] /\ x.vid = y.vid => x = y

(* A vote that no other request overtook leaves the totals of the video      *)
(* exact, even if they were not before: an earlier request that was cut off  *)
(* or overtaken is made good by the next one.                                *)
TotalsHeal ==
    [][\A a \in Actors :
          LET v == proc[a].vid IN
          SaveTotals(a) /\ a \notin overtaken
          => totals'[v] = [up |-> Count(v, "up"), down |-> Count(v, "down")]]_vars

(* When a vote completes that nothing overtook, the person's votes on the    *)
(* video are the one asked for, or none after a neutral one.                 *)
VoteTakesEffect ==
    [][\A a \in Actors :
          SaveTotals(a) /\ a \notin overtaken
          => {x.value : x \in {y \in votes : /\ users[y.owner] = proc[a].person
                                             /\ y.vid = proc[a].vid}}
             = {proc[a].value} \ {"neutral"}]_vars

(* A removed comment keeps its placeholder, and stays frozen: its own text   *)
(* comes back only by a request that read it before it was removed.  Nor     *)
(* does a second removal replace the placeholder of the first.               *)
RemovalIsFinal ==
    [][\A c \in CommentIds :
          comments[c].frozen =>
             \/ comments'[c] = comments[c]
             \/ comments'[c].state = "deleted"
             \/ \E a \in OnComment(c) : SaveComment(a) /\ a \in overtaken]_vars

(* IVideoService.DeleteVideoAsync, "Remove video and all its traces": no     *)
(* vote and no comment of a deleted video is left, unless a request was at   *)
(* work on the video when it was deleted.                                    *)
TracesRemoved ==
    \A v \in VideoIds \ (stored \cup raced) :
        CommentsOf(v) = {} /\ \A x \in votes : x.vid # v

=============================================================================
