-------------------------- MODULE EngagementProofs --------------------------
(***************************************************************************)
(* Theorems about Engagement, for any number of requests, persons, videos, *)
(* votes and comments: its type invariant, that a person has one vote on a *)
(* video, that no trace is left of a deleted one, and what a vote or a     *)
(* removal that nothing overtook does.                                     *)
(*                                                                         *)
(* The invariant says what the collections hold, what each request has     *)
(* found on the way to its step, and, of a request that no other one       *)
(* overtook, that what it has found is still so.                           *)
(***************************************************************************)
EXTENDS Engagement, FiniteSetTheorems, TLAPS

CountingOps == {"vote:down", "vote:up", "vote:save"}
ReadVideoOps == {"vote:previous", "vote:delete"} \cup CountingOps
VotingOps == {"vote:video"} \cup ReadVideoOps
CommentingOps == {"comment:video", "comment:create"}

\* The step for which a request is, or will be once its user is created.
Stage(p) == IF p.op = "create:user" THEN p.next ELSE p.op

\* The votes of a request's user on its video.
VotesOf(p) == {x \in votes : x.owner = p.user /\ x.vid = p.vid}

\* A request has what its step is going to use.
Equipped(p) ==
    /\ p.op = "create:user" =>
          p.person \in Persons /\ p.next \in {"vote:video", "comment:video", "change:read"}
    /\ Stage(p) \in VotingOps \cup CommentingOps => p.vid \in VideoIds
    /\ Stage(p) \in {"change:read", "change:save"} => p.cid \in CommentIds
    /\ p.op = "vote:down" => p.value # "neutral"
    /\ p.op = "change:save" =>
          /\ p.seen.state = "stored" /\ ~p.seen.frozen
          /\ p.verb = "edit" => p.seen.edits < MaxEditHistory

\* A request has found what was there, and what it will delete is its own.
Founded(p) ==
    /\ p.op \in VotingOps \cup CommentingOps =>
          p.person \in Persons /\ p.user \in UserIds /\ users[p.user] = p.person
    /\ p.op \in ReadVideoOps \cup {"comment:create"} => p.vid \in stored \cup raced
    /\ p.op = "vote:delete" =>
          \A i \in p.todo : i <= cast /\ \A x \in votes : x.id = i => x.vid = p.vid

\* What a request has found is still so.
Current(p) ==
    /\ p.op \in ReadVideoOps => p.vid \in stored /\ p.read = totals[p.vid]
    /\ p.op = "vote:delete" => \A x \in VotesOf(p) : x.id \in p.todo
    /\ p.op \in CountingOps =>
          /\ p.value = "neutral" => VotesOf(p) = {}
          /\ p.value # "neutral" => \E x \in VotesOf(p) : x.value = p.value
    /\ p.op \in {"vote:up", "vote:save"} => p.tally.down = Count(p.vid, "down")
    /\ p.op = "vote:save" => p.tally.up = Count(p.vid, "up")
    /\ p.op = "change:save" => ~comments[p.cid].frozen

\* A person has one user, and a user one vote on a video.
Unique ==
    /\ \A u, w \in UserIds : users[u] = users[w] => u = w \/ users[u] = None
    /\ \A x, y \in votes : x.id = y.id => x = y
    /\ \A x, y \in votes : x.owner = y.owner /\ x.vid = y.vid => x = y

\* Votes and comments are by users that there are, on videos that there are, or
\* that were deleted while a request was at work on them.
Referenced ==
    /\ \A x \in votes : x.id <= cast /\ users[x.owner] # None /\ x.vid \in stored \cup raced
    /\ \A c \in CommentIds :
          /\ comments[c].state = "stored" => comments[c].vid \in stored \cup raced
          /\ comments[c].frozen => comments[c].state = "stored"

EngagementInv ==
    /\ TypeOK
    /\ Unique
    /\ Referenced
    /\ \A a \in Actors :
          /\ Equipped(proc[a])
          /\ Founded(proc[a])
          /\ a \notin overtaken => Current(proc[a])

-----------------------------------------------------------------------------
(* The records of requests, and steps that change nothing else.            *)

LEMMA Numbers ==
    MaxVotes \in Nat /\ MaxUsers \in Nat /\ MaxComments \in Nat
    /\ MaxEditHistory \in Nat /\ MaxEditHistory >= 1
BY EngagementAssumption

LEMMA NoneIsNot == None \notin Persons /\ None \notin VideoIds
BY EngagementAssumption

LEMMA NewComments ==
    ASSUME NEW u \in UserIds \cup {Nobody}, NEW v \in VideoIds \cup {None}
    PROVE  NewComment(u, v) \in Comment
BY Numbers DEF NewComment, Comment, Texts

LEMMA IdleRecord ==
    /\ IdleProc \in Proc /\ UnbornComment \in Comment /\ NoTally \in Tallies
    /\ Equipped(IdleProc) /\ Founded(IdleProc) /\ Current(IdleProc)
<1>1. NoTally \in Tallies
    BY Numbers DEF NoTally, Tallies
<1>2. UnbornComment \in Comment
    BY NewComments DEF UnbornComment, Comment
<1>3. IdleProc \in Proc
    BY <1>1, <1>2 DEF IdleProc, Proc, Ops, Values, Verbs
<1>. QED
    BY <1>1, <1>2, <1>3 DEF IdleProc, Equipped, Founded, Current, Stage, VotingOps,
       CommentingOps, ReadVideoOps, CountingOps

\* A step after which only one request has changed, and has what it needs.
LEMMA OnlyRequest ==
    ASSUME EngagementInv, NEW a \in Actors, NEW q \in Proc, Become(a, q),
           UNCHANGED <<dbVars, raced>>,
           overtaken' \in {overtaken, overtaken \ {a}},
           Equipped(q), Founded(q), a \notin overtaken' => Current(q)
    PROVE  EngagementInv'
<1>1. TypeOK'
    BY DEF EngagementInv, TypeOK, Become, dbVars
<1>2. Unique' /\ Referenced'
    BY DEF EngagementInv, Unique, Referenced, dbVars
<1>3. ASSUME NEW b \in Actors
      PROVE  /\ Equipped(proc[b])' /\ Founded(proc[b])'
             /\ b \notin overtaken' => Current(proc[b])'
    <2>1. proc'[b] = IF b = a THEN q ELSE proc[b]
        BY DEF Become, EngagementInv, TypeOK
    <2>2. Equipped(proc'[b]) /\ Founded(proc'[b])
          /\ (b \notin overtaken' => Current(proc'[b]))
        BY <2>1 DEF EngagementInv
    <2>. QED
        BY <2>2 DEF dbVars, Equipped, Founded, Current, VotesOf, Count, Stage
<1>. QED
    BY <1>1, <1>2, <1>3 DEF EngagementInv

LEMMA RequestGoesOn ==
    ASSUME EngagementInv, NEW a \in Actors, NEW q \in Proc, Go(a, q), UNCHANGED dbVars,
           Equipped(q), Founded(q), a \notin overtaken => Current(q)
    PROVE  EngagementInv'
BY OnlyRequest DEF Go

LEMMA RequestEnds ==
    ASSUME EngagementInv, NEW a \in Actors, End(a), UNCHANGED dbVars
    PROVE  EngagementInv'
BY OnlyRequest, IdleRecord DEF End, Finish

-----------------------------------------------------------------------------
(* Requests begin, and their user is found or created.                     *)

LEMMA CallStep ==
    ASSUME EngagementInv, NEW a \in Actors, NEW q \in Proc,
           q.person \in Persons, q.op \in {"vote:video", "comment:video", "change:read"},
           Equipped(q), Call(a, q)
    PROVE  EngagementInv'
<1>1. CASE UsersOf(q.person) = {}
    <2> DEFINE r == [q EXCEPT !.op = "create:user", !.next = q.op]
    <2>1. r \in Proc
        BY DEF Proc, Ops
    <2>2. Equipped(r) /\ Founded(r) /\ Current(r)
        BY DEF Proc, Equipped, Founded, Current, Stage, VotingOps, CommentingOps,
           ReadVideoOps, CountingOps
    <2>3. Become(a, r) /\ UNCHANGED <<dbVars, overtaken, raced>>
        BY <1>1 DEF Call
    <2>. QED
        BY <2>1, <2>2, <2>3, OnlyRequest DEF dbVars
<1>2. CASE UsersOf(q.person) # {}
    <2>1. PICK u \in UsersOf(q.person) : Become(a, [q EXCEPT !.user = u])
        BY <1>2 DEF Call
    <2> DEFINE r == [q EXCEPT !.user = u]
    <2>2. u \in UserIds /\ users[u] = q.person
        BY DEF UsersOf
    <2>3. r \in Proc
        BY <2>2 DEF Proc
    <2>4. Equipped(r) /\ Founded(r) /\ Current(r)
        BY <2>2 DEF Proc, Equipped, Founded, Current, Stage, VotingOps, CommentingOps,
           ReadVideoOps, CountingOps
    <2>. QED
        BY <2>1, <2>3, <2>4, OnlyRequest DEF Call, dbVars
<1>. QED
    BY <1>1, <1>2

LEMMA BeginStep ==
    ASSUME EngagementInv, NEW a \in Actors, Begin(a)
    PROVE  EngagementInv'
<1>1. ASSUME NEW p \in Persons, NEW v \in VideoIds, WriteComment(a, p, v)
      PROVE  EngagementInv'
    <2> DEFINE q == [IdleProc EXCEPT !.op = "comment:video", !.person = p, !.vid = v]
    <2>1. q \in Proc /\ q.person = p /\ q.op = "comment:video"
        BY IdleRecord DEF Proc, Ops
    <2>2. Equipped(q)
        BY IdleRecord DEF Proc, Equipped, Stage, VotingOps, ReadVideoOps, CountingOps
    <2>. QED
        BY <1>1, <2>1, <2>2, CallStep DEF WriteComment
<1>2. ASSUME NEW p \in Persons, NEW v \in VideoIds, NEW x \in Values, VoteVideo(a, p, v, x)
      PROVE  EngagementInv'
    <2> DEFINE q == [IdleProc EXCEPT !.op = "vote:video", !.person = p, !.vid = v,
                                     !.value = x]
    <2>1. q \in Proc /\ q.person = p /\ q.op = "vote:video"
        BY IdleRecord DEF Proc, Ops
    <2>2. Equipped(q)
        BY IdleRecord DEF Proc, Equipped, Stage, VotingOps, ReadVideoOps, CountingOps
    <2>. QED
        BY <1>2, <2>1, <2>2, CallStep DEF VoteVideo
<1>3. ASSUME NEW p \in Persons, NEW c \in CommentIds, NEW b \in {"edit", "remove"},
             ChangeComment(a, p, c, b)
      PROVE  EngagementInv'
    <2> DEFINE q == [IdleProc EXCEPT !.op = "change:read", !.person = p, !.cid = c,
                                     !.verb = b]
    <2>0. b \in Verbs /\ "change:read" \in Ops
        BY DEF Verbs, Ops
    <2>1. q \in Proc /\ q.person = p /\ q.op = "change:read"
        BY <2>0, IdleRecord DEF Proc
    <2>2. Equipped(q)
        BY IdleRecord DEF Proc, Equipped, Stage, VotingOps, ReadVideoOps, CountingOps,
           CommentingOps
    <2>. QED
        BY <1>3, <2>1, <2>2, CallStep DEF ChangeComment
<1>4. ASSUME NEW c \in CommentIds, ModerateComment(a, c)
      PROVE  EngagementInv'
    <2> DEFINE q == [IdleProc EXCEPT !.op = "change:read", !.cid = c, !.verb = "moderate"]
    <2>0. "moderate" \in Verbs /\ "change:read" \in Ops
        BY DEF Verbs, Ops
    <2>1. q \in Proc
        BY <2>0, IdleRecord DEF Proc
    <2>2. Equipped(q) /\ Founded(q) /\ Current(q)
        BY IdleRecord DEF Proc, Equipped, Founded, Current, Stage, VotingOps,
           ReadVideoOps, CountingOps, CommentingOps
    <2>. QED
        BY <1>4, <2>1, <2>2, OnlyRequest DEF ModerateComment, dbVars
<1>. QED
    BY <1>1, <1>2, <1>3, <1>4 DEF Begin

\* A user is created for a person who has none.
LEMMA CreateUserStep ==
    ASSUME EngagementInv, NEW a \in Actors, CreateUser(a)
    PROVE  EngagementInv'
<1> DEFINE p == proc[a]
<1>1. PICK u \in UserIds :
        /\ users[u] = None
        /\ users' = [users EXCEPT ![u] = p.person]
        /\ Go(a, [p EXCEPT !.op = p.next, !.next = "idle", !.user = u])
        /\ UNCHANGED <<stored, totals, votes, cast, comments>>
    BY DEF CreateUser, AddUser
<1> DEFINE q == [p EXCEPT !.op = p.next, !.next = "idle", !.user = u]
<1>2. /\ p \in Proc /\ Equipped(p) /\ p.op = "create:user"
      /\ \A w \in UserIds : users[w] # p.person
    BY DEF CreateUser, UsersOf, EngagementInv, TypeOK
<1>3. /\ p.person \in Persons /\ p.person # None
      /\ p.next \in {"vote:video", "comment:video", "change:read"}
    BY <1>2, NoneIsNot DEF Equipped
<1>4. q \in Proc
    BY <1>2 DEF Proc, Ops
<1>5. q.op = p.next /\ q.vid = p.vid /\ q.cid = p.cid /\ q.person = p.person /\ q.user = u
    BY <1>2 DEF Proc
<1>6. users' = [users EXCEPT ![u] = p.person] /\ users \in [UserIds -> Persons \cup {None}]
      /\ users[u] = None
    BY <1>1 DEF EngagementInv, TypeOK
<1>7. \A w \in UserIds : users[w] # None => users'[w] = users[w]
    BY <1>6
<1>8. TypeOK'
    BY <1>1, <1>3, <1>4, <1>6 DEF EngagementInv, TypeOK, Go, Become
<1>9. Unique'
    BY <1>1, <1>2, <1>6 DEF EngagementInv, Unique
<1>10. Referenced'
    BY <1>1, <1>3, <1>7, <1>6 DEF EngagementInv, Referenced, TypeOK, Vote, Go
<1>11. ASSUME NEW b \in Actors
       PROVE  /\ Equipped(proc[b])' /\ Founded(proc[b])'
              /\ b \notin overtaken' => Current(proc[b])'
    <2>1. CASE b = a
        <3>1. proc'[b] = q
            BY <1>1, <2>1 DEF Go, Become, EngagementInv, TypeOK
        <3>2. Equipped(q) /\ users'[q.user] = q.person
            BY <1>2, <1>3, <1>5, <1>6 DEF Equipped, Stage, VotingOps, ReadVideoOps, CountingOps,
               CommentingOps
        <3>. QED
            BY <1>3, <1>5, <3>1, <3>2 DEF Founded, Current, Equipped, Stage, VotingOps,
               ReadVideoOps, CountingOps, CommentingOps
    <2>2. CASE b # a
        <3>1. proc'[b] = proc[b] /\ overtaken' = overtaken /\ raced' = raced
            BY <1>1, <2>2 DEF Go, Become, EngagementInv, TypeOK
        <3>2. Equipped(proc[b]) /\ Founded(proc[b]) /\ (b \notin overtaken => Current(proc[b]))
            BY DEF EngagementInv
        <3>3. Founded(proc[b])'
            BY <3>1, <3>2, <1>1, <1>7, NoneIsNot DEF Founded
        <3>. QED
            BY <3>1, <3>2, <3>3, <1>1 DEF Equipped, Current, VotesOf, Count, Stage
    <2>. QED
        BY <2>1, <2>2
<1>. QED
    BY <1>8, <1>9, <1>10, <1>11 DEF EngagementInv

-----------------------------------------------------------------------------
(* The steps of a vote.                                                     *)

LEMMA ReadVideoStep ==
    ASSUME EngagementInv, NEW a \in Actors, ReadVideo(a)
    PROVE  EngagementInv'
<1> DEFINE p == proc[a]
           q == [p EXCEPT !.op = "vote:previous", !.read = totals[p.vid]]
<1>1. CASE p.vid \in stored
    <2>1. p \in Proc /\ Equipped(p) /\ Founded(p) /\ p.op = "vote:video"
          /\ p.vid \in VideoIds /\ totals[p.vid] \in Tallies
        BY <1>1 DEF ReadVideo, EngagementInv, TypeOK
    <2>2. q \in Proc /\ q.op = "vote:previous" /\ q.read = totals[p.vid] /\ q.vid = p.vid
          /\ q.person = p.person /\ q.user = p.user
        BY <2>1 DEF Proc, Ops
    <2>3. Equipped(q) /\ Founded(q) /\ Current(q)
        BY <1>1, <2>1, <2>2 DEF Equipped, Founded, Current, Stage, VotingOps, ReadVideoOps,
           CountingOps, CommentingOps
    <2>. QED
        BY <1>1, <2>2, <2>3, RequestGoesOn DEF ReadVideo
<1>. QED
    BY <1>1, RequestEnds DEF ReadVideo

LEMMA FindPreviousStep ==
    ASSUME EngagementInv, NEW a \in Actors, FindPrevious(a)
    PROVE  EngagementInv'
<1> DEFINE p == proc[a]
           mine == {x.id : x \in VotesOf(p)}
           q == [p EXCEPT !.op = "vote:delete", !.todo = mine]
<1>1. p \in Proc /\ Equipped(p) /\ Founded(p) /\ p.op = "vote:previous"
      /\ votes \in SUBSET Vote
      /\ (a \notin overtaken => Current(p))
    BY DEF FindPrevious, EngagementInv, TypeOK
<1>2. mine \in SUBSET (1 .. MaxVotes)
    BY <1>1 DEF VotesOf, Vote
<1>3. q \in Proc /\ q.op = "vote:delete" /\ q.todo = mine /\ q.vid = p.vid /\ q.read = p.read
      /\ q.person = p.person /\ q.user = p.user
    BY <1>1, <1>2 DEF Proc, Ops
<1>4. \A i \in mine : i <= cast /\ \A x \in votes : x.id = i => x.vid = p.vid
    BY DEF VotesOf, EngagementInv, Referenced, Unique
<1>5. \A x \in VotesOf(q) : x.id \in q.todo
    BY <1>3 DEF VotesOf
<1>6. Go(a, q) /\ UNCHANGED dbVars
    BY DEF FindPrevious, VotesOf
<1> HIDE DEF p, q, mine
<1>7. Equipped(q) /\ Founded(q) /\ (a \notin overtaken => Current(q))
    BY <1>1, <1>3, <1>4, <1>5 DEF Equipped, Founded, Current, Stage, VotingOps,
       ReadVideoOps, CountingOps, CommentingOps
<1>. QED
    BY <1>3, <1>6, <1>7, RequestGoesOn

LEMMA VotesCounted ==
    ASSUME TypeOK, Unique, NEW v, NEW value
    PROVE  Count(v, value) \in 0 .. MaxVotes
<1> DEFINE S == {x \in votes : x.vid = v /\ x.value = value}
           f == [x \in S |-> x.id]
<1>1. f \in Injection(S, 1 .. MaxVotes)
    <2>1. f \in [S -> 1 .. MaxVotes]
        BY DEF TypeOK, Vote
    <2>2. \A x, y \in S : f[x] = f[y] => x = y
        BY DEF Unique
    <2>. QED
        BY <2>1, <2>2 DEF Injection, IsInjective
<1>2. IsFiniteSet(1 .. MaxVotes) /\ Cardinality(1 .. MaxVotes) = MaxVotes
    <2>1. 1 \in Int /\ MaxVotes \in Int /\ MaxVotes >= 0
        BY Numbers
    <2>2. MaxVotes - 1 + 1 = MaxVotes /\ (1 > MaxVotes => MaxVotes = 0)
        BY <2>1
    <2>. QED
        BY <2>1, <2>2, FS_Interval
<1>3. IsFiniteSet(S) /\ Cardinality(S) <= MaxVotes
    BY <1>1, <1>2, FS_Injection
<1>4. Cardinality(S) \in Nat
    BY <1>3, FS_CardinalityType
<1>. QED
    BY <1>3, <1>4, Numbers DEF Count

LEMMA CountDownStep ==
    ASSUME EngagementInv, NEW a \in Actors, CountDown(a)
    PROVE  EngagementInv'
<1> DEFINE p == proc[a]
           n == Count(p.vid, "down")
           q == [p EXCEPT !.op = "vote:up", !.tally.down = n]
<1>1. p \in Proc /\ Equipped(p) /\ Founded(p) /\ (a \notin overtaken => Current(p))
      /\ p.op \in {"vote:down", "vote:delete"}
    BY DEF CountDown, Deleted, EngagementInv, TypeOK
<1>2. n \in 0 .. MaxVotes
    BY VotesCounted DEF EngagementInv
<1>3. q \in Proc /\ q.op = "vote:up" /\ q.tally.down = n /\ q.vid = p.vid /\ q.read = p.read
      /\ q.person = p.person /\ q.user = p.user /\ q.value = p.value
    BY <1>1, <1>2 DEF Proc, Ops, Tallies
<1>4. VotesOf(q) = VotesOf(p)
    BY <1>3 DEF VotesOf
<1>5. p.op = "vote:delete" => p.todo = {} /\ p.value = "neutral"
    BY DEF CountDown, Deleted
<1>6. Go(a, q) /\ UNCHANGED dbVars
    BY DEF CountDown
<1>7. a \notin overtaken => /\ q.value = "neutral" => VotesOf(q) = {}
                            /\ q.value # "neutral" => \E x \in VotesOf(q) : x.value = q.value
    BY <1>1, <1>3, <1>4, <1>5 DEF Current, CountingOps
<1>8. n = Count(q.vid, "down")
    BY <1>3
<1> HIDE DEF p, q, n
<1>9. Equipped(q) /\ Founded(q)
    BY <1>1, <1>3 DEF Equipped, Founded, Stage, VotingOps, ReadVideoOps, CountingOps,
       CommentingOps
<1>10. a \notin overtaken => Current(q)
    BY <1>1, <1>3, <1>7, <1>8 DEF Current, ReadVideoOps, CountingOps
<1>. QED
    BY <1>3, <1>6, <1>9, <1>10, RequestGoesOn

LEMMA CountUpStep ==
    ASSUME EngagementInv, NEW a \in Actors, CountUp(a)
    PROVE  EngagementInv'
<1> DEFINE p == proc[a]
           n == Count(p.vid, "up")
           q == [p EXCEPT !.op = "vote:save", !.tally.up = n]
<1>1. p \in Proc /\ Equipped(p) /\ Founded(p) /\ (a \notin overtaken => Current(p))
      /\ p.op = "vote:up"
    BY DEF CountUp, EngagementInv, TypeOK
<1>2. n \in 0 .. MaxVotes
    BY VotesCounted DEF EngagementInv
<1>3. q \in Proc /\ q.op = "vote:save" /\ q.tally.up = n /\ q.tally.down = p.tally.down
      /\ q.vid = p.vid /\ q.read = p.read
      /\ q.person = p.person /\ q.user = p.user /\ q.value = p.value
    BY <1>1, <1>2 DEF Proc, Ops, Tallies
<1>4. VotesOf(q) = VotesOf(p) /\ n = Count(q.vid, "up") /\ Count(q.vid, "down") = Count(p.vid, "down")
    BY <1>3 DEF VotesOf
<1>5. Go(a, q) /\ UNCHANGED dbVars
    BY DEF CountUp
<1> HIDE DEF p, q, n
<1>6. Equipped(q) /\ Founded(q)
    BY <1>1, <1>3 DEF Equipped, Founded, Stage, VotingOps, ReadVideoOps, CountingOps,
       CommentingOps
<1>7. a \notin overtaken => Current(q)
    BY <1>1, <1>3, <1>4 DEF Current, ReadVideoOps, CountingOps
<1>. QED
    BY <1>3, <1>5, <1>6, <1>7, RequestGoesOn


\* What an untouched request has found stays found.
LEMMA StillFounded ==
    ASSUME EngagementInv, NEW b \in Actors, proc'[b] = proc[b], users' = users,
           proc[b].vid \in stored \cup raced => proc[b].vid \in stored' \cup raced',
           cast' \in Nat, cast <= cast', \A x \in votes' : x \in votes \/ x.id > cast
    PROVE  Founded(proc[b])'
<1>1. Founded(proc[b]) /\ proc[b] \in Proc /\ cast \in Nat /\ votes \in SUBSET Vote
    BY DEF EngagementInv, TypeOK
<1>2. ASSUME proc[b].op = "vote:delete", NEW i \in proc[b].todo
      PROVE  i <= cast' /\ \A x \in votes' : x.id = i => x.vid = proc[b].vid
    <2>1. i \in Nat /\ i <= cast /\ \A x \in votes : x.id = i => x.vid = proc[b].vid
        BY <1>1, <1>2 DEF Founded, Proc
    <2>2. \A n \in Nat : n > cast => n # i
        BY <2>1, <1>1
    <2>3. \A x \in votes' : x.id = i => x \in votes
        BY <2>1, <1>1
    <2>. QED
        BY <2>1, <2>3, <1>1
<1>. QED
    BY <1>1, <1>2 DEF Founded

\* What it has found is still so when only another video changes.
LEMMA StillCurrent ==
    ASSUME NEW b \in Actors, proc'[b] = proc[b], Current(proc[b]), Equipped(proc[b]),
           NEW v \in VideoIds, proc[b].vid # v,
           \A x \in votes \cup votes' : x.vid # v => (x \in votes' <=> x \in votes),
           stored \ {v} \subseteq stored',
           \A w \in VideoIds \ {v} : totals'[w] = totals[w],
           proc[b].op = "change:save" => ~comments'[proc[b].cid].frozen
    PROVE  Current(proc[b])'
<1> DEFINE p == proc[b]
<1>1. {x \in votes' : x.owner = p.user /\ x.vid = p.vid} = VotesOf(p)
    BY DEF VotesOf
<1>2. \A value : {x \in votes' : x.vid = p.vid /\ x.value = value}
                 = {x \in votes : x.vid = p.vid /\ x.value = value}
    OBVIOUS
<1>3. VotesOf(proc[b])' = VotesOf(p) /\ \A value : Count(proc[b].vid, value)' = Count(p.vid, value)
    BY <1>1, <1>2 DEF VotesOf, Count
<1>4. p.op \in ReadVideoOps => p.vid \in stored' /\ p.read = totals'[p.vid]
    BY DEF Current, Equipped, Stage, VotingOps, ReadVideoOps, CountingOps
<1>. QED
    BY <1>3, <1>4 DEF Current

\* What all requests keep when a video changes, and those on it are overtaken.
Kept(b) ==
    /\ Equipped(proc[b])' /\ Founded(proc[b])'
    /\ b \notin overtaken' => Current(proc[b])'

LEMMA OthersKept ==
    ASSUME EngagementInv, NEW v \in VideoIds, NEW S,
           \A b \in Actors \ S :
              /\ proc'[b] = proc[b]
              /\ proc[b].vid = v => v \in stored' \cup raced'
              /\ b \notin overtaken' => b \notin overtaken /\ proc[b].vid # v
              /\ b \notin overtaken' /\ proc[b].op = "change:save" =>
                    ~comments'[proc[b].cid].frozen,
           stored \ {v} \subseteq stored', raced \subseteq raced', users' = users,
           cast' \in Nat, cast <= cast', \A x \in votes' : x \in votes \/ x.id > cast,
           \A x \in votes \cup votes' : x.vid # v => (x \in votes' <=> x \in votes),
           \A w \in VideoIds \ {v} : totals'[w] = totals[w]
    PROVE  \A b \in Actors \ S : Kept(b)
<1> SUFFICES ASSUME NEW b \in Actors \ S PROVE Kept(b)
    OBVIOUS
<1>1. proc'[b] = proc[b] /\ Equipped(proc[b]) /\ (b \notin overtaken => Current(proc[b]))
    BY DEF EngagementInv
<1>2. Founded(proc[b])'
    BY <1>1, StillFounded
<1>3. b \notin overtaken' => Current(proc[b])'
    BY <1>1, StillCurrent
<1>. QED
    BY <1>1, <1>2, <1>3 DEF Kept, Equipped, Stage

LEMMA DeletePreviousStep ==
    ASSUME EngagementInv, NEW a \in Actors, NEW i \in 1 .. MaxVotes, DeletePrevious(a, i)
    PROVE  EngagementInv'
<1> DEFINE p == proc[a]
           q == [p EXCEPT !.todo = @ \ {i}]
<1>1. p \in Proc /\ Equipped(p) /\ Founded(p) /\ (a \notin overtaken => Current(p))
      /\ p.op = "vote:delete" /\ i \in p.todo
    BY DEF DeletePrevious, EngagementInv, TypeOK
<1>2. /\ votes' = {x \in votes : x.id # i}
      /\ proc' = [proc EXCEPT ![a] = q]
      /\ overtaken' = overtaken \cup (OnVideo(p.vid) \ {a})
      /\ UNCHANGED <<stored, totals, users, cast, comments, raced>>
    BY DEF DeletePrevious, Become
<1>3. q \in Proc /\ q.op = p.op /\ q.todo = p.todo \ {i} /\ q.vid = p.vid /\ q.read = p.read
      /\ q.person = p.person /\ q.user = p.user /\ q.value = p.value
    BY <1>1 DEF Proc
<1>4. p.vid \in VideoIds /\ \A x \in votes : x.id = i => x.vid = p.vid
    BY <1>1 DEF Equipped, Founded, Stage, VotingOps, ReadVideoOps
<1>5. votes' \subseteq votes /\ cast \in Nat /\ proc \in [Actors -> Proc]
    BY <1>2 DEF EngagementInv, TypeOK
<1> HIDE DEF p, q
<1>6. TypeOK'
    BY <1>2, <1>3, <1>5 DEF EngagementInv, TypeOK, OnVideo
<1>7. Unique' /\ Referenced'
    BY <1>2, <1>5 DEF EngagementInv, Unique, Referenced
<1>8. proc'[a] = q /\ (a \in overtaken <=> a \in overtaken')
    BY <1>2, <1>5
<1>9. Kept(a)
    <2>1. Equipped(proc[a])'
        BY <1>1, <1>3, <1>8 DEF Equipped, Stage
    <2>2. Founded(proc[a])'
        BY <1>1, <1>2, <1>3, <1>5, <1>8 DEF Founded
    <2>3. a \notin overtaken' => Current(proc[a])'
        BY <1>1, <1>2, <1>3, <1>8 DEF Current, VotesOf, ReadVideoOps, CountingOps
    <2>. QED
        BY <2>1, <2>2, <2>3 DEF Kept
<1>10. \A b \in Actors \ {a} : Kept(b)
    <2>1. \A b \in Actors \ {a} :
             /\ proc'[b] = proc[b]
             /\ proc[b].vid = p.vid => p.vid \in stored' \cup raced'
             /\ b \notin overtaken' => b \notin overtaken /\ proc[b].vid # p.vid
             /\ b \notin overtaken' /\ proc[b].op = "change:save" =>
                   ~comments'[proc[b].cid].frozen
        BY <1>1, <1>2, <1>5 DEF OnVideo, EngagementInv, Current, Founded, ReadVideoOps
    <2>2. \A x \in votes \cup votes' : x.vid # p.vid => (x \in votes' <=> x \in votes)
        BY <1>2, <1>4
    <2>3. cast' \in Nat /\ cast <= cast' /\ \A x \in votes' : x \in votes \/ x.id > cast
        BY <1>2, <1>5
    <2>. QED
        BY <2>1, <2>2, <2>3, <1>2, <1>4, OthersKept
<1>. QED
    BY <1>6, <1>7, <1>9, <1>10 DEF EngagementInv, Kept

LEMMA CreateVoteStep ==
    ASSUME EngagementInv, NEW a \in Actors, CreateVote(a)
    PROVE  EngagementInv'
<1> DEFINE p == proc[a]
           q == [p EXCEPT !.op = "vote:down"]
           x == [id |-> cast + 1, owner |-> p.user, vid |-> p.vid, value |-> p.value]
<1>1. p \in Proc /\ Equipped(p) /\ Founded(p) /\ (a \notin overtaken => Current(p))
      /\ p.op = "vote:delete" /\ p.value # "neutral" /\ ~VotedAlready(p)
      /\ cast < MaxVotes
    BY DEF CreateVote, Deleted, EngagementInv, TypeOK
<1>2. /\ votes' = votes \cup {x}
      /\ cast' = cast + 1
      /\ proc' = [proc EXCEPT ![a] = q]
      /\ overtaken' = overtaken \cup (OnVideo(p.vid) \ {a})
      /\ UNCHANGED <<stored, totals, users, comments, raced>>
    BY DEF CreateVote, Become
<1>3. q \in Proc /\ q.op = "vote:down" /\ q.vid = p.vid /\ q.read = p.read
      /\ q.person = p.person /\ q.user = p.user /\ q.value = p.value
    BY <1>1 DEF Proc, Ops
<1>4. p.vid \in VideoIds /\ p.person \in Persons /\ p.user \in UserIds
      /\ users[p.user] = p.person /\ p.vid \in stored \cup raced
    BY <1>1 DEF Equipped, Founded, Stage, VotingOps, ReadVideoOps
<1>5. cast \in Nat /\ MaxVotes \in Nat /\ proc \in [Actors -> Proc] /\ votes \in SUBSET Vote
      /\ cast + 1 \in 1 .. MaxVotes
    BY <1>1, Numbers DEF EngagementInv, TypeOK
<1>6. x \in Vote /\ x.id = cast + 1 /\ x.owner = p.user /\ x.vid = p.vid /\ x.value = p.value
    BY <1>1, <1>4, <1>5 DEF Vote, Proc
<1>7. \A y \in votes : y.id <= cast /\ y.id # cast + 1 /\ ~(y.owner = p.user /\ y.vid = p.vid)
    BY <1>1, <1>5 DEF EngagementInv, Referenced, VotedAlready, Vote
<1> HIDE DEF p, q, x
<1>8. TypeOK'
    BY <1>2, <1>3, <1>5, <1>6 DEF EngagementInv, TypeOK, OnVideo
<1>9. Unique'
    BY <1>2, <1>6, <1>7 DEF EngagementInv, Unique
<1>10. Referenced'
    <2>1. \A y \in votes : y.id <= cast + 1
        BY <1>5, <1>7 DEF Vote
    <2>. QED
        BY <2>1, <1>2, <1>4, <1>5, <1>6, NoneIsNot DEF EngagementInv, Referenced
<1>11. proc'[a] = q /\ (a \in overtaken <=> a \in overtaken')
    BY <1>2, <1>5
<1>12. Kept(a)
    <2>1. Equipped(proc[a])'
        BY <1>1, <1>3, <1>11 DEF Equipped, Stage, VotingOps, ReadVideoOps
    <2>2. Founded(proc[a])'
        BY <1>1, <1>2, <1>3, <1>4, <1>11 DEF Founded
    <2>3. x \in VotesOf(proc[a])'
        BY <1>2, <1>3, <1>6, <1>11 DEF VotesOf
    <2>4. a \notin overtaken' => Current(proc[a])'
        BY <1>1, <1>2, <1>3, <1>6, <1>11, <2>3 DEF Current, ReadVideoOps, CountingOps
    <2>. QED
        BY <2>1, <2>2, <2>4 DEF Kept
<1>13. \A b \in Actors \ {a} : Kept(b)
    <2>1. \A b \in Actors \ {a} :
             /\ proc'[b] = proc[b]
             /\ proc[b].vid = p.vid => p.vid \in stored' \cup raced'
             /\ b \notin overtaken' => b \notin overtaken /\ proc[b].vid # p.vid
             /\ b \notin overtaken' /\ proc[b].op = "change:save" =>
                   ~comments'[proc[b].cid].frozen
        BY <1>2, <1>4, <1>5 DEF OnVideo, EngagementInv, Current
    <2>2. \A y \in votes' : y \in votes \/ y.id > cast
        BY <1>2, <1>5, <1>6
    <2>3. \A y \in votes \cup votes' : y.vid # p.vid => (y \in votes' <=> y \in votes)
        BY <1>2, <1>6
    <2>4. cast' \in Nat /\ cast <= cast'
        BY <1>2, <1>5
    <2>. QED
        BY <2>1, <2>2, <2>3, <2>4, <1>2, <1>4, OthersKept
<1>. QED
    BY <1>8, <1>9, <1>10, <1>12, <1>13 DEF EngagementInv, Kept

LEMMA SaveTotalsStep ==
    ASSUME EngagementInv, NEW a \in Actors, SaveTotals(a)
    PROVE  EngagementInv'
<1> DEFINE p == proc[a]
<1>1. p \in Proc /\ Equipped(p) /\ Founded(p) /\ p.op = "vote:save"
    BY DEF SaveTotals, EngagementInv, TypeOK
<1>2. /\ proc' = [proc EXCEPT ![a] = IdleProc]
      /\ overtaken' = (overtaken \cup OnVideo(p.vid)) \ {a}
      /\ UNCHANGED <<stored, users, votes, cast, comments, raced>>
    BY DEF SaveTotals, Finish, Become
<1>3. p.vid \in VideoIds /\ p.vid \in stored \cup raced
    BY <1>1 DEF Equipped, Founded, Stage, VotingOps, ReadVideoOps, CountingOps
<1>4. PICK t \in Tallies : totals' \in {totals, [totals EXCEPT ![p.vid] = t]}
    <2>1. PICK whole \in SaveModes :
            totals' = IF p.vid \in stored
                    THEN [totals EXCEPT ![p.vid] =
                           [up |-> Written(whole, p.read.up, p.tally.up, @.up),
                            down |-> Written(whole, p.read.down, p.tally.down, @.down)]]
                    ELSE totals
        BY DEF SaveTotals
    <2> DEFINE t == [up |-> Written(whole, p.read.up, p.tally.up, totals[p.vid].up),
                     down |-> Written(whole, p.read.down, p.tally.down, totals[p.vid].down)]
    <2>2. totals[p.vid] \in Tallies /\ p.read \in Tallies /\ p.tally \in Tallies
        BY <1>1, <1>3 DEF EngagementInv, TypeOK, Proc
    <2>3. t \in Tallies
        BY <2>2 DEF Written, Tallies
    <2>4. totals' \in {totals, [totals EXCEPT ![p.vid] = t]}
        BY <2>1
    <2>. QED
        BY <2>3, <2>4
<1>5. proc \in [Actors -> Proc] /\ totals \in [VideoIds -> Tallies] /\ cast \in Nat
    BY DEF EngagementInv, TypeOK
<1> HIDE DEF p
<1>6. TypeOK'
    BY <1>2, <1>4, <1>5, IdleRecord DEF EngagementInv, TypeOK, OnVideo
<1>7. Unique' /\ Referenced'
    BY <1>2 DEF EngagementInv, Unique, Referenced
<1>8. Kept(a)
    <2>1. proc'[a] = IdleProc /\ IdleProc.op = "idle"
        BY <1>2, <1>5 DEF IdleProc
    <2>. QED
        BY <2>1 DEF Kept, Equipped, Founded, Current, Stage, VotingOps, CommentingOps,
           ReadVideoOps, CountingOps
<1>9. \A b \in Actors \ {a} : Kept(b)
    <2>1. \A b \in Actors \ {a} :
             /\ proc'[b] = proc[b]
             /\ proc[b].vid = p.vid => p.vid \in stored' \cup raced'
             /\ b \notin overtaken' => b \notin overtaken /\ proc[b].vid # p.vid
             /\ b \notin overtaken' /\ proc[b].op = "change:save" =>
                   ~comments'[proc[b].cid].frozen
        BY <1>2, <1>3, <1>5 DEF OnVideo, EngagementInv, Current
    <2>2. \A w \in VideoIds \ {p.vid} : totals'[w] = totals[w]
        BY <1>4, <1>5
    <2>3. cast' \in Nat /\ cast <= cast' /\ \A x \in votes' : x \in votes \/ x.id > cast
        BY <1>2, <1>5
    <2>4. \A x \in votes \cup votes' : x.vid # p.vid => (x \in votes' <=> x \in votes)
        BY <1>2
    <2>. QED
        BY <2>1, <2>2, <2>3, <2>4, <1>2, <1>3, OthersKept
<1>. QED
    BY <1>6, <1>7, <1>8, <1>9 DEF EngagementInv, Kept

-----------------------------------------------------------------------------
(* The steps of a comment.                                                  *)

LEMMA ReadCommentedVideoStep ==
    ASSUME EngagementInv, NEW a \in Actors, ReadCommentedVideo(a)
    PROVE  EngagementInv'
<1> DEFINE p == proc[a]
           q == [p EXCEPT !.op = "comment:create"]
<1>1. CASE p.vid \in stored
    <2>1. p \in Proc /\ Equipped(p) /\ Founded(p) /\ p.op = "comment:video"
        BY DEF ReadCommentedVideo, EngagementInv, TypeOK
    <2>2. q \in Proc /\ q.op = "comment:create" /\ q.vid = p.vid
          /\ q.person = p.person /\ q.user = p.user
        BY <2>1 DEF Proc, Ops
    <2>3. Equipped(q) /\ Founded(q) /\ Current(q)
        BY <1>1, <2>1, <2>2 DEF Equipped, Founded, Current, Stage, VotingOps, ReadVideoOps,
           CountingOps, CommentingOps
    <2>. QED
        BY <1>1, <2>2, <2>3, RequestGoesOn DEF ReadCommentedVideo
<1>. QED
    BY <1>1, RequestEnds DEF ReadCommentedVideo

LEMMA ReadCommentStep ==
    ASSUME EngagementInv, NEW a \in Actors, ReadComment(a)
    PROVE  EngagementInv'
<1> DEFINE p == proc[a]
           d == comments[p.cid]
           q == [p EXCEPT !.op = "change:save", !.seen = d]
<1>1. CASE Accepts(p, d)
    <2>1. p \in Proc /\ Equipped(p) /\ p.op = "change:read"
        BY DEF ReadComment, EngagementInv, TypeOK
    <2>2. p.cid \in CommentIds /\ d \in Comment
        BY <2>1 DEF Equipped, Stage, EngagementInv, TypeOK
    <2>3. q \in Proc /\ q.op = "change:save" /\ q.cid = p.cid /\ q.seen = d /\ q.verb = p.verb
        BY <2>1, <2>2 DEF Proc, Ops
    <2>4. d.state = "stored" /\ ~d.frozen /\ (p.verb = "edit" => d.edits < MaxEditHistory)
        BY <1>1, <2>2 DEF Accepts, IsEditable
    <2>5. Go(a, q) /\ UNCHANGED dbVars
        BY <1>1 DEF ReadComment
    <2> HIDE DEF p, q
    <2>6. Equipped(q) /\ Founded(q) /\ Current(q)
        BY <2>2, <2>3, <2>4 DEF Equipped, Founded, Current, Stage, VotingOps, ReadVideoOps,
           CountingOps, CommentingOps
    <2>. QED
        BY <2>3, <2>5, <2>6, RequestGoesOn
<1>. QED
    BY <1>1, RequestEnds DEF ReadComment

\* What all requests keep when comments change, and those on them are overtaken.
LEMMA CommentsOnly ==
    ASSUME EngagementInv, NEW a \in Actors, proc' = [proc EXCEPT ![a] = IdleProc],
           TypeOK', overtaken \ {a} \subseteq overtaken',
           UNCHANGED <<stored, totals, users, votes, cast, raced>>,
           \A b \in Actors \ {a} :
              b \notin overtaken' /\ proc[b].op = "change:save" =>
                 ~comments'[proc[b].cid].frozen,
           \A c \in CommentIds :
              /\ comments'[c].state = "stored" => comments'[c].vid \in stored \cup raced
              /\ comments'[c].frozen => comments'[c].state = "stored"
    PROVE  EngagementInv'
<1>1. Unique' /\ Referenced'
    BY DEF EngagementInv, Unique, Referenced
<1>2. ASSUME NEW b \in Actors
      PROVE  /\ Equipped(proc[b])' /\ Founded(proc[b])'
             /\ b \notin overtaken' => Current(proc[b])'
    <2>1. proc'[b] = IF b = a THEN IdleProc ELSE proc[b]
        BY DEF EngagementInv, TypeOK
    <2>2. CASE b = a
        <3>1. proc'[b] = IdleProc /\ IdleProc.op = "idle"
            BY <2>1, <2>2 DEF IdleProc
        <3>. QED
            BY <3>1 DEF Equipped, Founded, Current, Stage, VotingOps, CommentingOps,
               ReadVideoOps, CountingOps
    <2>3. CASE b # a
        <3>1. proc'[b] = proc[b] /\ Equipped(proc[b]) /\ Founded(proc[b])
              /\ (b \notin overtaken' => Current(proc[b]))
            BY <2>1, <2>3 DEF EngagementInv
        <3>. QED
            BY <3>1, <2>3 DEF Equipped, Founded, Current, Stage, VotesOf, Count
    <2>. QED
        BY <2>2, <2>3
<1>. QED
    BY <1>1, <1>2 DEF EngagementInv

LEMMA CreateCommentStep ==
    ASSUME EngagementInv, NEW a \in Actors, CreateComment(a)
    PROVE  EngagementInv'
<1> DEFINE p == proc[a]
<1>1. p \in Proc /\ Founded(p) /\ Equipped(p) /\ p.op = "comment:create"
    BY DEF CreateComment, EngagementInv, TypeOK
<1>2. PICK c \in CommentIds :
        /\ comments[c].state = "unborn"
        /\ comments' = [comments EXCEPT ![c] = NewComment(p.user, p.vid)]
    BY DEF CreateComment
<1>3. /\ proc' = [proc EXCEPT ![a] = IdleProc]
      /\ overtaken' = overtaken \ {a}
      /\ UNCHANGED <<stored, totals, users, votes, cast, raced>>
    BY DEF CreateComment, End, Finish, Become
<1>4. p.vid \in stored \cup raced
    BY <1>1 DEF Founded
<1> DEFINE d == NewComment(p.user, p.vid)
<1>5. d \in Comment /\ d.vid = p.vid /\ ~d.frozen
    BY <1>1, NewComments DEF Proc, NewComment
<1>6. comments \in [CommentIds -> Comment]
    BY DEF EngagementInv, TypeOK
<1> HIDE DEF p, d
<1>7. TypeOK'
    BY <1>2, <1>3, <1>5, IdleRecord DEF EngagementInv, TypeOK, d
<1>8. \A k \in CommentIds : comments'[k].frozen <=> comments[k].frozen /\ k # c
    BY <1>2, <1>5, <1>6 DEF d
<1>9. \A b \in Actors \ {a} :
         b \notin overtaken' /\ proc[b].op = "change:save" => ~comments'[proc[b].cid].frozen
    BY <1>3, <1>8 DEF EngagementInv, Current, Equipped, Stage
<1>10. \A k \in CommentIds :
          /\ comments'[k].state = "stored" => comments'[k].vid \in stored \cup raced
          /\ comments'[k].frozen => comments'[k].state = "stored"
    BY <1>2, <1>4, <1>5, <1>6 DEF EngagementInv, Referenced, d
<1>. QED
    BY <1>3, <1>7, <1>9, <1>10, CommentsOnly

LEMMA SaveCommentStep ==
    ASSUME EngagementInv, NEW a \in Actors, SaveComment(a)
    PROVE  EngagementInv'
<1> DEFINE p == proc[a]
           d == Changed(p.seen, p.verb)
<1>1. p \in Proc /\ Equipped(p) /\ p.op = "change:save"
    BY DEF SaveComment, EngagementInv, TypeOK
<1>2. /\ proc' = [proc EXCEPT ![a] = IdleProc]
      /\ overtaken' = (overtaken \cup OnComment(p.cid)) \ {a}
      /\ UNCHANGED <<stored, totals, users, votes, cast, raced>>
    BY DEF SaveComment, Finish, Become
<1>3. d \in Comment
    <2>1. p.seen \in Comment /\ p.verb \in Verbs
          /\ (p.verb = "edit" => p.seen.edits + 1 \in 1 .. MaxEditHistory)
        BY <1>1, Numbers DEF Proc, Equipped, Comment
    <2>2. 1 \in 1 .. MaxEditHistory /\ {"removed by author", "removed by moderator"} \subseteq Texts
        BY Numbers DEF Texts
    <2> HIDE DEF p
    <2>3. CASE p.verb = "edit"
        BY <2>1, <2>3 DEF Changed, Comment
    <2>4. CASE p.verb = "remove"
        <3>1. d = [p.seen EXCEPT !.text = "removed by author", !.edits = 1, !.frozen = TRUE]
            BY <2>4 DEF Changed
        <3>. QED
            BY <2>1, <2>2, <3>1 DEF Comment
    <2>5. CASE p.verb = "moderate"
        <3>1. d = [p.seen EXCEPT !.text = "removed by moderator", !.edits = 1, !.frozen = TRUE]
            BY <2>5 DEF Changed
        <3>. QED
            BY <2>1, <2>2, <3>1 DEF Comment
    <2>. QED
        BY <2>1, <2>3, <2>4, <2>5 DEF Verbs
<1>4. p.cid \in CommentIds /\ p.seen \in Comment
    BY <1>1 DEF Equipped, Stage, Proc
<1>5. comments \in [CommentIds -> Comment]
    BY DEF EngagementInv, TypeOK
<1> DEFINE old == comments[p.cid]
           new(whole) == [old EXCEPT !.text = d.text, !.edits = d.edits,
                             !.frozen = Written(whole, p.seen.frozen, d.frozen, old.frozen)]
<1>6. PICK whole \in SaveModes :
        comments' = IF old.state = "stored" THEN [comments EXCEPT ![p.cid] = new(whole)]
                    ELSE comments
    BY DEF SaveComment
<1>7. new(whole) \in Comment /\ new(whole).state = old.state /\ new(whole).vid = old.vid
    BY <1>3, <1>4, <1>5 DEF Comment, Written
<1> HIDE DEF p, d, new
<1>9. TypeOK'
    BY <1>2, <1>5, <1>7, <1>6, IdleRecord DEF EngagementInv, TypeOK, OnComment
<1>10. \A b \in Actors \ {a} :
         b \notin overtaken' /\ proc[b].op = "change:save" => ~comments'[proc[b].cid].frozen
    <2>1. \A b \in Actors \ {a} : b \notin overtaken' => b \notin overtaken /\ proc[b].cid # p.cid
        BY <1>2 DEF OnComment
    <2>2. \A c \in CommentIds \ {p.cid} : comments'[c] = comments[c]
        BY <1>5, <1>6
    <2>. QED
        BY <2>1, <2>2 DEF EngagementInv, Current, Equipped, Stage
<1>11. \A k \in CommentIds :
          /\ comments'[k].state = "stored" => comments'[k].vid \in stored \cup raced
          /\ comments'[k].frozen => comments'[k].state = "stored"
    BY <1>5, <1>7, <1>6 DEF EngagementInv, Referenced
<1>12. overtaken \ {a} \subseteq overtaken'
    BY <1>2
<1>. QED
    BY <1>2, <1>9, <1>10, <1>11, <1>12, CommentsOnly

-----------------------------------------------------------------------------
(* What else happens to votes and comments.                                 *)

LEMMA ExpireStep ==
    ASSUME EngagementInv, NEW c \in CommentIds, Expire(c)
    PROVE  EngagementInv'
<1>1. /\ comments' = [comments EXCEPT ![c] = [comments[c] EXCEPT !.young = FALSE]]
      /\ UNCHANGED <<stored, totals, users, votes, cast, proc, overtaken, raced>>
    BY DEF Expire
<1> DEFINE d == [comments[c] EXCEPT !.young = FALSE]
<1>2. comments \in [CommentIds -> Comment]
    BY DEF EngagementInv, TypeOK
<1>3. d \in Comment /\ d.state = comments[c].state /\ d.vid = comments[c].vid
      /\ d.frozen = comments[c].frozen
    BY <1>2 DEF Comment
<1> HIDE DEF d
<1>4. \A k \in CommentIds : /\ comments'[k].state = comments[k].state
                            /\ comments'[k].vid = comments[k].vid
                            /\ comments'[k].frozen = comments[k].frozen
    BY <1>1, <1>2, <1>3 DEF d
<1>5. TypeOK'
    BY <1>1, <1>2, <1>3 DEF EngagementInv, TypeOK, d
<1>6. Unique' /\ Referenced'
    BY <1>1, <1>4 DEF EngagementInv, Unique, Referenced
<1>7. ASSUME NEW b \in Actors
      PROVE  /\ Equipped(proc[b])' /\ Founded(proc[b])'
             /\ b \notin overtaken' => Current(proc[b])'
    <2>1. Equipped(proc[b]) /\ Founded(proc[b]) /\ (b \notin overtaken => Current(proc[b]))
        BY DEF EngagementInv
    <2>. QED
        BY <2>1, <1>1, <1>4 DEF Equipped, Founded, Current, Stage, VotesOf, Count
<1>. QED
    BY <1>5, <1>6, <1>7 DEF EngagementInv

LEMMA DeleteVideoStep ==
    ASSUME EngagementInv, NEW v \in VideoIds, DeleteVideo(v)
    PROVE  EngagementInv'
<1> DEFINE gone == [UnbornComment EXCEPT !.state = "deleted"]
<1>1. /\ stored' = stored \ {v}
      /\ totals' = [totals EXCEPT ![v] = NoTally]
      /\ votes' = {x \in votes : x.vid # v}
      /\ comments' = [c \in CommentIds |-> IF c \in CommentsOf(v) THEN gone ELSE comments[c]]
      /\ raced' = IF OnVideo(v) = {} THEN raced ELSE raced \cup {v}
      /\ overtaken' = overtaken \cup OnVideo(v) \cup UNION {OnComment(c) : c \in CommentsOf(v)}
      /\ UNCHANGED <<users, cast, proc>>
    BY DEF DeleteVideo
<1>2. gone \in Comment /\ gone.state = "deleted" /\ ~gone.frozen
    <2>1. UnbornComment.frozen = FALSE
        BY DEF UnbornComment, NewComment
    <2>. QED
        BY <2>1, IdleRecord DEF Comment
<1>3. proc \in [Actors -> Proc] /\ cast \in Nat /\ comments \in [CommentIds -> Comment]
    BY DEF EngagementInv, TypeOK
<1> HIDE DEF gone
<1>4. TypeOK'
    <2>1. totals' \in [VideoIds -> Tallies] /\ comments' \in [CommentIds -> Comment]
        BY <1>1, <1>2, IdleRecord DEF EngagementInv, TypeOK
    <2>2. raced' \in SUBSET VideoIds /\ overtaken' \in SUBSET Actors
        BY <1>1 DEF EngagementInv, TypeOK, OnVideo, OnComment
    <2>. QED
        BY <2>1, <2>2, <1>1 DEF EngagementInv, TypeOK
<1>5. Unique'
    BY <1>1 DEF EngagementInv, Unique
<1>6. Referenced'
    <2>1. \A c \in CommentIds :
             /\ comments'[c].state = "stored" =>
                   comments[c].state = "stored" /\ comments'[c].vid = comments[c].vid
                   /\ comments[c].vid # v
             /\ comments'[c].frozen => comments'[c].state = "stored"
        BY <1>1, <1>2 DEF CommentsOf, EngagementInv, Referenced
    <2>2. \A w \in stored \cup raced : w # v => w \in stored' \cup raced'
        BY <1>1
    <2>. QED
        BY <1>1, <2>1, <2>2 DEF EngagementInv, Referenced
<1>7. \A b \in Actors \ {} : Kept(b)
    <2>1. ASSUME NEW b \in Actors
          PROVE  /\ proc'[b] = proc[b]
                 /\ proc[b].vid = v => v \in stored' \cup raced'
                 /\ b \notin overtaken' => b \notin overtaken /\ proc[b].vid # v
                 /\ b \notin overtaken' /\ proc[b].op = "change:save" =>
                       ~comments'[proc[b].cid].frozen
        <3>1. /\ proc'[b] = proc[b]
              /\ proc[b].vid = v => v \in stored' \cup raced'
              /\ b \notin overtaken' => b \notin overtaken /\ proc[b].vid # v
            BY <1>1 DEF OnVideo
        <3>2. \A c \in CommentIds : comments'[c].frozen => comments[c].frozen
            BY <1>1, <1>2
        <3>. QED
            BY <3>1, <3>2 DEF EngagementInv, Current, Equipped, Stage
    <2>2. cast' \in Nat /\ cast <= cast' /\ \A x \in votes' : x \in votes \/ x.id > cast
        BY <1>1, <1>3
    <2>3. \A x \in votes \cup votes' : x.vid # v => (x \in votes' <=> x \in votes)
        BY <1>1
    <2>4. stored \ {v} \subseteq stored' /\ raced \subseteq raced' /\ users' = users
        BY <1>1
    <2>5. \A w \in VideoIds \ {v} : totals'[w] = totals[w]
        BY <1>1 DEF EngagementInv, TypeOK
    <2>. QED
        BY <2>1, <2>2, <2>3, <2>4, <2>5, OthersKept
<1>. QED
    BY <1>4, <1>5, <1>6, <1>7 DEF EngagementInv, Kept

-----------------------------------------------------------------------------
(* The invariant, and the invariants that follow from it.                   *)

LEMMA EngagementInit == Init => EngagementInv
<1> SUFFICES ASSUME Init PROVE EngagementInv
    OBVIOUS
<1>1. TypeOK
    BY IdleRecord, Numbers DEF Init, TypeOK
<1>2. Unique
    BY DEF Init, Unique
<1>3. Referenced
    <2>1. UnbornComment.state = "unborn" /\ ~UnbornComment.frozen
        BY DEF UnbornComment, NewComment
    <2>. QED
        BY <2>1 DEF Init, Referenced
<1>4. \A a \in Actors : proc[a] = IdleProc
    BY DEF Init
<1>. QED
    BY <1>1, <1>2, <1>3, <1>4, IdleRecord DEF EngagementInv

LEMMA EngagementStep == EngagementInv /\ [Next]_vars => EngagementInv'
<1> SUFFICES ASSUME EngagementInv, [Next]_vars PROVE EngagementInv'
    OBVIOUS
<1>1. ASSUME NEW a \in Actors, Begin(a) PROVE EngagementInv'
    BY <1>1, BeginStep
<1>2. ASSUME NEW a \in Actors, Progress(a) PROVE EngagementInv'
    <2>1. CASE CreateUser(a)
        BY <2>1, CreateUserStep
    <2>2. CASE CreateUserRefused(a) \/ CreateVoteRefused(a)
        BY <2>2, RequestEnds DEF CreateUserRefused, CreateVoteRefused
    <2>3. CASE ReadVideo(a)
        BY <2>3, ReadVideoStep
    <2>4. CASE FindPrevious(a)
        BY <2>4, FindPreviousStep
    <2>5. CASE \E i \in 1 .. MaxVotes : DeletePrevious(a, i)
        BY <2>5, DeletePreviousStep
    <2>6. CASE CreateVote(a)
        BY <2>6, CreateVoteStep
    <2>7. CASE CountDown(a)
        BY <2>7, CountDownStep
    <2>8. CASE CountUp(a)
        BY <2>8, CountUpStep
    <2>9. CASE SaveTotals(a)
        BY <2>9, SaveTotalsStep
    <2>10. CASE ReadCommentedVideo(a)
        BY <2>10, ReadCommentedVideoStep
    <2>11. CASE CreateComment(a)
        BY <2>11, CreateCommentStep
    <2>12. CASE ReadComment(a)
        BY <2>12, ReadCommentStep
    <2>13. CASE SaveComment(a)
        BY <2>13, SaveCommentStep
    <2>. QED
        BY <1>2, <2>1, <2>2, <2>3, <2>4, <2>5, <2>6, <2>7, <2>8, <2>9, <2>10, <2>11, <2>12,
           <2>13 DEF Progress
<1>3. ASSUME NEW a \in Actors, Crash(a) PROVE EngagementInv'
    BY <1>3, RequestEnds DEF Crash
<1>4. ASSUME NEW c \in CommentIds, Expire(c) PROVE EngagementInv'
    BY <1>4, ExpireStep
<1>5. ASSUME NEW v \in VideoIds, DeleteVideo(v) PROVE EngagementInv'
    BY <1>5, DeleteVideoStep
<1>6. CASE UNCHANGED vars
    <2>1. TypeOK' /\ Unique' /\ Referenced'
        BY <1>6 DEF vars, dbVars, EngagementInv, TypeOK, Unique, Referenced
    <2>2. ASSUME NEW b \in Actors
          PROVE  /\ Equipped(proc[b])' /\ Founded(proc[b])'
                 /\ b \notin overtaken' => Current(proc[b])'
        <3>1. Equipped(proc[b]) /\ Founded(proc[b]) /\ (b \notin overtaken => Current(proc[b]))
            BY DEF EngagementInv
        <3>. QED
            BY <3>1, <1>6 DEF vars, dbVars, Equipped, Founded, Current, Stage, VotesOf, Count
    <2>. QED
        BY <2>1, <2>2 DEF EngagementInv
<1>. QED
    BY <1>1, <1>2, <1>3, <1>4, <1>5, <1>6 DEF Next

LEMMA EngagementInvariant == Spec => []EngagementInv
<1>. QED
    BY EngagementInit, EngagementStep, PTL DEF Spec

\* The type invariant of Engagement: the collections hold votes and comments of their
\* shape, no more than the bounds allow, and a request has what its step is going to use.
THEOREM EngagementTypes == Spec => []TypeOK
<1>1. EngagementInv => TypeOK
    BY DEF EngagementInv
<1>. QED
    BY <1>1, EngagementInvariant, PTL

\* A person has at most one vote on a video, whatever requests race: the users of a person
\* are one, and a user has one vote on a video.
THEOREM VotesAreUnique == Spec => []OneVotePerPerson
<1>1. EngagementInv => OneVotePerPerson
    BY DEF EngagementInv, TypeOK, Unique, Referenced, Vote, OneVotePerPerson
<1>. QED
    BY <1>1, EngagementInvariant, PTL

\* No vote and no comment of a deleted video is left, unless a request was at work on the
\* video when it was deleted.
THEOREM DeletionLeavesNoTrace == Spec => []TracesRemoved
<1>1. EngagementInv => TracesRemoved
    BY DEF EngagementInv, Referenced, TracesRemoved, CommentsOf
<1>. QED
    BY <1>1, EngagementInvariant, PTL

-----------------------------------------------------------------------------
(* What a vote and a removal do, when no other request overtakes them.      *)

\* A vote that nothing overtook leaves exact totals, whatever they were before.
THEOREM VotesHealTotals == Spec => TotalsHeal
<1>1. ASSUME EngagementInv, NEW a \in Actors, SaveTotals(a), a \notin overtaken
      PROVE  LET v == proc[a].vid IN
             totals'[v] = [up |-> Count(v, "up"), down |-> Count(v, "down")]
    <2> DEFINE p == proc[a]
               v == p.vid
               old == totals[v]
    <2>1. p \in Proc /\ Equipped(p) /\ Current(p) /\ p.op = "vote:save"
          /\ totals \in [VideoIds -> Tallies]
        BY <1>1 DEF EngagementInv, TypeOK, SaveTotals
    <2>2. v \in stored /\ v \in VideoIds /\ p.read = old
          /\ p.tally.up = Count(v, "up") /\ p.tally.down = Count(v, "down")
        BY <2>1 DEF Current, Equipped, Stage, ReadVideoOps, CountingOps, VotingOps
    <2>3. PICK whole \in SaveModes :
            totals'[v] = [up |-> Written(whole, p.read.up, p.tally.up, old.up),
                          down |-> Written(whole, p.read.down, p.tally.down, old.down)]
        BY <1>1, <2>1, <2>2 DEF SaveTotals
    <2>4. /\ Written(whole, p.read.up, p.tally.up, old.up) = p.tally.up
          /\ Written(whole, p.read.down, p.tally.down, old.down) = p.tally.down
        BY <2>2 DEF Written
    <2>. QED
        BY <2>2, <2>3, <2>4
<1>2. EngagementInv /\ [Next]_vars =>
         [\A a \in Actors :
            LET v == proc[a].vid IN
            SaveTotals(a) /\ a \notin overtaken
            => totals'[v] = [up |-> Count(v, "up"), down |-> Count(v, "down")]]_vars
    BY <1>1
<1>. QED
    BY <1>2, EngagementInvariant, PTL DEF Spec, TotalsHeal

\* A vote that nothing overtook leaves the person the vote asked for on the video, or none
\* after a neutral one.
THEOREM VotesTakeEffect == Spec => VoteTakesEffect
<1>1. ASSUME EngagementInv, NEW a \in Actors, SaveTotals(a), a \notin overtaken
      PROVE  {x.value : x \in {y \in votes : /\ users[y.owner] = proc[a].person
                                             /\ y.vid = proc[a].vid}}
             = {proc[a].value} \ {"neutral"}
    <2> DEFINE p == proc[a]
    <2>1. p \in Proc /\ Founded(p) /\ Current(p) /\ p.op = "vote:save"
          /\ votes \in SUBSET Vote
        BY <1>1 DEF EngagementInv, TypeOK, SaveTotals
    <2>2. p.person \in Persons /\ p.user \in UserIds /\ users[p.user] = p.person
        BY <2>1 DEF Founded, VotingOps, ReadVideoOps, CountingOps
    <2>3. \A y \in votes : users[y.owner] = p.person <=> y.owner = p.user
        BY <1>1, <2>1, <2>2, NoneIsNot DEF EngagementInv, Unique, Vote
    <2>4. {y \in votes : users[y.owner] = p.person /\ y.vid = p.vid} = VotesOf(p)
        BY <2>3 DEF VotesOf
    <2>5. \A x, y \in VotesOf(p) : x = y
        BY <1>1 DEF EngagementInv, Unique, VotesOf
    <2>6. /\ p.value = "neutral" => VotesOf(p) = {}
          /\ p.value # "neutral" => \E x \in VotesOf(p) : x.value = p.value
        BY <2>1 DEF Current, CountingOps
    <2>7. {x.value : x \in VotesOf(p)} = {p.value} \ {"neutral"}
        BY <2>5, <2>6
    <2>. QED
        BY <2>4, <2>7
<1>2. EngagementInv /\ [Next]_vars =>
         [\A a \in Actors :
            SaveTotals(a) /\ a \notin overtaken
            => {x.value : x \in {y \in votes : /\ users[y.owner] = proc[a].person
                                               /\ y.vid = proc[a].vid}}
               = {proc[a].value} \ {"neutral"}]_vars
    BY <1>1
<1>. QED
    BY <1>2, EngagementInvariant, PTL DEF Spec, VoteTakesEffect

\* What becomes of a removed comment in a step.
RemovalKept(c) ==
    comments[c].frozen =>
       \/ comments'[c] = comments[c]
       \/ comments'[c].state = "deleted"
       \/ \E a \in OnComment(c) : SaveComment(a) /\ a \in overtaken

\* A removed comment keeps its placeholder and stays frozen, unless a request saves it that
\* read it before it was removed.
THEOREM RemovalsAreFinal == Spec => RemovalIsFinal
<1>1. ASSUME EngagementInv, [Next]_vars, NEW c \in CommentIds
      PROVE  RemovalKept(c)
    <2> SUFFICES ASSUME comments[c].frozen, comments'[c] # comments[c],
                        comments'[c].state # "deleted"
                 PROVE  \E a \in OnComment(c) : SaveComment(a) /\ a \in overtaken
        BY DEF RemovalKept
    <2>1. comments \in [CommentIds -> Comment] /\ comments[c].state = "stored"
        BY <1>1 DEF EngagementInv, TypeOK, Referenced
    <2>2. ASSUME NEW a \in Actors, SaveComment(a)
          PROVE  a \in OnComment(c) /\ a \in overtaken
        <3>1. proc[a].op = "change:save" /\ (a \notin overtaken => ~comments[proc[a].cid].frozen)
            BY <1>1, <2>2 DEF SaveComment, EngagementInv, Current
        <3>2. proc[a].cid = c
            BY <2>1, <2>2 DEF SaveComment
        <3>. QED
            BY <3>1, <3>2 DEF OnComment
    <2>3. ASSUME NEW a \in Actors, CreateComment(a)
          PROVE  FALSE
        BY <2>1, <2>3 DEF CreateComment
    <2>4. ASSUME NEW v \in VideoIds, DeleteVideo(v)
          PROVE  FALSE
        <3>1. comments'[c] \in {comments[c], [UnbornComment EXCEPT !.state = "deleted"]}
            BY <2>4 DEF DeleteVideo
        <3>2. [UnbornComment EXCEPT !.state = "deleted"].state = "deleted"
            BY IdleRecord DEF Comment
        <3>. QED
            BY <3>1, <3>2
    <2>5. ASSUME NEW k \in CommentIds, Expire(k)
          PROVE  FALSE
        BY <2>1, <2>5 DEF Expire
    <2>6. ASSUME NEW a \in Actors, Begin(a) \/ Crash(a)
          PROVE  comments' = comments
        BY <2>6 DEF Begin, Crash, WriteComment, VoteVideo, ChangeComment, ModerateComment,
           Call, dbVars
    <2>7. ASSUME NEW a \in Actors, Progress(a), ~SaveComment(a), ~CreateComment(a)
          PROVE  comments' = comments
        BY <2>7 DEF Progress, CreateUser, AddUser, CreateUserRefused, ReadVideo, FindPrevious,
           DeletePrevious, CreateVote, CreateVoteRefused, CountDown, CountUp, SaveTotals,
           ReadCommentedVideo, ReadComment, dbVars
    <2>8. CASE UNCHANGED vars
        BY <2>8 DEF vars, dbVars
    <2>. QED
        BY <1>1, <2>2, <2>3, <2>4, <2>5, <2>6, <2>7, <2>8 DEF Next
<1>2. EngagementInv /\ [Next]_vars => [\A c \in CommentIds : RemovalKept(c)]_vars
    BY <1>1
<1>. QED
    BY <1>2, EngagementInvariant, PTL DEF Spec, RemovalIsFinal, RemovalKept

=============================================================================
