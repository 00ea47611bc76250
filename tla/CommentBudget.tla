---------------------------- MODULE CommentBudget ----------------------------
(***************************************************************************)
(* Which comments of a video go into its search document: AddVideoAsync    *)
(* takes them newest first, while their number and the sum of their        *)
(* lengths stay within bounds.                                             *)
(*                                                                         *)
(* The comments are the sequence of the lengths of their latest texts,     *)
(* newest first, frozen ones left out.                                     *)
(***************************************************************************)
EXTENDS Integers, Sequences

CONSTANTS MaxIndexedComments,            \* 10_000 in the code
          MaxIndexedCommentsTotalChars   \* 1_000_000 in the code

ASSUME BudgetAssumption ==
    /\ MaxIndexedComments \in Nat
    /\ MaxIndexedCommentsTotalChars \in Nat

Least(m, n) == IF m <= n THEN m ELSE n

\* How many comments are loaded.
Loaded(lengths) == Least(Len(lengths), MaxIndexedComments)

NothingTaken == [chars |-> 0, taken |-> {}, filled |-> FALSE]

\* Mutation of TakeNext: a comment that does not fit is skipped, and others follow.
TakeNextFitting(before, n, lengths) ==
    IF before.chars + lengths[n] > MaxIndexedCommentsTotalChars THEN before
    ELSE [before EXCEPT !.chars = @ + lengths[n], !.taken = @ \cup {n}]

\* The body of the loop, for the n-th comment: the first one that does not fit ends it.
TakeNext(before, n, lengths) ==
    IF before.filled \/ before.chars + lengths[n] > MaxIndexedCommentsTotalChars
    THEN [before EXCEPT !.filled = TRUE]
    ELSE [chars |-> before.chars + lengths[n],
          taken |-> before.taken \cup {n},
          filled |-> FALSE]

\* What the loop has taken after each of the comments.
Loop(lengths) ==
    LET after[n \in 0 .. Loaded(lengths)] ==
            IF n = 0 THEN NothingTaken ELSE TakeNext(after[n - 1], n, lengths)
    IN  after

\* The positions of the comments whose texts go into the document.
Denormalize(lengths) == Loop(lengths)[Loaded(lengths)].taken

-----------------------------------------------------------------------------

\* The characters of the newest comments, by how many of them.
CharsOf(lengths) ==
    LET sum[n \in 0 .. Len(lengths)] == IF n = 0 THEN 0 ELSE sum[n - 1] + lengths[n] IN sum

Fits(lengths, n) == CharsOf(lengths)[n] <= MaxIndexedCommentsTotalChars

(* "Comments are included newest-first until the budget is filled": the      *)
(* comments indexed are the newest ones, as many as fit together.            *)
TakesNewestThatFit(lengths) ==
    \E n \in 0 .. Loaded(lengths) :
        /\ Denormalize(lengths) = 1 .. n
        /\ Fits(lengths, n)
        /\ n < Loaded(lengths) => ~Fits(lengths, n + 1)

=============================================================================
