---------------------------- MODULE SearchSerialMC ----------------------------
(* The run of one actor, and bounded inputs of the pure operators, asked for *)
(* at the steps that make use of what they compute.                          *)
EXTENDS SearchIndex, Paging, CommentBudget

CONSTANTS MaxTotal,   \* bound: results of a search
          MaxTake     \* bound: results of a page

\* The number of the results of a search is an int.
ASSUME ResultsAssumption == MaxTotal \in 0 .. IntMax /\ MaxTake \in Nat

Lengths == UNION {[1 .. n -> 0 .. MaxIndexedCommentsTotalChars + 1] :
                     n \in 0 .. MaxIndexedComments + 1}

(* Of an index that is created, however many of its documents a search is    *)
(* going to find, the pages show all of them, each on one page.  A page      *)
(* number the API accepts is answered with that page, as far as the result   *)
(* window goes, unless its offset overflows.                                 *)
PagesShowAll ==
    [][\A a \in Actors : CreateIndex(a) =>
          \A total \in 0 .. MaxTotal, take \in 1 .. MaxTake :
              /\ WalkShowsAll(total, take)
              /\ \A page \in Pages : AnswerIsPage(total, page, take)]_vars

(* A document that is built has, whatever the comments of its video, the     *)
(* newest of them that fit in its budget.                                    *)
IndexesNewestComments ==
    [][\A a \in Actors : BuildDocument(a) =>
          \A lengths \in Lengths : TakesNewestThatFit(lengths)]_vars

=============================================================================
