------------------------------- MODULE Paging -------------------------------
(***************************************************************************)
(* The pages of a search: the offset the index is asked for, what it       *)
(* answers, and the number of the last page that the answer tells.         *)
(*                                                                         *)
(* The results of a search are told by their position, from 0.  A client   *)
(* asks for a page number and for how many results a page takes; both are  *)
(* ints, and their product is computed as one, unchecked.                  *)
(*                                                                         *)
(* Assumed of Elasticsearch: it answers with the results from an offset    *)
(* on, and refuses a negative offset and one whose page ends beyond the    *)
(* result window of the index (10000, unless it is set).                   *)
(***************************************************************************)
EXTENDS Integers

CONSTANTS IntValues,     \* how many values an int has: 2^32
          ResultWindow   \* index.max_result_window

ASSUME PagingAssumption ==
    /\ IntValues \in Nat \ {0}
    /\ IntValues % 2 = 0
    /\ ResultWindow \in 0 .. IntValues \div 2 - 1

IntMax == IntValues \div 2 - 1

\* What is left of a number in an int.
ToInt(n) == ((n + IntValues \div 2) % IntValues) - IntValues \div 2

\* The page numbers the API accepts.
Pages == 0 .. IntMax

-----------------------------------------------------------------------------

\* SearchVideoAsync: the offset of a page.
From(page, take) == ToInt(page * take)

\* Is a page answered, rather than refused with an exception?
Answered(page, take) ==
    /\ From(page, take) >= 0
    /\ From(page, take) + take <= ResultWindow

\* The positions of the results in the answer.
Answer(total, page, take) ==
    {i \in 0 .. total - 1 : From(page, take) <= i /\ i < From(page, take) + take}

\* Division of integers as in C#, towards zero.
Quotient(n, d) == IF n >= 0 THEN n \div d ELSE -((-n) \div d)

\* Mutation of MaxPage: one page too many when the last one is full.
MaxPageOfTotal(total, take) == Quotient(total, take)

\* PaginatedEnumerableDto: the number of the last page.
MaxPage(total, take) == Quotient(total - 1, take)

-----------------------------------------------------------------------------

\* The positions that page number `page' is about.
PageOf(total, page, take) ==
    {i \in 0 .. total - 1 : page * take <= i /\ i < (page + 1) * take}

\* No multiplication of this page overflows.
Exact(page, take) == page * take <= IntMax

\* The page that position i is on ends within the result window.
WithinWindow(i, take) == (i \div take + 1) * take <= ResultWindow

(* A client that walks the pages of a search from the first one to MaxPage   *)
(* sees every result once, as far as the result window goes, and asks for no *)
(* page without results but possibly the first.                            *)
WalkShowsAll(total, take) ==
    LET walk == {page \in 0 .. MaxPage(total, take) : Answered(page, take)} IN
    /\ \A page \in walk \ {0} : Answer(total, page, take) # {}
    /\ \A i \in 0 .. total - 1 :
          WithinWindow(i, take) =>
             \E page \in walk :
                /\ i \in Answer(total, page, take)
                /\ \A other \in walk \ {page} : i \notin Answer(total, other, take)

\* A page that ends within the result window.
PageWithinWindow(page, take) == (page + 1) * take <= ResultWindow

(* A page whose offset does not overflow is answered if and only if it ends  *)
(* within the result window, and then with its results and nothing else.     *)
(* One whose offset overflows is refused, or shows the results at another    *)
(* offset under its number.                                                  *)
AnswerIsPage(total, page, take) ==
    IF Exact(page, take)
    THEN /\ Answered(page, take) <=> PageWithinWindow(page, take)
         /\ Answered(page, take) => Answer(total, page, take) = PageOf(total, page, take)
    ELSE Answered(page, take) => From(page, take) # page * take

=============================================================================
