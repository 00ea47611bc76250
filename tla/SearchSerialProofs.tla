------------------------- MODULE SearchSerialProofs -------------------------
(***************************************************************************)
(* Theorems about what a search shows and what it finds: Paging and        *)
(* CommentBudget, for results, pages and comments of any number and size,  *)
(* and the properties of SearchSerialMC that ask them of bounded inputs.   *)
(*                                                                         *)
(* Where the product of page and take fits in an int, the answer is the    *)
(* page asked for; where it does not, an answer can show another page.     *)
(***************************************************************************)
EXTENDS SearchSerialMC, TLAPS, WellFoundedInduction


\* Half of the values of an int are negative.
LEMMA Halves == IntValues = 2 * (IntValues \div 2) /\ IntValues \div 2 \in Nat \ {0}
BY PagingAssumption

\* A number less than the modulus is its own remainder.
LEMMA SmallRemainder ==
    ASSUME NEW n \in Nat, NEW d \in Nat \ {0}, n < d
    PROVE  n % d = n
OBVIOUS

LEMMA ToIntExact ==
    ASSUME NEW n \in 0 .. IntMax
    PROVE  ToInt(n) = n
<1>1. n + IntValues \div 2 \in Nat /\ n + IntValues \div 2 < IntValues
    BY Halves DEF IntMax
<1>2. (n + IntValues \div 2) % IntValues = n + IntValues \div 2
    BY <1>1, SmallRemainder, PagingAssumption
<1>. QED
    BY <1>2, Halves DEF ToInt, IntMax

LEMMA PageNumber ==
    ASSUME NEW n \in Nat, n <= IntMax
    PROVE  n \in Pages
BY Halves DEF Pages, IntMax

\* What is left in an int is never more than the greatest one.
LEMMA ToIntBound ==
    ASSUME NEW n \in Nat
    PROVE  ToInt(n) \in Int /\ ToInt(n) <= IntMax
<1>1. n + IntValues \div 2 \in Nat /\ IntValues \in Nat \ {0}
    BY Halves, PagingAssumption
<1>2. (n + IntValues \div 2) % IntValues \in 0 .. IntValues - 1
    BY <1>1
<1>. QED
    BY <1>2, Halves DEF ToInt, IntMax

(* SearchVideoAsync: for every page and take of the API whose product is an  *)
(* int, the answer is that page when it ends within the result window, and   *)
(* a refusal when it does not; where the product overflows, whatever is      *)
(* answered is at another offset.                                            *)
THEOREM AnswersArePages ==
    ASSUME NEW total \in Nat, NEW page \in Pages, NEW take \in Nat \ {0}
    PROVE  AnswerIsPage(total, page, take)
<1>1. page \in Nat /\ page * take \in Nat
    BY Halves DEF Pages, IntMax
<1>2. (page + 1) * take = page * take + take
    BY <1>1
<1>3. CASE Exact(page, take)
    <2>1. page * take \in 0 .. IntMax
        BY <1>1, <1>3, Halves DEF Exact, IntMax
    <2>2. From(page, take) = page * take
        BY <2>1, ToIntExact DEF From
    <2>3. Answered(page, take) <=> PageWithinWindow(page, take)
        BY <1>1, <1>2, <2>2 DEF Answered, PageWithinWindow
    <2>4. Answer(total, page, take) = PageOf(total, page, take)
        BY <1>2, <2>2 DEF Answer, PageOf
    <2>. QED
        BY <1>3, <2>3, <2>4 DEF AnswerIsPage
<1>4. CASE ~Exact(page, take)
    <2>1. From(page, take) \in Int /\ From(page, take) <= IntMax
        BY <1>1, ToIntBound DEF From
    <2>2. ~(page * take <= IntMax) /\ IntMax \in Int
        BY <1>4, Halves DEF Exact, IntMax
    <2>3. From(page, take) # page * take
        BY <2>1, <2>2
    <2>. QED
        BY <1>4, <2>3 DEF AnswerIsPage
<1>. QED
    BY <1>3, <1>4

(* A search without results whose pages take one each says that its last     *)
(* page is number -1; all others say 0.                                      *)
THEOREM NoResultsNoPage ==
    ASSUME NEW take \in Nat \ {0}
    PROVE  MaxPage(0, take) = IF take = 1 THEN -1 ELSE 0
<1>1. CASE take = 1
    BY <1>1 DEF MaxPage, Quotient
<1>2. CASE take # 1
    <2>1. 1 \div take = 0
        BY <1>2
    <2>. QED
        BY <1>2, <2>1 DEF MaxPage, Quotient
<1>. QED
    BY <1>1, <1>2

-----------------------------------------------------------------------------
(* Division by the number of results of a page.                            *)

LEMMA QuotientIsNat ==
    ASSUME NEW i \in Nat, NEW d \in Nat \ {0}
    PROVE  i \div d \in Nat
OBVIOUS

LEMMA QuotientBounds ==
    ASSUME NEW i \in Nat, NEW d \in Nat \ {0}
    PROVE  (i \div d) * d <= i /\ i < (i \div d) * d + d
OBVIOUS

\* A page ends before a later one begins.
LEMMA PagesInOrder ==
    ASSUME NEW p \in Nat, NEW q \in Nat, NEW d \in Nat \ {0}, p < q
    PROVE  p * d + d <= q * d
OBVIOUS

LEMMA QuotientMonotone ==
    ASSUME NEW i \in Nat, NEW j \in Nat, NEW d \in Nat \ {0}, i <= j
    PROVE  i \div d <= j \div d
BY QuotientIsNat, QuotientBounds, PagesInOrder

\* A page of a walk begins at one of the results, at the offset asked for.
LEMMA WalkedPage ==
    ASSUME NEW total \in Nat \ {0}, total <= IntMax, NEW take \in Nat \ {0},
           NEW page \in 0 .. MaxPage(total, take)
    PROVE  /\ page \in Nat
           /\ page * take \in 0 .. total - 1
           /\ From(page, take) = page * take
<1>. DEFINE last == (total - 1) \div take
<1>1. total - 1 \in Nat /\ last \in Nat /\ MaxPage(total, take) = last
    BY QuotientIsNat DEF MaxPage, Quotient
<1>2. page \in Nat /\ page <= last
    BY <1>1
<1>3. last * take <= total - 1
    BY <1>1, QuotientBounds
<1>. HIDE DEF last
<1>4. page * take \in Nat /\ page * take <= last * take
    <2>1. CASE page = last
        BY <1>1, <1>2, <2>1
    <2>2. CASE page < last
        BY <1>1, <1>2, <2>2, PagesInOrder
    <2>. QED
        BY <1>1, <1>2, <2>1, <2>2
<1>5. last * take \in Nat
    BY <1>1
<1>6. page * take \in 0 .. total - 1
    BY <1>3, <1>4, <1>5
<1>7. page * take \in 0 .. IntMax
    BY <1>6, Halves DEF IntMax
<1>. QED
    BY <1>2, <1>6, <1>7, ToIntExact DEF From

(* A client that walks the pages from the first one to MaxPage sees every    *)
(* result within the result window once, for any number of results that is   *)
(* an int, and any number of results in a page.                              *)
THEOREM WalksShowAll ==
    ASSUME NEW total \in Nat, total <= IntMax, NEW take \in Nat \ {0}
    PROVE  WalkShowsAll(total, take)
<1>. DEFINE walk == {page \in 0 .. MaxPage(total, take) : Answered(page, take)}
<1>1. ASSUME NEW page \in walk \ {0}
      PROVE  Answer(total, page, take) # {}
    <2>1. total # 0
        <3>1. MaxPage(0, take) \in {-1, 0}
            BY NoResultsNoPage
        <3>. QED
            BY <1>1, <3>1
    <2>2. page * take \in 0 .. total - 1 /\ From(page, take) = page * take
        BY <1>1, <2>1, WalkedPage
    <2>3. page * take \in Answer(total, page, take)
        BY <2>2 DEF Answer
    <2>. QED
        BY <2>3
<1>2. ASSUME NEW i \in 0 .. total - 1, WithinWindow(i, take)
      PROVE  \E page \in walk :
                /\ i \in Answer(total, page, take)
                /\ \A other \in walk \ {page} : i \notin Answer(total, other, take)
    <2>. DEFINE page == i \div take
    <2>1. total \in Nat \ {0} /\ i \in Nat /\ page \in Nat
        BY <1>2, QuotientIsNat
    <2>2. page * take <= i /\ i < page * take + take
        BY <2>1, QuotientBounds
    <2>3. page \in 0 .. MaxPage(total, take)
        <3>1. page <= (total - 1) \div take
            BY <1>2, <2>1, QuotientMonotone
        <3>. QED
            BY <2>1, <3>1, QuotientIsNat DEF MaxPage, Quotient
    <2>4. page * take + take <= ResultWindow
        BY <1>2, <2>1 DEF WithinWindow
    <2>. HIDE DEF page
    <2>5. From(page, take) = page * take /\ page * take \in Nat
        BY <2>1, <2>3, WalkedPage
    <2>6. page \in walk
        BY <2>3, <2>4, <2>5 DEF Answered
    <2>7. i \in Answer(total, page, take)
        BY <1>2, <2>2, <2>5 DEF Answer
    <2>8. ASSUME NEW other \in walk \ {page}, i \in Answer(total, other, take)
          PROVE  FALSE
        <3>1. other \in Nat /\ From(other, take) = other * take /\ other * take \in Nat
            BY <2>1, <2>8, WalkedPage
        <3>2. other * take <= i /\ i < other * take + take
            BY <2>8, <3>1 DEF Answer
        <3>3. CASE other < page
            BY <2>1, <2>2, <2>5, <3>1, <3>2, <3>3, PagesInOrder
        <3>4. CASE page < other
            BY <2>1, <2>2, <2>5, <3>1, <3>2, <3>4, PagesInOrder
        <3>. QED
            BY <2>1, <2>8, <3>1, <3>3, <3>4
    <2>. QED
        BY <2>6, <2>7, <2>8
<1>. QED
    BY <1>1, <1>2 DEF WalkShowsAll

(* The API accepts the page 42949673 of 100 results, and with ints of 32     *)
(* bits its offset is 4: the answer shows results of the first two pages.    *)
THEOREM AnotherPageIsShown ==
    ASSUME IntValues = 4294967296, ResultWindow = 10000
    PROVE  /\ 42949673 \in Pages
           /\ ~Exact(42949673, 100)
           /\ From(42949673, 100) = 4
           /\ Answered(42949673, 100)
<1>1. IntValues \div 2 = 2147483648
    BY SMT
<1>2. 42949673 * 100 = 4294967300
    BY SMT
<1>3. (4294967300 + 2147483648) % 4294967296 = 2147483652
    BY SMT
<1>4. From(42949673, 100) = 4
    BY <1>1, <1>2, <1>3, SMT DEF From, ToInt
<1>5. IntMax = 2147483647
    BY <1>1, SMT DEF IntMax
<1>6. 42949673 \in Pages
    BY <1>5, PageNumber, SMT
<1>7. ~Exact(42949673, 100)
    BY <1>2, <1>5, SMT DEF Exact
<1>8. Answered(42949673, 100)
    BY <1>4, SMT DEF Answered
<1>. QED
    BY <1>4, <1>6, <1>7, <1>8, SMT

-----------------------------------------------------------------------------
(* Recursive functions over numbers up to a bound.                         *)

LEMMA LeastOf ==
    ASSUME NEW S \in SUBSET Nat, S # {}
    PROVE  \E m \in S : \A k \in S : m <= k
<1>1. PICK m \in S : \A k \in S : ~(<<k, m>> \in OpToRel(<, Nat))
    BY NatLessThanWellFounded, WFMin
<1>2. ASSUME NEW k \in S
      PROVE  m <= k
    <2>1. ~(k < m)
        BY <1>1 DEF OpToRel
    <2>2. k \in Int /\ m \in Int
        OBVIOUS
    <2>. QED
        BY <2>1, <2>2
<1>. QED
    BY <1>2

\* Induction, for a set of numbers.
LEMMA UpTo ==
    ASSUME NEW N \in Nat, NEW P, 0 \in P, \A n \in 1 .. N : n - 1 \in P => n \in P
    PROVE  \A n \in 0 .. N : n \in P
<1> DEFINE S == {n \in 0 .. N : n \notin P}
<1>. SUFFICES ASSUME S # {} PROVE FALSE
    OBVIOUS
<1>1. S \in SUBSET Nat
    OBVIOUS
<1>2. PICK m \in S : \A k \in S : m <= k
    <2>. HIDE DEF S
    <2>. QED
        BY <1>1, LeastOf
<1>3. m \in 1 .. N
    OBVIOUS
<1>4. m - 1 \in 0 .. N /\ ~(m <= m - 1)
    BY <1>3
<1>5. m - 1 \in P
    BY <1>2, <1>4
<1>. QED
    BY <1>3, <1>5

Recurses(g, N, z, step) == g[0] = z /\ \A n \in 1 .. N : g[n] = step[n][g[n - 1]]

\* A function on 0 .. N is defined by its value at 0 and by each value from the one before.
LEMMA Recursion ==
    ASSUME NEW N \in Nat, NEW V, NEW z \in V, NEW step \in [1 .. N -> [V -> V]]
    PROVE  \E g \in [0 .. N -> V] : Recurses(g, N, z, step)
<1> DEFINE Good(k) == \E g \in [0 .. k -> V] :
                         g[0] = z /\ \A n \in 1 .. k : g[n] = step[n][g[n - 1]]
           P == {k \in 0 .. N : Good(k)}
<1>1. Good(0)
    <2> DEFINE g == [n \in 0 .. 0 |-> z]
    <2>1. g \in [0 .. 0 -> V] /\ g[0] = z /\ \A n \in 1 .. 0 : FALSE
        OBVIOUS
    <2>. HIDE DEF g
    <2>. QED
        BY <2>1
<1>2. ASSUME NEW k \in 1 .. N, Good(k - 1)
      PROVE  Good(k)
    <2>1. PICK h \in [0 .. (k - 1) -> V] :
             h[0] = z /\ \A n \in 1 .. (k - 1) : h[n] = step[n][h[n - 1]]
        BY <1>2
    <2> DEFINE g == [n \in 0 .. k |-> IF n = k THEN step[k][h[k - 1]] ELSE h[n]]
    <2>2. \A n \in 0 .. k : n # k => n \in 0 .. (k - 1)
        OBVIOUS
    <2>3. k - 1 \in 0 .. (k - 1) /\ k \in 0 .. k /\ 0 \in 0 .. k /\ 0 # k /\ k - 1 # k
          /\ k - 1 \in 0 .. k
        OBVIOUS
    <2>4. g \in [0 .. k -> V]
        BY <2>1, <2>2, <2>3
    <2>5. g[0] = z /\ g[k] = step[k][g[k - 1]]
        BY <2>1, <2>3
    <2>6. ASSUME NEW n \in 1 .. k, n # k
          PROVE  g[n] = step[n][g[n - 1]]
        <3>1. /\ n \in 1 .. (k - 1) /\ n \in 0 .. k /\ n - 1 \in 0 .. k /\ n # k /\ n - 1 # k
            BY <2>6
        <3>2. g[n] = h[n] /\ g[n - 1] = h[n - 1]
            BY <3>1
        <3>. QED
            BY <2>1, <3>1, <3>2
    <2>. HIDE DEF g
    <2>. QED
        BY <2>4, <2>5, <2>6
<1>. HIDE DEF Good
<1>3. 0 \in P /\ \A k \in 1 .. N : k - 1 \in P => k \in P
    BY <1>1, <1>2
<1>4. \A n \in 0 .. N : n \in P
    <2>. HIDE DEF P
    <2>. QED
        BY <1>3, UpTo, Zenon
<1>5. N \in 0 .. N
    OBVIOUS
<1>6. Good(N)
    BY <1>4, <1>5
<1>. QED
    BY <1>6 DEF Good, Recurses

LEMMA Characters ==
    ASSUME NEW lengths \in Seq(Nat)
    PROVE  /\ CharsOf(lengths) \in [0 .. Len(lengths) -> Nat]
           /\ CharsOf(lengths)[0] = 0
           /\ \A n \in 1 .. Len(lengths) :
                 CharsOf(lengths)[n] = CharsOf(lengths)[n - 1] + lengths[n]
<1> DEFINE N == Len(lengths)
           Sums(g) == g = [n \in 0 .. N |-> IF n = 0 THEN 0 ELSE g[n - 1] + lengths[n]]
           step == [n \in 1 .. N |-> [x \in Nat |-> x + lengths[n]]]
<1>1. N \in Nat /\ \A n \in 1 .. N : lengths[n] \in Nat
    OBVIOUS
<1>2. step \in [1 .. N -> [Nat -> Nat]] /\ 0 \in Nat
    BY <1>1
<1>3. PICK g \in [0 .. N -> Nat] : g[0] = 0 /\ \A n \in 1 .. N : g[n] = step[n][g[n - 1]]
    <2> DEFINE V == Nat
    <2>1. N \in Nat /\ 0 \in V /\ step \in [1 .. N -> [V -> V]]
        BY <1>1, <1>2
    <2>. HIDE DEF step, N, V
    <2>2. \E g \in [0 .. N -> V] : Recurses(g, N, 0, step)
        BY <2>1, Recursion
    <2>. QED
        BY <2>2 DEF V, Recurses
<1>4. \A n \in 1 .. N : g[n - 1] \in Nat /\ g[n] = g[n - 1] + lengths[n]
    <2>1. \A n \in 1 .. N : n - 1 \in 0 .. N
        BY <1>1
    <2>2. \A n \in 1 .. N : g[n - 1] \in Nat
        BY <2>1
    <2>. QED
        BY <1>3, <2>2
<1>5. \A n \in 0 .. N : n # 0 => n \in 1 .. N
    OBVIOUS
<1>6. Sums(g)
    BY <1>3, <1>4, <1>5
<1> DEFINE c == CharsOf(lengths)
<1>7. Sums(c)
    BY <1>6, Zenon DEF CharsOf
<1>8. 0 \in 0 .. N /\ \A n \in 1 .. N : n \in 0 .. N /\ n # 0 /\ n - 1 \in 0 .. N
    BY <1>1
<1>9. c[0] = 0 /\ \A n \in 1 .. N : c[n] = c[n - 1] + lengths[n]
    <2>. HIDE DEF c
    <2>. QED
        BY <1>7, <1>8
<1>10. \A n \in 0 .. N : c[n] \in Nat
    <2> DEFINE P == {n \in 0 .. N : c[n] \in Nat}
    <2>1. 0 \in P /\ \A n \in 1 .. N : n - 1 \in P => n \in P
        <3>. HIDE DEF c
        <3>. QED
            BY <1>1, <1>8, <1>9
    <2>. HIDE DEF P, N
    <2>2. \A n \in 0 .. N : n \in P
        BY <1>1, <2>1, UpTo
    <2>. QED
        BY <2>2 DEF P
<1>11. c = [n \in 0 .. N |-> c[n]]
    <2>. HIDE DEF c
    <2>. QED
        BY <1>7
<1>. HIDE DEF c
<1>12. c \in [0 .. N -> Nat]
    BY <1>10, <1>11
<1>. QED
    BY <1>9, <1>12 DEF c

\* What the loop keeps.
Tally == [chars : Nat, taken : SUBSET Nat, filled : BOOLEAN]

LEMMA LoadedMany ==
    ASSUME NEW lengths \in Seq(Nat)
    PROVE  /\ Loaded(lengths) \in 0 .. Len(lengths)
           /\ \A n \in 1 .. Loaded(lengths) : lengths[n] \in Nat
<1>1. Len(lengths) \in Nat /\ MaxIndexedComments \in Nat
    BY BudgetAssumption
<1>. QED
    BY <1>1 DEF Loaded, Least

LEMMA TakeNextType ==
    ASSUME NEW lengths \in Seq(Nat), NEW before \in Tally, NEW n \in 1 .. Loaded(lengths)
    PROVE  TakeNext(before, n, lengths) \in Tally
<1>1. lengths[n] \in Nat /\ n \in Nat
    BY LoadedMany
<1>2. before.chars + lengths[n] \in Nat
    BY <1>1 DEF Tally
<1>3. before.taken \cup {n} \in SUBSET Nat
    BY <1>1 DEF Tally
<1>4. [before EXCEPT !.filled = TRUE] \in Tally
    BY DEF Tally
<1>5. [chars |-> before.chars + lengths[n],
       taken |-> before.taken \cup {n}, filled |-> FALSE] \in Tally
    BY <1>2, <1>3 DEF Tally
<1>. QED
    BY <1>4, <1>5 DEF TakeNext

\* The loop is its body, repeated.
LEMMA Iterations ==
    ASSUME NEW lengths \in Seq(Nat)
    PROVE  /\ Loop(lengths) \in [0 .. Loaded(lengths) -> Tally]
           /\ Loop(lengths)[0] = NothingTaken
           /\ \A n \in 1 .. Loaded(lengths) :
                 Loop(lengths)[n] = TakeNext(Loop(lengths)[n - 1], n, lengths)
<1> DEFINE N == Loaded(lengths)
           Runs(g) == g = [n \in 0 .. N |-> IF n = 0 THEN NothingTaken
                                            ELSE TakeNext(g[n - 1], n, lengths)]
           step == [n \in 1 .. N |-> [x \in Tally |-> TakeNext(x, n, lengths)]]
<1>1. N \in Nat
    BY LoadedMany
<1>2. NothingTaken \in Tally
    BY DEF NothingTaken, Tally
<1>3. PICK g \in [0 .. N -> Tally] : Recurses(g, N, NothingTaken, step)
    <2>1. step \in [1 .. N -> [Tally -> Tally]]
        BY TakeNextType
    <2>. HIDE DEF step, N
    <2>. QED
        BY <1>1, <1>2, <2>1, Recursion
<1>4. 0 \in 0 .. N /\ \A n \in 1 .. N : n \in 0 .. N /\ n # 0 /\ n - 1 \in 0 .. N
    BY <1>1
<1>5. \A n \in 0 .. N : n # 0 => n \in 1 .. N
    BY <1>1
<1>6. g[0] = NothingTaken /\ \A n \in 1 .. N : g[n] = TakeNext(g[n - 1], n, lengths)
    <2>1. \A n \in 1 .. N : g[n - 1] \in Tally
        BY <1>4
    <2>2. \A n \in 1 .. N : step[n][g[n - 1]] = TakeNext(g[n - 1], n, lengths)
        BY <2>1
    <2>. HIDE DEF step
    <2>. QED
        BY <1>3, <2>2 DEF Recurses
<1>7. Runs(g)
    <2>. HIDE DEF N
    <2>. QED
        BY <1>5, <1>6
<1> DEFINE c == Loop(lengths)
<1>8. Runs(c)
    BY <1>7, Zenon DEF Loop
<1>9. c[0] = NothingTaken /\ \A n \in 1 .. N : c[n] = TakeNext(c[n - 1], n, lengths)
    <2>. HIDE DEF c, N
    <2>. QED
        BY <1>4, <1>8
<1>10. \A n \in 0 .. N : c[n] \in Tally
    <2> DEFINE P == {n \in 0 .. N : c[n] \in Tally}
    <2>1. 0 \in P /\ \A n \in 1 .. N : n - 1 \in P => n \in P
        <3>. HIDE DEF c
        <3>. QED
            BY <1>2, <1>4, <1>9, TakeNextType
    <2>. HIDE DEF P, N
    <2>2. \A n \in 0 .. N : n \in P
        BY <1>1, <2>1, UpTo
    <2>. QED
        BY <2>2 DEF P
<1>. HIDE DEF c
<1>11. c \in [0 .. N -> Tally]
    <2>. HIDE DEF N
    <2>. QED
        BY <1>8, <1>10
<1>. QED
    BY <1>9, <1>11 DEF c

\* When the loop comes to the next comment it has taken the newest j, and all before it
\* unless one did not fit.
Taken(lengths, n, j) ==
    LET now == Loop(lengths)[n] IN
    /\ now.taken = 1 .. j
    /\ now.chars = CharsOf(lengths)[j]
    /\ Fits(lengths, j)
    /\ IF now.filled THEN j < n /\ ~Fits(lengths, j + 1) ELSE j = n

LEMMA LoopInvariant ==
    ASSUME NEW lengths \in Seq(Nat)
    PROVE  \A n \in 0 .. Loaded(lengths) : \E j \in 0 .. n : Taken(lengths, n, j)
<1> DEFINE N == Loaded(lengths)
           P == {n \in 0 .. N : \E j \in 0 .. n : Taken(lengths, n, j)}
<1>1. N \in Nat
    BY LoadedMany
<1>2. 0 \in P
    <2>1. Loop(lengths)[0] = NothingTaken /\ CharsOf(lengths)[0] = 0
        BY Iterations, Characters
    <2>2. Taken(lengths, 0, 0)
        BY <2>1, BudgetAssumption DEF Taken, NothingTaken, Fits
    <2>. QED
        BY <1>1, <2>2
<1>3. ASSUME NEW n \in 1 .. N, n - 1 \in P
      PROVE  n \in P
    <2> DEFINE before == Loop(lengths)[n - 1]
               now == Loop(lengths)[n]
    <2>1. PICK j \in 0 .. (n - 1) : Taken(lengths, n - 1, j)
        BY <1>3
    <2>2. /\ n - 1 \in 0 .. N /\ j \in 0 .. n /\ n \in 0 .. N /\ j \in Nat /\ n \in Nat
          /\ j + 1 \in 1 .. Len(lengths) /\ n \in 1 .. Len(lengths)
        BY <1>1, LoadedMany
    <2>3. before \in Tally /\ now = TakeNext(before, n, lengths)
        BY <2>2, Iterations
    <2>4. CASE before.filled
        <3>1. now = [before EXCEPT !.filled = TRUE]
            BY <2>3, <2>4 DEF TakeNext
        <3>2. now.taken = before.taken /\ now.chars = before.chars /\ now.filled
            BY <2>3, <3>1 DEF Tally
        <3>3. Taken(lengths, n, j)
            BY <2>1, <2>2, <2>4, <3>2 DEF Taken
        <3>. QED
            BY <2>2, <3>3
    <2>5. CASE ~before.filled
        <3>1. j = n - 1
            BY <2>1, <2>5 DEF Taken
        <3>2. CharsOf(lengths)[n] = before.chars + lengths[n]
            BY <2>1, <2>2, <3>1, Characters DEF Taken
        <3>3. CASE Fits(lengths, n)
            <4>1. ~(before.chars + lengths[n] > MaxIndexedCommentsTotalChars)
                BY <3>2, <3>3, <2>2, <2>3, LoadedMany, BudgetAssumption DEF Fits, Tally
            <4>2. now = [chars |-> before.chars + lengths[n],
                         taken |-> before.taken \cup {n}, filled |-> FALSE]
                BY <2>3, <2>5, <4>1 DEF TakeNext
            <4>3. before.taken \cup {n} = 1 .. n
                BY <2>1, <2>2, <3>1 DEF Taken
            <4>4. now.taken = 1 .. n /\ now.chars = CharsOf(lengths)[n] /\ ~now.filled
                BY <3>2, <4>2, <4>3
            <4>5. Taken(lengths, n, n)
                BY <3>3, <4>4 DEF Taken
            <4>. QED
                BY <2>2, <4>5
        <3>4. CASE ~Fits(lengths, n)
            <4>1. before.chars + lengths[n] > MaxIndexedCommentsTotalChars
                <5>1. before.chars + lengths[n] \in Nat
                    BY <2>2, <2>3, LoadedMany DEF Tally
                <5>. QED
                    BY <3>2, <3>4, <5>1, BudgetAssumption DEF Fits
            <4>2. now = [before EXCEPT !.filled = TRUE]
                BY <2>3, <4>1 DEF TakeNext
            <4>3. now.taken = before.taken /\ now.chars = before.chars /\ now.filled
                BY <2>3, <4>2 DEF Tally
            <4>4. j + 1 = n /\ j < n
                BY <2>2, <3>1
            <4>5. Taken(lengths, n, j)
                BY <2>1, <3>4, <4>3, <4>4 DEF Taken
            <4>. QED
                BY <2>2, <4>5
        <3>. QED
            BY <3>3, <3>4
    <2>. QED
        BY <2>4, <2>5
<1>. HIDE DEF P, N
<1>4. \A n \in 0 .. N : n \in P
    BY <1>1, <1>2, <1>3, UpTo
<1>. QED
    BY <1>4 DEF P, N

(* Denormalize: of the comments of a video, however many and however long,   *)
(* the newest that fit together are indexed, and no others.                  *)
THEOREM TakesNewest ==
    ASSUME NEW lengths \in Seq(Nat)
    PROVE  TakesNewestThatFit(lengths)
<1>1. Loaded(lengths) \in 0 .. Loaded(lengths)
    BY LoadedMany
<1>2. PICK j \in 0 .. Loaded(lengths) : Taken(lengths, Loaded(lengths), j)
    BY <1>1, LoopInvariant
<1>. QED
    BY <1>2 DEF Taken, TakesNewestThatFit, Denormalize

-----------------------------------------------------------------------------
(* The properties of the run.                                              *)

(* SearchVideoAsync: in every behaviour, however many documents of an index  *)
(* that is created a search is going to find, the pages show all of them,    *)
(* each once; a page number is answered with that page as far as the result  *)
(* window goes, unless its offset overflows.                                 *)
THEOREM PagesAreShown == Spec => PagesShowAll
<1>1. ASSUME NEW total \in 0 .. MaxTotal, NEW take \in 1 .. MaxTake
      PROVE  /\ WalkShowsAll(total, take)
             /\ \A page \in Pages : AnswerIsPage(total, page, take)
    <2>1. IntMax \in Nat
        BY Halves DEF IntMax
    <2>2. total \in Nat /\ total <= IntMax /\ take \in Nat \ {0}
        BY <2>1, ResultsAssumption
    <2>. QED
        BY <2>2, WalksShowAll, AnswersArePages
<1>2. [\A a \in Actors : CreateIndex(a) =>
          \A total \in 0 .. MaxTotal, take \in 1 .. MaxTake :
              /\ WalkShowsAll(total, take)
              /\ \A page \in Pages : AnswerIsPage(total, page, take)]_vars
    BY <1>1
<1>. QED
    BY <1>2, PTL DEF PagesShowAll

(* AddVideoAsync: in every behaviour, a document that is built has the       *)
(* newest comments that fit in its budget, whatever the comments of its      *)
(* video.                                                                    *)
THEOREM NewestAreIndexed == Spec => IndexesNewestComments
<1>1. ASSUME NEW lengths \in Lengths
      PROVE  TakesNewestThatFit(lengths)
    <2>1. PICK n \in 0 .. MaxIndexedComments + 1 :
             lengths \in [1 .. n -> 0 .. MaxIndexedCommentsTotalChars + 1]
        BY DEF Lengths
    <2>2. n \in Nat /\ 0 .. MaxIndexedCommentsTotalChars + 1 \in SUBSET Nat
        BY BudgetAssumption
    <2>3. lengths \in Seq(Nat)
        BY <2>1, <2>2
    <2>. QED
        BY <2>3, TakesNewest
<1>2. [\A a \in Actors : BuildDocument(a) =>
          \A lengths \in Lengths : TakesNewestThatFit(lengths)]_vars
    BY <1>1
<1>. QED
    BY <1>2, PTL DEF IndexesNewestComments

=============================================================================
