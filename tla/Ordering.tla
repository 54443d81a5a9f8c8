------------------------------ MODULE Ordering ------------------------------
(* What the Python built-ins used for filtering, ranking and rounding do.   *)
EXTENDS Integers, Sequences, FiniteSets, SequencesExt

\* A list comprehension with an if, or a loop that skips: the elements of seq
\* that are in S, in their order.
Those(seq, S) ==
    LET taken[i \in 0..Len(seq)] ==
            IF i = 0 THEN <<>>
            ELSE IF seq[i] \in S THEN Append(taken[i - 1], seq[i])
            ELSE taken[i - 1]
    IN  taken[Len(seq)]

\* sorted: each element comes after those it is not less than, so that elements
\* that compare equal stay in their order.  The pairs <<a, b>> with a less than
\* b are in less.
Insert(sorted, x, less) ==
    LET n == Cardinality({k \in DOMAIN sorted : <<x, sorted[k]>> \notin less})
    IN SubSeq(sorted, 1, n) \o <<x>> \o SubSeq(sorted, n + 1, Len(sorted))
SortBy(seq, less) ==
    LET sorted[i \in 0..Len(seq)] ==
            IF i = 0 THEN <<>> ELSE Insert(sorted[i - 1], seq[i], less)
    IN  sorted[Len(seq)]
StableSort(seq, Less(_, _)) ==
    SortBy(seq, {p \in Range(seq) \X Range(seq) : Less(p[1], p[2])})

\* round of a / b to the nearest whole number, halves to the even one.
RoundDiv(a, b) ==
    LET q == a \div b
        r == a % b
    IN IF 2 * r > b \/ (2 * r = b /\ q % 2 = 1) THEN q + 1 ELSE q
=============================================================================
