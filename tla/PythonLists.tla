----------------------------- MODULE PythonLists -----------------------------
(***************************************************************************)
(* The list operations the agents are written with.                        *)
(*                                                                         *)
(* Each operator with a predicate or an order as its parameter is defined  *)
(* by one about the set of the elements, or of the pairs, it holds for.    *)
(***************************************************************************)
EXTENDS Integers, Sequences, FiniteSets, SequencesExt

\* s[:n], n not negative
Take(s, n) == SubSeq(s, 1, IF n < Len(s) THEN n ELSE Len(s))

Mapped(s, F(_)) == [i \in DOMAIN s |-> F(s[i])]

\* The elements of s that are in T, in their order
Those(s, T) ==
    LET those[n \in 0..Len(s)] ==
            IF n = 0 THEN <<>>
            ELSE IF s[n] \in T THEN Append(those[n - 1], s[n]) ELSE those[n - 1]
    IN  those[Len(s)]

\* [x for x in s if Test(x)]
Kept(s, Test(_)) == Those(s, {x \in ToSet(s) : Test(x)})

\* Which of two places of s comes first when elements are in the Order and others
\* stay as they are
Precedence(s, Order) ==
    {p \in (DOMAIN s) \X (DOMAIN s) :
        \/ <<s[p[1]], s[p[2]]>> \in Order
        \/ <<s[p[2]], s[p[1]]>> \notin Order /\ p[1] < p[2]}

\* The place that has n - 1 places before it
Placed(D, R, n) == CHOOSE i \in D : Cardinality({j \in D : <<j, i>> \in R}) = n - 1

Ordered(s, Order) ==
    LET R == Precedence(s, Order)
    IN  [n \in DOMAIN s |-> s[Placed(DOMAIN s, R, n)]]

\* sorted(): elements that come Before others first, the rest in their old order
SortedBy(s, Before(_, _)) ==
    Ordered(s, {p \in ToSet(s) \X ToSet(s) : Before(p[1], p[2])})

\* max(s, key=Key): the first of the largest
FirstMax(s, Key(_)) ==
    s[CHOOSE i \in DOMAIN s :
        \A j \in DOMAIN s : Key(s[j]) < Key(s[i]) \/ (Key(s[j]) = Key(s[i]) /\ i <= j)]

\* sum(s)
Total(s) ==
    LET total[n \in 0..Len(s)] == IF n = 0 THEN 0 ELSE total[n - 1] + s[n]
    IN  total[Len(s)]
=============================================================================
