--------------------------------- MODULE Lists ---------------------------------
(***************************************************************************)
(* Lists searched, filtered and sorted.  SelectSeq and SortSeq say the     *)
(* same, but have no definition that a proof can open; here what is left   *)
(* of a list is a set of places, and an order puts a set into a list.      *)
(***************************************************************************)
EXTENDS Integers, Sequences, FiniteSets

Least(S) == CHOOSE n \in S : \A m \in S : n <= m

\* The place of the first of list that has it, or 0.
FirstOf(list, Has(_)) ==
    LET found == {n \in DOMAIN list : Has(list[n])} IN IF found = {} THEN 0 ELSE Least(found)

\* The elements of S one after the other; before has the pairs of which one is before the other.
Ordered(S, before) ==
    LET rank == [x \in S |-> Cardinality({y \in S : <<y, x>> \in before})]
    IN  [n \in 1 .. Cardinality(S) |-> CHOOSE x \in S : rank[x] = n - 1]

\* The list at these places only, in the order of the places that before says, or in its own.
Arranged(list, places, before) ==
    LET at == Ordered(places, before) IN [n \in DOMAIN at |-> list[at[n]]]
OnlyAt(list, places) == Arranged(list, places, {p \in places \X places : p[1] < p[2]})

Filtered(list, Has(_)) == OnlyAt(list, {n \in DOMAIN list : Has(list[n])})

\* A stable sort: of what is neither before the other the first stays first.
Sorted(list, Before(_, _)) ==
    LET places == DOMAIN list
    IN  Arranged(list, places,
                 {p \in places \X places :
                     \/ Before(list[p[1]], list[p[2]])
                     \/ ~Before(list[p[2]], list[p[1]]) /\ p[1] < p[2]})
===============================================================================
