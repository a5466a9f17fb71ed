-------------------------- MODULE MCPackingLists --------------------------
(* Small instances of PackingLists for TLC.                                *)
EXTENDS PackingLists, TLC

CONSTANTS l1, l2, s1, s2, s3, r1, p1, p2

\* Two sales of one list and, where there is a third, one of another list.
NamesOf == [s \in Sales |-> IF s = s3 THEN l2 ELSE l1]

\* Requests are interchangeable, and so are the two sales of l1.
Alike == Permutations(Procs) \cup Permutations({s1, s2})
===========================================================================
