-------------------------- MODULE MCDocumentEntry --------------------------
(* A small instance of DocumentEntry for TLC. *)
EXTENDS DocumentEntry, TLC

CONSTANTS author, manager

\* Two users of a company that separates entering from approving.
MCCan == [t \in Tabs |-> IF t = author THEN {"create", "update", "submit", "post", "cancel"}
                                       ELSE {"approve", "reject", "reverse"}]

Symmetry == Permutations(Docs) \cup Permutations(Workers)

\* Vouchers retried after a fault; one user beside a voucher, with two
\* documents; one user and a fault; or two users on one document.  A state
\* after a lost write is checked, not continued.
Open == {t \in Tabs : screen[t].view # "closed"}
Delivered == \E v \in Vouchers : tries[v] > 0
Bound ==
    /\ lost = 0
    /\ \/ Open = {}
       \/ Cardinality(Open) = 1 /\ (faults = 0 \/ ~Delivered)
       \/ faults = 0 /\ ~Delivered /\ Cardinality({d \in Docs : doc[d].status # "none"}) <= 1
=============================================================================
