---------------------------- MODULE Consignments ----------------------------
(***************************************************************************)
(* What packing lists promise: the goods of a list are on the shelf, set   *)
(* aside, or sold to one sale, and come back from that sale only.  The     *)
(* promise ends at the first lost update (~intact): nothing is said after. *)
(***************************************************************************)
CONSTANTS Lists, Sales, Nobody

VARIABLES goods,    \* where the goods of each list are
          buyer,    \* the sale that took them
          intact    \* no update was lost so far

vars == <<goods, buyer, intact>>

Init ==
    /\ goods = [l \in Lists |-> "shelf"]
    /\ buyer = [l \in Lists |-> Nobody]
    /\ intact = TRUE

Move(l, from, to, s) ==
    /\ goods[l] = from
    /\ goods' = [goods EXCEPT ![l] = to]
    /\ buyer' = [buyer EXCEPT ![l] = s]

SetAside(l) == Move(l, "shelf", "packed", Nobody)
PutBack(l) == Move(l, "packed", "shelf", Nobody)

\* A sale takes one list, and a list goes to one sale.
Sell(l, s) == /\ \A k \in Lists : buyer[k] # s
              /\ Move(l, "packed", "sold", s)
TakeBack(l) == Move(l, "sold", "packed", Nobody)

Next ==
    \/ /\ intact /\ UNCHANGED intact
       /\ \E l \in Lists : \/ SetAside(l) \/ PutBack(l) \/ TakeBack(l)
                           \/ \E s \in Sales : Sell(l, s)
    \/ ~intact'

Spec == Init /\ [][Next]_vars
=============================================================================
