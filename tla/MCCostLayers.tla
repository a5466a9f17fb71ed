--------------------------- MODULE MCCostLayers ---------------------------
(* Small instances of CostLayers for TLC: which drafts there are to post.  *)
EXTENDS CostLayers

Draft(ty, d, q, rate) ==
    [type |-> ty, status |-> "DRAFT", date |-> d, qty |-> q, rate |-> rate, amount |-> 0]

\* A receipt; an earlier receipt or an issue of the same day; and a large issue
\* dated before most of them, or a revaluation.  With every order of posting this
\* has shortfalls, backdated documents, equal dates and issues over several layers.
AnyOrder == <<
    {Draft("receipt", 2, 2, 10)},
    {Draft("receipt", 1, 2, 30), Draft("issue", 2, 1, 0)},
    {Draft("issue", 1, 3, 0), Draft("revaluation", 2, 0, 50)} >>
===========================================================================
