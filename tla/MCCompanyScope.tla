--------------------------- MODULE MCCompanyScope ---------------------------
(* A small instance of CompanyScope for TLC. *)
EXTENDS CompanyScope, TLC

CONSTANTS a, b, a1, a2, b1

MCYearOf == (a1 :> a) @@ (a2 :> a) @@ (b1 :> b)
MCCurrent == (a :> a2) @@ (b :> b1)
MCBefore(c, d) == c = a

\* A company and a year of it; a year of another company; no company; a
\* company alone; parameters that are not ids; nothing.
MCLinks == {[cmp |-> a, fy |-> a1], [cmp |-> a, fy |-> b1], [cmp |-> Absent, fy |-> b1],
            [cmp |-> b, fy |-> Absent], [cmp |-> Unreadable, fy |-> Absent], [cmp |-> b, fy |-> Unreadable], NoLink}

\* Beside a request that is lost or a reload(): no other tab.  ?new=1 belongs
\* to the first load.
Disturbed == faults > 0 \/ retried
Bound ==
    /\ shared => ~Disturbed /\ page.form = "none" /\ ~new
    /\ new \/ page.form # "none" => visits <= 1 /\ faults = 0
=============================================================================
