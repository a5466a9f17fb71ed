--------------------------- MODULE MCReservations ---------------------------
(* A small instance of Reservations for TLC.                               *)
EXTENDS Reservations

CONSTANTS p1, p2, o1, hold, free, sale, cron

\* Two processes at work at once; two reservations, of two units and of one,
\* or one reservation beside two documents.
Busy == {p \in DOMAIN task : task[p] # Idle}
Engaged == {d \in Documents : status[d] # "DRAFT" \/ \E p \in Busy :
                task[p].op \in {"post", "fail", "reverse"} /\ task[p].doc = d}

\* After one of these only the sweep goes on.
Disturbed == lost \/ strayed \/ (raced /\ Len(rows) = 2)

Bound ==
    /\ Disturbed => Busy \subseteq {cron}
    /\ raced => Engaged = {} /\ \A p \in Busy \ {cron} : task[p].op = "reserve"
    /\ Cardinality(Busy) <= 2
    /\ Cardinality(Engaged) <= 2
    /\ Cardinality(Engaged) = 2 /\ onhand + Sold = 3 => Cardinality(Busy) <= 1
    /\ (crossed /\ ~raced) \/ kills > 0 => Cardinality(Busy) <= 1 /\ Engaged = {}
    /\ Len(rows) > 0 => /\ rows[1].line = o1
                        /\ rows[1].expires => Engaged = {} /\ ~(Procs \subseteq Busy)
                        /\ Engaged \ {sale} # {} => rows[1].qty = 1
    /\ Len(rows) = 2 => /\ Engaged = {}
                        /\ rows[1].expires = rows[2].expires
                        /\ rows[1].qty = 2 /\ rows[2].qty = 1
                        /\ \A i \in Ids : rows[i].doc = None
                        /\ \A p \in Busy : task[p].op = "update" => "doc" \notin task[p].columns
=============================================================================
