-------------------------- MODULE MCBooksHandoff --------------------------
(* Small instances of BooksHandoff for TLC. *)
EXTENDS BooksHandoff, TLC

\* Requests of one kind are interchangeable.
Symmetry == Permutations(Posters)

\* The posts and the cron race; or one post, a user's reversal and a drain.
Idle(procs) == \A p \in procs : pc[p] = "idle"
Bound ==
    \/ Idle(Reversers \cup Drains)
    \/ Idle(Crons) /\ \E p \in Posters : Idle(Posters \ {p})
===========================================================================
