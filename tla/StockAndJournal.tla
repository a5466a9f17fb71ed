-------------------------- MODULE StockAndJournal --------------------------
(***************************************************************************)
(* What posting and its handoff promise about a document in two ledgers.   *)
(* The stock moves out once and comes back once; Books is told only of     *)
(* what the stock did; a document leaves the list of what is still to be   *)
(* told only when Books has been told all of it, or once Books refused     *)
(* it; and a handoff is closed only with the outcome that is true.         *)
(***************************************************************************)
CONSTANTS Docs, WaitDocs

VARIABLES out,      \* how often the stock of each document moved
          back,     \* how often it was moved back
          books,    \* what Books has processed of it
          pending,  \* documents with something still to be told, or given up
          outcome,  \* what the handoff of each document says
          refused   \* documents whose user was told that Books refused them

vars == <<out, back, books, pending, outcome, refused>>

Init ==
    /\ out = [d \in Docs |-> 0]
    /\ back = [d \in Docs |-> 0]
    /\ books = [d \in Docs |-> {}]
    /\ pending = {}
    /\ outcome = [d \in Docs |-> "none"]
    /\ refused = {}

\* Stock only moves together with the record that Books must hear of it.
MoveOut(d) ==
    /\ out[d] = 0
    /\ out' = [out EXCEPT ![d] = 1]
    /\ pending' = pending \cup {d}
    /\ outcome' = IF d \in WaitDocs THEN [outcome EXCEPT ![d] = "open"] ELSE outcome
    /\ UNCHANGED <<back, books, refused>>

MoveBack(d) ==
    /\ out[d] = 1 /\ back[d] = 0
    /\ back' = [back EXCEPT ![d] = 1]
    /\ pending' = pending \cup {d}
    /\ UNCHANGED <<out, books, outcome, refused>>

\* What Books may be told, and what it must have been told to be left alone.
Happened(d) == {k \in {"posted", "reversed"} : (IF k = "posted" THEN out[d] ELSE back[d]) = 1}

Tell(d, k) ==
    /\ k \in Happened(d)
    /\ books' = [books EXCEPT ![d] = @ \cup {k}]
    /\ UNCHANGED <<out, back, pending, outcome, refused>>

Strike(d) ==
    /\ Happened(d) \subseteq books[d] \/ d \in refused
    /\ pending' = pending \ {d}
    /\ UNCHANGED <<out, back, books, outcome, refused>>

PutOnList(d) ==
    /\ out[d] = 1
    /\ pending' = pending \cup {d}
    /\ UNCHANGED <<out, back, books, outcome, refused>>

\* The user is told of a refusal with the stock back where it was.
Refuse(d) ==
    /\ back[d] = 1
    /\ refused' = refused \cup {d}
    /\ pending' \in {pending, pending \ {d}}
    /\ UNCHANGED <<out, back, books, outcome>>

Rule(d, o) ==
    /\ \/ o = "open" /\ out[d] = 1
       \/ o = "accepted" /\ "posted" \in books[d]
       \/ o = "undone" /\ back[d] = 1
    /\ outcome' = [outcome EXCEPT ![d] = o]
    /\ UNCHANGED <<out, back, books, pending, refused>>

Next == \E d \in Docs :
    \/ MoveOut(d) \/ MoveBack(d) \/ Strike(d) \/ PutOnList(d) \/ Refuse(d)
    \/ \E k \in {"posted", "reversed"} : Tell(d, k)
    \/ \E o \in {"open", "accepted", "undone"} : Rule(d, o)

Spec == Init /\ [][Next]_vars
=============================================================================
