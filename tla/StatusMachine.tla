---------------------------- MODULE StatusMachine ----------------------------
(***************************************************************************)
(* The abstract promise about a persisted status column: every row starts  *)
(* at Initial and only ever moves along Transitions.  The detailed modules *)
(* implement it with the columns they write (a refinement mapping), so a   *)
(* write the domain's table forbids is a step no StatusMachine takes.      *)
(***************************************************************************)
CONSTANTS
    Rows,         \* the rows that have the column
    Initial,      \* the status a row is created with
    Transitions   \* the pairs <<from, to>> the domain's table allows

VARIABLE status

Init == status = [r \in Rows |-> Initial]

(* assertTransition: a write of another status must be in the table. *)
Move == \A r \in Rows : \/ status'[r] = status[r]
                        \/ <<status[r], status'[r]>> \in Transitions

Spec == Init /\ [][Move]_status
=============================================================================
