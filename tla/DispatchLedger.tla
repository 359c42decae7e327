--------------------------- MODULE DispatchLedger ---------------------------
(***************************************************************************)
(* What the execution registry promises to Home, the service that hands    *)
(* out concurrency slots: a dispatch is open from the moment it is begun   *)
(* until it is resolved, a resolved execution of an accounted group is     *)
(* counted once, and Home is told only of executions that were counted.    *)
(* Once the ledger is shut nothing is opened again.                        *)
(***************************************************************************)
EXTENDS Integers

CONSTANTS Ids, Groups

VARIABLES shut,      \* no dispatch is begun any more
          begun,     \* every dispatch ever begun
          open,      \* those not resolved yet
          counted,   \* per group, how many executions were released
          told       \* per group, how many of them Home knows of

vars == <<shut, begun, open, counted, told>>

Init == /\ shut = FALSE /\ begun = {} /\ open = {}
        /\ counted = [g \in Groups |-> 0]
        /\ told = [g \in Groups |-> 0]

Begin(i) == /\ ~shut /\ i \notin begun
            /\ begun' = begun \cup {i} /\ open' = open \cup {i}
            /\ UNCHANGED <<shut, counted, told>>

\* A dispatch ends without an execution, or its execution is not accounted.
Drop(i) == /\ i \in open
           /\ open' = open \ {i}
           /\ UNCHANGED <<shut, begun, counted, told>>

Count(i, g) == /\ i \in open
               /\ open' = open \ {i}
               /\ counted' = [counted EXCEPT ![g] = @ + 1]
               /\ UNCHANGED <<shut, begun, told>>

Tell(g, n) == /\ told[g] < n /\ n <= counted[g]
              /\ told' = [told EXCEPT ![g] = n]
              /\ UNCHANGED <<shut, begun, open, counted>>

Shut == /\ ~shut /\ shut' = TRUE
        /\ UNCHANGED <<begun, open, counted, told>>

Next == \/ \E i \in Ids : Begin(i) \/ Drop(i)
        \/ \E i \in Ids, g \in Groups : Count(i, g)
        \/ \E g \in Groups : \E n \in 1..counted[g] : Tell(g, n)
        \/ Shut

Spec == Init /\ [][Next]_vars
=============================================================================
