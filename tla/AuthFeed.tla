------------------------------ MODULE AuthFeed ------------------------------
(***************************************************************************)
(* What the delivery of credential updates promises: every credential has  *)
(* a log of what was published of it, and what the service holds is always *)
(* one entry of that log, never an older one than before.                  *)
(***************************************************************************)
EXTENDS Naturals, Sequences

CONSTANTS Ids, Values

VARIABLES log,      \* per credential, the values published so far
          seen,     \* how far the service has come in each log
          served    \* what the service holds

vars == <<log, seen, served>>

Init == /\ log = [i \in Ids |-> <<>>] /\ seen = [i \in Ids |-> 0]
        /\ served \in [Ids -> Values]

\* One critical section may publish several credentials.
Publish(I, value) ==
  /\ log' = [i \in Ids |-> IF i \in I THEN Append(log[i], value[i]) ELSE log[i]]
  /\ UNCHANGED <<seen, served>>

\* The service takes over what it has not seen, and may skip entries.
Advance ==
  /\ seen' \in [Ids -> Nat]
  /\ \A i \in Ids : seen[i] <= seen'[i] /\ seen'[i] <= Len(log[i])
  /\ served' = [i \in Ids |-> IF seen'[i] = seen[i] THEN served[i] ELSE log[i][seen'[i]]]
  /\ UNCHANGED log

Next == Advance \/ \E I \in SUBSET Ids : \E value \in [I -> Values] : Publish(I, value)

Spec == Init /\ [][Next]_vars
=============================================================================
