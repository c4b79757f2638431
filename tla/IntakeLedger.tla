---------------------------- MODULE IntakeLedger ----------------------------
(***************************************************************************)
(* What the webhook_events table promises the senders of deliveries: a     *)
(* delivery is ingested whole or not at all, every event of it that has no *)
(* result yet getting one in the same step; an event that has a result     *)
(* keeps it and changes no lead again; a delivery is answered once all its *)
(* events have results.                                                    *)
(***************************************************************************)
EXTENDS Integers

CONSTANTS Events, Deliveries, Batch, Results, Counted, None

VARIABLES recorded, applied, answered

Init ==
    /\ recorded = [e \in Events |-> None] /\ applied = [e \in Events |-> 0]
    /\ answered = {}

EventsOf(d) == {Batch[d][i] : i \in DOMAIN Batch[d]}
Pending(d) == {e \in EventsOf(d) : recorded[e] = None}

\* Every pending event gets a result, no other does; one that is counted
\* changes leads.
Ingest(d) ==
    /\ recorded' \in [Events -> Results \cup {None}]
    /\ \A e \in Events : IF e \in Pending(d) THEN recorded'[e] \in Results ELSE recorded'[e] = recorded[e]
    /\ applied' = [e \in Events |->
          applied[e] + IF e \in Pending(d) /\ recorded'[e] \in Counted THEN 1 ELSE 0]
    /\ UNCHANGED answered

Answer(d) ==
    /\ Pending(d) = {}
    /\ answered' = answered \cup {d}
    /\ UNCHANGED <<recorded, applied>>

Next == \E d \in Deliveries : Ingest(d) \/ Answer(d)

Spec == Init /\ [][Next]_<<recorded, applied, answered>>

=============================================================================
