------------------------------ MODULE Delivery ------------------------------
(***************************************************************************)
(* What the outbox promises of one piece of downstream work, whatever      *)
(* drains, crashes and operators do: once owed it is sent at least once    *)
(* before it counts as delivered, it is given up only visibly, and nothing *)
(* is ever sent that is not owed.                                          *)
(***************************************************************************)
CONSTANTS
    Items,      \* pieces of downstream work
    Optional    \* the items that may be settled without a send

VARIABLES
    promise,    \* promise[i]: what the platform says of item i
    reached     \* reached[i]: item i has arrived at its destination

promises == <<promise, reached>>

Promise == {"none", "owed", "delivered", "given_up"}

DeliveryInit ==
    /\ promise = [i \in Items |-> "none"]
    /\ reached = [i \in Items |-> FALSE]

\* A send may arrive any number of times: that is at-least-once delivery.
Arrive(i) ==
    /\ promise[i] = "owed"
    /\ reached' = [reached EXCEPT ![i] = TRUE]
    /\ UNCHANGED promise

\* Items move together: one transaction owes, settles or takes up several.
Move ==
    /\ promise' \in [Items -> Promise]
    /\ \A i \in Items :
          \/ promise'[i] = promise[i]
          \/ promise[i] \in {"none", "given_up"} /\ promise'[i] = "owed"
          \/ promise[i] = "owed" /\ promise'[i] = "given_up"
          \/ /\ promise[i] = "owed" /\ promise'[i] = "delivered"
             /\ reached[i] \/ i \in Optional
    /\ UNCHANGED reached

DeliveryNext == Move \/ \E i \in Items : Arrive(i)

DeliverySpec == DeliveryInit /\ [][DeliveryNext]_promises

=============================================================================
