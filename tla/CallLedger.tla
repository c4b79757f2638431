---------------------------- MODULE CallLedger -----------------------------
(***************************************************************************)
(* What the call_attempts table promises its readers, whatever the workers, *)
(* webhooks, crashes and operators do: each lead has a numbered ledger of   *)
(* attempts; a row is appended under the next free number, never beyond the *)
(* attempt budget, either in flight or already over (the provider refused   *)
(* the call); a row in flight may be closed once; nothing is ever removed,  *)
(* renumbered or reopened.                                                  *)
(***************************************************************************)
EXTENDS Integers

CONSTANTS Leads, MaxAttempts, RowBound

VARIABLE ledger

RowState == {"none", "open", "closed"}

Init == ledger = [l \in Leads |-> [k \in 1..RowBound |-> "none"]]

(* k is the number the next attempt of lead l gets.                          *)
NextNumber(l, k) ==
    /\ ledger[l][k] = "none"
    /\ \A j \in 1..RowBound : (j < k) => (ledger[l][j] # "none")

(* One calling tick appends one row for each lead in S.                      *)
Append(S, number, state) ==
    /\ \A l \in S : NextNumber(l, number[l])
    /\ ledger' = [l \in Leads |->
                    IF l \in S THEN [ledger[l] EXCEPT ![number[l]] = state[l]]
                               ELSE ledger[l]]

(* The outcome of an attempt in flight is recorded.                          *)
Close(l, k) ==
    /\ ledger[l][k] = "open"
    /\ ledger' = [ledger EXCEPT ![l][k] = "closed"]

Next ==
    \/ \E S \in SUBSET Leads :
         \E number \in [S -> 1..MaxAttempts], state \in [S -> {"open", "closed"}] :
            Append(S, number, state)
    \/ \E l \in Leads, k \in 1..MaxAttempts : Close(l, k)

Spec == Init /\ [][Next]_ledger

=============================================================================
