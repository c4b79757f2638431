----------------------------- MODULE SyncOutbox -----------------------------
(***************************************************************************)
(* The transactional outbox (lib/integrations/outbox.ts) and the drain     *)
(* that empties it (sync-worker.ts), run by the sweep, by the flush after  *)
(* a voice webhook and by /api/internal/sync.  One drain is ONE database   *)
(* transaction: it claims a batch of rows, makes one external request      *)
(* after the other, and commits the outcome of all of them at the end.  A  *)
(* drain that dies takes back what it wrote, never what it sent.           *)
(*                                                                         *)
(* Time is abstracted: next_attempt_at may pass at any moment.  The status *)
(* in_flight is never committed, so a claimed row is one a drain holds.    *)
(* Which credential a request is made with, and what a refusal does to it, *)
(* is the subject of Integrations; here a credential may be missing or be  *)
(* refused at any request.                                                 *)
(***************************************************************************)
EXTENDS Integers, FiniteSets

CONSTANTS
    Calls,        \* analysed calls
    Targets,      \* the destinations in use, out of SyncTarget
    MaxDrains,    \* drains that may run at the same time
    MaxAttempts,  \* MAX_SYNC_ATTEMPTS
    Batch,        \* rows per drain, 20 or 25 in the code
    MaxCrashes    \* bound: how many drains die

ASSUME OutboxAssumption ==
    /\ Targets \subseteq {"hubspot", "google_sheets", "notification"}
    /\ MaxDrains \in Nat \ {0}
    /\ MaxAttempts \in Nat \ {0} /\ Batch \in Nat \ {0} /\ MaxCrashes \in Nat

VARIABLES
    analysis,     \* analysis[c][q]: the call_analyses row qualifier q stored
    row,          \* row[i]: the sync_outbox row of item i
    drain,        \* drain[d]: what drain d has done and not committed
    told,         \* told[i]: the qualifiers whose analysis has arrived there
    landed,       \* landed[i]: arrivals whose outcome is not lost
    crashes

vars == <<analysis, row, drain, told, landed, crashes>>

Items == Calls \X Targets
Drains == 1..MaxDrains
\* The voice webhook and /api/internal/analyze, in the order they store.
Qualifiers == {1, 2}
Optional == {i \in Items : i[2] = "notification"}

\* A rejected analysis is one that stays held: neither is ever sent.
Review == {"none", "held", "approved"}
RowStatus == {"none", "pending", "failed", "succeeded", "dead_letter"}
Row == [status : RowStatus, attempts : 0..MaxAttempts]
Stage == {"free", "claimed", "sent", "silent", "skipped", "retry", "gone"}
Idle == [i \in Items |-> "free"]

TypeOK ==
    /\ analysis \in [Calls -> [Qualifiers -> Review]]
    /\ row \in [Items -> Row]
    /\ \A i \in Items : row[i].status = "failed" => row[i].attempts < MaxAttempts
    /\ drain \in [Drains -> [Items -> Stage]]
    /\ landed \in [Items -> Int]
    /\ told \in [Items -> SUBSET Qualifiers]
    /\ crashes \in 0..MaxCrashes

Init ==
    /\ analysis = [c \in Calls |-> [q \in Qualifiers |-> "none"]]
    /\ row = [i \in Items |-> [status |-> "none", attempts |-> 0]]
    /\ drain = [d \in Drains |-> Idle]
    /\ landed = [i \in Items |-> 0]
    /\ told = [i \in Items |-> {}]
    /\ crashes = 0

Held(d) == {i \in Items : drain[d][i] # "free"}
Running(d) == Held(d) # {}
Owed(i) == row[i].status \in {"pending", "failed"}
Stored(c) == {q \in Qualifiers : analysis[c][q] # "none"}

-----------------------------------------------------------------------------
(* Qualification, as far as the outbox sees it                             *)

InTurn(c, q) == \A p \in Qualifiers : p < q => analysis[c][p] # "none"

\* enqueueSync: a row that is already there is left alone, whatever its status.
Enqueued(c, notify) ==
    [i \in Items |->
        IF i[1] = c /\ row[i].status = "none" /\ (i \in Optional => notify)
        THEN [status |-> "pending", attempts |-> 0] ELSE row[i]]

\* Both qualifiers may have found no analysis before either stored its own.
StoreHeld(c, q) ==
    /\ analysis[c][q] = "none" /\ InTurn(c, q)
    /\ analysis' = [analysis EXCEPT ![c][q] = "held"]
    /\ UNCHANGED <<row, drain, told, landed, crashes>>

\* The analysis and the work it causes are committed together.
StoreApproved(c, q, notify) ==
    /\ analysis[c][q] \in {"none", "held"} /\ InTurn(c, q)
    /\ analysis' = [analysis EXCEPT ![c][q] = "approved"]
    /\ row' = Enqueued(c, notify)
    /\ UNCHANGED <<drain, told, landed, crashes>>

-----------------------------------------------------------------------------
(* The drain                                                               *)

\* Mutation: without `skip locked', and without waiting for the lock.
ClaimableUnlocked == {i \in Items : Owed(i)}

\* Rows another open drain holds are locked, and skipped.
Claimable == {i \in Items : Owed(i) /\ \A d \in Drains : drain[d][i] = "free"}

\* Drains have no identity: one that starts takes the lowest free number.
ClaimDueSyncs(d, S) ==
    /\ ~Running(d) /\ \A e \in Drains : e < d => Running(e)
    /\ S # {} /\ S \subseteq Claimable /\ Cardinality(S) <= Batch
    /\ drain' = [drain EXCEPT ![d] = [i \in Items |-> IF i \in S THEN "claimed" ELSE "free"]]
    /\ UNCHANGED <<analysis, row, told, landed, crashes>>

\* Mutation: held for review counts as good enough to send.
CommittedWhenHeld(review) == review \in {"held", "approved"}

\* auto_approved, confirmed and corrected are one value here.
Committed(review) == review = "approved"

Least(a, b) == IF a <= b THEN a ELSE b

Handled(d, i, stage) == drain' = [drain EXCEPT ![d][i] = stage]

\* loadContext takes whichever analysis of the call the join returns first.
SkipHeldResult(d, i) ==
    /\ drain[d][i] = "claimed"
    /\ \E q \in Stored(i[1]) : ~Committed(analysis[i[1]][q])
    /\ Handled(d, i, "skipped")
    /\ UNCHANGED <<analysis, row, told, landed, crashes>>

\* What a request comes to: whether it arrives is one question, whether the
\* drain hears of it another.  "unusable" is a missing, broken or unauthorised
\* credential or destination: the request is not made, or refused for good.
\* For HubSpot a contact is updated and then a task created: "half" is the
\* first without the second.
Outcomes == {"ok", "unheard", "half", "transient", "unusable"}

Arrives(outcome) == outcome \in {"ok", "unheard", "half"}

\* A client with no notification channel has not misconfigured anything: for
\* an optional item the missing credential also counts as done.
StageOf(i, outcome) ==
    CASE outcome = "ok" -> {"sent"}
      [] outcome \in {"transient", "unheard"} -> {"retry"}
      [] outcome = "half" -> {"gone"}
      [] outcome = "unusable" -> IF i \in Optional THEN {"gone", "silent"} ELSE {"gone"}

Deliver(d, i, q, outcome) ==
    /\ drain[d][i] = "claimed"
    /\ q \in Stored(i[1]) /\ Committed(analysis[i[1]][q])
    /\ outcome = "half" => i[2] = "hubspot"
    /\ \E stage \in StageOf(i, outcome) : Handled(d, i, stage)
    /\ told' = [told EXCEPT ![i] = IF Arrives(outcome) THEN @ \cup {q} ELSE @]
    /\ landed' = [landed EXCEPT ![i] = IF outcome = "ok" THEN @ + 1 ELSE @]
    /\ UNCHANGED <<analysis, row, crashes>>

\* Mutation: the limit is compared with the attempts before this one.
SettledLate(r, stage) ==
    LET n == Least(r.attempts + 1, MaxAttempts)
    IN  CASE stage = "free" -> r
          [] stage \in {"sent", "silent"} -> [status |-> "succeeded", attempts |-> 0]
          [] stage = "skipped" -> [status |-> "pending", attempts |-> n]
          [] stage = "gone" \/ (stage = "retry" /\ r.attempts >= MaxAttempts) ->
                [status |-> "dead_letter", attempts |-> 0]
          [] OTHER -> [status |-> "failed", attempts |-> n]

\* Mutation: a postponed result is marked like a handled one.
SettledWhenSkipped(r, stage) ==
    LET n == Least(r.attempts + 1, MaxAttempts)
    IN  CASE stage = "free" -> r
          [] stage \in {"sent", "silent", "skipped"} -> [status |-> "succeeded", attempts |-> 0]
          [] stage = "gone" \/ (stage = "retry" /\ n >= MaxAttempts) ->
                [status |-> "dead_letter", attempts |-> 0]
          [] stage = "retry" /\ n < MaxAttempts -> [status |-> "failed", attempts |-> n]

\* Mutation: a failed row never reaches the dead-letter page.
SettledForever(r, stage) ==
    LET n == Least(r.attempts + 1, MaxAttempts)
    IN  CASE stage = "free" -> r
          [] stage \in {"sent", "silent"} -> [status |-> "succeeded", attempts |-> 0]
          [] stage = "skipped" -> [status |-> "pending", attempts |-> n]
          [] stage = "gone" -> [status |-> "dead_letter", attempts |-> 0]
          [] stage = "retry" -> [status |-> "failed", attempts |-> Least(n, MaxAttempts - 1)]

\* markSyncSucceeded, markSyncFailed and the postponement of a held result.
\* Nobody reads the attempts of a settled row: they are dropped here.
Settled(r, stage) ==
    LET n == Least(r.attempts + 1, MaxAttempts)
    IN  CASE stage = "free" -> r
          [] stage \in {"sent", "silent"} -> [status |-> "succeeded", attempts |-> 0]
          [] stage = "skipped" -> [status |-> "pending", attempts |-> n]
          [] stage = "gone" \/ (stage = "retry" /\ n >= MaxAttempts) ->
                [status |-> "dead_letter", attempts |-> 0]
          [] stage = "retry" /\ n < MaxAttempts -> [status |-> "failed", attempts |-> n]

CommitDrain(d) ==
    /\ Running(d) /\ \A i \in Items : drain[d][i] # "claimed"
    /\ row' = [i \in Items |-> Settled(row[i], drain[d][i])]
    /\ drain' = [drain EXCEPT ![d] = Idle]
    /\ UNCHANGED <<analysis, told, landed, crashes>>

\* Cut off, or a failing query: everything is rolled back but the requests.
CrashDrain(d) ==
    /\ Running(d) /\ crashes < MaxCrashes
    /\ crashes' = crashes + 1
    /\ landed' = [i \in Items |-> IF drain[d][i] = "sent" THEN landed[i] - 1 ELSE landed[i]]
    /\ drain' = [drain EXCEPT ![d] = Idle]
    /\ UNCHANGED <<analysis, row, told>>

-----------------------------------------------------------------------------
(* The operator                                                            *)

Replayed(S) ==
    row' = [i \in Items |-> IF i \in S THEN [status |-> "pending", attempts |-> 0] ELSE row[i]]

DeadLetters == {i \in Items : row[i].status = "dead_letter"}

ReplayDeadLetter(i) ==
    /\ i \in DeadLetters /\ Replayed({i})
    /\ UNCHANGED <<analysis, drain, told, landed, crashes>>

ReplayAllForTarget(t) ==
    LET S == {i \in DeadLetters : i[2] = t}
    IN  /\ S # {} /\ Replayed(S)
        /\ UNCHANGED <<analysis, drain, told, landed, crashes>>

-----------------------------------------------------------------------------

Handle(d, i) ==
    \/ SkipHeldResult(d, i)
    \/ \E q \in Qualifiers, outcome \in Outcomes : Deliver(d, i, q, outcome)

Qualify(c, q) ==
    \/ StoreHeld(c, q)
    \/ \E notify \in BOOLEAN : StoreApproved(c, q, notify)

Next ==
    \/ \E c \in Calls, q \in Qualifiers : Qualify(c, q)
    \/ \E d \in Drains : \/ \E S \in SUBSET Items : ClaimDueSyncs(d, S)
                         \/ \E i \in Items : Handle(d, i)
                         \/ CommitDrain(d)
                         \/ CrashDrain(d)
    \/ \E t \in Targets : ReplayAllForTarget(t)
    \/ \E i \in Items : ReplayDeadLetter(i)

Spec == Init /\ [][Next]_vars

\* The sweep starts a drain every minute, takes the longest-due rows first and
\* a drain that is not cut off handles what it claimed; drains are cut off
\* finitely often.  Operators and reviewers owe nothing.
Fairness ==
    /\ \A d \in Drains : WF_vars(CommitDrain(d) \/ \E i \in Items : Handle(d, i))
    /\ \A i \in Items : SF_vars(\E d \in Drains, S \in SUBSET Items : i \in S /\ ClaimDueSyncs(d, S))

FairSpec == Spec /\ Fairness

-----------------------------------------------------------------------------
(* Properties                                                              *)

\* Two drains and the operator's replays never deliver one result twice of
\* which the database knows: what was sent and not lost is sent once, and is
\* what a succeeded row, or a drain that is about to commit one, stands for.
RecordedOnce ==
    \A i \in Items :
        /\ landed[i] <= 1
        /\ landed[i] = 1 => \/ row[i].status = "succeeded"
                            \/ \E d \in Drains : drain[d][i] = "sent"
        /\ row[i].status = "succeeded" /\ i \notin Optional => landed[i] = 1

\* With two analyses of one call stored, the drain may read either; what was
\* sent is never one that a reviewer still holds or has rejected, at the
\* moment of the send or at any later one.
SentResultsStand ==
    \A i \in Items : \A q \in told[i] : analysis[i[1]][q] = "approved"

\* The outbox implements at-least-once delivery (Delivery): in_flight and the
\* drains are invisible, a row is owed until a commit settles it.
PromiseOf(status) ==
    CASE status = "none" -> "none"
      [] status \in {"pending", "failed"} -> "owed"
      [] status = "succeeded" -> "delivered"
      [] status = "dead_letter" -> "given_up"

D == INSTANCE Delivery WITH
        promise <- [i \in Items |-> PromiseOf(row[i].status)],
        reached <- [i \in Items |-> told[i] # {}]

ImplementsDelivery == D!DeliverySpec

\* A call with an analysis that may not be sent beside one that may.
Doubled(c) == \E q \in Stored(c) : ~Committed(analysis[c][q])

\* Work that is owed is delivered or ends on the dead-letter page, unless the
\* call has a second analysis that is not committed: such a row is postponed
\* again and again.
RowsSettle ==
    \A i \in Items : Owed(i) ~> (row[i].status \in {"succeeded", "dead_letter"} \/ Doubled(i[1]))

=============================================================================
