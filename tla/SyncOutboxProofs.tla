--------------------------- MODULE SyncOutboxProofs ---------------------------
(***************************************************************************)
(* The outbox for every number of calls, destinations, drains, attempts    *)
(* and crashes: what the drains hold is theirs alone, so a result is       *)
(* recorded once, never sent before it stands, and delivery is             *)
(* at-least-once in the sense of Delivery.                                 *)
(***************************************************************************)
EXTENDS SyncOutbox, TLAPS

\* The row lock: at most one drain holds an item, and only while it is owed.
OneHolder ==
    \A d, e \in Drains, i \in Items :
        drain[d][i] # "free" /\ drain[e][i] # "free" => d = e

HeldIsOwed == \A d \in Drains, i \in Items : drain[d][i] # "free" => Owed(i)

\* What a drain has sent and not committed has arrived; only an optional item
\* is settled without being sent.
StagesAreTrue ==
    \A d \in Drains, i \in Items :
        /\ drain[d][i] = "sent" => told[i] # {}
        /\ drain[d][i] = "silent" => i \in Optional

SentBySomeone(i) == \E d \in Drains : drain[d][i] = "sent"

\* landed counts a drain's uncommitted send or the row's commit, not both.
LandedIs ==
    \A i \in Items :
        IF row[i].status = "succeeded"
        THEN landed[i] = 1 \/ (i \in Optional /\ landed[i] = 0)
        ELSE landed[i] = IF SentBySomeone(i) THEN 1 ELSE 0

OInv == /\ TypeOK /\ OneHolder /\ HeldIsOwed /\ StagesAreTrue /\ LandedIs

-----------------------------------------------------------------------------

LEMMA OInvImpliesRecordedOnce == OInv => RecordedOnce
<1> SUFFICES ASSUME OInv, NEW i \in Items
             PROVE  /\ landed[i] <= 1
                    /\ landed[i] = 1 => row[i].status = "succeeded" \/ SentBySomeone(i)
                    /\ row[i].status = "succeeded" /\ i \notin Optional => landed[i] = 1
  BY DEF RecordedOnce, SentBySomeone
<1>1. QED
  BY DEF OInv, LandedIs

LEMMA OInvInit == Init => OInv
<1> SUFFICES ASSUME Init PROVE OInv
  OBVIOUS
<1>1. TypeOK
  BY OutboxAssumption DEF Init, TypeOK, Row, RowStatus, Review, Stage, Idle
<1>2. QED
  BY <1>1 DEF Init, OInv, OneHolder, HeldIsOwed, StagesAreTrue, LandedIs, SentBySomeone, Idle

\* Whatever leaves the drains, landed and told alone and only turns unowed rows
\* into owed ones (a new row, a replay) keeps the invariant.
LEMMA OwingMore ==
    ASSUME OInv, TypeOK', UNCHANGED <<drain, landed, told>>,
           NEW S \in SUBSET Items,
           \A i \in S : row[i].status \in {"none", "dead_letter"},
           row' = [i \in Items |-> IF i \in S THEN [status |-> "pending", attempts |-> 0] ELSE row[i]]
    PROVE  OInv'
<1>1. \A i \in Items : (row'[i].status = "succeeded" <=> row[i].status = "succeeded") /\ (Owed(i) => Owed(i)')
  BY DEF Owed
<1>2. OneHolder' /\ HeldIsOwed' /\ StagesAreTrue'
  BY <1>1 DEF OInv, OneHolder, HeldIsOwed, StagesAreTrue, Optional
<1>3. LandedIs'
  BY <1>1 DEF OInv, LandedIs, SentBySomeone, Optional
<1>4. QED
  BY <1>2, <1>3 DEF OInv

LEMMA StoreStep ==
    ASSUME OInv, NEW c \in Calls, NEW q \in Qualifiers, Qualify(c, q)
    PROVE  OInv'
<1>1. CASE StoreHeld(c, q)
  <2>1. TypeOK'
    BY <1>1 DEF OInv, TypeOK, StoreHeld, Review
  <2>2. QED
    BY <1>1, <2>1 DEF OInv, StoreHeld, OneHolder, HeldIsOwed, StagesAreTrue, LandedIs, SentBySomeone, Owed
<1>2. ASSUME NEW notify \in BOOLEAN, StoreApproved(c, q, notify)
      PROVE  OInv'
  <2> DEFINE S == {i \in Items : i[1] = c /\ row[i].status = "none" /\ (i \in Optional => notify)}
  <2>1. row' = [i \in Items |-> IF i \in S THEN [status |-> "pending", attempts |-> 0] ELSE row[i]]
    BY <1>2 DEF StoreApproved, Enqueued
  <2>2. TypeOK'
    <3>1. row' \in [Items -> Row] /\ \A i \in Items : row'[i].status = "failed" => row'[i].attempts < MaxAttempts
      BY <2>1, OutboxAssumption DEF OInv, TypeOK, Row, RowStatus
    <3>2. QED
      BY <1>2, <3>1 DEF OInv, TypeOK, StoreApproved, Review
  <2>3. UNCHANGED <<drain, landed, told>>
    BY <1>2 DEF StoreApproved
  <2> HIDE DEF S
  <2>4. S \in SUBSET Items /\ \A i \in S : row[i].status \in {"none", "dead_letter"}
    BY DEF S
  <2>5. QED
    BY <2>1, <2>2, <2>3, <2>4, OwingMore
<1>3. QED
  BY <1>1, <1>2 DEF Qualify

LEMMA ReplayStep ==
    ASSUME OInv, NEW S \in SUBSET DeadLetters, Replayed(S), UNCHANGED <<analysis, drain, told, landed, crashes>>
    PROVE  OInv'
<1>1. row' \in [Items -> Row] /\ \A i \in Items : row'[i].status = "failed" => row'[i].attempts < MaxAttempts
  BY OutboxAssumption DEF OInv, TypeOK, Row, RowStatus, Replayed
<1>2. TypeOK'
  BY <1>1 DEF OInv, TypeOK
<1>3. S \in SUBSET Items /\ \A i \in S : row[i].status \in {"none", "dead_letter"}
  BY DEF DeadLetters
<1>4. QED
  BY <1>2, <1>3, OwingMore DEF Replayed

LEMMA ClaimStep ==
    ASSUME OInv, NEW d \in Drains, NEW S \in SUBSET Items, ClaimDueSyncs(d, S)
    PROVE  OInv'
<1>1. /\ drain' = [drain EXCEPT ![d] = [i \in Items |-> IF i \in S THEN "claimed" ELSE "free"]]
      /\ UNCHANGED <<analysis, row, told, landed, crashes>>
  BY DEF ClaimDueSyncs
<1>2. \A i \in S : Owed(i) /\ \A e \in Drains : drain[e][i] = "free"
  BY DEF ClaimDueSyncs, Claimable
<1>3. \A i \in Items : drain[d][i] = "free"
  BY DEF ClaimDueSyncs, Running, Held
<1>4. drain \in [Drains -> [Items -> Stage]]
  BY DEF OInv, TypeOK
<1>5. \A e \in Drains, i \in Items :
         drain'[e][i] = IF e = d /\ i \in S THEN "claimed" ELSE drain[e][i]
  BY <1>1, <1>3, <1>4
<1>6. TypeOK'
  <2>1. drain' \in [Drains -> [Items -> Stage]]
    BY <1>1, <1>4 DEF Stage
  <2>2. QED
    BY <1>1, <2>1 DEF OInv, TypeOK
<1>7. OneHolder'
  BY <1>2, <1>5 DEF OInv, OneHolder
<1>8. HeldIsOwed' /\ StagesAreTrue'
  BY <1>1, <1>2, <1>5 DEF OInv, HeldIsOwed, StagesAreTrue, Owed, Optional
<1>9. LandedIs'
  <2>1. \A i \in Items : SentBySomeone(i)' <=> SentBySomeone(i)
    BY <1>2, <1>5 DEF SentBySomeone
  <2>2. QED
    BY <1>1, <2>1 DEF OInv, LandedIs
<1>10. QED
  BY <1>6, <1>7, <1>8, <1>9 DEF OInv

\* What handling one claimed item does to the drain's own book.
LEMMA HandledFact ==
    ASSUME OInv, NEW d \in Drains, NEW i \in Items, NEW stage \in Stage \ {"free"},
           drain[d][i] = "claimed", Handled(d, i, stage)
    PROVE  /\ drain' \in [Drains -> [Items -> Stage]]
           /\ \A e \in Drains, j \in Items :
                 drain'[e][j] = IF e = d /\ j = i THEN stage ELSE drain[e][j]
           /\ \A e \in Drains : drain[e][i] # "free" => e = d
           /\ Owed(i)
<1>1. drain \in [Drains -> [Items -> Stage]]
  BY DEF OInv, TypeOK
<1>2. drain' = [drain EXCEPT ![d][i] = stage]
  BY DEF Handled
<1>3. QED
  BY <1>1, <1>2 DEF OInv, OneHolder, HeldIsOwed

LEMMA HandleStep ==
    ASSUME OInv, NEW d \in Drains, NEW i \in Items, Handle(d, i)
    PROVE  OInv'
<1>1. CASE SkipHeldResult(d, i)
  <2>1. drain[d][i] = "claimed" /\ Handled(d, i, "skipped") /\ UNCHANGED <<analysis, row, told, landed, crashes>>
    BY <1>1 DEF SkipHeldResult
  <2>2. "skipped" \in Stage \ {"free"}
    BY DEF Stage
  <2>3. /\ drain' \in [Drains -> [Items -> Stage]]
        /\ \A e \in Drains, j \in Items : drain'[e][j] = IF e = d /\ j = i THEN "skipped" ELSE drain[e][j]
    BY <2>1, <2>2, HandledFact
  <2>4. TypeOK'
    BY <2>1, <2>3 DEF OInv, TypeOK
  <2>5. OneHolder' /\ HeldIsOwed' /\ StagesAreTrue'
    BY <2>1, <2>3 DEF OInv, OneHolder, HeldIsOwed, StagesAreTrue, Owed, Optional
  <2>6. \A j \in Items : SentBySomeone(j)' <=> SentBySomeone(j)
    BY <2>1, <2>3 DEF SentBySomeone
  <2>7. QED
    BY <2>1, <2>4, <2>5, <2>6 DEF OInv, LandedIs
<1>2. ASSUME NEW q \in Qualifiers, NEW outcome \in Outcomes, Deliver(d, i, q, outcome)
      PROVE  OInv'
  <2>1. /\ drain[d][i] = "claimed"
        /\ told' = [told EXCEPT ![i] = IF Arrives(outcome) THEN @ \cup {q} ELSE @]
        /\ landed' = [landed EXCEPT ![i] = IF outcome = "ok" THEN @ + 1 ELSE @]
        /\ UNCHANGED <<analysis, row, crashes>>
    BY <1>2 DEF Deliver
  <2>2. PICK stage \in StageOf(i, outcome) : Handled(d, i, stage)
    BY <1>2 DEF Deliver
  <2>3. /\ stage \in Stage \ {"free"}
        /\ stage = "sent" <=> outcome = "ok"
        /\ stage = "silent" => i \in Optional
    <3>1. CASE outcome = "unusable"
      BY <2>2, <3>1 DEF StageOf, Stage
    <3>2. CASE outcome # "unusable"
      BY <2>2, <3>2 DEF StageOf, Stage, Outcomes
    <3>3. QED
      BY <3>1, <3>2
  <2>4. /\ drain' \in [Drains -> [Items -> Stage]]
        /\ \A e \in Drains, j \in Items : drain'[e][j] = IF e = d /\ j = i THEN stage ELSE drain[e][j]
        /\ \A e \in Drains : drain[e][i] # "free" => e = d
        /\ Owed(i)
    BY <2>1, <2>2, <2>3, HandledFact
  <2>5. told \in [Items -> SUBSET Qualifiers] /\ landed \in [Items -> Int]
    BY DEF OInv, TypeOK
  <2>6. TypeOK'
    <3>1. told' \in [Items -> SUBSET Qualifiers] /\ landed' \in [Items -> Int]
      BY <2>1, <2>5
    <3>2. QED
      BY <2>1, <2>4, <3>1 DEF OInv, TypeOK
  <2>7. OneHolder' /\ HeldIsOwed'
    <3>1. \A e \in Drains, j \in Items :
             drain'[e][j] # "free" => drain[e][j] # "free" \/ (e = d /\ j = i)
      BY <2>4
    <3>2. drain[d][i] # "free"
      BY <2>1
    <3>3. OneHolder'
      BY <3>1, <3>2 DEF OInv, OneHolder
    <3>4. HeldIsOwed'
      BY <2>1, <3>1, <3>2 DEF OInv, HeldIsOwed, Owed
    <3>5. QED
      BY <3>3, <3>4
  <2>8. \A j \in Items : told[j] \subseteq told'[j] /\ (j = i /\ outcome = "ok" => q \in told'[j])
    BY <2>1, <2>5 DEF Arrives
  <2>9. StagesAreTrue'
    BY <2>3, <2>4, <2>8 DEF OInv, StagesAreTrue, Optional
  <2>10. LandedIs'
    <3>1. \A j \in Items : j # i => landed'[j] = landed[j] /\ (SentBySomeone(j)' <=> SentBySomeone(j))
      BY <2>1, <2>4, <2>5 DEF SentBySomeone
    <3>2. row[i].status # "succeeded" /\ ~SentBySomeone(i) /\ landed[i] = 0
      BY <2>1, <2>4 DEF OInv, LandedIs, SentBySomeone, Owed
    <3>3. SentBySomeone(i)' <=> outcome = "ok"
      BY <2>3, <2>4, <3>2 DEF SentBySomeone
    <3>4. landed'[i] = IF outcome = "ok" THEN 1 ELSE 0
      BY <2>1, <2>5, <3>2
    <3>5. QED
      BY <2>1, <3>1, <3>2, <3>3, <3>4 DEF OInv, LandedIs, Optional
  <2>11. QED
    BY <2>6, <2>7, <2>9, <2>10 DEF OInv
<1>3. QED
  BY <1>1, <1>2 DEF Handle

-----------------------------------------------------------------------------

LEMMA SettledFact ==
    ASSUME NEW r \in Row, NEW stage \in Stage \ {"claimed"},
           r.status \in {"pending", "failed"}
    PROVE  /\ Settled(r, stage) \in Row
           /\ Settled(r, stage).status = "failed" => \/ Settled(r, stage).attempts < MaxAttempts
                                                     \/ stage = "free"
           /\ Settled(r, stage).status = "succeeded" <=> stage \in {"sent", "silent"}
           /\ stage \in {"sent", "silent", "skipped", "gone", "retry", "free"}
<1> DEFINE n == Least(r.attempts + 1, MaxAttempts)
<1>1. n \in 0..MaxAttempts
  BY OutboxAssumption DEF Row, Least
<1>2. stage \in {"sent", "silent", "skipped", "gone", "retry", "free"}
  BY DEF Stage
<1> HIDE DEF n
<1>3. CASE stage = "free"
  BY <1>3 DEF Settled
<1>4. CASE stage \in {"sent", "silent"}
  <2>1. Settled(r, stage) = [status |-> "succeeded", attempts |-> 0]
    BY <1>4 DEF Settled
  <2>2. QED
    BY <1>4, <2>1, OutboxAssumption DEF Row, RowStatus
<1>5. CASE stage = "skipped"
  <2>1. Settled(r, stage) = [status |-> "pending", attempts |-> n]
    BY <1>5 DEF Settled, n
  <2>2. QED
    BY <1>1, <1>5, <2>1 DEF Row, RowStatus
<1>6. CASE stage = "gone" \/ (stage = "retry" /\ n >= MaxAttempts)
  <2>1. ASSUME stage = "gone" PROVE Settled(r, stage) = [status |-> "dead_letter", attempts |-> 0]
    BY <2>1 DEF Settled
  <2>2. ASSUME stage = "retry", n >= MaxAttempts
        PROVE  Settled(r, stage) = [status |-> "dead_letter", attempts |-> 0]
    <3>1. stage = "gone" \/ (stage = "retry" /\ n >= MaxAttempts)
      BY <2>2
    <3>2. stage \notin {"free", "sent", "silent", "skipped"} /\ ~(stage = "retry" /\ n < MaxAttempts)
      BY <1>1, <2>2, OutboxAssumption
    <3>3. QED
      BY <3>1, <3>2 DEF Settled, n
  <2>3. Settled(r, stage) = [status |-> "dead_letter", attempts |-> 0]
    BY <1>6, <2>1, <2>2
  <2>4. QED
    BY <1>6, <2>3, OutboxAssumption DEF Row, RowStatus
<1>7. CASE stage = "retry" /\ n < MaxAttempts
  <2>1. Settled(r, stage) = [status |-> "failed", attempts |-> n]
    BY <1>7 DEF Settled, n
  <2>2. QED
    BY <1>1, <1>7, <2>1 DEF Row, RowStatus
<1>8. n < MaxAttempts \/ n >= MaxAttempts
  BY <1>1, OutboxAssumption
<1>9. QED
  BY <1>2, <1>3, <1>4, <1>5, <1>6, <1>7, <1>8

\* A commit leaves the rows the drain does not hold alone.
LEMMA CommitFact ==
    ASSUME OInv, NEW d \in Drains, CommitDrain(d), NEW i \in Items
    PROVE  /\ drain[d][i] = "free" => row'[i] = row[i]
           /\ row'[i] \in Row
           /\ row'[i].status = "failed" => row'[i].attempts < MaxAttempts
           /\ drain[d][i] # "free" => /\ Owed(i)
                                      /\ row'[i].status # "none"
                                      /\ row'[i].status = "succeeded" <=> drain[d][i] \in {"sent", "silent"}
           /\ row'[i] = Settled(row[i], drain[d][i])
<1>1. row'[i] = Settled(row[i], drain[d][i]) /\ drain[d][i] # "claimed"
  BY DEF CommitDrain
<1>2. row[i] \in Row /\ drain[d][i] \in Stage /\ (row[i].status = "failed" => row[i].attempts < MaxAttempts)
  BY DEF OInv, TypeOK
<1>3. CASE drain[d][i] = "free"
  BY <1>1, <1>2, <1>3 DEF Settled
<1>4. CASE drain[d][i] # "free"
  <2>1. Owed(i)
    BY <1>4 DEF OInv, HeldIsOwed
  <2>2. /\ Settled(row[i], drain[d][i]) \in Row
        /\ Settled(row[i], drain[d][i]).status = "failed" => Settled(row[i], drain[d][i]).attempts < MaxAttempts
        /\ Settled(row[i], drain[d][i]).status = "succeeded" <=> drain[d][i] \in {"sent", "silent"}
    BY <1>1, <1>2, <1>4, <2>1, SettledFact DEF Owed
  <2>3. Settled(row[i], drain[d][i]).status # "none"
    <3>1. drain[d][i] \in {"sent", "silent", "skipped", "gone", "retry"}
      BY <1>1, <1>2, <1>4 DEF Stage
    <3> DEFINE n == Least(row[i].attempts + 1, MaxAttempts)
    <3>2. n < MaxAttempts \/ n >= MaxAttempts
      BY <1>2, OutboxAssumption DEF Row, Least
    <3> HIDE DEF n
    <3>3. Settled(row[i], drain[d][i]) =
             CASE drain[d][i] = "free" -> row[i]
               [] drain[d][i] \in {"sent", "silent"} -> [status |-> "succeeded", attempts |-> 0]
               [] drain[d][i] = "skipped" -> [status |-> "pending", attempts |-> n]
               [] drain[d][i] = "gone" \/ (drain[d][i] = "retry" /\ n >= MaxAttempts) ->
                     [status |-> "dead_letter", attempts |-> 0]
               [] drain[d][i] = "retry" /\ n < MaxAttempts -> [status |-> "failed", attempts |-> n]
      BY DEF Settled, n
    <3>4. QED
      BY <3>1, <3>2, <3>3
  <2>4. QED
    BY <1>1, <1>4, <2>1, <2>2, <2>3
<1>5. QED
  BY <1>3, <1>4, <1>1

LEMMA CommitStep ==
    ASSUME OInv, NEW d \in Drains, CommitDrain(d)
    PROVE  OInv'
<1>1. drain \in [Drains -> [Items -> Stage]]
  BY DEF OInv, TypeOK
<1>2. \A e \in Drains, i \in Items : drain'[e][i] = IF e = d THEN "free" ELSE drain[e][i]
  BY <1>1 DEF CommitDrain, Idle
<1>3. UNCHANGED <<analysis, told, landed, crashes>>
  BY DEF CommitDrain
<1>4. TypeOK'
  <2>1. row' \in [Items -> Row] /\ \A i \in Items : row'[i].status = "failed" => row'[i].attempts < MaxAttempts
    <3>1. row' = [i \in Items |-> Settled(row[i], drain[d][i])]
      BY DEF CommitDrain
    <3>2. \A i \in Items : Settled(row[i], drain[d][i]) \in Row
      BY CommitFact
    <3>3. QED
      BY <3>1, <3>2, CommitFact
  <2>2. drain' \in [Drains -> [Items -> Stage]]
    BY <1>1 DEF CommitDrain, Idle, Stage
  <2>3. QED
    BY <1>3, <2>1, <2>2 DEF OInv, TypeOK
<1>5. OneHolder'
  BY <1>2 DEF OInv, OneHolder
<1>6. HeldIsOwed'
  <2> SUFFICES ASSUME NEW e \in Drains, NEW i \in Items, e # d, drain[e][i] # "free"
               PROVE  Owed(i)'
    BY <1>2 DEF HeldIsOwed
  <2>1. drain[d][i] = "free" /\ Owed(i)
    BY DEF OInv, OneHolder, HeldIsOwed
  <2>2. QED
    BY <2>1, CommitFact DEF Owed
<1>7. StagesAreTrue'
  BY <1>2, <1>3 DEF OInv, StagesAreTrue, Optional
<1>8. LandedIs'
  <2> SUFFICES ASSUME NEW i \in Items
               PROVE  IF row'[i].status = "succeeded"
                      THEN landed[i] = 1 \/ (i \in Optional /\ landed[i] = 0)
                      ELSE landed[i] = IF SentBySomeone(i)' THEN 1 ELSE 0
    BY <1>3 DEF LandedIs, Optional
  <2>1. CASE drain[d][i] = "free"
    <3>1. SentBySomeone(i)' <=> SentBySomeone(i)
      BY <1>2, <2>1 DEF SentBySomeone
    <3>2. row'[i] = row[i]
      BY <2>1, CommitFact
    <3>3. QED
      BY <3>1, <3>2 DEF OInv, LandedIs
  <2>2. CASE drain[d][i] # "free"
    <3>1. SentBySomeone(i) <=> drain[d][i] = "sent"
      BY <2>2 DEF OInv, OneHolder, SentBySomeone
    <3>2. ~SentBySomeone(i)'
      BY <1>2, <2>2 DEF OInv, OneHolder, SentBySomeone
    <3>3. Owed(i) /\ (row'[i].status = "succeeded" <=> drain[d][i] \in {"sent", "silent"})
      BY <2>2, CommitFact
    <3>4. landed[i] = IF drain[d][i] = "sent" THEN 1 ELSE 0
      BY <3>1, <3>3 DEF OInv, LandedIs, Owed
    <3>5. drain[d][i] = "silent" => i \in Optional
      BY DEF OInv, StagesAreTrue
    <3>6. QED
      BY <3>2, <3>3, <3>4, <3>5
  <2>3. QED
    BY <2>1, <2>2
<1>9. QED
  BY <1>4, <1>5, <1>6, <1>7, <1>8 DEF OInv

LEMMA CrashStep ==
    ASSUME OInv, NEW d \in Drains, CrashDrain(d)
    PROVE  OInv'
<1>1. drain \in [Drains -> [Items -> Stage]] /\ landed \in [Items -> Int]
  BY DEF OInv, TypeOK
<1>2. \A e \in Drains, i \in Items : drain'[e][i] = IF e = d THEN "free" ELSE drain[e][i]
  BY <1>1 DEF CrashDrain, Idle
<1>3. UNCHANGED <<analysis, row, told>>
  BY DEF CrashDrain
<1>4. landed' = [i \in Items |-> IF drain[d][i] = "sent" THEN landed[i] - 1 ELSE landed[i]]
  BY DEF CrashDrain
<1>5. TypeOK'
  <2>1. drain' \in [Drains -> [Items -> Stage]]
    BY <1>1 DEF CrashDrain, Idle, Stage
  <2>2. crashes' \in 0..MaxCrashes
    BY OutboxAssumption DEF OInv, TypeOK, CrashDrain
  <2>3. landed' \in [Items -> Int]
    BY <1>1, <1>4
  <2>4. QED
    BY <1>3, <2>1, <2>2, <2>3 DEF OInv, TypeOK
<1>6. OneHolder'
  BY <1>2 DEF OInv, OneHolder
<1>7. HeldIsOwed' /\ StagesAreTrue'
  BY <1>2, <1>3 DEF OInv, HeldIsOwed, StagesAreTrue, Owed, Optional
<1>8. LandedIs'
  <2> SUFFICES ASSUME NEW i \in Items
               PROVE  IF row[i].status = "succeeded"
                      THEN landed'[i] = 1 \/ (i \in Optional /\ landed'[i] = 0)
                      ELSE landed'[i] = IF SentBySomeone(i)' THEN 1 ELSE 0
    BY <1>3 DEF LandedIs, Optional
  <2>1. CASE drain[d][i] = "sent"
    <3>1. SentBySomeone(i) /\ ~SentBySomeone(i)'
      BY <1>2, <2>1 DEF OInv, OneHolder, SentBySomeone
    <3>2. row[i].status # "succeeded"
      BY <2>1 DEF OInv, HeldIsOwed, Owed
    <3>3. landed'[i] = landed[i] - 1
      BY <1>4, <2>1
    <3>4. QED
      BY <3>1, <3>2, <3>3 DEF OInv, LandedIs
  <2>2. CASE drain[d][i] # "sent"
    <3>1. SentBySomeone(i)' <=> SentBySomeone(i)
      BY <1>2, <2>2 DEF SentBySomeone
    <3>2. landed'[i] = landed[i]
      BY <1>4, <2>2
    <3>3. QED
      BY <3>1, <3>2 DEF OInv, LandedIs
  <2>3. QED
    BY <2>1, <2>2
<1>9. QED
  BY <1>5, <1>6, <1>7, <1>8 DEF OInv

LEMMA OInvStep == OInv /\ [Next]_vars => OInv'
<1> SUFFICES ASSUME OInv, [Next]_vars PROVE OInv'
  OBVIOUS
<1>1. ASSUME NEW c \in Calls, NEW q \in Qualifiers, Qualify(c, q) PROVE OInv'
  BY <1>1, StoreStep
<1>2. ASSUME NEW d \in Drains, NEW S \in SUBSET Items, ClaimDueSyncs(d, S) PROVE OInv'
  BY <1>2, ClaimStep
<1>3. ASSUME NEW d \in Drains, NEW i \in Items, Handle(d, i) PROVE OInv'
  BY <1>3, HandleStep
<1>4. ASSUME NEW d \in Drains, CommitDrain(d) PROVE OInv'
  BY <1>4, CommitStep
<1>5. ASSUME NEW d \in Drains, CrashDrain(d) PROVE OInv'
  BY <1>5, CrashStep
<1>6. ASSUME NEW t \in Targets, ReplayAllForTarget(t) PROVE OInv'
  <2> DEFINE S == {i \in DeadLetters : i[2] = t}
  <2>1. S \in SUBSET DeadLetters /\ Replayed(S) /\ UNCHANGED <<analysis, drain, told, landed, crashes>>
    BY <1>6 DEF ReplayAllForTarget
  <2> HIDE DEF S
  <2>2. QED
    BY <2>1, ReplayStep
<1>7. ASSUME NEW i \in Items, ReplayDeadLetter(i) PROVE OInv'
  <2> DEFINE S == {i}
  <2>1. S \in SUBSET DeadLetters /\ Replayed(S) /\ UNCHANGED <<analysis, drain, told, landed, crashes>>
    BY <1>7 DEF ReplayDeadLetter
  <2> HIDE DEF S
  <2>2. QED
    BY <2>1, ReplayStep
<1>8. CASE UNCHANGED vars
  BY <1>8 DEF vars, OInv, TypeOK, OneHolder, HeldIsOwed, StagesAreTrue, LandedIs, SentBySomeone, Owed
<1>9. QED
  BY <1>1, <1>2, <1>3, <1>4, <1>5, <1>6, <1>7, <1>8 DEF Next

\* The rows, drains and counters stay within their types for any number of
\* calls, targets, drains and attempts.
THEOREM OutboxTypes == Spec => []TypeOK
<1>1. Init => OInv
  BY OInvInit
<1>2. OInv /\ [Next]_vars => OInv'
  BY OInvStep
<1>3. OInv => TypeOK
  BY DEF OInv
<1>4. QED
  BY <1>1, <1>2, <1>3, PTL DEF Spec

\* However many drains run and whatever is replayed (outbox.ts, sync-worker.ts),
\* the database records the delivery of a result once.
THEOREM DeliveryIsRecordedOnce == Spec => []RecordedOnce
<1>1. Init => OInv
  BY OInvInit
<1>2. OInv /\ [Next]_vars => OInv'
  BY OInvStep
<1>3. OInv => RecordedOnce
  BY OInvImpliesRecordedOnce
<1>4. QED
  BY <1>1, <1>2, <1>3, PTL DEF Spec

-----------------------------------------------------------------------------
(* What was sent stands                                                    *)

LEMMA StandsStep == OInv /\ SentResultsStand /\ [Next]_vars => SentResultsStand'
<1> SUFFICES ASSUME OInv, SentResultsStand, [Next]_vars PROVE SentResultsStand'
  OBVIOUS
<1>1. analysis \in [Calls -> [Qualifiers -> Review]] /\ told \in [Items -> SUBSET Qualifiers]
  BY DEF OInv, TypeOK
<1>2. \A i \in Items : i[1] \in Calls
  BY DEF Items
<1>3. ASSUME NEW c \in Calls, NEW q \in Qualifiers, Qualify(c, q) PROVE SentResultsStand'
  <2>1. \E v \in {"held", "approved"} : /\ analysis' = [analysis EXCEPT ![c][q] = v]
                                        /\ v = "held" => analysis[c][q] = "none"
    BY <1>3 DEF Qualify, StoreHeld, StoreApproved
  <2>2. told' = told
    BY <1>3 DEF Qualify, StoreHeld, StoreApproved
  <2>3. ASSUME NEW i \in Items, NEW p \in told[i]
        PROVE  analysis'[i[1]][p] = "approved"
    <3>1. analysis[i[1]][p] = "approved" /\ i[1] \in Calls /\ p \in Qualifiers
      BY <1>1, <1>2 DEF SentResultsStand
    <3>2. QED
      BY <1>1, <2>1, <3>1
  <2>4. QED
    BY <2>2, <2>3 DEF SentResultsStand
<1>4. ASSUME NEW d \in Drains, NEW i \in Items, Handle(d, i) PROVE SentResultsStand'
  <2>1. CASE SkipHeldResult(d, i)
    BY <2>1 DEF SkipHeldResult, SentResultsStand
  <2>2. ASSUME NEW q \in Qualifiers, NEW outcome \in Outcomes, Deliver(d, i, q, outcome)
        PROVE  SentResultsStand'
    BY <2>2, <1>1 DEF Deliver, SentResultsStand, Committed
  <2>3. QED
    BY <1>4, <2>1, <2>2 DEF Handle
<1>5. CASE UNCHANGED <<analysis, told>>
  BY <1>5 DEF SentResultsStand
<1>6. QED
  BY <1>3, <1>4, <1>5 DEF Next, ClaimDueSyncs, CommitDrain, CrashDrain, ReplayAllForTarget, ReplayDeadLetter, vars

\* Nothing that a reviewer holds or has rejected was ever sent, with two
\* qualifiers of one call and reviews racing drains (sync-worker.ts).
THEOREM OnlyApprovedIsSent == Spec => []SentResultsStand
<1>1. Init => OInv /\ SentResultsStand
  BY OInvInit DEF Init, SentResultsStand
<1>2. OInv /\ [Next]_vars => OInv'
  BY OInvStep
<1>3. OInv /\ SentResultsStand /\ [Next]_vars => SentResultsStand'
  BY StandsStep
<1>4. QED
  BY <1>1, <1>2, <1>3, PTL DEF Spec

-----------------------------------------------------------------------------
(* Refinement                                                              *)

Promised == [i \in Items |-> PromiseOf(row[i].status)]
Reached == [i \in Items |-> told[i] # {}]

LEMMA DeliveryInitialStates == Init => D!DeliveryInit
<1> SUFFICES ASSUME Init PROVE D!DeliveryInit
  OBVIOUS
<1>1. \A i \in Items : row[i].status = "none" /\ told[i] = {}
  BY DEF Init
<1>2. \A i \in Items : PromiseOf(row[i].status) = "none" /\ (told[i] # {}) = FALSE
  BY <1>1 DEF PromiseOf
<1>3. QED
  BY <1>2 DEF D!DeliveryInit

LEMMA PromiseTypes == ASSUME OInv PROVE Promised \in [Items -> D!Promise]
<1>1. \A i \in Items : row[i].status \in RowStatus
  BY DEF OInv, TypeOK, Row
<1>2. \A i \in Items : PromiseOf(row[i].status) \in D!Promise
  BY <1>1 DEF RowStatus, PromiseOf, D!Promise
<1>3. QED
  BY <1>2 DEF Promised

\* A step that changes rows and not what has arrived, row by row.
LEMMA MoveByRows ==
    ASSUME OInv, OInv', told' = told,
           \A i \in Items :
              \/ PromiseOf(row'[i].status) = PromiseOf(row[i].status)
              \/ PromiseOf(row[i].status) \in {"none", "given_up"} /\ PromiseOf(row'[i].status) = "owed"
              \/ PromiseOf(row[i].status) = "owed" /\ PromiseOf(row'[i].status) = "given_up"
              \/ /\ PromiseOf(row[i].status) = "owed" /\ PromiseOf(row'[i].status) = "delivered"
                 /\ told[i] # {} \/ i \in Optional
    PROVE  D!Move
<1>1. Promised' \in [Items -> D!Promise]
  <2>1. OInv => Promised \in [Items -> D!Promise]
    BY PromiseTypes
  <2>2. OInv' => Promised' \in [Items -> D!Promise]
    <3>1. \A i \in Items : row'[i].status \in RowStatus
      BY DEF OInv, TypeOK, Row
    <3>2. \A i \in Items : PromiseOf(row'[i].status) \in D!Promise
      BY <3>1 DEF RowStatus, PromiseOf, D!Promise
    <3>3. QED
      BY <3>2 DEF Promised
  <2>3. QED
    BY <2>2
<1>2. QED
  BY <1>1 DEF D!Move, Promised

LEMMA DeliverySteps == OInv /\ OInv' /\ [Next]_vars => [D!DeliveryNext]_(D!promises)
<1> SUFFICES ASSUME OInv, OInv', [Next]_vars PROVE D!DeliveryNext \/ UNCHANGED <<Promised, Reached>>
  BY DEF D!promises, Promised, Reached
<1>1. ASSUME NEW S \in SUBSET Items, \A i \in S : row[i].status \in {"none", "dead_letter"}, told' = told,
             row' = [i \in Items |-> IF i \in S THEN [status |-> "pending", attempts |-> 0] ELSE row[i]]
      PROVE  D!DeliveryNext
  <2>1. D!Move
    BY <1>1, MoveByRows DEF PromiseOf
  <2>2. QED
    BY <2>1 DEF D!DeliveryNext
<1>2. ASSUME NEW c \in Calls, NEW q \in Qualifiers, Qualify(c, q)
      PROVE  D!DeliveryNext \/ UNCHANGED <<Promised, Reached>>
  <2>1. CASE StoreHeld(c, q)
    BY <2>1 DEF StoreHeld, Promised, Reached
  <2>2. ASSUME NEW notify \in BOOLEAN, StoreApproved(c, q, notify) PROVE D!DeliveryNext
    <3> DEFINE S == {i \in Items : i[1] = c /\ row[i].status = "none" /\ (i \in Optional => notify)}
    <3>1. row' = [i \in Items |-> IF i \in S THEN [status |-> "pending", attempts |-> 0] ELSE row[i]]
      BY <2>2 DEF StoreApproved, Enqueued
    <3>2. told' = told /\ S \in SUBSET Items /\ \A i \in S : row[i].status \in {"none", "dead_letter"}
      BY <2>2 DEF StoreApproved
    <3> HIDE DEF S
    <3>3. QED
      BY <1>1, <3>1, <3>2
  <2>3. QED
    BY <1>2, <2>1, <2>2 DEF Qualify
<1>3. ASSUME NEW d \in Drains, NEW i \in Items, Handle(d, i)
      PROVE  D!DeliveryNext \/ UNCHANGED <<Promised, Reached>>
  <2>1. CASE SkipHeldResult(d, i)
    BY <2>1 DEF SkipHeldResult, Promised, Reached
  <2>2. ASSUME NEW q \in Qualifiers, NEW outcome \in Outcomes, Deliver(d, i, q, outcome)
        PROVE  D!DeliveryNext \/ UNCHANGED <<Promised, Reached>>
    <3>1. /\ drain[d][i] = "claimed" /\ row' = row
          /\ told' = [told EXCEPT ![i] = IF Arrives(outcome) THEN @ \cup {q} ELSE @]
      BY <2>2 DEF Deliver
    <3>2. told \in [Items -> SUBSET Qualifiers]
      BY DEF OInv, TypeOK
    <3>3. CASE ~Arrives(outcome)
      <4>1. told' = told
        BY <3>1, <3>2, <3>3
      <4>2. QED
        BY <3>1, <4>1 DEF Promised, Reached
    <3>4. CASE Arrives(outcome)
      <4>1. Reached' = [Reached EXCEPT ![i] = TRUE]
        BY <3>1, <3>2, <3>4 DEF Reached
      <4>2. Promised[i] = "owed" /\ Promised' = Promised
        BY <3>1 DEF OInv, HeldIsOwed, Owed, Promised, PromiseOf
      <4>3. D!Arrive(i)
        BY <4>1, <4>2 DEF D!Arrive, Promised, Reached
      <4>4. QED
        BY <4>3 DEF D!DeliveryNext
    <3>5. QED
      BY <3>3, <3>4
  <2>3. QED
    BY <1>3, <2>1, <2>2 DEF Handle
<1>4. ASSUME NEW d \in Drains, CommitDrain(d) PROVE D!DeliveryNext
  <2>1. ASSUME NEW i \in Items
        PROVE  \/ PromiseOf(row'[i].status) = PromiseOf(row[i].status)
               \/ PromiseOf(row[i].status) = "owed" /\ PromiseOf(row'[i].status) = "given_up"
               \/ /\ PromiseOf(row[i].status) = "owed" /\ PromiseOf(row'[i].status) = "delivered"
                  /\ told[i] # {} \/ i \in Optional
    <3>1. CASE drain[d][i] = "free"
      BY <1>4, <3>1, CommitFact
    <3>2. CASE drain[d][i] # "free"
      <4>1. /\ Owed(i) /\ row'[i].status \in RowStatus /\ row'[i].status # "none"
            /\ row'[i].status = "succeeded" => drain[d][i] \in {"sent", "silent"}
        BY <1>4, <3>2, CommitFact DEF Row
      <4>2. drain[d][i] \in {"sent", "silent"} => told[i] # {} \/ i \in Optional
        BY DEF OInv, StagesAreTrue
      <4>3. QED
        BY <4>1, <4>2 DEF Owed, PromiseOf, RowStatus
    <3>3. QED
      BY <3>1, <3>2
  <2>2. told' = told
    BY <1>4 DEF CommitDrain
  <2>3. D!Move
    BY <2>1, <2>2, MoveByRows
  <2>4. QED
    BY <2>3 DEF D!DeliveryNext
<1>5. ASSUME NEW S \in SUBSET DeadLetters, Replayed(S), told' = told
      PROVE  D!DeliveryNext
  BY <1>1, <1>5 DEF Replayed, DeadLetters
<1>6. ASSUME NEW t \in Targets, ReplayAllForTarget(t) PROVE D!DeliveryNext
  <2> DEFINE S == {i \in DeadLetters : i[2] = t}
  <2>1. S \in SUBSET DeadLetters /\ Replayed(S) /\ told' = told
    BY <1>6 DEF ReplayAllForTarget
  <2> HIDE DEF S
  <2>2. QED
    BY <1>5, <2>1
<1>7. ASSUME NEW i \in Items, ReplayDeadLetter(i) PROVE D!DeliveryNext
  <2>1. {i} \in SUBSET DeadLetters /\ Replayed({i}) /\ told' = told
    BY <1>7 DEF ReplayDeadLetter
  <2>2. QED
    BY <1>5, <2>1
<1>8. CASE UNCHANGED <<row, told>>
  BY <1>8 DEF Promised, Reached
<1>9. QED
  BY <1>2, <1>3, <1>4, <1>6, <1>7, <1>8 DEF Next, ClaimDueSyncs, CrashDrain, vars

\* The outbox and its drains, crashes and replays included, are at-least-once
\* delivery: owed until sent or visibly given up, and nothing sent unowed.
THEOREM OutboxDelivers == Spec => ImplementsDelivery
<1>1. Init => OInv /\ D!DeliveryInit
  BY OInvInit, DeliveryInitialStates
<1>2. OInv /\ [Next]_vars => OInv'
  BY OInvStep
<1>3. OInv /\ OInv' /\ [Next]_vars => [D!DeliveryNext]_(D!promises)
  BY DeliverySteps
<1>4. QED
  BY <1>1, <1>2, <1>3, PTL DEF Spec, ImplementsDelivery, D!DeliverySpec

=============================================================================
