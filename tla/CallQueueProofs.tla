-------------------------- MODULE CallQueueProofs --------------------------
(***************************************************************************)
(* Theorems about CallQueue, for every number of leads, workers, calls and  *)
(* campaigns, every limit and every attempt budget.                         *)
(*                                                                          *)
(* The inductive invariant joins the properties that keep one another true. *)
(* A commit numbers its new row count + 1; that this is the next free       *)
(* number, and within the budget, needs AttemptLedger and HeldInBudget;     *)
(* HeldInBudget survives another worker's commit only because of            *)
(* ExclusiveClaim.                                                          *)
(*                                                                          *)
(* On top of it: the attempts table implements CallLedger (a commit appends *)
(* the rows of its batch, the recording of an outcome closes a row, and     *)
(* everything else leaves the ledger alone), and the concurrency caps hold  *)
(* m-fold while at most m ticks are open, so exactly without overlap.       *)
(***************************************************************************)
EXTENDS CallQueue, FiniteSetTheorems, FunctionTheorems, TLAPS

(* Every webhook on its way carries a terminal status.                       *)
WireHasOutcomes == \A id \in wire : call[id].status \in Terminal

IInv ==
    /\ TypeOK
    /\ ExclusiveClaim
    /\ AttemptLedger
    /\ HeldInBudget
    /\ CallingIsInFlight
    /\ WireHasOutcomes

-----------------------------------------------------------------------------
(* Types of the rows that the actions write                                  *)

LEMMA MovedType ==
    ASSUME NEW r \in LeadRow, NEW s \in Status, NEW d \in BOOLEAN
    PROVE  /\ Moved(r, s, d) \in LeadRow
           /\ Moved(r, s, d).status = s
           /\ Moved(r, s, d).count = r.count
BY DEF Moved, LeadRow

LEMMA SuppressedType ==
    ASSUME NEW r \in LeadRow
    PROVE  /\ Suppressed(r) \in LeadRow
           /\ Suppressed(r).status = "suppressed"
           /\ Suppressed(r).count = r.count
BY DEF Suppressed, Moved, LeadRow, Status

LEMMA AfterDecisionType ==
    ASSUME NEW r \in LeadRow, NEW d
    PROVE  /\ AfterDecision(r, d) \in LeadRow
           /\ AfterDecision(r, d).status \in {"closed", "queued"}
           /\ AfterDecision(r, d).count = r.count
BY DEF AfterDecision, Moved, LeadRow, Status

LEMMA RoutedType ==
    ASSUME NEW r \in LeadRow, NEW k, NEW v
    PROVE  /\ Routed(r, k, v) \in LeadRow
           /\ Routed(r, k, v).status = "calling" => r.status = "calling"
           /\ Routed(r, k, v).count = r.count
<1>1. CASE v = "dnc"
  BY <1>1, SuppressedType DEF Routed
<1>2. CASE v = "callback"
  BY <1>2, AfterDecisionType DEF Routed
<1>3. CASE v = "callback_untimed"
  BY <1>3, AfterDecisionType DEF Routed
<1>4. CASE v = "qualified"
  <2>1. "qualified" \in Status
    BY DEF Status
  <2>2. QED
    BY <1>4, <2>1, MovedType DEF Routed
<1>5. CASE v \notin {"dnc", "callback", "callback_untimed", "qualified"}
  BY <1>5 DEF Routed
<1>6. QED
  BY <1>1, <1>2, <1>3, <1>4, <1>5

LEMMA BoundsAssumption == MaxAttempts \in Nat /\ RowBound \in Nat /\ MaxAttempts < RowBound
BY MaxAttemptsAssumption, ConstantsAssumption DEF MaxAttemptsAssumption, ConstantsAssumption

LEMMA CountSet ==
    ASSUME NEW m \in LeadRow, NEW n \in 0..RowBound
    PROVE  LET c == [m EXCEPT !.count = n]
           IN  c \in LeadRow /\ c.status = m.status /\ c.count = n
BY DEF LeadRow

LEMMA LeftBehindType ==
    ASSUME NEW r \in LeadRow, NEW stage \in Stage,
           stage \in Placed => r.count < MaxAttempts
    PROVE  /\ LeftBehind(r, stage) \in LeadRow
           /\ LeftBehind(r, stage).count = IF stage \in Placed THEN r.count + 1 ELSE r.count
           /\ LeftBehind(r, stage).status = "calling" =>
                stage = "initiated" \/ (stage \notin Placed /\ r.status = "calling")
<1>1. CASE stage = "initiated"
  <2> DEFINE m == Moved(r, "calling", r.due)
  <2>1. LeftBehind(r, stage) = [m EXCEPT !.count = r.count + 1]
    BY <1>1, Zenon DEF LeftBehind
  <2>2. m \in LeadRow /\ m.status = "calling"
    BY DEF Moved, LeadRow, Status
  <2>3. r.count + 1 \in 0..RowBound /\ stage \in Placed
    BY <1>1, BoundsAssumption DEF LeadRow, Placed
  <2> HIDE DEF m
  <2>4. /\ LeftBehind(r, stage) \in LeadRow
        /\ LeftBehind(r, stage).count = r.count + 1
    BY <2>1, <2>2, <2>3, CountSet
  <2>5. QED
    BY <1>1, <2>3, <2>4
<1>2. CASE stage = "refused"
  <2> DEFINE m == Moved(r, "queued", FALSE)
  <2>1. LeftBehind(r, stage) = [m EXCEPT !.count = r.count + 1]
    BY <1>2, Zenon DEF LeftBehind
  <2>2. m \in LeadRow /\ m.status = "queued"
    BY DEF Moved, LeadRow, Status
  <2>3. r.count + 1 \in 0..RowBound /\ stage \in Placed
    BY <1>2, BoundsAssumption DEF LeadRow, Placed
  <2> HIDE DEF m
  <2>4. /\ LeftBehind(r, stage) \in LeadRow
        /\ LeftBehind(r, stage).count = r.count + 1
        /\ LeftBehind(r, stage).status = "queued"
    BY <2>1, <2>2, <2>3, CountSet
  <2>5. QED
    BY <1>2, <2>3, <2>4
<1>3. CASE stage = "rejected"
  <2> DEFINE m == Moved(r, "failed", TRUE)
  <2>1. LeftBehind(r, stage) = [m EXCEPT !.count = r.count + 1]
    BY <1>3, Zenon DEF LeftBehind
  <2>2. m \in LeadRow /\ m.status = "failed"
    BY DEF Moved, LeadRow, Status
  <2>3. r.count + 1 \in 0..RowBound /\ stage \in Placed
    BY <1>3, BoundsAssumption DEF LeadRow, Placed
  <2> HIDE DEF m
  <2>4. /\ LeftBehind(r, stage) \in LeadRow
        /\ LeftBehind(r, stage).count = r.count + 1
        /\ LeftBehind(r, stage).status = "failed"
    BY <2>1, <2>2, <2>3, CountSet
  <2>5. QED
    BY <1>3, <2>3, <2>4
<1>4. CASE stage = "suppressed"
  <2>1. LeftBehind(r, stage) = Moved(r, "suppressed", TRUE)
    BY <1>4, Zenon DEF LeftBehind
  <2>2. QED
    BY <1>4, <2>1 DEF Moved, LeadRow, Status, Placed
<1>5. CASE stage = "reclaimed"
  <2>1. LeftBehind(r, stage) = Moved(r, "queued", r.due)
    BY <1>5, Zenon DEF LeftBehind
  <2>2. QED
    BY <1>5, <2>1 DEF Moved, LeadRow, Status, Placed
<1>6. CASE stage \in {"free", "claimed"}
  <2>1. LeftBehind(r, stage) = r
    BY <1>6, Zenon DEF LeftBehind
  <2>2. QED
    BY <1>6, <2>1 DEF Placed
<1>7. QED
  BY <1>1, <1>2, <1>3, <1>4, <1>5, <1>6 DEF Stage, Placed

LEMMA NewAttemptType ==
    ASSUME NEW h \in Holding
    PROVE  /\ NewAttempt(h) \in AttemptRow
           /\ NewAttempt(h).status = IF h.stage = "initiated" THEN "open" ELSE "failed"
BY DEF NewAttempt, NoRow, AttemptRow, Holding, Terminal

LEMMA HoldType ==
    ASSUME NEW l \in Leads, NEW S, NEW barred, NEW stale
    PROVE  /\ Hold(l, S, barred, stale) \in Holding
           /\ Hold(l, S, barred, stale).stage \notin Placed
           /\ Hold(l, S, barred, stale).stage # "free" => l \in S \/ l \in stale
           /\ Hold(l, S, barred, stale).stage = "claimed" => lead[l].count < MaxAttempts
           /\ Hold(l, S, barred, stale).call = NoCall
BY DEF Hold, Nothing, Holding, Stage, Placed, Eligible

-----------------------------------------------------------------------------
(* Steps that leave open ticks, attempt numbers and attempt statuses alone,  *)
(* and start no call: everything but the tick and the recording of outcomes. *)

Quiet ==
    /\ lead' \in [Leads -> LeadRow]
    /\ attempt' \in [Leads -> [1..RowBound -> AttemptRow]]
    /\ work' = work
    /\ \A l \in Leads : /\ lead'[l].count = lead[l].count
                        /\ lead'[l].status = "calling" => lead[l].status = "calling"
    /\ \A l \in Leads, k \in 1..RowBound : attempt'[l][k].status = attempt[l][k].status

LEMMA QuietKeepsInvariants ==
    ASSUME IInv, Quiet, TypeOK', WireHasOutcomes'
    PROVE  IInv'
<1> USE DEF IInv, Quiet
<1>1. ExclusiveClaim'
  BY DEF ExclusiveClaim
<1>2. AttemptLedger'
  BY DEF AttemptLedger
<1>3. HeldInBudget'
  BY DEF HeldInBudget
<1>4. CallingIsInFlight'
  <2> SUFFICES ASSUME NEW l \in Leads, lead'[l].status = "calling"
               PROVE  lead'[l].count > 0 /\ attempt'[l][lead'[l].count].status = "open"
    BY DEF CallingIsInFlight
  <2>1. lead[l].count > 0 /\ attempt[l][lead[l].count].status = "open"
    BY DEF CallingIsInFlight
  <2>2. lead[l].count \in 1..RowBound
    BY <2>1 DEF TypeOK, LeadRow
  <2>3. QED
    BY <2>1, <2>2
<1>5. QED
  BY <1>1, <1>2, <1>3, <1>4

LEMMA PhoneType == \A l \in Leads : PhoneOf[l] \in Phones
BY ConstantsAssumption DEF ConstantsAssumption

LEMMA SetAttempt ==
    ASSUME NEW t \in [Leads -> [1..RowBound -> AttemptRow]],
           NEW l \in Leads, NEW k \in 1..RowBound, NEW row \in AttemptRow
    PROVE  LET u == [t EXCEPT ![l][k] = row] IN
           /\ u \in [Leads -> [1..RowBound -> AttemptRow]]
           /\ \A m \in Leads, j \in 1..RowBound :
                u[m][j] = IF m = l /\ j = k THEN row ELSE t[m][j]
OBVIOUS

LEMMA AnalysisSet ==
    ASSUME NEW a \in AttemptRow, NEW v \in {"none", "held", "approved", "rejected"}
    PROVE  LET row == [a EXCEPT !.analysis = v]
           IN  row \in AttemptRow /\ row.status = a.status
BY DEF AttemptRow

(* One lead row and one attempt row at most, the attempt's status kept.      *)
LEMMA OneLeadQuiet ==
    ASSUME IInv, NEW l \in Leads, NEW r \in LeadRow,
           r.count = lead[l].count,
           r.status = "calling" => lead[l].status = "calling",
           lead' = [lead EXCEPT ![l] = r],
           attempt' = attempt \/
             \E k \in 1..RowBound, v \in {"none", "held", "approved", "rejected"} :
                attempt' = [attempt EXCEPT ![l][k].analysis = v],
           dncList' = dncList \/ dncList' = dncList \cup {PhoneOf[l]},
           UNCHANGED <<keys, active, tenantActive, work, outside, crashes>>
    PROVE  IInv'
<1> USE DEF IInv, outside
<1>1. lead' \in [Leads -> LeadRow]
  BY DEF TypeOK
<1>2. /\ attempt' \in [Leads -> [1..RowBound -> AttemptRow]]
      /\ \A m \in Leads, j \in 1..RowBound : attempt'[m][j].status = attempt[m][j].status
  <2>1. CASE attempt' = attempt
    BY <2>1 DEF TypeOK
  <2>2. ASSUME NEW k \in 1..RowBound, NEW v \in {"none", "held", "approved", "rejected"},
               attempt' = [attempt EXCEPT ![l][k].analysis = v]
        PROVE  <1>2
    <3> DEFINE row == [attempt[l][k] EXCEPT !.analysis = v]
    <3>1. row \in AttemptRow /\ row.status = attempt[l][k].status
      <4>1. attempt[l][k] \in AttemptRow
        BY ZenonT(30) DEF TypeOK
      <4>2. QED
        BY <4>1, AnalysisSet
    <3>2. attempt' = [attempt EXCEPT ![l][k] = row]
      BY <2>2
    <3> HIDE DEF row
    <3>3. QED
      BY <3>1, <3>2, SetAttempt DEF TypeOK
  <2>3. QED
    BY <2>1, <2>2
<1>3. dncList' \subseteq Phones
  BY PhoneType DEF TypeOK
<1>4. TypeOK' /\ WireHasOutcomes'
  BY <1>1, <1>2, <1>3 DEF TypeOK, WireHasOutcomes
<1>5. Quiet
  BY <1>1, <1>2 DEF Quiet, TypeOK
<1>6. QED
  BY <1>4, <1>5, QuietKeepsInvariants

LEMMA ColumnSet ==
    ASSUME NEW r \in LeadRow, NEW s \in Status
    PROVE  /\ [r EXCEPT !.status = s] \in LeadRow
           /\ [r EXCEPT !.status = s].status = s
           /\ [r EXCEPT !.status = s].count = r.count
           /\ [r EXCEPT !.status = s, !.due = TRUE] \in LeadRow
           /\ [r EXCEPT !.status = s, !.due = TRUE].status = s
           /\ [r EXCEPT !.status = s, !.due = TRUE].count = r.count
BY DEF LeadRow

LEMMA ClockSet ==
    ASSUME NEW r \in LeadRow, NEW b \in BOOLEAN
    PROVE  /\ [r EXCEPT !.due = b] \in LeadRow
           /\ [r EXCEPT !.due = b].status = r.status
           /\ [r EXCEPT !.due = b].count = r.count
           /\ [r EXCEPT !.lapsed = b] \in LeadRow
           /\ [r EXCEPT !.lapsed = b].status = r.status
           /\ [r EXCEPT !.lapsed = b].count = r.count
BY DEF LeadRow

LEMMA LeadRowType == ASSUME TypeOK, NEW l \in Leads PROVE lead[l] \in LeadRow
BY DEF TypeOK

LEMMA CommitAnalysisKeeps ==
    ASSUME IInv, NEW l \in Leads, NEW k \in 1..RowBound, NEW verdict,
           CommitAnalysis(l, k, verdict),
           attempt' = [attempt EXCEPT ![l][k].analysis = "approved"],
           UNCHANGED <<keys, active, tenantActive, work, outside, crashes>>
    PROVE  IInv'
<1> DEFINE r == Routed(lead[l], k, verdict)
<1>1. /\ r \in LeadRow
      /\ r.status = "calling" => lead[l].status = "calling"
      /\ r.count = lead[l].count
  BY LeadRowType, RoutedType DEF IInv
<1>2. /\ lead' = [lead EXCEPT ![l] = r]
      /\ dncList' = dncList \/ dncList' = dncList \cup {PhoneOf[l]}
  BY DEF CommitAnalysis
<1> HIDE DEF r
<1>3. QED
  BY <1>1, <1>2, OneLeadQuiet

LEMMA QualifyCallKeeps ==
    ASSUME IInv, NEW l \in Leads, NEW k \in 1..RowBound, NEW verdict,
           QualifyCall(l, k, verdict)
    PROVE  IInv'
<1>1. CASE verdict = "hold"
  <2> DEFINE r == [lead[l] EXCEPT !.status = "pending_review"]
  <2>1. r \in LeadRow /\ r.status = "pending_review" /\ r.count = lead[l].count
    BY LeadRowType, ColumnSet, ZenonT(30) DEF IInv, Status
  <2>2. /\ lead' = [lead EXCEPT ![l] = r] /\ dncList' = dncList
        /\ attempt' = [attempt EXCEPT ![l][k].analysis = "held"]
        /\ UNCHANGED <<keys, active, tenantActive, work, outside, crashes>>
    BY <1>1 DEF QualifyCall
  <2> HIDE DEF r
  <2>3. QED
    BY <2>1, <2>2, OneLeadQuiet
<1>2. CASE verdict # "hold"
  BY <1>2, CommitAnalysisKeeps DEF QualifyCall
<1>3. QED
  BY <1>1, <1>2

LEMMA RejectReviewKeeps ==
    ASSUME IInv, NEW l \in Leads, NEW k \in 1..RowBound, RejectReview(l, k)
    PROVE  IInv'
<1> DEFINE d == DecideRetry("no_answer", k, FALSE)
           r == AfterDecision(lead[l], d)
<1>1. r \in LeadRow /\ r.status # "calling" /\ r.count = lead[l].count
  BY LeadRowType, AfterDecisionType DEF IInv
<1>2. /\ lead' = [lead EXCEPT ![l] = r] /\ dncList' = dncList
      /\ attempt' = [attempt EXCEPT ![l][k].analysis = "rejected"]
      /\ UNCHANGED <<keys, active, tenantActive, work, outside, crashes>>
  BY DEF RejectReview
<1> HIDE DEF r
<1>3. QED
  BY <1>1, <1>2, OneLeadQuiet

LEMMA IntakeKeeps ==
    ASSUME IInv, NEW l \in Leads,
           QuarantineLead(l) \/ \E barred : IngestLead(l, barred)
    PROVE  IInv'
<1> DEFINE q == [lead[l] EXCEPT !.status = "queued"]
           s == [lead[l] EXCEPT !.status = "suppressed", !.due = TRUE]
           n == [lead[l] EXCEPT !.status = "quarantined", !.due = TRUE]
<1>1. \A r \in {q, s, n} : r \in LeadRow /\ r.status # "calling" /\ r.count = lead[l].count
  <2>0. lead[l] \in LeadRow /\ {"queued", "suppressed", "quarantined"} \subseteq Status
    BY LeadRowType DEF IInv, Status
  <2>1. q \in LeadRow /\ q.status = "queued" /\ q.count = lead[l].count
    BY <2>0, ColumnSet
  <2>2. s \in LeadRow /\ s.status = "suppressed" /\ s.count = lead[l].count
    BY <2>0, ColumnSet
  <2>3. n \in LeadRow /\ n.status = "quarantined" /\ n.count = lead[l].count
    BY <2>0, ColumnSet
  <2> HIDE DEF q, s, n
  <2>4. QED
    BY <2>1, <2>2, <2>3
<1>2. \E r \in {q, s, n} : lead' = [lead EXCEPT ![l] = r]
  BY DEF QuarantineLead, IngestLead
<1>3. UNCHANGED <<attempt, dncList, keys, active, tenantActive, work, outside, crashes>>
  BY DEF QuarantineLead, IngestLead
<1> HIDE DEF q, s, n
<1>4. QED
  BY <1>1, <1>2, <1>3, OneLeadQuiet

LEMMA RescheduleKeeps ==
    ASSUME IInv, NEW l \in Leads, RescheduleCallback(l)
    PROVE  IInv'
<1> DEFINE r == Moved(lead[l], "queued", FALSE)
<1>1. r \in LeadRow /\ r.status = "queued" /\ r.count = lead[l].count
  BY LeadRowType DEF IInv, Moved, LeadRow, Status
<1>2. /\ lead' = [lead EXCEPT ![l] = r]
      /\ UNCHANGED <<attempt, dncList, keys, active, tenantActive, work, outside, crashes>>
  BY DEF RescheduleCallback
<1> HIDE DEF r
<1>3. QED
  BY <1>1, <1>2, OneLeadQuiet

LEMMA TimeKeeps ==
    ASSUME IInv, NEW l \in Leads, LockLapses(l) \/ FallsDue(l)
    PROVE  IInv'
<1> DEFINE d == [lead[l] EXCEPT !.due = TRUE]
           x == [lead[l] EXCEPT !.lapsed = TRUE]
<1>1. \A r \in {d, x} : r \in LeadRow /\ r.status = lead[l].status /\ r.count = lead[l].count
  BY LeadRowType, ClockSet, ZenonT(30) DEF IInv
<1>2. \E r \in {d, x} : lead' = [lead EXCEPT ![l] = r]
  BY DEF LockLapses, FallsDue
<1>3. UNCHANGED <<attempt, dncList, keys, active, tenantActive, work, outside, crashes>>
  BY DEF LockLapses, FallsDue
<1> HIDE DEF d, x
<1>4. QED
  BY <1>1, <1>2, <1>3, OneLeadQuiet

(* A whole queue at once: put off, or suppressed with its tenant.            *)
LEMMA QueueKeeps ==
    ASSUME IInv, Suspend \/ \E c \in Campaigns : DeferQueue(c)
    PROVE  IInv'
<1>1. \A l \in Leads :
        /\ lead'[l] \in LeadRow
        /\ lead'[l].count = lead[l].count
        /\ lead'[l].status = "calling" => lead[l].status = "calling"
  <2>1. SUFFICES ASSUME NEW l \in Leads
                 PROVE  /\ lead'[l] \in LeadRow
                        /\ lead'[l].count = lead[l].count
                        /\ lead'[l].status = "calling" => lead[l].status = "calling"
    OBVIOUS
  <2>2. lead[l] \in LeadRow
    BY LeadRowType DEF IInv
  <2> DEFINE m == Moved(lead[l], "suppressed", TRUE)
             d == [lead[l] EXCEPT !.due = FALSE]
  <2>3. m \in LeadRow /\ m.status = "suppressed" /\ m.count = lead[l].count
    BY <2>2 DEF Moved, LeadRow, Status
  <2>4. d \in LeadRow /\ d.status = lead[l].status /\ d.count = lead[l].count
    BY <2>2, ClockSet
  <2>5. lead'[l] \in {lead[l], m, d}
    BY DEF Suspend, DeferQueue
  <2> HIDE DEF m, d
  <2>6. QED
    BY <2>2, <2>3, <2>4, <2>5
<1>2. lead' \in [Leads -> LeadRow]
  <2>1. CASE Suspend
    BY <1>1, <2>1 DEF Suspend
  <2>2. CASE \E c \in Campaigns : DeferQueue(c)
    BY <1>1, <2>2 DEF DeferQueue
  <2>3. QED
    BY <2>1, <2>2
<1>3. UNCHANGED <<attempt, dncList, keys, work, outside, crashes>>
  BY DEF Suspend, DeferQueue
<1>4. active' \in [Campaigns -> BOOLEAN] /\ tenantActive' \in BOOLEAN
  BY DEF Suspend, DeferQueue, IInv, TypeOK
<1>5. TypeOK' /\ WireHasOutcomes'
  BY <1>2, <1>3, <1>4 DEF IInv, TypeOK, WireHasOutcomes, outside
<1>6. Quiet
  <2>1. attempt \in [Leads -> [1..RowBound -> AttemptRow]]
    BY DEF IInv, TypeOK
  <2>2. QED
    BY <1>1, <1>2, <1>3, <2>1 DEF Quiet
<1>7. QED
  BY <1>5, <1>6, QuietKeepsInvariants

(* Everything that writes neither the leads nor the attempts table.          *)
LEMMA ElsewhereKeeps ==
    ASSUME IInv,
           \/ \E p \in Phones : ImportDnc(p)
           \/ \E c \in Campaigns, on \in BOOLEAN : SetCampaignActive(c, on)
           \/ Resume
           \/ \E id \in Calls : LoseWebhook(id) \/ IgnoreDuplicate(id) \/ IgnoreUnknown(id)
           \/ \E id \in Calls, r \in Results : CallEnds(id, r)
           \/ UNCHANGED vars
    PROVE  IInv'
<1> USE DEF tables, outside, vars
<1>1. UNCHANGED <<lead, attempt, work>>
  BY DEF ImportDnc, SetCampaignActive, Resume, LoseWebhook, IgnoreDuplicate,
         IgnoreUnknown, CallEnds
<1>2. TypeOK' /\ WireHasOutcomes'
  <2>1. CASE \E p \in Phones : ImportDnc(p)
    BY <2>1 DEF ImportDnc, IInv, TypeOK, WireHasOutcomes
  <2>2. CASE \E c \in Campaigns, on \in BOOLEAN : SetCampaignActive(c, on)
    BY <2>2 DEF SetCampaignActive, IInv, TypeOK, WireHasOutcomes
  <2>3. CASE Resume
    BY <2>3 DEF Resume, IInv, TypeOK, WireHasOutcomes
  <2>4. CASE \E id \in Calls : LoseWebhook(id) \/ IgnoreDuplicate(id) \/ IgnoreUnknown(id)
    BY <2>4 DEF LoseWebhook, IgnoreDuplicate, IgnoreUnknown, Answer, IInv, TypeOK,
                WireHasOutcomes
  <2>5. ASSUME NEW id \in Calls, NEW r \in Results, CallEnds(id, r)
        PROVE  TypeOK' /\ WireHasOutcomes'
    <3> DEFINE e == [call[id] EXCEPT !.state = "ended", !.status = r.status,
                                     !.content = r.content]
    <3>1. call[id] \in CallRow /\ r.status \in Terminal /\ r.content \in Contents
      BY ConstantsAssumption DEF ConstantsAssumption, IInv, TypeOK
    <3>2. e \in CallRow /\ e.status \in Terminal
      BY <3>1 DEF CallRow
    <3>3. call' = [call EXCEPT ![id] = e] /\ wire' = wire \cup {id}
      BY <2>5 DEF CallEnds
    <3>4. UNCHANGED <<tables, work, crashes>>
      BY <2>5 DEF CallEnds
    <3> HIDE DEF e
    <3>5. QED
      BY <3>2, <3>3, <3>4 DEF IInv, TypeOK, WireHasOutcomes
  <2>6. CASE UNCHANGED vars
    BY <2>6 DEF IInv, TypeOK, WireHasOutcomes
  <2>7. QED
    BY <2>1, <2>2, <2>3, <2>4, <2>5, <2>6
<1>3. Quiet
  BY <1>1 DEF Quiet, IInv, TypeOK
<1>4. QED
  BY <1>2, <1>3, QuietKeepsInvariants

-----------------------------------------------------------------------------
(* The recording of a terminal outcome                                       *)

LEMMA OutcomeRow ==
    ASSUME NEW a \in AttemptRow, NEW s \in Terminal, NEW h \in BOOLEAN
    PROVE  LET row == [a EXCEPT !.status = s, !.heard = h]
           IN  row \in AttemptRow /\ row.status = s /\ row.status \notin {"none", "open"}
BY DEF AttemptRow, Terminal

LEMMA RecordKeeps ==
    ASSUME IInv, NEW l \in Leads, NEW k \in 1..RowBound, NEW id \in Calls,
           RecordOutcome(l, k, id),
           NEW r \in LeadRow, r.count = lead[l].count, r.status # "calling",
           lead' = [lead EXCEPT ![l] = r],
           dncList' = dncList \/ dncList' = dncList \cup {PhoneOf[l]}
    PROVE  IInv'
<1> DEFINE row == [attempt[l][k] EXCEPT !.status = call[id].status,
                                        !.heard = (call[id].content = "transcript")]
<1>1. row \in AttemptRow /\ row.status \notin {"none", "open"}
  <2>1. attempt[l][k] \in AttemptRow /\ call[id].status \in Terminal
    BY DEF IInv, TypeOK, WireHasOutcomes, RecordOutcome, Answer
  <2>2. (call[id].content = "transcript") \in BOOLEAN
    OBVIOUS
  <2>3. QED
    BY <2>1, <2>2, OutcomeRow
<1>2. attempt' = [attempt EXCEPT ![l][k] = row]
  BY DEF RecordOutcome
<1> HIDE DEF row
<1>3. /\ attempt' \in [Leads -> [1..RowBound -> AttemptRow]]
      /\ \A m \in Leads, j \in 1..RowBound :
           attempt'[m][j] = IF m = l /\ j = k THEN row ELSE attempt[m][j]
  BY <1>1, <1>2, SetAttempt DEF IInv, TypeOK
<1>4. lead' \in [Leads -> LeadRow] /\ \A m \in Leads : lead'[m] = IF m = l THEN r ELSE lead[m]
  BY DEF IInv, TypeOK
<1>5. /\ id \in wire /\ wire' \subseteq wire
      /\ keys' = keys \cup {id}
      /\ attempt[l][k].status = "open"
      /\ UNCHANGED <<active, tenantActive, work, call, crashes>>
  BY DEF RecordOutcome, Answer
<1>6. TypeOK' /\ WireHasOutcomes'
  <2>1. dncList' \subseteq Phones
    BY PhoneType DEF IInv, TypeOK
  <2>2. QED
    BY <1>3, <1>4, <1>5, <2>1 DEF IInv, TypeOK, WireHasOutcomes
<1>7. ExclusiveClaim'
  BY <1>5 DEF IInv, ExclusiveClaim
<1>8. HeldInBudget'
  BY <1>4, <1>5 DEF IInv, HeldInBudget
<1>9. AttemptLedger'
  <2>1. \A m \in Leads : lead'[m].count = lead[m].count
    BY <1>4
  <2>2. \A m \in Leads, j \in 1..RowBound :
           attempt'[m][j].status = "none" <=> attempt[m][j].status = "none"
    BY <1>1, <1>3, <1>5
  <2>3. QED
    BY <2>1, <2>2 DEF IInv, AttemptLedger
<1>10. CallingIsInFlight'
  <2> SUFFICES ASSUME NEW m \in Leads, lead'[m].status = "calling"
               PROVE  lead'[m].count > 0 /\ attempt'[m][lead'[m].count].status = "open"
    BY DEF CallingIsInFlight
  <2>1. m # l /\ lead'[m] = lead[m]
    BY <1>4
  <2>2. lead[m].count > 0 /\ attempt[m][lead[m].count].status = "open"
    BY <2>1 DEF IInv, CallingIsInFlight
  <2>3. lead[m].count \in 1..RowBound
    BY <2>2, LeadRowType DEF IInv, LeadRow
  <2>4. QED
    BY <1>3, <2>1, <2>2, <2>3
<1>11. QED
  BY <1>6, <1>7, <1>8, <1>9, <1>10 DEF IInv

LEMMA OutcomesKeep ==
    ASSUME IInv, NEW l \in Leads, NEW k \in 1..RowBound, NEW id \in Calls,
           RecordSuppression(l, k, id) \/ RecordConversation(l, k, id)
             \/ RecordNoConversation(l, k, id)
    PROVE  IInv'
<1>0. lead[l] \in LeadRow
  BY LeadRowType DEF IInv
<1>1. CASE RecordSuppression(l, k, id)
  <2> DEFINE r == Suppressed(lead[l])
  <2>1. r \in LeadRow /\ r.status # "calling" /\ r.count = lead[l].count
    BY <1>0, SuppressedType
  <2>2. lead' = [lead EXCEPT ![l] = r] /\ dncList' = dncList \cup {PhoneOf[l]}
    BY <1>1 DEF RecordSuppression
  <2>3. RecordOutcome(l, k, id)
    BY <1>1 DEF RecordSuppression
  <2> HIDE DEF r
  <2>4. QED
    BY <2>1, <2>2, <2>3, RecordKeeps
<1>2. CASE RecordConversation(l, k, id)
  <2> DEFINE r == [lead[l] EXCEPT !.status = "awaiting_analysis"]
  <2>1. r \in LeadRow /\ r.status # "calling" /\ r.count = lead[l].count
    BY <1>0, ColumnSet DEF Status
  <2>2. lead' = [lead EXCEPT ![l] = r] /\ dncList' = dncList
    BY <1>2 DEF RecordConversation
  <2>3. RecordOutcome(l, k, id)
    BY <1>2 DEF RecordConversation
  <2> HIDE DEF r
  <2>4. QED
    BY <2>1, <2>2, <2>3, RecordKeeps
<1>3. CASE RecordNoConversation(l, k, id)
  <2> DEFINE d == DecideRetry(call[id].status, k, FALSE)
             r == AfterDecision(lead[l], d)
  <2>1. r \in LeadRow /\ r.status # "calling" /\ r.count = lead[l].count
    BY <1>0, AfterDecisionType
  <2>2. lead' = [lead EXCEPT ![l] = r] /\ dncList' = dncList
    BY <1>3 DEF RecordNoConversation
  <2>3. RecordOutcome(l, k, id)
    BY <1>3 DEF RecordNoConversation
  <2> HIDE DEF r
  <2>4. QED
    BY <2>1, <2>2, <2>3, RecordKeeps
<1>4. QED
  BY <1>1, <1>2, <1>3

LEMMA UnconnectedKeeps ==
    ASSUME IInv, NEW l \in Leads, NEW k \in 1..RowBound, QualifyUnconnected(l, k)
    PROVE  IInv'
<1> DEFINE verdict == IF attempt[l][k].status \in {"no_answer", "busy"}
                        THEN "no_conversation" ELSE "qualified"
<1>1. /\ CommitAnalysis(l, k, verdict)
      /\ attempt' = [attempt EXCEPT ![l][k].analysis = "approved"]
      /\ UNCHANGED <<keys, active, tenantActive, work, outside, crashes>>
  BY DEF QualifyUnconnected
<1> HIDE DEF verdict
<1>2. QED
  BY <1>1, CommitAnalysisKeeps

LEMMA ConfirmReviewKeeps ==
    ASSUME IInv, NEW l \in Leads, NEW k \in 1..RowBound, NEW verdict,
           ConfirmReview(l, k, verdict)
    PROVE  IInv'
BY CommitAnalysisKeeps DEF ConfirmReview

-----------------------------------------------------------------------------
(* The calling tick                                                          *)

(* Steps of an open tick write no table.                                     *)
LEMMA OpenTickKeeps ==
    ASSUME IInv, UNCHANGED tables, TypeOK', WireHasOutcomes', ExclusiveClaim', HeldInBudget'
    PROVE  IInv'
<1>1. AttemptLedger' /\ CallingIsInFlight'
  BY DEF IInv, AttemptLedger, CallingIsInFlight, tables
<1>2. QED
  BY <1>1 DEF IInv

LEMMA ClaimKeeps ==
    ASSUME IInv, NEW w \in Workers, NEW c, NEW S, NEW barred, ClaimLeads(w, c, S, barred)
    PROVE  IInv'
<1> DEFINE h == [l \in Leads |-> Hold(l, S, barred, Stale(c))]
<1>1. /\ work' = [work EXCEPT ![w] = h]
      /\ UNCHANGED <<tables, outside, crashes>>
  BY DEF ClaimLeads
<1>2. ASSUME NEW l \in Leads
      PROVE  /\ h[l] \in Holding /\ h[l].stage \notin Placed
             /\ h[l].stage = "claimed" => lead[l].count < MaxAttempts
             /\ h[l].stage # "free" => ~Locked(l)
  <2>1. l \in S \/ l \in Stale(c) => ~Locked(l)
    BY DEF ClaimLeads, Candidates
  <2>2. QED
    BY <2>1, HoldType
<1> HIDE DEF h
<1>3. h \in [Leads -> Holding]
  BY <1>2 DEF h
<1>4. work' \in [Workers -> [Leads -> Holding]]
  BY <1>1, <1>3 DEF IInv, TypeOK
<1>5. \A v \in Workers : work'[v] = IF v = w THEN h ELSE work[v]
  BY <1>1 DEF IInv, TypeOK
<1>6. TypeOK' /\ WireHasOutcomes'
  BY <1>1, <1>4 DEF IInv, TypeOK, WireHasOutcomes, tables, outside
<1>7. ExclusiveClaim'
  BY <1>2, <1>5 DEF IInv, ExclusiveClaim, Locked
<1>8. HeldInBudget'
  BY <1>1, <1>2, <1>5 DEF IInv, HeldInBudget, tables
<1>9. QED
  BY <1>1, <1>6, <1>7, <1>8, OpenTickKeeps

LEMMA DialledKeeps ==
    ASSUME IInv, NEW w \in Workers, NEW l \in Leads,
           NEW stage \in Placed, NEW id \in Calls \cup {NoCall},
           Dialled(w, l, stage, id),
           UNCHANGED <<tables, wire, crashes>>,
           call' \in [Calls -> CallRow],
           \A j \in Calls : call'[j].status = call[j].status
    PROVE  IInv'
<1> DEFINE h == [stage |-> stage, call |-> id]
<1>1. h \in Holding /\ h.stage = stage
  BY DEF Holding, Stage
<1>2. work' = [work EXCEPT ![w][l] = h] /\ work[w][l].stage = "claimed"
  BY DEF Dialled
<1> HIDE DEF h
<1>3. work' \in [Workers -> [Leads -> Holding]]
  BY <1>1, <1>2 DEF IInv, TypeOK
<1>4. \A v \in Workers, m \in Leads :
        work'[v][m] = IF v = w /\ m = l THEN h ELSE work[v][m]
  BY <1>2 DEF IInv, TypeOK
<1>5. TypeOK'
  BY <1>3 DEF IInv, TypeOK, tables
<1>6. WireHasOutcomes'
  BY DEF IInv, TypeOK, WireHasOutcomes
<1>7. ExclusiveClaim'
  BY <1>2, <1>4 DEF IInv, ExclusiveClaim
<1>8. HeldInBudget'
  BY <1>1, <1>2, <1>4 DEF IInv, HeldInBudget, tables
<1>9. QED
  BY <1>5, <1>6, <1>7, <1>8, OpenTickKeeps

LEMMA AcceptedCall ==
    ASSUME IInv, NEW l \in Leads, NEW id \in Calls, ProviderAccepts(l, id)
    PROVE  /\ call' \in [Calls -> CallRow]
           /\ \A j \in Calls : call'[j].status = call[j].status
<1> DEFINE e == [call[id] EXCEPT !.lead = l, !.state = "live"]
<1>1. call' = [call EXCEPT ![id] = e]
  BY DEF ProviderAccepts
<1>2. call \in [Calls -> CallRow]
  BY DEF IInv, TypeOK
<1>3. e \in CallRow /\ e.status = call[id].status
  BY <1>2 DEF CallRow
<1> HIDE DEF e
<1>4. QED
  BY <1>1, <1>2, <1>3

LEMMA DialKeeps ==
    ASSUME IInv, NEW w \in Workers, NEW l \in Leads, Dial(w, l)
    PROVE  IInv'
<1>0. {"initiated", "refused", "rejected"} \subseteq Placed
  BY DEF Placed
<1>1. ASSUME NEW id \in Calls, PlaceCall(w, l, id)
      PROVE  IInv'
  BY <1>0, <1>1, AcceptedCall, DialledKeeps DEF PlaceCall
<1>2. ASSUME NEW id \in Calls, PlaceCallUnheard(w, l, id)
      PROVE  IInv'
  BY <1>0, <1>2, AcceptedCall, DialledKeeps DEF PlaceCallUnheard
<1>3. ASSUME NEW stage \in {"refused", "rejected"}, RefuseCall(w, l, stage)
      PROVE  IInv'
  <2>1. /\ Dialled(w, l, stage, NoCall)
        /\ UNCHANGED <<tables, wire, crashes>> /\ call' = call
    BY <1>3 DEF RefuseCall, outside
  <2>2. call \in [Calls -> CallRow] /\ stage \in Placed
    BY <1>0 DEF IInv, TypeOK
  <2>3. QED
    BY <2>1, <2>2, DialledKeeps
<1>4. QED
  BY <1>1, <1>2, <1>3 DEF Dial

(* Both ends of a tick give its leads back.                                  *)
LEMMA ReleasedTick ==
    ASSUME IInv, NEW w \in Workers,
           work' = [work EXCEPT ![w] = [l \in Leads |-> Nothing]]
    PROVE  /\ work' \in [Workers -> [Leads -> Holding]]
           /\ ExclusiveClaim'
           /\ \A v \in Workers, l \in Leads :
                work'[v][l].stage # "free" => v # w /\ work'[v][l] = work[v][l]
<1>1. Nothing \in Holding /\ Nothing.stage = "free"
  BY DEF Nothing, Holding, Stage
<1>2. /\ work' \in [Workers -> [Leads -> Holding]]
      /\ \A v \in Workers, l \in Leads :
           work'[v][l] = IF v = w THEN Nothing ELSE work[v][l]
  BY <1>1 DEF IInv, TypeOK
<1>3. QED
  BY <1>1, <1>2 DEF IInv, ExclusiveClaim

LEMMA CrashKeeps ==
    ASSUME IInv, NEW w \in Workers, Crash(w)
    PROVE  IInv'
<1>1. /\ work' = [work EXCEPT ![w] = [l \in Leads |-> Nothing]]
      /\ crashes < MaxCrashes /\ crashes' = crashes + 1
      /\ UNCHANGED <<tables, outside>>
  BY DEF Crash
<1>2. crashes' \in 0..MaxCrashes
  BY <1>1, ConstantsAssumption DEF ConstantsAssumption, IInv, TypeOK
<1>3. TypeOK' /\ WireHasOutcomes'
  BY <1>1, <1>2, ReleasedTick DEF IInv, TypeOK, WireHasOutcomes, tables, outside
<1>4. HeldInBudget'
  <2>1. "free" \notin {"claimed"} \cup Placed
    BY DEF Placed
  <2>2. QED
    BY <1>1, <2>1, ReleasedTick DEF IInv, HeldInBudget, tables
<1>5. QED
  BY <1>1, <1>3, <1>4, ReleasedTick, OpenTickKeeps

(* One lead's part of a commit: the row left behind, and the attempt         *)
(* numbered count + 1 if the tick placed, or failed to place, its call.      *)
LEMMA CommitLead ==
    ASSUME IInv, NEW w \in Workers, Commit(w), NEW l \in Leads
    PROVE  LET stage == work[w][l].stage
               n     == lead[l].count + 1
           IN  /\ lead'[l] = LeftBehind(lead[l], stage)
               /\ lead'[l] \in LeadRow
               /\ lead'[l].count = IF stage \in Placed THEN n ELSE lead[l].count
               /\ stage \in Placed => n \in 1..RowBound /\ n <= MaxAttempts
               /\ attempt'[l] \in [1..RowBound -> AttemptRow]
               /\ \A k \in 1..RowBound :
                    attempt'[l][k] = IF stage \in Placed /\ k = n
                                       THEN NewAttempt(work[w][l]) ELSE attempt[l][k]
<1> DEFINE stage == work[w][l].stage
           n     == lead[l].count + 1
<1>1. /\ work[w][l] \in Holding /\ stage \in Stage
      /\ lead[l] \in LeadRow
      /\ attempt[l] \in [1..RowBound -> AttemptRow]
  BY DEF IInv, TypeOK, Holding
<1>2. stage \in Placed => lead[l].count < MaxAttempts
  BY DEF IInv, HeldInBudget
<1>3. stage \in Placed => n \in 1..RowBound /\ n <= MaxAttempts
  BY <1>1, <1>2, BoundsAssumption DEF LeadRow
<1>4. lead'[l] = LeftBehind(lead[l], stage)
  BY DEF Commit
<1>5. /\ lead'[l] \in LeadRow
      /\ lead'[l].count = IF stage \in Placed THEN n ELSE lead[l].count
  BY <1>1, <1>2, <1>4, LeftBehindType
<1>6. attempt'[l] = IF stage \in Placed
                      THEN [attempt[l] EXCEPT ![n] = NewAttempt(work[w][l])]
                      ELSE attempt[l]
  BY DEF Commit
<1>7. NewAttempt(work[w][l]) \in AttemptRow
  BY <1>1, NewAttemptType
<1> HIDE DEF stage, n
<1>8. /\ attempt'[l] \in [1..RowBound -> AttemptRow]
      /\ \A k \in 1..RowBound :
           attempt'[l][k] = IF stage \in Placed /\ k = n
                              THEN NewAttempt(work[w][l]) ELSE attempt[l][k]
  BY <1>1, <1>3, <1>6, <1>7
<1>9. QED
  BY <1>3, <1>4, <1>5, <1>8 DEF stage, n

LEMMA CommitKeeps ==
    ASSUME IInv, NEW w \in Workers, Commit(w)
    PROVE  IInv'
<1>1. /\ work' = [work EXCEPT ![w] = [l \in Leads |-> Nothing]]
      /\ UNCHANGED <<dncList, keys, active, tenantActive, outside, crashes>>
  BY DEF Commit
<1>2. TypeOK' /\ WireHasOutcomes'
  <2>1. lead' \in [Leads -> LeadRow]
    <3>1. \A l \in Leads : LeftBehind(lead[l], work[w][l].stage) \in LeadRow
      BY CommitLead
    <3>2. QED
      BY <3>1 DEF Commit
  <2>2. attempt' \in [Leads -> [1..RowBound -> AttemptRow]]
    <3>1. \A l \in Leads : attempt'[l] \in [1..RowBound -> AttemptRow]
      BY CommitLead
    <3>2. attempt' = [l \in Leads |-> attempt'[l]]
      BY DEF Commit
    <3>3. QED
      BY <3>1, <3>2
  <2>3. QED
    BY <1>1, <2>1, <2>2, ReleasedTick DEF IInv, TypeOK, WireHasOutcomes, outside
<1>3. AttemptLedger'
  <2> SUFFICES ASSUME NEW l \in Leads
               PROVE  /\ lead'[l].count <= MaxAttempts
                      /\ \A k \in 1..RowBound :
                           (attempt'[l][k].status # "none") <=> (k <= lead'[l].count)
    BY DEF AttemptLedger
  <2>1. /\ lead[l].count <= MaxAttempts
        /\ \A k \in 1..RowBound : (attempt[l][k].status # "none") <=> (k <= lead[l].count)
    BY DEF IInv, AttemptLedger
  <2>2. lead[l].count \in Nat
    BY LeadRowType, BoundsAssumption DEF IInv, LeadRow
  <2>3. CASE work[w][l].stage \in Placed
    <3>1. NewAttempt(work[w][l]).status # "none"
      BY NewAttemptType DEF IInv, TypeOK
    <3>2. /\ lead'[l].count = lead[l].count + 1
          /\ lead[l].count + 1 <= MaxAttempts
          /\ \A k \in 1..RowBound :
               attempt'[l][k] = IF k = lead[l].count + 1
                                  THEN NewAttempt(work[w][l]) ELSE attempt[l][k]
      BY <2>3, CommitLead
    <3>3. QED
      BY <2>1, <2>2, <3>1, <3>2
  <2>4. CASE work[w][l].stage \notin Placed
    BY <2>1, <2>4, CommitLead
  <2>5. QED
    BY <2>3, <2>4
<1>4. HeldInBudget'
  <2> SUFFICES ASSUME NEW v \in Workers, NEW l \in Leads,
                      work'[v][l].stage \in {"claimed"} \cup Placed
               PROVE  lead'[l].count < MaxAttempts
    BY DEF HeldInBudget
  <2>1. v # w /\ work'[v][l] = work[v][l] /\ work[v][l].stage # "free"
    BY <1>1, ReleasedTick DEF Placed
  <2>2. work[w][l].stage = "free"
    BY <2>1 DEF IInv, ExclusiveClaim
  <2>3. lead'[l].count = lead[l].count
    BY <2>2, CommitLead DEF Placed
  <2>4. QED
    BY <2>1, <2>3 DEF IInv, HeldInBudget
<1>5. CallingIsInFlight'
  <2> SUFFICES ASSUME NEW l \in Leads, lead'[l].status = "calling"
               PROVE  lead'[l].count > 0 /\ attempt'[l][lead'[l].count].status = "open"
    BY DEF CallingIsInFlight
  <2>1. /\ work[w][l] \in Holding /\ work[w][l].stage \in Stage
        /\ lead[l] \in LeadRow
        /\ work[w][l].stage \in Placed => lead[l].count < MaxAttempts
    BY DEF IInv, TypeOK, Holding, HeldInBudget
  <2>2. \/ work[w][l].stage = "initiated"
        \/ work[w][l].stage \notin Placed /\ lead[l].status = "calling"
    BY <2>1, CommitLead, LeftBehindType
  <2>3. CASE work[w][l].stage = "initiated"
    <3>1. work[w][l].stage \in Placed /\ NewAttempt(work[w][l]).status = "open"
      BY <2>1, <2>3, NewAttemptType DEF Placed
    <3>2. /\ lead'[l].count = lead[l].count + 1
          /\ lead[l].count + 1 \in 1..RowBound
          /\ attempt'[l][lead[l].count + 1] = NewAttempt(work[w][l])
      BY <3>1, CommitLead
    <3>3. QED
      BY <3>1, <3>2
  <2>4. CASE work[w][l].stage \notin Placed /\ lead[l].status = "calling"
    <3>1. lead[l].count > 0 /\ attempt[l][lead[l].count].status = "open"
      BY <2>4 DEF IInv, CallingIsInFlight
    <3>2. lead[l].count \in 1..RowBound
      BY <2>1, <3>1 DEF LeadRow
    <3>3. lead'[l].count = lead[l].count /\ attempt'[l][lead[l].count] = attempt[l][lead[l].count]
      BY <2>4, <3>2, CommitLead
    <3>4. QED
      BY <3>1, <3>3
  <2>5. QED
    BY <2>2, <2>3, <2>4
<1>6. QED
  BY <1>1, <1>2, <1>3, <1>4, <1>5, ReleasedTick DEF IInv

-----------------------------------------------------------------------------
(* The theorems                                                              *)

LEMMA InitEstablishes == Init => IInv
<1> SUFFICES ASSUME Init PROVE IInv
  OBVIOUS
<1>1. TypeOK
  <2>1. [status |-> "absent", dnc |-> FALSE, due |-> TRUE, lapsed |-> FALSE,
         count |-> 0] \in LeadRow
    BY BoundsAssumption DEF LeadRow, Status
  <2>2. NoRow \in AttemptRow /\ Nothing \in Holding
    BY DEF NoRow, AttemptRow, Nothing, Holding, Stage
  <2>3. [lead |-> NoLead, state |-> "unused", status |-> "none", content |-> "none"]
          \in CallRow
    BY DEF CallRow, Contents
  <2>4. crashes \in 0..MaxCrashes
    BY ConstantsAssumption DEF ConstantsAssumption, Init
  <2>5. QED
    BY <2>1, <2>2, <2>3, <2>4 DEF Init, TypeOK
<1>2. \A l \in Leads : lead[l].status = "absent" /\ lead[l].count = 0
  BY DEF Init
<1>3. \A l \in Leads, k \in 1..RowBound : attempt[l][k].status = "none"
  BY DEF Init, NoRow
<1>4. \A w \in Workers, l \in Leads : work[w][l].stage = "free"
  BY DEF Init, Nothing
<1>5. ExclusiveClaim /\ HeldInBudget
  BY <1>4 DEF ExclusiveClaim, HeldInBudget, Placed
<1>6. AttemptLedger /\ CallingIsInFlight
  BY <1>2, <1>3, BoundsAssumption DEF AttemptLedger, CallingIsInFlight
<1>7. WireHasOutcomes
  BY DEF Init, WireHasOutcomes
<1>8. QED
  BY <1>1, <1>5, <1>6, <1>7 DEF IInv

LEMMA NextKeeps == IInv /\ [Next]_vars => IInv'
<1> SUFFICES ASSUME IInv, [Next]_vars PROVE IInv'
  OBVIOUS
<1>1. ASSUME NEW w \in Workers, Claims(w) PROVE IInv'
  BY <1>1, ClaimKeeps DEF Claims
<1>2. ASSUME NEW w \in Workers, Commit(w) PROVE IInv'
  BY <1>2, CommitKeeps
<1>3. ASSUME NEW w \in Workers, Crash(w) PROVE IInv'
  BY <1>3, CrashKeeps
<1>4. ASSUME NEW w \in Workers, NEW l \in Leads, Dial(w, l) PROVE IInv'
  BY <1>4, DialKeeps
<1>5. ASSUME NEW id \in Calls, Webhook(id) PROVE IInv'
  BY <1>5, ElsewhereKeeps, OutcomesKeep DEF Webhook
<1>6. ASSUME NEW id \in Calls, LoseWebhook(id) \/ \E r \in Results : CallEnds(id, r)
      PROVE  IInv'
  BY <1>6, ElsewhereKeeps
<1>7. ASSUME NEW l \in Leads, NEW k \in 1..RowBound, Review(l, k) PROVE IInv'
  BY <1>7, UnconnectedKeeps, RejectReviewKeeps, QualifyCallKeeps, ConfirmReviewKeeps
  DEF Review
<1>8. CASE Operator
  BY <1>8, ElsewhereKeeps, QueueKeeps, IntakeKeeps, RescheduleKeeps DEF Operator
<1>9. ASSUME NEW l \in Leads, LockLapses(l) \/ FallsDue(l) PROVE IInv'
  BY <1>9, TimeKeeps
<1>10. CASE UNCHANGED vars
  BY <1>10, ElsewhereKeeps
<1>11. QED
  BY <1>1, <1>2, <1>3, <1>4, <1>5, <1>6, <1>7, <1>8, <1>9, <1>10 DEF Next

(* The inductive invariant holds in every reachable state: each of the named *)
(* parts below is one of its conjuncts.                                      *)
THEOREM Invariance == Spec => []IInv
BY InitEstablishes, NextKeeps, PTL DEF Spec

(* The tables, the open ticks and the provider's records keep their types;   *)
(* in particular no attempt number leaves the range of the row ids.          *)
THEOREM TypeCorrect == Spec => []TypeOK
<1>1. IInv => TypeOK
  BY DEF IInv
<1>2. QED
  BY <1>1, Invariance, PTL

(* claimLeads' `for update skip locked' never hands one lead to two workers. *)
THEOREM ClaimsAreExclusive == Spec => []ExclusiveClaim
<1>1. IInv => ExclusiveClaim
  BY DEF IInv
<1>2. QED
  BY <1>1, Invariance, PTL

(* The attempts of every lead are numbered 1 to call_attempt_count, and no   *)
(* interleaving of ticks, webhooks, reviews and intake passes the budget.    *)
THEOREM AttemptsStayInBudget == Spec => []AttemptLedger
<1>1. IInv => AttemptLedger
  BY DEF IInv
<1>2. QED
  BY <1>1, Invariance, PTL

(* The budget check made at claim time is still true when the tick commits.  *)
THEOREM BudgetHeldToCommit == Spec => []HeldInBudget
<1>1. IInv => HeldInBudget
  BY DEF IInv
<1>2. QED
  BY <1>1, Invariance, PTL

(* A lead shown as calling always has its latest attempt in flight.          *)
THEOREM CallingHasOpenAttempt == Spec => []CallingIsInFlight
<1>1. IInv => CallingIsInFlight
  BY DEF IInv
<1>2. QED
  BY <1>1, Invariance, PTL

-----------------------------------------------------------------------------
(* The refinement of CallLedger                                              *)

View == [l \in Leads |-> [k \in 1..RowBound |-> Shown(attempt[l][k].status)]]

SameStatuses == \A l \in Leads, k \in 1..RowBound : attempt'[l][k].status = attempt[l][k].status

LEMMA StutterLemma == SameStatuses => View' = View
BY DEF SameStatuses, View

Analyses == {"none", "held", "approved", "rejected"}

LEMMA AnalysisKeepsStatus ==
    ASSUME IInv, NEW l \in Leads, NEW k \in 1..RowBound, NEW v \in Analyses,
           attempt' = [attempt EXCEPT ![l][k].analysis = v]
    PROVE  SameStatuses
<1>1. attempt \in [Leads -> [1..RowBound -> AttemptRow]]
  BY DEF IInv, TypeOK
<1> DEFINE row == [attempt[l][k] EXCEPT !.analysis = v]
<1>2. row \in AttemptRow /\ row.status = attempt[l][k].status
  BY <1>1, AnalysisSet, ZenonT(30) DEF Analyses
<1>3. attempt' = [attempt EXCEPT ![l][k] = row]
  OBVIOUS
<1> HIDE DEF row
<1>4. QED
  BY <1>1, <1>2, <1>3, SetAttempt DEF SameStatuses

LEMMA ReviewStutters ==
    ASSUME IInv, NEW l \in Leads, NEW k \in 1..RowBound, Review(l, k)
    PROVE  SameStatuses
<1>1. \E v \in Analyses : attempt' = [attempt EXCEPT ![l][k].analysis = v]
  <2>1. CASE QualifyUnconnected(l, k)
    BY <2>1 DEF QualifyUnconnected, Analyses
  <2>2. CASE RejectReview(l, k)
    BY <2>2 DEF RejectReview, Analyses
  <2>3. ASSUME NEW verdict \in Verdicts, QualifyCall(l, k, verdict)
        PROVE  <1>1
    BY <2>3 DEF QualifyCall, Analyses
  <2>4. ASSUME NEW verdict \in Verdicts, ConfirmReview(l, k, verdict)
        PROVE  <1>1
    BY <2>4 DEF ConfirmReview, Analyses
  <2>5. QED
    BY <2>1, <2>2, <2>3, <2>4 DEF Review
<1>2. QED
  BY <1>1, AnalysisKeepsStatus

LEMMA CommitAppends ==
    ASSUME IInv, NEW w \in Workers, Commit(w)
    PROVE  \E S \in SUBSET Leads :
             \E number \in [S -> 1..MaxAttempts], state \in [S -> {"open", "closed"}] :
               Ledger!Append(S, number, state)
<1> DEFINE S      == {l \in Leads : work[w][l].stage \in Placed}
           number == [l \in S |-> lead[l].count + 1]
           state  == [l \in S |-> Shown(NewAttempt(work[w][l]).status)]
<1>1. \A l \in Leads : lead[l] \in LeadRow /\ lead[l].count \in Nat /\ work[w][l] \in Holding
  BY BoundsAssumption DEF IInv, TypeOK, LeadRow
<1>2. \A l \in S : number[l] \in 1..MaxAttempts /\ number[l] \in 1..RowBound
  <2> SUFFICES ASSUME NEW l \in S
               PROVE  lead[l].count + 1 \in 1..MaxAttempts /\ lead[l].count + 1 \in 1..RowBound
    OBVIOUS
  <2>1. QED
    BY <1>1, CommitLead
<1>3. \A l \in S : state[l] \in {"open", "closed"}
  BY <1>1, NewAttemptType DEF Shown
<1>4. \A l \in S : Ledger!NextNumber(l, number[l])
  <2> SUFFICES ASSUME NEW l \in S
               PROVE  /\ View[l][lead[l].count + 1] = "none"
                      /\ \A j \in 1..RowBound : j < lead[l].count + 1 => View[l][j] # "none"
    BY DEF Ledger!NextNumber, View
  <2>1. \A k \in 1..RowBound : (attempt[l][k].status # "none") <=> (k <= lead[l].count)
    BY DEF IInv, AttemptLedger
  <2>2. lead[l].count + 1 \in 1..RowBound
    BY <1>2
  <2>3. QED
    BY <1>1, <2>1, <2>2 DEF View, Shown
<1>5. View' = [l \in Leads |-> IF l \in S THEN [View[l] EXCEPT ![number[l]] = state[l]]
                                         ELSE View[l]]
  <2>1. ASSUME NEW l \in Leads
        PROVE  View'[l] = IF l \in S THEN [View[l] EXCEPT ![number[l]] = state[l]]
                                     ELSE View[l]
    <3>1. \A k \in 1..RowBound :
             attempt'[l][k] = IF work[w][l].stage \in Placed /\ k = lead[l].count + 1
                                THEN NewAttempt(work[w][l]) ELSE attempt[l][k]
      BY CommitLead
    <3>2. CASE l \in S
      <4>1. number[l] = lead[l].count + 1 /\ state[l] = Shown(NewAttempt(work[w][l]).status)
        BY <3>2
      <4> HIDE DEF number, state
      <4>2. View'[l] = [View[l] EXCEPT ![number[l]] = state[l]]
        BY <3>1, <3>2, <4>1, <1>2, ZenonT(30) DEF View
      <4>3. QED
        BY <3>2, <4>2
    <3>3. CASE l \notin S
      BY <3>1, <3>3 DEF View
    <3>4. QED
      BY <3>2, <3>3
  <2> HIDE DEF S, number, state
  <2>2. QED
    BY <2>1 DEF View
<1>6. Ledger!Append(S, number, state)
  BY <1>4, <1>5 DEF Ledger!Append, View
<1>7. number \in [S -> 1..MaxAttempts] /\ state \in [S -> {"open", "closed"}]
  BY <1>2, <1>3
<1>8. QED
  BY <1>6, <1>7

LEMMA RecordCloses ==
    ASSUME IInv, NEW l \in Leads, NEW k \in 1..RowBound, NEW id \in Calls,
           RecordOutcome(l, k, id)
    PROVE  k \in 1..MaxAttempts /\ Ledger!Close(l, k)
<1>1. attempt[l][k].status = "open" /\ id \in wire
  BY DEF RecordOutcome, Answer
<1>2. k \in 1..MaxAttempts
  <2>1. k <= lead[l].count /\ lead[l].count <= MaxAttempts
    BY <1>1 DEF IInv, AttemptLedger
  <2>2. lead[l].count \in Nat
    BY LeadRowType, BoundsAssumption DEF IInv, LeadRow
  <2>3. QED
    BY <2>1, <2>2, BoundsAssumption
<1>3. View[l][k] = "open"
  BY <1>1 DEF View, Shown
<1> DEFINE row == [attempt[l][k] EXCEPT !.status = call[id].status,
                                        !.heard = (call[id].content = "transcript")]
<1>4. row.status \in Terminal
  BY <1>1 DEF IInv, TypeOK, AttemptRow, WireHasOutcomes
<1>5. attempt' = [attempt EXCEPT ![l][k] = row]
  BY DEF RecordOutcome
<1>6. Shown(row.status) = "closed"
  BY <1>4 DEF Shown, Terminal
<1> HIDE DEF row
<1>7. \A m \in Leads, j \in 1..RowBound :
        attempt'[m][j] = IF m = l /\ j = k THEN row ELSE attempt[m][j]
  BY <1>5 DEF IInv, TypeOK
<1>8. View' = [View EXCEPT ![l][k] = "closed"]
  <2>1. ASSUME NEW m \in Leads, m # l PROVE View'[m] = View[m]
    BY <1>7, <2>1 DEF View
  <2>2. View'[l] = [View[l] EXCEPT ![k] = "closed"]
    BY <1>6, <1>7 DEF View
  <2>3. View' = [View EXCEPT ![l] = [View[l] EXCEPT ![k] = "closed"]]
    BY <2>1, <2>2 DEF View
  <2>4. QED
    BY <2>3
<1>9. QED
  BY <1>2, <1>3, <1>8 DEF Ledger!Close, View

LEMMA NextRefines == IInv /\ [Next]_vars => [Ledger!Next]_View
<1> SUFFICES ASSUME IInv, [Next]_vars PROVE Ledger!Next \/ View' = View
  OBVIOUS
<1>1. ASSUME NEW w \in Workers, Commit(w) PROVE Ledger!Next
  BY <1>1, CommitAppends DEF Ledger!Next
<1>2. ASSUME NEW l \in Leads, NEW k \in 1..RowBound, NEW id \in Calls,
             RecordSuppression(l, k, id) \/ RecordConversation(l, k, id)
               \/ RecordNoConversation(l, k, id)
      PROVE  Ledger!Next
  <2>1. RecordOutcome(l, k, id)
    BY <1>2 DEF RecordSuppression, RecordConversation, RecordNoConversation
  <2>2. QED
    BY <2>1, RecordCloses DEF Ledger!Next
<1>3. ASSUME NEW l \in Leads, NEW k \in 1..RowBound, Review(l, k) PROVE View' = View
  BY <1>3, ReviewStutters, StutterLemma
<1>4. ASSUME UNCHANGED attempt PROVE View' = View
  BY <1>4 DEF View
<1>5. ASSUME NEW w \in Workers, Claims(w) \/ Crash(w) \/ \E l \in Leads : Dial(w, l)
      PROVE  UNCHANGED attempt
  BY <1>5 DEF Claims, ClaimLeads, Crash, Dial, PlaceCall, PlaceCallUnheard, RefuseCall, tables
<1>6. ASSUME NEW id \in Calls, LoseWebhook(id) \/ IgnoreDuplicate(id) \/ IgnoreUnknown(id)
                                 \/ \E r \in Results : CallEnds(id, r)
      PROVE  UNCHANGED attempt
  BY <1>6 DEF LoseWebhook, IgnoreDuplicate, IgnoreUnknown, CallEnds, tables
<1>7. ASSUME Operator PROVE UNCHANGED attempt
  BY <1>7 DEF Operator, ImportDnc, DeferQueue, SetCampaignActive, Suspend, Resume, RescheduleCallback,
              QuarantineLead, IngestLead
<1>8. ASSUME NEW l \in Leads, LockLapses(l) \/ FallsDue(l) PROVE UNCHANGED attempt
  BY <1>8 DEF LockLapses, FallsDue
<1>9. ASSUME UNCHANGED vars PROVE UNCHANGED attempt
  BY <1>9 DEF vars
<1>10. QED
  BY <1>1, <1>2, <1>3, <1>4, <1>5, <1>6, <1>7, <1>8, <1>9 DEF Next, Webhook

LEMMA InitRefines == Init => Ledger!Init
<1> SUFFICES ASSUME Init PROVE Ledger!Init
  OBVIOUS
<1>1. \A l \in Leads, k \in 1..RowBound : Shown(attempt[l][k].status) = "none"
  BY DEF Init, NoRow, Shown
<1>2. QED
  BY <1>1 DEF Ledger!Init

(* The call_attempts table is an append-only ledger: rows are appended under *)
(* consecutive numbers within the budget, closed at most once, and never     *)
(* removed, renumbered or reopened.                                          *)
THEOREM QueueImplementsLedger == Spec => ImplementsLedger
<1>1. IInv /\ [Next]_vars => [Ledger!Next]_[l \in Leads |-> [k \in 1..RowBound |-> Shown(attempt[l][k].status)]]
  BY NextRefines DEF View
<1>2. QED
  BY <1>1, InitRefines, Invariance, PTL DEF Spec, ImplementsLedger, Ledger!Spec

-----------------------------------------------------------------------------
(* The concurrency caps.  claimLeads counts committed rows; what it may add   *)
(* stays in its own tick's hands until the commit, where no other tick's      *)
(* count sees it.  So the count is right only as long as no other tick is     *)
(* open, and each further tick may add once what the caps allow.              *)

(* No two ticks are open at once, whichever process runs them.               *)
OneTickAtATime == \A v, w \in Workers : ~Idle(v) /\ ~Idle(w) => v = w

(* At most m ticks are open at once.                                         *)
OpenTicks == {w \in Workers : ~Idle(w)}
AtMost(m) == IsFiniteSet(OpenTicks) /\ Cardinality(OpenTicks) <= m

(* What is in flight is within m times the caps.                             *)
WithinCapsTimes(m) ==
    /\ Cardinality(InFlight(Leads)) <= m * TenantLimit
    /\ \A c \in Campaigns : Cardinality(InFlight(LeadsOf(c))) <= m * CampaignLimit

(* What the open tick of w may still add to the rows in flight, and what all  *)
(* of them may add among the leads in X.                                      *)
Taken(w) == {l \in Leads : work[w][l].stage \in {"claimed"} \cup Placed}
Held(X)  == {l \in X : \E w \in Workers : l \in Taken(w)}

(* For the leads in X under the limit B: no tick took more than B of them,    *)
(* and what is in flight or may be is within m times B.                       *)
Fits(m, X, B) ==
    /\ Cardinality(InFlight(X)) + Cardinality(Held(X)) <= m * B
    /\ \A w \in Workers : Cardinality(Taken(w) \cap X) <= B

CapsInv(m) ==
    /\ Fits(m, Leads, TenantLimit)
    /\ \A c \in Campaigns : Fits(m, LeadsOf(c), CampaignLimit)

(* A set of at most B elements can be numbered within 1..B.                  *)
LEMMA Numbered ==
    ASSUME NEW S, IsFiniteSet(S), NEW B \in Nat, Cardinality(S) <= B
    PROVE  \E f \in [S -> 1..B] : \A x, y \in S : f[x] = f[y] => x = y
<1>1. Cardinality(S) \in Nat /\ ExistsBijection(S, 1..Cardinality(S))
  BY FS_CardinalityType, Fun_ExistsBijSymmetric
<1>2. PICK f \in Bijection(S, 1..Cardinality(S)) : TRUE
  BY <1>1, Fun_ExistsBij
<1>3. f \in [S -> 1..Cardinality(S)] /\ \A x, y \in S : f[x] = f[y] => x = y
  BY <1>2 DEF Bijection, Injection, IsInjective
<1>4. f \in [S -> 1..B]
  BY <1>1, <1>3
<1>5. QED
  BY <1>3, <1>4

(* Finitely many sets of at most B elements each cover at most so many times *)
(* B elements.                                                               *)
LEMMA CoveredBySmallSets ==
    ASSUME NEW W, IsFiniteSet(W), NEW B \in Nat, NEW T, NEW X,
           \A v \in W : IsFiniteSet(T[v]) /\ Cardinality(T[v]) <= B,
           \A x \in X : \E v \in W : x \in T[v]
    PROVE  IsFiniteSet(X) /\ Cardinality(X) <= Cardinality(W) * B
<1> DEFINE Number(v) == CHOOSE f \in [T[v] -> 1..B] : \A x, y \in T[v] : f[x] = f[y] => x = y
           owner(x) == CHOOSE v \in W : x \in T[v]
           place == [x \in X |-> <<owner(x), Number(owner(x))[x]>>]
<1>1. ASSUME NEW v \in W
      PROVE  Number(v) \in [T[v] -> 1..B] /\ \A x, y \in T[v] : Number(v)[x] = Number(v)[y] => x = y
  <2>1. \E f \in [T[v] -> 1..B] : \A x, y \in T[v] : f[x] = f[y] => x = y
    BY <1>1, Numbered
  <2>2. QED
    BY <2>1
<1>2. ASSUME NEW x \in X PROVE owner(x) \in W /\ x \in T[owner(x)]
  BY <1>2
<1> HIDE DEF Number, owner
<1>3. ASSUME NEW x \in X PROVE Number(owner(x))[x] \in 1..B
  BY <1>1, <1>2, <1>3
<1>4. place \in [X -> W \X (1..B)]
  BY <1>2, <1>3
<1>5. ASSUME NEW x \in X, NEW y \in X, place[x] = place[y] PROVE x = y
  <2>1. owner(x) = owner(y) /\ Number(owner(x))[x] = Number(owner(y))[y]
    BY <1>5
  <2>2. x \in T[owner(x)] /\ y \in T[owner(x)] /\ owner(x) \in W
    BY <1>2, <2>1
  <2>3. Number(owner(x))[x] = Number(owner(x))[y]
    BY <2>1
  <2>4. QED
    BY <1>1, <2>2, <2>3
<1> HIDE DEF place
<1>6. place \in Injection(X, W \X (1..B))
  BY <1>4, <1>5 DEF Injection, IsInjective
<1>7. IsFiniteSet(1..B) /\ Cardinality(1..B) = B
  BY FS_Interval
<1>8. IsFiniteSet(W \X (1..B)) /\ Cardinality(W \X (1..B)) = Cardinality(W) * B
  BY <1>7, FS_Product
<1>9. QED
  BY <1>6, <1>8, FS_Injection

(* The rows of table t that are in flight; InFlight is this of `attempt'.    *)
OpenRows(t, S) == {lk \in S \X (1..RowBound) : t[lk[1]][lk[2]].status = "open"}

LEMMA OpenRowsFinite ==
    ASSUME NEW t, NEW S, S \subseteq Leads
    PROVE  IsFiniteSet(OpenRows(t, S)) /\ Cardinality(OpenRows(t, S)) \in Nat
<1>1. IsFiniteSet(S) /\ IsFiniteSet(1..RowBound)
  BY ConstantsAssumption, FS_Subset, FS_Interval
<1>2. IsFiniteSet(S \X (1..RowBound))
  BY <1>1, FS_Product
<1>3. OpenRows(t, S) \subseteq S \X (1..RowBound)
  BY DEF OpenRows
<1>4. QED
  BY <1>2, <1>3, FS_Subset, FS_CardinalityType

LEMMA LeadsFinite ==
    ASSUME NEW S, S \subseteq Leads
    PROVE  IsFiniteSet(S) /\ Cardinality(S) \in Nat
BY ConstantsAssumption, FS_Subset, FS_CardinalityType

LEMMA InFlightOf ==
    ASSUME NEW X, X \subseteq Leads
    PROVE  /\ InFlight(X) = OpenRows(attempt, X) /\ InFlight(X)' = OpenRows(attempt', X)
           /\ Cardinality(InFlight(X)) \in Nat /\ Cardinality(OpenRows(attempt', X)) \in Nat
<1>1. InFlight(X) = OpenRows(attempt, X) /\ InFlight(X)' = OpenRows(attempt', X)
  BY DEF InFlight, OpenRows
<1>2. QED
  BY <1>1, OpenRowsFinite

(* A step under which no row opens and no tick takes a lead.                 *)
LEMMA FitsShrinks ==
    ASSUME NEW m \in Nat, NEW X, X \subseteq Leads, NEW B \in Nat, Fits(m, X, B),
           \A l \in Leads, k \in 1..RowBound :
              attempt'[l][k].status = "open" => attempt[l][k].status = "open",
           \A w \in Workers : Taken(w)' \subseteq Taken(w)
    PROVE  Fits(m, X, B)'
<1>1. Cardinality(OpenRows(attempt', X)) <= Cardinality(InFlight(X))
  <2>1. OpenRows(attempt', X) \subseteq OpenRows(attempt, X)
    BY DEF OpenRows
  <2>2. QED
    BY <2>1, InFlightOf, OpenRowsFinite, FS_Subset
<1>2. /\ Cardinality(Held(X)) \in Nat /\ Cardinality(Held(X)') \in Nat
      /\ Cardinality(Held(X)') <= Cardinality(Held(X))
  <2>1. Held(X)' \subseteq Held(X) /\ Held(X) \subseteq Leads /\ Held(X)' \subseteq Leads
    BY DEF Held
  <2>2. QED
    BY <2>1, LeadsFinite, FS_Subset
<1>3. ASSUME NEW w \in Workers PROVE Cardinality(Taken(w)' \cap X) <= B
  <2>1. Taken(w)' \cap X \subseteq Taken(w) \cap X /\ Taken(w) \cap X \subseteq Leads /\ Taken(w)' \cap X \subseteq Leads
    BY DEF Taken
  <2>2. /\ Cardinality(Taken(w)' \cap X) <= Cardinality(Taken(w) \cap X)
        /\ Cardinality(Taken(w)' \cap X) \in Nat /\ Cardinality(Taken(w) \cap X) \in Nat
    BY <2>1, LeadsFinite, FS_Subset
  <2>3. QED
    BY <2>2 DEF Fits
<1>4. Cardinality(OpenRows(attempt', X)) + Cardinality(Held(X)') <= m * B
  <2>1. m * B \in Nat
    OBVIOUS
  <2>2. Cardinality(InFlight(X)) + Cardinality(Held(X)) <= m * B
    BY DEF Fits
  <2>3. QED
    BY <1>1, <1>2, <2>1, <2>2, InFlightOf
<1>5. QED
  BY <1>3, <1>4, InFlightOf DEF Fits

LEMMA CapsShrink ==
    ASSUME NEW m \in Nat, CapsInv(m),
           \A l \in Leads, k \in 1..RowBound :
              attempt'[l][k].status = "open" => attempt[l][k].status = "open",
           \A w \in Workers : Taken(w)' \subseteq Taken(w)
    PROVE  CapsInv(m)'
<1>1. Fits(m, Leads, TenantLimit)'
  BY FitsShrinks, ConstantsAssumption DEF CapsInv
<1>2. ASSUME NEW c \in Campaigns PROVE Fits(m, LeadsOf(c), CampaignLimit)'
  <2>1. LeadsOf(c) \subseteq Leads /\ Fits(m, LeadsOf(c), CampaignLimit)
    BY DEF LeadsOf, CapsInv
  <2>2. QED
    BY <2>1, FitsShrinks, ConstantsAssumption DEF LeadsOf
<1>3. QED
  BY <1>1, <1>2 DEF CapsInv

(* claimLeads takes no more leads than its headroom: w counted all of X under *)
(* B, the leads c it takes lie in X, or none of them does.                    *)
LEMMA FitsClaim ==
    ASSUME IInv, NEW m \in Nat, NEW X, X \subseteq Leads, NEW B \in Nat, Fits(m, X, B),
           AtMost(m)', NEW w \in Workers, Idle(w), attempt' = attempt,
           \A v \in Workers : v # w => work'[v] = work[v],
           Taken(w)' \cap X # {} =>
              Cardinality(InFlight(X)) + Cardinality(Taken(w)' \cap X) <= B
    PROVE  Fits(m, X, B)'
<1> DEFINE T == Taken(w)' \cap X
<1>1. Taken(w) = {} /\ \A v \in Workers : v # w => Taken(v)' = Taken(v)
  BY DEF Idle, Taken, Placed
<1>2. InFlight(X)' = InFlight(X)
  BY DEF InFlight
<1>3. Held(X)' = Held(X) \cup T
  BY <1>1 DEF Held
<1>4. IsFiniteSet(Held(X)) /\ IsFiniteSet(T) /\ Cardinality(Held(X)) \in Nat /\ Cardinality(T) \in Nat
  <2>1. Held(X) \subseteq Leads /\ T \subseteq Leads
    BY DEF Held
  <2>2. QED
    BY <2>1, LeadsFinite
<1>5. CASE T = {}
  <2>1. Held(X)' = Held(X)
    BY <1>3, <1>5
  <2>2. Cardinality(T) = 0
    BY <1>5, FS_EmptySet
  <2>3. \A v \in Workers : Cardinality(Taken(v)' \cap X) <= B
    BY <1>1, <2>2 DEF Fits
  <2>4. QED
    BY <1>2, <2>1, <2>3 DEF Fits
<1>6. CASE T # {}
  <2> DEFINE W == OpenTicks' \ {w}
             U == [v \in Workers |-> Taken(v) \cap X]
  <2>1. IsFiniteSet(OpenTicks') /\ Cardinality(OpenTicks') <= m /\ Cardinality(OpenTicks') \in Nat
    BY FS_CardinalityType DEF AtMost
  <2>2. w \in OpenTicks'
    BY <1>6 DEF OpenTicks, Taken, Idle, Placed
  <2>3. IsFiniteSet(W) /\ Cardinality(W) \in Nat /\ Cardinality(W) + 1 <= m
    <3>1. IsFiniteSet(W) /\ Cardinality(W) = Cardinality(OpenTicks') - 1
      BY <2>1, <2>2, FS_RemoveElement
    <3>2. Cardinality(W) \in Nat
      BY <3>1, FS_CardinalityType
    <3> HIDE DEF W
    <3>3. QED
      BY <2>1, <3>1, <3>2
  <2>4. \A v \in W : IsFiniteSet(U[v]) /\ Cardinality(U[v]) <= B
    <3> SUFFICES ASSUME NEW v \in W PROVE IsFiniteSet(U[v]) /\ Cardinality(U[v]) <= B
      OBVIOUS
    <3>1. v \in Workers /\ U[v] = Taken(v) \cap X /\ U[v] \subseteq Leads
      BY DEF OpenTicks
    <3>2. QED
      BY <3>1, LeadsFinite DEF Fits
  <2>5. \A l \in Held(X) : \E v \in W : l \in U[v]
    <3> SUFFICES ASSUME NEW l \in Held(X) PROVE \E v \in W : l \in U[v]
      OBVIOUS
    <3>1. PICK v \in Workers : l \in Taken(v)
      BY DEF Held
    <3>2. v # w /\ l \in Taken(v)'
      BY <1>1, <3>1
    <3>3. v \in OpenTicks'
      BY <3>2 DEF OpenTicks, Taken, Idle, Placed
    <3>4. l \in U[v]
      BY <3>1 DEF Held
    <3>5. QED
      BY <3>2, <3>3, <3>4
  <2> HIDE DEF W, U
  <2>6. Cardinality(Held(X)) <= Cardinality(W) * B
    BY <2>3, <2>4, <2>5, CoveredBySmallSets
  <2>7. Cardinality(Held(X)') \in Nat /\ Cardinality(Held(X)') <= Cardinality(Held(X)) + Cardinality(T)
    <3>1. Cardinality(Held(X) \cup T) = Cardinality(Held(X)) + Cardinality(T) - Cardinality(Held(X) \cap T)
      BY <1>4, FS_Union
    <3>2. Cardinality(Held(X) \cap T) \in Nat
      BY <1>4, FS_Subset, FS_CardinalityType
    <3>3. Cardinality(Held(X) \cup T) \in Nat
      BY <1>4, FS_Union, FS_CardinalityType
    <3>4. QED
      BY <1>3, <1>4, <3>1, <3>2, <3>3
  <2>8. Cardinality(W) * B + B <= m * B
    <3>1. ASSUME NEW n \in Nat, NEW k \in Nat, n + 1 <= k PROVE n * B + B <= k * B
      <4>1. (n + 1) * B <= k * B
        BY <3>1
      <4>2. (n + 1) * B = n * B + B
        OBVIOUS
      <4>3. QED
        BY <4>1, <4>2
    <3>2. QED
      BY <2>3, <3>1
  <2>9. Cardinality(InFlight(X)) + Cardinality(Held(X)') <= m * B
    <3>1. Cardinality(W) * B \in Nat /\ m * B \in Nat
      BY <2>3
    <3>2. Cardinality(InFlight(X)) + Cardinality(T) <= B
      BY <1>6
    <3> HIDE DEF T
    <3>3. QED
      BY <1>4, <2>6, <2>7, <2>8, <3>1, <3>2, InFlightOf
  <2>10. ASSUME NEW v \in Workers PROVE Cardinality(Taken(v)' \cap X) <= B
    <3>1. CASE v = w
      BY <1>4, <1>6, <3>1, InFlightOf
    <3>2. CASE v # w
      BY <1>1, <3>2 DEF Fits
    <3>3. QED
      BY <3>1, <3>2
  <2>11. QED
    BY <1>2, <2>9, <2>10 DEF Fits
<1>7. QED
  BY <1>5, <1>6

LEMMA ClaimFits ==
    ASSUME IInv, NEW m \in Nat, CapsInv(m), AtMost(m)', NEW w \in Workers, Claims(w)
    PROVE  CapsInv(m)'
<1>1. PICK c \in Campaigns : \E S \in SUBSET Candidates(c) : \E barred \in Barrable(S) : ClaimLeads(w, c, S, barred)
  BY DEF Claims
<1>2. PICK S \in SUBSET Candidates(c) : \E barred : ClaimLeads(w, c, S, barred)
  BY <1>1
<1>3. PICK barred : ClaimLeads(w, c, S, barred)
  BY <1>2
<1>4. /\ work' = [work EXCEPT ![w] = [l \in Leads |-> Hold(l, S, barred, Stale(c))]]
      /\ attempt' = attempt /\ Idle(w)
      /\ Cardinality(S) = Least(Headroom(c), Cardinality(Candidates(c))) /\ Headroom(c) > 0
  BY <1>3 DEF ClaimLeads, tables
<1>5. S \subseteq LeadsOf(c) /\ LeadsOf(c) \subseteq Leads /\ Candidates(c) \subseteq Leads
  BY DEF Candidates, LeadsOf
<1>6. /\ Cardinality(S) \in Nat /\ Cardinality(Candidates(c)) \in Nat
      /\ Cardinality(InFlight(Leads)) \in Nat /\ Cardinality(InFlight(LeadsOf(c))) \in Nat
  BY <1>5, LeadsFinite, InFlightOf
<1>7. /\ Cardinality(InFlight(Leads)) + Cardinality(S) <= TenantLimit
      /\ Cardinality(InFlight(LeadsOf(c))) + Cardinality(S) <= CampaignLimit
  BY <1>4, <1>6, ConstantsAssumption DEF Headroom, Least
<1>8. \A v \in Workers : v # w => work'[v] = work[v]
  BY <1>4 DEF IInv, TypeOK
<1>9. Taken(w)' \subseteq S
  <2>1. \A l \in Leads : work'[w][l] = Hold(l, S, barred, Stale(c))
    BY <1>4 DEF IInv, TypeOK
  <2>2. ASSUME NEW l \in Leads, Hold(l, S, barred, Stale(c)).stage \in {"claimed"} \cup Placed PROVE l \in S
    BY <2>2 DEF Hold, Nothing, Placed
  <2>3. QED
    BY <2>1, <2>2 DEF Taken
<1>10. ASSUME NEW X, X \subseteq Leads
       PROVE  Cardinality(Taken(w)' \cap X) \in Nat /\ Cardinality(Taken(w)' \cap X) <= Cardinality(S)
  BY <1>5, <1>9, LeadsFinite, FS_Subset
<1>11. Fits(m, Leads, TenantLimit)'
  <2>1. Cardinality(InFlight(Leads)) + Cardinality(Taken(w)' \cap Leads) <= TenantLimit
    BY <1>6, <1>7, <1>10, ConstantsAssumption
  <2>2. QED
    BY <1>4, <1>8, <2>1, FitsClaim, ConstantsAssumption DEF CapsInv
<1>12. ASSUME NEW d \in Campaigns PROVE Fits(m, LeadsOf(d), CampaignLimit)'
  <2>1. LeadsOf(d) \subseteq Leads /\ Fits(m, LeadsOf(d), CampaignLimit)
    BY DEF LeadsOf, CapsInv
  <2>2. Taken(w)' \cap LeadsOf(d) # {} => d = c
    BY <1>5, <1>9 DEF LeadsOf
  <2>3. Cardinality(InFlight(LeadsOf(c))) + Cardinality(Taken(w)' \cap LeadsOf(c)) <= CampaignLimit
    BY <1>5, <1>6, <1>7, <1>10, ConstantsAssumption
  <2>4. QED
    BY <1>4, <1>8, <2>1, <2>2, <2>3, FitsClaim, ConstantsAssumption DEF LeadsOf
<1>13. QED
  BY <1>11, <1>12 DEF CapsInv

(* A commit opens at most one row for each lead its tick had taken.          *)
LEMMA CommitOpens ==
    ASSUME IInv, NEW w \in Workers, Commit(w), NEW S, S \subseteq Leads
    PROVE  Cardinality(OpenRows(attempt', S)) <= Cardinality(InFlight(S)) + Cardinality(Taken(w) \cap S)
<1> DEFINE T == Taken(w) \cap S
           New == {<<l, lead[l].count + 1>> : l \in T}
           f == [l \in T |-> <<l, lead[l].count + 1>>]
<1>1. T \subseteq Leads
  BY DEF Taken
<1>2. IsFiniteSet(T) /\ Cardinality(T) \in Nat
  BY <1>1, LeadsFinite
<1>3. f \in Surjection(T, New)
  BY DEF Surjection
<1>4. IsFiniteSet(New) /\ Cardinality(New) <= Cardinality(T)
  <2> HIDE DEF T, New, f
  <2>1. QED
    BY <1>2, <1>3, FS_Surjection
<1>5. OpenRows(attempt', S) \subseteq OpenRows(attempt, S) \cup New
  <2> SUFFICES ASSUME NEW l \in S, NEW k \in 1..RowBound, attempt'[l][k].status = "open"
               PROVE  attempt[l][k].status = "open" \/ <<l, k>> \in New
    BY DEF OpenRows
  <2>1. l \in Leads
    OBVIOUS
  <2>2. \/ attempt'[l][k] = attempt[l][k]
        \/ work[w][l].stage \in Placed /\ k = lead[l].count + 1
    BY <2>1, CommitLead
  <2>3. CASE work[w][l].stage \in Placed /\ k = lead[l].count + 1
    BY <2>1, <2>3 DEF Taken
  <2>4. QED
    BY <2>2, <2>3
<1>6. /\ IsFiniteSet(OpenRows(attempt, S)) /\ IsFiniteSet(OpenRows(attempt', S))
      /\ Cardinality(OpenRows(attempt, S)) \in Nat /\ Cardinality(OpenRows(attempt', S)) \in Nat
  BY OpenRowsFinite
<1>7. InFlight(S) = OpenRows(attempt, S)
  BY DEF InFlight, OpenRows
<1> HIDE DEF T, New, f
<1>8. /\ IsFiniteSet(OpenRows(attempt, S) \cup New)
      /\ Cardinality(OpenRows(attempt, S) \cup New)
           = Cardinality(OpenRows(attempt, S)) + Cardinality(New) - Cardinality(OpenRows(attempt, S) \cap New)
  BY <1>4, <1>6, FS_Union
<1>9. Cardinality(OpenRows(attempt', S)) <= Cardinality(OpenRows(attempt, S) \cup New)
  BY <1>5, <1>8, FS_Subset
<1>10. Cardinality(OpenRows(attempt, S) \cap New) \in Nat /\ Cardinality(New) \in Nat
  BY <1>4, FS_Subset, FS_CardinalityType
<1>11. QED
  BY <1>2, <1>4, <1>6, <1>7, <1>8, <1>9, <1>10 DEF T

(* A commit opens rows for what its tick had taken, and gives those leads up. *)
LEMMA FitsCommit ==
    ASSUME IInv, NEW m \in Nat, NEW X, X \subseteq Leads, NEW B \in Nat, Fits(m, X, B),
           NEW w \in Workers, Commit(w)
    PROVE  Fits(m, X, B)'
<1> DEFINE T == Taken(w) \cap X
<1>1. \A v \in Workers : Taken(v)' = IF v = w THEN {} ELSE Taken(v)
  <2>1. work' = [work EXCEPT ![w] = [l \in Leads |-> Nothing]]
    BY DEF Commit
  <2>2. \A v \in Workers, l \in Leads : work'[v][l] = IF v = w THEN Nothing ELSE work[v][l]
    BY <2>1 DEF IInv, TypeOK
  <2>3. QED
    BY <2>2 DEF Taken, Nothing, Placed
<1>2. \A v \in Workers : v # w => Taken(v) \cap T = {}
  BY DEF IInv, ExclusiveClaim, Taken, Placed
<1>3. Held(X)' = Held(X) \ T /\ T \subseteq Held(X)
  BY <1>1, <1>2 DEF Held
<1>4. /\ IsFiniteSet(Held(X)) /\ Cardinality(Held(X)) \in Nat /\ Cardinality(T) \in Nat
      /\ Cardinality(Held(X)') = Cardinality(Held(X)) - Cardinality(T)
  <2>1. Held(X) \subseteq Leads /\ T \subseteq Leads
    BY DEF Held
  <2>2. IsFiniteSet(Held(X)) /\ Cardinality(Held(X)) \in Nat /\ Cardinality(T) \in Nat
    BY <2>1, LeadsFinite
  <2>3. Held(X) \cap T = T
    BY <1>3
  <2>4. Cardinality(Held(X) \ T) = Cardinality(Held(X)) - Cardinality(Held(X) \cap T)
    BY <2>2, FS_Difference
  <2> HIDE DEF T
  <2>5. QED
    BY <1>3, <2>2, <2>3, <2>4
<1>5. Cardinality(OpenRows(attempt', X)) <= Cardinality(InFlight(X)) + Cardinality(T)
  BY CommitOpens
<1>6. Cardinality(OpenRows(attempt', X)) + Cardinality(Held(X)') <= m * B
  <2>1. Cardinality(InFlight(X)) + Cardinality(Held(X)) <= m * B /\ m * B \in Nat
    BY DEF Fits
  <2> HIDE DEF T
  <2>2. QED
    BY <1>4, <1>5, <2>1, InFlightOf
<1>7. ASSUME NEW v \in Workers PROVE Cardinality(Taken(v)' \cap X) <= B
  <2>1. CASE v = w
    BY <1>1, <2>1, FS_EmptySet
  <2>2. CASE v # w
    BY <1>1, <2>2 DEF Fits
  <2>3. QED
    BY <2>1, <2>2
<1>8. QED
  BY <1>6, <1>7, InFlightOf DEF Fits

LEMMA CommitFits ==
    ASSUME IInv, NEW m \in Nat, CapsInv(m), NEW w \in Workers, Commit(w)
    PROVE  CapsInv(m)'
<1>1. Fits(m, Leads, TenantLimit)'
  BY FitsCommit, ConstantsAssumption DEF CapsInv
<1>2. ASSUME NEW c \in Campaigns PROVE Fits(m, LeadsOf(c), CampaignLimit)'
  <2>1. LeadsOf(c) \subseteq Leads /\ Fits(m, LeadsOf(c), CampaignLimit)
    BY DEF LeadsOf, CapsInv
  <2>2. QED
    BY <2>1, FitsCommit, ConstantsAssumption DEF LeadsOf
<1>3. QED
  BY <1>1, <1>2 DEF CapsInv

LEMMA CapsStep ==
    ASSUME NEW m \in Nat, IInv, CapsInv(m), AtMost(m)', [Next]_vars
    PROVE  CapsInv(m)'
<1>1. ASSUME SameStatuses, work' = work PROVE CapsInv(m)'
  BY <1>1, CapsShrink DEF SameStatuses, Taken
<1>2. ASSUME NEW w \in Workers, Crash(w) PROVE CapsInv(m)'
  <2>1. work' = [work EXCEPT ![w] = [l \in Leads |-> Nothing]] /\ attempt' = attempt
    BY <1>2 DEF Crash, tables
  <2>2. \A v \in Workers : Taken(v)' \subseteq Taken(v)
    BY <2>1, ReleasedTick DEF Taken, Placed
  <2>3. QED
    BY <2>1, <2>2, CapsShrink
<1>3. ASSUME NEW w \in Workers, NEW l \in Leads, Dial(w, l) PROVE CapsInv(m)'
  <2>1. /\ attempt' = attempt
        /\ \E stage \in Placed : \E id : Dialled(w, l, stage, id)
    BY <1>3 DEF Dial, PlaceCall, PlaceCallUnheard, RefuseCall, tables, Placed
  <2>2. PICK stage \in Placed : \E id : Dialled(w, l, stage, id)
    BY <2>1
  <2>3. PICK id : Dialled(w, l, stage, id)
    BY <2>2
  <2>4. \A v \in Workers, n \in Leads :
           work'[v][n] = IF v = w /\ n = l THEN [stage |-> stage, call |-> id] ELSE work[v][n]
    BY <2>3 DEF Dialled, IInv, TypeOK
  <2>5. \A v \in Workers : Taken(v)' \subseteq Taken(v)
    BY <2>3, <2>4 DEF Taken, Dialled
  <2>6. QED
    BY <2>1, <2>5, CapsShrink
<1>4. ASSUME NEW l \in Leads, NEW k \in 1..RowBound, NEW id \in Calls, RecordOutcome(l, k, id)
      PROVE  CapsInv(m)'
  <2>1. work' = work /\ call[id].status \in Terminal
    BY <1>4 DEF RecordOutcome, Answer, IInv, WireHasOutcomes
  <2>2. \A n \in Leads, j \in 1..RowBound :
           attempt'[n][j].status = IF n = l /\ j = k THEN call[id].status ELSE attempt[n][j].status
    <3> DEFINE row == [attempt[l][k] EXCEPT !.status = call[id].status,
                                            !.heard = (call[id].content = "transcript")]
    <3>1. attempt[l][k] \in AttemptRow /\ (call[id].content = "transcript") \in BOOLEAN
      BY DEF IInv, TypeOK
    <3>2. row \in AttemptRow /\ row.status = call[id].status
      BY <2>1, <3>1 DEF AttemptRow
    <3>3. attempt' = [attempt EXCEPT ![l][k] = row]
      BY <1>4 DEF RecordOutcome
    <3> HIDE DEF row
    <3>4. QED
      BY <3>2, <3>3, SetAttempt, SMTT(30) DEF IInv, TypeOK
  <2>3. \A n \in Leads, j \in 1..RowBound :
           attempt'[n][j].status = "open" => attempt[n][j].status = "open"
    BY <2>1, <2>2 DEF Terminal
  <2>4. QED
    BY <2>1, <2>3, CapsShrink DEF Taken
<1>5. ASSUME NEW id \in Calls, Webhook(id) PROVE CapsInv(m)'
  <2>1. CASE IgnoreDuplicate(id) \/ IgnoreUnknown(id)
    BY <1>1, <2>1 DEF IgnoreDuplicate, IgnoreUnknown, tables, SameStatuses
  <2>2. CASE ~(IgnoreDuplicate(id) \/ IgnoreUnknown(id))
    BY <1>4, <1>5, <2>2 DEF Webhook, RecordSuppression, RecordConversation, RecordNoConversation
  <2>3. QED
    BY <2>1, <2>2
<1>6. ASSUME NEW id \in Calls, LoseWebhook(id) \/ \E r \in Results : CallEnds(id, r) PROVE CapsInv(m)'
  BY <1>1, <1>6 DEF LoseWebhook, CallEnds, tables, SameStatuses
<1>7. ASSUME NEW l \in Leads, NEW k \in 1..RowBound, Review(l, k) PROVE CapsInv(m)'
  <2>1. SameStatuses
    BY <1>7, ReviewStutters
  <2>2. work' = work
    BY <1>7 DEF Review, QualifyUnconnected, RejectReview, QualifyCall, ConfirmReview
  <2>3. QED
    BY <1>1, <2>1, <2>2
<1>8. ASSUME Operator \/ \E l \in Leads : LockLapses(l) \/ FallsDue(l) PROVE CapsInv(m)'
  <2>1. UNCHANGED <<attempt, work>>
    BY <1>8 DEF Operator, ImportDnc, DeferQueue, SetCampaignActive, Suspend, Resume, RescheduleCallback,
                QuarantineLead, IngestLead, LockLapses, FallsDue
  <2>2. QED
    BY <1>1, <2>1 DEF SameStatuses
<1>9. CASE UNCHANGED vars
  BY <1>1, <1>9 DEF vars, SameStatuses
<1>10. QED
  BY <1>2, <1>3, <1>5, <1>6, <1>7, <1>8, <1>9, ClaimFits, CommitFits DEF Next

LEMMA CapsInit == ASSUME NEW m \in Nat, Init PROVE CapsInv(m)
<1>1. \A w \in Workers : Taken(w) = {}
  BY DEF Init, Taken, Nothing, Placed
<1>2. ASSUME NEW X, X \subseteq Leads, NEW B \in Nat PROVE Fits(m, X, B)
  <2>1. InFlight(X) = {} /\ Held(X) = {} /\ \A w \in Workers : Taken(w) \cap X = {}
    BY <1>1, <1>2 DEF Init, InFlight, NoRow, Held
  <2>2. m * B \in Nat
    BY <1>2
  <2>3. QED
    BY <1>2, <2>1, <2>2, FS_EmptySet DEF Fits
<1>3. \A c : LeadsOf(c) \subseteq Leads
  BY DEF LeadsOf
<1>4. QED
  BY <1>2, <1>3, ConstantsAssumption DEF CapsInv

LEMMA CapsBound == ASSUME NEW m \in Nat, CapsInv(m) PROVE WithinCapsTimes(m)
<1>1. ASSUME NEW X, X \subseteq Leads, NEW B \in Nat, Fits(m, X, B)
      PROVE  Cardinality(InFlight(X)) <= m * B
  <2>1. Held(X) \subseteq Leads
    BY <1>1 DEF Held
  <2>2. Cardinality(Held(X)) \in Nat /\ m * B \in Nat
    BY <1>1, <2>1, LeadsFinite
  <2>3. QED
    BY <1>1, <2>2, InFlightOf DEF Fits
<1>2. \A c : LeadsOf(c) \subseteq Leads
  BY DEF LeadsOf
<1>3. QED
  BY <1>1, <1>2, ConstantsAssumption DEF CapsInv, WithinCapsTimes

(* Ticks overlap whenever one outlives the minute, and nothing in claimLeads  *)
(* makes them wait for each other.  With at most m of them open at once, what *)
(* is in flight never passes m times the tenant's or a campaign's cap, for    *)
(* any limits, batch sizes, crashes and webhooks (queue.ts 81-108).           *)
THEOREM CapsHoldPerTick ==
    ASSUME NEW m \in Nat
    PROVE  Spec /\ []AtMost(m) => []WithinCapsTimes(m)
<1>1. Init => CapsInv(m)
  BY CapsInit
<1>2. IInv /\ CapsInv(m) /\ AtMost(m)' /\ [Next]_vars => CapsInv(m)'
  BY CapsStep
<1>3. CapsInv(m) => WithinCapsTimes(m)
  BY CapsBound
<1>4. QED
  BY <1>1, <1>2, <1>3, Invariance, PTL DEF Spec

(* As long as ticks do not overlap - one process dials, or several take turns *)
(* - what is in flight never passes the caps at all.                          *)
THEOREM CapsHoldWithoutOverlap == Spec /\ []OneTickAtATime => []WithinCaps
<1>1. OneTickAtATime => AtMost(1)
  <2> SUFFICES ASSUME OneTickAtATime PROVE AtMost(1)
    OBVIOUS
  <2>1. CASE OpenTicks = {}
    BY <2>1, FS_EmptySet DEF AtMost
  <2>2. CASE OpenTicks # {}
    <3>1. PICK w \in OpenTicks : TRUE
      BY <2>2
    <3>2. OpenTicks = {w}
      BY <3>1 DEF OpenTicks, OneTickAtATime
    <3>3. IsFiniteSet({w}) /\ Cardinality({w}) = 1
      BY FS_Singleton
    <3>4. QED
      BY <3>2, <3>3 DEF AtMost
  <2>3. QED
    BY <2>1, <2>2
<1>2. Init => CapsInv(1)
  BY CapsInit
<1>3. IInv /\ CapsInv(1) /\ AtMost(1)' /\ [Next]_vars => CapsInv(1)'
  BY CapsStep
<1>4. CapsInv(1) => WithinCaps
  BY CapsBound, ConstantsAssumption DEF WithinCapsTimes, WithinCaps
<1>5. QED
  BY <1>1, <1>2, <1>3, <1>4, Invariance, PTL DEF Spec

=============================================================================
