--------------------------- MODULE CallQueueCalls ---------------------------
(***************************************************************************)
(* What becomes of the calls themselves, on top of CallQueueProofs.        *)
(*                                                                         *)
(* The do-not-call list is final (DncIsFinal): no write takes a number off *)
(* the list; a lead comes into a worker's hands only through               *)
(* checkEligibility; and a call is placed only to a lead in a worker's     *)
(* hands.                                                                  *)
(*                                                                         *)
(* The attempt rows and the provider's records agree (RowsMatchCalls).  A  *)
(* call is named first by an open tick and then by the one row that tick   *)
(* commits; what keeps rows apart is that a call in a tick's hands is in   *)
(* no other hands and in no row, and that the provider gives a call its    *)
(* outcome once, while its row is still in flight.  And no result is       *)
(* dropped where none overtakes its tick's commit (NoResultDropped).       *)
(***************************************************************************)
EXTENDS CallQueueProofs

(* An id the provider has not given out yet belongs to no lead.              *)
UnusedIsNobodys == \A id \in Calls : call[id].state = "unused" => call[id].lead = NoLead

Claimed(l) == \E w \in Workers : work[w][l].stage = "claimed"

DncGrows ==
    /\ dncList \subseteq dncList'
    /\ \A l \in Leads : lead[l].dnc => lead'[l].dnc

-----------------------------------------------------------------------------
(* No write to a lead row takes its do-not-call mark away                    *)

LEMMA ColumnsKeepDnc ==
    ASSUME NEW r \in LeadRow, NEW s, NEW b
    PROVE  /\ Moved(r, s, b).dnc = r.dnc
           /\ [r EXCEPT !.status = s].dnc = r.dnc
           /\ [r EXCEPT !.status = s, !.due = TRUE].dnc = r.dnc
           /\ [r EXCEPT !.due = b].dnc = r.dnc
           /\ [r EXCEPT !.lapsed = b].dnc = r.dnc
BY DEF Moved, LeadRow

LEMMA SuppressedKeepsDnc == ASSUME NEW r \in LeadRow PROVE Suppressed(r).dnc = TRUE
BY DEF Suppressed, Moved, LeadRow

LEMMA AfterDecisionKeepsDnc ==
    ASSUME NEW r \in LeadRow, NEW d PROVE AfterDecision(r, d).dnc = r.dnc
BY DEF AfterDecision, Moved, LeadRow

LEMMA RoutedKeepsDnc ==
    ASSUME NEW r \in LeadRow, NEW k, NEW v, r.dnc
    PROVE  Routed(r, k, v).dnc
<1>1. CASE v = "dnc"
  BY <1>1, SuppressedKeepsDnc DEF Routed
<1>2. CASE v = "callback"
  BY <1>2, AfterDecisionKeepsDnc DEF Routed
<1>3. CASE v = "callback_untimed"
  BY <1>3, AfterDecisionKeepsDnc DEF Routed
<1>4. CASE v = "qualified"
  BY <1>4, ColumnsKeepDnc DEF Routed
<1>5. CASE v \notin {"dnc", "callback", "callback_untimed", "qualified"}
  BY <1>5 DEF Routed
<1>6. QED
  BY <1>1, <1>2, <1>3, <1>4, <1>5

LEMMA CountKeepsDnc ==
    ASSUME NEW m \in LeadRow, NEW n PROVE [m EXCEPT !.count = n].dnc = m.dnc
BY DEF LeadRow

LEMMA LeftBehindKeepsDnc ==
    ASSUME NEW r \in LeadRow, NEW stage \in Stage
    PROVE  LeftBehind(r, stage).dnc = r.dnc
<1>1. CASE stage = "initiated"
  <2> DEFINE m == Moved(r, "calling", r.due)
  <2>1. LeftBehind(r, stage) = [m EXCEPT !.count = r.count + 1]
    BY <1>1, Zenon DEF LeftBehind
  <2>2. m \in LeadRow /\ m.dnc = r.dnc
    BY DEF Moved, LeadRow, Status
  <2> HIDE DEF m
  <2>3. QED
    BY <2>1, <2>2, CountKeepsDnc
<1>2. CASE stage = "refused"
  <2> DEFINE m == Moved(r, "queued", FALSE)
  <2>1. LeftBehind(r, stage) = [m EXCEPT !.count = r.count + 1]
    BY <1>2, Zenon DEF LeftBehind
  <2>2. m \in LeadRow /\ m.dnc = r.dnc
    BY DEF Moved, LeadRow, Status
  <2> HIDE DEF m
  <2>3. QED
    BY <2>1, <2>2, CountKeepsDnc
<1>3. CASE stage = "rejected"
  <2> DEFINE m == Moved(r, "failed", TRUE)
  <2>1. LeftBehind(r, stage) = [m EXCEPT !.count = r.count + 1]
    BY <1>3, Zenon DEF LeftBehind
  <2>2. m \in LeadRow /\ m.dnc = r.dnc
    BY DEF Moved, LeadRow, Status
  <2> HIDE DEF m
  <2>3. QED
    BY <2>1, <2>2, CountKeepsDnc
<1>4. CASE stage = "suppressed"
  <2> DEFINE m == Moved(r, "suppressed", TRUE)
  <2>1. LeftBehind(r, stage) = m
    BY <1>4, Zenon DEF LeftBehind
  <2>2. m \in LeadRow /\ m.dnc = r.dnc
    BY DEF Moved, LeadRow, Status
  <2> HIDE DEF m
  <2>3. QED
    BY <2>1, <2>2
<1>5. CASE stage = "reclaimed"
  <2> DEFINE m == Moved(r, "queued", r.due)
  <2>1. LeftBehind(r, stage) = m
    BY <1>5, Zenon DEF LeftBehind
  <2>2. m \in LeadRow /\ m.dnc = r.dnc
    BY DEF Moved, LeadRow, Status
  <2> HIDE DEF m
  <2>3. QED
    BY <2>1, <2>2
<1>6. CASE stage \in {"free", "claimed"}
  <2>1. LeftBehind(r, stage) = r
    BY <1>6, Zenon DEF LeftBehind
  <2>2. QED
    BY <2>1
<1>7. QED
  BY <1>1, <1>2, <1>3, <1>4, <1>5, <1>6 DEF Stage, Placed

-----------------------------------------------------------------------------
(* No step shrinks the list                                                  *)

LEMMA OneLeadDnc ==
    ASSUME IInv, NEW l \in Leads, NEW r, lead[l].dnc => r.dnc,
           lead' = [lead EXCEPT ![l] = r], dncList \subseteq dncList'
    PROVE  DncGrows
BY DEF IInv, TypeOK, DncGrows

LEMMA OutcomesDnc ==
    ASSUME IInv, NEW l \in Leads, NEW k \in 1..RowBound, NEW id \in Calls,
           RecordSuppression(l, k, id) \/ RecordConversation(l, k, id)
             \/ RecordNoConversation(l, k, id)
    PROVE  DncGrows
<1>0. lead[l] \in LeadRow
  BY LeadRowType DEF IInv
<1>1. CASE RecordSuppression(l, k, id)
  <2>1. Suppressed(lead[l]).dnc
    BY <1>0, SuppressedKeepsDnc
  <2>2. lead' = [lead EXCEPT ![l] = Suppressed(lead[l])] /\ dncList \subseteq dncList'
    BY <1>1 DEF RecordSuppression
  <2>3. QED
    BY <2>1, <2>2, OneLeadDnc
<1>2. CASE RecordConversation(l, k, id)
  <2> DEFINE r == [lead[l] EXCEPT !.status = "awaiting_analysis"]
  <2>1. r.dnc = lead[l].dnc
    BY <1>0, ColumnsKeepDnc
  <2>2. lead' = [lead EXCEPT ![l] = r] /\ dncList' = dncList
    BY <1>2 DEF RecordConversation
  <2> HIDE DEF r
  <2>3. QED
    BY <2>1, <2>2, OneLeadDnc
<1>3. CASE RecordNoConversation(l, k, id)
  <2> DEFINE d == DecideRetry(call[id].status, k, FALSE)
             r == AfterDecision(lead[l], d)
  <2>1. r.dnc = lead[l].dnc
    BY <1>0, AfterDecisionKeepsDnc
  <2>2. lead' = [lead EXCEPT ![l] = r] /\ dncList' = dncList
    BY <1>3 DEF RecordNoConversation
  <2> HIDE DEF r
  <2>3. QED
    BY <2>1, <2>2, OneLeadDnc
<1>4. QED
  BY <1>1, <1>2, <1>3

LEMMA CommitAnalysisDnc ==
    ASSUME IInv, NEW l \in Leads, NEW k \in 1..RowBound, NEW v, CommitAnalysis(l, k, v)
    PROVE  DncGrows
<1>1. lead[l].dnc => Routed(lead[l], k, v).dnc
  BY LeadRowType, RoutedKeepsDnc DEF IInv
<1>2. lead' = [lead EXCEPT ![l] = Routed(lead[l], k, v)] /\ dncList \subseteq dncList'
  BY DEF CommitAnalysis
<1>3. QED
  BY <1>1, <1>2, OneLeadDnc

LEMMA ReviewDnc ==
    ASSUME IInv, NEW l \in Leads, NEW k \in 1..RowBound, Review(l, k)
    PROVE  DncGrows
<1>0. lead[l] \in LeadRow
  BY LeadRowType DEF IInv
<1>1. CASE \E v : CommitAnalysis(l, k, v)
  BY <1>1, CommitAnalysisDnc
<1>2. CASE RejectReview(l, k)
  <2> DEFINE d == DecideRetry("no_answer", k, FALSE)
             r == AfterDecision(lead[l], d)
  <2>1. r.dnc = lead[l].dnc
    BY <1>0, AfterDecisionKeepsDnc
  <2>2. lead' = [lead EXCEPT ![l] = r] /\ dncList' = dncList
    BY <1>2 DEF RejectReview
  <2> HIDE DEF r
  <2>3. QED
    BY <2>1, <2>2, OneLeadDnc
<1>3. CASE lead' = [lead EXCEPT ![l].status = "pending_review"] /\ dncList' = dncList
  <2> DEFINE r == [lead[l] EXCEPT !.status = "pending_review"]
  <2>1. r.dnc = lead[l].dnc
    BY <1>0, ColumnsKeepDnc
  <2>2. lead' = [lead EXCEPT ![l] = r]
    BY <1>3
  <2> HIDE DEF r
  <2>3. QED
    BY <1>3, <2>1, <2>2, OneLeadDnc
<1>4. QED
  BY <1>1, <1>2, <1>3 DEF Review, QualifyUnconnected, QualifyCall, ConfirmReview

LEMMA OperatorDnc ==
    ASSUME IInv, Operator \/ \E l \in Leads : LockLapses(l) \/ FallsDue(l)
    PROVE  DncGrows
<1>1. \A l \in Leads : lead'[l].dnc = lead[l].dnc
  <2> SUFFICES ASSUME NEW l \in Leads PROVE lead'[l].dnc = lead[l].dnc
    OBVIOUS
  <2> DEFINE Rows == {lead[l], Moved(lead[l], "suppressed", TRUE),
                      Moved(lead[l], "queued", FALSE),
                      [lead[l] EXCEPT !.due = FALSE], [lead[l] EXCEPT !.due = TRUE],
                      [lead[l] EXCEPT !.lapsed = TRUE], [lead[l] EXCEPT !.status = "queued"],
                      [lead[l] EXCEPT !.status = "suppressed", !.due = TRUE],
                      [lead[l] EXCEPT !.status = "quarantined", !.due = TRUE]}
  <2>1. \A r \in Rows : r.dnc = lead[l].dnc
    <3>1. lead[l] \in LeadRow
      BY LeadRowType DEF IInv
    <3>2. /\ Moved(lead[l], "suppressed", TRUE).dnc = lead[l].dnc
          /\ Moved(lead[l], "queued", FALSE).dnc = lead[l].dnc
          /\ \A b \in BOOLEAN : [lead[l] EXCEPT !.due = b].dnc = lead[l].dnc
          /\ [lead[l] EXCEPT !.lapsed = TRUE].dnc = lead[l].dnc
      BY <3>1 DEF LeadRow, Moved
    <3>3. \A s \in Status : /\ [lead[l] EXCEPT !.status = s].dnc = lead[l].dnc
                            /\ [lead[l] EXCEPT !.status = s, !.due = TRUE].dnc = lead[l].dnc
      BY <3>1, ColumnsKeepDnc
    <3>4. {"queued", "suppressed", "quarantined"} \subseteq Status
      BY DEF Status
    <3>5. QED
      BY <3>2, <3>3, <3>4
  <2>2. lead'[l] \in Rows
    <3>1. CASE \E p \in Phones : ImportDnc(p)
      BY <3>1 DEF ImportDnc
    <3>2. CASE \E c \in Campaigns : DeferQueue(c) \/ \E on \in BOOLEAN : SetCampaignActive(c, on)
      BY <3>2 DEF DeferQueue, SetCampaignActive
    <3>3. CASE Suspend \/ Resume
      BY <3>3 DEF Suspend, Resume
    <3>4. CASE \E m \in Leads : QuarantineLead(m)
      BY <3>4 DEF QuarantineLead, IInv, TypeOK
    <3>5. CASE \E m \in Leads : \E barred \in Barrable({m}) : IngestLead(m, barred)
      BY <3>5 DEF IngestLead, IInv, TypeOK
    <3>6. CASE \E m \in Leads : LockLapses(m) \/ FallsDue(m)
      BY <3>6, ZenonT(30) DEF LockLapses, FallsDue, IInv, TypeOK
    <3>7. CASE \E m \in Leads : RescheduleCallback(m)
      BY <3>7, ZenonT(30) DEF RescheduleCallback, IInv, TypeOK
    <3>8. QED
      BY <3>1, <3>2, <3>3, <3>4, <3>5, <3>6, <3>7 DEF Operator
  <2> HIDE DEF Rows
  <2>3. QED
    BY <2>1, <2>2
<1>2. dncList \subseteq dncList'
  BY DEF Operator, ImportDnc, DeferQueue, SetCampaignActive, Suspend, Resume, RescheduleCallback,
         QuarantineLead, IngestLead, LockLapses, FallsDue
<1>3. QED
  BY <1>1, <1>2 DEF DncGrows

LEMMA CommitDnc ==
    ASSUME IInv, NEW w \in Workers, Commit(w)
    PROVE  DncGrows
<1>1. \A l \in Leads : work[w][l].stage \in Stage /\ lead[l] \in LeadRow
  BY DEF IInv, TypeOK, Holding
<1>2. \A l \in Leads : lead'[l] = LeftBehind(lead[l], work[w][l].stage)
  BY CommitLead
<1>3. dncList' = dncList
  BY DEF Commit
<1>4. QED
  BY <1>1, <1>2, <1>3, LeftBehindKeepsDnc DEF DncGrows

LEMMA NextDncGrows == IInv /\ [Next]_vars => DncGrows
<1> SUFFICES ASSUME IInv, [Next]_vars PROVE DncGrows
  OBVIOUS
<1>1. ASSUME UNCHANGED <<lead, dncList>> PROVE DncGrows
  BY <1>1 DEF DncGrows
<1>2. ASSUME NEW w \in Workers, Claims(w) \/ Crash(w) \/ \E l \in Leads : Dial(w, l)
      PROVE  UNCHANGED <<lead, dncList>>
  BY <1>2 DEF Claims, ClaimLeads, Crash, Dial, PlaceCall, PlaceCallUnheard, RefuseCall, tables
<1>3. ASSUME NEW id \in Calls, LoseWebhook(id) \/ IgnoreDuplicate(id) \/ IgnoreUnknown(id)
                                 \/ \E r \in Results : CallEnds(id, r)
      PROVE  UNCHANGED <<lead, dncList>>
  BY <1>3 DEF LoseWebhook, IgnoreDuplicate, IgnoreUnknown, CallEnds, tables
<1>4. ASSUME UNCHANGED vars PROVE UNCHANGED <<lead, dncList>>
  BY <1>4 DEF vars
<1>5. QED
  BY <1>1, <1>2, <1>3, <1>4, CommitDnc, OutcomesDnc, ReviewDnc, OperatorDnc
  DEF Next, Webhook

-----------------------------------------------------------------------------
(* No step but a claim puts a lead into a worker's hands, and no step but    *)
(* the dialling of a claimed lead adds a call to it                          *)

LEMMA ClaimsKeepOffList ==
    ASSUME IInv, NEW w \in Workers, NEW l \in Leads, OnDnc(l), ~Claimed(l), Claims(w)
    PROVE  ~Claimed(l)'
<1>1. PICK c \in Campaigns : \E S \in SUBSET Candidates(c) : \E barred \in Barrable(S) :
                ClaimLeads(w, c, S, barred)
  BY DEF Claims
<1>2. PICK S \in SUBSET Candidates(c) : \E barred \in Barrable(S) :
                ClaimLeads(w, c, S, barred)
  BY <1>1
<1>3. PICK barred \in Barrable(S) : ClaimLeads(w, c, S, barred)
  BY <1>2
<1>4. /\ work'[w][l] = Hold(l, S, barred, Stale(c))
      /\ \A v \in Workers : v # w => work'[v][l] = work[v][l]
  BY <1>3 DEF ClaimLeads, IInv, TypeOK
<1>5. ~Eligible(l, lead[l])
  BY DEF Eligible, OnDnc
<1>6. Hold(l, S, barred, Stale(c)).stage \in {"suppressed", "reclaimed", "free"}
  BY <1>5, Zenon DEF Hold, Nothing
<1>7. QED
  BY <1>4, <1>6 DEF Claimed

LEMMA DialKeepsOthers ==
    ASSUME IInv, UnusedIsNobodys, NEW w \in Workers, NEW m \in Leads, Dial(w, m)
    PROVE  /\ UnusedIsNobodys'
           /\ \A l \in Leads : ~Claimed(l) => ~Claimed(l)' /\ CallsTo(l)' = CallsTo(l)
<1>1. PICK stage \in Placed, id \in Calls \cup {NoCall} : Dialled(w, m, stage, id)
  BY DEF Dial, PlaceCall, PlaceCallUnheard, RefuseCall, Placed
<1>2. work[w][m].stage = "claimed"
  BY <1>1 DEF Dialled
<1>3. \A v \in Workers, l \in Leads :
        work'[v][l].stage = "claimed" => work[v][l].stage = "claimed"
  <2> DEFINE h == [stage |-> stage, call |-> id]
  <2>1. work' = [work EXCEPT ![w][m] = h] /\ h.stage # "claimed"
    BY <1>1 DEF Dialled, Placed
  <2> HIDE DEF h
  <2>2. QED
    BY <2>1 DEF IInv, TypeOK
<1>4. call' = call \/ \E j \in Calls : ProviderAccepts(m, j)
  BY DEF Dial, PlaceCall, PlaceCallUnheard, RefuseCall, outside
<1>5. CASE call' = call
  BY <1>2, <1>3, <1>5 DEF UnusedIsNobodys, Claimed, CallsTo
<1>6. ASSUME NEW j \in Calls, ProviderAccepts(m, j)
      PROVE  /\ UnusedIsNobodys'
             /\ \A l \in Leads : ~Claimed(l) => CallsTo(l)' = CallsTo(l)
  <2> DEFINE e == [call[j] EXCEPT !.lead = m, !.state = "live"]
  <2>1. call \in [Calls -> CallRow] /\ call' = [call EXCEPT ![j] = e]
    BY <1>6 DEF IInv, TypeOK, ProviderAccepts
  <2>2. e.lead = m /\ e.state = "live"
    BY <2>1 DEF CallRow
  <2> HIDE DEF e
  <2>3. call[j].lead = NoLead
    BY <1>6 DEF ProviderAccepts, UnusedIsNobodys
  <2>4. \A i \in Calls : call'[i] = IF i = j THEN e ELSE call[i]
    BY <2>1
  <2>5. UnusedIsNobodys'
    BY <2>2, <2>4 DEF UnusedIsNobodys
  <2>6. ASSUME NEW l \in Leads, ~Claimed(l) PROVE CallsTo(l)' = CallsTo(l)
    <3>1. l # m /\ l # NoLead
      BY <1>2, <2>6, ConstantsAssumption DEF Claimed, ConstantsAssumption
    <3>2. QED
      BY <2>2, <2>3, <2>4, <3>1 DEF CallsTo
  <2>7. QED
    BY <2>5, <2>6
<1>7. QED
  BY <1>3, <1>4, <1>5, <1>6 DEF Claimed

LEMMA EndsKeepCalls ==
    ASSUME IInv, UnusedIsNobodys, NEW id \in Calls, NEW r \in Results, CallEnds(id, r)
    PROVE  UnusedIsNobodys' /\ \A l \in Leads : CallsTo(l)' = CallsTo(l)
<1> DEFINE e == [call[id] EXCEPT !.state = "ended", !.status = r.status,
                                 !.content = r.content]
<1>1. call \in [Calls -> CallRow] /\ call' = [call EXCEPT ![id] = e]
  BY DEF IInv, TypeOK, CallEnds
<1>2. e.lead = call[id].lead /\ e.state = "ended"
  BY <1>1 DEF CallRow
<1> HIDE DEF e
<1>3. QED
  BY <1>1, <1>2 DEF UnusedIsNobodys, CallsTo

LEMMA NextKeepsOffList ==
    IInv /\ UnusedIsNobodys /\ [Next]_vars
      => /\ UnusedIsNobodys'
         /\ \A l \in Leads : OnDnc(l) /\ ~Claimed(l)
              => ~Claimed(l)' /\ CallsTo(l)' = CallsTo(l)
<1> DEFINE Kept == /\ UnusedIsNobodys'
                   /\ \A l \in Leads : OnDnc(l) /\ ~Claimed(l)
                        => ~Claimed(l)' /\ CallsTo(l)' = CallsTo(l)
<1> SUFFICES ASSUME IInv, UnusedIsNobodys, [Next]_vars PROVE Kept
  OBVIOUS
<1>1. ASSUME UNCHANGED <<work, call>> PROVE Kept
  BY <1>1 DEF UnusedIsNobodys, Claimed, CallsTo
<1>2. ASSUME NEW w \in Workers, Claims(w) PROVE Kept
  <2>1. call' = call
    BY <1>2 DEF Claims, ClaimLeads, outside
  <2>2. QED
    BY <1>2, <2>1, ClaimsKeepOffList DEF UnusedIsNobodys, CallsTo
<1>3. ASSUME NEW w \in Workers, Commit(w) \/ Crash(w) PROVE Kept
  <2>1. /\ call' = call
        /\ work' = [work EXCEPT ![w] = [l \in Leads |-> Nothing]]
    BY <1>3 DEF Commit, Crash, outside
  <2>2. \A l \in Leads : ~Claimed(l) => ~Claimed(l)'
    BY <2>1, ReleasedTick DEF Claimed
  <2>3. QED
    BY <2>1, <2>2 DEF UnusedIsNobodys, CallsTo
<1>4. ASSUME NEW w \in Workers, NEW l \in Leads, Dial(w, l) PROVE Kept
  BY <1>4, DialKeepsOthers
<1>5. ASSUME NEW id \in Calls, NEW r \in Results, CallEnds(id, r) PROVE Kept
  <2>1. work' = work
    BY <1>5 DEF CallEnds
  <2>2. QED
    BY <1>5, <2>1, EndsKeepCalls DEF Claimed
<1>6. ASSUME NEW id \in Calls, Webhook(id) \/ LoseWebhook(id)
      PROVE  UNCHANGED <<work, call>>
  <2>1. ASSUME NEW l \in Leads, NEW k \in 1..RowBound, RecordOutcome(l, k, id)
        PROVE  UNCHANGED <<work, call>>
    BY <2>1 DEF RecordOutcome
  <2>2. ASSUME LoseWebhook(id) \/ IgnoreDuplicate(id) \/ IgnoreUnknown(id)
        PROVE  UNCHANGED <<work, call>>
    BY <2>2 DEF LoseWebhook, IgnoreDuplicate, IgnoreUnknown
  <2>3. QED
    BY <1>6, <2>1, <2>2 DEF Webhook, RecordSuppression, RecordConversation, RecordNoConversation
<1>7. ASSUME NEW l \in Leads, NEW k \in 1..RowBound, Review(l, k)
      PROVE  UNCHANGED <<work, call>>
  BY <1>7 DEF Review, QualifyUnconnected, RejectReview, QualifyCall, ConfirmReview, outside
<1>8. ASSUME Operator \/ \E l \in Leads : LockLapses(l) \/ FallsDue(l)
      PROVE  UNCHANGED <<work, call>>
  BY <1>8 DEF Operator, ImportDnc, DeferQueue, SetCampaignActive, Suspend, Resume, RescheduleCallback,
              QuarantineLead, IngestLead, LockLapses, FallsDue, outside
<1>9. ASSUME UNCHANGED vars PROVE UNCHANGED <<work, call>>
  BY <1>9 DEF vars
<1> HIDE DEF Kept
<1>10. QED
  BY <1>1, <1>2, <1>3, <1>4, <1>5, <1>6, <1>7, <1>8, <1>9 DEF Next

-----------------------------------------------------------------------------

(* Once a number is on the do-not-call list, only the leads an open tick had *)
(* already claimed can still be called: the number never leaves the list,    *)
(* no lead with it is claimed again, and no new call is placed to it.        *)
THEOREM DncListIsFinal == Spec => DncIsFinal
<1> DEFINE A == \A l \in Leads :
                  OnDnc(l) /\ ~(\E w \in Workers : work[w][l].stage = "claimed")
                    => /\ OnDnc(l)'
                       /\ ~(\E w \in Workers : work'[w][l].stage = "claimed")
                       /\ CallsTo(l)' = CallsTo(l)
<1>1. Init => UnusedIsNobodys
  BY DEF Init, UnusedIsNobodys
<1>2. IInv /\ UnusedIsNobodys /\ [Next]_vars => UnusedIsNobodys'
  BY NextKeepsOffList
<1>3. IInv /\ UnusedIsNobodys /\ [Next]_vars => A
  <2>1. DncGrows => \A l \in Leads : OnDnc(l) => OnDnc(l)'
    BY DEF DncGrows, OnDnc
  <2>2. QED
    BY <2>1, NextDncGrows, NextKeepsOffList DEF Claimed
<1>4. IInv /\ UnusedIsNobodys /\ [Next]_vars => [A]_vars
  BY <1>3
<1>5. QED
  BY <1>1, <1>2, <1>4, Invariance, PTL DEF Spec, DncIsFinal

-----------------------------------------------------------------------------
(* Rows and calls                                                            *)

(* The provider's record: unused ids belong to nobody, and an outcome is     *)
(* there only once the call has ended.                                       *)
CallsInOrder ==
    \A id \in Calls :
        /\ call[id].state = "unused" => call[id].lead = NoLead
        /\ call[id].state # "ended" => call[id].status = "none"

(* A call an open tick holds was placed to that lead and is in no row yet.   *)
HeldCallsAreNew ==
    \A w \in Workers, l \in Leads :
        work[w][l].call # NoCall =>
            /\ work[w][l].stage = "initiated"
            /\ call[work[w][l].call].lead = l
            /\ \A m \in Leads, k \in 1..RowBound : attempt[m][k].call # work[w][l].call

(* A row that names a call exists.                                           *)
NamedRowsExist ==
    \A l \in Leads, k \in 1..RowBound :
        attempt[l][k].call # NoCall => attempt[l][k].status # "none"

RInv == CallsInOrder /\ HeldCallsAreNew /\ NamedRowsExist /\ RowsMatchCalls

LEMMA RInvInit == Init => RInv
BY DEF Init, RInv, CallsInOrder, HeldCallsAreNew, NamedRowsExist, RowsMatchCalls, Nothing, NoRow

LEMMA RowTypes ==
    ASSUME TypeOK
    PROVE  /\ \A l \in Leads, k \in 1..RowBound :
                attempt[l][k] \in AttemptRow /\ (attempt[l][k].call # NoCall => attempt[l][k].call \in Calls)
           /\ \A w \in Workers, l \in Leads :
                work[w][l] \in Holding /\ (work[w][l].call # NoCall => work[w][l].call \in Calls)
           /\ \A id \in Calls : call[id] \in CallRow
<1>1. ASSUME NEW l \in Leads, NEW k \in 1..RowBound
      PROVE  attempt[l][k] \in AttemptRow /\ (attempt[l][k].call # NoCall => attempt[l][k].call \in Calls)
  <2>1. attempt[l][k] \in AttemptRow
    BY DEF TypeOK
  <2>2. QED
    BY <2>1 DEF AttemptRow
<1>2. ASSUME NEW w \in Workers, NEW l \in Leads
      PROVE  work[w][l] \in Holding /\ (work[w][l].call # NoCall => work[w][l].call \in Calls)
  <2>1. work[w][l] \in Holding
    BY DEF TypeOK
  <2>2. QED
    BY <2>1 DEF Holding
<1>3. QED
  BY <1>1, <1>2 DEF TypeOK

-----------------------------------------------------------------------------
(* Steps that name no call                                                   *)

(* Rows may change in anything but call and status; ticks may let go.        *)
LEMMA QuietRows ==
    ASSUME RInv, UNCHANGED call,
           \A l \in Leads, k \in 1..RowBound :
              attempt'[l][k].call = attempt[l][k].call /\ attempt'[l][k].status = attempt[l][k].status,
           \A w \in Workers, l \in Leads :
              work'[w][l].call # NoCall => work'[w][l] = work[w][l]
    PROVE  RInv'
<1>1. CallsInOrder' /\ NamedRowsExist'
  BY DEF RInv, CallsInOrder, NamedRowsExist
<1>2. HeldCallsAreNew'
  BY DEF RInv, HeldCallsAreNew
<1>3. RowsMatchCalls'
  BY DEF RInv, RowsMatchCalls
<1>4. QED
  BY <1>1, <1>2, <1>3 DEF RInv

LEMMA AnalysisRows ==
    ASSUME RInv, IInv, NEW l \in Leads, NEW k \in 1..RowBound, NEW v,
           attempt' = [attempt EXCEPT ![l][k].analysis = v],
           UNCHANGED <<work, call>>
    PROVE  RInv'
<1>1. attempt \in [Leads -> [1..RowBound -> AttemptRow]]
  BY DEF IInv, TypeOK
<1>2. \A m \in Leads, j \in 1..RowBound :
        attempt'[m][j] = IF m = l /\ j = k THEN [attempt[l][k] EXCEPT !.analysis = v] ELSE attempt[m][j]
  BY <1>1
<1>3. attempt[l][k] \in AttemptRow
  BY <1>1
<1>4. /\ [attempt[l][k] EXCEPT !.analysis = v].call = attempt[l][k].call
      /\ [attempt[l][k] EXCEPT !.analysis = v].status = attempt[l][k].status
  BY <1>3 DEF AttemptRow
<1>5. QED
  BY <1>2, <1>4, QuietRows

LEMMA TickRows ==
    ASSUME RInv, IInv, NEW w \in Workers, NEW h, UNCHANGED <<attempt, call>>,
           work' = [work EXCEPT ![w] = h],
           \A l \in Leads : h[l].call = NoCall \/ h[l] = work[w][l]
    PROVE  RInv'
<1>1. \A v \in Workers, l \in Leads : work'[v][l] = IF v = w THEN h[l] ELSE work[v][l]
  BY DEF IInv, TypeOK
<1>2. QED
  BY <1>1, QuietRows

LEMMA ClaimRows ==
    ASSUME RInv, IInv, NEW w \in Workers, Claims(w) \/ Crash(w)
    PROVE  RInv'
<1>1. ASSUME NEW c, NEW S, NEW barred, ClaimLeads(w, c, S, barred) PROVE RInv'
  <2> DEFINE h == [l \in Leads |-> Hold(l, S, barred, Stale(c))]
  <2>1. /\ work' = [work EXCEPT ![w] = h] /\ UNCHANGED <<attempt, call>>
    BY <1>1 DEF ClaimLeads, tables, outside
  <2>2. \A l \in Leads : h[l].call = NoCall
    BY DEF Hold, Nothing
  <2> HIDE DEF h
  <2>3. QED
    BY <2>1, <2>2, TickRows
<1>2. CASE Crash(w)
  <2> DEFINE h == [l \in Leads |-> Nothing]
  <2>1. /\ work' = [work EXCEPT ![w] = h] /\ UNCHANGED <<attempt, call>>
    BY <1>2 DEF Crash, tables, outside
  <2>2. \A l \in Leads : h[l].call = NoCall
    BY DEF Nothing
  <2> HIDE DEF h
  <2>3. QED
    BY <2>1, <2>2, TickRows
<1>3. QED
  BY <1>1, <1>2 DEF Claims

LEMMA ReviewRows ==
    ASSUME RInv, IInv, NEW l \in Leads, NEW k \in 1..RowBound, Review(l, k)
    PROVE  RInv'
<1>1. \E v : attempt' = [attempt EXCEPT ![l][k].analysis = v]
  <2>1. CASE QualifyUnconnected(l, k)
    BY <2>1 DEF QualifyUnconnected
  <2>2. CASE RejectReview(l, k)
    BY <2>2 DEF RejectReview
  <2>3. ASSUME NEW verdict, QualifyCall(l, k, verdict) PROVE \E v : attempt' = [attempt EXCEPT ![l][k].analysis = v]
    BY <2>3 DEF QualifyCall
  <2>4. ASSUME NEW verdict, ConfirmReview(l, k, verdict) PROVE \E v : attempt' = [attempt EXCEPT ![l][k].analysis = v]
    BY <2>4 DEF ConfirmReview
  <2>5. QED
    BY <2>1, <2>2, <2>3, <2>4 DEF Review
<1>2. UNCHANGED <<work, call>>
  BY DEF Review, QualifyUnconnected, RejectReview, QualifyCall, ConfirmReview, outside
<1>3. QED
  BY <1>1, <1>2, AnalysisRows

LEMMA ElsewhereRows ==
    ASSUME RInv, UNCHANGED <<attempt, work, call>>
    PROVE  RInv'
BY QuietRows

-----------------------------------------------------------------------------
(* The life of a call                                                        *)

(* An id that was unused is in no tick's hands and in no row.                *)
LEMMA UnusedIsNew ==
    ASSUME RInv, IInv, NEW id \in Calls, call[id].state = "unused"
    PROVE  /\ \A w \in Workers, l \in Leads : work[w][l].call # id
           /\ \A l \in Leads, k \in 1..RowBound : attempt[l][k].call # id
<1>1. call[id].lead \notin Leads /\ id # NoCall
  BY ConstantsAssumption DEF ConstantsAssumption, RInv, CallsInOrder
<1>2. QED
  BY <1>1 DEF RInv, HeldCallsAreNew, RowsMatchCalls

LEMMA AcceptedRows ==
    ASSUME RInv, IInv, NEW w \in Workers, NEW l \in Leads, NEW id \in Calls,
           NEW stage, NEW held \in {id, NoCall},
           held = id => stage = "initiated",
           Dialled(w, l, stage, held), ProviderAccepts(l, id), UNCHANGED attempt
    PROVE  RInv'
<1>1. /\ \A v \in Workers, m \in Leads :
           work'[v][m] = IF v = w /\ m = l THEN [stage |-> stage, call |-> held] ELSE work[v][m]
  BY DEF Dialled, IInv, TypeOK
<1>2. /\ call \in [Calls -> CallRow] /\ call[id].state = "unused"
      /\ call' = [call EXCEPT ![id].lead = l, ![id].state = "live"]
  BY DEF ProviderAccepts, IInv, TypeOK
<1>3. /\ \A j \in Calls : j # id => call'[j] = call[j]
      /\ call'[id].lead = l /\ call'[id].state = "live" /\ call'[id].status = call[id].status
  BY <1>2 DEF CallRow
<1>4. \A m \in Leads, k \in 1..RowBound : attempt[m][k].call # NoCall =>
        attempt[m][k].call \in Calls /\ attempt[m][k].call # id
  BY <1>2, UnusedIsNew, RowTypes DEF IInv
<1>5. CallsInOrder'
  BY <1>2, <1>3 DEF RInv, CallsInOrder
<1>6. NamedRowsExist'
  BY DEF RInv, NamedRowsExist
<1>7. RowsMatchCalls'
  BY <1>3, <1>4 DEF RInv, RowsMatchCalls
<1>8. HeldCallsAreNew'
  <2> SUFFICES ASSUME NEW v \in Workers, NEW m \in Leads, work'[v][m].call # NoCall
               PROVE  /\ work'[v][m].stage = "initiated"
                      /\ call'[work'[v][m].call].lead = m
                      /\ \A n \in Leads, k \in 1..RowBound : attempt'[n][k].call # work'[v][m].call
    BY DEF HeldCallsAreNew
  <2>1. CASE v = w /\ m = l
    <3>1. work'[v][m].call = id /\ work'[v][m].stage = "initiated"
      BY <1>1, <2>1
    <3>2. QED
      BY <1>2, <1>3, <2>1, <3>1, UnusedIsNew
  <2>2. CASE ~(v = w /\ m = l)
    <3>1. work'[v][m] = work[v][m] /\ work[v][m].call \in Calls /\ work[v][m].call # id
      BY <1>1, <1>2, <2>2, UnusedIsNew, RowTypes DEF IInv
    <3>2. QED
      BY <1>3, <3>1 DEF RInv, HeldCallsAreNew
  <2>3. QED
    BY <2>1, <2>2
<1>9. QED
  BY <1>5, <1>6, <1>7, <1>8 DEF RInv

LEMMA DialRows ==
    ASSUME RInv, IInv, NEW w \in Workers, NEW l \in Leads, Dial(w, l)
    PROVE  RInv'
<1>1. ASSUME NEW id \in Calls, PlaceCall(w, l, id) PROVE RInv'
  <2>1. Dialled(w, l, "initiated", id) /\ ProviderAccepts(l, id) /\ UNCHANGED attempt
    BY <1>1 DEF PlaceCall, tables
  <2>2. QED
    BY <2>1, AcceptedRows
<1>2. ASSUME NEW id \in Calls, PlaceCallUnheard(w, l, id) PROVE RInv'
  <2>1. Dialled(w, l, "refused", NoCall) /\ ProviderAccepts(l, id) /\ UNCHANGED attempt /\ id # NoCall
    BY <1>2, ConstantsAssumption DEF ConstantsAssumption, PlaceCallUnheard, tables
  <2>2. QED
    BY <2>1, AcceptedRows
<1>3. ASSUME NEW stage, RefuseCall(w, l, stage) PROVE RInv'
  <2>1. /\ work' = [work EXCEPT ![w][l] = [stage |-> stage, call |-> NoCall]]
        /\ UNCHANGED <<attempt, call>>
    BY <1>3 DEF RefuseCall, Dialled, tables, outside
  <2>2. \A v \in Workers, m \in Leads :
          work'[v][m] = IF v = w /\ m = l THEN [stage |-> stage, call |-> NoCall] ELSE work[v][m]
    BY <2>1 DEF IInv, TypeOK
  <2>3. QED
    BY <2>1, <2>2, QuietRows
<1>4. QED
  BY <1>1, <1>2, <1>3 DEF Dial

(* The outcome is given once, and the row that names the call is in flight.  *)
LEMMA EndRows ==
    ASSUME RInv, IInv, NEW id \in Calls, NEW r \in Results, CallEnds(id, r)
    PROVE  RInv'
<1>0. /\ \A l \in Leads, k \in 1..RowBound : attempt[l][k].call # NoCall => attempt[l][k].call \in Calls
      /\ \A w \in Workers, l \in Leads : work[w][l].call # NoCall => work[w][l].call \in Calls
  <2>1. TypeOK
    BY DEF IInv
  <2>2. QED
    BY <2>1, RowTypes
<1>1. /\ call \in [Calls -> CallRow] /\ call[id].state = "live"
      /\ call' = [call EXCEPT ![id].state = "ended", ![id].status = r.status, ![id].content = r.content]
      /\ UNCHANGED <<attempt, work>>
  BY DEF CallEnds, IInv, TypeOK, tables
<1>2. attempt' = attempt /\ work' = work
  BY <1>1
<1>3. /\ \A j \in Calls : j # id => call'[j] = call[j]
      /\ call'[id].lead = call[id].lead /\ call'[id].state = "ended"
  BY <1>1 DEF CallRow
<1>4. call[id].status = "none"
  BY <1>1 DEF RInv, CallsInOrder
<1>5. CallsInOrder' /\ NamedRowsExist'
  BY <1>1, <1>3 DEF RInv, CallsInOrder, NamedRowsExist
<1>6. HeldCallsAreNew'
  <2> SUFFICES ASSUME NEW w \in Workers, NEW l \in Leads, work[w][l].call # NoCall
               PROVE  /\ work[w][l].stage = "initiated" /\ call'[work[w][l].call].lead = l
                      /\ \A m \in Leads, k \in 1..RowBound : attempt[m][k].call # work[w][l].call
    BY <1>2 DEF HeldCallsAreNew
  <2>1. /\ work[w][l].call \in Calls /\ work[w][l].stage = "initiated" /\ call[work[w][l].call].lead = l
        /\ \A m \in Leads, k \in 1..RowBound : attempt[m][k].call # work[w][l].call
    BY <1>0 DEF RInv, HeldCallsAreNew
  <2>2. QED
    BY <1>3, <2>1
<1>7. RowsMatchCalls'
  <2> SUFFICES ASSUME NEW l \in Leads, NEW k \in 1..RowBound, attempt[l][k].call # NoCall
               PROVE  /\ call'[attempt[l][k].call].lead = l
                      /\ attempt[l][k].status \in {"open", call'[attempt[l][k].call].status}
                      /\ \A m \in Leads, j \in 1..RowBound :
                            attempt[m][j].call = attempt[l][k].call => m = l /\ j = k
    BY <1>2 DEF RowsMatchCalls
  <2>1. /\ attempt[l][k].call \in Calls /\ call[attempt[l][k].call].lead = l
        /\ attempt[l][k].status \in {"open", call[attempt[l][k].call].status}
        /\ attempt[l][k].status # "none"
        /\ \A m \in Leads, j \in 1..RowBound : attempt[m][j].call = attempt[l][k].call => m = l /\ j = k
    BY <1>0 DEF RInv, RowsMatchCalls, NamedRowsExist
  <2>2. QED
    BY <1>3, <1>4, <2>1
<1>8. QED
  BY <1>5, <1>6, <1>7 DEF RInv

(* The row that names the call gets the outcome the provider gave.           *)
LEMMA OutcomeRows ==
    ASSUME RInv, IInv, NEW l \in Leads, NEW k \in 1..RowBound, NEW id \in Calls, RecordOutcome(l, k, id)
    PROVE  RInv'
<1> DEFINE row == [attempt[l][k] EXCEPT !.status = call[id].status,
                                        !.heard = (call[id].content = "transcript")]
<1>1. /\ attempt \in [Leads -> [1..RowBound -> AttemptRow]] /\ attempt[l][k].call = id
      /\ attempt' = [attempt EXCEPT ![l][k] = row] /\ UNCHANGED <<work, call>>
      /\ call[id].status \in Terminal
  BY ZenonT(30) DEF RecordOutcome, Names, Answer, IInv, TypeOK, WireHasOutcomes
<1>2. row.call = id /\ row.status = call[id].status /\ row.status # "none"
  BY <1>1 DEF AttemptRow, Terminal
<1> HIDE DEF row
<1>3. \A m \in Leads, j \in 1..RowBound : attempt'[m][j] = IF m = l /\ j = k THEN row ELSE attempt[m][j]
  BY <1>1
<1>4. \A m \in Leads, j \in 1..RowBound : attempt'[m][j].call = attempt[m][j].call
  BY <1>1, <1>2, <1>3
<1>5. CallsInOrder' /\ HeldCallsAreNew'
  BY <1>1, <1>4 DEF RInv, CallsInOrder, HeldCallsAreNew
<1>6. NamedRowsExist'
  BY <1>2, <1>3 DEF RInv, NamedRowsExist
<1>7. RowsMatchCalls'
  BY <1>1, <1>2, <1>3, <1>4 DEF RInv, RowsMatchCalls
<1>8. QED
  BY <1>5, <1>6, <1>7 DEF RInv

LEMMA WebhookRows ==
    ASSUME RInv, IInv, NEW id \in Calls, Webhook(id)
    PROVE  RInv'
<1>1. CASE IgnoreDuplicate(id) \/ IgnoreUnknown(id)
  BY <1>1, ElsewhereRows DEF IgnoreDuplicate, IgnoreUnknown, tables
<1>2. ASSUME NEW l \in Leads, NEW k \in 1..RowBound,
             RecordSuppression(l, k, id) \/ RecordConversation(l, k, id) \/ RecordNoConversation(l, k, id)
      PROVE  RInv'
  BY <1>2, OutcomeRows DEF RecordSuppression, RecordConversation, RecordNoConversation
<1>3. QED
  BY <1>1, <1>2 DEF Webhook

(* A commit moves each call it holds from the tick's hands into one new row. *)
LEMMA CommitRows ==
    ASSUME RInv, IInv, NEW w \in Workers, Commit(w)
    PROVE  RInv'
<1>1. /\ UNCHANGED call
      /\ \A v \in Workers, l \in Leads : work'[v][l] = IF v = w THEN Nothing ELSE work[v][l]
  BY DEF Commit, outside, IInv, TypeOK
<1> DEFINE New(l, k) == work[w][l].stage \in Placed /\ k = lead[l].count + 1
<1>2. \A l \in Leads, k \in 1..RowBound :
        attempt'[l][k] = IF New(l, k) THEN NewAttempt(work[w][l]) ELSE attempt[l][k]
  BY CommitLead
<1>3. ASSUME NEW l \in Leads
      PROVE  /\ NewAttempt(work[w][l]).call = work[w][l].call
             /\ NewAttempt(work[w][l]).status # "none"
             /\ work[w][l].stage = "initiated" => NewAttempt(work[w][l]).status = "open"
  BY DEF NewAttempt, NoRow
<1>4. ASSUME NEW l \in Leads, work[w][l].call # NoCall
      PROVE  /\ work[w][l].stage = "initiated" /\ call[work[w][l].call].lead = l
             /\ \A m \in Leads, k \in 1..RowBound : attempt[m][k].call # work[w][l].call
  BY <1>4 DEF RInv, HeldCallsAreNew
<1> HIDE DEF New
<1>5. CallsInOrder'
  BY <1>1 DEF RInv, CallsInOrder
<1>6. NamedRowsExist'
  BY <1>2, <1>3 DEF RInv, NamedRowsExist
<1>7. RowsMatchCalls'
  <2> SUFFICES ASSUME NEW l \in Leads, NEW k \in 1..RowBound, attempt'[l][k].call # NoCall
               PROVE  /\ call[attempt'[l][k].call].lead = l
                      /\ attempt'[l][k].status \in {"open", call[attempt'[l][k].call].status}
                      /\ \A m \in Leads, j \in 1..RowBound :
                            attempt'[m][j].call = attempt'[l][k].call => m = l /\ j = k
    BY <1>1 DEF RowsMatchCalls
  <2>1. CASE New(l, k)
    <3>1. /\ attempt'[l][k].call = work[w][l].call /\ work[w][l].call # NoCall
          /\ attempt'[l][k].status = "open"
          /\ call[work[w][l].call].lead = l
          /\ \A m \in Leads, j \in 1..RowBound : attempt[m][j].call # work[w][l].call
      BY <1>2, <1>3, <1>4, <2>1
    <3>2. ASSUME NEW m \in Leads, NEW j \in 1..RowBound, attempt'[m][j].call = work[w][l].call
          PROVE  m = l /\ j = k
      <4>1. New(m, j) /\ work[w][m].call = work[w][l].call
        BY <1>2, <1>3, <3>1, <3>2
      <4>2. m = l
        BY <1>4, <3>1, <4>1
      <4>3. QED
        BY <2>1, <4>1, <4>2 DEF New
    <3>3. QED
      BY <3>1, <3>2
  <2>2. CASE ~New(l, k)
    <3>1. attempt'[l][k] = attempt[l][k]
      BY <1>2, <2>2
    <3>2. /\ call[attempt[l][k].call].lead = l
          /\ attempt[l][k].status \in {"open", call[attempt[l][k].call].status}
          /\ \A m \in Leads, j \in 1..RowBound :
                attempt[m][j].call = attempt[l][k].call => m = l /\ j = k
      BY <3>1 DEF RInv, RowsMatchCalls
    <3>3. ASSUME NEW m \in Leads, NEW j \in 1..RowBound, attempt'[m][j].call = attempt[l][k].call
          PROVE  m = l /\ j = k
      <4>1. ~New(m, j)
        BY <1>2, <1>3, <1>4, <3>1, <3>3
      <4>2. QED
        BY <1>2, <3>2, <3>3, <4>1
    <3>4. QED
      BY <3>1, <3>2, <3>3
  <2>3. QED
    BY <2>1, <2>2
<1>8. HeldCallsAreNew'
  <2> SUFFICES ASSUME NEW v \in Workers, NEW l \in Leads, work'[v][l].call # NoCall
               PROVE  /\ work'[v][l].stage = "initiated" /\ call[work'[v][l].call].lead = l
                      /\ \A m \in Leads, k \in 1..RowBound : attempt'[m][k].call # work'[v][l].call
    BY <1>1 DEF HeldCallsAreNew
  <2>1. v # w /\ work'[v][l] = work[v][l]
    BY <1>1 DEF Nothing
  <2>2. /\ work[v][l].stage = "initiated" /\ call[work[v][l].call].lead = l
        /\ \A m \in Leads, k \in 1..RowBound : attempt[m][k].call # work[v][l].call
    BY <2>1 DEF RInv, HeldCallsAreNew
  <2>3. ASSUME NEW m \in Leads, NEW k \in 1..RowBound, New(m, k) PROVE attempt'[m][k].call # work[v][l].call
    <3> SUFFICES ASSUME work[w][m].call = work[v][l].call PROVE FALSE
      BY <1>2, <1>3, <2>3
    <3>1. work[w][m].stage = "initiated" /\ call[work[w][m].call].lead = m
      BY <1>4, <2>1
    <3>2. m = l
      BY <2>2, <3>1
    <3>3. QED
      BY <2>1, <2>2, <3>1, <3>2 DEF IInv, ExclusiveClaim
  <2>4. QED
    BY <1>2, <2>1, <2>2, <2>3
<1>9. QED
  BY <1>5, <1>6, <1>7, <1>8 DEF RInv

-----------------------------------------------------------------------------

LEMMA RInvStep == RInv /\ IInv /\ [Next]_vars => RInv'
<1> SUFFICES ASSUME RInv, IInv, [Next]_vars PROVE RInv'
  OBVIOUS
<1>1. ASSUME NEW w \in Workers, Claims(w) \/ Crash(w) PROVE RInv'
  BY <1>1, ClaimRows
<1>2. ASSUME NEW w \in Workers, Commit(w) PROVE RInv'
  BY <1>2, CommitRows
<1>3. ASSUME NEW w \in Workers, NEW l \in Leads, Dial(w, l) PROVE RInv'
  BY <1>3, DialRows
<1>4. ASSUME NEW id \in Calls, Webhook(id) PROVE RInv'
  BY <1>4, WebhookRows
<1>5. ASSUME NEW id \in Calls, LoseWebhook(id) PROVE RInv'
  BY <1>5, ElsewhereRows DEF LoseWebhook, tables
<1>6. ASSUME NEW id \in Calls, NEW r \in Results, CallEnds(id, r) PROVE RInv'
  BY <1>6, EndRows
<1>7. ASSUME NEW l \in Leads, NEW k \in 1..RowBound, Review(l, k) PROVE RInv'
  BY <1>7, ReviewRows
<1>8. CASE Operator
  BY <1>8, ElsewhereRows DEF Operator, ImportDnc, DeferQueue, SetCampaignActive, Suspend, Resume,
     RescheduleCallback, QuarantineLead, IngestLead, outside
<1>9. ASSUME NEW l \in Leads, LockLapses(l) \/ FallsDue(l) PROVE RInv'
  BY <1>9, ElsewhereRows DEF LockLapses, FallsDue, outside
<1>10. CASE UNCHANGED vars
  BY <1>10, ElsewhereRows DEF vars
<1>11. QED
  BY <1>1, <1>2, <1>3, <1>4, <1>5, <1>6, <1>7, <1>8, <1>9, <1>10 DEF Next

(* The attempts table and the provider agree on who was called and how it    *)
(* ended, through crashes, unheard answers and repeated webhooks (worker.ts  *)
(* 141-178, results.ts 41-70).                                               *)
THEOREM RowsNameTheirCalls == Spec => []RowsMatchCalls
<1>1. RInv => RowsMatchCalls
  BY DEF RInv
<1>2. QED
  BY <1>1, RInvInit, RInvStep, Invariance, PTL DEF Spec

-----------------------------------------------------------------------------
(* No result is dropped, when none comes before its tick's commit            *)

(* A call in a tick's hands has not ended, and a call that has ended in an   *)
(* attempt in flight is one whose webhook is neither lost nor handled.       *)
ResultsToCome ==
    /\ \A w \in Workers, l \in Leads :
          /\ work[w][l].stage = "initiated" => work[w][l].call # NoCall
          /\ work[w][l].call # NoCall => call[work[w][l].call].state = "live"
    /\ \A id \in wire \cup keys : call[id].state = "ended"
    /\ \A l \in Leads, k \in 1..RowBound :
          attempt[l][k].status = "open" =>
              /\ attempt[l][k].call \in Calls
              /\ call[attempt[l][k].call].state = "ended" =>
                    attempt[l][k].call \in wire \ keys

LEMMA ResultsInit == Init => ResultsToCome
BY DEF Init, ResultsToCome, Nothing, NoRow

LEMMA QuietResults ==
    ASSUME ResultsToCome, UNCHANGED <<call, wire, keys>>,
           \A l \in Leads, k \in 1..RowBound :
              attempt'[l][k].call = attempt[l][k].call /\ attempt'[l][k].status = attempt[l][k].status,
           \A w \in Workers, l \in Leads :
              \/ work'[w][l] = work[w][l]
              \/ work'[w][l].call = NoCall /\ work'[w][l].stage # "initiated"
    PROVE  ResultsToCome'
BY DEF ResultsToCome

LEMMA AnalysisResults ==
    ASSUME ResultsToCome, IInv, NEW l \in Leads, NEW k \in 1..RowBound, Review(l, k)
    PROVE  ResultsToCome'
<1>1. \E v : attempt' = [attempt EXCEPT ![l][k].analysis = v]
  <2>1. CASE QualifyUnconnected(l, k)
    BY <2>1 DEF QualifyUnconnected
  <2>2. CASE RejectReview(l, k)
    BY <2>2 DEF RejectReview
  <2>3. ASSUME NEW verdict, QualifyCall(l, k, verdict) PROVE \E v : attempt' = [attempt EXCEPT ![l][k].analysis = v]
    BY <2>3 DEF QualifyCall
  <2>4. ASSUME NEW verdict, ConfirmReview(l, k, verdict) PROVE \E v : attempt' = [attempt EXCEPT ![l][k].analysis = v]
    BY <2>4 DEF ConfirmReview
  <2>5. QED
    BY <2>1, <2>2, <2>3, <2>4 DEF Review
<1>2. UNCHANGED <<work, call, wire, keys>>
  BY DEF Review, QualifyUnconnected, RejectReview, QualifyCall, ConfirmReview, outside
<1>3. /\ attempt \in [Leads -> [1..RowBound -> AttemptRow]] /\ attempt[l][k] \in AttemptRow
  BY DEF IInv, TypeOK
<1>4. PICK v : attempt' = [attempt EXCEPT ![l][k].analysis = v]
  BY <1>1
<1>5. /\ [attempt[l][k] EXCEPT !.analysis = v].call = attempt[l][k].call
      /\ [attempt[l][k] EXCEPT !.analysis = v].status = attempt[l][k].status
  BY <1>3 DEF AttemptRow
<1>6. \A m \in Leads, j \in 1..RowBound :
        attempt'[m][j] = IF m = l /\ j = k THEN [attempt[l][k] EXCEPT !.analysis = v] ELSE attempt[m][j]
  BY <1>3, <1>4
<1>7. QED
  BY <1>2, <1>5, <1>6, QuietResults

LEMMA ReleasedResults ==
    ASSUME ResultsToCome, IInv, NEW w \in Workers, Claims(w) \/ Crash(w)
    PROVE  ResultsToCome'
<1>1. ASSUME NEW h, work' = [work EXCEPT ![w] = h], UNCHANGED <<attempt, call, wire, keys>>,
             \A l \in Leads : h[l].call = NoCall /\ h[l].stage # "initiated"
      PROVE  ResultsToCome'
  <2>1. \A v \in Workers, l \in Leads : work'[v][l] = IF v = w THEN h[l] ELSE work[v][l]
    BY <1>1 DEF IInv, TypeOK
  <2>2. QED
    BY <1>1, <2>1, QuietResults
<1>2. ASSUME NEW c, NEW S, NEW barred, ClaimLeads(w, c, S, barred) PROVE ResultsToCome'
  <2> DEFINE h == [l \in Leads |-> Hold(l, S, barred, Stale(c))]
  <2>1. /\ work' = [work EXCEPT ![w] = h] /\ UNCHANGED <<attempt, call, wire, keys>>
    BY <1>2 DEF ClaimLeads, tables, outside
  <2>2. \A l \in Leads : h[l].call = NoCall /\ h[l].stage # "initiated"
    BY DEF Hold, Nothing
  <2> HIDE DEF h
  <2>3. QED
    BY <1>1, <2>1, <2>2
<1>3. CASE Crash(w)
  <2> DEFINE h == [l \in Leads |-> Nothing]
  <2>1. /\ work' = [work EXCEPT ![w] = h] /\ UNCHANGED <<attempt, call, wire, keys>>
    BY <1>3 DEF Crash, tables, outside
  <2>2. \A l \in Leads : h[l].call = NoCall /\ h[l].stage # "initiated"
    BY DEF Nothing
  <2> HIDE DEF h
  <2>3. QED
    BY <1>1, <2>1, <2>2
<1>4. QED
  BY <1>2, <1>3 DEF Claims

(* The provider accepts, whether or not this process hears of it.            *)
LEMMA AcceptedResults ==
    ASSUME ResultsToCome, RInv, IInv, NEW w \in Workers, NEW l \in Leads, NEW id \in Calls,
           NEW stage, NEW held \in {id, NoCall},
           stage = "initiated" => held = id,
           Dialled(w, l, stage, held), ProviderAccepts(l, id), UNCHANGED <<attempt, wire, keys>>
    PROVE  ResultsToCome'
<1>1. \A v \in Workers, m \in Leads :
        work'[v][m] = IF v = w /\ m = l THEN [stage |-> stage, call |-> held] ELSE work[v][m]
  BY DEF Dialled, IInv, TypeOK
<1>2. /\ call \in [Calls -> CallRow] /\ call[id].state = "unused" /\ id # NoCall
      /\ call' = [call EXCEPT ![id].lead = l, ![id].state = "live"]
  BY ConstantsAssumption DEF ConstantsAssumption, ProviderAccepts, IInv, TypeOK
<1>3. /\ \A j \in Calls : j # id => call'[j] = call[j]
      /\ call'[id].state = "live"
  BY <1>2 DEF CallRow
<1>4. attempt' = attempt /\ wire' = wire /\ keys' = keys /\ wire \cup keys \subseteq Calls
  BY DEF IInv, TypeOK
<1>5. \A v \in Workers, m \in Leads :
        /\ work'[v][m].stage = "initiated" => work'[v][m].call # NoCall
        /\ work'[v][m].call # NoCall => call'[work'[v][m].call].state = "live"
  <2> SUFFICES ASSUME NEW v \in Workers, NEW m \in Leads
               PROVE  /\ work'[v][m].stage = "initiated" => work'[v][m].call # NoCall
                      /\ work'[v][m].call # NoCall => call'[work'[v][m].call].state = "live"
    OBVIOUS
  <2>1. CASE v = w /\ m = l
    BY <1>1, <1>2, <1>3, <2>1
  <2>2. CASE ~(v = w /\ m = l)
    <3>1. work'[v][m] = work[v][m]
      BY <1>1, <2>2
    <3>2. work[v][m].call # NoCall => work[v][m].call \in Calls /\ work[v][m].call # id
      BY <1>2, UnusedIsNew, RowTypes DEF IInv
    <3>3. QED
      BY <1>3, <3>1, <3>2 DEF ResultsToCome
  <2>3. QED
    BY <2>1, <2>2
<1>6. \A j \in wire' \cup keys' : call'[j].state = "ended"
  BY <1>2, <1>3, <1>4 DEF ResultsToCome
<1>7. \A m \in Leads, k \in 1..RowBound :
        attempt[m][k].status = "open" =>
            /\ attempt[m][k].call \in Calls
            /\ call'[attempt[m][k].call].state = "ended" => attempt[m][k].call \in wire \ keys
  BY <1>3 DEF ResultsToCome
<1>8. QED
  BY <1>4, <1>5, <1>6, <1>7 DEF ResultsToCome

LEMMA DialResults ==
    ASSUME ResultsToCome, RInv, IInv, NEW w \in Workers, NEW l \in Leads, Dial(w, l)
    PROVE  ResultsToCome'
<1>1. ASSUME NEW id \in Calls, PlaceCall(w, l, id) PROVE ResultsToCome'
  <2>1. Dialled(w, l, "initiated", id) /\ ProviderAccepts(l, id) /\ UNCHANGED <<attempt, wire, keys>>
    BY <1>1 DEF PlaceCall, tables
  <2>2. QED
    BY <2>1, AcceptedResults
<1>2. ASSUME NEW id \in Calls, PlaceCallUnheard(w, l, id) PROVE ResultsToCome'
  <2>1. Dialled(w, l, "refused", NoCall) /\ ProviderAccepts(l, id) /\ UNCHANGED <<attempt, wire, keys>>
    BY <1>2 DEF PlaceCallUnheard, tables
  <2>2. QED
    BY <2>1, AcceptedResults
<1>3. ASSUME NEW stage \in {"refused", "rejected"}, RefuseCall(w, l, stage) PROVE ResultsToCome'
  <2>1. /\ work' = [work EXCEPT ![w][l] = [stage |-> stage, call |-> NoCall]]
        /\ UNCHANGED <<attempt, call, wire, keys>>
    BY <1>3 DEF RefuseCall, Dialled, tables, outside
  <2>2. \A v \in Workers, m \in Leads :
          work'[v][m] = IF v = w /\ m = l THEN [stage |-> stage, call |-> NoCall] ELSE work[v][m]
    BY <2>1 DEF IInv, TypeOK
  <2>3. QED
    BY <2>1, <2>2, QuietResults
<1>4. QED
  BY <1>1, <1>2, <1>3 DEF Dial

(* No open tick holds the call: its row is committed, or there will be none. *)
LEMMA EndResults ==
    ASSUME ResultsToCome, RInv, IInv, ~EarlyWebhooks, NEW id \in Calls, NEW r \in Results, CallEnds(id, r)
    PROVE  ResultsToCome'
<1>1. /\ call \in [Calls -> CallRow] /\ call[id].state = "live"
      /\ call' = [call EXCEPT ![id].state = "ended", ![id].status = r.status, ![id].content = r.content]
  BY DEF CallEnds, IInv, TypeOK
<1>2. /\ attempt' = attempt /\ work' = work /\ keys' = keys /\ wire' = wire \cup {id}
      /\ \A w \in Workers, l \in Leads : work[w][l].call # id
  BY DEF CallEnds, tables
<1>3. /\ \A j \in Calls : j # id => call'[j] = call[j]
      /\ call'[id].state = "ended"
  BY <1>1 DEF CallRow
<1>4. /\ id \notin keys /\ wire \cup keys \subseteq Calls
      /\ \A w \in Workers, l \in Leads : work[w][l].call # NoCall => work[w][l].call \in Calls
  <2>1. TypeOK
    BY DEF IInv
  <2>2. wire \cup keys \subseteq Calls
    BY <2>1 DEF TypeOK
  <2>3. QED
    BY <1>1, <2>1, <2>2, RowTypes DEF ResultsToCome
<1>5. \A w \in Workers, l \in Leads :
        /\ work[w][l].stage = "initiated" => work[w][l].call # NoCall
        /\ work[w][l].call # NoCall => call'[work[w][l].call].state = "live"
  BY <1>2, <1>3, <1>4 DEF ResultsToCome
<1>6. \A j \in wire' \cup keys : call'[j].state = "ended"
  BY <1>2, <1>3, <1>4 DEF ResultsToCome
<1>7. \A l \in Leads, k \in 1..RowBound :
        attempt[l][k].status = "open" =>
            /\ attempt[l][k].call \in Calls
            /\ call'[attempt[l][k].call].state = "ended" => attempt[l][k].call \in wire' \ keys
  BY <1>2, <1>3, <1>4 DEF ResultsToCome
<1>8. QED
  BY <1>2, <1>5, <1>6, <1>7 DEF ResultsToCome

(* A webhook is forgotten when its event was handled, when no row can ever   *)
(* name its call, or when the row's outcome is stored with it.               *)
LEMMA WebhookResults ==
    ASSUME ResultsToCome, RInv, IInv, NEW id \in Calls, Webhook(id)
    PROVE  ResultsToCome'
<1>1. CASE IgnoreDuplicate(id)
  <2>1. id \in keys /\ wire' = wire \ {id} /\ UNCHANGED <<attempt, call, keys, work>>
    BY <1>1 DEF IgnoreDuplicate, tables
  <2>2. QED
    BY <2>1 DEF ResultsToCome
<1>2. CASE IgnoreUnknown(id)
  <2>1. /\ id \in wire /\ wire' \in {wire, wire \ {id}} /\ keys' \subseteq keys \cup {id}
        /\ UNCHANGED <<attempt, call, work>>
        /\ \A l \in Leads, k \in 1..RowBound : attempt[l][k].call # id
    BY <1>2 DEF IgnoreUnknown, Names, Answer
  <2>2. QED
    BY <2>1 DEF ResultsToCome
<1>3. ASSUME NEW l \in Leads, NEW k \in 1..RowBound, RecordOutcome(l, k, id)
      PROVE  ResultsToCome'
  <2> DEFINE row == [attempt[l][k] EXCEPT !.status = call[id].status,
                                          !.heard = (call[id].content = "transcript")]
  <2>1. /\ attempt \in [Leads -> [1..RowBound -> AttemptRow]] /\ attempt[l][k].call = id
        /\ attempt' = [attempt EXCEPT ![l][k] = row] /\ UNCHANGED <<work, call>>
        /\ call[id].status \in Terminal
        /\ id \in wire /\ wire' \in {wire, wire \ {id}} /\ keys' = keys \cup {id}
    BY <1>3, ZenonT(30) DEF RecordOutcome, Names, Answer, IInv, TypeOK, WireHasOutcomes
  <2>2. row.status # "open"
    BY <2>1 DEF AttemptRow, Terminal
  <2> HIDE DEF row
  <2>3. \A m \in Leads, j \in 1..RowBound : attempt'[m][j] = IF m = l /\ j = k THEN row ELSE attempt[m][j]
    BY <2>1
  <2>4. id # NoCall
    BY ConstantsAssumption DEF ConstantsAssumption
  <2>5. \A m \in Leads, j \in 1..RowBound : attempt[m][j].call = id => m = l /\ j = k
    BY <2>1, <2>4 DEF RInv, RowsMatchCalls
  <2>6. \A m \in Leads, j \in 1..RowBound : attempt'[m][j].status = "open" =>
           attempt'[m][j] = attempt[m][j] /\ attempt[m][j].call # id
    BY <2>2, <2>3, <2>5
  <2>7. \A m \in Leads, j \in 1..RowBound : attempt'[m][j].status = "open" =>
           /\ attempt'[m][j].call \in Calls
           /\ call[attempt'[m][j].call].state = "ended" => attempt'[m][j].call \in wire' \ keys'
    BY <2>1, <2>6 DEF ResultsToCome
  <2>8. QED
    BY <2>1, <2>7 DEF ResultsToCome
<1>4. QED
  BY <1>1, <1>2, <1>3 DEF Webhook, RecordSuppression, RecordConversation, RecordNoConversation

(* The new rows in flight name calls that are still live.                    *)
LEMMA CommitResults ==
    ASSUME ResultsToCome, RInv, IInv, NEW w \in Workers, Commit(w)
    PROVE  ResultsToCome'
<1>1. /\ UNCHANGED <<call, wire, keys>>
      /\ \A v \in Workers, l \in Leads : work'[v][l] = IF v = w THEN Nothing ELSE work[v][l]
  BY DEF Commit, outside, IInv, TypeOK
<1> DEFINE New(l, k) == work[w][l].stage \in Placed /\ k = lead[l].count + 1
<1>2. \A l \in Leads, k \in 1..RowBound :
        attempt'[l][k] = IF New(l, k) THEN NewAttempt(work[w][l]) ELSE attempt[l][k]
  BY CommitLead
<1> HIDE DEF New
<1>3. \A l \in Leads : work[w][l].call # NoCall => work[w][l].call \in Calls
  <2>1. TypeOK
    BY DEF IInv
  <2>2. QED
    BY <2>1, RowTypes
<1>4. ASSUME NEW l \in Leads, NewAttempt(work[w][l]).status = "open"
      PROVE  /\ NewAttempt(work[w][l]).call \in Calls
             /\ call[NewAttempt(work[w][l]).call].state = "live"
  <2>1. work[w][l].stage = "initiated" /\ NewAttempt(work[w][l]).call = work[w][l].call
    BY <1>4 DEF NewAttempt, NoRow
  <2>2. QED
    BY <1>3, <2>1 DEF ResultsToCome
<1>5. \A l \in Leads, k \in 1..RowBound : attempt'[l][k].status = "open" =>
        /\ attempt'[l][k].call \in Calls
        /\ call[attempt'[l][k].call].state = "ended" => attempt'[l][k].call \in wire \ keys
  BY <1>2, <1>4 DEF ResultsToCome
<1>6. QED
  BY <1>1, <1>5 DEF ResultsToCome, Nothing

LEMMA ResultsStep ==
    ASSUME ~EarlyWebhooks, "lose" \notin Inputs
    PROVE  ResultsToCome /\ RInv /\ IInv /\ [Next]_vars => ResultsToCome'
<1> SUFFICES ASSUME ResultsToCome, RInv, IInv, [Next]_vars PROVE ResultsToCome'
  OBVIOUS
<1>1. ASSUME NEW w \in Workers, Claims(w) \/ Crash(w) PROVE ResultsToCome'
  BY <1>1, ReleasedResults
<1>2. ASSUME NEW w \in Workers, Commit(w) PROVE ResultsToCome'
  BY <1>2, CommitResults
<1>3. ASSUME NEW w \in Workers, NEW l \in Leads, Dial(w, l) PROVE ResultsToCome'
  BY <1>3, DialResults
<1>4. ASSUME NEW id \in Calls, Webhook(id) PROVE ResultsToCome'
  BY <1>4, WebhookResults
<1>5. \A id \in Calls : ~LoseWebhook(id)
  BY DEF LoseWebhook
<1>6. ASSUME NEW id \in Calls, NEW r \in Results, CallEnds(id, r) PROVE ResultsToCome'
  BY <1>6, EndResults
<1>7. ASSUME NEW l \in Leads, NEW k \in 1..RowBound, Review(l, k) PROVE ResultsToCome'
  BY <1>7, AnalysisResults
<1>8. ASSUME UNCHANGED <<attempt, work, call, wire, keys>> PROVE ResultsToCome'
  BY <1>8, QuietResults
<1>9. CASE Operator
  BY <1>8, <1>9 DEF Operator, ImportDnc, DeferQueue, SetCampaignActive, Suspend, Resume,
     RescheduleCallback, QuarantineLead, IngestLead, outside
<1>10. ASSUME NEW l \in Leads, LockLapses(l) \/ FallsDue(l) PROVE ResultsToCome'
  BY <1>8, <1>10 DEF LockLapses, FallsDue, outside
<1>11. CASE UNCHANGED vars
  BY <1>8, <1>11 DEF vars
<1>12. QED
  BY <1>1, <1>2, <1>3, <1>4, <1>5, <1>6, <1>7, <1>9, <1>10, <1>11 DEF Next

(* Where webhooks come after the commit and the provider loses none, the     *)
(* route (voice/[provider]/route.ts 105-116, 234-236) acknowledges no result *)
(* without storing it, whatever else crashes, repeats or interleaves.        *)
THEOREM ResultsAreKept ==
    ASSUME ~EarlyWebhooks, "lose" \notin Inputs
    PROVE  Spec => []NoResultDropped
<1>1. ResultsToCome /\ RInv /\ IInv /\ [Next]_vars => ResultsToCome'
  BY ResultsStep
<1>2. ResultsToCome => NoResultDropped
  BY DEF ResultsToCome, NoResultDropped
<1>3. QED
  BY <1>1, <1>2, ResultsInit, RInvInit, RInvStep, Invariance, PTL DEF Spec

=============================================================================
