---------------------------- MODULE LeadScoring ----------------------------
(***************************************************************************)
(* What the platform makes of one qualification result: the score and the  *)
(* routing decision (qualification/scoring.ts), the review gate            *)
(* (review.ts) and what a trusted result does to the lead (commitAnalysis  *)
(* in pipeline.ts).  Pure: the answers of a call go in, a decision comes   *)
(* out.  Free text is abstracted to whether it was given.                  *)
(***************************************************************************)
EXTENDS Integers, FiniteSets, FiniteSetsExt

CONSTANTS
    HotThreshold,         \* scoring_config.hot_threshold, 75 by default
    InterestedThreshold,  \* scoring_config.interested_threshold, 50 by default
    BoundaryBand,         \* review_boundary_band, in points
    MinConfidence,        \* review_confidence_threshold, in percent
    Required              \* the required questions' fields

ASSUME ThresholdAssumption ==
    /\ HotThreshold \in Int /\ InterestedThreshold \in Int
    /\ BoundaryBand \in Nat /\ MinConfidence \in 0..100
    /\ Required \subseteq {"timeline", "budget", "product"}

Intent == {"hot", "interested", "warm", "follow_up", "not_interested", "wrong_number",
           "no_answer", "busy", "do_not_call", "unknown"}
Timeline == {"0-3_months", "3-12_months", "12_months_plus", "unknown"}

\* QualificationResult, as far as a decision depends on it.  "timed" is a
\* callback with a time; confidence is in percent.
Result ==
    [intent : Intent, dnc : BOOLEAN, wrong : BOOLEAN, interested : BOOLEAN, followup : BOOLEAN,
     timeline : Timeline, budget : BOOLEAN, product : BOOLEAN,
     callback : {"none", "timed", "untimed"}, confidence : {0, 40, 80, 95, 100}]

Action == {"hot_sales_routing", "create_followup", "nurture", "schedule_callback",
           "stop_campaign", "suppress_permanently", "retry"}

-----------------------------------------------------------------------------
(* Scoring                                                                 *)

Rubric == [current_need_confirmed |-> 25, short_timeline |-> 25, budget_known |-> 15,
           specific_product |-> 10, accepts_human_followup |-> 15, long_term_no_plan |-> 0]
VagueCuriosity == 5
ExplicitRejection == -100

Signals(r) ==
    {s \in DOMAIN Rubric :
        CASE s = "current_need_confirmed" -> r.interested
          [] s = "short_timeline"         -> r.timeline = "0-3_months"
          [] s = "long_term_no_plan"      -> r.timeline = "12_months_plus"
          [] s = "budget_known"           -> r.budget
          [] s = "specific_product"       -> r.product
          [] s = "accepts_human_followup" -> r.followup}

Points(s, r) == IF s \in Signals(r) THEN Rubric[s] ELSE 0

Clamp(n) == Max({-100, Min({100, n})})

\* An explicit rejection is terminal for scoring: nothing else can lift it.
ScoreResult(r) ==
    IF r.intent = "not_interested" \/ r.dnc THEN Clamp(ExplicitRejection)
    ELSE IF Signals(r) = {} THEN Clamp(IF r.intent = "warm" THEN VagueCuriosity ELSE 0)
    ELSE Clamp(Points("current_need_confirmed", r) + Points("short_timeline", r) + Points("long_term_no_plan", r)
               + Points("budget_known", r) + Points("specific_product", r) + Points("accepts_human_followup", r))

-----------------------------------------------------------------------------
(* Routing: the first rule that applies                                    *)

\* Mutation: the callback is looked at before the do-not-call request.
DecideRoutingCallbackFirst(r, score) ==
    IF r.callback # "none" THEN "schedule_callback"
    ELSE IF r.dnc \/ r.intent = "do_not_call" THEN "suppress_permanently"
    ELSE IF r.wrong \/ r.intent \in {"wrong_number", "not_interested"} THEN "stop_campaign"
    ELSE IF r.intent \in {"no_answer", "busy"} THEN "retry"
    ELSE IF score >= HotThreshold THEN "hot_sales_routing"
    ELSE IF score >= InterestedThreshold THEN "create_followup" ELSE "nurture"

\* Mutation: the lower threshold is the one for sales.
DecideRoutingSwapped(r, score) ==
    IF r.dnc \/ r.intent = "do_not_call" THEN "suppress_permanently"
    ELSE IF r.wrong \/ r.intent \in {"wrong_number", "not_interested"} THEN "stop_campaign"
    ELSE IF r.intent \in {"no_answer", "busy"} THEN "retry"
    ELSE IF r.callback # "none" THEN "schedule_callback"
    ELSE IF score >= InterestedThreshold THEN "hot_sales_routing"
    ELSE IF score >= HotThreshold THEN "create_followup" ELSE "nurture"

DecideRouting(r, score) ==
    IF r.dnc \/ r.intent = "do_not_call" THEN "suppress_permanently"
    ELSE IF r.wrong \/ r.intent \in {"wrong_number", "not_interested"} THEN "stop_campaign"
    ELSE IF r.intent \in {"no_answer", "busy"} THEN "retry"
    ELSE IF r.callback # "none" THEN "schedule_callback"
    ELSE IF score >= HotThreshold THEN "hot_sales_routing"
    ELSE IF score >= InterestedThreshold THEN "create_followup" ELSE "nurture"

\* The label of the analytics page uses the default thresholds, whatever the
\* campaign's own are.
QualificationLabel(r, score) ==
    IF r.dnc THEN "do_not_call"
    ELSE IF r.wrong THEN "wrong_number"
    ELSE IF r.intent \in {"not_interested", "no_answer", "busy"} THEN r.intent
    ELSE IF score >= 75 THEN "qualified"
    ELSE IF score >= 50 THEN "partially_qualified" ELSE "unqualified"

-----------------------------------------------------------------------------
(* The review gate                                                         *)

EndedConversation(r) ==
    r.dnc \/ r.wrong \/ r.intent \in {"do_not_call", "not_interested", "wrong_number"}

Missing(r) ==
    {f \in Required : CASE f = "timeline" -> r.timeline = "unknown"
                        [] f = "budget"   -> ~r.budget
                        [] f = "product"  -> ~r.product}

Near(score, boundary) == score - boundary \in -BoundaryBand..BoundaryBand

\* Mutation: unanswered questions hold a lead who ended the conversation.
TriggersAlways(r, score) ==
    {t \in {"low_confidence", "missing_required_fields", "boundary_band", "dnc_needs_verification"} :
        CASE t = "low_confidence"          -> r.confidence < MinConfidence
          [] t = "missing_required_fields" -> Missing(r) # {}
          [] t = "boundary_band"           -> Near(score, HotThreshold) \/ Near(score, InterestedThreshold)
          [] t = "dnc_needs_verification"  -> r.dnc /\ r.confidence < 90}

Triggers(r, score) ==
    {t \in {"low_confidence", "missing_required_fields", "boundary_band", "dnc_needs_verification"} :
        CASE t = "low_confidence"          -> r.confidence < MinConfidence
          [] t = "missing_required_fields" -> ~EndedConversation(r) /\ Missing(r) # {}
          [] t = "boundary_band"           -> Near(score, HotThreshold) \/ Near(score, InterestedThreshold)
          [] t = "dnc_needs_verification"  -> r.dnc /\ r.confidence < 90}

\* A call that never connected is a fact of telephony: nothing to review.
HeldForReview(r, unconnected) == ~unconnected /\ Triggers(r, ScoreResult(r)) # {}

\* What is stored when the model does not answer, or not in the form asked for.
UnknownResult ==
    [intent |-> "unknown", dnc |-> FALSE, wrong |-> FALSE, interested |-> FALSE, followup |-> FALSE,
     timeline |-> "unknown", budget |-> FALSE, product |-> FALSE, callback |-> "none", confidence |-> 0]

\* The analysis of a call without a conversation, resultForUnconnectedCall.
Unconnected(status) ==
    [UnknownResult EXCEPT !.intent = IF status \in {"no_answer", "busy"} THEN status ELSE "unknown",
                          !.confidence = 100]

-----------------------------------------------------------------------------
(* What commitAnalysis does with a trusted result                          *)

\* The order of its branches is not the order of decideRouting's rules.
Effect(r) ==
    IF r.dnc THEN "suppress"
    ELSE IF r.callback # "none" THEN "callback"
    ELSE IF DecideRouting(r, ScoreResult(r)) # "retry" THEN "qualified" ELSE "leave"

NotifiesSales(r) == DecideRouting(r, ScoreResult(r)) = "hot_sales_routing" \/ r.followup

-----------------------------------------------------------------------------
(* Properties                                                              *)

\* What the action that is stored and synced says will happen to the lead.
Announced(action) ==
    CASE action = "suppress_permanently" -> "suppress"
      [] action = "schedule_callback"    -> "callback"
      [] action = "retry"                -> "leave"
      [] OTHER                           -> "qualified"

SameDecision(r) == Announced(DecideRouting(r, ScoreResult(r))) = Effect(r)

\* Answers the schema admits and the cascades part on: decideRouting obeys the
\* intent do_not_call where commitAnalysis waits for the flag, and puts the end
\* of a campaign and a retry before a callback where commitAnalysis does not.
Contradictory(r) ==
    /\ ~r.dnc
    /\ \/ r.intent = "do_not_call"
       \/ r.callback # "none" /\ (r.wrong \/ r.intent \in {"wrong_number", "not_interested", "no_answer", "busy"})

\* Neither held nor worth points, and suppressed by both cascades.
SuppressedAtOnce(r) ==
    /\ ~HeldForReview(r, FALSE)
    /\ Effect(r) = "suppress" /\ DecideRouting(r, ScoreResult(r)) = "suppress_permanently"
    /\ ScoreResult(r) < Min({HotThreshold, InterestedThreshold}) - BoundaryBand

=============================================================================
