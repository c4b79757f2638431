------------------------------ MODULE FollowUp ------------------------------
(***************************************************************************)
(* What follows a conversation: the analysis and its review                *)
(* (qualification/pipeline.ts, resolve.ts), the callback the lead asked    *)
(* for (calling/callbacks.ts), the tick that keeps it (worker.ts), the     *)
(* sweep that calls it missed and the operators who move or close it.      *)
(* One lead; what two leads do to each other is the subject of CallQueue.  *)
(*                                                                         *)
(* Transactions that wait for each other are open in the state: the tick   *)
(* holds the lead's row from its claim on and the callbacks it kept, a     *)
(* reschedule holds the callback it moved and still wants the lead.  The   *)
(* sweep decides on one snapshot and writes when it gets the rows.         *)
(***************************************************************************)
EXTENDS LeadScoring, CallingWindow, Sequences, FiniteSetsExt

CONSTANTS
    Window,       \* the campaign's calling window
    Answers,      \* the results the model may give, a subset of Result
    MaxCalls,     \* policy.maxAttempts
    Grace,        \* MISSED_GRACE_MINUTES, in instants
    Horizon,      \* bound: the last instant
    MaxMoves      \* bound: how often operators reschedule

ASSUME FollowUpAssumption ==
    /\ Window \in [day : Nat \ {0}, start : Int, end : Int, days : SUBSET (0..6),
                   zone : [switch : Int, before : Int, after : Int]]
    /\ Answers \subseteq Result
    /\ MaxCalls \in Nat \ {0} /\ Grace \in Nat /\ MaxMoves \in Nat
    /\ Horizon \in Nat /\ Horizon > Window.day + Grace

VARIABLES
    now,
    lead,         \* the leads row: status, next_call_at, on the do-not-call list
    calls,        \* the committed call_attempts rows, in order
    analysis,     \* analysis[c][q]: the call_analyses row qualifier q stored
    callbacks,    \* the callbacks rows, in the order of their insertion
    tick,         \* the dialler's open transaction
    move,         \* the open transaction of a reschedule
    moves,
    sweep         \* the rows the sweep has chosen and not written

vars == <<now, lead, calls, analysis, callbacks, tick, move, moves, sweep>>

Instants == 0..Horizon
Never == Horizon + 1
Qualifiers == {1, 2}
\* What can be asked for at the latest still falls due within the bound.
LatestAsk == Horizon - Window.day - Grace - 1

LeadStatus == {"queued", "calling", "awaiting_analysis", "pending_review", "qualified",
               "closed", "failed", "suppressed"}
Call == [started : Instants, status : {"live", "refused", "talked", "silent"}]
NoAnalysis == [review |-> "none"]
Analysis == {NoAnalysis} \cup
            [review : {"held", "rejected", "trusted"}, effect : {"suppress", "callback", "qualified", "leave"}]
Callback == [call : 1..MaxCalls, at : 1..Horizon, by : {"nobody", "platform", "operator"},
             kept_by : 0..MaxCalls, moved : BOOLEAN, status : {"scheduled", "completed", "missed", "canceled"}]

NoTick == [stage |-> "idle"]
NoMove == [row |-> 0, at |-> 0]

TypeOK ==
    /\ now \in Instants
    /\ lead \in [status : LeadStatus, next : Instants \cup {Never}, listed : BOOLEAN]
    /\ lead.status = "queued" <=> lead.next # Never
    /\ calls \in Seq(Call) /\ Len(calls) <= MaxCalls
    /\ analysis \in [1..MaxCalls -> [Qualifiers -> Analysis]]
    /\ callbacks \in Seq(Callback)
    /\ \/ tick = NoTick
       \/ tick.stage \in {"claimed", "kept"} /\ tick.started \in 0..now /\ tick.kept \subseteq DOMAIN callbacks
    /\ move.row \in {0} \cup DOMAIN callbacks /\ moves \in 0..MaxMoves
    /\ sweep \subseteq DOMAIN callbacks

Init ==
    /\ now = 0
    /\ lead = [status |-> "queued", next |-> 0, listed |-> FALSE]
    /\ calls = <<>>
    /\ analysis = [c \in 1..MaxCalls |-> [q \in Qualifiers |-> NoAnalysis]]
    /\ callbacks = <<>>
    /\ tick = NoTick
    /\ move = NoMove /\ moves = 0
    /\ sweep = {}

LeadFree == tick.stage = "idle"
CallbackFree(i) == move.row # i /\ (tick.stage = "kept" => i \notin tick.kept)
Later(t) == IF t <= Horizon THEN t ELSE Horizon

-----------------------------------------------------------------------------
(* The dialler                                                             *)

Exhausted == lead.listed \/ Len(calls) >= MaxCalls

\* claimLeads, up to the insert of the attempt; started_at is the
\* transaction's time.
ClaimForCall ==
    /\ LeadFree /\ lead.status = "queued" /\ lead.next <= now
    /\ Allowed(now, Window) /\ ~Exhausted
    /\ tick' = [stage |-> "claimed", started |-> now, kept |-> {}]
    /\ UNCHANGED <<now, lead, calls, analysis, callbacks, move, moves, sweep>>

SuppressAtClaim ==
    /\ LeadFree /\ lead.status = "queued" /\ lead.next <= now
    /\ Allowed(now, Window) /\ Exhausted
    /\ lead' = [lead EXCEPT !.status = "suppressed", !.next = Never]
    /\ UNCHANGED <<now, calls, analysis, callbacks, tick, move, moves, sweep>>

\* Outside the window due leads move to its next opening; a window that never
\* opens is an error, and nothing is written.
DeferToWindow ==
    /\ LeadFree /\ lead.status = "queued" /\ lead.next <= now
    /\ ~Allowed(now, Window) /\ Openings(now, Window) # {}
    /\ lead' = [lead EXCEPT !.next = Later(NextOpenAt(now, Window))]
    /\ UNCHANGED <<now, calls, analysis, callbacks, tick, move, moves, sweep>>

\* Mutation: a callback that was swept is not revived.
DueScheduled ==
    {i \in DOMAIN callbacks : callbacks[i].status = "scheduled" /\ callbacks[i].at <= now}

\* fulfilCallbacksForLead: what a call made now keeps.
Due ==
    {i \in DOMAIN callbacks : callbacks[i].status \in {"scheduled", "missed"} /\ callbacks[i].at <= now}

\* The update waits for a row that a reschedule holds.
KeepCallbacks ==
    /\ tick.stage = "claimed"
    /\ move.row \notin Due
    /\ tick' = [tick EXCEPT !.stage = "kept", !.kept = Due]
    /\ UNCHANGED <<now, lead, calls, analysis, callbacks, move, moves, sweep>>

\* The provider is asked after that; the transaction commits either way.
Kept(c) ==
    [i \in DOMAIN callbacks |->
        IF i \in tick.kept
        THEN [callbacks[i] EXCEPT !.status = "completed", !.by = "platform", !.kept_by = c]
        ELSE callbacks[i]]

CommitCall(status) ==
    /\ tick.stage = "kept"
    /\ calls' = Append(calls, [started |-> tick.started, status |-> status])
    /\ callbacks' = Kept(Len(calls) + 1)
    /\ tick' = NoTick

PlaceCall ==
    /\ CommitCall("live")
    /\ lead' = [lead EXCEPT !.status = "calling", !.next = Never]
    /\ UNCHANGED <<now, analysis, move, moves, sweep>>

\* createCall throws: the attempt is closed and the lead released.
RefuseCall(retryable) ==
    /\ CommitCall("refused")
    /\ lead' = IF retryable THEN [lead EXCEPT !.next = Later(now + 1)]
               ELSE [lead EXCEPT !.status = "failed", !.next = Never]
    /\ UNCHANGED <<now, analysis, move, moves, sweep>>

-----------------------------------------------------------------------------
(* Calls and their analysis                                                *)

\* applyRetryDecision for an attempt without a usable answer.
Retried(c) ==
    IF c < MaxCalls THEN [lead EXCEPT !.status = "queued", !.next = Later(now + 1)]
    ELSE [lead EXCEPT !.status = "closed", !.next = Never]

CallEnds(c, talked) ==
    /\ LeadFree /\ calls[c].status = "live"
    /\ calls' = [calls EXCEPT ![c].status = IF talked THEN "talked" ELSE "silent"]
    /\ lead' = IF talked THEN [lead EXCEPT !.status = "awaiting_analysis", !.next = Never]
               ELSE Retried(c)
    /\ UNCHANGED <<now, analysis, callbacks, tick, move, moves, sweep>>

\* Mutation: an unusable time is stored as it is.
CallbackTimeRaw(r, at) == IF r.callback = "timed" THEN at ELSE 0

Usable(r, at) == r.callback = "timed" /\ at > now

\* Without a usable time the row is due in 24 hours.
CallbackTime(r, at) == IF Usable(r, at) THEN at ELSE now + Window.day

\* commitAnalysis, without the syncs (SyncOutbox).
Routed(r, at) ==
    CASE Effect(r) = "suppress" -> [lead EXCEPT !.status = "suppressed", !.next = Never, !.listed = TRUE]
      [] Effect(r) = "callback" -> IF Usable(r, at) THEN [lead EXCEPT !.status = "queued", !.next = at]
                                   ELSE [lead EXCEPT !.status = "closed", !.next = Never]
      [] Effect(r) = "qualified" -> [lead EXCEPT !.status = "qualified", !.next = Never]
      [] Effect(r) = "leave" -> lead

CommitAnalysis(c, r, at) ==
    /\ lead' = Routed(r, at)
    /\ callbacks' = IF Effect(r) = "callback"
                    THEN Append(callbacks, [call |-> c, at |-> CallbackTime(r, at), by |-> "nobody",
                                            kept_by |-> 0, moved |-> FALSE, status |-> "scheduled"])
                    ELSE callbacks

Stored(c, q, review, r) ==
    analysis' = [analysis EXCEPT ![c][q] = [review |-> review, effect |-> Effect(r)]]

InTurn(c, q) ==
    /\ c \in DOMAIN calls
    /\ analysis[c][q] = NoAnalysis /\ \A p \in Qualifiers : p < q => analysis[c][p] # NoAnalysis

\* The time a lead named, as an instant; it may have passed when it is read.
Asked(r) == IF r.callback = "timed" THEN 1..LatestAsk ELSE {0}

\* analyzeTranscript: an outage, a refused key or an answer that does not
\* validate is a result as well.
Analysed == Answers \cup {UnknownResult}

\* Two qualifiers may both have found no analysis of the call.
Qualify(c, q, r, at) ==
    /\ LeadFree /\ InTurn(c, q) /\ calls[c].status = "talked"
    /\ at \in Asked(r) /\ now <= LatestAsk
    /\ \/ /\ HeldForReview(r, FALSE)
          /\ Stored(c, q, "held", r)
          /\ lead' = [lead EXCEPT !.status = "pending_review", !.next = Never]
          /\ UNCHANGED callbacks
       \/ /\ ~HeldForReview(r, FALSE)
          /\ Stored(c, q, "trusted", r)
          /\ CommitAnalysis(c, r, at)
    /\ UNCHANGED <<now, calls, tick, move, moves, sweep>>

\* Asked for by hand, also while the call is live: no model, no review.
QualifyUnconnected(c, status) ==
    /\ LeadFree /\ InTurn(c, 1) /\ calls[c].status # "talked"
    /\ calls[c].status = "refused" => status = "failed"
    /\ Stored(c, 1, "trusted", Unconnected(status))
    /\ CommitAnalysis(c, Unconnected(status), 0)
    /\ UNCHANGED <<now, calls, tick, move, moves, sweep>>

\* Mutation: any analysis can be resolved, again and again.
ReviewableAgain(c, q) == analysis[c][q].review \in {"held", "trusted"}

Reviewable(c, q) == analysis[c][q].review = "held"

\* The reviewer confirms the stored result or puts another one in its place.
ConfirmReview(c, q, r, at) ==
    /\ LeadFree /\ Reviewable(c, q) /\ at \in Asked(r) /\ now <= LatestAsk
    /\ Stored(c, q, "trusted", r)
    /\ CommitAnalysis(c, r, at)
    /\ UNCHANGED <<now, calls, tick, move, moves, sweep>>

\* Rejected: a call whose outcome is not known goes back to the ladder.
RejectReview(c, q) ==
    /\ LeadFree /\ Reviewable(c, q)
    /\ analysis' = [analysis EXCEPT ![c][q].review = "rejected"]
    /\ lead' = Retried(c)
    /\ UNCHANGED <<now, calls, callbacks, tick, move, moves, sweep>>

-----------------------------------------------------------------------------
(* Operators and the sweep                                                 *)

\* Mutation: a page that is out of date may still write.
OutstandingOnPage(i) == callbacks[i].status # "canceled"

Outstanding(i) == callbacks[i].status = "scheduled"

\* "I called them": says nothing to the dialler.
ResolveCallback(i, resolution) ==
    /\ Outstanding(i) /\ CallbackFree(i)
    /\ callbacks' = [callbacks EXCEPT ![i].status = resolution, ![i].by = "operator"]
    /\ UNCHANGED <<now, lead, calls, analysis, tick, move, moves, sweep>>

\* rescheduleCallback: first the callback, then the lead.
MoveCallback(i, at) ==
    /\ move = NoMove /\ moves < MaxMoves
    /\ Outstanding(i) /\ CallbackFree(i)
    /\ at > now /\ at <= LatestAsk
    /\ move' = [row |-> i, at |-> at] /\ moves' = moves + 1
    /\ UNCHANGED <<now, lead, calls, analysis, callbacks, tick, sweep>>

\* closed leads are requeued as well; calling and suppressed ones are not.
Movable == {"queued", "closed", "failed", "qualified"}

Moved ==
    /\ callbacks' = [callbacks EXCEPT ![move.row].at = move.at, ![move.row].moved = TRUE]
    /\ lead' = IF lead.status \in Movable THEN [lead EXCEPT !.status = "queued", !.next = move.at] ELSE lead
    /\ move' = NoMove

MoveLead ==
    /\ move # NoMove /\ LeadFree /\ Moved
    /\ UNCHANGED <<now, calls, analysis, tick, moves, sweep>>

\* The tick wants the callback and the reschedule wants the lead: the
\* database aborts one of the two, and the other gets what it waited for.
Deadlocked == tick.stage = "claimed" /\ move.row \in Due

AbortOneOfTwo ==
    /\ Deadlocked
    /\ \/ tick' = NoTick /\ Moved
       \/ move' = NoMove /\ UNCHANGED <<lead, callbacks, tick>>
    /\ UNCHANGED <<now, calls, analysis, moves, sweep>>

\* Mutation: any attempt of the lead counts as the promised call.
OverdueIfNeverCalled ==
    {i \in DOMAIN callbacks :
        callbacks[i].status = "scheduled" /\ callbacks[i].at + Grace < now /\ calls = <<>>}

CalledSince(i) == \E c \in DOMAIN calls : calls[c].started >= callbacks[i].at

Overdue ==
    {i \in DOMAIN callbacks :
        callbacks[i].status = "scheduled" /\ callbacks[i].at + Grace < now /\ ~CalledSince(i)}

SweepChooses ==
    /\ sweep = {} /\ Overdue # {}
    /\ sweep' = Overdue
    /\ UNCHANGED <<now, lead, calls, analysis, callbacks, tick, move, moves>>

\* A row that another transaction changed meanwhile is written all the same:
\* the update looks at nothing but its id.
SweepWrites ==
    /\ sweep # {} /\ \A i \in sweep : CallbackFree(i)
    /\ callbacks' = [i \in DOMAIN callbacks |->
                        IF i \in sweep THEN [callbacks[i] EXCEPT !.status = "missed"] ELSE callbacks[i]]
    /\ sweep' = {}
    /\ UNCHANGED <<now, lead, calls, analysis, tick, move, moves>>

TimePasses ==
    /\ now < Horizon /\ now' = now + 1
    /\ UNCHANGED <<lead, calls, analysis, callbacks, tick, move, moves, sweep>>

-----------------------------------------------------------------------------

Dialler ==
    \/ ClaimForCall \/ SuppressAtClaim \/ DeferToWindow \/ KeepCallbacks \/ PlaceCall
    \/ \E retryable \in BOOLEAN : RefuseCall(retryable)

Analyses ==
    \E c \in 1..MaxCalls, q \in Qualifiers :
        \/ \E r \in Analysed : \E at \in Asked(r) : Qualify(c, q, r, at)
        \/ \E r \in Analysed : \E at \in Asked(r) : ConfirmReview(c, q, r, at)
        \/ RejectReview(c, q)
        \/ \E status \in {"no_answer", "failed"} : QualifyUnconnected(c, status)

Operators ==
    \/ \E i \in DOMAIN callbacks :
          \/ \E resolution \in {"completed", "missed", "canceled"} : ResolveCallback(i, resolution)
          \/ \E at \in Instants : MoveCallback(i, at)
    \/ MoveLead

Next ==
    \/ Dialler \/ Analyses \/ Operators \/ AbortOneOfTwo
    \/ \E c \in DOMAIN calls, talked \in BOOLEAN : CallEnds(c, talked)
    \/ SweepChooses \/ SweepWrites \/ TimePasses

Spec == Init /\ [][Next]_vars

\* Open transactions end, the sweep runs every minute, time goes on; nothing
\* obliges leads, reviewers and operators.
Fairness ==
    /\ WF_vars(KeepCallbacks \/ AbortOneOfTwo \/ PlaceCall \/ \E retryable \in BOOLEAN : RefuseCall(retryable))
    /\ WF_vars(MoveLead) /\ WF_vars(SweepChooses \/ SweepWrites) /\ WF_vars(TimePasses)

FairSpec == Spec /\ Fairness

-----------------------------------------------------------------------------
(* Properties                                                              *)

\* Windows a campaign may have, in zones that move their clocks one hour
\* either way at some hour of the first two nights.
SampleWindows ==
    {WindowOf(24, s[1], s[2], days, Zone(switch, z[1], z[2])) :
        s \in {<<9, 18>>, <<3, 5>>, <<0, 1>>}, days \in {0..6, {0, 2, 3}},
        switch \in {25, 26, 49}, z \in {<<0, 1>>, <<1, 0>>, <<5, 6>>, <<-4, -5>>}}

\* What a call decides does not depend on the calls before it: questions about
\* every answer, and every hour, are asked before the first call.
BeforeTheFirstCall == calls = <<>> /\ now = 0 /\ tick = NoTick /\ ~lead.listed

\* "DNC and explicit rejection win regardless of score": the routing decision a
\* result is synced with and what the same analysis does to the lead come from two
\* cascades in a different order.  They part on the contradictory answers and on no
\* others, whatever the score: somebody announced as suppressed is called back or
\* counted as qualified, and somebody announced as stopped is called back.
DecisionsAgree == BeforeTheFirstCall => \A r \in Result : SameDecision(r) <=> ~Contradictory(r)

\* "Holding a do-not-call in a queue risks dialling them again": with
\* thresholds that a rejection's score is not near, a do-not-call the model is
\* sure of is never held, and is never worth points.
SureRefusalActsAtOnce ==
    BeforeTheFirstCall =>
        \A r \in Result : r.dnc /\ r.confidence >= 90 /\ r.confidence >= MinConfidence => SuppressedAtOnce(r)

\* With the default rubric and thresholds nobody is routed to sales who did
\* not confirm the need and a short timeline, whatever else they said.
HotMeansNeed ==
    BeforeTheFirstCall =>
        \A r \in Result : DecideRouting(r, ScoreResult(r)) = "hot_sales_routing" =>
            r.interested /\ r.timeline = "0-3_months"

\* The time claimLeads moves a lead to is the next opening of the window, also
\* on days of 23 and 25 hours (OpensAt).
DeferralOpens == BeforeTheFirstCall => \A w \in SampleWindows, t \in 0..72 : OpensAt(t, w)

\* Two qualifications of one call, their reviews and re-reviews leave exactly
\* one callback row for every trusted answer that asks for one.
RowsPerAnswer ==
    \A c \in 1..MaxCalls :
        Cardinality({i \in DOMAIN callbacks : callbacks[i].call = c}) =
        Cardinality({q \in Qualifiers : /\ analysis[c][q].review = "trusted"
                                        /\ analysis[c][q].effect = "callback"})

\* The sweep and the dialler race: what only the sweep has closed as missed
\* was missed, there is no call that went out at or after its time - or the
\* row still names the call that kept it.  Of a row that an operator moved this
\* is not true: the new time may pass while the reschedule waits for the lead.
NoFalseMiss ==
    \A i \in DOMAIN callbacks :
        callbacks[i].status = "missed" /\ callbacks[i].by = "nobody" /\ ~callbacks[i].moved => ~CalledSince(i)

\* A callback that is closed stays closed the way it was: only a call revives
\* a missed one, and only a sweep that had chosen the row before overwrites it.
ClosedStaysClosed ==
    [][\A i \in DOMAIN callbacks :
          callbacks[i].status # "scheduled" /\ callbacks'[i] # callbacks[i] =>
              \/ callbacks[i].status = "missed" /\ callbacks'[i].by = "platform"
              \/ i \in sweep]_vars

\* A row an operator moved to a time that passed while the reschedule waited for the
\* lead: the call the tick made meanwhile began after that time, but found the old
\* one in the row and did not keep it.  The sweep takes that call for the promised
\* one, so that only a further call or an operator closes the row.
Overtaken(i) == callbacks[i].moved /\ CalledSince(i)

\* A promise is not forgotten: every outstanding callback is closed by a call, an
\* operator or the sweep, whatever moves, aborts and refusals come between; of the
\* rows a reschedule was overtaken on, the code does not ensure it.
CallbacksClose ==
    []<>(\A i \in DOMAIN callbacks : callbacks[i].status = "scheduled" => Overtaken(i))

=============================================================================
