----------------------------- MODULE CallQueue -----------------------------
(***************************************************************************)
(* The outbound calling engine of one tenant: the PostgreSQL queue, the     *)
(* calling ticks that drain it, the voice provider, the status webhooks,    *)
(* qualification of finished calls, and the operators and intake events     *)
(* that change leads underneath all of them.                                *)
(*                                                                          *)
(* Each transaction of the program is one atomic action, with one exception *)
(* that matters: a calling tick (runCallingTick) keeps ONE transaction open *)
(* from claiming its leads, through every createCall request to the         *)
(* provider, to the commit.  `work' holds what an open tick has done so     *)
(* far.  Nobody else sees it before Commit; Crash rolls it back; but the    *)
(* phone calls it has placed are real and no rollback takes them back.  A   *)
(* lead in an open tick is a locked row: `skip locked' passes over it and   *)
(* every other writer of that row waits, so its guard says ~Locked(l).      *)
(*                                                                          *)
(* Abstracted: the interim statuses initiated, ringing and answered are all *)
(* "open" (they only overwrite one another, results.ts 49-52); next_call_at *)
(* is `due'; the lock's clock is `lapsed'; the claiming order is any order; *)
(* sync_outbox, callbacks and audit rows, which the queue never reads, are  *)
(* left to other modules.                                                   *)
(***************************************************************************)
EXTENDS RetryPolicy, FiniteSets

CONSTANTS
    Leads,            \* lead rows of the tenant
    Workers,          \* processes that run calling ticks: cron, intake, n8n
    Calls,            \* ids the provider gives to calls
    Campaigns,
    CampaignOf,       \* leads.campaign_id
    Phones,
    PhoneOf,          \* leads.phone_bidx; two leads may share a phone
    RowBound,         \* numbers an attempt row could get, beyond the budget
    TenantLimit,      \* tenants.concurrency_limit
    CampaignLimit,    \* campaigns.concurrency_limit
    BatchLimit,       \* limit of one tick
    MaxCrashes,       \* bound: ticks that die before they commit
    SignedProvider,   \* provider.metadata().verifiesWebhookSignature
    EarlyWebhooks,    \* a call may end before its tick commits
    Results,          \* what providers report at the end of a call
    Verdicts,         \* what qualification makes of a conversation
    Inputs,           \* the outside events a configuration lets happen
    NoLead, NoCall

Contents == {"none", "transcript", "suppress"}
AllVerdicts == {"hold", "dnc", "callback", "callback_untimed", "qualified",
                "no_conversation"}
AllInputs == {"refuse", "unheard", "defer", "lose", "analyze", "reject",
              "confirm", "reschedule", "import_dnc", "pause", "suspend",
              "reingest", "bad_phone", "barred"}

ASSUME ConstantsAssumption ==
    /\ CampaignOf \in [Leads -> Campaigns]
    /\ PhoneOf \in [Leads -> Phones]
    /\ RowBound \in Nat /\ RowBound > MaxAttempts
    /\ TenantLimit \in Nat /\ CampaignLimit \in Nat /\ BatchLimit \in Nat
    /\ MaxCrashes \in Nat
    /\ SignedProvider \in BOOLEAN /\ EarlyWebhooks \in BOOLEAN
    /\ Results \subseteq [status : Terminal, content : Contents]
    /\ Verdicts \subseteq AllVerdicts
    /\ Inputs \subseteq AllInputs
    /\ IsFiniteSet(Leads) /\ NoLead \notin Leads /\ NoCall \notin Calls

VARIABLES
    lead,          \* the leads table
    attempt,       \* the call_attempts table, by lead and attempt_no
    dncList,       \* dnc_entries of tenant scope
    keys,          \* webhook_events: calls whose terminal event is claimed
    active,        \* campaigns.active
    tenantActive,  \* tenants.status = 'active'
    work,          \* per worker: what its open tick holds for each lead
    call,          \* the provider's own record of each call
    wire,          \* calls whose terminal webhook is still to be delivered
    crashes

tables  == <<lead, attempt, dncList, keys, active, tenantActive>>
outside == <<call, wire>>
vars    == <<lead, attempt, dncList, keys, active, tenantActive, work, call,
             wire, crashes>>

-----------------------------------------------------------------------------
(* Types                                                                     *)

Status == {"absent", "quarantined", "suppressed", "queued", "calling",
           "awaiting_analysis", "pending_review", "qualified", "closed",
           "failed"}

(* due: next_call_at is null or past.  lapsed: lock_expires_at is past.      *)
LeadRow == [status : Status, dnc : BOOLEAN, due : BOOLEAN, lapsed : BOOLEAN,
            count : 0..RowBound]

AttemptRow == [status : {"none", "open"} \cup Terminal,
               call : Calls \cup {NoCall}, heard : BOOLEAN,
               analysis : {"none", "held", "approved", "rejected"}]

Placed  == {"initiated", "refused", "rejected"}   \* dialOne is done with it
Stage   == {"free", "claimed", "reclaimed", "suppressed"} \cup Placed
Holding == [stage : Stage, call : Calls \cup {NoCall}]

CallRow == [lead : Leads \cup {NoLead}, state : {"unused", "live", "ended"},
            status : {"none"} \cup Terminal, content : Contents]

TypeOK ==
    /\ lead \in [Leads -> LeadRow]
    /\ attempt \in [Leads -> [1..RowBound -> AttemptRow]]
    /\ dncList \subseteq Phones
    /\ keys \subseteq Calls
    /\ active \in [Campaigns -> BOOLEAN]
    /\ tenantActive \in BOOLEAN
    /\ work \in [Workers -> [Leads -> Holding]]
    /\ call \in [Calls -> CallRow]
    /\ wire \subseteq Calls
    /\ crashes \in 0..MaxCrashes

NoRow   == [status |-> "none", call |-> NoCall, heard |-> FALSE,
            analysis |-> "none"]
Nothing == [stage |-> "free", call |-> NoCall]

Init ==
    /\ lead = [l \in Leads |-> [status |-> "absent", dnc |-> FALSE,
                                due |-> TRUE, lapsed |-> FALSE, count |-> 0]]
    /\ attempt = [l \in Leads |-> [k \in 1..RowBound |-> NoRow]]
    /\ dncList = {}
    /\ keys = {}
    /\ active = [c \in Campaigns |-> TRUE]
    /\ tenantActive = TRUE
    /\ work = [w \in Workers |-> [l \in Leads |-> Nothing]]
    /\ call = [id \in Calls |-> [lead |-> NoLead, state |-> "unused",
                                 status |-> "none", content |-> "none"]]
    /\ wire = {}
    /\ crashes = 0

-----------------------------------------------------------------------------
(* What the code reads                                                       *)

Idle(w)   == \A l \in Leads : work[w][l].stage = "free"
Locked(l) == \E w \in Workers : work[w][l].stage # "free"
OnDnc(l)  == lead[l].dnc \/ PhoneOf[l] \in dncList

Least(a, b) == IF a <= b THEN a ELSE b

(* Mutation: finished attempts are counted as in flight.                     *)
InFlightEver(S) == {lk \in S \X (1..RowBound) : attempt[lk[1]][lk[2]].status # "none"}

(* The committed attempts that look like a call in progress.                 *)
InFlight(S) == {lk \in S \X (1..RowBound) : attempt[lk[1]][lk[2]].status = "open"}
LeadsOf(c)  == {l \in Leads : CampaignOf[l] = c}

(* Mutation: one call more than the tenant's limit.                          *)
HeadroomOffByOne(c) ==
    Least(Least(TenantLimit + 1 - Cardinality(InFlight(Leads)),
                CampaignLimit + 1 - Cardinality(InFlight(LeadsOf(c)))),
          BatchLimit)

Headroom(c) ==
    Least(Least(TenantLimit - Cardinality(InFlight(Leads)),
                CampaignLimit - Cardinality(InFlight(LeadsOf(c)))),
          BatchLimit)

(* Mutations: the attempt budget, or the do-not-call list, is not consulted. *)
EligibleUnbudgeted(l, r) ==
    /\ tenantActive /\ active[CampaignOf[l]]
    /\ ~r.dnc /\ PhoneOf[l] \notin dncList
EligibleIgnoringList(l, r) ==
    tenantActive /\ active[CampaignOf[l]] /\ ~r.dnc /\ r.count < MaxAttempts

(* checkEligibility, for a lead whose row reads r.  Its remaining reasons, a *)
(* DNC entry of the campaign, the dial allowlist and a withdrawn consent,    *)
(* are the free choice of a set of barred leads wherever it is called.       *)
Eligible(l, r) ==
    /\ tenantActive
    /\ ~r.dnc
    /\ PhoneOf[l] \notin dncList
    /\ active[CampaignOf[l]]
    /\ r.count < MaxAttempts

Barrable(S) == IF "barred" \in Inputs THEN SUBSET S ELSE {{}}

(* The leads a tick takes back from a worker presumed dead.                  *)
Stale(c) == {l \in LeadsOf(c) : lead[l].status = "calling" /\ lead[l].lapsed}

(* Mutation: the candidates are selected without `for update skip locked'.   *)
CandidatesUnlocked(c) ==
    {l \in LeadsOf(c) : lead[l].due /\ (lead[l].status = "queued" \/ l \in Stale(c))}

(* The leads a tick may take: queued or just taken back, due, not locked.    *)
Candidates(c) ==
    {l \in LeadsOf(c) : /\ lead[l].status = "queued" \/ l \in Stale(c)
                        /\ lead[l].due
                        /\ ~Locked(l)}

-----------------------------------------------------------------------------
(* What the code writes to one lead row                                      *)

Moved(r, status, due) ==
    [r EXCEPT !.status = status, !.due = due, !.lapsed = FALSE]

(* suppressLead, the lead's half; the phone half adds to dncList.            *)
Suppressed(r) == [Moved(r, "suppressed", TRUE) EXCEPT !.dnc = TRUE]

(* Mutation: the decision's name is stored as the lead's status.             *)
AfterDecisionByName(r, decision) ==
    Moved(r, IF decision = "stop" THEN "closed" ELSE decision, decision = "stop")

(* applyRetryDecision                                                        *)
AfterDecision(r, decision) ==
    IF decision = "stop" THEN Moved(r, "closed", TRUE)
                         ELSE Moved(r, "queued", FALSE)

(* commitAnalysis: where a trusted verdict on attempt k sends the lead.      *)
Routed(r, k, verdict) ==
    CASE verdict = "dnc"              -> Suppressed(r)
      [] verdict = "callback"         -> AfterDecision(r, DecideRetry("completed", k, TRUE))
      [] verdict = "callback_untimed" -> AfterDecision(r, DecideRetry("completed", k, FALSE))
      [] verdict = "qualified"        -> Moved(r, "qualified", TRUE)
      [] OTHER                        -> r

CommitAnalysis(l, k, verdict) ==
    /\ lead' = [lead EXCEPT ![l] = Routed(@, k, verdict)]
    /\ dncList' = IF verdict = "dnc" THEN dncList \cup {PhoneOf[l]} ELSE dncList

-----------------------------------------------------------------------------
(* The calling tick: runCallingTick inside the one transaction of            *)
(* dialOneCampaign                                                           *)

Hold(l, S, barred, stale) ==
    [Nothing EXCEPT !.stage =
        IF l \in S
          THEN IF Eligible(l, lead[l]) /\ l \notin barred THEN "claimed" ELSE "suppressed"
          ELSE IF l \in stale THEN "reclaimed" ELSE "free"]

(* claimLeads.  The in-flight count reads committed rows without a lock, and *)
(* the return on no headroom comes before the reclaim.  The reclaiming       *)
(* UPDATE waits for locked rows; the SELECT of candidates skips them.        *)
ClaimLeads(w, c, S, barred) ==
    /\ Idle(w)
    /\ active[c]
    /\ Headroom(c) > 0
    /\ \A l \in Stale(c) : ~Locked(l)
    /\ S \subseteq Candidates(c)
    /\ Cardinality(S) = Least(Headroom(c), Cardinality(Candidates(c)))
    /\ S \cup Stale(c) # {}
    /\ work' = [work EXCEPT ![w] = [l \in Leads |-> Hold(l, S, barred, Stale(c))]]
    /\ UNCHANGED <<tables, outside, crashes>>

(* claimLeads outside the calling window: the campaign's queue is put off to *)
(* the next opening.                                                         *)
DeferQueue(c) ==
    /\ "defer" \in Inputs
    /\ active[c]
    /\ \A l \in LeadsOf(c) : lead[l].status = "queued" => ~Locked(l)
    /\ lead' = [l \in Leads |-> IF l \in LeadsOf(c) /\ lead[l].status = "queued"
                                  THEN [lead[l] EXCEPT !.due = FALSE] ELSE lead[l]]
    /\ UNCHANGED <<attempt, dncList, keys, active, tenantActive, work, outside,
                   crashes>>

Dialled(w, l, stage, id) ==
    /\ work[w][l].stage = "claimed"
    /\ work' = [work EXCEPT ![w][l] = [stage |-> stage, call |-> id]]

ProviderAccepts(l, id) ==
    /\ call[id].state = "unused"
    /\ call' = [call EXCEPT ![id].lead = l, ![id].state = "live"]

(* dialOne: the provider accepts and answers with its call id.               *)
PlaceCall(w, l, id) ==
    /\ Dialled(w, l, "initiated", id)
    /\ ProviderAccepts(l, id)
    /\ UNCHANGED <<tables, wire, crashes>>

(* dialOne: the provider accepts but the answer never arrives, a retryable   *)
(* network error to this process.                                            *)
PlaceCallUnheard(w, l, id) ==
    /\ "unheard" \in Inputs
    /\ Dialled(w, l, "refused", NoCall)
    /\ ProviderAccepts(l, id)
    /\ UNCHANGED <<tables, wire, crashes>>

(* dialOne: no call exists; retryable or permanent.                          *)
RefuseCall(w, l, stage) ==
    /\ "refuse" \in Inputs
    /\ Dialled(w, l, stage, NoCall)
    /\ UNCHANGED <<tables, outside, crashes>>

(* Mutation: the provider's call id is not stored with the attempt.          *)
NewAttemptAnonymous(h) ==
    [NoRow EXCEPT !.status = IF h.stage = "initiated" THEN "open" ELSE "failed"]

NewAttempt(h) ==
    [NoRow EXCEPT !.status = IF h.stage = "initiated" THEN "open" ELSE "failed",
                  !.call = h.call]

(* Mutations: a refused call leaves the lead `calling'; it is not counted.   *)
LeftBehindUnreleased(r, stage) ==
    CASE stage \in Placed       -> [Moved(r, "calling", TRUE) EXCEPT !.count = r.count + 1]
      [] stage = "suppressed"   -> Moved(r, "suppressed", TRUE)
      [] stage = "reclaimed"    -> Moved(r, "queued", r.due)
      [] OTHER                  -> r
LeftBehindUncounted(r, stage) ==
    CASE stage = "initiated"    -> [Moved(r, "calling", r.due) EXCEPT !.count = r.count + 1]
      [] stage = "refused"      -> Moved(r, "queued", FALSE)
      [] stage = "rejected"     -> Moved(r, "failed", TRUE)
      [] stage = "suppressed"   -> Moved(r, "suppressed", TRUE)
      [] stage = "reclaimed"    -> Moved(r, "queued", r.due)
      [] OTHER                  -> r

(* The lead row a tick leaves behind, by what it did with the lead.          *)
LeftBehind(r, stage) ==
    CASE stage = "initiated"  -> [Moved(r, "calling", r.due) EXCEPT !.count = r.count + 1]
      [] stage = "refused"    -> [Moved(r, "queued", FALSE) EXCEPT !.count = r.count + 1]
      [] stage = "rejected"   -> [Moved(r, "failed", TRUE) EXCEPT !.count = r.count + 1]
      [] stage = "suppressed" -> Moved(r, "suppressed", TRUE)
      [] stage = "reclaimed"  -> Moved(r, "queued", r.due)
      [] OTHER                -> r

(* The commit of the tick's transaction: every write above becomes visible.  *)
Commit(w) ==
    /\ ~Idle(w)
    /\ \A l \in Leads : work[w][l].stage # "claimed"
    /\ lead' = [l \in Leads |-> LeftBehind(lead[l], work[w][l].stage)]
    /\ attempt' = [l \in Leads |->
                     IF work[w][l].stage \in Placed
                       THEN [attempt[l] EXCEPT ![lead[l].count + 1] = NewAttempt(work[w][l])]
                       ELSE attempt[l]]
    /\ work' = [work EXCEPT ![w] = [l \in Leads |-> Nothing]]
    /\ UNCHANGED <<dncList, keys, active, tenantActive, outside, crashes>>

(* The process dies, is cut off at maxDuration, or a query throws: rollback. *)
Crash(w) ==
    /\ crashes < MaxCrashes
    /\ ~Idle(w)
    /\ work' = [work EXCEPT ![w] = [l \in Leads |-> Nothing]]
    /\ crashes' = crashes + 1
    /\ UNCHANGED <<tables, outside>>

-----------------------------------------------------------------------------
(* The provider                                                              *)

(* The call ends and its terminal status webhook is on its way.              *)
CallEnds(id, r) ==
    /\ call[id].state = "live"
    /\ EarlyWebhooks \/ \A w \in Workers, l \in Leads : work[w][l].call # id
    /\ call' = [call EXCEPT ![id].state = "ended", ![id].status = r.status,
                            ![id].content = r.content]
    /\ wire' = wire \cup {id}
    /\ UNCHANGED <<tables, work, crashes>>

LoseWebhook(id) ==
    /\ "lose" \in Inputs
    /\ id \in wire
    /\ wire' = wire \ {id}
    /\ UNCHANGED <<tables, work, call, crashes>>

-----------------------------------------------------------------------------
(* POST /api/webhooks/voice/[provider]: `process' and recordCallResult       *)

(* Handled, and delivered again later or not.                                *)
Answer(id) == id \in wire /\ wire' \in {wire, wire \ {id}}

(* Mutation: a webhook is matched to its lead's latest attempt.              *)
NamesLatest(l, k, id) == call[id].lead = l /\ lead[l].count = k

Names(l, k, id) == attempt[l][k].call = id

IgnoreDuplicate(id) ==
    /\ id \in wire
    /\ id \in keys
    /\ wire' = wire \ {id}
    /\ UNCHANGED <<tables, work, call, crashes>>

(* No committed row names the call.  A signed provider is turned away before *)
(* the idempotency key is claimed (tenantForCall); one with a service token  *)
(* consumes it.  Both are told 202.                                          *)
IgnoreUnknown(id) ==
    /\ id \notin keys
    /\ \A l \in Leads, k \in 1..RowBound : ~Names(l, k, id)
    /\ Answer(id)
    /\ keys' = IF SignedProvider THEN keys ELSE keys \cup {id}
    /\ UNCHANGED <<lead, attempt, dncList, active, tenantActive, work, call,
                   crashes>>

(* Common to the three terminal outcomes: the key is fresh, the attempt row  *)
(* is found in flight, the lead row can be written, the outcome is stored.   *)
RecordOutcome(l, k, id) ==
    /\ id \notin keys
    /\ Names(l, k, id)
    /\ attempt[l][k].status = "open"
    /\ ~Locked(l)
    /\ Answer(id)
    /\ keys' = keys \cup {id}
    /\ attempt' = [attempt EXCEPT
                     ![l][k].status = call[id].status,
                     ![l][k].heard = (call[id].content = "transcript")]
    /\ UNCHANGED <<active, tenantActive, work, call, crashes>>

Connected(id) == call[id].status = "completed" /\ call[id].content = "transcript"

RecordSuppression(l, k, id) ==
    /\ call[id].content = "suppress"
    /\ RecordOutcome(l, k, id)
    /\ lead' = [lead EXCEPT ![l] = Suppressed(@)]
    /\ dncList' = dncList \cup {PhoneOf[l]}

RecordConversation(l, k, id) ==
    /\ Connected(id)
    /\ RecordOutcome(l, k, id)
    /\ lead' = [lead EXCEPT ![l].status = "awaiting_analysis"]
    /\ UNCHANGED dncList

RecordNoConversation(l, k, id) ==
    /\ call[id].content # "suppress" /\ ~Connected(id)
    /\ RecordOutcome(l, k, id)
    /\ lead' = [lead EXCEPT ![l] =
                  AfterDecision(@, DecideRetry(call[id].status, k, FALSE))]
    /\ UNCHANGED dncList

-----------------------------------------------------------------------------
(* Qualification                                                             *)

HasConversation(a) == a.status = "completed" /\ a.heard

(* qualifyCall on a conversation, from the webhook or /api/internal/analyze. *)
(* A model failure is this action not happening.                             *)
QualifyCall(l, k, verdict) ==
    /\ HasConversation(attempt[l][k])
    /\ attempt[l][k].analysis = "none"
    /\ ~Locked(l)
    /\ attempt' = [attempt EXCEPT ![l][k].analysis =
                     IF verdict = "hold" THEN "held" ELSE "approved"]
    /\ IF verdict = "hold"
         THEN /\ lead' = [lead EXCEPT ![l].status = "pending_review"]
              /\ UNCHANGED dncList
         ELSE CommitAnalysis(l, k, verdict)
    /\ UNCHANGED <<keys, active, tenantActive, work, outside, crashes>>

(* qualifyCall on a call without a conversation, which only a caller of      *)
(* /api/internal/analyze asks for: the result is never held.                 *)
QualifyUnconnected(l, k) ==
    /\ "analyze" \in Inputs
    /\ attempt[l][k].status # "none" /\ ~HasConversation(attempt[l][k])
    /\ attempt[l][k].analysis = "none"
    /\ ~Locked(l)
    /\ attempt' = [attempt EXCEPT ![l][k].analysis = "approved"]
    /\ CommitAnalysis(l, k, IF attempt[l][k].status \in {"no_answer", "busy"}
                              THEN "no_conversation" ELSE "qualified")
    /\ UNCHANGED <<keys, active, tenantActive, work, outside, crashes>>

(* resolveReview: confirm or correct.                                        *)
ConfirmReview(l, k, verdict) ==
    /\ "confirm" \in Inputs
    /\ verdict # "hold"
    /\ attempt[l][k].analysis = "held"
    /\ ~Locked(l)
    /\ attempt' = [attempt EXCEPT ![l][k].analysis = "approved"]
    /\ CommitAnalysis(l, k, verdict)
    /\ UNCHANGED <<keys, active, tenantActive, work, outside, crashes>>

(* resolveReview: reject.                                                    *)
RejectReview(l, k) ==
    /\ "reject" \in Inputs
    /\ attempt[l][k].analysis = "held"
    /\ ~Locked(l)
    /\ attempt' = [attempt EXCEPT ![l][k].analysis = "rejected"]
    /\ lead' = [lead EXCEPT ![l] =
                  AfterDecision(@, DecideRetry("no_answer", k, FALSE))]
    /\ UNCHANGED <<dncList, keys, active, tenantActive, work, outside, crashes>>

-----------------------------------------------------------------------------
(* Operators and intake                                                      *)

(* rescheduleCallback: a callback row exists once an analysis was committed;  *)
(* its new time lies in the future.                                          *)
RescheduleCallback(l) ==
    /\ "reschedule" \in Inputs
    /\ \E k \in 1..RowBound : attempt[l][k].analysis = "approved"
    /\ lead[l].status \in {"queued", "closed", "failed", "qualified"}
    /\ ~Locked(l)
    /\ lead' = [lead EXCEPT ![l] = Moved(@, "queued", FALSE)]
    /\ UNCHANGED <<attempt, dncList, keys, active, tenantActive, work, outside,
                   crashes>>

(* A manual or imported row of dnc_entries: the phone only, no lead row.     *)
ImportDnc(p) ==
    /\ "import_dnc" \in Inputs
    /\ dncList' = dncList \cup {p}
    /\ UNCHANGED <<lead, attempt, keys, active, tenantActive, work, outside,
                   crashes>>

SetCampaignActive(c, on) ==
    /\ "pause" \in Inputs
    /\ active' = [active EXCEPT ![c] = on]
    /\ UNCHANGED <<lead, attempt, dncList, keys, tenantActive, work, outside,
                   crashes>>

Resume ==
    /\ "suspend" \in Inputs
    /\ tenantActive' = TRUE
    /\ UNCHANGED <<lead, attempt, dncList, keys, active, work, outside, crashes>>

(* setTenantStatus to anything but active.                                   *)
Suspend ==
    /\ "suspend" \in Inputs
    /\ \A l \in Leads : lead[l].status = "queued" => ~Locked(l)
    /\ tenantActive' = FALSE
    /\ active' = [c \in Campaigns |-> FALSE]
    /\ lead' = [l \in Leads |-> IF lead[l].status = "queued"
                                  THEN Moved(lead[l], "suppressed", TRUE) ELSE lead[l]]
    /\ UNCHANGED <<attempt, dncList, keys, work, outside, crashes>>

Requeueable == {"absent", "quarantined", "failed", "closed"}

Inbound(l) == lead[l].status = "absent" \/ "reingest" \in Inputs

(* ingestLead of a new or known lead with a callable number, its reads and   *)
(* its writes in one step.                                                   *)
IngestLead(l, barred) ==
    /\ Inbound(l)
    /\ ~Locked(l)
    /\ lead[l].status \in Requeueable
    /\ lead' = [lead EXCEPT ![l] =
                  IF Eligible(l, @) /\ l \notin barred
                    THEN [@ EXCEPT !.status = "queued"]
                    ELSE [@ EXCEPT !.status = "suppressed", !.due = TRUE]]
    /\ UNCHANGED <<attempt, dncList, keys, active, tenantActive, work, outside,
                   crashes>>

(* ingestLead without one: quarantined whatever the lead was doing.          *)
QuarantineLead(l) ==
    /\ "bad_phone" \in Inputs
    /\ Inbound(l)
    /\ ~Locked(l)
    /\ lead' = [lead EXCEPT ![l].status = "quarantined", ![l].due = TRUE]
    /\ UNCHANGED <<attempt, dncList, keys, active, tenantActive, work, outside,
                   crashes>>

-----------------------------------------------------------------------------
(* Time                                                                      *)

LockLapses(l) ==
    /\ lead[l].status = "calling" /\ ~lead[l].lapsed
    /\ lead' = [lead EXCEPT ![l].lapsed = TRUE]
    /\ UNCHANGED <<attempt, dncList, keys, active, tenantActive, work, outside,
                   crashes>>

FallsDue(l) ==
    /\ ~lead[l].due
    /\ lead' = [lead EXCEPT ![l].due = TRUE]
    /\ UNCHANGED <<attempt, dncList, keys, active, tenantActive, work, outside,
                   crashes>>

-----------------------------------------------------------------------------

Claims(w) ==
    \E c \in Campaigns : \E S \in SUBSET Candidates(c) : \E barred \in Barrable(S) :
        ClaimLeads(w, c, S, barred)

Dial(w, l) ==
    \/ \E id \in Calls : PlaceCall(w, l, id) \/ PlaceCallUnheard(w, l, id)
    \/ \E stage \in {"refused", "rejected"} : RefuseCall(w, l, stage)

Webhook(id) ==
    \/ IgnoreDuplicate(id)
    \/ IgnoreUnknown(id)
    \/ \E l \in Leads, k \in 1..RowBound :
         RecordSuppression(l, k, id) \/ RecordConversation(l, k, id)
           \/ RecordNoConversation(l, k, id)

Review(l, k) ==
    \/ QualifyUnconnected(l, k)
    \/ RejectReview(l, k)
    \/ \E verdict \in Verdicts : QualifyCall(l, k, verdict) \/ ConfirmReview(l, k, verdict)

Operator ==
    \/ \E p \in Phones : ImportDnc(p)
    \/ \E c \in Campaigns : DeferQueue(c) \/ \E on \in BOOLEAN : SetCampaignActive(c, on)
    \/ Suspend \/ Resume
    \/ \E l \in Leads : RescheduleCallback(l) \/ QuarantineLead(l)
    \/ \E l \in Leads : \E barred \in Barrable({l}) : IngestLead(l, barred)

Next ==
    \/ \E w \in Workers : Claims(w) \/ Commit(w) \/ Crash(w) \/ \E l \in Leads : Dial(w, l)
    \/ \E id \in Calls : Webhook(id) \/ LoseWebhook(id) \/ \E r \in Results : CallEnds(id, r)
    \/ \E l \in Leads, k \in 1..RowBound : Review(l, k)
    \/ Operator
    \/ \E l \in Leads : LockLapses(l) \/ FallsDue(l)

Spec == Init /\ [][Next]_vars

(* The process finishes what it has begun; the provider ends every call and  *)
(* delivers its webhook; time passes; the scheduler runs a tick often enough *)
(* that a claim which is possible again and again is made (the cron sweep    *)
(* and every intake call run one).  Nothing makes operators, reviewers or    *)
(* the analysis model act.                                                   *)
Fairness ==
    /\ \A w \in Workers : /\ SF_vars(Claims(w))
                          /\ WF_vars(Commit(w))
                          /\ \A l \in Leads : WF_vars(Dial(w, l))
    /\ \A id \in Calls : /\ WF_vars(\E r \in Results : CallEnds(id, r))
                         /\ WF_vars(Webhook(id))
    /\ \A l \in Leads : WF_vars(LockLapses(l)) /\ WF_vars(FallsDue(l))

FairSpec == Spec /\ Fairness

-----------------------------------------------------------------------------
(* Safety                                                                    *)

(* `for update skip locked': several workers pull from one campaign and no   *)
(* lead is ever in the hands of two of them (queue.ts 15-17).                *)
ExclusiveClaim ==
    \A l \in Leads, v, w \in Workers :
        work[v][l].stage # "free" /\ work[w][l].stage # "free" => v = w

(* call_attempt_count, the attempt numbers and the attempt budget agree: the *)
(* rows of a lead are numbered 1 to its count, which never passes the budget *)
(* although ticks, reclaims, retries, rejections and re-ingestion all queue  *)
(* the lead again (queue.ts 199, worker.ts 149, eligibility.ts 123).         *)
AttemptLedger ==
    \A l \in Leads :
        /\ lead[l].count <= MaxAttempts
        /\ \A k \in 1..RowBound :
             (attempt[l][k].status # "none") <=> (k <= lead[l].count)

(* What a tick read when it claimed a lead is still true when it commits: no *)
(* other transaction uses up the lead's budget in between, although the tick *)
(* holds its claim across every provider request (worker.ts 57-59).          *)
HeldInBudget ==
    \A w \in Workers, l \in Leads :
        work[w][l].stage \in {"claimed"} \cup Placed => lead[l].count < MaxAttempts

(* A lead shown as `calling' has its latest attempt in flight, so a result   *)
(* for that attempt will still be accepted and move the lead on, whatever    *)
(* late results of earlier attempts have done (results.ts 46, 140, 192).     *)
CallingIsInFlight ==
    \A l \in Leads :
        lead[l].status = "calling" =>
            lead[l].count > 0 /\ attempt[l][lead[l].count].status = "open"

(* An attempt row names a call the provider really placed to that lead, no   *)
(* call is named twice, and a recorded outcome is the one the provider gave. *)
RowsMatchCalls ==
    \A l \in Leads, k \in 1..RowBound :
        LET a == attempt[l][k] IN
        a.call # NoCall =>
            /\ call[a.call].lead = l
            /\ a.status \in {"open", call[a.call].status}
            /\ \A m \in Leads, j \in 1..RowBound :
                 attempt[m][j].call = a.call => m = l /\ j = k

(* When webhooks come after the tick's commit and none is lost, an attempt   *)
(* in flight whose call is over still has its result on the way: no result   *)
(* is acknowledged and dropped (route.ts 112-116, 234-236).                  *)
NoResultDropped ==
    \A l \in Leads, k \in 1..RowBound :
        LET a == attempt[l][k] IN
        a.status = "open" =>
            a.call \in Calls /\ (call[a.call].state = "ended" => a.call \in wire)

(* The concurrency caps, on what the attempt table says is in flight.        *)
WithinCaps ==
    /\ Cardinality(InFlight(Leads)) <= TenantLimit
    /\ \A c \in Campaigns : Cardinality(InFlight(LeadsOf(c))) <= CampaignLimit

-----------------------------------------------------------------------------
(* Action properties and refinement                                          *)

CallsTo(l) == {id \in Calls : call[id].lead = l}

(* Once a number is on the do-not-call list and no open tick holds the lead, *)
(* it stays so: no later event takes it off the list, no later tick claims   *)
(* any lead with that number, and no further call is placed to it            *)
(* (queue.ts 50-54, eligibility.ts 185-189).                                 *)
DncIsFinal ==
    [][\A l \in Leads : OnDnc(l) /\ ~(\E w \in Workers : work[w][l].stage = "claimed")
          => /\ OnDnc(l)'
             /\ ~(\E w \in Workers : work'[w][l].stage = "claimed")
             /\ CallsTo(l)' = CallsTo(l)]_vars

Shown(status) == IF status \in {"none", "open"} THEN status ELSE "closed"

Ledger == INSTANCE CallLedger WITH
    ledger <- [l \in Leads |-> [k \in 1..RowBound |-> Shown(attempt[l][k].status)]]

(* The attempts table implements the append-only ledger of CallLedger.       *)
ImplementsLedger == Ledger!Spec

-----------------------------------------------------------------------------
(* Liveness, under FairSpec                                                  *)

(* A queued lead does not wait forever: it is dialled or leaves the queue.   *)
QueuedIsServed ==
    \A l \in Leads : lead[l].status = "queued" ~> lead[l].status # "queued"

(* No lead is stranded in `calling' (0004_phase1_calling.sql 49-51).         *)
CallingEnds ==
    \A l \in Leads : lead[l].status = "calling" ~> lead[l].status # "calling"

-----------------------------------------------------------------------------
(* What the repository says of itself and the code does not do               *)

(* `every attempted call has a durable call record' (worker.ts 16-19): as    *)
(* many rows, committed or being written, as calls placed to the lead.       *)
EveryCallHasARecord ==
    \A l \in Leads :
        Cardinality(CallsTo(l)) <=
            lead[l].count + Cardinality({w \in Workers : work[w][l].stage \in Placed})

(* No `two calls to one person' (queue.ts 15-17) at the same time.           *)
OneLiveCall ==
    \A l \in Leads : Cardinality({id \in CallsTo(l) : call[id].state = "live"}) <= 1

=============================================================================
