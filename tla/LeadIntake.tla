----------------------------- MODULE LeadIntake -----------------------------
(***************************************************************************)
(* Lead intake: deliveries of events from HubSpot's private app (events/   *)
(* route.ts, hubspot-app-intake.ts, campaign-routing.ts) and from its      *)
(* workflows or any other source (hubspot/leads, leads/route.ts), each     *)
(* handled in one READ COMMITTED transaction around ingestLead.            *)
(*                                                                         *)
(* Handlers run side by side: an insert waits for another transaction with *)
(* the same key, an update for the row, and Postgres aborts one of two     *)
(* that wait for each other.  The source repeats a delivery until it is    *)
(* answered 2xx, also while an earlier attempt still runs.                 *)
(***************************************************************************)
EXTENDS Integers, Sequences, FiniteSets, FiniteSetsExt

CONSTANTS
    Events,      \* keys of webhook_events
    Contact,     \* [Events -> what the contact says: record id, phone, email]
    Deliveries,
    Batch,       \* [Deliveries -> its events, in order]
    App,         \* the deliveries of the private app; the others name a campaign
    Campaigns,   \* numbers, in the order they were created
    Matching,    \* [Events -> the campaigns whose intake_values match]
    Default,     \* the intake_default campaign, or None
    Named,       \* [Deliveries -> the campaign of the query or the body]
    Handlers,
    MaxEvents,   \* MAX_EVENTS_PER_DELIVERY
    MaxFaults,   \* bound: crashes, CRM failures and lost responses
    MaxLive,     \* bound: calls of one lead at a time
    MaxEdits,    \* bound: calls, changes of campaigns and of the DNC list
    None

\* A delivery without an event to handle is answered before any transaction;
\* outside the private app nothing is ingested without a campaign.
ASSUME IntakeAssumption ==
    /\ Campaigns \subseteq Nat /\ Default \in Campaigns \cup {None}
    /\ App \subseteq Deliveries
    /\ \A d \in Deliveries : Batch[d] \in Seq(Events) /\ Batch[d] # <<>>
    /\ \A d \in Deliveries \ App : Named[d] \in Campaigns
    /\ MaxLive \in Nat /\ MaxEdits \in Nat /\ MaxFaults \in Nat

VARIABLES
    leads,      \* the committed leads; a lead is named by the event that inserted it
    recorded,   \* webhook_events: the result of each event, or None
    applied,    \* history: how often an event has changed leads
    handler,    \* the transactions
    answered,   \* deliveries the source has a 2xx for
    active,     \* the active campaigns
    listed,     \* phones on the client's DNC list
    live,       \* calls in progress, per lead
    edits,      \* calls and changes made meanwhile
    faults

vars == <<leads, recorded, applied, handler, answered, active, listed, live, edits, faults>>
outside == <<active, listed, live, edits>>

Values(field) == {Contact[e][field] : e \in Events} \cup {None}
Ingested == {"queued", "quarantined", "suppressed", "duplicate_ignored"}
Outcomes == Ingested \cup {"contact_gone", "unrouted"}
Statuses == {"queued", "quarantined", "suppressed", "calling", "closed", "failed"}

Row == [record : Values("record"), phone : Values("phone"), email : Values("email"),
        campaign : Campaigns, status : Statuses, barred : BOOLEAN]

\* NULL is neither a row nor a result.
ASSUME NullAssumption == None \notin Row /\ None \notin Outcomes

\* @@ and :> of the TLC module, as functions a proof can look into.
Over(new, old) == [x \in DOMAIN new \cup DOMAIN old |-> IF x \in DOMAIN new THEN new[x] ELSE old[x]]
Put(e, value, f) == Over([x \in {e} |-> value], f)

Idle == [phase |-> "idle", delivery |-> None, at |-> 0, campaign |-> None,
         match |-> None, read |-> None, rows |-> <<>>, done |-> <<>>]

TypeOK ==
    /\ leads \in [Events -> Row \cup {None}]
    /\ recorded \in [Events -> Outcomes \cup {None}]
    /\ applied \in [Events -> Nat]
    /\ DOMAIN handler = Handlers
    /\ \A h \in Handlers : LET x == handler[h] IN
        /\ x.phase \in {"idle", "claim", "route", "find", "write", "commit", "answer"}
        /\ x.delivery \in Deliveries \cup {None} /\ x.at \in Nat
        /\ x.campaign \in Campaigns \cup {None}
        /\ x.match \in Events \cup {None} /\ x.read \in Row \cup {None}
        /\ DOMAIN x.rows \subseteq Events /\ Range(x.rows) \subseteq Row
        /\ DOMAIN x.done \subseteq Events /\ Range(x.done) \subseteq Outcomes \cup {"claimed"}
    /\ answered \subseteq Deliveries /\ active \subseteq Campaigns
    /\ listed \subseteq Values("phone")
    /\ live \in [Events -> 0..MaxLive] /\ edits \in 0..MaxEdits /\ faults \in 0..MaxFaults

Init ==
    /\ leads = [e \in Events |-> None] /\ recorded = [e \in Events |-> None]
    /\ applied = [e \in Events |-> 0]
    /\ handler = [h \in Handlers |-> Idle]
    /\ answered = {} /\ active \in SUBSET Campaigns /\ listed = {}
    /\ live = [e \in Events |-> 0] /\ edits = 0 /\ faults = 0

-----------------------------------------------------------------------------
(* A transaction                                                           *)

Becomes(h, new) == handler' = [handler EXCEPT ![h] = new]
Event(h) == Batch[handler[h].delivery][handler[h].at]

\* What h's statements see: what is committed, and what it wrote itself.
Seen(h) == Over(handler[h].rows, leads)

\* On to the next event of the batch, or to the commit.
Onward(x) ==
    [x EXCEPT !.at = IF x.at < Len(Batch[x.delivery]) THEN @ + 1 ELSE 0,
              !.phase = IF x.at < Len(Batch[x.delivery]) THEN "claim" ELSE "commit",
              !.campaign = None, !.match = None, !.read = None]

\* The event has its result and needs nothing more.
Finished(x, e, outcome) == Onward([x EXCEPT !.done = Put(e, outcome, @)])

\* An app delivery above the limit is answered 429, every time.
Acceptable(d) == d \in App => Len(Batch[d]) <= MaxEvents

\* A first attempt or a repeated one.
Receive(h, d) ==
    /\ handler[h] = Idle /\ d \notin answered /\ Acceptable(d)
    /\ Becomes(h, [Idle EXCEPT !.phase = "claim", !.delivery = d, !.at = 1])
    /\ UNCHANGED <<leads, recorded, applied, answered, outside, faults>>

-----------------------------------------------------------------------------
(* Waiting                                                                 *)

\* The lead h is about to write: the match, or a new one.
Target(h) == IF handler[h].match = None THEN Event(h) ELSE handler[h].match

Record(h) == Contact[Event(h)].record

\* The index leads_tenant_hubspot_uniq, over both versions of a changed row.
Contends(g, h) ==
    /\ Record(h) # None
    /\ \E l \in DOMAIN handler[g].rows \ {Target(h)} :
          Record(h) \in {handler[g].rows[l].record} \cup (IF leads[l] = None THEN {} ELSE {leads[l].record})

WaitsFor(h) ==
    {g \in Handlers \ {h} :
        \/ handler[h].phase = "claim" /\ Event(h) \in DOMAIN handler[g].done
        \/ handler[h].phase = "write" /\ (Target(h) \in DOMAIN handler[g].rows \/ Contends(g, h))}

\* Mutation: without the transaction, what was done before the failure stays.
KeepsWhatIsDone(h) ==
    LET done == [e \in {e \in DOMAIN handler[h].done : handler[h].done[e] # "claimed"} |-> handler[h].done[e]] IN
    /\ leads' = Over(handler[h].rows, leads) /\ recorded' = Over(done, recorded)
    /\ applied' = [e \in Events |-> applied[e] + IF e \in DOMAIN done /\ done[e] \in Ingested THEN 1 ELSE 0]
    /\ Becomes(h, Idle)
    /\ UNCHANGED <<answered, outside>>

RollBack(h) ==
    /\ Becomes(h, Idle)
    /\ UNCHANGED <<leads, recorded, applied, answered, outside>>

\* Two that wait for each other: Postgres aborts either, the source repeats it.
Deadlocked(h) == \E g \in WaitsFor(h) : h \in WaitsFor(g)

AbortDeadlock(h) ==
    /\ Deadlocked(h)
    /\ RollBack(h) /\ UNCHANGED faults

\* The function dies or the CRM does not answer, before the commit.
Fail(h) ==
    /\ handler[h].phase \in {"claim", "route", "find", "write", "commit"}
    /\ faults < MaxFaults /\ faults' = faults + 1
    /\ RollBack(h)

-----------------------------------------------------------------------------
(* The steps                                                               *)

\* Mutation: the claim does not look at what was handled before.
NewAlways(h, e) == e \notin DOMAIN handler[h].done

\* insert ... on conflict do nothing returns a row.
New(h, e) == recorded[e] = None /\ e \notin DOMAIN handler[h].done

Claim(h) ==
    /\ handler[h].phase = "claim" /\ WaitsFor(h) = {}
    /\ LET x == handler[h]
           e == Event(h) IN
       Becomes(h, IF New(h, e)
                  THEN [x EXCEPT !.done = Put(e, "claimed", @),
                                 !.phase = IF x.delivery \in App THEN "route" ELSE "find"]
                  ELSE Onward(x))
    /\ UNCHANGED <<leads, recorded, applied, answered, outside, faults>>

\* getContact finds nobody: created and deleted again.
ContactGone(h) ==
    /\ handler[h].phase = "route"
    /\ Becomes(h, Finished(handler[h], Event(h), "contact_gone"))
    /\ UNCHANGED <<leads, recorded, applied, answered, outside, faults>>

\* resolveCampaignForContact.
Routed(e) ==
    LET matching == active \cap Matching[e] IN
    IF matching # {} THEN Min(matching)
    ELSE IF Default \in active THEN Default
    ELSE IF Cardinality(active) = 1 THEN Min(active)
    ELSE None

Route(h) ==
    /\ handler[h].phase = "route"
    /\ LET campaign == Routed(Event(h)) IN
       Becomes(h, IF campaign = None THEN Finished(handler[h], Event(h), "unrouted")
                  ELSE [handler[h] EXCEPT !.phase = "find", !.campaign = campaign])
    /\ UNCHANGED <<leads, recorded, applied, answered, outside, faults>>

\* Mutation: only by phone and by email.
WithoutRecord(seen, c) ==
    LET Same(field) == {l \in DOMAIN seen : c[field] # None /\ seen[l] # None /\ seen[l][field] = c[field]} IN
    IF Same("phone") # {} THEN Same("phone") ELSE Same("email")

\* findExisting: by record id, then by phone, then by email; `limit 1' with no
\* order takes any.
Candidates(seen, c) ==
    LET Same(field) == {l \in DOMAIN seen : c[field] # None /\ seen[l] # None /\ seen[l][field] = c[field]} IN
    IF Same("record") # {} THEN Same("record")
    ELSE IF Same("phone") # {} THEN Same("phone") ELSE Same("email")

\* The status and the suppressions of the match are those read here.  A
\* workflow names its campaign, whether it is active or not.
Find(h) ==
    /\ handler[h].phase = "find"
    /\ LET found == Candidates(Seen(h), Contact[Event(h)])
           campaign == IF handler[h].delivery \in App THEN handler[h].campaign
                       ELSE Named[handler[h].delivery] IN
       \E l \in IF found = {} THEN {None} ELSE found :
          Becomes(h, [handler[h] EXCEPT !.phase = "write", !.campaign = campaign, !.match = l,
                                        !.read = IF l = None THEN None ELSE Seen(h)[l]])
    /\ UNCHANGED <<leads, recorded, applied, answered, outside, faults>>

Requeueable == {"new", "quarantined", "failed", "closed"}

\* checkEligibility: the client's list, the flag and the attempts as they were
\* read, the campaign.
Eligible(c, campaign, read) ==
    c.phone \notin listed /\ campaign \in active /\ (read # None => ~read.barred)

\* Mutation: a lead without a number keeps the status it has.
LeftAsNew(c, campaign, read) ==
    IF read # None /\ read.status \notin Requeueable THEN "duplicate_ignored"
    ELSE IF c.phone = None THEN "new"
    ELSE IF Eligible(c, campaign, read) THEN "queued" ELSE "suppressed"

\* ingestLead after the write: what becomes of the lead.
Decision(c, campaign, read) ==
    IF c.phone = None THEN "quarantined"
    ELSE IF read # None /\ read.status \notin Requeueable THEN "duplicate_ignored"
    ELSE IF Eligible(c, campaign, read) THEN "queued" ELSE "suppressed"

\* insertLead, or updateLead: a field that is not given stays.
Merged(old, c, campaign) ==
    LET Kept(field) == IF c[field] = None /\ old # None THEN old[field] ELSE c[field] IN
    [record |-> Kept("record"), phone |-> Kept("phone"), email |-> Kept("email"), campaign |-> campaign,
     status |-> IF old = None THEN "new" ELSE old.status, barred |-> old # None /\ old.barred]

\* The record id belongs to another lead.
Violates(h) ==
    /\ Record(h) # None
    /\ \E l \in Events \ {Target(h)} : Seen(h)[l] # None /\ Seen(h)[l].record = Record(h)

Write(h) ==
    /\ handler[h].phase = "write" /\ WaitsFor(h) = {} /\ ~Violates(h)
    /\ LET x == handler[h]
           c == Contact[Event(h)]
           row == Merged(Seen(h)[Target(h)], c, x.campaign)
           outcome == Decision(c, x.campaign, x.read)
           written == [row EXCEPT !.status = IF outcome = "duplicate_ignored" THEN @ ELSE outcome] IN
       Becomes(h, Finished([x EXCEPT !.rows = Put(Target(h), written, @)], Event(h), outcome))
    /\ UNCHANGED <<leads, recorded, applied, answered, outside, faults>>

\* Unique violation: the whole delivery is rolled back and answered 500.
Collide(h) ==
    /\ handler[h].phase = "write" /\ WaitsFor(h) = {} /\ Violates(h)
    /\ RollBack(h) /\ UNCHANGED faults

Commit(h) ==
    /\ handler[h].phase = "commit"
    /\ leads' = Over(handler[h].rows, leads)
    /\ recorded' = Over(handler[h].done, recorded)
    /\ applied' = [e \in Events |->
          applied[e] + IF e \in DOMAIN handler[h].done /\ handler[h].done[e] \in Ingested THEN 1 ELSE 0]
    /\ Becomes(h, [Idle EXCEPT !.phase = "answer", !.delivery = handler[h].delivery])
    /\ UNCHANGED <<answered, outside, faults>>

Answer(h) ==
    /\ handler[h].phase = "answer"
    /\ answered' = answered \cup {handler[h].delivery}
    /\ Becomes(h, Idle)
    /\ UNCHANGED <<leads, recorded, applied, outside, faults>>

\* The response is lost or comes after the source's timeout.
LoseAnswer(h) ==
    /\ handler[h].phase = "answer"
    /\ faults < MaxFaults /\ faults' = faults + 1
    /\ RollBack(h)

-----------------------------------------------------------------------------
(* Around it                                                               *)

Unlocked(l) == \A h \in Handlers : l \notin DOMAIN handler[h].rows

\* The calling queue: see CallQueue.
StartCall(l) ==
    /\ edits < MaxEdits /\ edits' = edits + 1
    /\ leads[l] # None /\ Unlocked(l)
    /\ leads[l].status = "queued" /\ leads[l].campaign \in active /\ live[l] < MaxLive
    /\ leads' = [leads EXCEPT ![l].status = "calling"]
    /\ live' = [live EXCEPT ![l] = @ + 1]
    /\ UNCHANGED <<recorded, applied, handler, answered, active, listed, faults>>

\* A result is applied whatever the status has become.
EndCall(l, status, barred) ==
    /\ live[l] > 0 /\ Unlocked(l)
    /\ leads' = [leads EXCEPT ![l].status = status, ![l].barred = barred \/ @]
    /\ live' = [live EXCEPT ![l] = @ - 1]
    /\ UNCHANGED <<recorded, applied, handler, answered, active, listed, edits, faults>>

Toggle(campaign) ==
    /\ edits < MaxEdits /\ edits' = edits + 1
    /\ active' = IF campaign \in active THEN active \ {campaign} ELSE active \cup {campaign}
    /\ UNCHANGED <<leads, recorded, applied, handler, answered, listed, live, faults>>

ListNumber(phone) ==
    /\ edits < MaxEdits /\ edits' = edits + 1 /\ phone # None /\ listed' = listed \cup {phone}
    /\ UNCHANGED <<leads, recorded, applied, handler, answered, active, live, faults>>

-----------------------------------------------------------------------------

Handle(h) ==
    \/ Claim(h) \/ Route(h) \/ Write(h) \/ Collide(h) \/ Commit(h) \/ Answer(h)
    \/ Find(h) \/ AbortDeadlock(h)

Disturb(h) == Fail(h) \/ LoseAnswer(h) \/ ContactGone(h)

Around ==
    \/ \E l \in Events : StartCall(l)
    \/ \E l \in Events : EndCall(l, "queued", FALSE) \/ EndCall(l, "failed", FALSE)
                        \/ \E barred \in BOOLEAN : EndCall(l, "closed", barred)
    \/ \E campaign \in Campaigns : Toggle(campaign)
    \/ \E phone \in Values("phone") : ListNumber(phone)

Next ==
    \/ \E h \in Handlers : Handle(h) \/ Disturb(h) \/ \E d \in Deliveries : Receive(h, d)
    \/ Around

Spec == Init /\ [][Next]_vars

\* A handler that can go on does, and the source repeats what is unanswered.
Fairness ==
    /\ \A h \in Handlers : WF_vars(Handle(h))
    /\ \A d \in Deliveries : WF_vars(\E h \in Handlers : Receive(h, d))

FairSpec == Spec /\ Fairness

-----------------------------------------------------------------------------
(* Properties                                                              *)

\* "Acknowledging first and failing later would lose the lead silently": each
\* event of a delivery that was answered 2xx has its result on record, and
\* however often and in whatever company an event is delivered, it has changed
\* leads once, or not at all if it led to none.
AnsweredIsApplied ==
    /\ \A d \in answered : \A i \in DOMAIN Batch[d] : recorded[Batch[d][i]] # None
    /\ \A e \in Events : applied[e] = IF recorded[e] \in Ingested THEN 1 ELSE 0

\* Whatever runs side by side, collides or dies, a delivery is ingested whole
\* or not at all, and each of its events by one delivery only (withScope
\* around ingestSubscriptionEvents).
Ledger == INSTANCE IntakeLedger WITH Results <- Outcomes, Counted <- Ingested
ImplementsIntake == Ledger!Spec

\* A delivery within the limit is answered 2xx in the end, through collisions
\* on a record id, crashes and lost responses, unless two deliveries keep
\* deadlocking for ever.
DeliveriesSettle ==
    <>[](\A h \in Handlers : ~Deadlocked(h)) => \A d \in Deliveries : Acceptable(d) => <>(d \in answered)

=============================================================================
