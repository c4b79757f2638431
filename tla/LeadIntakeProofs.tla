-------------------------- MODULE LeadIntakeProofs --------------------------
(***************************************************************************)
(* Theorems about LeadIntake: the types, that every delivery that was      *)
(* answered has been applied, each event once, and that a delivery is      *)
(* ingested whole (IntakeLedger), for any number of handlers, deliveries,  *)
(* contacts and campaigns.                                                 *)
(***************************************************************************)
EXTENDS LeadIntake, FiniteSetTheorems, WellFoundedInduction, TLAPS

-----------------------------------------------------------------------------
(* The inductive invariant                                                 *)

\* An event is handled from its claim to its result.
Handling == {"route", "find", "write"}
Open == Handling \cup {"claim"}
Current(x) == Batch[x.delivery][x.at]

Columns == {"phase", "delivery", "at", "campaign", "match", "read", "rows", "done"}

Fields(x) ==
    /\ x = [f \in Columns |-> x[f]]
    /\ x.phase \in Open \cup {"idle", "commit", "answer"}
    /\ x.delivery \in Deliveries \cup {None} /\ x.at \in Nat
    /\ x.campaign \in Campaigns \cup {None}
    /\ x.match \in Events \cup {None} /\ x.read \in Row \cup {None}
    /\ DOMAIN x.rows \subseteq Events /\ \A e \in DOMAIN x.rows : x.rows[e] \in Row
    /\ DOMAIN x.done \subseteq Events

\* A claim without a result belongs to the event that is being handled.
Results(x) ==
    /\ \A e \in DOMAIN x.done :
          \/ x.done[e] \in Outcomes
          \/ x.phase \in Handling /\ e = Current(x) /\ x.done[e] = "claimed"
    /\ x.phase \in Handling => Current(x) \in DOMAIN x.done

\* A transaction claims events of its own delivery.
OfDelivery(x) == DOMAIN x.done \subseteq {Batch[x.delivery][i] : i \in DOMAIN Batch[x.delivery]}

\* A lead is matched with a row that is there, and written for a campaign.
Works(x, table) ==
    /\ Fields(x) /\ Results(x) /\ OfDelivery(x)
    /\ x.phase # "idle" => x.delivery \in Deliveries
    /\ x.phase \in Open => x.at \in DOMAIN Batch[x.delivery]
    /\ (x.phase = "find" /\ x.delivery \in App) \/ x.phase = "write" => x.campaign \in Campaigns
    /\ x.phase = "write" => IF x.match = None THEN x.read = None ELSE Over(x.rows, table)[x.match] \in Row
    /\ x.phase \in {"idle", "answer"} => DOMAIN x.done = {}

\* The events of the batch before the current one are on record, or will be
\* with this transaction.
Passed(x, table) ==
    x.phase # "idle" =>
        \A i \in DOMAIN Batch[x.delivery] :
            (x.phase \in Open => i < x.at) =>
                table[Batch[x.delivery][i]] # None \/ Batch[x.delivery][i] \in DOMAIN x.done

\* An event is claimed by one transaction at a time, and only if it is new.
Owned ==
    \A h \in Handlers : \A e \in DOMAIN handler[h].done :
        recorded[e] = None /\ \A g \in Handlers \ {h} : e \notin DOMAIN handler[g].done

Tables ==
    /\ leads \in [Events -> Row \cup {None}]
    /\ recorded \in [Events -> Outcomes \cup {None}]
    /\ applied \in [Events -> Nat]
    /\ answered \subseteq Deliveries /\ active \subseteq Campaigns
    /\ listed \subseteq Values("phone")
    /\ live \in [Events -> 0..MaxLive] /\ edits \in 0..MaxEdits /\ faults \in 0..MaxFaults
    /\ \A l \in Events : live[l] > 0 => leads[l] # None

Transactions ==
    /\ DOMAIN handler = Handlers /\ handler = [h \in Handlers |-> handler[h]]
    /\ \A h \in Handlers : Works(handler[h], leads) /\ Passed(handler[h], recorded)

IInv == Tables /\ Transactions /\ Owned /\ AnsweredIsApplied

-----------------------------------------------------------------------------
(* Operators                                                               *)

LEMMA OverOf ==
    ASSUME NEW f, NEW g
    PROVE  /\ DOMAIN Over(f, g) = DOMAIN f \cup DOMAIN g
           /\ \A e \in DOMAIN f : Over(f, g)[e] = f[e]
           /\ \A e \in DOMAIN g \ DOMAIN f : Over(f, g)[e] = g[e]
BY DEF Over

LEMMA PutOf ==
    ASSUME NEW f, NEW e, NEW v
    PROVE  /\ DOMAIN Put(e, v, f) = DOMAIN f \cup {e} /\ Put(e, v, f)[e] = v
           /\ \A d \in DOMAIN f \ {e} : Put(e, v, f)[d] = f[d]
BY DEF Put, Over

\* The smallest of a non-empty set of numbers is one of them.
LEMMA MinIsOne ==
    ASSUME NEW S, S \subseteq Nat, S # {}
    PROVE  Min(S) \in S
<1>1. PICK i \in S : \A j \in S : ~(<<j, i>> \in OpToRel(<, Nat))
  BY NatLessThanWellFounded, WFMin
<1>2. ASSUME NEW j \in S, j < i PROVE FALSE
  <2>1. i \in Nat /\ j \in Nat
    OBVIOUS
  <2>2. <<j, i>> \in OpToRel(<, Nat)
    BY <1>2, <2>1, Zenon DEF OpToRel
  <2>3. QED
    BY <1>1, <2>2
<1>3. \A j \in S : i <= j
  BY <1>2
<1>4. QED
  BY <1>3 DEF Min

LEMMA RoutedIsCampaign ==
    ASSUME Tables, NEW e, Routed(e) # None
    PROVE  Routed(e) \in Campaigns
<1> DEFINE matching == active \cap Matching[e]
<1>1. active \subseteq Nat /\ active \subseteq Campaigns
  BY IntakeAssumption DEF Tables
<1>2. matching # {} => Min(matching) \in active
  BY <1>1, MinIsOne
<1>3. Cardinality(active) = 1 => Min(active) \in active
  <2>1. active = {} => Cardinality(active) = 0
    BY FS_EmptySet
  <2>2. active # {} => Min(active) \in active
    BY <1>1, MinIsOne
  <2>3. QED
    BY <2>1, <2>2
<1>4. QED
  BY <1>1, <1>2, <1>3 DEF Routed

LEMMA DecisionIsOutcome ==
    ASSUME NEW c, NEW campaign, NEW read
    PROVE  /\ Decision(c, campaign, read) \in Ingested /\ Ingested \subseteq Outcomes
           /\ Decision(c, campaign, read) = "duplicate_ignored" => read # None
           /\ Decision(c, campaign, read) # "duplicate_ignored" => Decision(c, campaign, read) \in Statuses
BY DEF Decision, Ingested, Outcomes, Statuses

\* A given field comes from the contact, another one stays.
LEMMA MergedFits ==
    ASSUME NEW e \in Events, NEW old \in Row \cup {None}, NEW campaign \in Campaigns
    PROVE  /\ \A s \in Statuses : [Merged(old, Contact[e], campaign) EXCEPT !.status = s] \in Row
           /\ old \in Row => Merged(old, Contact[e], campaign) \in Row
<1> DEFINE Kept(field) == IF Contact[e][field] = None /\ old # None THEN old[field] ELSE Contact[e][field]
           barred == old # None /\ old.barred
           status == IF old = None THEN "new" ELSE old.status
<1>1. /\ Contact[e]["record"] \in Values("record") /\ Contact[e]["phone"] \in Values("phone")
      /\ Contact[e]["email"] \in Values("email")
  BY DEF Values
<1>2. old # None => /\ old["record"] \in Values("record") /\ old["phone"] \in Values("phone")
                    /\ old["email"] \in Values("email") /\ old.status \in Statuses /\ old.barred \in BOOLEAN
  BY DEF Row
<1>3. /\ Kept("record") \in Values("record") /\ Kept("phone") \in Values("phone")
      /\ Kept("email") \in Values("email")
  BY <1>1, <1>2
<1>4. barred \in BOOLEAN /\ (old # None => status \in Statuses)
  BY <1>2
<1>5. Merged(old, Contact[e], campaign) =
         [record |-> Kept("record"), phone |-> Kept("phone"), email |-> Kept("email"), campaign |-> campaign,
          status |-> status, barred |-> barred]
  BY DEF Merged
<1> HIDE DEF Kept, barred, status
<1>6. \A s \in Statuses : [Merged(old, Contact[e], campaign) EXCEPT !.status = s] \in Row
  BY <1>3, <1>4, <1>5 DEF Row
<1>7. ASSUME old \in Row PROVE Merged(old, Contact[e], campaign) \in Row
  <2>1. old # None
    BY <1>7, NullAssumption
  <2>2. QED
    BY <1>3, <1>4, <1>5, <2>1 DEF Row
<1>8. QED
  BY <1>6, <1>7

-----------------------------------------------------------------------------
(* What a transaction may become                                           *)

\* Another handler, or none, holds an event's claim.
Unclaimed(h, e) == recorded[e] = None /\ \A g \in Handlers \ {h} : e \notin DOMAIN handler[g].done

LEMMA SlotWritten ==
    ASSUME IInv, NEW h \in Handlers, NEW new, Becomes(h, new)
    PROVE  /\ DOMAIN handler' = Handlers /\ handler' = [g \in Handlers |-> handler'[g]] /\ handler'[h] = new
           /\ \A g \in Handlers \ {h} : handler'[g] = handler[g]
<1>1. handler = [g \in Handlers |-> handler[g]]
  BY DEF IInv, Transactions
<1>2. handler' = [handler EXCEPT ![h] = new]
  BY DEF Becomes
<1>3. handler' = [g \in Handlers |-> IF g = h THEN new ELSE handler[g]]
  BY <1>1, <1>2
<1>4. QED
  BY <1>3

LEMMA TablesStay ==
    ASSUME IInv, UNCHANGED <<leads, recorded, applied, answered, outside>>, faults' \in 0..MaxFaults
    PROVE  Tables' /\ AnsweredIsApplied'
BY DEF IInv, Tables, AnsweredIsApplied, outside

LEMMA SlotKeeps ==
    ASSUME IInv, NEW h \in Handlers, NEW new, Becomes(h, new),
           Works(new, leads), Passed(new, recorded), \A e \in DOMAIN new.done : Unclaimed(h, e),
           UNCHANGED <<leads, recorded>>, Tables', AnsweredIsApplied'
    PROVE  IInv'
<1>1. /\ DOMAIN handler' = Handlers /\ handler' = [g \in Handlers |-> handler'[g]] /\ handler'[h] = new
      /\ \A g \in Handlers \ {h} : handler'[g] = handler[g]
  BY SlotWritten
<1>2. Transactions'
  <2>1. \A g \in Handlers : Works(handler'[g], leads) /\ Passed(handler'[g], recorded)
    BY <1>1 DEF IInv, Transactions
  <2>2. leads' = leads /\ recorded' = recorded
    OBVIOUS
  <2>3. QED
    BY <1>1, <2>1, <2>2 DEF Transactions
<1>3. Owned'
  BY <1>1 DEF IInv, Owned, Unclaimed
<1>4. QED
  BY <1>2, <1>3 DEF IInv

LEMMA IdleWorks ==
    ASSUME NEW t, NEW u
    PROVE  Works(Idle, t) /\ Passed(Idle, u) /\ DOMAIN Idle.done = {} /\ Fields(Idle)
<1>1. /\ Idle.phase = "idle" /\ Idle.delivery = None /\ Idle.at = 0 /\ Idle.campaign = None
      /\ Idle.match = None /\ Idle.read = None /\ Idle.rows = <<>> /\ Idle.done = <<>>
      /\ DOMAIN Idle.rows = {} /\ DOMAIN Idle.done = {}
  BY DEF Idle
<1>2. Idle = [f \in Columns |-> Idle[f]]
  BY DEF Idle, Columns
<1>3. Fields(Idle)
  BY <1>1, <1>2 DEF Fields
<1>4. QED
  BY <1>1, <1>3 DEF Works, Results, OfDelivery, Passed, Open, Handling

LEMMA RollBackKeeps ==
    ASSUME IInv, NEW h \in Handlers, RollBack(h), faults' \in 0..MaxFaults
    PROVE  IInv'
BY IdleWorks, TablesStay, SlotKeeps DEF RollBack

\* The next event of the batch, or the commit.
LEMMA OnwardWorks ==
    ASSUME NEW x, Fields(x), OfDelivery(x), x.delivery \in Deliveries, x.at \in DOMAIN Batch[x.delivery],
           NEW t, NEW u,
           \A e \in DOMAIN x.done : x.done[e] \in Outcomes,
           \A i \in DOMAIN Batch[x.delivery] :
               i <= x.at => u[Batch[x.delivery][i]] # None \/ Batch[x.delivery][i] \in DOMAIN x.done
    PROVE  Works(Onward(x), t) /\ Passed(Onward(x), u) /\ Onward(x).done = x.done
<1> DEFINE y == Onward(x)
           more == x.at < Len(Batch[x.delivery])
<1>1. /\ y.phase = IF more THEN "claim" ELSE "commit"
      /\ y.at = IF more THEN x.at + 1 ELSE 0
      /\ y.delivery = x.delivery /\ y.campaign = None /\ y.match = None /\ y.read = None
      /\ y.rows = x.rows /\ y.done = x.done
      /\ y = [f \in Columns |-> y[f]]
  BY DEF Fields, Onward, Columns
<1> HIDE DEF y
<1>2. /\ Batch[x.delivery] \in Seq(Events) /\ x.at \in Nat /\ x.at \in 1..Len(Batch[x.delivery])
      /\ DOMAIN Batch[x.delivery] = 1..Len(Batch[x.delivery]) /\ Len(Batch[x.delivery]) \in Nat
  <2>1. Batch[x.delivery] \in Seq(Events)
    BY IntakeAssumption
  <2>2. QED
    BY <2>1
<1>3. y.phase \in {"claim", "commit"} /\ y.at \in Nat /\ (more => y.at \in DOMAIN Batch[x.delivery])
  BY <1>1, <1>2
<1>4. Fields(y)
  BY <1>1, <1>3 DEF Fields, Open
<1>5. Works(y, t)
  BY <1>1, <1>3, <1>4 DEF Works, Results, OfDelivery, Open, Handling
<1>6. Passed(y, u)
  <2>1. ASSUME NEW i \in DOMAIN Batch[x.delivery], y.phase \in Open => i < y.at PROVE i <= x.at
    BY <1>1, <1>2, <2>1 DEF Open
  <2>2. QED
    BY <1>1, <2>1 DEF Passed
<1>7. QED
  BY <1>1, <1>5, <1>6 DEF y

\* The same for an event that has just got its result.
LEMMA FinishedWorks ==
    ASSUME NEW x, Fields(x), Results(x), OfDelivery(x), Passed(x, recorded),
           x.phase \in Handling, x.delivery \in Deliveries, x.at \in DOMAIN Batch[x.delivery],
           NEW outcome \in Outcomes, NEW t
    PROVE  /\ Works(Finished(x, Current(x), outcome), t) /\ Passed(Finished(x, Current(x), outcome), recorded)
           /\ DOMAIN Finished(x, Current(x), outcome).done = DOMAIN x.done
<1> DEFINE done == Put(Current(x), outcome, x.done)
           y == [x EXCEPT !.done = done]
<1>1. /\ DOMAIN done = DOMAIN x.done /\ done[Current(x)] = outcome
      /\ \A e \in DOMAIN x.done \ {Current(x)} : done[e] = x.done[e]
  <2>1. Current(x) \in DOMAIN x.done
    BY DEF Results
  <2>2. /\ DOMAIN done = DOMAIN x.done \cup {Current(x)} /\ done[Current(x)] = outcome
        /\ \A e \in DOMAIN x.done \ {Current(x)} : done[e] = x.done[e]
    BY DEF Put, Over
  <2>3. QED
    BY <2>1, <2>2
<1>2. \A e \in DOMAIN done : done[e] \in Outcomes
  BY <1>1 DEF Results
<1> HIDE DEF done
<1>3. /\ y.phase = x.phase /\ y.delivery = x.delivery /\ y.at = x.at /\ y.campaign = x.campaign
      /\ y.match = x.match /\ y.read = x.read /\ y.rows = x.rows /\ y.done = done
      /\ y = [f \in Columns |-> y[f]]
  BY DEF Fields, Columns
<1>4. Finished(x, Current(x), outcome) = Onward(y)
  BY DEF Finished, done
<1> HIDE DEF y
<1>5. Fields(y) /\ OfDelivery(y)
  <2>1. Fields(y)
    BY <1>1, <1>3 DEF Fields
  <2>2. OfDelivery(y)
    BY <1>1, <1>3 DEF OfDelivery
  <2>3. QED
    BY <2>1, <2>2
<1>6. \A i \in DOMAIN Batch[y.delivery] :
         i <= y.at => recorded[Batch[y.delivery][i]] # None \/ Batch[y.delivery][i] \in DOMAIN y.done
  <2>1. ASSUME NEW i \in DOMAIN Batch[x.delivery], i <= x.at
        PROVE  recorded[Batch[x.delivery][i]] # None \/ Batch[x.delivery][i] \in DOMAIN x.done
    <3>1. CASE i = x.at
      BY <3>1 DEF Results, Current
    <3>2. CASE i # x.at
      <4>1. i < x.at
        <5>1. Batch[x.delivery] \in Seq(Events)
          BY IntakeAssumption
        <5>2. i \in Nat /\ x.at \in Nat
          BY <5>1
        <5>3. QED
          BY <2>1, <3>2, <5>2
      <4>2. x.phase # "idle"
        BY DEF Handling
      <4>3. QED
        BY <4>1, <4>2 DEF Passed
    <3>3. QED
      BY <3>1, <3>2
  <2>2. QED
    BY <1>1, <1>3, <2>1
<1>7. \A e \in DOMAIN y.done : y.done[e] \in Outcomes
  BY <1>2, <1>3
<1>8. /\ Works(Onward(y), t) /\ Passed(Onward(y), recorded) /\ Onward(y).done = y.done
  BY <1>3, <1>5, <1>6, <1>7, OnwardWorks
<1>9. QED
  BY <1>1, <1>3, <1>4, <1>8

-----------------------------------------------------------------------------
(* The steps of a transaction                                              *)

LEMMA HandlerWorks ==
    ASSUME IInv, NEW h \in Handlers
    PROVE  /\ Works(handler[h], leads) /\ Passed(handler[h], recorded)
           /\ \A e \in DOMAIN handler[h].done : Unclaimed(h, e)
           /\ Event(h) = Current(handler[h])
           /\ faults \in 0..MaxFaults
BY DEF IInv, Transactions, Owned, Unclaimed, Event, Current, Tables

LEMMA EventIsEvent ==
    ASSUME NEW x, Works(x, leads), x.phase \in Open
    PROVE  Current(x) \in Events /\ x.delivery \in Deliveries /\ x.at \in DOMAIN Batch[x.delivery] /\ Fields(x)
<1>1. x.delivery \in Deliveries /\ x.at \in DOMAIN Batch[x.delivery] /\ Fields(x)
  BY DEF Works, Open, Handling
<1>2. Batch[x.delivery] \in Seq(Events)
  BY <1>1, IntakeAssumption
<1>3. QED
  BY <1>1, <1>2 DEF Current

LEMMA ReceiveKeeps ==
    ASSUME IInv, NEW h \in Handlers, NEW d \in Deliveries, Receive(h, d)
    PROVE  IInv'
<1> DEFINE y == [Idle EXCEPT !.phase = "claim", !.delivery = d, !.at = 1]
<1>1. Becomes(h, y) /\ UNCHANGED <<leads, recorded, applied, answered, outside, faults>>
  BY DEF Receive
<1>2. /\ y.phase = "claim" /\ y.delivery = d /\ y.at = 1 /\ y.campaign = None /\ y.match = None
      /\ y.read = None /\ DOMAIN y.rows = {} /\ DOMAIN y.done = {} /\ y = [f \in Columns |-> y[f]]
  <2>1. /\ Idle.campaign = None /\ Idle.match = None /\ Idle.read = None /\ DOMAIN Idle.rows = {}
        /\ DOMAIN Idle.done = {} /\ Idle = [f \in Columns |-> Idle[f]]
    BY DEF Idle, Columns
  <2>2. QED
    BY <2>1 DEF Columns
<1> HIDE DEF y
<1>3. Fields(y)
  BY <1>2 DEF Fields, Open
<1>4. 1 \in DOMAIN Batch[d] /\ DOMAIN Batch[d] \subseteq Nat \ {0}
  <2>1. Batch[d] \in Seq(Events) /\ Batch[d] # <<>>
    BY IntakeAssumption
  <2>2. QED
    BY <2>1
<1>5. Works(y, leads)
  BY <1>2, <1>3, <1>4 DEF Works, Results, OfDelivery, Open, Handling
<1>6. Passed(y, recorded)
  BY <1>2, <1>4 DEF Passed, Open
<1>7. QED
  BY <1>1, <1>2, <1>5, <1>6, HandlerWorks, TablesStay, SlotKeeps

LEMMA ClaimKeeps == ASSUME IInv, NEW h \in Handlers, Claim(h) PROVE IInv'
<1> DEFINE x == handler[h]
           e == Current(x)
           y == [x EXCEPT !.done = Put(e, "claimed", @), !.phase = IF x.delivery \in App THEN "route" ELSE "find"]
<1>1. /\ x.phase = "claim" /\ WaitsFor(h) = {}
      /\ Becomes(h, IF New(h, e) THEN y ELSE Onward(x))
      /\ UNCHANGED <<leads, recorded, applied, answered, outside, faults>>
  BY HandlerWorks DEF Claim
<1>2. Works(x, leads) /\ Passed(x, recorded) /\ \A d \in DOMAIN x.done : Unclaimed(h, d)
  BY HandlerWorks
<1>3. e \in Events /\ x.delivery \in Deliveries /\ x.at \in DOMAIN Batch[x.delivery] /\ Fields(x)
  BY <1>1, <1>2, EventIsEvent DEF Open
<1>4. Tables' /\ AnsweredIsApplied'
  BY <1>1, HandlerWorks, TablesStay
<1>5. CASE New(h, e)
  <2>1. DOMAIN Put(e, "claimed", x.done) = DOMAIN x.done \cup {e} /\ Put(e, "claimed", x.done)[e] = "claimed"
        /\ \A d \in DOMAIN x.done \ {e} : Put(e, "claimed", x.done)[d] = x.done[d]
    BY DEF Put, Over
  <2>2. /\ y.phase = (IF x.delivery \in App THEN "route" ELSE "find") /\ y.delivery = x.delivery
        /\ y.at = x.at /\ y.campaign = x.campaign /\ y.match = x.match /\ y.read = x.read /\ y.rows = x.rows
        /\ y.done = Put(e, "claimed", x.done) /\ y = [f \in Columns |-> y[f]]
    BY <1>3 DEF Fields, Columns
  <2>3. \A d \in DOMAIN x.done : x.done[d] \in Outcomes
    BY <1>1, <1>2 DEF Works, Results, Handling
  <2>4. Unclaimed(h, e)
    <3>1. \A g \in Handlers \ {h} : e \notin DOMAIN handler[g].done
      BY <1>1, HandlerWorks DEF WaitsFor
    <3>2. QED
      BY <1>5, <3>1 DEF New, Unclaimed
  <2> HIDE DEF x, y
  <2>5. Fields(y)
    BY <1>3, <2>1, <2>2 DEF Fields, Open, Handling
  <2>6. Results(y)
    <3>1. Current(y) = e /\ y.phase \in Handling
      BY <2>2 DEF Current, Handling
    <3>2. QED
      BY <2>1, <2>2, <2>3, <3>1 DEF Results
  <2>7. Works(y, leads)
    <3>1. OfDelivery(y)
      BY <1>2, <1>3, <2>1, <2>2 DEF Works, OfDelivery, Current, e
    <3>2. QED
      BY <1>3, <2>2, <2>5, <2>6, <3>1 DEF Works, Open, Handling
  <2>8. Passed(y, recorded)
    BY <1>1, <1>2, <2>1, <2>2 DEF Passed, Open, Handling
  <2>9. \A d \in DOMAIN y.done : Unclaimed(h, d)
    BY <1>2, <2>1, <2>2, <2>4
  <2>10. QED
    BY <1>1, <1>4, <1>5, <2>7, <2>8, <2>9, SlotKeeps
<1>6. CASE ~New(h, e)
  <2>1. recorded[e] # None \/ e \in DOMAIN x.done
    BY <1>6 DEF New
  <2>2. \A d \in DOMAIN x.done : x.done[d] \in Outcomes
    BY <1>1, <1>2 DEF Works, Results, Handling
  <2>3. \A i \in DOMAIN Batch[x.delivery] :
           i <= x.at => recorded[Batch[x.delivery][i]] # None \/ Batch[x.delivery][i] \in DOMAIN x.done
    <3>1. ASSUME NEW i \in DOMAIN Batch[x.delivery], i <= x.at
          PROVE  recorded[Batch[x.delivery][i]] # None \/ Batch[x.delivery][i] \in DOMAIN x.done
      <4>1. CASE i = x.at
        BY <2>1, <4>1 DEF Current
      <4>2. CASE i # x.at
        <5>1. Batch[x.delivery] \in Seq(Events)
          BY <1>3, IntakeAssumption
        <5>2. i < x.at
          BY <1>3, <3>1, <4>2, <5>1
        <5>3. QED
          BY <1>1, <1>2, <5>2 DEF Passed
      <4>3. QED
        BY <4>1, <4>2
    <3>2. QED
      BY <3>1
  <2> HIDE DEF x
  <2>4. Works(Onward(x), leads) /\ Passed(Onward(x), recorded) /\ Onward(x).done = x.done
    <3>1. OfDelivery(x)
      BY <1>2 DEF Works
    <3>2. QED
      BY <1>3, <2>2, <2>3, <3>1, OnwardWorks
  <2>5. QED
    BY <1>1, <1>2, <1>4, <1>6, <2>4, SlotKeeps
<1>7. QED
  BY <1>5, <1>6

\* An event that led to no lead.
LEMMA NoLeadKeeps ==
    ASSUME IInv, NEW h \in Handlers, handler[h].phase = "route", NEW outcome \in {"contact_gone", "unrouted"},
           Becomes(h, Finished(handler[h], Event(h), outcome)),
           UNCHANGED <<leads, recorded, applied, answered, outside, faults>>
    PROVE  IInv'
<1> DEFINE x == handler[h]
           y == Finished(x, Current(x), outcome)
<1>1. /\ Works(x, leads) /\ Passed(x, recorded) /\ \A d \in DOMAIN x.done : Unclaimed(h, d)
      /\ Becomes(h, y)
  BY HandlerWorks
<1>2. x.delivery \in Deliveries /\ x.at \in DOMAIN Batch[x.delivery] /\ Fields(x)
  BY <1>1, EventIsEvent DEF Open, Handling
<1>3. Results(x) /\ OfDelivery(x) /\ x.phase \in Handling /\ outcome \in Outcomes
  BY <1>1 DEF Works, Handling, Outcomes
<1>4. Works(y, leads) /\ Passed(y, recorded) /\ DOMAIN y.done = DOMAIN x.done
  BY <1>1, <1>2, <1>3, FinishedWorks
<1> HIDE DEF x, y
<1>5. Tables' /\ AnsweredIsApplied'
  BY HandlerWorks, TablesStay
<1>6. QED
  BY <1>1, <1>4, <1>5, SlotKeeps

LEMMA RouteKeeps == ASSUME IInv, NEW h \in Handlers, Route(h) \/ ContactGone(h) PROVE IInv'
<1> DEFINE x == handler[h]
           c == Routed(Event(h))
           y == [x EXCEPT !.phase = "find", !.campaign = c]
<1>1. /\ x.phase = "route"
      /\ UNCHANGED <<leads, recorded, applied, answered, outside, faults>>
  BY DEF Route, ContactGone
<1>2. CASE ContactGone(h) \/ Becomes(h, Finished(x, Event(h), "unrouted"))
  BY <1>1, <1>2, NoLeadKeeps DEF ContactGone
<1>3. ASSUME Becomes(h, y), c # None PROVE IInv'
  <2>1. Works(x, leads) /\ Passed(x, recorded) /\ \A d \in DOMAIN x.done : Unclaimed(h, d)
    BY HandlerWorks
  <2>2. x.delivery \in Deliveries /\ x.at \in DOMAIN Batch[x.delivery] /\ Fields(x)
    BY <1>1, <2>1, EventIsEvent DEF Open, Handling
  <2>3. c \in Campaigns
    BY <1>3, RoutedIsCampaign DEF IInv
  <2> HIDE DEF c
  <2>4. /\ y.phase = "find" /\ y.delivery = x.delivery /\ y.at = x.at /\ y.campaign = c /\ y.match = x.match
        /\ y.read = x.read /\ y.rows = x.rows /\ y.done = x.done /\ y = [f \in Columns |-> y[f]]
    BY <2>2 DEF Fields, Columns
  <2>5. Becomes(h, y)
    BY <1>3 DEF c
  <2> HIDE DEF x, y
  <2>6. Fields(y)
    BY <2>2, <2>3, <2>4 DEF Fields, Open, Handling
  <2>7. Results(y) /\ OfDelivery(y)
    BY <1>1, <2>1, <2>4 DEF Works, Results, OfDelivery, Handling, Current
  <2>8. Works(y, leads)
    BY <2>2, <2>3, <2>4, <2>6, <2>7 DEF Works, Open, Handling
  <2>9. Passed(y, recorded)
    BY <1>1, <2>1, <2>4 DEF Passed, Open, Handling
  <2>10. Tables' /\ AnsweredIsApplied' /\ \A d \in DOMAIN y.done : Unclaimed(h, d)
    BY <1>1, <2>1, <2>4, HandlerWorks, TablesStay
  <2>11. QED
    BY <1>1, <2>5, <2>8, <2>9, <2>10, SlotKeeps
<1>4. Becomes(h, Finished(x, Event(h), "unrouted")) \/ (Becomes(h, y) /\ c # None) \/ ContactGone(h)
  BY DEF Route
<1>5. QED
  BY <1>2, <1>3, <1>4

\* What a statement of the transaction sees of a lead.
LEMMA SeenFits ==
    ASSUME IInv, NEW h \in Handlers
    PROVE  DOMAIN Seen(h) = Events /\ \A l \in Events : Seen(h)[l] \in Row \cup {None}
<1>1. DOMAIN leads = Events /\ \A l \in Events : leads[l] \in Row \cup {None}
  BY DEF IInv, Tables
<1>2. DOMAIN handler[h].rows \subseteq Events /\ \A l \in DOMAIN handler[h].rows : handler[h].rows[l] \in Row
  BY HandlerWorks DEF Works, Fields
<1>3. QED
  BY <1>1, <1>2 DEF Seen, Over

LEMMA FindKeeps == ASSUME IInv, NEW h \in Handlers, Find(h) PROVE IInv'
<1> DEFINE x == handler[h]
           found == Candidates(Seen(h), Contact[Event(h)])
           c == IF x.delivery \in App THEN x.campaign ELSE Named[x.delivery]
<1>1. x.phase = "find" /\ UNCHANGED <<leads, recorded, applied, answered, outside, faults>>
  BY DEF Find
<1>2. Works(x, leads) /\ Passed(x, recorded) /\ \A d \in DOMAIN x.done : Unclaimed(h, d)
  BY HandlerWorks
<1>3. x.delivery \in Deliveries /\ x.at \in DOMAIN Batch[x.delivery] /\ Fields(x)
  BY <1>1, <1>2, EventIsEvent DEF Open, Handling
<1>4. c \in Campaigns
  BY <1>1, <1>2, <1>3, IntakeAssumption DEF Works
<1>5. PICK l \in IF found = {} THEN {None} ELSE found :
        Becomes(h, [x EXCEPT !.phase = "write", !.campaign = c, !.match = l,
                             !.read = IF l = None THEN None ELSE Seen(h)[l]])
  BY DEF Find
<1> DEFINE read == IF l = None THEN None ELSE Seen(h)[l]
           y == [x EXCEPT !.phase = "write", !.campaign = c, !.match = l, !.read = read]
<1>6. l # None => l \in Events /\ Seen(h)[l] \in Row
  <2>1. \A k \in found : k \in DOMAIN Seen(h) /\ Seen(h)[k] # None
    BY DEF Candidates
  <2>2. QED
    BY <1>5, <2>1, SeenFits
<1>7. Becomes(h, y)
  BY <1>5
<1> HIDE DEF c, read
<1>8. /\ y.phase = "write" /\ y.delivery = x.delivery /\ y.at = x.at /\ y.campaign = c /\ y.match = l
      /\ y.read = read /\ y.rows = x.rows /\ y.done = x.done /\ y = [f \in Columns |-> y[f]]
  BY <1>3 DEF Fields, Columns
<1>9. Seen(h) = Over(y.rows, leads)
  BY <1>8 DEF Seen
<1>10. Tables' /\ AnsweredIsApplied'
  BY <1>1, HandlerWorks, TablesStay
<1> HIDE DEF x, y, found
<1>11. Fields(y)
  BY <1>3, <1>4, <1>6, <1>8 DEF Fields, Open, Handling, read
<1>12. Results(y) /\ OfDelivery(y)
  BY <1>1, <1>2, <1>8 DEF Works, Results, OfDelivery, Handling, Current
<1>13. Works(y, leads)
  BY <1>3, <1>4, <1>6, <1>8, <1>9, <1>11, <1>12 DEF Works, Open, Handling, read
<1>14. Passed(y, recorded)
  BY <1>1, <1>2, <1>8 DEF Passed, Open, Handling
<1>15. \A d \in DOMAIN y.done : Unclaimed(h, d)
  BY <1>2, <1>8
<1>16. QED
  BY <1>1, <1>7, <1>10, <1>13, <1>14, <1>15, SlotKeeps

LEMMA WriteKeeps == ASSUME IInv, NEW h \in Handlers, Write(h) PROVE IInv'
<1> DEFINE x == handler[h]
           e == Current(x)
           old == Seen(h)[Target(h)]
           row == Merged(old, Contact[e], x.campaign)
           outcome == Decision(Contact[e], x.campaign, x.read)
           written == [row EXCEPT !.status = IF outcome = "duplicate_ignored" THEN @ ELSE outcome]
           y == [x EXCEPT !.rows = Put(Target(h), written, @)]
<1>1. /\ x.phase = "write" /\ Becomes(h, Finished(y, e, outcome))
      /\ UNCHANGED <<leads, recorded, applied, answered, outside, faults>>
  BY HandlerWorks DEF Write
<1>2. Works(x, leads) /\ Passed(x, recorded) /\ \A d \in DOMAIN x.done : Unclaimed(h, d)
  BY HandlerWorks
<1>3. e \in Events /\ x.delivery \in Deliveries /\ x.at \in DOMAIN Batch[x.delivery] /\ Fields(x)
  BY <1>1, <1>2, EventIsEvent DEF Open, Handling
<1>4. /\ x.campaign \in Campaigns
      /\ IF x.match = None THEN x.read = None ELSE Seen(h)[x.match] \in Row
  BY <1>1, <1>2 DEF Works, Seen
<1>5. Target(h) \in Events /\ (x.match # None => Target(h) = x.match)
  BY <1>3, HandlerWorks DEF Target, Fields
<1>6. old \in Row \cup {None} /\ (x.read # None => old \in Row)
  BY <1>4, <1>5, SeenFits
<1>7. /\ outcome \in Ingested /\ outcome \in Outcomes
      /\ outcome = "duplicate_ignored" => x.read # None
      /\ outcome # "duplicate_ignored" => outcome \in Statuses
  BY DecisionIsOutcome
<1>8. written \in Row
  <2>1. \A s \in Statuses : [row EXCEPT !.status = s] \in Row
    BY <1>3, <1>4, <1>6, MergedFits
  <2>2. old \in Row => row \in Row
    BY <1>3, <1>4, <1>6, MergedFits
  <2> HIDE DEF row, outcome
  <2>3. CASE outcome = "duplicate_ignored"
    <3>1. row \in Row
      BY <1>6, <1>7, <2>2, <2>3
    <3>2. written = row
      BY <2>3, <3>1 DEF Row
    <3>3. QED
      BY <3>1, <3>2
  <2>4. CASE outcome # "duplicate_ignored"
    <3>1. written = [row EXCEPT !.status = outcome]
      BY <2>4
    <3>2. QED
      BY <1>7, <2>1, <2>4, <3>1
  <2>5. QED
    BY <2>3, <2>4
<1> HIDE DEF written, outcome
<1>9. /\ y.phase = x.phase /\ y.delivery = x.delivery /\ y.at = x.at /\ y.campaign = x.campaign
      /\ y.match = x.match /\ y.read = x.read /\ y.rows = Put(Target(h), written, x.rows) /\ y.done = x.done
      /\ y = [f \in Columns |-> y[f]]
  BY <1>3 DEF Fields, Columns
<1>10. DOMAIN y.rows \subseteq Events /\ \A d \in DOMAIN y.rows : y.rows[d] \in Row
  <2>1. DOMAIN x.rows \subseteq Events /\ \A d \in DOMAIN x.rows : x.rows[d] \in Row
    BY <1>3 DEF Fields
  <2>2. QED
    BY <1>5, <1>8, <1>9, <2>1 DEF Put, Over
<1>11. Tables' /\ AnsweredIsApplied'
  BY <1>1, HandlerWorks, TablesStay
<1>12. Current(y) = e
  BY <1>9 DEF Current
<1> HIDE DEF x, y, e
<1>13. Fields(y)
  BY <1>3, <1>9, <1>10 DEF Fields
<1>14. Results(y) /\ OfDelivery(y) /\ Passed(y, recorded) /\ y.phase \in Handling
  BY <1>1, <1>2, <1>9 DEF Works, Results, OfDelivery, Passed, Current, Handling
<1>15. /\ Works(Finished(y, e, outcome), leads) /\ Passed(Finished(y, e, outcome), recorded)
       /\ DOMAIN Finished(y, e, outcome).done = DOMAIN y.done
  BY <1>3, <1>7, <1>9, <1>12, <1>13, <1>14, FinishedWorks
<1>16. \A d \in DOMAIN Finished(y, e, outcome).done : Unclaimed(h, d)
  BY <1>2, <1>9, <1>15
<1>17. QED
  BY <1>1, <1>11, <1>15, <1>16, SlotKeeps

-----------------------------------------------------------------------------
(* The commit and the answer                                               *)

\* Rows stay rows: what a transaction has matched remains there.
LEMMA WorksLater ==
    ASSUME NEW x, NEW t, NEW u, Works(x, t), DOMAIN t = Events, DOMAIN u = Events,
           \A l \in Events : t[l] \in Row => u[l] \in Row
    PROVE  Works(x, u)
<1>1. ASSUME x.phase = "write", x.match # None PROVE Over(x.rows, u)[x.match] \in Row
  <2>1. Over(x.rows, t)[x.match] \in Row /\ x.match \in Events
    BY <1>1 DEF Works, Fields
  <2>2. DOMAIN x.rows \subseteq Events
    BY DEF Works, Fields
  <2>3. QED
    BY <2>1, <2>2 DEF Over
<1>2. QED
  BY <1>1 DEF Works

LEMMA CommitKeeps == ASSUME IInv, NEW h \in Handlers, Commit(h) PROVE IInv'
<1> DEFINE x == handler[h]
           y == [Idle EXCEPT !.phase = "answer", !.delivery = x.delivery]
<1>1. /\ x.phase = "commit" /\ Becomes(h, y) /\ UNCHANGED <<answered, outside, faults>>
      /\ leads' = Over(x.rows, leads) /\ recorded' = Over(x.done, recorded)
      /\ applied' = [e \in Events |-> applied[e] + IF e \in DOMAIN x.done /\ x.done[e] \in Ingested THEN 1 ELSE 0]
  BY DEF Commit
<1>2. Works(x, leads) /\ Passed(x, recorded) /\ \A e \in DOMAIN x.done : Unclaimed(h, e)
  BY HandlerWorks
<1>3. /\ Fields(x) /\ x.delivery \in Deliveries /\ DOMAIN x.rows \subseteq Events /\ DOMAIN x.done \subseteq Events
      /\ \A e \in DOMAIN x.rows : x.rows[e] \in Row
      /\ \A e \in DOMAIN x.done : x.done[e] \in Outcomes
  BY <1>1, <1>2 DEF Works, Results, Fields, Handling
<1>4. /\ y.phase = "answer" /\ y.delivery = x.delivery /\ y.at = 0 /\ y.campaign = None /\ y.match = None
      /\ y.read = None /\ DOMAIN y.rows = {} /\ DOMAIN y.done = {} /\ y = [f \in Columns |-> y[f]]
  <2>1. /\ Idle.campaign = None /\ Idle.match = None /\ Idle.read = None /\ DOMAIN Idle.rows = {} /\ Idle.at = 0
        /\ DOMAIN Idle.done = {} /\ Idle = [f \in Columns |-> Idle[f]]
    BY DEF Idle, Columns
  <2>2. QED
    BY <2>1 DEF Columns
<1>5. /\ DOMAIN handler' = Handlers /\ handler' = [g \in Handlers |-> handler'[g]] /\ handler'[h] = y
      /\ \A g \in Handlers \ {h} : handler'[g] = handler[g]
  BY <1>1, SlotWritten
<1>6. /\ leads \in [Events -> Row \cup {None}] /\ recorded \in [Events -> Outcomes \cup {None}]
      /\ applied \in [Events -> Nat]
  BY DEF IInv, Tables
<1>7. /\ leads' \in [Events -> Row \cup {None}]
      /\ \A l \in Events : leads[l] \in Row => leads'[l] \in Row
  BY <1>1, <1>3, <1>6 DEF Over
<1>8. /\ recorded' \in [Events -> Outcomes \cup {None}]
      /\ \A e \in DOMAIN x.done : recorded'[e] = x.done[e] /\ recorded'[e] # None
      /\ \A e \in Events \ DOMAIN x.done : recorded'[e] = recorded[e]
      /\ \A e \in Events : recorded[e] # None => recorded'[e] # None
  BY <1>1, <1>3, <1>6, NullAssumption DEF Over
<1> HIDE DEF x, y
<1>9. Fields(y)
  BY <1>3, <1>4 DEF Fields, Open
<1>10. \A t : Works(y, t)
  BY <1>3, <1>4, <1>9 DEF Works, Results, OfDelivery, Open, Handling
<1>11. \A d \in Deliveries : \A i \in DOMAIN Batch[d] : Batch[d][i] \in Events
  BY IntakeAssumption
<1>12. Passed(y, recorded')
  <2>1. ASSUME NEW i \in DOMAIN Batch[x.delivery] PROVE recorded'[Batch[x.delivery][i]] # None
    <3>1. recorded[Batch[x.delivery][i]] # None \/ Batch[x.delivery][i] \in DOMAIN x.done
      BY <1>1, <1>2 DEF Passed, Open, Handling
    <3>2. Batch[x.delivery][i] \in Events
      BY <1>3, <1>11
    <3>3. QED
      BY <1>8, <3>1, <3>2
  <2>2. QED
    BY <1>4, <2>1 DEF Passed
<1>13. ASSUME NEW g \in Handlers \ {h} PROVE Works(handler[g], leads') /\ Passed(handler[g], recorded')
  <2>1. Works(handler[g], leads) /\ Passed(handler[g], recorded)
    BY HandlerWorks
  <2>2. Works(handler[g], leads')
    <3>1. DOMAIN leads = Events /\ DOMAIN leads' = Events
      BY <1>6, <1>7
    <3>2. QED
      BY <1>7, <2>1, <3>1, WorksLater
  <2>3. Passed(handler[g], recorded')
    <3>1. handler[g].phase # "idle" => handler[g].delivery \in Deliveries
      BY <2>1 DEF Works
    <3>2. QED
      BY <1>8, <1>11, <2>1, <3>1 DEF Passed
  <2>4. QED
    BY <2>2, <2>3
<1>14. Transactions'
  BY <1>5, <1>10, <1>12, <1>13 DEF Transactions
<1>15. Owned'
  <2>1. ASSUME NEW g \in Handlers \ {h}, NEW e \in DOMAIN handler[g].done
        PROVE  recorded'[e] = None
    <3>1. e \in Events /\ recorded[e] = None /\ e \notin DOMAIN x.done
      BY HandlerWorks DEF Works, Fields, Unclaimed, x
    <3>2. QED
      BY <1>8, <3>1
  <2>2. \A a \in Handlers : \A e \in DOMAIN handler[a].done : \A g \in Handlers \ {a} : e \notin DOMAIN handler[g].done
    BY DEF IInv, Owned
  <2>3. \A g \in Handlers : DOMAIN handler'[g].done \subseteq DOMAIN handler[g].done
    BY <1>4, <1>5
  <2>4. ASSUME NEW g \in Handlers, NEW e \in DOMAIN handler'[g].done
        PROVE  recorded'[e] = None /\ \A b \in Handlers \ {g} : e \notin DOMAIN handler'[b].done
    <3>1. g # h
      BY <1>4, <1>5, <2>4
    <3>2. handler'[g] = handler[g]
      BY <1>5, <3>1
    <3>3. recorded'[e] = None
      BY <2>1, <2>4, <3>1, <3>2
    <3>4. QED
      BY <2>2, <2>3, <2>4, <3>2, <3>3
  <2>5. QED
    BY <2>4 DEF Owned
<1>16. AnsweredIsApplied'
  <2>1. ASSUME NEW d \in answered, NEW i \in DOMAIN Batch[d] PROVE recorded'[Batch[d][i]] # None
    <3>1. recorded[Batch[d][i]] # None /\ d \in Deliveries
      BY DEF IInv, AnsweredIsApplied, Tables
    <3>2. QED
      BY <1>8, <1>11, <3>1
  <2>2. ASSUME NEW e \in Events PROVE applied'[e] = IF recorded'[e] \in Ingested THEN 1 ELSE 0
    <3>1. applied[e] = IF recorded[e] \in Ingested THEN 1 ELSE 0
      BY DEF IInv, AnsweredIsApplied
    <3>2. CASE e \in DOMAIN x.done
      <4>1. recorded[e] = None
        BY <1>2, <3>2 DEF Unclaimed
      <4>2. None \notin Ingested
        BY NullAssumption DEF Outcomes
      <4>3. applied'[e] = applied[e] + IF x.done[e] \in Ingested THEN 1 ELSE 0
        BY <1>1, <3>2
      <4>4. QED
        BY <1>8, <3>1, <3>2, <4>1, <4>2, <4>3
    <3>3. CASE e \notin DOMAIN x.done
      <4>1. applied'[e] = applied[e]
        BY <1>1, <1>6, <3>3
      <4>2. QED
        BY <1>8, <3>1, <3>3, <4>1
    <3>4. QED
      BY <3>2, <3>3
  <2>3. QED
    BY <1>1, <2>1, <2>2 DEF AnsweredIsApplied
<1>17. Tables'
  <2>1. applied' \in [Events -> Nat]
    BY <1>1, <1>6
  <2>2. \A l \in Events : live'[l] > 0 => leads'[l] # None
    <3>1. \A l \in Events : live[l] > 0 => leads[l] # None
      BY DEF IInv, Tables
    <3>2. \A l \in Events : leads[l] # None => leads'[l] # None
      BY <1>6, <1>7, NullAssumption
    <3>3. QED
      BY <1>1, <3>1, <3>2 DEF outside
  <2>3. QED
    BY <1>1, <1>7, <1>8, <2>1, <2>2 DEF IInv, Tables, outside
<1>18. QED
  BY <1>14, <1>15, <1>16, <1>17 DEF IInv

LEMMA AnswerKeeps == ASSUME IInv, NEW h \in Handlers, Answer(h) PROVE IInv'
<1> DEFINE x == handler[h]
<1>1. /\ x.phase = "answer" /\ Becomes(h, Idle) /\ answered' = answered \cup {x.delivery}
      /\ UNCHANGED <<leads, recorded, applied, outside, faults>>
  BY DEF Answer
<1>2. Works(x, leads) /\ Passed(x, recorded)
  BY HandlerWorks
<1>3. x.delivery \in Deliveries /\ \A i \in DOMAIN Batch[x.delivery] : recorded[Batch[x.delivery][i]] # None
  BY <1>1, <1>2 DEF Works, Passed, Open, Handling
<1> HIDE DEF x
<1>4. Tables'
  BY <1>1, <1>3 DEF IInv, Tables, outside
<1>5. AnsweredIsApplied'
  BY <1>1, <1>3 DEF IInv, AnsweredIsApplied
<1>6. UNCHANGED <<leads, recorded>>
  BY <1>1
<1>7. QED
  BY <1>1, <1>4, <1>5, <1>6, IdleWorks, SlotKeeps

-----------------------------------------------------------------------------
(* Around the transactions                                                 *)

LEMMA AroundKeeps ==
    ASSUME IInv, UNCHANGED <<recorded, applied, handler, answered, faults>>,
           leads' \in [Events -> Row \cup {None}], \A l \in Events : leads[l] \in Row => leads'[l] \in Row,
           active' \subseteq Campaigns, listed' \subseteq Values("phone"),
           live' \in [Events -> 0..MaxLive], edits' \in 0..MaxEdits,
           \A l \in Events : live'[l] > 0 => leads'[l] # None
    PROVE  IInv'
<1>1. Tables' /\ AnsweredIsApplied' /\ Owned'
  BY DEF IInv, Tables, AnsweredIsApplied, Owned
<1>2. ASSUME NEW h \in Handlers PROVE Works(handler[h], leads')
  <2>1. DOMAIN leads = Events /\ DOMAIN leads' = Events
    BY DEF IInv, Tables
  <2>2. QED
    BY <2>1, HandlerWorks, WorksLater
<1>3. Transactions'
  BY <1>2 DEF IInv, Transactions
<1>4. QED
  BY <1>1, <1>3 DEF IInv

LEMMA StartCallKeeps == ASSUME IInv, NEW l \in Events, StartCall(l) PROVE IInv'
<1>1. /\ edits < MaxEdits /\ edits' = edits + 1 /\ leads[l] # None /\ live[l] < MaxLive
      /\ leads' = [leads EXCEPT ![l] = [leads[l] EXCEPT !.status = "calling"]]
      /\ live' = [live EXCEPT ![l] = live[l] + 1]
      /\ UNCHANGED <<recorded, applied, handler, answered, active, listed, faults>>
  BY DEF StartCall
<1>2. /\ leads \in [Events -> Row \cup {None}] /\ live \in [Events -> 0..MaxLive] /\ edits \in 0..MaxEdits
      /\ active \subseteq Campaigns /\ listed \subseteq Values("phone")
      /\ \A k \in Events : live[k] > 0 => leads[k] # None
  BY DEF IInv, Tables
<1> DEFINE row == [leads[l] EXCEPT !.status = "calling"]
<1>3. row \in Row /\ row # None
  <2>1. leads[l] \in Row
    BY <1>1, <1>2
  <2>2. row \in Row
    BY <2>1 DEF Row, Statuses
  <2>3. QED
    BY <2>2, NullAssumption
<1>4. leads' = [leads EXCEPT ![l] = row]
  BY <1>1
<1> HIDE DEF row
<1>5. leads' \in [Events -> Row \cup {None}] /\ \A k \in Events : leads[k] \in Row => leads'[k] \in Row
  BY <1>2, <1>3, <1>4
<1>6. live' \in [Events -> 0..MaxLive] /\ edits' \in 0..MaxEdits
  <2>1. live[l] + 1 \in 0..MaxLive /\ edits + 1 \in 0..MaxEdits
    BY <1>1, <1>2, IntakeAssumption
  <2>2. QED
    BY <1>1, <1>2, <2>1
<1>7. \A k \in Events : live'[k] > 0 => leads'[k] # None
  BY <1>1, <1>2, <1>3, <1>4
<1>8. active' \subseteq Campaigns /\ listed' \subseteq Values("phone")
      /\ UNCHANGED <<recorded, applied, handler, answered, faults>>
  BY <1>1, <1>2
<1>9. QED
  BY <1>5, <1>6, <1>7, <1>8, AroundKeeps

LEMMA EndCallKeeps ==
    ASSUME IInv, NEW l \in Events, NEW status \in {"queued", "failed", "closed"}, NEW barred \in BOOLEAN,
           EndCall(l, status, barred)
    PROVE  IInv'
<1> DEFINE flag == barred \/ leads[l].barred
           row == [leads[l] EXCEPT !.status = status, !.barred = flag]
<1>1. /\ leads \in [Events -> Row \cup {None}] /\ live \in [Events -> 0..MaxLive] /\ edits \in 0..MaxEdits
      /\ active \subseteq Campaigns /\ listed \subseteq Values("phone")
      /\ \A k \in Events : live[k] > 0 => leads[k] # None
  BY DEF IInv, Tables
<1>2. /\ live[l] > 0 /\ live' = [live EXCEPT ![l] = live[l] - 1]
      /\ UNCHANGED <<recorded, applied, handler, answered, active, listed, edits, faults>>
  BY DEF EndCall
<1>3. leads[l] \in Row
  BY <1>1, <1>2
<1>4. flag \in BOOLEAN
  BY <1>3 DEF Row
<1>5. leads' = [leads EXCEPT ![l] = row]
  <2>1. leads' = [leads EXCEPT ![l].status = status, ![l].barred = barred \/ @]
    BY DEF EndCall
  <2> HIDE DEF flag
  <2>2. leads' = [leads EXCEPT ![l].status = status, ![l].barred = flag]
    BY <1>1, <1>3, <2>1 DEF flag, Row
  <2>3. QED
    BY <1>1, <1>3, <2>2 DEF Row
<1> HIDE DEF flag
<1>6. row \in Row /\ row # None
  <2>1. row \in Row
    BY <1>3, <1>4 DEF Row, Statuses
  <2>2. QED
    BY <2>1, NullAssumption
<1> HIDE DEF row
<1>7. leads' \in [Events -> Row \cup {None}] /\ \A k \in Events : leads[k] \in Row => leads'[k] \in Row
  BY <1>1, <1>5, <1>6
<1>8. live' \in [Events -> 0..MaxLive]
  <2>1. live[l] - 1 \in 0..MaxLive
    BY <1>1, <1>2, IntakeAssumption
  <2>2. QED
    BY <1>1, <1>2, <2>1
<1>9. \A k \in Events : live'[k] > 0 => leads'[k] # None
  BY <1>1, <1>2, <1>5, <1>6
<1>10. /\ active' \subseteq Campaigns /\ listed' \subseteq Values("phone") /\ edits' \in 0..MaxEdits
       /\ UNCHANGED <<recorded, applied, handler, answered, faults>>
  BY <1>1, <1>2
<1>11. QED
  BY <1>7, <1>8, <1>9, <1>10, AroundKeeps

LEMMA EditKeeps ==
    ASSUME IInv, (\E c \in Campaigns : Toggle(c)) \/ (\E p \in Values("phone") : ListNumber(p))
    PROVE  IInv'
<1>1. /\ leads \in [Events -> Row \cup {None}] /\ live \in [Events -> 0..MaxLive] /\ edits \in 0..MaxEdits
      /\ active \subseteq Campaigns /\ listed \subseteq Values("phone")
      /\ \A k \in Events : live[k] > 0 => leads[k] # None
  BY DEF IInv, Tables
<1>2. /\ edits < MaxEdits /\ edits' = edits + 1 /\ active' \subseteq Campaigns /\ listed' \subseteq Values("phone")
      /\ UNCHANGED <<leads, recorded, applied, handler, answered, live, faults>>
  BY <1>1 DEF Toggle, ListNumber
<1>3. edits' \in 0..MaxEdits
  BY <1>1, <1>2, IntakeAssumption
<1>4. /\ leads' \in [Events -> Row \cup {None}] /\ live' \in [Events -> 0..MaxLive]
      /\ \A l \in Events : leads[l] \in Row => leads'[l] \in Row
      /\ \A l \in Events : live'[l] > 0 => leads'[l] # None
  BY <1>1, <1>2
<1>5. QED
  BY <1>2, <1>3, <1>4, AroundKeeps

-----------------------------------------------------------------------------

LEMMA IInvInit == ASSUME Init PROVE IInv
<1>1. Tables
  BY IntakeAssumption DEF Init, Tables
<1>2. handler = [h \in Handlers |-> Idle]
  BY DEF Init
<1>3. Transactions /\ Owned
  BY <1>2, IdleWorks DEF Transactions, Owned
<1>4. AnsweredIsApplied
  <2>1. None \notin Ingested
    BY NullAssumption DEF Outcomes
  <2>2. QED
    BY <2>1 DEF Init, AnsweredIsApplied
<1>5. QED
  BY <1>1, <1>3, <1>4 DEF IInv

LEMMA IInvStep == ASSUME IInv, [Next]_vars PROVE IInv'
<1>1. faults \in 0..MaxFaults
  BY DEF IInv, Tables
<1>2. CASE UNCHANGED vars
  BY <1>2 DEF vars, outside, IInv, Tables, Transactions, Owned, AnsweredIsApplied
<1>3. ASSUME NEW h \in Handlers, RollBack(h), UNCHANGED faults \/ (faults < MaxFaults /\ faults' = faults + 1)
      PROVE  IInv'
  <2>1. faults' \in 0..MaxFaults
    BY <1>1, <1>3, IntakeAssumption
  <2>2. QED
    BY <1>3, <2>1, RollBackKeeps
<1>4. ASSUME NEW h \in Handlers, Handle(h) PROVE IInv'
  <2>1. CASE Collide(h) \/ AbortDeadlock(h)
    BY <1>3, <2>1 DEF Collide, AbortDeadlock
  <2>2. QED
    BY <1>4, <2>1, ClaimKeeps, RouteKeeps, WriteKeeps, CommitKeeps, AnswerKeeps, FindKeeps DEF Handle
<1>5. ASSUME NEW h \in Handlers, Disturb(h) PROVE IInv'
  <2>1. CASE Fail(h) \/ LoseAnswer(h)
    BY <1>3, <2>1 DEF Fail, LoseAnswer
  <2>2. QED
    BY <1>5, <2>1, RouteKeeps DEF Disturb
<1>6. ASSUME NEW h \in Handlers, NEW d \in Deliveries, Receive(h, d) PROVE IInv'
  BY <1>6, ReceiveKeeps
<1>7. CASE Around
  <2>1. \A l \in Events : StartCall(l) => IInv'
    BY StartCallKeeps
  <2>2. \A l \in Events : \A barred \in BOOLEAN : EndCall(l, "closed", barred) => IInv'
    BY EndCallKeeps
  <2>3. \A l \in Events : EndCall(l, "queued", FALSE) \/ EndCall(l, "failed", FALSE) => IInv'
    BY EndCallKeeps
  <2>4. QED
    BY <1>7, <2>1, <2>2, <2>3, EditKeeps DEF Around
<1>8. QED
  BY <1>2, <1>4, <1>5, <1>6, <1>7 DEF Next

LEMMA IInvHolds == Spec => []IInv
BY IInvInit, IInvStep, PTL DEF Spec

\* The types of the tables and of every open transaction.
THEOREM IntakeTypes == Spec => []TypeOK
<1>1. ASSUME IInv PROVE TypeOK
  <2>1. ASSUME NEW h \in Handlers
        PROVE  LET x == handler[h] IN
               /\ x.phase \in {"idle", "claim", "route", "find", "write", "commit", "answer"}
               /\ x.delivery \in Deliveries \cup {None} /\ x.at \in Nat
               /\ x.campaign \in Campaigns \cup {None}
               /\ x.match \in Events \cup {None} /\ x.read \in Row \cup {None}
               /\ DOMAIN x.rows \subseteq Events /\ Range(x.rows) \subseteq Row
               /\ DOMAIN x.done \subseteq Events /\ Range(x.done) \subseteq Outcomes \cup {"claimed"}
    <3> DEFINE x == handler[h]
    <3>1. Fields(x) /\ Results(x)
      BY <1>1, HandlerWorks DEF Works
    <3> HIDE DEF x
    <3>2. Range(x.rows) \subseteq Row /\ Range(x.done) \subseteq Outcomes \cup {"claimed"}
      BY <3>1 DEF Fields, Results, Range
    <3>3. /\ x.phase \in {"idle", "claim", "route", "find", "write", "commit", "answer"}
          /\ x.delivery \in Deliveries \cup {None} /\ x.at \in Nat
          /\ x.campaign \in Campaigns \cup {None}
          /\ x.match \in Events \cup {None} /\ x.read \in Row \cup {None}
          /\ DOMAIN x.rows \subseteq Events /\ DOMAIN x.done \subseteq Events
      BY <3>1 DEF Fields, Open, Handling
    <3>4. QED
      BY <3>2, <3>3 DEF x
  <2>2. DOMAIN handler = Handlers
    BY <1>1 DEF IInv, Transactions
  <2>3. QED
    BY <1>1, <2>1, <2>2 DEF IInv, Tables, TypeOK
<1>2. QED
  BY <1>1, IInvHolds, PTL

\* What was answered 2xx has been applied, and no event twice, whatever
\* deliveries overlap, collide, deadlock, crash or are repeated (leads/route.ts,
\* hubspot-app-intake.ts).
THEOREM AnsweredOnceApplied == Spec => []AnsweredIsApplied
<1>1. IInv => AnsweredIsApplied
  BY DEF IInv
<1>2. QED
  BY <1>1, IInvHolds, PTL

-----------------------------------------------------------------------------
(* The ledger of events                                                    *)

\* A commit ingests the delivery: what it claimed is what was pending.
LEMMA CommitIngests ==
    ASSUME IInv, NEW h \in Handlers, Commit(h)
    PROVE  \E d \in Deliveries : Ledger!Ingest(d)
<1> DEFINE x == handler[h]
           d == x.delivery
<1>1. /\ x.phase = "commit" /\ recorded' = Over(x.done, recorded) /\ UNCHANGED answered
      /\ applied' = [e \in Events |-> applied[e] + IF e \in DOMAIN x.done /\ x.done[e] \in Ingested THEN 1 ELSE 0]
  BY DEF Commit
<1>2. Works(x, leads) /\ Passed(x, recorded) /\ \A e \in DOMAIN x.done : Unclaimed(h, e)
  BY HandlerWorks
<1>3. /\ d \in Deliveries /\ DOMAIN x.done \subseteq Events
      /\ DOMAIN x.done \subseteq {Batch[d][i] : i \in DOMAIN Batch[d]}
      /\ \A e \in DOMAIN x.done : x.done[e] \in Outcomes
  BY <1>1, <1>2 DEF Works, Fields, Results, OfDelivery, Handling
<1>4. \A i \in DOMAIN Batch[d] : recorded[Batch[d][i]] # None \/ Batch[d][i] \in DOMAIN x.done
  BY <1>1, <1>2 DEF Passed, Open, Handling
<1>5. recorded \in [Events -> Outcomes \cup {None}]
  BY DEF IInv, Tables
<1> HIDE DEF x
<1>6. Ledger!Pending(d) = DOMAIN x.done
  BY <1>2, <1>3, <1>4 DEF Ledger!Pending, Ledger!EventsOf, Unclaimed
<1>7. /\ recorded' \in [Events -> Outcomes \cup {None}]
      /\ \A e \in DOMAIN x.done : recorded'[e] = x.done[e]
      /\ \A e \in Events \ DOMAIN x.done : recorded'[e] = recorded[e]
  BY <1>1, <1>3, <1>5 DEF Over
<1>8. \A e \in Events : IF e \in DOMAIN x.done THEN recorded'[e] \in Outcomes ELSE recorded'[e] = recorded[e]
  BY <1>3, <1>7
<1>9. applied' = [e \in Events |-> applied[e] + IF e \in DOMAIN x.done /\ recorded'[e] \in Ingested THEN 1 ELSE 0]
  BY <1>1, <1>7
<1>10. Ledger!Ingest(d)
  BY <1>1, <1>6, <1>7, <1>8, <1>9 DEF Ledger!Ingest
<1>11. QED
  BY <1>3, <1>10

LEMMA AnswerAnswers ==
    ASSUME IInv, NEW h \in Handlers, Answer(h)
    PROVE  \E d \in Deliveries : Ledger!Answer(d)
<1> DEFINE x == handler[h]
<1>1. x.phase = "answer" /\ answered' = answered \cup {x.delivery} /\ UNCHANGED <<recorded, applied>>
  BY DEF Answer
<1>2. Works(x, leads) /\ Passed(x, recorded)
  BY HandlerWorks
<1>3. x.delivery \in Deliveries /\ \A i \in DOMAIN Batch[x.delivery] : recorded[Batch[x.delivery][i]] # None
  BY <1>1, <1>2 DEF Works, Passed, Open, Handling
<1> HIDE DEF x
<1>4. Ledger!Answer(x.delivery)
  BY <1>1, <1>3 DEF Ledger!Answer, Ledger!Pending, Ledger!EventsOf
<1>5. QED
  BY <1>3, <1>4

LEMMA IntakeStep ==
    ASSUME IInv, [Next]_vars
    PROVE  [Ledger!Next]_<<recorded, applied, answered>>
<1>1. ASSUME NEW h \in Handlers, Commit(h) \/ Answer(h) PROVE Ledger!Next
  BY <1>1, CommitIngests, AnswerAnswers DEF Ledger!Next
<1>2. ASSUME NEW h \in Handlers, Handle(h), ~Commit(h), ~Answer(h)
      PROVE  UNCHANGED <<recorded, applied, answered>>
  BY <1>2 DEF Handle, Claim, Route, Write, Collide, Find, AbortDeadlock, RollBack
<1>3. ASSUME NEW h \in Handlers, Disturb(h) \/ \E d \in Deliveries : Receive(h, d)
      PROVE  UNCHANGED <<recorded, applied, answered>>
  BY <1>3 DEF Disturb, Fail, LoseAnswer, ContactGone, Receive, RollBack
<1>4. CASE Around
  BY <1>4 DEF Around, StartCall, EndCall, Toggle, ListNumber
<1>5. CASE UNCHANGED vars
  BY <1>5 DEF vars
<1>6. QED
  BY <1>1, <1>2, <1>3, <1>4, <1>5 DEF Next

\* Whatever handlers overlap, collide, deadlock, die or lose their answers, a
\* delivery is ingested whole or not at all and each of its events once
\* (hubspot-app-intake.ts ingestSubscriptionEvents in one withScope).
THEOREM IntakeImplementsLedger == Spec => ImplementsIntake
<1>1. Init => Ledger!Init
  BY DEF Init, Ledger!Init
<1>2. IInv /\ [Next]_vars => [Ledger!Next]_<<recorded, applied, answered>>
  BY IntakeStep
<1>3. QED
  BY <1>1, <1>2, IInvHolds, PTL DEF Spec, ImplementsIntake, Ledger!Spec

=============================================================================
