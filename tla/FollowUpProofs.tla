--------------------------- MODULE FollowUpProofs ---------------------------
(***************************************************************************)
(* Theorems about FollowUp, and about the decisions of LeadScoring it is   *)
(* built on, for every answer, threshold, window and number of calls.      *)
(***************************************************************************)
EXTENDS FollowUp, FiniteSetTheorems, WellFoundedInduction, TLAPS

-----------------------------------------------------------------------------
(* The score                                                               *)

LEMMA MaxOfTwo ==
    ASSUME NEW a \in Int, NEW b \in Int
    PROVE  Max({a, b}) = IF a >= b THEN a ELSE b
<1> DEFINE m == IF a >= b THEN a ELSE b
<1>1. m \in {a, b} /\ \A y \in {a, b} : m >= y
  OBVIOUS
<1>2. \A x \in {a, b} : (\A y \in {a, b} : x >= y) => x = m
  OBVIOUS
<1> HIDE DEF m
<1>3. Max({a, b}) = m
  BY <1>1, <1>2 DEF Max
<1>4. QED
  BY <1>3 DEF m

LEMMA MinOfTwo ==
    ASSUME NEW a \in Int, NEW b \in Int
    PROVE  Min({a, b}) = IF a <= b THEN a ELSE b
<1> DEFINE m == IF a <= b THEN a ELSE b
<1>1. m \in {a, b} /\ \A y \in {a, b} : m <= y
  OBVIOUS
<1>2. \A x \in {a, b} : (\A y \in {a, b} : x <= y) => x = m
  OBVIOUS
<1> HIDE DEF m
<1>3. Min({a, b}) = m
  BY <1>1, <1>2 DEF Min
<1>4. QED
  BY <1>3 DEF m

LEMMA Clamped ==
    ASSUME NEW n \in Int
    PROVE  /\ Clamp(n) \in -100..100
           /\ n \in -100..100 => Clamp(n) = n
<1>1. Min({100, n}) = IF 100 <= n THEN 100 ELSE n
  BY MinOfTwo
<1>2. Min({100, n}) \in Int
  BY <1>1
<1>3. Max({-100, Min({100, n})}) = IF -100 >= Min({100, n}) THEN -100 ELSE Min({100, n})
  BY <1>2, MaxOfTwo
<1>4. QED
  BY <1>1, <1>3 DEF Clamp

LEMMA SignalsOf ==
    ASSUME NEW r
    PROVE  /\ Points("current_need_confirmed", r) = IF r.interested THEN 25 ELSE 0
           /\ Points("short_timeline", r) = IF r.timeline = "0-3_months" THEN 25 ELSE 0
           /\ Points("long_term_no_plan", r) = 0
           /\ Points("budget_known", r) = IF r.budget THEN 15 ELSE 0
           /\ Points("specific_product", r) = IF r.product THEN 10 ELSE 0
           /\ Points("accepts_human_followup", r) = IF r.followup THEN 15 ELSE 0
<1>1. DOMAIN Rubric = {"current_need_confirmed", "short_timeline", "budget_known",
                       "specific_product", "accepts_human_followup", "long_term_no_plan"}
  BY DEF Rubric
<1>2. /\ Rubric["current_need_confirmed"] = 25 /\ Rubric["short_timeline"] = 25
      /\ Rubric["budget_known"] = 15 /\ Rubric["specific_product"] = 10
      /\ Rubric["accepts_human_followup"] = 15 /\ Rubric["long_term_no_plan"] = 0
  BY DEF Rubric
<1>3. /\ "current_need_confirmed" \in Signals(r) <=> r.interested
      /\ "short_timeline" \in Signals(r) <=> r.timeline = "0-3_months"
      /\ "budget_known" \in Signals(r) <=> r.budget
      /\ "specific_product" \in Signals(r) <=> r.product
      /\ "accepts_human_followup" \in Signals(r) <=> r.followup
  BY <1>1 DEF Signals
<1>4. QED
  BY <1>2, <1>3 DEF Points

\* A rejection is worth -100 points, and a result without the need or without
\* a short timeline at most 65.
LEMMA ScoreOf ==
    ASSUME NEW r \in Result
    PROVE  /\ ScoreResult(r) \in -100..100
           /\ r.dnc => ScoreResult(r) = -100
           /\ ~r.interested \/ r.timeline # "0-3_months" => ScoreResult(r) <= 65
<1>1. CASE r.intent = "not_interested" \/ r.dnc
  BY <1>1, Clamped DEF ScoreResult, ExplicitRejection
<1>2. CASE ~(r.intent = "not_interested" \/ r.dnc) /\ Signals(r) = {}
  BY <1>2, Clamped DEF ScoreResult, VagueCuriosity
<1>3. CASE ~(r.intent = "not_interested" \/ r.dnc) /\ Signals(r) # {}
  <2> DEFINE sum == Points("current_need_confirmed", r) + Points("short_timeline", r)
                    + Points("long_term_no_plan", r) + Points("budget_known", r)
                    + Points("specific_product", r) + Points("accepts_human_followup", r)
  <2>1. sum \in 0..90 /\ (~r.interested \/ r.timeline # "0-3_months" => sum <= 65)
    BY SignalsOf
  <2>2. ScoreResult(r) = Clamp(sum)
    BY <1>3 DEF ScoreResult
  <2> HIDE DEF sum
  <2>3. QED
    BY <1>3, <2>1, <2>2, Clamped
<1>4. QED
  BY <1>1, <1>2, <1>3

-----------------------------------------------------------------------------
(* The decisions                                                           *)

LEMMA Decisions ==
    ASSUME NEW r \in Result
    PROVE  SameDecision(r) <=> ~Contradictory(r)
<1> DEFINE action == DecideRouting(r, ScoreResult(r))
           score  == ScoreResult(r)
<1>1. CASE r.dnc
  BY <1>1 DEF SameDecision, Announced, DecideRouting, Effect, Contradictory
<1>2. CASE ~r.dnc /\ r.intent = "do_not_call"
  <2>1. action = "suppress_permanently" /\ Effect(r) # "suppress"
    BY <1>2 DEF DecideRouting, Effect
  <2>2. QED
    BY <1>2, <2>1 DEF SameDecision, Announced, Contradictory
<1>3. CASE ~r.dnc /\ r.intent # "do_not_call" /\ r.callback # "none"
  <2>1. Effect(r) = "callback"
    BY <1>3 DEF Effect
  <2>2. action = "schedule_callback" <=> ~(r.wrong \/ r.intent \in {"wrong_number", "not_interested", "no_answer", "busy"})
    BY <1>3 DEF DecideRouting
  <2>3. Announced(action) = "callback" <=> action = "schedule_callback"
    BY DEF Announced
  <2>4. QED
    BY <1>3, <2>1, <2>2, <2>3 DEF SameDecision, Contradictory
<1>4. CASE ~r.dnc /\ r.intent # "do_not_call" /\ r.callback = "none"
  <2>1. action # "suppress_permanently" /\ action # "schedule_callback"
    BY <1>4 DEF DecideRouting
  <2>2. Effect(r) = IF action # "retry" THEN "qualified" ELSE "leave"
    BY <1>4 DEF Effect
  <2>3. Announced(action) = IF action # "retry" THEN "qualified" ELSE "leave"
    BY <2>1 DEF Announced
  <2>4. QED
    BY <1>4, <2>2, <2>3 DEF SameDecision, Contradictory
<1>5. QED
  BY <1>1, <1>2, <1>3, <1>4

\* Of all answers the schema admits, the two cascades agree on those that do not
\* contradict themselves and on no others, whatever the campaign's thresholds are
\* (scoring.ts decideRouting, pipeline.ts commitAnalysis).
THEOREM RoutingMatchesEffect == Spec => []DecisionsAgree
<1>1. DecisionsAgree
  BY Decisions DEF DecisionsAgree
<1>2. QED
  BY <1>1, PTL

\* A sure do-not-call is never held, for any thresholds that a rejection's
\* -100 points are further from than the review band.
THEOREM RefusalIsNeverHeld ==
    ASSUME HotThreshold - BoundaryBand > -100, InterestedThreshold - BoundaryBand > -100
    PROVE  Spec => []SureRefusalActsAtOnce
<1>1. ASSUME NEW r \in Result, r.dnc, r.confidence >= 90, r.confidence >= MinConfidence
      PROVE  SuppressedAtOnce(r)
  <2>1. ScoreResult(r) = -100
    BY <1>1, ScoreOf
  <2>2. ~Near(-100, HotThreshold) /\ ~Near(-100, InterestedThreshold)
    BY ThresholdAssumption DEF Near
  <2>3. r.confidence \in Int
    BY DEF Result
  <2>4. Triggers(r, -100) = {}
    <3>1. ~(r.confidence < MinConfidence) /\ ~(r.confidence < 90) /\ EndedConversation(r)
      BY <1>1, <2>3, ThresholdAssumption DEF EndedConversation
    <3>2. \A t \in Triggers(r, -100) :
             \/ t = "low_confidence" /\ r.confidence < MinConfidence
             \/ t = "missing_required_fields" /\ ~EndedConversation(r)
             \/ t = "boundary_band" /\ (Near(-100, HotThreshold) \/ Near(-100, InterestedThreshold))
             \/ t = "dnc_needs_verification" /\ r.confidence < 90
      BY DEF Triggers
    <3>3. QED
      BY <2>2, <3>1, <3>2
  <2>5. -100 < Min({HotThreshold, InterestedThreshold}) - BoundaryBand
    BY MinOfTwo, ThresholdAssumption
  <2>6. Effect(r) = "suppress" /\ DecideRouting(r, -100) = "suppress_permanently"
    BY <1>1 DEF Effect, DecideRouting
  <2>7. QED
    BY <2>1, <2>4, <2>5, <2>6 DEF SuppressedAtOnce, HeldForReview
<1>2. SureRefusalActsAtOnce
  BY <1>1 DEF SureRefusalActsAtOnce
<1>3. QED
  BY <1>2, PTL

\* With the default rubric, a threshold above 65 points sends nobody to sales
\* who did not confirm the need and a short timeline; 75 is the default.
THEOREM HotNeedsNeed ==
    ASSUME HotThreshold > 65
    PROVE  Spec => []HotMeansNeed
<1>1. ASSUME NEW r \in Result, DecideRouting(r, ScoreResult(r)) = "hot_sales_routing"
      PROVE  r.interested /\ r.timeline = "0-3_months"
  <2>1. ScoreResult(r) >= HotThreshold
    BY <1>1 DEF DecideRouting
  <2>2. ScoreResult(r) \in Int /\ HotThreshold \in Int
    BY ScoreOf, ThresholdAssumption
  <2>3. QED
    BY <2>1, <2>2, ScoreOf
<1>2. HotMeansNeed
  BY <1>1 DEF HotMeansNeed
<1>3. QED
  BY <1>2, PTL
-----------------------------------------------------------------------------
(* The inductive invariant                                                 *)

\* An open tick holds a lead that is queued and within its budget.
TickTyped ==
    tick # NoTick =>
        /\ tick \in [stage : {"claimed", "kept"}, started : Instants, kept : SUBSET DOMAIN callbacks]
        /\ tick.started <= now /\ lead.status = "queued" /\ Len(calls) < MaxCalls

\* What a tick has kept is still as it found it, and it has kept every row its
\* call is in time for, unless an operator has touched the row.
KeptRows ==
    tick.stage = "kept" =>
        /\ \A i \in tick.kept : callbacks[i].status \in {"scheduled", "missed"} /\ move.row # i
        /\ \A i \in DOMAIN callbacks :
              callbacks[i].by = "nobody" /\ ~callbacks[i].moved /\ callbacks[i].at <= tick.started => i \in tick.kept

\* A reschedule under way holds an outstanding row.
MoveTyped ==
    move # NoMove =>
        /\ move \in [row : DOMAIN callbacks, at : 1..LatestAsk]
        /\ callbacks[move.row].status = "scheduled"

CallsPast == \A c \in DOMAIN calls : calls[c].started <= now

\* Who closed a row is on the row; one that neither a call nor an operator has
\* touched has seen no call since its time.
Untouched ==
    \A i \in DOMAIN callbacks : callbacks[i].by = "nobody" =>
        callbacks[i].status \in {"scheduled", "missed"} /\ (~callbacks[i].moved => ~CalledSince(i))

FInv == TypeOK /\ TickTyped /\ KeptRows /\ MoveTyped /\ CallsPast /\ Untouched

-----------------------------------------------------------------------------
(* What the actions write                                                  *)

LEMMA Bounds ==
    /\ Horizon \in Nat /\ Grace \in Nat /\ MaxCalls \in Nat \ {0} /\ MaxMoves \in Nat
    /\ Window.day \in Nat \ {0} /\ LatestAsk \in Nat /\ LatestAsk + Window.day < Horizon
    /\ Instants = 0..Horizon /\ Never = Horizon + 1
<1>1. Window.day \in Nat \ {0}
  BY FollowUpAssumption
<1>2. QED
  BY <1>1, FollowUpAssumption DEF LatestAsk, Instants, Never

LEMMA LaterIsInstant == ASSUME NEW t \in Nat PROVE Later(t) \in Instants
BY Bounds DEF Later

LeadFits(x) ==
    /\ x \in [status : LeadStatus, next : Instants \cup {Never}, listed : BOOLEAN]
    /\ x.status = "queued" <=> x.next # Never

LEMMA LeadCloses ==
    ASSUME NEW x, LeadFits(x), NEW s \in LeadStatus \ {"queued"}
    PROVE  /\ LeadFits([x EXCEPT !.status = s, !.next = Never])
           /\ LeadFits([x EXCEPT !.status = s, !.next = Never, !.listed = TRUE])
BY DEF LeadFits

LEMMA LeadQueues ==
    ASSUME NEW x, LeadFits(x), NEW t \in Instants
    PROVE  /\ LeadFits([x EXCEPT !.status = "queued", !.next = t])
           /\ x.status = "queued" => LeadFits([x EXCEPT !.next = t])
<1>1. t # Never /\ "queued" \in LeadStatus
  BY Bounds DEF LeadStatus
<1>2. x.status \in LeadStatus /\ x.listed \in BOOLEAN
  BY DEF LeadFits
<1>3. LeadFits([x EXCEPT !.status = "queued", !.next = t])
  BY <1>1 DEF LeadFits
<1>4. ASSUME x.status = "queued" PROVE LeadFits([x EXCEPT !.next = t])
  BY <1>1, <1>4 DEF LeadFits
<1>5. QED
  BY <1>3, <1>4

\* The states a lead is closed in.
LEMMA Closed ==
    {"suppressed", "closed", "qualified", "failed", "calling", "awaiting_analysis", "pending_review"}
    = LeadStatus \ {"queued"}
BY DEF LeadStatus

LEMMA RetriedFits == ASSUME TypeOK, NEW c \in 1..MaxCalls PROVE LeadFits(Retried(c))
<1>1. LeadFits(lead) /\ Later(now + 1) \in Instants
  <2>1. now + 1 \in Nat
    BY Bounds DEF TypeOK
  <2>2. QED
    BY <2>1, LaterIsInstant DEF TypeOK, LeadFits
<1>2. "closed" \in LeadStatus \ {"queued"}
  BY DEF LeadStatus
<1>3. QED
  BY <1>1, <1>2, LeadCloses, LeadQueues DEF Retried

-----------------------------------------------------------------------------
(* Division, and the smallest of a set                                     *)

LEMMA DivMod ==
    ASSUME NEW a \in Int, NEW b \in Nat \ {0}
    PROVE  /\ a \div b \in Int /\ a % b \in 0..(b - 1)
           /\ a = (a \div b) * b + (a % b)
OBVIOUS

LEMMA SmallMultiple ==
    ASSUME NEW b \in Nat \ {0}, NEW x \in Int, x * b < b, x * b > -b
    PROVE  x = 0
<1>1. CASE x >= 1
  <2>1. x * b >= 1 * b
    BY <1>1
  <2>2. QED
    BY <2>1
<1>2. CASE x <= -1
  <2>1. x * b <= (-1) * b
    BY <1>2
  <2>2. QED
    BY <2>1
<1>3. QED
  BY <1>1, <1>2

LEMMA DivUnique ==
    ASSUME NEW b \in Nat \ {0}, NEW q \in Int, NEW r \in 0..(b - 1)
    PROVE  (q * b + r) \div b = q /\ (q * b + r) % b = r
<1> DEFINE a == q * b + r
<1>1. a \in Int
  OBVIOUS
<1>2. a \div b \in Int /\ a % b \in 0..(b - 1) /\ a = (a \div b) * b + (a % b)
  BY <1>1, DivMod
<1>3. (a \div b - q) * b = r - (a % b)
  BY <1>2
<1>4. a \div b - q = 0
  BY <1>2, <1>3, SmallMultiple
<1>5. QED
  BY <1>2, <1>4

LEMMA DivMonotone ==
    ASSUME NEW b \in Nat \ {0}, NEW a \in Int, NEW c \in Int, a <= c
    PROVE  a \div b <= c \div b
<1>1. /\ a \div b \in Int /\ a % b \in 0..(b - 1) /\ a = (a \div b) * b + (a % b)
      /\ c \div b \in Int /\ c % b \in 0..(b - 1) /\ c = (c \div b) * b + (c % b)
  BY DivMod
<1>2. SUFFICES ASSUME a \div b >= c \div b + 1 PROVE FALSE
  BY <1>1
<1>3. (a \div b - c \div b) * b >= 1 * b
  BY <1>1, <1>2
<1>4. QED
  BY <1>1, <1>3

LEMMA DivOfSums ==
    ASSUME NEW b \in Nat \ {0}, NEW t \in Int, NEW a \in Int, NEW c \in Int, a <= c
    PROVE  (t + a) \div b <= (t + c) \div b
<1>1. t + a \in Int /\ t + c \in Int /\ t + a <= t + c
  OBVIOUS
<1>2. QED
  BY <1>1, DivMonotone

LEMMA DivOfSum ==
    ASSUME NEW b \in Nat \ {0}, NEW a \in Int, NEW k \in Int
    PROVE  (a + k * b) \div b = a \div b + k /\ (a + k * b) % b = a % b
<1> DEFINE q == a \div b
           r == a % b
<1>1. q \in Int /\ r \in 0..(b - 1) /\ a = q * b + r
  BY DivMod
<1> HIDE DEF q, r
<1>2. a + k * b = (q + k) * b + r
  BY <1>1
<1>3. q + k \in Int
  BY <1>1
<1>4. ((q + k) * b + r) \div b = q + k /\ ((q + k) * b + r) % b = r
  BY <1>1, <1>3, DivUnique, Zenon
<1>5. QED
  BY <1>2, <1>4 DEF q, r

\* The smallest of a non-empty set of numbers is one of them.
LEMMA MinIsOne ==
    ASSUME NEW S, S \subseteq Nat, S # {}
    PROVE  Min(S) \in S /\ \A k \in S : Min(S) <= k
<1>1. PICK i \in S : \A j \in S : ~(<<j, i>> \in OpToRel(<, Nat))
  BY NatLessThanWellFounded, WFMin
<1>2. ASSUME NEW j \in S, j < i PROVE FALSE
  <2>1. i \in Nat /\ j \in Nat
    OBVIOUS
  <2>2. <<j, i>> \in OpToRel(<, Nat)
    BY <1>2, <2>1, Zenon DEF OpToRel
  <2>3. QED
    BY <1>1, <2>2
<1>3. \A j \in S : i <= j
  BY <1>2
<1>4. QED
  BY <1>3 DEF Min

-----------------------------------------------------------------------------
(* The next opening                                                        *)

\* The wall clock shows a time twice, or never, when the zone's offset changes.
Repeated(wall, z) == wall - z.before < z.switch /\ wall - z.after >= z.switch
Skipped(wall, z) == wall - z.before >= z.switch /\ wall - z.after < z.switch
\* The clock has reached a time and is set back to before it.
Undone(wall, z) == wall - z.before < z.switch /\ wall - z.after > z.switch

CallingWindows ==
    {w \in [day : Nat \ {0}, start : Int, end : Int, days : SUBSET (0..6),
            zone : [switch : Int, before : Int, after : Int]] :
        0 <= w.start /\ w.start < w.end /\ w.end <= w.day}

\* The clocks are not changed over an opening, nor back over a closing: an
\* opening is shown once every day, a closing that was reached stays reached.
EdgesAreShown(w) ==
    \A d \in Int :
        /\ ~Repeated(d * w.day + w.start, w.zone) /\ ~Skipped(d * w.day + w.start, w.zone)
        /\ ~Undone(d * w.day + w.end, w.zone)

LEMMA Clock ==
    ASSUME NEW z \in [switch : Int, before : Int, after : Int], NEW t \in Int
    PROVE  /\ z.switch \in Int /\ z.before \in Int /\ z.after \in Int
           /\ ZonedTime(t, z) \in Int
           /\ t < z.switch => ZonedTime(t, z) = t + z.before
           /\ t >= z.switch => ZonedTime(t, z) = t + z.after
<1>1. z.switch \in Int /\ z.before \in Int /\ z.after \in Int
  OBVIOUS
<1>2. QED
  BY <1>1 DEF ZonedTime

\* A time that is shown once is found by the two corrections, and the clock
\* keeps to one side of it before and after.
LEMMA WallToUtc ==
    ASSUME NEW z \in [switch : Int, before : Int, after : Int], NEW wall \in Int,
           ~Repeated(wall, z), ~Skipped(wall, z)
    PROVE  /\ ZonedTimeToUtc(wall, z) \in Int
           /\ ZonedTime(ZonedTimeToUtc(wall, z), z) = wall
           /\ \A t \in Int : t <= ZonedTimeToUtc(wall, z) <=> ZonedTime(t, z) <= wall
           /\ \A t \in Int : ZonedTime(t, z) = wall => t = ZonedTimeToUtc(wall, z)
<1> DEFINE first == wall + (wall - ZonedTime(wall, z))
           u == IF wall - z.before < z.switch THEN wall - z.before ELSE wall - z.after
<1>1. z.switch \in Int /\ z.before \in Int /\ z.after \in Int
  BY Clock
<1>2. first = wall - z.before \/ first = wall - z.after
  BY <1>1, Clock
<1>3. first \in Int
  BY <1>1, <1>2
<1>4. \/ u = wall - z.before /\ wall - z.before < z.switch /\ wall - z.after < z.switch
      \/ u = wall - z.after /\ wall - z.before >= z.switch /\ wall - z.after >= z.switch
  BY <1>1 DEF Repeated, Skipped
<1> HIDE DEF first
<1>5. first + (wall - ZonedTime(first, z)) = u
  BY <1>1, <1>2, <1>3, <1>4, Clock
<1>6. ZonedTimeToUtc(wall, z) = u
  BY <1>5 DEF ZonedTimeToUtc, first
<1>7. u \in Int
  BY <1>1
<1>8. ZonedTime(u, z) = wall
  BY <1>1, <1>4, <1>7, Clock
<1> HIDE DEF u
<1>9. ASSUME NEW t \in Int PROVE (t <= u <=> ZonedTime(t, z) <= wall) /\ (ZonedTime(t, z) = wall => t = u)
  BY <1>1, <1>4, <1>7, Clock
<1>10. QED
  BY <1>6, <1>7, <1>8, <1>9

LEMMA WindowTypes ==
    ASSUME NEW w \in CallingWindows
    PROVE  /\ w.day \in Nat \ {0} /\ w.start \in 0..(w.day - 1) /\ w.end \in Int
           /\ w.start < w.end /\ w.end <= w.day
           /\ w.zone \in [switch : Int, before : Int, after : Int]
BY DEF CallingWindows

LEMMA LocalTime ==
    ASSUME NEW w \in CallingWindows, NEW t \in Int
    PROVE  /\ LocalDay(t, w) \in Int /\ LocalHour(t, w) \in 0..(w.day - 1)
           /\ ZonedTime(t, w.zone) \in Int
           /\ ZonedTime(t, w.zone) = LocalDay(t, w) * w.day + LocalHour(t, w)
<1>1. ZonedTime(t, w.zone) \in Int /\ w.day \in Nat \ {0}
  BY WindowTypes, Clock
<1>2. QED
  BY <1>1, DivMod DEF LocalDay, LocalHour

LEMMA LocalTimeIs ==
    ASSUME NEW w \in CallingWindows, NEW t \in Int, NEW d \in Int, NEW h \in 0..(w.day - 1),
           ZonedTime(t, w.zone) = d * w.day + h
    PROVE  LocalDay(t, w) = d /\ LocalHour(t, w) = h
BY WindowTypes, DivUnique DEF LocalDay, LocalHour

Opening(d, w) == ZonedTimeToUtc(d * w.day + w.start, w.zone)

LEMMA OpeningOf ==
    ASSUME NEW w \in CallingWindows, EdgesAreShown(w), NEW d \in Int
    PROVE  /\ Opening(d, w) \in Int
           /\ d * w.day + w.start \in Int
           /\ LocalDay(Opening(d, w), w) = d /\ LocalHour(Opening(d, w), w) = w.start
           /\ \A t \in Int : t <= Opening(d, w) <=> ZonedTime(t, w.zone) <= d * w.day + w.start
           /\ \A t \in Int : ZonedTime(t, w.zone) = d * w.day + w.start => t = Opening(d, w)
<1> DEFINE wall == d * w.day + w.start
<1>1. wall \in Int /\ ~Repeated(wall, w.zone) /\ ~Skipped(wall, w.zone)
  BY WindowTypes DEF EdgesAreShown
<1>2. /\ Opening(d, w) \in Int /\ ZonedTime(Opening(d, w), w.zone) = wall
      /\ \A t \in Int : t <= Opening(d, w) <=> ZonedTime(t, w.zone) <= wall
      /\ \A t \in Int : ZonedTime(t, w.zone) = wall => t = Opening(d, w)
  BY <1>1, WallToUtc, WindowTypes DEF Opening
<1>3. LocalDay(Opening(d, w), w) = d /\ LocalHour(Opening(d, w), w) = w.start
  BY <1>2, LocalTimeIs, WindowTypes
<1>4. QED
  BY <1>1, <1>2, <1>3

\* The probes, a day of the clock apart, miss no day up to the one they reach,
\* unless a short day lies between.
LEMMA ProbedDay ==
    ASSUME NEW w \in CallingWindows, NEW t \in Int, NoShortDay(t, w),
           NEW k \in 0..7, NEW e \in Int,
           LocalDay(t, w) <= e, e <= LocalDay(t + k * w.day, w)
    PROVE  \E j \in 0..k : LocalDay(t + j * w.day, w) = e
<1> DEFINE z == w.zone
           Day(t0, off) == (t0 + off) \div w.day
<1>1. /\ w.day \in Nat \ {0} /\ z \in [switch : Int, before : Int, after : Int]
      /\ z.switch \in Int /\ z.before \in Int /\ z.after \in Int
  BY WindowTypes, Clock
<1>2. \A j \in 0..7 : t + j * w.day \in Int /\ t <= t + j * w.day /\ t + j * w.day <= t + 7 * w.day
  BY <1>1
<1>3. ASSUME NEW off \in Int, NEW j \in Int
      PROVE  (t + j * w.day + off) \div w.day = (t + off) \div w.day + j
  <2> DEFINE a == t + off
  <2>1. a \in Int /\ t + j * w.day + off = a + j * w.day
    BY <1>1
  <2> HIDE DEF a
  <2>2. (a + j * w.day) \div w.day = a \div w.day + j
    BY <1>1, <2>1, DivOfSum
  <2>3. QED
    BY <2>1, <2>2 DEF a
<1>4. ASSUME NEW off \in Int PROVE (t + off) \div w.day \in Int
  <2>1. t + off \in Int
    OBVIOUS
  <2>2. QED
    BY <1>1, <2>1, DivMod
<1> DEFINE LB == (t + z.before) \div w.day
           LA == (t + z.after) \div w.day
<1>5. LB \in Int /\ LA \in Int
  BY <1>1, <1>4
<1>6. ASSUME NEW j \in 0..7
      PROVE  /\ t + j * w.day < z.switch => LocalDay(t + j * w.day, w) = LB + j
             /\ t + j * w.day >= z.switch => LocalDay(t + j * w.day, w) = LA + j
  <2> DEFINE p == t + j * w.day
  <2>1. p \in Int /\ j \in Int
    BY <1>2
  <2>2. /\ p < z.switch => ZonedTime(p, z) = p + z.before
        /\ p >= z.switch => ZonedTime(p, z) = p + z.after
    BY <1>1, <2>1, Clock
  <2>3. (p + z.before) \div w.day = LB + j /\ (p + z.after) \div w.day = LA + j
    BY <1>1, <1>3, <2>1, Zenon
  <2> HIDE DEF p, LA, LB
  <2>4. /\ p < z.switch => LocalDay(p, w) = LB + j
        /\ p >= z.switch => LocalDay(p, w) = LA + j
    BY <2>2, <2>3 DEF LocalDay
  <2>5. QED
    BY <2>4 DEF p
<1>7. /\ t < z.switch => LocalDay(t, w) = LB
      /\ t >= z.switch => LocalDay(t, w) = LA
  BY <1>1, Clock DEF LocalDay
<1> HIDE DEF LB, LA
<1>8. CASE t >= z.switch
  <2>1. \A j \in 0..7 : t + j * w.day >= z.switch
    BY <1>1, <1>2, <1>8
  <2>2. \A j \in 0..7 : LocalDay(t + j * w.day, w) = LA + j
    BY <1>6, <2>1
  <2>3. e - LA \in 0..k /\ e - LA \in 0..7
    BY <1>5, <1>7, <1>8, <2>2
  <2>4. LocalDay(t + (e - LA) * w.day, w) = LA + (e - LA)
    BY <2>2, <2>3, Zenon
  <2>5. QED
    BY <1>5, <2>3, <2>4
<1>9. CASE t < z.switch /\ z.switch > t + 8 * w.day
  <2>1. ASSUME NEW j \in 0..7 PROVE t + j * w.day < z.switch
    BY <1>1, <1>2, <1>9
  <2>2. e - LB \in 0..k /\ e - LB \in 0..7
    BY <1>5, <1>6, <1>7, <1>9, <2>1
  <2>3. LocalDay(t + (e - LB) * w.day, w) = LB + (e - LB)
    BY <1>6, <2>1, <2>2, Zenon
  <2>4. QED
    BY <1>5, <2>2, <2>3
<1>10. CASE t < z.switch /\ z.after <= z.before
  <2>1. LA <= LB
    BY <1>1, <1>10, DivOfSums, Zenon DEF LA, LB
  <2>2. e >= LB
    BY <1>7, <1>10
  <2>3. CASE t + k * w.day < z.switch
    <3>1. e - LB \in 0..k /\ e - LB \in 0..7
      BY <1>5, <1>6, <2>2, <2>3
    <3>2. t + (e - LB) * w.day < z.switch
      <4>1. (e - LB) * w.day <= k * w.day
        BY <1>1, <3>1
      <4>2. QED
        BY <1>1, <1>5, <2>3, <4>1
    <3>3. LocalDay(t + (e - LB) * w.day, w) = LB + (e - LB)
      BY <1>6, <3>1, <3>2, Zenon
    <3>4. QED
      BY <1>5, <3>1, <3>3
  <2>4. CASE t + k * w.day >= z.switch
    <3>1. e - LA \in 0..k /\ e - LB \in 0..k /\ e - LA \in 0..7 /\ e - LB \in 0..7
      BY <1>5, <1>6, <2>1, <2>2, <2>4
    <3>2. CASE t + (e - LB) * w.day < z.switch
      <4>1. LocalDay(t + (e - LB) * w.day, w) = LB + (e - LB)
        BY <1>6, <3>1, <3>2, Zenon
      <4>2. QED
        BY <1>5, <3>1, <4>1
    <3>3. CASE t + (e - LB) * w.day >= z.switch
      <4>1. (e - LB) * w.day <= (e - LA) * w.day
        BY <1>1, <1>5, <2>1
      <4>2. t + (e - LA) * w.day >= z.switch
        BY <1>1, <1>5, <3>3, <4>1
      <4>3. LocalDay(t + (e - LA) * w.day, w) = LA + (e - LA)
        BY <1>6, <3>1, <4>2, Zenon
      <4>4. QED
        BY <1>5, <3>1, <4>3
    <3>4. QED
      BY <1>1, <1>2, <1>5, <3>2, <3>3
  <2>5. QED
    BY <1>1, <1>2, <2>3, <2>4
<1>11. QED
  BY <1>1, <1>8, <1>9, <1>10 DEF NoShortDay

\* A lead that may not be called now becomes due at the first instant of a
\* permitted day's window (isWithinWindow, zonedTimeToUtc).
LEMMA DeferredToOpening ==
    ASSUME NEW w \in CallingWindows, EdgesAreShown(w), NEW t \in Int,
           ~Allowed(t, w), Openings(t, w) # {}
    PROVE  \E k \in Openings(t, w) :
              /\ \A j \in Openings(t, w) : k <= j
              /\ NextOpenAt(t, w) = Opening(LocalDay(t + k * w.day, w), w)
<1> DEFINE k == Min(Openings(t, w))
<1>1. k \in Openings(t, w) /\ \A j \in Openings(t, w) : k <= j
  <2>1. Openings(t, w) \subseteq Nat
    BY DEF Openings
  <2>2. QED
    BY <2>1, MinIsOne
<1>2. NextOpenAt(t, w) = Opening(LocalDay(t + k * w.day, w), w)
  BY DEF NextOpenAt, Opening
<1> HIDE DEF k
<1>3. QED
  BY <1>1, <1>2

LEMMA OpeningsAre ==
    ASSUME NEW w \in CallingWindows, NEW t \in Int, NEW k
    PROVE  k \in Openings(t, w) <=>
              /\ k \in 0..7 /\ LocalDay(t + k * w.day, w) % 7 \in w.days
              /\ Opening(LocalDay(t + k * w.day, w), w) > t
BY DEF Openings, DayAllowed, Opening

LEMMA OpensLater ==
    ASSUME NEW w \in CallingWindows, EdgesAreShown(w), NEW t \in Int,
           NEW k \in Openings(t, w)
    PROVE  LET n == Opening(LocalDay(t + k * w.day, w), w)
           IN  n \in Int /\ n > t /\ Allowed(n, w) /\ LocalDay(n, w) = LocalDay(t + k * w.day, w)
<1> DEFINE d == LocalDay(t + k * w.day, w)
<1>1. k \in 0..7 /\ d % 7 \in w.days /\ Opening(d, w) > t
  BY OpeningsAre
<1>2. t + k * w.day \in Int
  BY <1>1, WindowTypes
<1>3. d \in Int
  BY <1>2, LocalTime
<1> HIDE DEF d
<1>4. Opening(d, w) \in Int /\ LocalDay(Opening(d, w), w) = d /\ LocalHour(Opening(d, w), w) = w.start
  BY <1>3, OpeningOf
<1>5. w.start \in w.start..(w.end - 1)
  BY WindowTypes
<1>6. Allowed(Opening(d, w), w)
  BY <1>1, <1>4, <1>5 DEF Allowed, DayAllowed
<1>7. QED
  BY <1>1, <1>4, <1>6 DEF d

\* What is inside the window lies between its opening and its closing.
LEMMA InsideWindow ==
    ASSUME NEW w \in CallingWindows, NEW m \in Int
    PROVE  Allowed(m, w) <=>
              /\ LocalDay(m, w) % 7 \in w.days
              /\ LocalDay(m, w) * w.day + w.start <= ZonedTime(m, w.zone)
              /\ ZonedTime(m, w.zone) < LocalDay(m, w) * w.day + w.end
<1> DEFINE q == LocalDay(m, w) * w.day
<1>1. /\ LocalHour(m, w) \in Int /\ q \in Int /\ ZonedTime(m, w.zone) = q + LocalHour(m, w)
      /\ w.start \in Int /\ w.end \in Int
  BY LocalTime, WindowTypes
<1> HIDE DEF q
<1>2. LocalHour(m, w) \in w.start..(w.end - 1) <=>
         q + w.start <= ZonedTime(m, w.zone) /\ ZonedTime(m, w.zone) < q + w.end
  BY <1>1
<1>3. QED
  BY <1>2 DEF Allowed, DayAllowed, q

\* The window of a day is not open twice: what the clock has passed is passed.
LEMMA NotReopened ==
    ASSUME NEW w \in CallingWindows, EdgesAreShown(w), NEW t \in Int, NEW m \in Int,
           t < m, Allowed(m, w), Opening(LocalDay(m, w), w) <= t
    PROVE  Allowed(t, w)
<1> DEFINE e == LocalDay(m, w)
           q == e * w.day
           z == w.zone
<1>1. e \in Int /\ ZonedTime(t, z) \in Int /\ ZonedTime(m, z) \in Int
  BY LocalTime
<1>2. w.day \in Nat \ {0} /\ w.start \in 0..(w.day - 1) /\ w.end \in Int /\ w.end <= w.day /\ q \in Int
  BY <1>1, WindowTypes
<1>3. Opening(e, w) \in Int /\ (t <= Opening(e, w) <=> ZonedTime(t, z) <= q + w.start)
      /\ (ZonedTime(t, z) = q + w.start => t = Opening(e, w))
      /\ ZonedTime(Opening(e, w), z) = q + w.start
  <2>1. LocalDay(Opening(e, w), w) = e /\ LocalHour(Opening(e, w), w) = w.start /\ Opening(e, w) \in Int
    BY <1>1, OpeningOf
  <2>2. ZonedTime(Opening(e, w), z) = q + w.start
    BY <2>1, LocalTime
  <2>3. QED
    BY <1>1, <2>1, <2>2, OpeningOf
<1> HIDE DEF q
<1>4. ZonedTime(t, z) >= q + w.start
  BY <1>1, <1>2, <1>3
<1>5. ZonedTime(m, z) < q + w.end /\ e % 7 \in w.days
  BY InsideWindow DEF q
<1>6. ~Undone(q + w.end, z)
  BY <1>1 DEF EdgesAreShown, q
<1>7. z.switch \in Int /\ z.before \in Int /\ z.after \in Int
  BY WindowTypes, Clock
<1>8. /\ t < z.switch => ZonedTime(t, z) = t + z.before
      /\ t >= z.switch => ZonedTime(t, z) = t + z.after
      /\ m < z.switch => ZonedTime(m, z) = m + z.before
      /\ m >= z.switch => ZonedTime(m, z) = m + z.after
  BY WindowTypes, Clock
<1> HIDE DEF z
<1>9. ZonedTime(t, z) < q + w.end
  BY <1>1, <1>2, <1>5, <1>6, <1>7, <1>8 DEF Undone
<1>10. LocalDay(t, w) = e
  <2> DEFINE h == ZonedTime(t, z) - q
  <2>1. h \in 0..(w.day - 1) /\ ZonedTime(t, z) = q + h
    BY <1>1, <1>2, <1>4, <1>9
  <2> HIDE DEF h, e
  <2>2. QED
    BY <1>1, <2>1, LocalTimeIs DEF q, z
<1>11. QED
  BY <1>4, <1>5, <1>9, <1>10, InsideWindow DEF q, z

LEMMA LaterDay ==
    ASSUME NEW w \in CallingWindows, NEW t \in Int, NEW m \in Int,
           ZonedTime(t, w.zone) <= ZonedTime(m, w.zone)
    PROVE  LocalDay(t, w) <= LocalDay(m, w)
BY LocalTime, WindowTypes, DivMonotone DEF LocalDay

\* The next opening is found, and none before it is passed over, whatever the
\* window, the permitted days and the change of the clocks, as long as the
\* clocks are not changed at its edges (windows.ts isWithinWindow).
THEOREM NextOpeningIsFirst ==
    ASSUME NEW w \in CallingWindows, EdgesAreShown(w), NEW t \in Int
    PROVE  OpensAt(t, w)
<1> SUFFICES ASSUME ~Allowed(t, w), Openings(t, w) # {}
             PROVE  LET n == NextOpenAt(t, w)
                    IN  /\ n > t /\ Allowed(n, w)
                        /\ NoShortDay(t, w) => \A m \in (t + 1)..(n - 1) : ~Allowed(m, w)
  BY Zenon DEF OpensAt
<1>1. PICK k \in Openings(t, w) :
         /\ \A j \in Openings(t, w) : k <= j
         /\ NextOpenAt(t, w) = Opening(LocalDay(t + k * w.day, w), w)
  BY DeferredToOpening
<1> DEFINE d == LocalDay(t + k * w.day, w)
           n == Opening(d, w)
<1>2. n \in Int /\ n > t /\ Allowed(n, w) /\ LocalDay(n, w) = d
  BY OpensLater
<1>3. k \in 0..7 /\ t + k * w.day \in Int
  BY OpeningsAre, WindowTypes
<1>4. d \in Int
  BY <1>3, LocalTime
<1>5. ASSUME NoShortDay(t, w), NEW m \in (t + 1)..(n - 1), Allowed(m, w) PROVE FALSE
  <2> DEFINE e == LocalDay(m, w)
  <2>1. m \in Int /\ t < m /\ m < n
    BY <1>2
  <2>2. e \in Int /\ ZonedTime(m, w.zone) \in Int
    BY <2>1, LocalTime
  <2>3. /\ Opening(e, w) \in Int /\ e * w.day + w.start \in Int
        /\ \A t1 \in Int : t1 <= Opening(e, w) <=> ZonedTime(t1, w.zone) <= e * w.day + w.start
        /\ \A t1 \in Int : ZonedTime(t1, w.zone) = e * w.day + w.start => t1 = Opening(e, w)
    BY <2>2, OpeningOf
  <2>4. e * w.day + w.start <= ZonedTime(m, w.zone) /\ e % 7 \in w.days
    BY <1>5, <2>1, InsideWindow
  <2>5. Opening(e, w) <= m
    <3> DEFINE q == e * w.day + w.start
    <3>1. /\ q \in Int /\ q <= ZonedTime(m, w.zone)
          /\ m <= Opening(e, w) <=> ZonedTime(m, w.zone) <= q
          /\ ZonedTime(m, w.zone) = q => m = Opening(e, w)
      BY <2>1, <2>3, <2>4
    <3> HIDE DEF q, e
    <3>2. QED
      BY <2>1, <2>2, <2>3, <3>1
  <2>6. Opening(e, w) > t
    <3>1. SUFFICES ASSUME Opening(e, w) <= t PROVE Allowed(t, w)
      BY <2>3
    <3>2. QED
      BY <1>5, <2>1, <3>1, NotReopened
  <2>7. LocalDay(t, w) <= e
    <3>0. ZonedTime(t, w.zone) \in Int /\ t <= Opening(e, w)
      BY <2>3, <2>6, LocalTime
    <3>1. ZonedTime(t, w.zone) <= e * w.day + w.start
      BY <2>3, <3>0
    <3>2. ZonedTime(t, w.zone) <= ZonedTime(m, w.zone)
      BY <2>2, <2>3, <2>4, <3>0, <3>1
    <3>3. QED
      BY <2>1, <3>2, LaterDay
  <2>8. e <= d
    <3>1. ZonedTime(m, w.zone) <= d * w.day + w.start
      BY <1>2, <1>4, <2>1, OpeningOf
    <3>2. ZonedTime(n, w.zone) = d * w.day + w.start
      BY <1>2, <1>4, OpeningOf, LocalTime
    <3>3. QED
      BY <1>2, <2>1, <3>1, <3>2, LaterDay
  <2> HIDE DEF e, d
  <2>9. PICK j \in 0..k : LocalDay(t + j * w.day, w) = e
    BY <1>3, <1>5, <2>2, <2>7, <2>8, ProbedDay DEF d
  <2>10. j \in Openings(t, w)
    <3>1. j \in 0..7
      BY <1>3
    <3>2. QED
      BY <2>4, <2>6, <2>9, <3>1, OpeningsAre
  <2>11. j = k
    BY <1>1, <1>3, <2>10
  <2>12. e = d
    BY <2>9, <2>11 DEF d
  <2>13. QED
    BY <2>1, <2>3, <2>5, <2>12
<1>6. QED
  BY <1>1, <1>2, <1>5

\* A campaign with a permitted day is never left without an opening while the
\* clocks are not changed: the search of eight days does not throw.
THEOREM OpeningIsFound ==
    ASSUME NEW w \in CallingWindows, EdgesAreShown(w), NEW t \in Int,
           w.days # {}, w.zone.switch \notin t..(t + 8 * w.day)
    PROVE  Openings(t, w) # {}
<1> DEFINE off == IF t < w.zone.switch THEN w.zone.before ELSE w.zone.after
           day0 == LocalDay(t, w)
<1>1. /\ w.day \in Nat \ {0} /\ w.start \in 0..(w.day - 1)
      /\ w.zone.switch \in Int /\ w.zone.before \in Int /\ w.zone.after \in Int
      /\ w.zone \in [switch : Int, before : Int, after : Int]
  BY WindowTypes, Clock
<1>2. off \in Int /\ day0 \in Int
  BY <1>1, LocalTime
<1>3. \A j \in 0..7 : /\ t + j * w.day \in Int
                      /\ t + j * w.day < w.zone.switch <=> t < w.zone.switch
  BY <1>1
<1>4. ASSUME NEW j \in 0..7 PROVE LocalDay(t + j * w.day, w) = day0 + j
  <2> DEFINE p == t + j * w.day
             a == t + off
  <2>1. p \in Int /\ a \in Int /\ j \in Int
    BY <1>2, <1>3
  <2>2. ZonedTime(p, w.zone) = p + off /\ ZonedTime(t, w.zone) = a
    <3>1. p < w.zone.switch <=> t < w.zone.switch
      BY <1>3
    <3>2. ZonedTime(p, w.zone) = p + (IF p < w.zone.switch THEN w.zone.before ELSE w.zone.after)
      BY DEF ZonedTime
    <3>3. ZonedTime(t, w.zone) = a
      BY DEF ZonedTime
    <3> HIDE DEF p
    <3>4. QED
      BY <3>1, <3>2, <3>3
  <2>3. p + off = a + j * w.day
    BY <1>1, <1>2
  <2> HIDE DEF p, a
  <2>4. (a + j * w.day) \div w.day = a \div w.day + j
    BY <1>1, <2>1, DivOfSum
  <2>5. LocalDay(p, w) = LocalDay(t, w) + j
    BY <2>2, <2>3, <2>4 DEF LocalDay
  <2>6. QED
    BY <2>5 DEF p
<1> HIDE DEF day0
<1>5. PICK d \in w.days : d \in 0..6
  BY DEF CallingWindows
<1>6. PICK j \in 1..7 : (day0 + j) % 7 = d
  <2> DEFINE x == d - day0 - 1
  <2>1. x \in Int /\ 7 \in Nat \ {0} /\ d = day0 + x + 1
    BY <1>2, <1>5
  <2> HIDE DEF x
  <2> DEFINE q == x \div 7
  <2>2. q \in Int /\ x % 7 \in 0..6 /\ x = q * 7 + (x % 7)
    BY <2>1, DivMod
  <2> HIDE DEF q
  <2>3. (x % 7) + 1 \in 1..7 /\ day0 + ((x % 7) + 1) = (-q) * 7 + d
    BY <1>2, <1>5, <2>1, <2>2
  <2>4. ((-q) * 7 + d) % 7 = d
    <3>1. d \in 0..(7 - 1) /\ -q \in Int
      BY <1>5, <2>2
    <3>2. QED
      BY <2>1, <3>1, DivUnique, Zenon
  <2> DEFINE i == (x % 7) + 1
  <2>5. i \in 1..7 /\ day0 + i = (-q) * 7 + d
    BY <2>3
  <2> HIDE DEF i
  <2>6. (day0 + i) % 7 = d
    BY <2>4, <2>5
  <2>7. QED
    BY <2>5, <2>6
<1>7. j \in 0..7 /\ day0 + j \in Int
  BY <1>2
<1>8. Opening(day0 + j, w) > t
  <2> DEFINE z == ZonedTime(t, w.zone)
             wall == (day0 + j) * w.day + w.start
  <2>1. z \in Int /\ LocalHour(t, w) \in 0..(w.day - 1) /\ z = day0 * w.day + LocalHour(t, w)
    BY LocalTime DEF day0
  <2>2. j \in Int /\ j >= 1 /\ w.day \in Int /\ w.day >= 1
    BY <1>1
  <2>3. wall \in Int /\ z < wall
    <3>1. j * w.day >= 1 * w.day /\ j * w.day \in Int /\ day0 * w.day \in Int
      BY <1>2, <2>2
    <3>2. (day0 + j) * w.day = day0 * w.day + j * w.day
      BY <1>2, <2>2
    <3>3. QED
      BY <1>1, <1>2, <2>1, <3>1, <3>2
  <2>4. /\ Opening(day0 + j, w) \in Int
        /\ t <= Opening(day0 + j, w) <=> z <= wall
        /\ ZonedTime(Opening(day0 + j, w), w.zone) = wall
    <3>1. /\ Opening(day0 + j, w) \in Int
          /\ LocalDay(Opening(day0 + j, w), w) = day0 + j
          /\ LocalHour(Opening(day0 + j, w), w) = w.start
          /\ t <= Opening(day0 + j, w) <=> z <= wall
      BY <1>7, OpeningOf
    <3>2. QED
      BY <3>1, LocalTime
  <2>5. t # Opening(day0 + j, w)
    BY <2>1, <2>3, <2>4
  <2> HIDE DEF z, wall
  <2>6. QED
    BY <2>1, <2>3, <2>4, <2>5
<1>9. j \in Openings(t, w)
  BY <1>4, <1>5, <1>6, <1>7, <1>8, OpeningsAre
<1>10. QED
  BY <1>9

\* The windows asked about, whose clocks change in the night.
LEMMA SamplesAreWindows == ASSUME NEW w \in SampleWindows PROVE w \in CallingWindows /\ EdgesAreShown(w)
<1>1. PICK s \in {<<9, 18>>, <<3, 5>>, <<0, 1>>}, days \in {0..6, {0, 2, 3}},
           switch \in {25, 26, 49}, z \in {<<0, 1>>, <<1, 0>>, <<5, 6>>, <<-4, -5>>} :
         w = WindowOf(24, s[1], s[2], days, Zone(switch, z[1], z[2]))
  BY DEF SampleWindows
<1>2. /\ s[1] \in Int /\ s[2] \in Int /\ 0 <= s[1] /\ s[1] < s[2] /\ s[2] <= 24
      /\ days \in SUBSET (0..6) /\ switch \in Int /\ z[1] \in Int /\ z[2] \in Int
  OBVIOUS
<1>3. /\ w = [day |-> 24, start |-> s[1], end |-> s[2], days |-> days, zone |-> w.zone]
      /\ w.zone = [switch |-> switch, before |-> z[1], after |-> z[2]]
  BY <1>1 DEF WindowOf, Zone
<1>4. /\ w.day = 24 /\ w.start = s[1] /\ w.end = s[2]
      /\ w.zone.switch = switch /\ w.zone.before = z[1] /\ w.zone.after = z[2]
      /\ w.zone \in [switch : Int, before : Int, after : Int]
  BY <1>2, <1>3
<1>5. w \in CallingWindows
  BY <1>2, <1>3, <1>4 DEF CallingWindows
<1>6. ASSUME NEW d \in Int
      PROVE  /\ ~Repeated(d * 24 + s[1], w.zone) /\ ~Skipped(d * 24 + s[1], w.zone)
             /\ ~Undone(d * 24 + s[2], w.zone)
  <2>1. CASE z = <<0, 1>>
    BY <1>4, <2>1 DEF Repeated, Skipped, Undone
  <2>2. CASE z = <<1, 0>>
    BY <1>4, <2>2 DEF Repeated, Skipped, Undone
  <2>3. CASE z = <<5, 6>>
    BY <1>4, <2>3 DEF Repeated, Skipped, Undone
  <2>4. CASE z = <<-4, -5>>
    BY <1>4, <2>4 DEF Repeated, Skipped, Undone
  <2>5. QED
    BY <2>1, <2>2, <2>3, <2>4
<1>7. QED
  BY <1>4, <1>5, <1>6 DEF EdgesAreShown

\* What the runs check of the sample windows (DeferralOpens, windows.ts
\* isWithinWindow) is an instance of NextOpeningIsFirst.
THEOREM DeferralIsNextOpening == Spec => []DeferralOpens
<1>1. ASSUME NEW w \in SampleWindows, NEW t \in 0..72 PROVE OpensAt(t, w)
  BY SamplesAreWindows, NextOpeningIsFirst
<1>2. DeferralOpens
  BY <1>1 DEF DeferralOpens
<1>3. QED
  BY <1>2, PTL DEF Spec

LEMMA ZonedIsInt ==
    ASSUME NEW t \in Int, NEW z \in [switch : Int, before : Int, after : Int]
    PROVE  ZonedTime(t, z) \in Int /\ ZonedTimeToUtc(t, z) \in Int
<1>1. \A u \in Int : ZonedTime(u, z) \in Int
  BY DEF ZonedTime
<1> DEFINE first == t + (t - ZonedTime(t, z))
<1>2. first \in Int
  BY <1>1
<1> HIDE DEF first
<1>3. first + (t - ZonedTime(first, z)) \in Int
  BY <1>1, <1>2
<1>4. QED
  BY <1>1, <1>3 DEF ZonedTimeToUtc, first

LEMMA NextOpenLies ==
    ASSUME NEW t \in Nat, ~Allowed(t, Window), Openings(t, Window) # {}
    PROVE  NextOpenAt(t, Window) \in Nat /\ NextOpenAt(t, Window) > t
<1> DEFINE k == Min(Openings(t, Window))
           n == ZonedTimeToUtc(LocalDay(t + k * Window.day, Window) * Window.day + Window.start, Window.zone)
<1>1. k \in Openings(t, Window)
  <2>1. Openings(t, Window) \subseteq Nat
    BY DEF Openings
  <2>2. QED
    BY <2>1, MinIsOne
<1>2. k \in 0..7 /\ n > t
  BY <1>1 DEF Openings
<1>3. /\ Window.day \in Nat \ {0} /\ Window.start \in Int
      /\ Window.zone \in [switch : Int, before : Int, after : Int]
  BY FollowUpAssumption
<1>4. t + k * Window.day \in Int
  BY <1>2, <1>3
<1> HIDE DEF k
<1>5. LocalDay(t + k * Window.day, Window) \in Int
  BY <1>3, <1>4, ZonedIsInt DEF LocalDay
<1>6. n \in Int
  BY <1>3, <1>5, ZonedIsInt
<1>7. NextOpenAt(t, Window) = n
  BY DEF NextOpenAt, k
<1> HIDE DEF n
<1>8. QED
  BY <1>2, <1>6, <1>7

-----------------------------------------------------------------------------
(* Sequences                                                               *)

LEMMA Appended ==
    ASSUME NEW T, NEW s \in Seq(T), NEW e \in T
    PROVE  /\ Append(s, e) \in Seq(T) /\ Len(Append(s, e)) = Len(s) + 1 /\ Len(s) \in Nat
           /\ DOMAIN s = 1..Len(s) /\ DOMAIN Append(s, e) = DOMAIN s \cup {Len(s) + 1}
           /\ \A i \in DOMAIN s : Append(s, e)[i] = s[i]
           /\ Append(s, e)[Len(s) + 1] = e /\ Len(s) + 1 \notin DOMAIN s
OBVIOUS

\* The same rows with other values.
LEMMA Rewritten ==
    ASSUME NEW T, NEW s \in Seq(T), NEW u, u = [i \in DOMAIN s |-> u[i]], \A i \in DOMAIN s : u[i] \in T
    PROVE  u \in Seq(T) /\ DOMAIN u = DOMAIN s /\ Len(u) = Len(s)
OBVIOUS

-----------------------------------------------------------------------------
(* Steps that leave calls, callbacks and open transactions alone           *)

LEMMA LeadTyped ==
    ASSUME FInv
    PROVE  LeadFits(lead) /\ now \in Nat /\ now \in Instants
BY Bounds DEF FInv, TypeOK, LeadFits

LEMMA RowsTyped ==
    ASSUME FInv
    PROVE  /\ \A c \in DOMAIN calls : calls[c] \in Call /\ calls[c].started \in Nat
           /\ \A i \in DOMAIN callbacks : callbacks[i] \in Callback /\ callbacks[i].at \in Nat
           /\ Len(calls) \in Nat
<1>1. calls \in Seq(Call) /\ callbacks \in Seq(Callback)
  BY DEF FInv, TypeOK
<1>2. \A x \in Call : x.started \in Nat
  BY Bounds DEF Call
<1>3. \A x \in Callback : x.at \in Nat
  BY Bounds DEF Callback
<1>4. QED
  BY <1>1, <1>2, <1>3

LEMMA QuietKeeps ==
    ASSUME FInv, TypeOK', UNCHANGED <<calls, callbacks, tick, move>>,
           now' \in Nat, now <= now',
           tick # NoTick => lead'.status = "queued"
    PROVE  FInv'
<1>1. now \in Nat /\ \A c \in DOMAIN calls : calls[c].started \in Nat
  BY RowsTyped, LeadTyped
<1>2. TickTyped'
  BY <1>1, Bounds DEF FInv, TickTyped
<1>3. KeptRows' /\ MoveTyped'
  BY DEF FInv, KeptRows, MoveTyped
<1>4. CallsPast'
  BY <1>1 DEF FInv, CallsPast
<1>5. Untouched'
  BY DEF FInv, Untouched, CalledSince
<1>6. QED
  BY <1>2, <1>3, <1>4, <1>5 DEF FInv

LEMMA SuppressKeeps == ASSUME FInv, SuppressAtClaim PROVE FInv'
<1>1. LeadFits(lead')
  <2>1. lead' = [lead EXCEPT !.status = "suppressed", !.next = Never]
    BY DEF SuppressAtClaim
  <2>2. QED
    BY <2>1, Closed, LeadTyped, LeadCloses
<1>2. TypeOK'
  BY <1>1 DEF SuppressAtClaim, FInv, TypeOK, LeadFits
<1>3. tick = NoTick
  BY DEF SuppressAtClaim, LeadFree, FInv, TickTyped
<1>4. QED
  BY <1>2, <1>3, LeadTyped, QuietKeeps DEF SuppressAtClaim

LEMMA DeferKeeps == ASSUME FInv, DeferToWindow PROVE FInv'
<1>1. lead' = [lead EXCEPT !.next = Later(NextOpenAt(now, Window))] /\ lead.status = "queued"
  BY DEF DeferToWindow
<1>2. Later(NextOpenAt(now, Window)) \in Instants
  BY LeadTyped, NextOpenLies, LaterIsInstant DEF DeferToWindow
<1>3. LeadFits(lead')
  BY <1>1, <1>2, LeadTyped, LeadQueues
<1>4. TypeOK'
  BY <1>3 DEF DeferToWindow, FInv, TypeOK, LeadFits
<1>5. tick = NoTick
  BY DEF DeferToWindow, LeadFree, FInv, TickTyped
<1>6. QED
  BY <1>4, <1>5, LeadTyped, QuietKeeps DEF DeferToWindow

LEMMA ChooseKeeps == ASSUME FInv, SweepChooses PROVE FInv'
<1>1. TypeOK'
  BY DEF SweepChooses, Overdue, FInv, TypeOK
<1>2. QED
  BY <1>1, LeadTyped, QuietKeeps DEF SweepChooses, FInv, TickTyped

LEMMA TimeKeeps == ASSUME FInv, TimePasses PROVE FInv'
<1>1. now' = now + 1 /\ now' \in Instants /\ now \in Nat
  BY LeadTyped, Bounds DEF TimePasses
<1>2. TypeOK'
  <2>1. tick = NoTick \/ tick.started \in 0..now'
    BY <1>1, Bounds DEF FInv, TypeOK
  <2>2. QED
    BY <1>1, <2>1 DEF TimePasses, FInv, TypeOK
<1>3. QED
  BY <1>1, <1>2, QuietKeeps DEF TimePasses, FInv, TickTyped

-----------------------------------------------------------------------------
(* Analyses                                                                *)

LEMMA StoredTyped ==
    ASSUME FInv, NEW c \in 1..MaxCalls, NEW q \in Qualifiers,
           NEW v \in {"held", "rejected", "trusted"},
           NEW r, Stored(c, q, v, r)
    PROVE  /\ analysis' \in [1..MaxCalls -> [Qualifiers -> Analysis]]
           /\ \A d \in 1..MaxCalls, p \in Qualifiers :
                 analysis'[d][p] = IF d = c /\ p = q THEN [review |-> v, effect |-> Effect(r)] ELSE analysis[d][p]
<1> DEFINE a == [review |-> v, effect |-> Effect(r)]
<1>1. a \in Analysis
  <2>1. Effect(r) \in {"suppress", "callback", "qualified", "leave"}
    BY DEF Effect
  <2>2. QED
    BY <2>1 DEF Analysis
<1>2. analysis' = [analysis EXCEPT ![c][q] = a]
  BY DEF Stored
<1> HIDE DEF a
<1>3. analysis \in [1..MaxCalls -> [Qualifiers -> Analysis]]
  BY DEF FInv, TypeOK
<1>4. QED
  BY <1>1, <1>2, <1>3 DEF a

\* What commitAnalysis appends for an answer that asks for a callback.
NewRow(c, row) ==
    row \in Callback /\ row.call = c /\ row.by = "nobody" /\ ~row.moved /\ row.status = "scheduled" /\ row.at > now

LEMMA CommitWrites ==
    ASSUME FInv, NEW c \in 1..MaxCalls, NEW r, NEW at, CommitAnalysis(c, r, at),
           Effect(r) = "callback" => at \in Asked(r) /\ now <= LatestAsk
    PROVE  /\ LeadFits(lead')
           /\ Effect(r) # "callback" => callbacks' = callbacks
           /\ Effect(r) = "callback" => \E row : NewRow(c, row) /\ callbacks' = Append(callbacks, row)
<1>1. Usable(r, at) /\ Effect(r) = "callback" => at \in 1..LatestAsk /\ at \in Instants /\ at > now
  BY Bounds DEF Usable, Asked
<1>2. Effect(r) \in {"suppress", "callback", "qualified", "leave"}
  BY DEF Effect
<1>3. {"suppressed", "closed", "qualified"} \subseteq LeadStatus \ {"queued"} /\ 0 \in Instants
  BY Bounds, Closed
<1>4. LeadFits(lead) /\ lead' = Routed(r, at)
  BY LeadTyped DEF CommitAnalysis
<1>5. LeadFits(lead')
  <2>1. CASE Effect(r) = "suppress"
    <3>1. lead' = [lead EXCEPT !.status = "suppressed", !.next = Never, !.listed = TRUE]
      BY <1>4, <2>1 DEF Routed
    <3>2. QED
      BY <1>3, <1>4, <3>1 DEF LeadFits
  <2>2. CASE Effect(r) = "callback"
    <3>1. lead' = IF Usable(r, at) THEN [lead EXCEPT !.status = "queued", !.next = at]
                  ELSE [lead EXCEPT !.status = "closed", !.next = Never]
      BY <1>4, <2>2 DEF Routed
    <3>2. CASE Usable(r, at)
      <4>1. lead' = [lead EXCEPT !.status = "queued", !.next = at]
        BY <3>1, <3>2
      <4>2. at # Never /\ at \in Instants /\ "queued" \in LeadStatus
        BY <1>1, <2>2, <3>2, Bounds DEF LeadStatus
      <4>3. QED
        BY <1>4, <4>1, <4>2 DEF LeadFits
    <3>3. CASE ~Usable(r, at)
      BY <1>3, <1>4, <3>1, <3>3 DEF LeadFits
    <3>4. QED
      BY <3>2, <3>3
  <2>3. CASE Effect(r) = "qualified"
    <3>1. lead' = [lead EXCEPT !.status = "qualified", !.next = Never]
      BY <1>4, <2>3 DEF Routed
    <3>2. QED
      BY <1>3, <1>4, <3>1 DEF LeadFits
  <2>4. CASE Effect(r) = "leave"
    BY <1>4, <2>4 DEF Routed
  <2>5. QED
    BY <1>2, <2>1, <2>2, <2>3, <2>4
<1>6. ASSUME Effect(r) = "callback"
      PROVE  \E row : NewRow(c, row) /\ callbacks' = Append(callbacks, row)
  <2> DEFINE row == [call |-> c, at |-> CallbackTime(r, at), by |-> "nobody", kept_by |-> 0,
                     moved |-> FALSE, status |-> "scheduled"]
  <2>1. CallbackTime(r, at) \in 1..Horizon /\ CallbackTime(r, at) > now
    BY <1>1, <1>6, LeadTyped, Bounds DEF CallbackTime
  <2>2. NewRow(c, row)
    BY <2>1, Bounds DEF NewRow, Callback
  <2>3. callbacks' = Append(callbacks, row)
    BY <1>6 DEF CommitAnalysis
  <2> HIDE DEF row
  <2>4. QED
    BY <2>2, <2>3
<1>7. QED
  BY <1>5, <1>6 DEF CommitAnalysis

\* The step of an analysis or a review, without a tick that holds the lead.
LEMMA AnalysisKeeps ==
    ASSUME FInv, LeadFree, LeadFits(lead'),
           analysis' \in [1..MaxCalls -> [Qualifiers -> Analysis]],
           UNCHANGED <<now, calls, tick, move, moves, sweep>>,
           callbacks' = callbacks \/ \E c, row : NewRow(c, row) /\ callbacks' = Append(callbacks, row)
    PROVE  FInv'
<1>1. tick = NoTick
  BY DEF LeadFree, FInv, TickTyped
<1>2. CASE callbacks' = callbacks
  <2>1. TypeOK'
    BY <1>2 DEF FInv, TypeOK, LeadFits
  <2>2. QED
    BY <1>1, <1>2, <2>1, LeadTyped, QuietKeeps
<1>3. ASSUME NEW c, NEW row, NewRow(c, row), callbacks' = Append(callbacks, row) PROVE FInv'
  <2>1. callbacks \in Seq(Callback) /\ row \in Callback
    BY <1>3 DEF FInv, TypeOK, NewRow
  <2>2. /\ callbacks' \in Seq(Callback) /\ Len(callbacks) + 1 \notin DOMAIN callbacks
        /\ DOMAIN callbacks' = DOMAIN callbacks \cup {Len(callbacks) + 1}
        /\ \A i \in DOMAIN callbacks : callbacks'[i] = callbacks[i]
        /\ callbacks'[Len(callbacks) + 1] = row
    BY <1>3, <2>1, Appended
  <2>3. TypeOK'
    BY <1>1, <2>2 DEF FInv, TypeOK, LeadFits
  <2>4. TickTyped' /\ KeptRows'
    BY <1>1 DEF TickTyped, KeptRows, NoTick
  <2>5. MoveTyped'
    BY <2>2 DEF FInv, MoveTyped
  <2>6. CallsPast'
    BY DEF FInv, CallsPast
  <2>7. Untouched'
    <3>1. ASSUME NEW d \in DOMAIN calls PROVE ~(calls[d].started >= row.at)
      <4>1. calls[d].started <= now /\ row.at > now
        BY <1>3 DEF FInv, CallsPast, NewRow
      <4>2. calls[d].started \in Nat /\ row.at \in Nat /\ now \in Nat
        BY <2>1, RowsTyped, LeadTyped, Bounds DEF Callback
      <4>3. QED
        BY <4>1, <4>2
    <3>2. row.status \in {"scheduled", "missed"}
      BY <1>3 DEF NewRow
    <3>3. QED
      BY <2>2, <3>1, <3>2 DEF FInv, Untouched, CalledSince
  <2>8. QED
    BY <2>3, <2>4, <2>5, <2>6, <2>7 DEF FInv
<1>4. QED
  BY <1>2, <1>3

LEMMA QualifyKeeps ==
    ASSUME FInv, NEW c \in 1..MaxCalls, NEW q \in Qualifiers, NEW r \in Analysed, NEW at \in Asked(r),
           Qualify(c, q, r, at) \/ ConfirmReview(c, q, r, at)
    PROVE  FInv'
<1>1. LeadFree /\ UNCHANGED <<now, calls, tick, move, moves, sweep>> /\ now <= LatestAsk
  BY DEF Qualify, ConfirmReview
<1>2. \E v \in {"held", "rejected", "trusted"} : Stored(c, q, v, r)
  BY DEF Qualify, ConfirmReview
<1>3. analysis' \in [1..MaxCalls -> [Qualifiers -> Analysis]]
  BY <1>2, StoredTyped
<1>4. CASE lead' = [lead EXCEPT !.status = "pending_review", !.next = Never] /\ UNCHANGED callbacks
  <2>1. LeadFits(lead')
    BY <1>4, LeadTyped, LeadCloses, Closed
  <2>2. QED
    BY <1>1, <1>3, <1>4, <2>1, AnalysisKeeps
<1>5. CASE CommitAnalysis(c, r, at)
  <2>1. /\ LeadFits(lead')
        /\ callbacks' = callbacks \/ \E row : NewRow(c, row) /\ callbacks' = Append(callbacks, row)
    BY <1>1, <1>5, CommitWrites
  <2>2. QED
    BY <1>1, <1>3, <2>1, AnalysisKeeps
<1>6. QED
  BY <1>4, <1>5 DEF Qualify, ConfirmReview

LEMMA UnconnectedKeeps ==
    ASSUME FInv, NEW c \in 1..MaxCalls, NEW s \in {"no_answer", "failed"}, QualifyUnconnected(c, s)
    PROVE  FInv'
<1>1. /\ LeadFree /\ UNCHANGED <<now, calls, tick, move, moves, sweep>>
      /\ Stored(c, 1, "trusted", Unconnected(s)) /\ CommitAnalysis(c, Unconnected(s), 0)
  BY DEF QualifyUnconnected
<1>2. 1 \in Qualifiers
  BY DEF Qualifiers
<1>3. analysis' \in [1..MaxCalls -> [Qualifiers -> Analysis]]
  BY <1>1, <1>2, StoredTyped
<1>4. Unconnected(s).callback = "none"
  BY DEF Unconnected, UnknownResult
<1>5. Effect(Unconnected(s)) # "callback"
  BY <1>4 DEF Effect
<1>6. LeadFits(lead') /\ callbacks' = callbacks
  BY <1>1, <1>5, CommitWrites
<1>7. QED
  BY <1>1, <1>3, <1>6, AnalysisKeeps

LEMMA RejectKeeps ==
    ASSUME FInv, NEW c \in 1..MaxCalls, NEW q \in Qualifiers, RejectReview(c, q)
    PROVE  FInv'
<1>1. /\ LeadFree /\ UNCHANGED <<now, calls, callbacks, tick, move, moves, sweep>>
      /\ analysis[c][q].review = "held" /\ lead' = Retried(c)
      /\ analysis' = [analysis EXCEPT ![c][q].review = "rejected"]
  BY DEF RejectReview, Reviewable
<1> DEFINE a == [analysis[c][q] EXCEPT !.review = "rejected"]
<1>2. a \in Analysis
  <2>1. analysis[c][q] \in Analysis /\ analysis[c][q] # NoAnalysis
    BY <1>1 DEF FInv, TypeOK, NoAnalysis
  <2>2. QED
    BY <2>1 DEF Analysis
<1>3. analysis' = [analysis EXCEPT ![c][q] = a]
  BY <1>1
<1> HIDE DEF a
<1>4. analysis' \in [1..MaxCalls -> [Qualifiers -> Analysis]]
  BY <1>2, <1>3 DEF FInv, TypeOK
<1>5. LeadFits(lead')
  BY <1>1, RetriedFits DEF FInv
<1>6. QED
  BY <1>1, <1>4, <1>5, AnalysisKeeps

-----------------------------------------------------------------------------
(* The tick                                                                *)

LEMMA NoTickOpen == ASSUME FInv, LeadFree PROVE tick = NoTick
BY DEF LeadFree, FInv, TickTyped

LEMMA ClaimKeeps == ASSUME FInv, ClaimForCall PROVE FInv'
<1>1. /\ tick' = [stage |-> "claimed", started |-> now, kept |-> {}]
      /\ UNCHANGED <<now, lead, calls, analysis, callbacks, move, moves, sweep>>
      /\ lead.status = "queued" /\ ~(Len(calls) >= MaxCalls)
  BY DEF ClaimForCall, Exhausted
<1>2. tick'.stage = "claimed" /\ tick'.started = now /\ tick'.kept = {}
  BY <1>1
<1>3. TypeOK'
  <2>1. tick'.started \in 0..now'
    BY <1>1, <1>2, LeadTyped
  <2>2. QED
    BY <1>1, <1>2, <2>1 DEF FInv, TypeOK
<1>4. TickTyped'
  BY <1>1, <1>2, LeadTyped, RowsTyped, Bounds DEF TickTyped
<1>5. KeptRows'
  BY <1>2 DEF KeptRows
<1>6. MoveTyped' /\ CallsPast' /\ Untouched'
  BY <1>1 DEF FInv, MoveTyped, CallsPast, Untouched, CalledSince
<1>7. QED
  BY <1>3, <1>4, <1>5, <1>6 DEF FInv

LEMMA KeepKeeps == ASSUME FInv, KeepCallbacks PROVE FInv'
<1>1. /\ tick.stage = "claimed" /\ move.row \notin Due
      /\ tick' = [tick EXCEPT !.stage = "kept", !.kept = Due]
      /\ UNCHANGED <<now, lead, calls, analysis, callbacks, move, moves, sweep>>
  BY DEF KeepCallbacks
<1>2. tick # NoTick
  BY <1>1 DEF NoTick
<1>3. /\ tick \in [stage : {"claimed", "kept"}, started : Instants, kept : SUBSET DOMAIN callbacks]
      /\ tick.started <= now /\ lead.status = "queued" /\ Len(calls) < MaxCalls
  BY <1>2 DEF FInv, TickTyped
<1>4. /\ tick' \in [stage : {"claimed", "kept"}, started : Instants, kept : SUBSET DOMAIN callbacks]
      /\ tick'.stage = "kept" /\ tick'.started = tick.started /\ tick'.kept = Due
  BY <1>1, <1>3 DEF Due
<1>5. TypeOK'
  <2>1. tick'.started \in 0..now'
    BY <1>1, <1>3, <1>4, LeadTyped, Bounds
  <2>2. tick'.kept \subseteq DOMAIN callbacks'
    BY <1>1, <1>4 DEF Due
  <2>3. QED
    BY <1>1, <1>4, <2>1, <2>2 DEF FInv, TypeOK
<1>6. TickTyped'
  BY <1>1, <1>3, <1>4 DEF TickTyped
<1>7. KeptRows'
  <2>1. ASSUME NEW i \in Due PROVE callbacks[i].status \in {"scheduled", "missed"} /\ move.row # i
    BY <1>1, <2>1 DEF Due
  <2>2. ASSUME NEW i \in DOMAIN callbacks, callbacks[i].by = "nobody", callbacks[i].at <= tick.started
        PROVE  i \in Due
    <3>1. callbacks[i].status \in {"scheduled", "missed"}
      BY <2>2 DEF FInv, Untouched
    <3>2. callbacks[i].at <= now
      BY <1>3, <2>2, RowsTyped, LeadTyped, Bounds
    <3>3. QED
      BY <3>1, <3>2 DEF Due
  <2>3. QED
    BY <1>1, <1>4, <2>1, <2>2 DEF KeptRows
<1>8. MoveTyped' /\ CallsPast' /\ Untouched'
  BY <1>1 DEF FInv, MoveTyped, CallsPast, Untouched, CalledSince
<1>9. QED
  BY <1>5, <1>6, <1>7, <1>8 DEF FInv

\* The call's row, and the callbacks it keeps.
LEMMA CommitKeeps ==
    ASSUME FInv, NEW s \in {"live", "refused"}, CommitCall(s), LeadFits(lead'),
           UNCHANGED <<now, analysis, move, moves, sweep>>
    PROVE  FInv'
<1> DEFINE call == [started |-> tick.started, status |-> s]
           n == Len(calls) + 1
<1>1. /\ tick.stage = "kept" /\ calls' = Append(calls, call) /\ tick' = NoTick
      /\ callbacks' = [i \in DOMAIN callbacks |->
                          IF i \in tick.kept
                          THEN [callbacks[i] EXCEPT !.status = "completed", !.by = "platform", !.kept_by = n]
                          ELSE callbacks[i]]
  BY DEF CommitCall, Kept
<1>2. tick # NoTick
  <2>1. tick.stage = "kept"
    BY <1>1
  <2>2. QED
    BY <2>1 DEF NoTick
<1>3. tick.started \in Instants /\ tick.started <= now /\ Len(calls) < MaxCalls
  BY <1>2 DEF FInv, TickTyped
<1>4. calls \in Seq(Call) /\ call \in Call /\ call.started = tick.started
  BY <1>3 DEF FInv, TypeOK, Call
<1>5. n \in 1..MaxCalls /\ n \in 0..MaxCalls
  BY <1>3, RowsTyped, Bounds
<1> HIDE DEF call, n
<1>6. /\ calls' \in Seq(Call) /\ Len(calls') = n /\ DOMAIN calls' = DOMAIN calls \cup {n}
      /\ \A c \in DOMAIN calls : calls'[c] = calls[c]
      /\ calls'[n] = call
  <2>1. calls' = Append(calls, call)
    BY <1>1
  <2>2. QED
    BY <1>4, <2>1, Appended DEF n
<1>7. ASSUME NEW i \in DOMAIN callbacks
      PROVE  /\ i \in tick.kept => /\ callbacks'[i] \in Callback /\ callbacks'[i].by = "platform"
                                   /\ callbacks'[i].status = "completed"
             /\ i \notin tick.kept => callbacks'[i] = callbacks[i]
             /\ callbacks'[i] \in Callback
  <2>1. callbacks[i] \in Callback
    BY RowsTyped
  <2>2. CASE i \in tick.kept
    <3>1. callbacks'[i] = [callbacks[i] EXCEPT !.status = "completed", !.by = "platform", !.kept_by = n]
      BY <1>1, <2>2
    <3>2. n \in 0..MaxCalls
      BY <1>5
    <3>3. QED
      BY <2>1, <2>2, <3>1, <3>2 DEF Callback
  <2>3. CASE i \notin tick.kept
    BY <1>1, <2>1, <2>3
  <2>4. QED
    BY <2>2, <2>3
<1>8. callbacks' \in Seq(Callback) /\ DOMAIN callbacks' = DOMAIN callbacks
  <2>1. callbacks \in Seq(Callback)
    BY DEF FInv, TypeOK
  <2>2. callbacks' = [i \in DOMAIN callbacks |-> callbacks'[i]]
    BY <1>1
  <2>3. QED
    BY <1>7, <2>1, <2>2, Rewritten
<1>9. TypeOK'
  <2>1. Len(calls') <= MaxCalls
    BY <1>5, <1>6
  <2>2. QED
    BY <1>1, <1>6, <1>8, <2>1 DEF FInv, TypeOK, LeadFits
<1>10. TickTyped' /\ KeptRows'
  BY <1>1 DEF TickTyped, KeptRows, NoTick
<1>11. MoveTyped'
  <2>1. move # NoMove => move.row \in DOMAIN callbacks /\ move.row \notin tick.kept
    BY <1>1 DEF FInv, MoveTyped, KeptRows
  <2>2. QED
    BY <1>7, <1>8, <2>1 DEF FInv, MoveTyped
<1>12. CallsPast'
  BY <1>3, <1>4, <1>6 DEF FInv, CallsPast
<1>13. Untouched'
  <2>1. ASSUME NEW i \in DOMAIN callbacks', callbacks'[i].by = "nobody"
        PROVE  /\ callbacks'[i].status \in {"scheduled", "missed"}
               /\ ~callbacks'[i].moved => \A c \in DOMAIN calls' : ~(calls'[c].started >= callbacks'[i].at)
    <3>1. i \in DOMAIN callbacks /\ i \notin tick.kept /\ callbacks'[i] = callbacks[i]
      BY <1>7, <1>8, <2>1
    <3>2. callbacks[i].status \in {"scheduled", "missed"} /\ (~callbacks[i].moved => ~CalledSince(i))
      BY <2>1, <3>1 DEF FInv, Untouched
    <3>3. ~callbacks[i].moved => ~(callbacks[i].at <= tick.started)
      BY <1>1, <2>1, <3>1 DEF FInv, KeptRows
    <3>4. callbacks[i].at \in Nat /\ tick.started \in Nat
      BY <1>3, <3>1, RowsTyped, Bounds
    <3>5. ~callbacks[i].moved => ~(calls'[n].started >= callbacks[i].at)
      BY <1>4, <1>6, <3>3, <3>4
    <3>6. QED
      BY <1>6, <3>1, <3>2, <3>5 DEF CalledSince
  <2>2. QED
    BY <2>1 DEF Untouched, CalledSince
<1>14. QED
  BY <1>9, <1>10, <1>11, <1>12, <1>13 DEF FInv

LEMMA PlaceKeeps == ASSUME FInv, PlaceCall PROVE FInv'
<1>1. CommitCall("live") /\ UNCHANGED <<now, analysis, move, moves, sweep>>
  BY DEF PlaceCall
<1>2. lead' = [lead EXCEPT !.status = "calling", !.next = Never]
  BY DEF PlaceCall
<1>3. LeadFits(lead')
  BY <1>2, LeadTyped, Closed DEF LeadFits
<1>4. QED
  BY <1>1, <1>3, CommitKeeps

LEMMA RefuseKeeps == ASSUME FInv, NEW retryable \in BOOLEAN, RefuseCall(retryable) PROVE FInv'
<1>1. CommitCall("refused") /\ UNCHANGED <<now, analysis, move, moves, sweep>>
  BY DEF RefuseCall
<1>2. lead' = IF retryable THEN [lead EXCEPT !.next = Later(now + 1)]
              ELSE [lead EXCEPT !.status = "failed", !.next = Never]
  BY DEF RefuseCall
<1>3. Later(now + 1) \in Instants /\ Later(now + 1) # Never
  <2>1. now + 1 \in Nat
    BY LeadTyped
  <2>2. QED
    BY <2>1, LaterIsInstant, Bounds
<1>4. lead.status = "queued"
  BY <1>1 DEF CommitCall, FInv, TickTyped, NoTick
<1>5. LeadFits(lead')
  <2>1. CASE retryable
    BY <1>2, <1>3, <1>4, <2>1, LeadTyped DEF LeadFits
  <2>2. CASE ~retryable
    BY <1>2, <2>2, LeadTyped, Closed DEF LeadFits
  <2>3. QED
    BY <2>1, <2>2
<1>6. QED
  BY <1>1, <1>5, CommitKeeps

LEMMA EndKeeps == ASSUME FInv, NEW c \in DOMAIN calls, NEW talked \in BOOLEAN, CallEnds(c, talked) PROVE FInv'
<1> DEFINE s == IF talked THEN "talked" ELSE "silent"
<1>1. /\ calls' = [calls EXCEPT ![c].status = s] /\ tick = NoTick
      /\ UNCHANGED <<now, analysis, callbacks, tick, move, moves, sweep>>
      /\ lead' = IF talked THEN [lead EXCEPT !.status = "awaiting_analysis", !.next = Never] ELSE Retried(c)
  BY NoTickOpen DEF CallEnds
<1>2. s \in {"talked", "silent"}
  OBVIOUS
<1> HIDE DEF s
<1>3. calls \in Seq(Call) /\ Len(calls) <= MaxCalls
  BY DEF FInv, TypeOK
<1>4. [calls[c] EXCEPT !.status = s] \in Call
  BY <1>2, RowsTyped DEF Call
<1>5. calls' \in Seq(Call) /\ Len(calls') = Len(calls) /\ DOMAIN calls' = DOMAIN calls
  BY <1>1, <1>3, <1>4
<1>6. \A d \in DOMAIN calls : calls'[d].started = calls[d].started
  BY <1>1, <1>3, RowsTyped DEF Call
<1>7. LeadFits(lead')
  <2>1. CASE talked
    BY <1>1, <2>1, LeadTyped, Closed DEF LeadFits
  <2>2. CASE ~talked
    <3>1. c \in 1..MaxCalls
      BY <1>3, Bounds
    <3>2. QED
      BY <1>1, <2>2, <3>1, RetriedFits DEF FInv
  <2>3. QED
    BY <2>1, <2>2
<1>8. TypeOK'
  BY <1>1, <1>3, <1>5, <1>7 DEF FInv, TypeOK, LeadFits
<1>9. TickTyped' /\ KeptRows' /\ MoveTyped'
  BY <1>1 DEF FInv, TickTyped, KeptRows, MoveTyped, NoTick
<1>10. CallsPast' /\ Untouched'
  BY <1>1, <1>5, <1>6 DEF FInv, CallsPast, Untouched, CalledSince
<1>11. QED
  BY <1>8, <1>9, <1>10 DEF FInv

-----------------------------------------------------------------------------
(* Operators and the sweep                                                 *)

\* A step that rewrites some rows, none of them of an open transaction, and
\* keeps what an untouched row may say.
LEMMA RowsKeep ==
    ASSUME FInv, NEW R, R \subseteq DOMAIN callbacks,
           callbacks' = [i \in DOMAIN callbacks |-> callbacks'[i]],
           \A i \in DOMAIN callbacks \ R : callbacks'[i] = callbacks[i],
           \A i \in R : /\ callbacks'[i] \in Callback
                        /\ callbacks'[i].at = callbacks[i].at /\ callbacks'[i].moved = callbacks[i].moved
                        /\ \/ callbacks'[i].by # "nobody"
                           \/ callbacks'[i].by = callbacks[i].by /\ callbacks'[i].status = "missed",
           \A i \in R : CallbackFree(i),
           UNCHANGED <<now, lead, calls, analysis, tick, move, moves>>,
           sweep' \subseteq DOMAIN callbacks
    PROVE  FInv'
<1>1. \A i \in DOMAIN callbacks : callbacks'[i] \in Callback
  BY RowsTyped
<1>2. callbacks' \in Seq(Callback) /\ DOMAIN callbacks' = DOMAIN callbacks
  <2>1. callbacks \in Seq(Callback)
    BY DEF FInv, TypeOK
  <2>2. QED
    BY <1>1, <2>1, Rewritten
<1>3. TypeOK'
  BY <1>2 DEF FInv, TypeOK
<1>4. TickTyped'
  BY <1>2 DEF FInv, TickTyped
<1>5. KeptRows'
  <2>1. ASSUME tick.stage = "kept" PROVE \A i \in tick.kept : i \in DOMAIN callbacks /\ callbacks'[i] = callbacks[i]
    <3>1. tick # NoTick
      BY <2>1 DEF NoTick
    <3>2. tick.kept \subseteq DOMAIN callbacks
      BY <3>1 DEF FInv, TickTyped
    <3>3. QED
      BY <2>1, <3>2 DEF CallbackFree
  <2>2. ASSUME tick.stage = "kept", NEW i \in DOMAIN callbacks,
               callbacks'[i].by = "nobody", ~callbacks'[i].moved, callbacks'[i].at <= tick.started
        PROVE  i \in tick.kept
    <3>1. callbacks[i].by = "nobody" /\ ~callbacks[i].moved /\ callbacks[i].at <= tick.started
      BY <2>2
    <3>2. QED
      BY <2>2, <3>1 DEF FInv, KeptRows
  <2>3. QED
    BY <1>2, <2>1, <2>2 DEF FInv, KeptRows
<1>6. MoveTyped'
  <2>1. move # NoMove => move.row \in DOMAIN callbacks \ R
    BY DEF FInv, MoveTyped, CallbackFree
  <2>2. QED
    BY <1>2, <2>1 DEF FInv, MoveTyped
<1>7. CallsPast'
  BY DEF FInv, CallsPast
<1>8. Untouched'
  <2>1. ASSUME NEW i \in DOMAIN callbacks, callbacks'[i].by = "nobody"
        PROVE  /\ callbacks[i].by = "nobody" /\ callbacks'[i].status \in {"scheduled", "missed"}
               /\ callbacks'[i].at = callbacks[i].at /\ callbacks'[i].moved = callbacks[i].moved
    BY <2>1 DEF FInv, Untouched
  <2>2. QED
    BY <1>2, <2>1 DEF FInv, Untouched, CalledSince
<1>9. QED
  BY <1>3, <1>4, <1>5, <1>6, <1>7, <1>8 DEF FInv

LEMMA ResolveKeeps ==
    ASSUME FInv, NEW i \in DOMAIN callbacks, NEW s \in {"completed", "missed", "canceled"}, ResolveCallback(i, s)
    PROVE  FInv'
<1>1. /\ callbacks' = [callbacks EXCEPT ![i] = [callbacks[i] EXCEPT !.status = s, !.by = "operator"]]
      /\ CallbackFree(i) /\ UNCHANGED <<now, lead, calls, analysis, tick, move, moves, sweep>>
  <2>1. callbacks' = [callbacks EXCEPT ![i].status = s, ![i].by = "operator"]
    BY DEF ResolveCallback
  <2>2. callbacks \in Seq(Callback) /\ callbacks[i] \in Callback
    BY RowsTyped DEF FInv, TypeOK
  <2>3. QED
    BY <2>1, <2>2 DEF ResolveCallback, Callback
<1> DEFINE row == [callbacks[i] EXCEPT !.status = s, !.by = "operator"]
<1>2. callbacks \in Seq(Callback) /\ callbacks[i] \in Callback /\ sweep \subseteq DOMAIN callbacks
  BY RowsTyped DEF FInv, TypeOK
<1>3. row \in Callback /\ row.at = callbacks[i].at /\ row.moved = callbacks[i].moved /\ row.by = "operator"
  BY <1>2 DEF Callback
<1>4. callbacks' = [callbacks EXCEPT ![i] = row]
  BY <1>1
<1> HIDE DEF row
<1>5. /\ callbacks' = [j \in DOMAIN callbacks |-> callbacks'[j]]
      /\ \A j \in DOMAIN callbacks \ {i} : callbacks'[j] = callbacks[j]
      /\ callbacks'[i] = row
  BY <1>2, <1>4
<1> DEFINE R == {i}
<1>6. /\ R \subseteq DOMAIN callbacks
      /\ \A j \in DOMAIN callbacks \ R : callbacks'[j] = callbacks[j]
      /\ \A j \in R : /\ callbacks'[j] \in Callback /\ callbacks'[j].at = callbacks[j].at
                      /\ callbacks'[j].moved = callbacks[j].moved
                      /\ \/ callbacks'[j].by # "nobody"
                         \/ callbacks'[j].by = callbacks[j].by /\ callbacks'[j].status = "missed"
      /\ \A j \in R : CallbackFree(j)
  <2>1. CallbackFree(i) /\ row.by # "nobody"
    BY <1>1, <1>3
  <2>2. /\ callbacks'[i] \in Callback /\ callbacks'[i].at = callbacks[i].at
        /\ callbacks'[i].moved = callbacks[i].moved /\ callbacks'[i].by # "nobody"
    BY <1>3, <1>5, <2>1
  <2>3. QED
    BY <1>5, <2>1, <2>2
<1> HIDE DEF R
<1>7. UNCHANGED <<now, lead, calls, analysis, tick, move, moves>> /\ sweep' \subseteq DOMAIN callbacks
  BY <1>1, <1>2
<1>8. callbacks' = [j \in DOMAIN callbacks |-> callbacks'[j]]
  BY <1>5
<1>9. QED
  BY <1>6, <1>7, <1>8, RowsKeep

LEMMA SweepKeeps == ASSUME FInv, SweepWrites PROVE FInv'
<1>1. /\ \A i \in sweep : CallbackFree(i)
      /\ callbacks' = [i \in DOMAIN callbacks |->
                          IF i \in sweep THEN [callbacks[i] EXCEPT !.status = "missed"] ELSE callbacks[i]]
      /\ sweep' = {} /\ UNCHANGED <<now, lead, calls, analysis, tick, move, moves>>
  BY DEF SweepWrites
<1>2. sweep \subseteq DOMAIN callbacks
  BY DEF FInv, TypeOK
<1>3. ASSUME NEW i \in sweep
      PROVE  /\ callbacks'[i] \in Callback /\ callbacks'[i].at = callbacks[i].at
             /\ callbacks'[i].moved = callbacks[i].moved /\ callbacks'[i].by = callbacks[i].by
             /\ callbacks'[i].status = "missed"
  <2>1. callbacks'[i] = [callbacks[i] EXCEPT !.status = "missed"] /\ callbacks[i] \in Callback
    BY <1>1, <1>2, RowsTyped
  <2>2. QED
    BY <2>1 DEF Callback
<1>4. \A i \in DOMAIN callbacks \ sweep : callbacks'[i] = callbacks[i]
  BY <1>1
<1>5. callbacks' = [i \in DOMAIN callbacks |-> callbacks'[i]] /\ sweep' \subseteq DOMAIN callbacks
  BY <1>1
<1>6. QED
  BY <1>1, <1>2, <1>3, <1>4, <1>5, RowsKeep

LEMMA MoveKeeps ==
    ASSUME FInv, NEW i \in DOMAIN callbacks, NEW at \in Instants, MoveCallback(i, at)
    PROVE  FInv'
<1>1. /\ callbacks[i].status = "scheduled" /\ CallbackFree(i) /\ at > now /\ at <= LatestAsk
      /\ move' = [row |-> i, at |-> at] /\ moves < MaxMoves /\ moves' = moves + 1
      /\ UNCHANGED <<now, lead, calls, analysis, callbacks, tick, sweep>>
  BY DEF MoveCallback, Outstanding
<1>2. at \in 1..LatestAsk
  BY <1>1, LeadTyped, Bounds
<1>3. TypeOK'
  <2>1. moves' \in 0..MaxMoves
    BY <1>1, Bounds DEF FInv, TypeOK
  <2>2. QED
    BY <1>1, <2>1 DEF FInv, TypeOK
<1>4. TickTyped' /\ CallsPast' /\ Untouched'
  BY <1>1 DEF FInv, TickTyped, CallsPast, Untouched, CalledSince
<1>5. KeptRows'
  BY <1>1 DEF FInv, KeptRows, CallbackFree
<1>6. MoveTyped'
  BY <1>1, <1>2 DEF MoveTyped
<1>7. QED
  BY <1>3, <1>4, <1>5, <1>6 DEF FInv

\* The reschedule commits, after the tick or over an aborted one.
LEMMA MovedKeeps ==
    ASSUME FInv, Moved, move # NoMove, tick' = NoTick, UNCHANGED <<now, calls, analysis, moves, sweep>>
    PROVE  FInv'
<1> DEFINE i == move.row
           row == [callbacks[i] EXCEPT !.at = move.at, !.moved = TRUE]
<1>1. i \in DOMAIN callbacks /\ move.at \in 1..LatestAsk /\ callbacks[i].status = "scheduled"
  BY DEF FInv, MoveTyped
<1>2. callbacks \in Seq(Callback) /\ callbacks[i] \in Callback
  BY <1>1, RowsTyped DEF FInv, TypeOK
<1>3. move.at \in 1..Horizon /\ move.at \in Instants /\ move.at # Never
  BY <1>1, Bounds
<1>4. row \in Callback /\ row.moved /\ row.status = "scheduled"
  BY <1>1, <1>2, <1>3 DEF Callback
<1>5. callbacks' = [callbacks EXCEPT ![i] = row] /\ move' = NoMove
  BY <1>2 DEF Moved, Callback
<1> HIDE DEF row, i
<1>6. /\ callbacks' \in Seq(Callback) /\ DOMAIN callbacks' = DOMAIN callbacks /\ callbacks'[i] = row
      /\ \A j \in DOMAIN callbacks \ {i} : callbacks'[j] = callbacks[j]
  BY <1>1, <1>2, <1>4, <1>5
<1>7. LeadFits(lead')
  <2>1. CASE lead.status \in Movable
    <3>1. lead' = [lead EXCEPT !.status = "queued", !.next = move.at]
      BY <2>1 DEF Moved
    <3>2. "queued" \in LeadStatus
      BY DEF LeadStatus
    <3>3. QED
      BY <1>3, <3>1, <3>2, LeadTyped DEF LeadFits
  <2>2. CASE lead.status \notin Movable
    BY <2>2, LeadTyped DEF Moved
  <2>3. QED
    BY <2>1, <2>2
<1>8. TypeOK'
  BY <1>5, <1>6, <1>7 DEF FInv, TypeOK, LeadFits, NoMove
<1>9. TickTyped' /\ KeptRows' /\ MoveTyped' /\ CallsPast'
  BY <1>5 DEF FInv, TickTyped, KeptRows, MoveTyped, CallsPast, NoTick
<1>10. Untouched'
  BY <1>4, <1>6 DEF FInv, Untouched, CalledSince
<1>11. QED
  BY <1>8, <1>9, <1>10 DEF FInv

LEMMA MoveLeadKeeps == ASSUME FInv, MoveLead PROVE FInv'
<1>1. tick = NoTick
  BY NoTickOpen DEF MoveLead
<1>2. QED
  BY <1>1, MovedKeeps DEF MoveLead

LEMMA AbortKeeps == ASSUME FInv, AbortOneOfTwo PROVE FInv'
<1>1. tick.stage = "claimed" /\ move.row \in Due /\ UNCHANGED <<now, calls, analysis, moves, sweep>>
  BY DEF AbortOneOfTwo, Deadlocked
<1>2. move # NoMove
  BY <1>1 DEF Due, NoMove, FInv, TypeOK
<1>3. CASE tick' = NoTick /\ Moved
  BY <1>1, <1>2, <1>3, MovedKeeps
<1>4. CASE move' = NoMove /\ UNCHANGED <<lead, callbacks, tick>>
  <2>1. TypeOK'
    BY <1>1, <1>4 DEF FInv, TypeOK, NoMove
  <2>2. TickTyped' /\ KeptRows' /\ MoveTyped' /\ CallsPast' /\ Untouched'
    BY <1>1, <1>4 DEF FInv, TickTyped, KeptRows, MoveTyped, CallsPast, Untouched, CalledSince
  <2>3. QED
    BY <2>1, <2>2 DEF FInv
<1>5. QED
  BY <1>3, <1>4 DEF AbortOneOfTwo

-----------------------------------------------------------------------------

LEMMA FInvInit == ASSUME Init PROVE FInv
<1>1. TypeOK
  <2>1. lead \in [status : LeadStatus, next : Instants \cup {Never}, listed : BOOLEAN] /\ 0 # Never
    BY Bounds DEF Init, LeadStatus
  <2>2. now \in Instants /\ moves \in 0..MaxMoves
    BY Bounds DEF Init
  <2>3. analysis \in [1..MaxCalls -> [Qualifiers -> Analysis]]
    BY DEF Init, Analysis
  <2>4. calls \in Seq(Call) /\ Len(calls) <= MaxCalls /\ callbacks \in Seq(Callback)
    BY Bounds DEF Init
  <2>5. QED
    BY <2>1, <2>2, <2>3, <2>4 DEF Init, TypeOK, NoMove
<1>2. TickTyped /\ KeptRows /\ MoveTyped /\ CallsPast /\ Untouched
  BY DEF Init, TickTyped, KeptRows, MoveTyped, CallsPast, Untouched, NoTick, NoMove
<1>3. QED
  BY <1>1, <1>2 DEF FInv

LEMMA FInvStep == ASSUME FInv, [Next]_vars PROVE FInv'
<1>1. CASE UNCHANGED vars
  BY <1>1 DEF vars, FInv, TypeOK, TickTyped, KeptRows, MoveTyped, CallsPast, Untouched, CalledSince
<1>2. CASE Dialler
  BY <1>2, ClaimKeeps, SuppressKeeps, DeferKeeps, KeepKeeps, PlaceKeeps, RefuseKeeps DEF Dialler
<1>3. CASE Analyses
  BY <1>3, QualifyKeeps, UnconnectedKeeps, RejectKeeps DEF Analyses
<1>4. CASE Operators
  BY <1>4, ResolveKeeps, MoveKeeps, MoveLeadKeeps DEF Operators
<1>5. CASE AbortOneOfTwo
  BY <1>5, AbortKeeps
<1>6. ASSUME NEW c \in DOMAIN calls, NEW talked \in BOOLEAN, CallEnds(c, talked) PROVE FInv'
  BY <1>6, EndKeeps
<1>7. CASE SweepChooses \/ SweepWrites \/ TimePasses
  BY <1>7, ChooseKeeps, SweepKeeps, TimeKeeps
<1>8. QED
  BY <1>1, <1>2, <1>3, <1>4, <1>5, <1>6, <1>7 DEF Next

LEMMA FInvHolds == Spec => []FInv
BY FInvInit, FInvStep, PTL DEF Spec

\* The types of the lead, its calls, analyses and callbacks, and of the open
\* transactions.
THEOREM FollowUpTypes == Spec => []TypeOK
<1>1. FInv => TypeOK
  BY DEF FInv
<1>2. QED
  BY <1>1, FInvHolds, PTL

\* What only the sweep has closed as missed was missed (callbacks.ts
\* markMissedCallbacks), for every number of calls and every interleaving.
THEOREM MissedWasMissed == Spec => []NoFalseMiss
<1>1. FInv => NoFalseMiss
  BY DEF FInv, Untouched, NoFalseMiss
<1>2. QED
  BY <1>1, FInvHolds, PTL

-----------------------------------------------------------------------------
(* Closed callbacks                                                        *)

\* What one step may do to a row that is closed.
StaysClosed(i) ==
    callbacks[i].status # "scheduled" /\ callbacks'[i] # callbacks[i] =>
        \/ callbacks[i].status = "missed" /\ callbacks'[i].by = "platform"
        \/ i \in sweep

LEMMA CallKeepsClosed == ASSUME FInv, NEW s, CommitCall(s), NEW i \in DOMAIN callbacks PROVE StaysClosed(i)
<1>1. /\ tick.stage = "kept"
      /\ callbacks'[i] = IF i \in tick.kept
                         THEN [callbacks[i] EXCEPT !.status = "completed", !.by = "platform", !.kept_by = Len(calls) + 1]
                         ELSE callbacks[i]
  BY DEF CommitCall, Kept
<1>2. CASE i \in tick.kept
  <2>1. callbacks[i].status \in {"scheduled", "missed"}
    BY <1>1, <1>2 DEF FInv, KeptRows
  <2>2. callbacks'[i].by = "platform"
    BY <1>1, <1>2, RowsTyped DEF Callback
  <2>3. QED
    BY <2>1, <2>2 DEF StaysClosed
<1>3. CASE i \notin tick.kept
  BY <1>1, <1>3 DEF StaysClosed
<1>4. QED
  BY <1>2, <1>3

LEMMA ResolveKeepsClosed ==
    ASSUME FInv, NEW j \in DOMAIN callbacks, NEW s, ResolveCallback(j, s), NEW i \in DOMAIN callbacks
    PROVE  StaysClosed(i)
<1>1. callbacks[j].status = "scheduled" /\ callbacks' = [callbacks EXCEPT ![j].status = s, ![j].by = "operator"]
  BY DEF ResolveCallback, Outstanding
<1>2. callbacks \in Seq(Callback)
  BY DEF FInv, TypeOK
<1>3. i # j => callbacks'[i] = callbacks[i]
  BY <1>1, <1>2
<1>4. QED
  BY <1>1, <1>3 DEF StaysClosed

LEMMA MovedKeepsClosed ==
    ASSUME FInv, move # NoMove, Moved, NEW i \in DOMAIN callbacks
    PROVE  StaysClosed(i)
<1>1. callbacks[move.row].status = "scheduled"
  BY DEF FInv, MoveTyped
<1>2. callbacks' = [callbacks EXCEPT ![move.row].at = move.at, ![move.row].moved = TRUE]
  BY DEF Moved
<1>3. callbacks \in Seq(Callback)
  BY DEF FInv, TypeOK
<1>4. i # move.row => callbacks'[i] = callbacks[i]
  BY <1>2, <1>3
<1>5. QED
  BY <1>1, <1>4 DEF StaysClosed

LEMMA AnalysesKeepClosed ==
    ASSUME FInv, Analyses, NEW i \in DOMAIN callbacks
    PROVE  StaysClosed(i)
<1>1. callbacks \in Seq(Callback)
  BY DEF FInv, TypeOK
<1>2. ASSUME NEW c, NEW r, NEW at, CommitAnalysis(c, r, at) PROVE callbacks'[i] = callbacks[i]
  BY <1>1, <1>2 DEF CommitAnalysis
<1>3. ASSUME NEW c, NEW q, NEW r, NEW at, Qualify(c, q, r, at) \/ ConfirmReview(c, q, r, at)
      PROVE  callbacks'[i] = callbacks[i]
  <2>1. callbacks' = callbacks \/ CommitAnalysis(c, r, at)
    BY <1>3 DEF Qualify, ConfirmReview
  <2>2. QED
    BY <1>2, <2>1
<1>4. ASSUME NEW c, NEW q, RejectReview(c, q) PROVE callbacks'[i] = callbacks[i]
  BY <1>4 DEF RejectReview
<1>5. ASSUME NEW c, NEW status, QualifyUnconnected(c, status) PROVE callbacks'[i] = callbacks[i]
  BY <1>2, <1>5 DEF QualifyUnconnected
<1>6. callbacks'[i] = callbacks[i]
  BY <1>3, <1>4, <1>5 DEF Analyses
<1>7. QED
  BY <1>6 DEF StaysClosed

LEMMA StepKeepsClosed ==
    ASSUME FInv, Next, NEW i \in DOMAIN callbacks
    PROVE  StaysClosed(i)
<1>1. CASE Dialler
  <2>1. CASE UNCHANGED callbacks
    BY <2>1 DEF StaysClosed
  <2>2. CASE PlaceCall \/ \E retryable \in BOOLEAN : RefuseCall(retryable)
    BY <2>2, CallKeepsClosed DEF PlaceCall, RefuseCall
  <2>3. QED
    BY <1>1, <2>1, <2>2 DEF Dialler, ClaimForCall, SuppressAtClaim, DeferToWindow, KeepCallbacks
<1>2. CASE Analyses
  BY <1>2, AnalysesKeepClosed
<1>3. CASE Operators
  <2>1. ASSUME NEW j \in DOMAIN callbacks, NEW s, ResolveCallback(j, s) PROVE StaysClosed(i)
    BY <2>1, ResolveKeepsClosed
  <2>2. ASSUME NEW j, NEW at, MoveCallback(j, at) PROVE StaysClosed(i)
    BY <2>2 DEF MoveCallback, StaysClosed
  <2>3. CASE MoveLead
    BY <2>3, MovedKeepsClosed DEF MoveLead
  <2>4. QED
    BY <1>3, <2>1, <2>2, <2>3 DEF Operators
<1>4. CASE AbortOneOfTwo
  <2>1. move # NoMove
    BY <1>4 DEF AbortOneOfTwo, Deadlocked, Due, NoMove, FInv, TypeOK
  <2>2. CASE Moved
    BY <2>1, <2>2, MovedKeepsClosed
  <2>3. CASE UNCHANGED callbacks
    BY <2>3 DEF StaysClosed
  <2>4. QED
    BY <1>4, <2>2, <2>3 DEF AbortOneOfTwo
<1>5. ASSUME NEW c, NEW talked, CallEnds(c, talked) PROVE StaysClosed(i)
  BY <1>5 DEF CallEnds, StaysClosed
<1>6. CASE SweepWrites
  BY <1>6 DEF SweepWrites, StaysClosed
<1>7. CASE SweepChooses \/ TimePasses
  BY <1>7 DEF SweepChooses, TimePasses, StaysClosed
<1>8. QED
  BY <1>1, <1>2, <1>3, <1>4, <1>5, <1>6, <1>7 DEF Next

\* No call, operator, reschedule or aborted transaction rewrites a callback
\* that is closed, except a call that keeps a missed one; a sweep does that had
\* chosen the row before it was closed.
THEOREM ClosedForGood == Spec => ClosedStaysClosed
<1> DEFINE A == \A i \in DOMAIN callbacks :
                    callbacks[i].status # "scheduled" /\ callbacks'[i] # callbacks[i] =>
                        \/ callbacks[i].status = "missed" /\ callbacks'[i].by = "platform"
                        \/ i \in sweep
<1>1. FInv /\ [Next]_vars => [A]_vars
  BY StepKeepsClosed DEF StaysClosed
<1>2. QED
  BY <1>1, FInvHolds, PTL DEF Spec, ClosedStaysClosed

-----------------------------------------------------------------------------
(* Rows and answers                                                        *)

RowsOf(c) == {i \in DOMAIN callbacks : callbacks[i].call = c}

\* The qualifiers of a call whose trusted answer asks for a callback.
Wanting(c) ==
    {q \in Qualifiers : analysis[c][q].review = "trusted" /\ analysis[c][q].effect = "callback"}

LEMMA RowsFinite ==
    ASSUME FInv, NEW c
    PROVE  IsFiniteSet(RowsOf(c)) /\ IsFiniteSet(Wanting(c))
<1>1. IsFiniteSet(DOMAIN callbacks)
  <2>1. DOMAIN callbacks = 1..Len(callbacks) /\ Len(callbacks) \in Nat
    BY DEF FInv, TypeOK
  <2>2. QED
    BY <2>1, FS_Interval
<1>2. IsFiniteSet(Qualifiers)
  <2>1. Qualifiers = {1} \cup {2} /\ IsFiniteSet({1})
    BY FS_Singleton DEF Qualifiers
  <2>2. QED
    BY <2>1, FS_AddElement
<1>3. RowsOf(c) \subseteq DOMAIN callbacks /\ Wanting(c) \subseteq Qualifiers
  BY DEF RowsOf, Wanting
<1>4. QED
  BY <1>1, <1>2, <1>3, FS_Subset

\* Rows keep the call they were promised in.
LEMMA SameRows ==
    ASSUME RowsPerAnswer, UNCHANGED analysis, DOMAIN callbacks' = DOMAIN callbacks,
           \A i \in DOMAIN callbacks : callbacks'[i].call = callbacks[i].call
    PROVE  RowsPerAnswer'
<1>1. ASSUME NEW c \in 1..MaxCalls PROVE RowsOf(c)' = RowsOf(c) /\ Wanting(c)' = Wanting(c)
  BY DEF RowsOf, Wanting
<1>2. QED
  BY <1>1 DEF RowsPerAnswer, RowsOf, Wanting

\* An analysis that is not, or not yet, trusted counts for nothing, before and
\* after the step that writes it.
LEMMA NothingWanted ==
    ASSUME FInv, RowsPerAnswer, UNCHANGED callbacks, NEW c \in 1..MaxCalls, NEW q \in Qualifiers,
           \A d \in 1..MaxCalls, p \in Qualifiers : d # c \/ p # q => analysis'[d][p] = analysis[d][p],
           analysis[c][q].review # "trusted",
           analysis'[c][q].review # "trusted" \/ analysis'[c][q].effect # "callback"
    PROVE  RowsPerAnswer'
<1>1. ASSUME NEW d \in 1..MaxCalls PROVE RowsOf(d)' = RowsOf(d) /\ Wanting(d)' = Wanting(d)
  <2>1. RowsOf(d)' = RowsOf(d)
    BY DEF RowsOf
  <2>2. \A p \in Qualifiers : p \in Wanting(d)' <=> p \in Wanting(d)
    BY DEF Wanting
  <2>3. Wanting(d)' \subseteq Qualifiers /\ Wanting(d) \subseteq Qualifiers
    BY DEF Wanting
  <2>4. QED
    BY <2>1, <2>2, <2>3
<1>2. QED
  BY <1>1 DEF RowsPerAnswer, RowsOf, Wanting

\* A trusted answer that asks for a callback comes with its row.
LEMMA RowForAnswer ==
    ASSUME FInv, RowsPerAnswer, NEW c \in 1..MaxCalls, NEW q \in Qualifiers,
           NEW row, NewRow(c, row), callbacks' = Append(callbacks, row),
           \A d \in 1..MaxCalls, p \in Qualifiers : d # c \/ p # q => analysis'[d][p] = analysis[d][p],
           analysis[c][q].review # "trusted",
           analysis'[c][q].review = "trusted", analysis'[c][q].effect = "callback"
    PROVE  RowsPerAnswer'
<1> DEFINE n == Len(callbacks) + 1
<1>1. callbacks \in Seq(Callback) /\ row \in Callback /\ row.call = c
  BY DEF FInv, TypeOK, NewRow
<1>2. /\ DOMAIN callbacks' = DOMAIN callbacks \cup {n} /\ n \notin DOMAIN callbacks
      /\ \A i \in DOMAIN callbacks : callbacks'[i] = callbacks[i]
      /\ callbacks'[n] = row
  BY <1>1, Appended
<1> HIDE DEF n
<1>3. ASSUME NEW d \in 1..MaxCalls, d # c PROVE RowsOf(d)' = RowsOf(d) /\ Wanting(d)' = Wanting(d)
  <2>1. RowsOf(d)' = RowsOf(d)
    BY <1>1, <1>2, <1>3 DEF RowsOf
  <2>2. Wanting(d)' = Wanting(d)
    BY <1>3 DEF Wanting
  <2>3. QED
    BY <2>1, <2>2
<1>4. RowsOf(c)' = RowsOf(c) \cup {n} /\ n \notin RowsOf(c)
  BY <1>1, <1>2 DEF RowsOf
<1>5. Wanting(c)' = Wanting(c) \cup {q} /\ q \notin Wanting(c)
  <2>1. q \in Wanting(c)' /\ q \notin Wanting(c)
    BY DEF Wanting
  <2>2. \A p \in Qualifiers : p # q => (p \in Wanting(c)' <=> p \in Wanting(c))
    BY DEF Wanting
  <2>3. Wanting(c)' \subseteq Qualifiers /\ Wanting(c) \subseteq Qualifiers
    BY DEF Wanting
  <2>4. QED
    BY <2>1, <2>2, <2>3
<1>6. Cardinality(RowsOf(c)') = Cardinality(Wanting(c)')
  <2>1. Cardinality(RowsOf(c)) = Cardinality(Wanting(c))
    BY DEF RowsPerAnswer, RowsOf, Wanting
  <2>2. /\ Cardinality(RowsOf(c) \cup {n}) = Cardinality(RowsOf(c)) + 1
        /\ Cardinality(Wanting(c) \cup {q}) = Cardinality(Wanting(c)) + 1
    BY <1>4, <1>5, RowsFinite, FS_AddElement
  <2>3. QED
    BY <1>4, <1>5, <2>1, <2>2
<1>7. \A d \in 1..MaxCalls : Cardinality(RowsOf(d)') = Cardinality(Wanting(d)')
  <2>1. \A d \in 1..MaxCalls : Cardinality(RowsOf(d)) = Cardinality(Wanting(d))
    BY DEF RowsPerAnswer, RowsOf, Wanting
  <2>2. QED
    BY <1>3, <1>6, <2>1
<1>8. QED
  BY <1>7 DEF RowsPerAnswer, RowsOf, Wanting

LEMMA AnalysesKeepCount ==
    ASSUME FInv, RowsPerAnswer, NEW c \in 1..MaxCalls, NEW q \in Qualifiers, NEW r \in Analysed, NEW at \in Asked(r),
           Qualify(c, q, r, at) \/ ConfirmReview(c, q, r, at)
    PROVE  RowsPerAnswer'
<1>1. analysis[c][q].review # "trusted" /\ now <= LatestAsk
  <2>1. CASE Qualify(c, q, r, at)
    <3>1. analysis[c][q] = NoAnalysis /\ now <= LatestAsk
      BY <2>1 DEF Qualify, InTurn
    <3>2. QED
      BY <3>1 DEF NoAnalysis
  <2>2. CASE ConfirmReview(c, q, r, at)
    BY <2>2 DEF ConfirmReview, Reviewable
  <2>3. QED
    BY <2>1, <2>2
<1>2. CASE Stored(c, q, "held", r) /\ UNCHANGED callbacks
  <2>1. \A d \in 1..MaxCalls, p \in Qualifiers :
           analysis'[d][p] = IF d = c /\ p = q THEN [review |-> "held", effect |-> Effect(r)] ELSE analysis[d][p]
    BY <1>2, StoredTyped
  <2>2. analysis'[c][q].review = "held"
    BY <2>1
  <2>3. \A d \in 1..MaxCalls, p \in Qualifiers : d # c \/ p # q => analysis'[d][p] = analysis[d][p]
    BY <2>1
  <2>4. QED
    BY <1>1, <1>2, <2>2, <2>3, NothingWanted
<1>3. CASE Stored(c, q, "trusted", r) /\ CommitAnalysis(c, r, at)
  <2>1. \A d \in 1..MaxCalls, p \in Qualifiers :
           analysis'[d][p] = IF d = c /\ p = q THEN [review |-> "trusted", effect |-> Effect(r)] ELSE analysis[d][p]
    BY <1>3, StoredTyped
  <2>2. analysis'[c][q].review = "trusted" /\ analysis'[c][q].effect = Effect(r)
    BY <2>1
  <2>3. \A d \in 1..MaxCalls, p \in Qualifiers : d # c \/ p # q => analysis'[d][p] = analysis[d][p]
    BY <2>1
  <2>4. CASE Effect(r) # "callback"
    <3>1. UNCHANGED callbacks
      BY <1>1, <1>3, <2>4, CommitWrites
    <3>2. QED
      BY <1>1, <2>2, <2>3, <2>4, <3>1, NothingWanted
  <2>5. CASE Effect(r) = "callback"
    <3>1. PICK row : NewRow(c, row) /\ callbacks' = Append(callbacks, row)
      BY <1>1, <1>3, <2>5, CommitWrites
    <3>2. QED
      BY <1>1, <2>2, <2>3, <2>5, <3>1, RowForAnswer
  <2>6. QED
    BY <2>4, <2>5
<1>4. QED
  BY <1>2, <1>3 DEF Qualify, ConfirmReview

LEMMA UnconnectedKeepsCount ==
    ASSUME FInv, RowsPerAnswer, NEW c \in 1..MaxCalls, NEW s \in {"no_answer", "failed"}, QualifyUnconnected(c, s)
    PROVE  RowsPerAnswer'
<1>1. /\ Stored(c, 1, "trusted", Unconnected(s)) /\ CommitAnalysis(c, Unconnected(s), 0)
      /\ analysis[c][1] = NoAnalysis
  BY DEF QualifyUnconnected, InTurn
<1>2. 1 \in Qualifiers
  BY DEF Qualifiers
<1>3. Effect(Unconnected(s)) # "callback"
  <2>1. Unconnected(s).callback = "none"
    BY DEF Unconnected, UnknownResult
  <2>2. QED
    BY <2>1 DEF Effect
<1>4. UNCHANGED callbacks
  BY <1>1, <1>3, CommitWrites
<1>5. \A d \in 1..MaxCalls, p \in Qualifiers :
         analysis'[d][p] = IF d = c /\ p = 1 THEN [review |-> "trusted", effect |-> Effect(Unconnected(s))]
                           ELSE analysis[d][p]
  BY <1>1, <1>2, StoredTyped
<1>6. analysis'[c][1].effect = Effect(Unconnected(s))
  BY <1>2, <1>5
<1>7. \A d \in 1..MaxCalls, p \in Qualifiers : d # c \/ p # 1 => analysis'[d][p] = analysis[d][p]
  BY <1>5
<1>8. analysis[c][1].review # "trusted"
  BY <1>1 DEF NoAnalysis
<1>9. QED
  BY <1>2, <1>3, <1>4, <1>6, <1>7, <1>8, NothingWanted

LEMMA RejectKeepsCount ==
    ASSUME FInv, RowsPerAnswer, NEW c \in 1..MaxCalls, NEW q \in Qualifiers, RejectReview(c, q)
    PROVE  RowsPerAnswer'
<1>1. /\ UNCHANGED callbacks /\ analysis[c][q].review = "held"
      /\ analysis' = [analysis EXCEPT ![c][q].review = "rejected"]
  BY DEF RejectReview, Reviewable
<1> DEFINE a == [analysis[c][q] EXCEPT !.review = "rejected"]
<1>2. a.review = "rejected"
  <2>1. analysis[c][q] \in Analysis /\ analysis[c][q] # NoAnalysis
    BY <1>1 DEF FInv, TypeOK, NoAnalysis
  <2>2. QED
    BY <2>1 DEF Analysis
<1>3. analysis' = [analysis EXCEPT ![c][q] = a]
  BY <1>1
<1> HIDE DEF a
<1>4. analysis \in [1..MaxCalls -> [Qualifiers -> Analysis]]
  BY DEF FInv, TypeOK
<1>5. /\ \A d \in 1..MaxCalls, p \in Qualifiers : d # c \/ p # q => analysis'[d][p] = analysis[d][p]
      /\ analysis'[c][q] = a
  BY <1>3, <1>4
<1>6. QED
  BY <1>1, <1>2, <1>5, NothingWanted

LEMMA StepKeepsCount ==
    ASSUME FInv, RowsPerAnswer, [Next]_vars
    PROVE  RowsPerAnswer'
<1>1. callbacks \in Seq(Callback)
  BY DEF FInv, TypeOK
<1>2. CASE UNCHANGED <<analysis, callbacks>>
  BY <1>2, SameRows
<1>3. ASSUME NEW s, CommitCall(s), UNCHANGED analysis PROVE RowsPerAnswer'
  <2>1. callbacks' = [i \in DOMAIN callbacks |->
                         IF i \in tick.kept
                         THEN [callbacks[i] EXCEPT !.status = "completed", !.by = "platform", !.kept_by = Len(calls) + 1]
                         ELSE callbacks[i]]
    BY <1>3 DEF CommitCall, Kept
  <2>2. QED
    BY <1>3, <2>1, RowsTyped, SameRows DEF Callback
<1>4. ASSUME NEW i \in DOMAIN callbacks, NEW s, ResolveCallback(i, s) PROVE RowsPerAnswer'
  <2>1. callbacks' = [callbacks EXCEPT ![i].status = s, ![i].by = "operator"] /\ UNCHANGED analysis
    BY <1>4 DEF ResolveCallback
  <2>2. QED
    BY <1>1, <2>1, RowsTyped, SameRows DEF Callback
<1>5. ASSUME Moved, UNCHANGED analysis PROVE RowsPerAnswer'
  <2>1. callbacks' = [callbacks EXCEPT ![move.row].at = move.at, ![move.row].moved = TRUE]
    BY <1>5 DEF Moved
  <2>2. QED
    BY <1>1, <1>5, <2>1, RowsTyped, SameRows DEF Callback
<1>6. CASE SweepWrites
  <2>1. /\ UNCHANGED analysis
        /\ callbacks' = [i \in DOMAIN callbacks |->
                            IF i \in sweep THEN [callbacks[i] EXCEPT !.status = "missed"] ELSE callbacks[i]]
    BY <1>6 DEF SweepWrites
  <2>2. QED
    BY <2>1, RowsTyped, SameRows DEF Callback
<1>7. CASE Dialler
  BY <1>2, <1>3, <1>7 DEF Dialler, ClaimForCall, SuppressAtClaim, DeferToWindow, KeepCallbacks, PlaceCall, RefuseCall
<1>8. CASE Operators
  BY <1>2, <1>4, <1>5, <1>8 DEF Operators, MoveCallback, MoveLead
<1>9. CASE Analyses
  <2>1. ASSUME NEW c \in 1..MaxCalls, NEW q \in Qualifiers, NEW r \in Analysed, NEW at \in Asked(r),
               Qualify(c, q, r, at) \/ ConfirmReview(c, q, r, at)
        PROVE  RowsPerAnswer'
    BY <2>1, AnalysesKeepCount
  <2>2. QED
    BY <1>9, <2>1, UnconnectedKeepsCount, RejectKeepsCount DEF Analyses
<1>10. QED
  BY <1>2, <1>5, <1>6, <1>7, <1>8, <1>9
     DEF Next, AbortOneOfTwo, CallEnds, SweepChooses, TimePasses, vars

\* One callback row for every trusted answer that asks for one, whatever two
\* qualifications of a call and their reviews do to each other
\* (pipeline.ts qualifyCall, resolve.ts resolveReview).
THEOREM OneRowPerAnswer == Spec => []RowsPerAnswer
<1>1. Init => RowsPerAnswer
  <2>1. ASSUME Init, NEW c \in 1..MaxCalls PROVE RowsOf(c) = {} /\ Wanting(c) = {}
    BY <2>1 DEF Init, RowsOf, Wanting, NoAnalysis
  <2>2. QED
    BY <2>1 DEF RowsPerAnswer, RowsOf, Wanting
<1>2. FInv /\ RowsPerAnswer /\ [Next]_vars => RowsPerAnswer'
  BY StepKeepsCount
<1>3. QED
  BY <1>1, <1>2, FInvHolds, PTL DEF Spec

-----------------------------------------------------------------------------
(* What the sweep looks at                                                 *)

\* Whoever closes a row leaves a mark on it that an open row does not have.
OpenRows == \A i \in DOMAIN callbacks : callbacks[i].status = "scheduled" => callbacks[i].by = "nobody"

LEMMA OpenAppended ==
    ASSUME FInv, OpenRows, NEW c, NEW row, NewRow(c, row), callbacks' = Append(callbacks, row)
    PROVE  OpenRows'
<1>1. callbacks \in Seq(Callback) /\ row \in Callback /\ row.by = "nobody"
  BY DEF FInv, TypeOK, NewRow
<1>2. /\ DOMAIN callbacks' = DOMAIN callbacks \cup {Len(callbacks) + 1}
      /\ \A i \in DOMAIN callbacks : callbacks'[i] = callbacks[i]
      /\ callbacks'[Len(callbacks) + 1] = row
  BY <1>1, Appended
<1>3. QED
  BY <1>1, <1>2 DEF OpenRows

LEMMA AnalysesKeepOpen ==
    ASSUME FInv, OpenRows, Analyses
    PROVE  OpenRows'
<1>1. CASE UNCHANGED callbacks
  BY <1>1 DEF OpenRows
<1>2. ASSUME NEW c \in 1..MaxCalls, NEW r, NEW at, CommitAnalysis(c, r, at),
             Effect(r) = "callback" => at \in Asked(r) /\ now <= LatestAsk
      PROVE  OpenRows'
  BY <1>1, <1>2, CommitWrites, OpenAppended
<1>3. ASSUME NEW c \in 1..MaxCalls, NEW q, NEW r, NEW at \in Asked(r),
             Qualify(c, q, r, at) \/ ConfirmReview(c, q, r, at)
      PROVE  OpenRows'
  <2>1. now <= LatestAsk /\ (callbacks' = callbacks \/ CommitAnalysis(c, r, at))
    BY <1>3 DEF Qualify, ConfirmReview
  <2>2. QED
    BY <1>1, <1>2, <2>1
<1>4. ASSUME NEW c, NEW q, RejectReview(c, q) PROVE OpenRows'
  BY <1>1, <1>4 DEF RejectReview
<1>5. ASSUME NEW c \in 1..MaxCalls, NEW s, QualifyUnconnected(c, s) PROVE OpenRows'
  <2>1. Unconnected(s).callback = "none" /\ CommitAnalysis(c, Unconnected(s), 0)
    BY <1>5 DEF Unconnected, UnknownResult, QualifyUnconnected
  <2>2. Effect(Unconnected(s)) # "callback"
    BY <2>1 DEF Effect
  <2>3. QED
    BY <1>2, <2>1, <2>2
<1>6. QED
  BY <1>3, <1>4, <1>5 DEF Analyses

LEMMA StepKeepsOpen ==
    ASSUME FInv, OpenRows, [Next]_vars
    PROVE  OpenRows'
<1>1. callbacks \in Seq(Callback)
  BY DEF FInv, TypeOK
<1>2. CASE UNCHANGED callbacks
  BY <1>2 DEF OpenRows
<1>3. ASSUME NEW s, CommitCall(s) PROVE OpenRows'
  <2>1. callbacks' = [i \in DOMAIN callbacks |->
                         IF i \in tick.kept
                         THEN [callbacks[i] EXCEPT !.status = "completed", !.by = "platform", !.kept_by = Len(calls) + 1]
                         ELSE callbacks[i]]
    BY <1>3 DEF CommitCall, Kept
  <2>2. QED
    BY <2>1, RowsTyped DEF Callback, OpenRows
<1>4. ASSUME NEW i \in DOMAIN callbacks, NEW s \in {"completed", "missed", "canceled"}, ResolveCallback(i, s)
      PROVE  OpenRows'
  <2>1. callbacks' = [callbacks EXCEPT ![i].status = s, ![i].by = "operator"]
    BY <1>4 DEF ResolveCallback
  <2>2. QED
    BY <1>1, <2>1, RowsTyped DEF Callback, OpenRows
<1>5. ASSUME Moved PROVE OpenRows'
  <2>1. callbacks' = [callbacks EXCEPT ![move.row].at = move.at, ![move.row].moved = TRUE]
    BY <1>5 DEF Moved
  <2>2. QED
    BY <1>1, <2>1, RowsTyped DEF Callback, OpenRows
<1>6. CASE SweepWrites
  <2>1. callbacks' = [i \in DOMAIN callbacks |->
                         IF i \in sweep THEN [callbacks[i] EXCEPT !.status = "missed"] ELSE callbacks[i]]
    BY <1>6 DEF SweepWrites
  <2>2. QED
    BY <2>1, RowsTyped DEF Callback, OpenRows
<1>7. CASE Dialler
  BY <1>2, <1>3, <1>7 DEF Dialler, ClaimForCall, SuppressAtClaim, DeferToWindow, KeepCallbacks, PlaceCall, RefuseCall
<1>8. CASE Operators
  BY <1>2, <1>4, <1>5, <1>8 DEF Operators, MoveCallback, MoveLead
<1>9. QED
  BY <1>2, <1>5, <1>6, <1>7, <1>8, AnalysesKeepOpen
     DEF Next, AbortOneOfTwo, CallEnds, SweepChooses, TimePasses, vars

\* The part of CallbacksClose that needs no fairness: a row that is still to be
\* kept, and on which no reschedule was overtaken, has seen no call since its time,
\* so that the sweep (callbacks.ts markMissedCallbacks) finds it once it is late.
THEOREM OnlyOvertakenIsPassedOver ==
    Spec => [](\A i \in DOMAIN callbacks : callbacks[i].status = "scheduled" /\ CalledSince(i) => Overtaken(i))
<1>1. Init => OpenRows
  BY DEF Init, OpenRows
<1>2. FInv /\ OpenRows /\ [Next]_vars => OpenRows'
  BY StepKeepsOpen
<1>3. FInv /\ OpenRows =>
          \A i \in DOMAIN callbacks : callbacks[i].status = "scheduled" /\ CalledSince(i) => Overtaken(i)
  BY DEF FInv, Untouched, OpenRows, Overtaken
<1>4. QED
  BY <1>1, <1>2, <1>3, FInvHolds, PTL DEF Spec

=============================================================================
