-------------------------- MODULE ConversationProofs --------------------------
(***************************************************************************)
(* The conversation under a changing configuration, for every number of    *)
(* calls, versions and questions: the versions a call can meet lie between *)
(* the one it recorded and the present one, and all of these are saved.    *)
(***************************************************************************)
EXTENDS Conversation, SequenceTheorems, TLAPS

CallRow == [phase : {"none", "claimed", "opened", "ready", "live", "over", "reported"},
            row : {"none", "open", "kept", "gone"},
            version : {0} \cup Versions, opening : {0} \cup Versions, script : {0} \cup Versions,
            asks : 0..MaxQuestions, own : BOOLEAN, turn : 0..MaxQuestions,
            request : {"none", "silent", "heard"}, transcript : Seq(Line),
            status : {"none"} \cup Terminal,
            outcome : {"none", "connected", "retry", "stop", "suppressed"}, analysed : Nat]

Campaign == [version : Versions, script : BOOLEAN, questions : 0..MaxQuestions,
             destination : BOOLEAN, active : BOOLEAN]

Types ==
    /\ campaign \in Campaign
    /\ saved \in [Versions -> {Unsaved} \cup 0..MaxQuestions]
    /\ starting \in BOOLEAN /\ agent \in {"twilio", "sarvam"}
    /\ call \in [Calls -> CallRow]

\* Every version but the first was saved with its questions, and with the
\* first no campaign starts: it has no destination.
VersionsSaved ==
    /\ \A v \in 2..campaign.version : saved[v] \in 0..MaxQuestions
    /\ campaign.version >= 2 => saved[campaign.version] = campaign.questions
    /\ campaign.version = 1 => ~campaign.destination /\ ~campaign.active /\ ~starting

\* The lines a call that recorded version v may have.
GoodLine(v) ==
    {line \in Line : /\ 2 <= v /\ v <= line.version /\ line.version <= campaign.version
                     /\ line.who = "agent" => line.turn < saved[line.version]}

NoLead == {line \in Line : line.who # "lead"}

\* A call that was completed and is not to be read.
Unread(r) == r.status = "completed" /\ r.outcome \notin {"connected", "suppressed"}

CallGood(r) ==
    /\ r.phase # "none" => 2 <= r.version /\ r.version <= campaign.version
    /\ r.opening # 0 => r.version <= r.opening /\ r.opening <= campaign.version
    /\ r.script # 0 => r.version <= r.script /\ r.script <= campaign.version /\ r.asks = saved[r.script]
    /\ r.phase \in {"ready", "live", "over", "reported"} => r.script # 0
    /\ r.phase = "none" => r.opening = 0 /\ r.script = 0
    /\ r.row # "none" => r.phase \in {"live", "over", "reported"}
    /\ r.transcript \in Seq(GoodLine(r.version))
    /\ r.turn > 0 => Len(r.transcript) > 0
    /\ r.analysed <= Len(r.transcript)
    /\ r.status # "none" => r.phase = "reported"
    /\ r.outcome = "connected" => r.status = "completed"
    /\ Unread(r) => /\ r.request # "none" => r.turn = 0
                    /\ r.transcript \in Seq(NoLead)

CInv == Types /\ VersionsSaved /\ \A k \in Calls : CallGood(call[k])

LEMMA VersionsAreNumbers == {0} \cup Versions \subseteq Nat /\ \A v \in Versions : v \in Nat /\ 1 <= v
BY ConversationAssumption DEF Versions

LEMMA RowVersions ==
    ASSUME NEW r \in CallRow
    PROVE  r.script \in Nat /\ r.version \in Nat /\ r.opening \in Nat
<1>1. {r.script, r.version, r.opening} \subseteq {0} \cup Versions
  BY DEF CallRow
<1>2. QED
  BY <1>1, VersionsAreNumbers

LEMMA CInvImplies == CInv => EveryQuestionIsReadable /\ AnswersAreRead
<1> SUFFICES ASSUME CInv PROVE EveryQuestionIsReadable /\ AnswersAreRead
  OBVIOUS
<1>1. AnswersAreRead
  <2> SUFFICES ASSUME NEW k \in Calls, Answered(k), call[k].status # "none"
               PROVE  /\ call[k].status = "completed" => call[k].outcome \in {"connected", "suppressed"}
                      /\ call[k].outcome = "connected" => call[k].status = "completed"
    BY DEF AnswersAreRead
  <2>1. PICK i \in DOMAIN call[k].transcript : call[k].transcript[i].who = "lead"
    BY DEF Answered
  <2>2. CallGood(call[k])
    BY DEF CInv
  <2>3. ~Unread(call[k])
    <3> SUFFICES ASSUME Unread(call[k]) PROVE FALSE
      OBVIOUS
    <3>1. call[k].transcript \in Seq(NoLead)
      BY <2>2 DEF CallGood
    <3>2. call[k].transcript[i] \in NoLead
      BY <2>1, <3>1, ElementOfSeq
    <3>3. QED
      BY <2>1, <3>2 DEF NoLead
  <2>4. QED
    BY <2>2, <2>3 DEF CallGood, Unread
<1>2. EveryQuestionIsReadable
  <2> SUFFICES ASSUME NEW k \in Calls, call[k].phase # "none"
               PROVE  /\ saved[call[k].version] # Unsaved
                      /\ \A v \in SpokenUnder(k) : saved[v] # Unsaved /\ v >= call[k].version
                      /\ \A i \in DOMAIN call[k].transcript :
                            call[k].transcript[i].who = "agent" =>
                               call[k].transcript[i].turn < saved[call[k].transcript[i].version]
    BY DEF EveryQuestionIsReadable
  <2>0. CallGood(call[k]) /\ call[k] \in CallRow /\ campaign.version \in Versions
    BY DEF CInv, Types, Campaign
  <2>1. /\ CallGood(call[k]) /\ call[k] \in CallRow /\ campaign.version \in Nat
        /\ call[k].version \in Nat /\ call[k].opening \in Nat /\ call[k].script \in Nat
    BY <2>0, VersionsAreNumbers, RowVersions
  <2>2. \A v \in Nat : call[k].version <= v /\ v <= campaign.version => saved[v] # Unsaved
    BY <2>1 DEF CInv, VersionsSaved, CallGood, Unsaved
  <2>3. ASSUME NEW i \in DOMAIN call[k].transcript
        PROVE  call[k].transcript[i] \in GoodLine(call[k].version)
    BY <2>1, ElementOfSeq DEF CallGood
  <2>4. ASSUME NEW v \in SpokenUnder(k)
        PROVE  saved[v] # Unsaved /\ v >= call[k].version
    <3>1. CASE \E i \in DOMAIN call[k].transcript : v = call[k].transcript[i].version
      BY <2>1, <2>2, <2>3, <3>1, VersionsAreNumbers DEF GoodLine, Line
    <3>2. CASE v \in {call[k].opening, call[k].script} \ {0}
      BY <2>1, <2>2, <3>2 DEF CallGood
    <3>3. QED
      BY <2>4, <3>1, <3>2 DEF SpokenUnder
  <2>5. QED
    BY <2>1, <2>2, <2>3, <2>4 DEF CallGood, GoodLine
<1>3. QED
  BY <1>1, <1>2

LEMMA CInvImpliesTypeOK == CInv => TypeOK
<1> SUFFICES ASSUME CInv PROVE TypeOK
  OBVIOUS
<1>1. ASSUME NEW k \in Calls
      PROVE  call[k].analysed \in 0..Len(call[k].transcript)
  <2>1. call[k].transcript \in Seq(Line) /\ call[k].analysed \in Nat /\ CallGood(call[k])
    BY DEF CInv, Types, CallRow
  <2>2. Len(call[k].transcript) \in Nat
    BY <2>1, LenProperties
  <2>3. QED
    BY <2>1, <2>2 DEF CallGood
<1>2. \A k \in Calls : call[k] \in CallRow
  BY DEF CInv, Types
<1>3. QED
  BY <1>1, <1>2 DEF CInv, Types, Campaign, CallRow, TypeOK

LEMMA CInvInit == Init => CInv
<1> SUFFICES ASSUME Init PROVE CInv
  OBVIOUS
<1>1. /\ campaign \in Campaign /\ campaign.version = 1 /\ campaign.destination = FALSE
      /\ campaign.active = FALSE
  BY ConversationAssumption DEF Init, Campaign, Versions
<1>2. NoCall \in CallRow /\ CallGood(NoCall)
  <2>1. <<>> \in Seq(Line) /\ <<>> \in Seq(GoodLine(0)) /\ Len(<<>>) = 0
    BY EmptySeq
  <2>2. QED
    BY <2>1, ConversationAssumption DEF NoCall, CallRow, CallGood
<1>3. call = [k \in Calls |-> NoCall] /\ saved = [v \in Versions |-> Unsaved]
  BY DEF Init
<1>4. Types
  BY <1>1, <1>2, <1>3 DEF Init, Types
<1>5. VersionsSaved
  BY <1>1 DEF Init, VersionsSaved
<1>6. QED
  BY <1>2, <1>3, <1>4, <1>5 DEF CInv

-----------------------------------------------------------------------------
(* Configuration                                                           *)

\* Saving and starting leave what calls have recorded as it was.
LEMMA ConfigureStep ==
    ASSUME CInv, Configure
    PROVE  CInv'
<1>1. /\ campaign \in Campaign /\ campaign.version \in Nat /\ campaign.version \in Versions
      /\ saved \in [Versions -> {Unsaved} \cup 0..MaxQuestions] /\ call \in [Calls -> CallRow]
      /\ starting \in BOOLEAN /\ 1 <= campaign.version
  BY VersionsAreNumbers DEF CInv, Types, Campaign
<1>2. ASSUME NEW script \in BOOLEAN, NEW destination \in BOOLEAN, NEW questions \in 0..MaxQuestions,
             SaveCampaign(script, questions, destination)
      PROVE  CInv'
  <2>1. /\ campaign.version < MaxVersion
        /\ campaign' = [version |-> campaign.version + 1, script |-> script, questions |-> questions,
                        destination |-> destination, active |-> campaign.active]
        /\ saved' = [saved EXCEPT ![campaign.version + 1] = questions]
        /\ UNCHANGED <<starting, agent, call>>
    BY <1>2 DEF SaveCampaign
  <2>2. campaign.version + 1 \in Versions /\ campaign'.version = campaign.version + 1 /\ campaign'.questions = questions
    BY <1>1, <2>1, ConversationAssumption DEF Versions
  <2>3. Types'
    BY <1>1, <2>1, <2>2 DEF CInv, Types, Campaign
  <2>4. saved'[campaign.version + 1] = questions /\ \A v \in 1..campaign.version : saved'[v] = saved[v]
    BY <1>1, <2>1, <2>2, ConversationAssumption DEF Versions
  <2>5. VersionsSaved'
    BY <1>1, <2>2, <2>4 DEF CInv, VersionsSaved
  <2>6. ASSUME NEW k \in Calls PROVE CallGood(call[k])'
    <3> DEFINE r == call[k]
    <3>1. call'[k] = r /\ CallGood(r) /\ r \in CallRow
      BY <1>1, <2>1 DEF CInv
    <3>2. r.script \in Nat /\ r.version \in Nat /\ r.opening \in Nat
      BY <3>1, RowVersions
    <3>3. GoodLine(r.version) \subseteq GoodLine(r.version)'
      <4> SUFFICES ASSUME NEW line \in GoodLine(r.version) PROVE line \in GoodLine(r.version)'
        OBVIOUS
      <4>1. /\ line \in Line /\ 2 <= r.version /\ r.version <= line.version
            /\ line.version <= campaign.version
            /\ line.who = "agent" => line.turn < saved[line.version]
        BY DEF GoodLine
      <4>2. line.version \in Versions
        BY <4>1 DEF Line
      <4>3. line.version \in Nat /\ 1 <= line.version
        BY <4>2, VersionsAreNumbers
      <4>4. saved'[line.version] = saved[line.version] /\ line.version <= campaign'.version
        BY <1>1, <2>2, <2>4, <4>1, <4>3
      <4>5. call'[k].version = r.version
        BY <3>1
      <4>6. QED
        BY <4>1, <4>4, <4>5 DEF GoodLine
    <3>4. r.transcript \in Seq(GoodLine(r.version)')
      BY <3>1, <3>3, SeqMonotonic DEF CallGood
    <3>5. r.script # 0 => saved'[r.script] = saved[r.script]
      BY <1>1, <2>4, <3>1, <3>2 DEF CallGood
    <3>6. QED
      BY <1>1, <2>2, <3>1, <3>2, <3>4, <3>5 DEF CallGood
  <2>7. QED
    BY <2>3, <2>5, <2>6 DEF CInv
<1>3. ASSUME campaign'.version = campaign.version, campaign'.questions = campaign.questions, campaign' \in Campaign,
             UNCHANGED <<saved, agent, call>>, starting' \in BOOLEAN, VersionsSaved'
      PROVE  CInv'
  <2>1. Types'
    BY <1>3 DEF CInv, Types
  <2>2. ASSUME NEW k \in Calls PROVE CallGood(call[k])'
    <3>1. GoodLine(call[k].version)' = GoodLine(call[k].version)
      BY <1>3 DEF GoodLine
    <3>2. CallGood(call[k])
      BY DEF CInv
    <3>3. QED
      BY <1>3, <3>1, <3>2 DEF CallGood
  <2>3. QED
    BY <1>3, <2>1, <2>2 DEF CInv
<1>4. CASE CheckStart
  <2>1. campaign' = campaign /\ campaign.version # 1 /\ starting' = TRUE /\ UNCHANGED <<saved, agent, call>>
    BY <1>1, <1>4 DEF CheckStart, Startable, CInv, VersionsSaved
  <2>2. VersionsSaved'
    BY <2>1 DEF CInv, VersionsSaved
  <2>3. QED
    BY <1>1, <1>3, <2>1, <2>2
<1>5. CASE Start
  <2>1. /\ campaign' = [campaign EXCEPT !.active = TRUE] /\ campaign.version # 1 /\ starting' = FALSE
        /\ UNCHANGED <<saved, agent, call>>
    BY <1>1, <1>5 DEF Start, CInv, VersionsSaved
  <2>2. campaign'.version = campaign.version /\ campaign'.questions = campaign.questions /\ campaign' \in Campaign
    BY <1>1, <2>1 DEF Campaign
  <2>3. VersionsSaved'
    BY <2>1, <2>2 DEF CInv, VersionsSaved
  <2>4. QED
    BY <1>3, <2>1, <2>2, <2>3
<1>6. CASE Stop
  <2>1. campaign' = [campaign EXCEPT !.active = FALSE] /\ UNCHANGED <<saved, starting, agent, call>>
    BY <1>6 DEF Stop
  <2>2. /\ campaign'.version = campaign.version /\ campaign'.questions = campaign.questions /\ campaign' \in Campaign
        /\ campaign'.destination = campaign.destination /\ campaign'.active = FALSE
    BY <1>1, <2>1 DEF Campaign
  <2>3. VersionsSaved'
    BY <2>1, <2>2 DEF CInv, VersionsSaved
  <2>4. QED
    BY <1>1, <1>3, <2>1, <2>2, <2>3
<1>7. QED
  BY <1>2, <1>4, <1>5, <1>6 DEF Configure


-----------------------------------------------------------------------------
(* Calls                                                                   *)

\* A step of one call: its new row has to be good under the same campaign.
LEMMA OneCall ==
    ASSUME CInv, NEW k \in Calls, NEW r \in CallRow, CallGood(r), Update(k, r),
           UNCHANGED <<campaign, saved, starting, agent>>
    PROVE  CInv'
<1>1. call \in [Calls -> CallRow]
  BY DEF CInv, Types
<1>2. call' \in [Calls -> CallRow] /\ \A j \in Calls : call'[j] = IF j = k THEN r ELSE call[j]
  BY <1>1 DEF Update
<1>3. \A j \in Calls : CallGood(call'[j])
  BY <1>2 DEF CInv
<1>4. ASSUME NEW j \in Calls PROVE CallGood(call[j])'
  <2>1. GoodLine(call'[j].version) = GoodLine(call[j].version)'
    BY DEF GoodLine
  <2>2. QED
    BY <1>3, <2>1 DEF CallGood
<1>5. QED
  BY <1>2, <1>4 DEF CInv, Types, VersionsSaved

LEMMA EmptyTranscript == ASSUME NEW S PROVE <<>> \in Seq(S) /\ Len(<<>>) = 0
BY EmptySeq

LEMMA OneLine == ASSUME NEW S, NEW x \in S PROVE <<x>> \in Seq(S) /\ Len(<<x>>) = 1 /\ <<x>>[1] = x
OBVIOUS

\* What a call is known to be before its step.
LEMMA CallFacts ==
    ASSUME CInv, NEW k \in Calls
    PROVE  /\ call[k] \in CallRow /\ CallGood(call[k])
           /\ campaign.version \in Versions /\ campaign.version \in Nat /\ 1 <= campaign.version
           /\ campaign.questions \in 0..MaxQuestions /\ campaign.active \in BOOLEAN
           /\ call[k].script \in Nat /\ call[k].version \in Nat /\ call[k].opening \in Nat
<1>1. call[k] \in CallRow /\ CallGood(call[k]) /\ campaign.version \in Versions
      /\ campaign.questions \in 0..MaxQuestions /\ campaign.active \in BOOLEAN
  BY DEF CInv, Types, Campaign
<1>2. QED
  BY <1>1, RowVersions, VersionsAreNumbers

LEMMA TickStep ==
    ASSUME CInv, NEW k \in Calls, Tick(k)
    PROVE  CInv'
<1>1. CASE Claim(k)
  <2> DEFINE r == [NoCall EXCEPT !.phase = "claimed", !.version = campaign.version]
  <2>1. Update(k, r) /\ UNCHANGED <<campaign, saved, starting, agent>> /\ campaign.active
    BY <1>1 DEF Claim
  <2>2. 2 <= campaign.version
    BY <2>1, CallFacts DEF CInv, VersionsSaved
  <2>3. r \in CallRow
    <3>1. NoCall \in CallRow
      BY EmptyTranscript, ConversationAssumption DEF NoCall, CallRow
    <3>2. QED
      BY <3>1, CallFacts DEF CallRow
  <2>4. CallGood(r)
    BY <2>2, CallFacts, EmptyTranscript DEF NoCall, CallGood
  <2> HIDE DEF r
  <2>5. QED
    BY <2>1, <2>3, <2>4, OneCall
<1>2. CASE LoadOpening(k)
  <2> DEFINE r == [call[k] EXCEPT !.phase = "opened", !.opening = campaign.version]
  <2>1. Update(k, r) /\ UNCHANGED <<campaign, saved, starting, agent>> /\ call[k].phase = "claimed"
    BY <1>2 DEF LoadOpening
  <2>2. r \in CallRow
    BY CallFacts, ZenonT(90) DEF CallRow
  <2>3. CallGood(r)
    BY <2>1, CallFacts DEF CallGood, Unread, CallRow
  <2> HIDE DEF r
  <2>4. QED
    BY <2>1, <2>2, <2>3, OneCall
<1>3. CASE LoadQuestions(k)
  <2> DEFINE r == [call[k] EXCEPT !.phase = "ready", !.script = campaign.version, !.asks = campaign.questions]
  <2>1. Update(k, r) /\ UNCHANGED <<campaign, saved, starting, agent>> /\ call[k].phase = "opened"
    BY <1>3 DEF LoadQuestions
  <2>2. r \in CallRow
    BY CallFacts, ZenonT(90) DEF CallRow
  <2>3. 2 <= call[k].version /\ call[k].version <= campaign.version
    BY <2>1, CallFacts DEF CallGood
  <2>4. campaign.questions = saved[campaign.version] /\ campaign.version # 0
    BY <2>3, CallFacts DEF CInv, VersionsSaved
  <2>5. CallGood(r)
    BY <2>1, <2>3, <2>4, CallFacts, SMTT(30) DEF CallGood, Unread, CallRow
  <2> HIDE DEF r
  <2>6. QED
    BY <2>1, <2>2, <2>5, OneCall
<1>4. ASSUME NEW own \in BOOLEAN, PlaceCall(k, own)
      PROVE  CInv'
  <2> DEFINE r == [call[k] EXCEPT !.phase = "live", !.row = "open", !.own = own]
  <2>1. Update(k, r) /\ UNCHANGED <<campaign, saved, starting, agent>> /\ call[k].phase = "ready"
    BY <1>4 DEF PlaceCall
  <2>2. r \in CallRow
    BY CallFacts, ZenonT(90) DEF CallRow
  <2>3. CallGood(r)
    BY <2>1, CallFacts DEF CallGood, Unread, CallRow
  <2> HIDE DEF r
  <2>4. QED
    BY <2>1, <2>2, <2>3, OneCall
<1>5. ASSUME NEW row \in {"kept", "gone"}, EndTick(k, row)
      PROVE  CInv'
  <2> DEFINE r == [call[k] EXCEPT !.row = row]
  <2>1. Update(k, r) /\ UNCHANGED <<campaign, saved, starting, agent>> /\ call[k].row = "open"
    BY <1>5 DEF EndTick
  <2>2. r \in CallRow
    BY CallFacts, SMTT(30) DEF CallRow
  <2>3. CallGood(r)
    BY <2>1, CallFacts DEF CallGood, Unread, CallRow
  <2> HIDE DEF r
  <2>4. QED
    BY <2>1, <2>2, <2>3, OneCall
<1>6. QED
  BY <1>1, <1>2, <1>3, <1>4, <1>5 DEF Tick


-----------------------------------------------------------------------------
(* The leg                                                                 *)

\* What Sarvam reports was asked under the script the tick loaded.
LEMMA ReportedLines ==
    ASSUME CInv, NEW k \in Calls, call[k].phase = "over", NEW n \in Nat, n <= call[k].asks
    PROVE  /\ Reported(k, n) \in Seq(Line) /\ Reported(k, n) \in Seq(GoodLine(call[k].version))
<1>1. CASE agent = "twilio"
  BY <1>1, EmptyTranscript DEF Reported
<1>2. CASE agent # "twilio"
  <2> DEFINE line(i) == [who |-> IF i % 2 = 1 THEN "agent" ELSE "lead",
                         turn |-> (i - 1) \div 2, version |-> call[k].script]
  <2>1. /\ call[k].asks \in 0..MaxQuestions /\ call[k].script \in Versions
        /\ call[k].script \in Nat /\ call[k].version \in Nat
        /\ 2 <= call[k].version /\ call[k].version <= call[k].script /\ call[k].script <= campaign.version
        /\ call[k].asks = saved[call[k].script]
    BY CallFacts DEF CallGood, CallRow
  <2>2. ASSUME NEW i \in 1..(2 * n)
        PROVE  line(i) \in GoodLine(call[k].version)
    <3>1. (i - 1) \div 2 \in 0..MaxQuestions /\ (i - 1) \div 2 < n
      BY <2>1, ConversationAssumption
    <3>2. line(i) \in Line
      BY <2>1, <3>1 DEF Line
    <3>3. line(i).version = call[k].script /\ line(i).turn = (i - 1) \div 2
      OBVIOUS
    <3> HIDE DEF line
    <3>4. line(i).turn < saved[line(i).version]
      BY <2>1, <3>1, <3>3, ConversationAssumption
    <3>5. QED
      BY <2>1, <3>2, <3>3, <3>4 DEF GoodLine
  <2>3. Reported(k, n) = [i \in 1..(2 * n) |-> line(i)]
    BY <1>2 DEF Reported
  <2> HIDE DEF line
  <2>4. Reported(k, n) \in [1..(2 * n) -> GoodLine(call[k].version)] /\ 2 * n \in Nat
    BY <2>2, <2>3
  <2>5. Reported(k, n) \in Seq(GoodLine(call[k].version))
    BY <2>4, SeqDef
  <2>6. GoodLine(call[k].version) \subseteq Line
    BY DEF GoodLine
  <2>7. QED
    BY <2>5, <2>6, SeqMonotonic
<1>3. QED
  BY <1>1, <1>2

\* The lines of a turn come from the campaign as it is, and end with ours.
LEMMA TurnLines ==
    ASSUME CInv, NEW k \in Calls, call[k].phase # "none"
    PROVE  /\ Heard(k) \o Spoken(k) \in Seq(GoodLine(call[k].version))
           /\ Len(Heard(k) \o Spoken(k)) > 0
           /\ Heard(k) \in Seq(GoodLine(call[k].version)) /\ Spoken(k) \in Seq(GoodLine(call[k].version))
           /\ Len(Spoken(k)) = 1 /\ Spoken(k)[1].who # "lead"
<1>1. /\ 2 <= call[k].version /\ call[k].version <= campaign.version
      /\ campaign.version \in Versions /\ call[k].turn \in 0..MaxQuestions
      /\ campaign.questions \in 0..MaxQuestions
      /\ campaign.questions = saved[campaign.version]
  BY CallFacts DEF CInv, VersionsSaved, CallGood, CallRow
<1>2. \A who \in {"agent", "lead", "closing"} :
         (who = "agent" => Asks(k)) =>
            [who |-> who, turn |-> call[k].turn, version |-> campaign.version] \in GoodLine(call[k].version)
  BY <1>1, CallFacts DEF GoodLine, Line, Asks
<1>3. Heard(k) \in Seq(GoodLine(call[k].version))
  <2>1. [who |-> "lead", turn |-> call[k].turn, version |-> campaign.version] \in GoodLine(call[k].version)
    BY <1>2
  <2>2. CASE call[k].request = "heard" /\ call[k].turn > 0
    <3> DEFINE said == [who |-> "lead", turn |-> call[k].turn, version |-> campaign.version]
    <3>1. Heard(k) = <<said>>
      BY <2>2 DEF Heard
    <3>2. said \in GoodLine(call[k].version)
      BY <2>1
    <3> HIDE DEF said
    <3>3. QED
      BY <3>1, <3>2, OneLine
  <2>3. CASE ~(call[k].request = "heard" /\ call[k].turn > 0)
    <3>1. Heard(k) = <<>>
      BY <2>3 DEF Heard
    <3>2. QED
      BY <3>1, EmptyTranscript
  <2>4. QED
    BY <2>2, <2>3
<1>4. Spoken(k) \in Seq(GoodLine(call[k].version)) /\ Len(Spoken(k)) = 1 /\ Spoken(k)[1].who # "lead"
  <2> DEFINE who == IF Asks(k) THEN "agent" ELSE "closing"
             line == [who |-> who, turn |-> call[k].turn, version |-> campaign.version]
  <2>1. line \in GoodLine(call[k].version) /\ line.who # "lead"
    BY <1>2
  <2>2. Spoken(k) = <<line>>
    BY DEF Spoken
  <2> HIDE DEF line
  <2>3. QED
    BY <2>1, <2>2
<1>5. /\ Heard(k) \o Spoken(k) \in Seq(GoodLine(call[k].version))
      /\ Len(Heard(k) \o Spoken(k)) = Len(Heard(k)) + Len(Spoken(k))
  BY <1>3, <1>4, ConcatProperties, Zenon
<1>6. Len(Heard(k)) \in Nat
  BY <1>3, LenProperties
<1>7. QED
  BY <1>3, <1>4, <1>5, <1>6

LEMMA ServeStep ==
    ASSUME CInv, NEW k \in Calls, ServeTurn(k)
    PROVE  CInv'
<1> DEFINE lines == Heard(k) \o Spoken(k)
           text  == call[k].transcript \o lines
           turn  == IF Asks(k) THEN call[k].turn + 1 ELSE call[k].turn
           phase == IF Asks(k) \/ call[k].phase # "live" THEN call[k].phase ELSE "over"
           r     == [call[k] EXCEPT !.request = "none", !.transcript = text, !.turn = turn, !.phase = phase]
<1>1. /\ call[k].request # "none" /\ call[k].row = "kept"
      /\ UNCHANGED <<campaign, saved, starting, agent>>
  BY DEF ServeTurn, Known
<1>2. /\ call[k] \in CallRow /\ CallGood(call[k])
      /\ call[k].phase \in {"live", "over", "reported"}
      /\ call[k].transcript \in Seq(GoodLine(call[k].version))
      /\ call[k].transcript \in Seq(Line) /\ GoodLine(call[k].version) \subseteq Line
  BY <1>1, CallFacts DEF CallGood, CallRow, GoodLine
<1>3. /\ lines \in Seq(GoodLine(call[k].version)) /\ Len(lines) > 0
  BY <1>2, TurnLines
<1>4. /\ text = call[k].transcript \o Heard(k) \o Spoken(k)
      /\ text \in Seq(GoodLine(call[k].version)) /\ Len(text) = Len(call[k].transcript) + Len(lines)
      /\ Len(call[k].transcript) \in Nat /\ Len(lines) \in Nat
  <2>1. Heard(k) \in Seq(GoodLine(call[k].version)) /\ Spoken(k) \in Seq(GoodLine(call[k].version))
    BY <1>2, TurnLines
  <2>2. text = call[k].transcript \o Heard(k) \o Spoken(k)
    <3> DEFINE S == GoodLine(call[k].version)
    <3>1. call[k].transcript \in Seq(S) /\ Heard(k) \in Seq(S) /\ Spoken(k) \in Seq(S)
      BY <1>2, <2>1
    <3> HIDE DEF S
    <3>2. \A s, t, u \in Seq(S) : (s \o t) \o u = s \o (t \o u)
      BY ConcatAssociative
    <3>3. (call[k].transcript \o Heard(k)) \o Spoken(k) = call[k].transcript \o (Heard(k) \o Spoken(k))
      BY <3>1, <3>2, Zenon
    <3>4. QED
      BY <3>3
  <2>3. QED
    BY <1>2, <1>3, <2>2, ConcatProperties, LenProperties
<1>5. Update(k, r)
  BY <1>4 DEF ServeTurn
<1>6. turn \in 0..MaxQuestions
  BY <1>2, CallFacts, ConversationAssumption, SMTT(30) DEF Asks, CallRow
<1>7. phase \in {"live", "over", "reported"} /\ (call[k].phase = "reported" => phase = "reported")
  BY <1>2
<1>8. text \in Seq(Line)
  BY <1>2, <1>4, SeqMonotonic
<1>9. Unread(call[k]) => text \in Seq(NoLead)
  <2> SUFFICES ASSUME Unread(call[k]) PROVE text \in Seq(NoLead)
    OBVIOUS
  <2>1. call[k].turn = 0 /\ call[k].transcript \in Seq(NoLead)
    BY <1>1, <1>2 DEF CallGood
  <2>2. Heard(k) = <<>>
    BY <2>1 DEF Heard
  <2>3. Spoken(k) \in Seq(NoLead)
    <3>1. Spoken(k)[1] \in Line /\ Spoken(k)[1].who # "lead" /\ Spoken(k) = <<Spoken(k)[1]>>
      <4>1. Spoken(k) \in Seq(Line) /\ Len(Spoken(k)) = 1 /\ Spoken(k)[1].who # "lead"
        BY <1>2, TurnLines, SeqMonotonic
      <4>2. Spoken(k)[1] \in Line
        BY <4>1, ElementOfSeq
      <4>3. Spoken(k) = <<Spoken(k)[1]>>
        BY DEF Spoken
      <4>4. QED
        BY <4>1, <4>2, <4>3
    <3>2. Spoken(k)[1] \in NoLead
      BY <3>1 DEF NoLead
    <3>3. QED
      BY <3>1, <3>2, OneLine
  <2>4. <<>> \in Seq(NoLead)
    BY EmptyTranscript
  <2>5. lines \in Seq(NoLead)
    BY <2>2, <2>3, <2>4, ConcatProperties
  <2>6. QED
    BY <2>1, <2>5, ConcatProperties
<1> HIDE DEF lines, text, turn, phase
<1>10. r \in CallRow
  BY <1>2, <1>6, <1>7, <1>8, ZenonT(90) DEF CallRow
<1>11. /\ r.phase = phase /\ r.request = "none" /\ r.transcript = text /\ r.turn = turn
       /\ r.version = call[k].version /\ r.opening = call[k].opening /\ r.row = call[k].row
       /\ r.script = call[k].script /\ r.asks = call[k].asks /\ r.analysed = call[k].analysed
       /\ r.outcome = call[k].outcome /\ r.status = call[k].status
  BY <1>2 DEF CallRow
<1> HIDE DEF r
<1>12. call[k].analysed \in Nat
  BY <1>2 DEF CallRow
<1>13. CallGood(r)
  <2>1. r.turn > 0 => Len(r.transcript) > 0
    BY <1>3, <1>4, <1>11
  <2>2. r.analysed <= Len(r.transcript)
    BY <1>2, <1>3, <1>4, <1>11, <1>12 DEF CallGood
  <2>3. /\ Unread(r) => r.request = "none" /\ r.transcript \in Seq(NoLead)
        /\ r.status # "none" => r.phase = "reported"
        /\ r.outcome = "connected" => r.status = "completed"
    BY <1>2, <1>7, <1>9, <1>11 DEF CallGood, Unread
  <2>4. QED
    BY <1>2, <1>4, <1>7, <1>11, <2>1, <2>2, <2>3 DEF CallGood
<1>14. QED
  BY <1>1, <1>5, <1>10, <1>13, OneCall


LEMMA ReportStep ==
    ASSUME CInv, NEW k \in Calls, NEW n \in 0..MaxQuestions, NEW status \in Terminal, NEW barred \in BOOLEAN,
           ReportEnd(k, n, status, barred)
    PROVE  CInv'
<1> DEFINE lines == Reported(k, n)
           text == call[k].transcript \o lines
           outcome == Outcome(k, status, barred, lines)
           r == [call[k] EXCEPT !.phase = "reported", !.transcript = text, !.status = status, !.outcome = outcome]
<1>1. /\ Update(k, r) /\ UNCHANGED <<campaign, saved, starting, agent>>
      /\ call[k].phase = "over" /\ n <= call[k].asks
  BY DEF ReportEnd
<1>2. /\ call[k] \in CallRow /\ CallGood(call[k])
      /\ call[k].transcript \in Seq(GoodLine(call[k].version)) /\ call[k].transcript \in Seq(Line)
      /\ call[k].turn \in 0..MaxQuestions /\ call[k].analysed \in Nat
  BY CallFacts DEF CallGood, CallRow
<1>3. lines \in Seq(Line) /\ lines \in Seq(GoodLine(call[k].version))
  BY <1>1, ReportedLines, ConversationAssumption
<1> HIDE DEF lines
<1>4. /\ text \in Seq(GoodLine(call[k].version)) /\ text \in Seq(Line)
      /\ Len(text) = Len(call[k].transcript) + Len(lines)
  BY <1>2, <1>3, ConcatProperties, Zenon
<1>5. Len(lines) \in Nat /\ Len(call[k].transcript) \in Nat
  BY <1>2, <1>3, LenProperties
<1>6. status = "completed" /\ outcome \notin {"connected", "suppressed"} => text = <<>> /\ call[k].turn = 0
  <2> SUFFICES ASSUME status = "completed", outcome \notin {"connected", "suppressed"}
               PROVE  text = <<>> /\ call[k].turn = 0
    OBVIOUS
  <2>1. lines = <<>> /\ call[k].transcript = <<>>
    BY DEF Outcome, Connected
  <2>2. text = <<>>
    BY <2>1
  <2>3. ~(call[k].turn > 0)
    BY <1>2, <2>1 DEF CallGood
  <2>4. QED
    BY <1>2, <2>2, <2>3, ConversationAssumption
<1>7. /\ outcome \in {"connected", "retry", "stop", "suppressed"} /\ status # "none"
      /\ outcome = "connected" => status = "completed"
  BY DEF Outcome, Connected, Ladder, Terminal
<1> HIDE DEF text, outcome
<1>8. r \in CallRow
  BY <1>2, <1>4, <1>7, ZenonT(90) DEF CallRow
<1>9. /\ r.phase = "reported" /\ r.request = call[k].request /\ r.transcript = text /\ r.turn = call[k].turn
      /\ r.version = call[k].version /\ r.opening = call[k].opening /\ r.row = call[k].row
      /\ r.script = call[k].script /\ r.asks = call[k].asks /\ r.analysed = call[k].analysed
      /\ r.outcome = outcome /\ r.status = status
  BY <1>2 DEF CallRow
<1> HIDE DEF r
<1>10. <<>> \in Seq(NoLead)
  BY EmptyTranscript
<1>11. CallGood(r)
  <2>1. (r.turn > 0 => Len(r.transcript) > 0) /\ r.analysed <= Len(r.transcript)
    BY <1>2, <1>4, <1>5, <1>9 DEF CallGood
  <2>2. Unread(r) => r.turn = 0 /\ r.transcript \in Seq(NoLead)
    BY <1>6, <1>9, <1>10 DEF Unread
  <2>3. r.outcome = "connected" => r.status = "completed"
    BY <1>7, <1>9
  <2>4. QED
    BY <1>1, <1>2, <1>4, <1>9, <2>1, <2>2, <2>3 DEF CallGood
<1>12. QED
  BY <1>1, <1>8, <1>11, OneCall

LEMMA LegStep ==
    ASSUME CInv, NEW k \in Calls, Leg(k)
    PROVE  CInv'
<1>1. ASSUME NEW heard \in BOOLEAN, RequestTurn(k, heard)
      PROVE  CInv'
  <2> DEFINE r == [call[k] EXCEPT !.request = IF heard THEN "heard" ELSE "silent"]
  <2>1. Update(k, r) /\ UNCHANGED <<campaign, saved, starting, agent>> /\ call[k].phase = "live"
    BY <1>1 DEF RequestTurn
  <2>2. r \in CallRow
    BY CallFacts, SMTT(30) DEF CallRow
  <2>3. CallGood(r)
    BY <2>1, CallFacts DEF CallGood, Unread, CallRow
  <2> HIDE DEF r
  <2>4. QED
    BY <2>1, <2>2, <2>3, OneCall
<1>2. CASE RefuseTurn(k)
  <2> DEFINE phase == IF call[k].phase = "live" THEN "over" ELSE call[k].phase
             r == [call[k] EXCEPT !.request = "none", !.phase = phase]
  <2>1. Update(k, r) /\ UNCHANGED <<campaign, saved, starting, agent>>
    BY <1>2 DEF RefuseTurn
  <2>2. r \in CallRow
    BY CallFacts, ZenonT(90) DEF CallRow
  <2>3. CallGood(r)
    BY CallFacts DEF CallGood, Unread, CallRow
  <2> HIDE DEF r
  <2>4. QED
    BY <2>1, <2>2, <2>3, OneCall
<1>3. CASE HangUp(k) \/ IgnoreEnd(k)
  <2>1. PICK phase \in {"over", "reported"} :
           /\ Update(k, [call[k] EXCEPT !.phase = phase]) /\ UNCHANGED <<campaign, saved, starting, agent>>
           /\ call[k].phase \in {"live", "over"}
    BY <1>3 DEF HangUp, IgnoreEnd
  <2> DEFINE r == [call[k] EXCEPT !.phase = phase]
  <2>2. r \in CallRow
    BY CallFacts, SMTT(30) DEF CallRow
  <2>3. CallGood(r)
    BY <2>1, CallFacts DEF CallGood, Unread, CallRow
  <2> HIDE DEF r
  <2>4. Update(k, r)
    BY <2>1 DEF r
  <2>5. QED
    BY <2>1, <2>2, <2>3, <2>4, OneCall
<1>4. CASE Qualify(k)
  <2> DEFINE length == Len(call[k].transcript)
             r == [call[k] EXCEPT !.analysed = length]
  <2>1. Update(k, r) /\ UNCHANGED <<campaign, saved, starting, agent>>
    BY <1>4 DEF Qualify
  <2>2. length \in Nat
    BY CallFacts, LenProperties DEF CallRow
  <2>3. r \in CallRow
    BY <2>2, CallFacts, SMTT(30) DEF CallRow
  <2>4. r.analysed <= Len(r.transcript)
    BY <2>2, CallFacts DEF CallRow
  <2>5. CallGood(r)
    BY <2>4, CallFacts DEF CallGood, Unread, CallRow
  <2> HIDE DEF r
  <2>6. QED
    BY <2>1, <2>3, <2>5, OneCall
<1>5. QED
  BY <1>1, <1>2, <1>3, <1>4, ServeStep, ReportStep DEF Leg

LEMMA CInvStep == CInv /\ [Next]_vars => CInv'
<1> SUFFICES ASSUME CInv, [Next]_vars PROVE CInv'
  OBVIOUS
<1>1. CASE UNCHANGED vars
  <2>1. \A k \in Calls : GoodLine(call[k].version)' = GoodLine(call[k].version)
    BY <1>1 DEF vars, GoodLine
  <2>2. QED
    BY <1>1, <2>1 DEF vars, CInv, Types, VersionsSaved, CallGood
<1>2. QED
  BY <1>1, ConfigureStep, TickStep, LegStep DEF Next

-----------------------------------------------------------------------------

LEMMA CInvAlways == Spec => []CInv
<1>1. Init => CInv
  BY CInvInit
<1>2. CInv /\ [Next]_vars => CInv'
  BY CInvStep
<1>3. QED
  BY <1>1, <1>2, PTL DEF Spec

\* The rows of campaigns and calls keep their types, and an analysis never
\* covers more than the transcript has, for any number of calls and versions.
THEOREM ConversationTypes == Spec => []TypeOK
<1>1. CInv => TypeOK
  BY CInvImpliesTypeOK
<1>2. QED
  BY <1>1, CInvAlways, PTL

\* Whatever is saved and started between the reads of a tick and the turns of a
\* call (campaigns/config.ts, worker.ts, twiml/route.ts), every word of the call
\* can be traced to a saved version that asks that question.
THEOREM ConversationIsReadable == Spec => []EveryQuestionIsReadable
<1>1. CInv => EveryQuestionIsReadable
  BY CInvImplies
<1>2. QED
  BY <1>1, CInvAlways, PTL

\* However hang-up, late turns and callback overlap (twiml/route.ts,
\* results.ts), whoever answered a question has the conversation read exactly if
\* the provider reports the call completed and names no reason to suppress; after
\* any other report nobody reads it.
THEOREM AnswersOfCompletedAreRead == Spec => []AnswersAreRead
<1>1. CInv => AnswersAreRead
  BY CInvImplies
<1>2. QED
  BY <1>1, CInvAlways, PTL

=============================================================================
