---------------------------- MODULE Conversation ----------------------------
(***************************************************************************)
(* What is said on a call, and under which configuration: the campaign's   *)
(* configuration and its versions (campaigns/config.ts, campaigns/         *)
(* actions.ts, clients/actions.ts), the script a tick loads (worker.ts),   *)
(* the account a call is placed with (providers/voice/tenant.ts), Twilio's *)
(* turn-by-turn conversation (twiml/route.ts) or Sarvam's own one          *)
(* (sarvam.ts), and the callback that reports the end (voice route.ts,     *)
(* results.ts).                                                            *)
(*                                                                         *)
(* Operators save and start the campaign between any two of these reads.   *)
(* A configuration is its version, whether it has a script and a           *)
(* destination, and how many questions; a line of a transcript is who      *)
(* spoke, at which turn, under which version.                              *)
(***************************************************************************)
EXTENDS Integers, Sequences

CONSTANTS
    Calls,
    MaxVersion,    \* bound: saves of the campaign, plus one
    MaxQuestions,  \* bound: questions of a campaign
    Registered     \* voice providers configured in the environment

ASSUME ConversationAssumption ==
    /\ MaxVersion \in Nat \ {0} /\ MaxQuestions \in Nat
    /\ Registered \subseteq {"twilio", "sarvam"}

VARIABLES
    campaign,    \* the campaigns row and its qualification_rules
    saved,       \* campaign_versions: how many questions, or Unsaved
    starting,    \* setCampaignActive has found no blocker and not committed
    agent,       \* campaigns.voice_provider
    call         \* call[k]: a call, its leg at the provider and its rows

vars == <<campaign, saved, starting, agent, call>>

Unsaved == -1

\* The statuses that end a call; a status a provider names otherwise is "failed".
Terminal == {"completed", "no_answer", "busy", "failed", "canceled"}

Versions == 1..MaxVersion

NoCall == [phase |-> "none", row |-> "none", version |-> 0, opening |-> 0, script |-> 0, asks |-> 0,
           own |-> FALSE, turn |-> 0, request |-> "none", transcript |-> <<>>, status |-> "none",
           outcome |-> "none", analysed |-> 0]

Line == [who : {"agent", "lead", "closing"}, turn : 0..MaxQuestions, version : Versions]

TypeOK ==
    /\ campaign \in [version : Versions, script : BOOLEAN, questions : 0..MaxQuestions,
                     destination : BOOLEAN, active : BOOLEAN]
    /\ saved \in [Versions -> {Unsaved} \cup 0..MaxQuestions]
    /\ starting \in BOOLEAN /\ agent \in {"twilio", "sarvam"}
    /\ \A k \in Calls :
        /\ call[k].phase \in {"none", "claimed", "opened", "ready", "live", "over", "reported"}
        /\ call[k].row \in {"none", "open", "kept", "gone"}
        /\ {call[k].version, call[k].opening, call[k].script} \subseteq {0} \cup Versions
        /\ call[k].asks \in 0..MaxQuestions /\ call[k].own \in BOOLEAN
        /\ call[k].turn \in 0..MaxQuestions
        /\ call[k].request \in {"none", "silent", "heard"}
        /\ call[k].transcript \in Seq(Line)
        /\ call[k].status \in {"none"} \cup Terminal
        /\ call[k].outcome \in {"none", "connected", "retry", "stop", "suppressed"}
        /\ call[k].analysed \in 0..Len(call[k].transcript)

\* createCampaign starts empty, onboardClient with the script and the questions
\* of a template; neither has a destination or a snapshot.
Init ==
    /\ \E template \in BOOLEAN :
        campaign = [version |-> 1, script |-> template, questions |-> IF template THEN MaxQuestions ELSE 0,
                    destination |-> FALSE, active |-> FALSE]
    /\ saved = [v \in Versions |-> Unsaved]
    /\ starting = FALSE /\ agent \in {"twilio", "sarvam"}
    /\ call = [k \in Calls |-> NoCall]

-----------------------------------------------------------------------------
(* Configuration                                                           *)

\* One transaction: the row, the rules wholesale, the snapshot.
SaveCampaign(script, questions, destination) ==
    /\ campaign.version < MaxVersion
    /\ campaign' = [version |-> campaign.version + 1, script |-> script, questions |-> questions,
                    destination |-> destination, active |-> campaign.active]
    /\ saved' = [saved EXCEPT ![campaign.version + 1] = questions]
    /\ UNCHANGED <<starting, agent, call>>

\* Mutation: results need no destination.
StartsAnywhere(c) == c.script /\ c.questions > 0

\* activationBlockers is empty.
Startable(c) == c.script /\ c.questions > 0 /\ c.destination

\* setCampaignActive checks the row without locking it, then writes it.
CheckStart ==
    /\ ~starting /\ Startable(campaign) /\ starting' = TRUE
    /\ UNCHANGED <<campaign, saved, agent, call>>

Start ==
    /\ starting /\ starting' = FALSE
    /\ campaign' = [campaign EXCEPT !.active = TRUE]
    /\ UNCHANGED <<saved, agent, call>>

\* Paused by hand, by a revoked compliance sign-off or with the client.
Stop ==
    /\ campaign.active /\ campaign' = [campaign EXCEPT !.active = FALSE]
    /\ UNCHANGED <<saved, starting, agent, call>>

-----------------------------------------------------------------------------
(* The tick: four reads in one transaction, each sees what is committed    *)

Update(k, new) == call' = [call EXCEPT ![k] = new]

Claim(k) ==
    /\ call[k].phase = "none" /\ campaign.active
    /\ Update(k, [NoCall EXCEPT !.phase = "claimed", !.version = campaign.version])
    /\ UNCHANGED <<campaign, saved, starting, agent>>

LoadOpening(k) ==
    /\ call[k].phase = "claimed"
    /\ Update(k, [call[k] EXCEPT !.phase = "opened", !.opening = campaign.version])
    /\ UNCHANGED <<campaign, saved, starting, agent>>

LoadQuestions(k) ==
    /\ call[k].phase = "opened"
    /\ Update(k, [call[k] EXCEPT !.phase = "ready", !.script = campaign.version, !.asks = campaign.questions])
    /\ UNCHANGED <<campaign, saved, starting, agent>>

\* resolveProviderForTenant: an account of the client's own, or the platform's.
CanPlace(own) == own \/ agent \in Registered

PlaceCall(k, own) ==
    /\ call[k].phase = "ready" /\ CanPlace(own)
    /\ Update(k, [call[k] EXCEPT !.phase = "live", !.row = "open", !.own = own])
    /\ UNCHANGED <<campaign, saved, starting, agent>>

\* The tick commits, or dies and is rolled back; the phone rings regardless.
EndTick(k, row) ==
    /\ call[k].row = "open"
    /\ Update(k, [call[k] EXCEPT !.row = row])
    /\ UNCHANGED <<campaign, saved, starting, agent>>

-----------------------------------------------------------------------------
(* Twilio: one request per turn                                            *)

\* The leg asks what to say: at the answer, after an answer or after silence.
RequestTurn(k, heard) ==
    /\ agent = "twilio" /\ call[k].phase = "live" /\ call[k].request = "none"
    /\ Update(k, [call[k] EXCEPT !.request = IF heard THEN "heard" ELSE "silent"])
    /\ UNCHANGED <<campaign, saved, starting, agent>>

\* Callbacks are checked with the platform's credential, whoever placed the
\* call: Twilio signs with the token of the account, while Sarvam echoes a
\* token this deployment minted.
Verified(k) == agent \in Registered /\ (agent = "twilio" => ~call[k].own)

Known(k) == call[k].row = "kept"

Heard(k) ==
    IF call[k].request = "heard" /\ call[k].turn > 0
    THEN <<[who |-> "lead", turn |-> call[k].turn, version |-> campaign.version]>> ELSE <<>>

\* Mutation: one question too many.
AsksOnePast(k) == call[k].turn <= campaign.questions

\* Whether the campaign, as it is now, has a question for this turn.
Asks(k) == call[k].turn < campaign.questions

\* The next question, or the closing.
Spoken(k) ==
    <<[who |-> IF Asks(k) THEN "agent" ELSE "closing",
       turn |-> call[k].turn, version |-> campaign.version]>>

\* Read, append and answer in one transaction, also if the caller is gone.
ServeTurn(k) ==
    /\ call[k].request # "none" /\ Verified(k) /\ Known(k)
    /\ Update(k, [call[k] EXCEPT
          !.request = "none",
          !.transcript = @ \o Heard(k) \o Spoken(k),
          !.turn = IF Asks(k) THEN @ + 1 ELSE @,
          !.phase = IF Asks(k) \/ @ # "live" THEN @ ELSE "over"])
    /\ UNCHANGED <<campaign, saved, starting, agent>>

\* "Sorry, this call could not be verified", or found: the leg has nothing
\* left to say.
RefuseTurn(k) ==
    /\ call[k].request # "none" /\ ~(Verified(k) /\ Known(k))
    /\ Update(k, [call[k] EXCEPT !.request = "none", !.phase = IF @ = "live" THEN "over" ELSE @])
    /\ UNCHANGED <<campaign, saved, starting, agent>>

-----------------------------------------------------------------------------
(* The end of the call                                                     *)

\* Nobody answers, or the caller hangs up, also while a turn is being served.
HangUp(k) ==
    /\ call[k].phase = "live"
    /\ Update(k, [call[k] EXCEPT !.phase = "over"])
    /\ UNCHANGED <<campaign, saved, starting, agent>>

\* What Sarvam reports: the questions it was given, of which n were answered.
Reported(k, n) ==
    IF agent = "twilio" THEN <<>>
    ELSE [i \in 1..(2 * n) |-> [who |-> IF i % 2 = 1 THEN "agent" ELSE "lead",
                                turn |-> (i - 1) \div 2, version |-> call[k].script]]

\* Mutation: only a transcript that comes with the callback counts.
ConnectedByCallback(k, status, lines) == status = "completed" /\ lines # <<>>

\* recordCallResult: completed, with a transcript that came with the callback or
\* was stored during the call.
Connected(k, status, lines) == status = "completed" /\ (lines # <<>> \/ call[k].transcript # <<>>)

\* decideRetry of a call without a callback time.  The ladder also stops when the
\* attempts are used up, which CallQueue counts.
Ladder(status) == IF status \in {"completed", "canceled"} THEN "stop" ELSE "retry"

\* The branches of recordCallResult: a permanent condition named by the carrier,
\* a conversation, or the ladder.
Outcome(k, status, barred, lines) ==
    IF barred THEN "suppressed"
    ELSE IF Connected(k, status, lines) THEN "connected" ELSE Ladder(status)

\* Only Sarvam names the carrier's reason.
ReportEnd(k, n, status, barred) ==
    /\ call[k].phase = "over" /\ Verified(k) /\ Known(k) /\ n <= call[k].asks
    /\ agent = "twilio" => n = 0 /\ ~barred
    /\ LET lines == Reported(k, n) IN
       Update(k, [call[k] EXCEPT !.phase = "reported", !.transcript = @ \o lines, !.status = status,
                                 !.outcome = Outcome(k, status, barred, lines)])
    /\ UNCHANGED <<campaign, saved, starting, agent>>

\* Rejected, or acknowledged and ignored: the provider does not ask again.
IgnoreEnd(k) ==
    /\ call[k].phase = "over" /\ ~(Verified(k) /\ Known(k))
    /\ Update(k, [call[k] EXCEPT !.phase = "reported"])
    /\ UNCHANGED <<campaign, saved, starting, agent>>

\* The transcript as far as it is stored; at most one analysis.
Qualify(k) ==
    /\ call[k].outcome = "connected" /\ call[k].analysed = 0
    /\ Update(k, [call[k] EXCEPT !.analysed = Len(call[k].transcript)])
    /\ UNCHANGED <<campaign, saved, starting, agent>>

-----------------------------------------------------------------------------

Configure ==
    \/ \E script, destination \in BOOLEAN, questions \in 0..MaxQuestions :
          SaveCampaign(script, questions, destination)
    \/ CheckStart \/ Start \/ Stop

Tick(k) ==
    \/ Claim(k) \/ LoadOpening(k) \/ LoadQuestions(k)
    \/ \E own \in BOOLEAN : PlaceCall(k, own)
    \/ \E row \in {"kept", "gone"} : EndTick(k, row)

Leg(k) ==
    \/ \E heard \in BOOLEAN : RequestTurn(k, heard)
    \/ ServeTurn(k) \/ RefuseTurn(k) \/ HangUp(k)
    \/ \E n \in 0..MaxQuestions, status \in Terminal, barred \in BOOLEAN : ReportEnd(k, n, status, barred)
    \/ IgnoreEnd(k) \/ Qualify(k)

Next == Configure \/ \E k \in Calls : Tick(k) \/ Leg(k)

Spec == Init /\ [][Next]_vars

-----------------------------------------------------------------------------
(* Properties                                                              *)

\* The versions the words of a call came from.
SpokenUnder(k) ==
    {call[k].transcript[i].version : i \in DOMAIN call[k].transcript}
        \cup (IF agent = "sarvam" /\ call[k].phase # "none" THEN {call[k].opening, call[k].script} \ {0} ELSE {})

\* "That number is only useful if the configuration it names can still be read
\* back": the version recorded with a call and every version its words came
\* from has a snapshot, none is older than the recorded one, and no question
\* was asked that its version does not have.  New campaigns have no snapshot:
\* they cannot be started before a save.
EveryQuestionIsReadable ==
    \A k \in Calls : call[k].phase # "none" =>
        /\ saved[call[k].version] # Unsaved
        /\ \A v \in SpokenUnder(k) : saved[v] # Unsaved /\ v >= call[k].version
        /\ \A i \in DOMAIN call[k].transcript : LET line == call[k].transcript[i] IN
              line.who = "agent" => line.turn < saved[line.version]

Answered(k) == \E i \in DOMAIN call[k].transcript : call[k].transcript[i].who = "lead"

\* "What matters is that a conversation exists to read": whoever answered a question
\* has the conversation read, and is not sent back to the ladder, however the
\* hang-up, the last turns and the callback overlap, if the provider calls the call
\* completed and the carrier named no reason to suppress.  Only then: with any other
\* status, the unknown ones among them, the code redials or gives up somebody who
\* answered, and leaves the conversation unread.
AnswersAreRead ==
    \A k \in Calls : Answered(k) /\ call[k].status # "none" =>
        /\ call[k].status = "completed" => call[k].outcome \in {"connected", "suppressed"}
        /\ call[k].outcome = "connected" => call[k].status = "completed"

=============================================================================
