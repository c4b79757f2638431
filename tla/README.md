# A formal model of the calling platform

TLA+ modules, TLC runs and TLAPS proofs about the voice-call platform in `src/`:
a multi-tenant service that takes leads from web forms and CRMs, calls them
through a voice provider, has a language model judge the conversation, lets a
person review doubtful judgements, and sends the outcome on to CRMs and sheets.

- [How to run](#how-to-run)
- [Inventory](#inventory)
- The models: [calling engine](#the-model-of-the-calling-engine),
  [sync outbox](#the-model-of-the-sync-outbox),
  [credentials](#the-model-of-integration-credentials),
  [after the conversation](#the-model-of-what-follows-a-conversation),
  [the conversation](#the-model-of-a-conversation),
  [lead intake](#the-model-of-lead-intake),
  [access](#the-model-of-access)
- [Runs](#runs), [bounds](#bounds), [fairness](#fairness)
- [Proofs](#proofs)
- [Where the code and its comments part](#where-the-code-and-its-comments-part)
- [What is not modelled](#what-is-not-modelled)
- [Plan](#plan)

Paths are relative to the application directory `src/src/` unless they begin
with `src/`.

## How to run

Each configuration is named after its specification and its run; the module to
give TLC is the specification's `MC` module:

    tlc -workers 2 -config CallQueue_workers.cfg MCCallQueue
    tlc -workers 2 -config SyncOutbox_outbox.cfg MCSyncOutbox

The proofs, in any order:

    for m in CallQueueProofs CallQueueCalls SyncOutboxProofs IntegrationsProofs \
             FollowUpProofs ConversationProofs LeadIntakeProofs AccessProofs
    do tlapm $m.tla; done

A `violation` run is meant to end with a counterexample: it shows a
disagreement between the code and what a comment or document says of it.

## Inventory

State lives in PostgreSQL; the processes (Next.js route handlers) keep nothing
between requests.  Every handler opens a transaction scoped to one tenant
(`withTenant`, `lib/db/client.ts`).  What makes the system hard is that several
handlers - the cron sweep, intake requests, n8n, provider webhooks, the admin
pages - write the same lead row, and that one of them keeps its transaction open
across requests to the outside world.

| Component (source) | State | Operations | Talks to | What is hard | Correct when |
|---|---|---|---|---|---|
| **Calling queue and tick** `lib/calling/queue.ts`, `worker.ts` | `leads.status`, `locked_by`, `lock_expires_at`, `call_attempt_count`, `next_call_at`; `call_attempts` | claim, reclaim expired locks, defer outside the window, dial, refuse, release, commit | voice provider (createCall inside the open transaction), eligibility, windows | concurrent ticks, a crash after the provider said yes, calls that outlive the lock, caps counted without a lock | a lead is in one tick's hands; attempts are numbered and budgeted; caps hold; nobody on the list is dialled; nobody is stranded |
| **Retry policy** `lib/calling/retry.ts` | none (pure) | decide what follows an attempt | queue, results, pipeline, review | boundary of the budget, a callback on the last attempt | never past the budget except for a promised callback |
| **Voice webhooks, call results** `app/api/webhooks/voice/[provider]/route.ts`, `lib/calling/results.ts` | `webhook_events` keys, attempt status, transcripts | verify, deduplicate, record interim and terminal statuses, suppress | queue, qualification | early, late, lost and repeated webhooks; a result of an older attempt | each outcome recorded once, on the attempt that caused it; none dropped |
| **Voice providers** `lib/providers/voice/*` | calls held by the provider | createCall, verify and parse webhooks, test mode | Twilio, Sarvam, a mock | an answer that never arrives, a refusal that is permanent or not | a call is placed at most once per attempt |
| **Eligibility and suppression** `lib/leads/eligibility.ts` | `dnc_entries`, `leads.do_not_call` | check, suppress | queue, intake, results, pipeline | an entry committed between the check and the dialling; two leads with one phone | a number on the list is not dialled again |
| **Qualification and review** `lib/qualification/*` | `call_analyses`, lead status, score | analyze, gate, hold, commit, confirm, correct, reject | model provider, retry policy, outbox, callbacks | the model request lies between a read and a write; two qualifiers of one call; a review of a lead that has moved on | one trusted analysis per call; nothing leaves before review when it must be reviewed |
| **Lead intake** `lib/leads/intake.ts`, `hubspot-event.ts`, `campaign-routing.ts`, `app/api/webhooks/leads`, `hubspot` | `leads`, `consents` | normalise, deduplicate, route to a campaign, insert or update, requeue, quarantine | eligibility, dispatch | concurrent events for one person, a status read before the update waits for the row | one lead per person; a lead on the phone is not queued again |
| **Callbacks** `lib/calling/callbacks.ts` | `callbacks` | schedule, fulfil, mark missed, cancel, reschedule | queue, pipeline | the sweep racing the tick that fulfils; a promise for a lead that is closed | every promise is kept, cancelled or reported missed |
| **Operator actions** `app/(admin)/clients/actions.ts`, `campaigns/*` | `tenants.status`, `campaigns.active`, configuration | suspend, resume, pause, start, edit | queue, outbox | suspending under an open tick | no new claim after suspension |
| **Scheduler and dispatch** `lib/calling/dispatch.ts`, `app/api/cron/tick`, `src/scripts/worker.ts` (a timer that calls it) | none | find tenants with work, run ticks and the outbox drain | queue, callbacks, outbox | overlapping sweeps, being cut off at `maxDuration` | tenants are all served |
| **Sync outbox and integrations** `lib/integrations/*` | `sync_outbox` | enqueue, claim, deliver, back off, dead-letter, replay | HubSpot, Sheets, a chat channel | a crash after the append, a row rejected between enqueue and drain, competing drains | at least once, eventually dead-lettered; no duplicate where the target can say so |
| **Calling windows** `lib/calling/windows.ts` | none (pure) | is it open, when does it open next | queue, retry | time zones, permitted weekdays, days of 23 and 25 hours | the next opening is open and none is earlier |
| **Scoring and routing** `lib/qualification/scoring.ts` | none (pure) | score, band, action | qualification | band edges, do-not-call precedence | the bands partition the scores |
| **Rate limiting** `lib/ratelimit.ts`, `src/db/migrations/0011_rate_limiting.sql` | `rate_limit_counters` | consume | every public route | window edges, concurrent consumers | no more than the limit per window |
| **Tenancy, sessions, service tokens** `lib/auth/*`, `lib/db/client.ts` | sessions, assignments, elevations, tokens, the transaction's tenant setting | sign in, scope, authorise, disable | everything | a revocation between the transactions of a request; a login beside a disabling | a transaction sees one tenant; nothing new after a revocation |
| **Conversation endpoint** `app/api/webhooks/voice/twilio/*` | transcript turns | answer one turn | provider, model | asked before the tick commits; the hang-up overtaking the last turn | the words can be read back; nobody who answered counts as not reached |
| **Encryption of personal data** `lib/crypto/*` | keys | encrypt, blind index | intake, queue | none that a state model reaches | round trip |
| **Audit, logging, health** `lib/audit.ts`, `lib/observability/*` | `audit_events` | append | everything | none | append only |
| **Admin pages, analytics** `app/(admin)`, `lib/analytics/*` | none | render | the tables | none | read only |
| **Integration credentials** `app/(admin)/integrations/actions.ts`, `lib/integrations/sync-worker.ts` | `integrations`, `secrets` | add, replace, test, use, disable | the far end | replacement in two transactions; verdicts about a credential that is no longer the row's | every stored secret is referenced; a refused credential leaves service |
| **Campaign configuration** `lib/campaigns/config.ts`, `app/(admin)/campaigns/actions.ts` | `campaigns`, `qualification_rules`, `campaign_versions` | save, start, stop | tick, conversation | a save between two reads of one call | the version recorded with a call can be read back |

The hazards of each component, at the line where they bite and with the
properties that cover them, are listed in `PROJECT.json`.

How the models divide the system.  The lead row is where the components meet,
and each model that needs it takes the part its properties are about:
`CallQueue` has several leads and ticks and treats what a conversation leads to as
a free choice of verdicts; `FollowUp` has one lead and opens the transactions that
`CallQueue` takes as steps (two qualifiers, the sweep, the reschedule);
`LeadIntake` opens those of intake, and calls are two actions there.  `SyncOutbox`
starts where `FollowUp` enqueues, and `Integrations` is about the credentials
`SyncOutbox` leaves open.  `Conversation` is what happens inside one call of
`CallQueue`.

## The model of the calling engine

| Module | What it is |
|---|---|
| `RetryPolicy` | `decideRetry` as an operator; the terminal statuses |
| `CallQueue` | the engine: queue, ticks, provider, webhooks, qualification's effect on a lead, operators, intake |
| `CallLedger` | abstract: what the `call_attempts` table promises its readers |
| `MCCallQueue` | small instances for TLC |
| `CallQueueProofs` | the inductive invariant, the safety theorems, the caps with one tick open and with several, and that `CallQueue` implements `CallLedger` |
| `CallQueueCalls` | what concerns placed calls: the do-not-call list is final, attempt rows and calls agree, no result is dropped |

### State

| Variable | In the program |
|---|---|
| `lead` | the `leads` row: `status`, `do_not_call` (`dnc`), `next_call_at` not in the future (`due`), `lock_expires_at` past (`lapsed`), `call_attempt_count` (`count`) |
| `attempt` | `call_attempts` by lead and `attempt_no`: status, provider call id, whether it has a transcript (`heard`), the state of its analysis |
| `dncList`, `active`, `tenantActive` | tenant-wide `dnc_entries`, `campaigns.active`, `tenants.status` |
| `keys` | `webhook_events`, the idempotency keys of terminal events |
| `work` | per worker, what its open, uncommitted tick has done with each lead |
| `call`, `wire` | the provider's record of each call, and the webhooks on their way (external) |
| `crashes` | counter for the bound `MaxCrashes` |

### Transactions as actions

Every transaction is one action, except the calling tick.  `dialOneCampaign`
(`dispatch.ts` 54-90) opens a transaction and `runCallingTick` claims, dials and
writes in it, so the requests to the provider happen *before* the commit and
cannot be rolled back.  The tick is therefore `ClaimLeads`, one of `PlaceCall`,
`PlaceCallUnheard`, `RefuseCall` per claimed lead, and then `Commit` or `Crash`.
Until the commit its writes are visible only in `work`; the rows it has written
are locked, so `skip locked` (in `Candidates`) passes over them and every other
writer's guard says `~Locked(l)`: that writer waits.

| Action | Code |
|---|---|
| `ClaimLeads`, `DeferQueue` | `claimLeads`, inside and outside the calling window |
| `PlaceCall`, `PlaceCallUnheard`, `RefuseCall` | `dialOne`: accepted; accepted but the answer timed out; refused, retryable (`refused`) or not (`rejected`) |
| `Commit`, `Crash` | end of the transaction; process death, `maxDuration` or a failing query |
| `CallEnds`, `LoseWebhook` | the provider |
| `IgnoreDuplicate`, `IgnoreUnknown`, `RecordSuppression`, `RecordConversation`, `RecordNoConversation` | the branches of the webhook route and `recordCallResult` |
| `QualifyCall`, `QualifyUnconnected` | `qualifyCall` with and without a conversation |
| `ConfirmReview`, `RejectReview` | `resolveReview` |
| `RescheduleCallback` | `rescheduleCallback`, the lead's half |
| `ImportDnc`, `SetCampaignActive`, `Suspend`, `Resume` | operators |
| `IngestLead`, `QuarantineLead` | `ingestLead` with and without a callable number |
| `LockLapses`, `FallsDue` | time passing `lock_expires_at` and `next_call_at` |

### Abstractions

- `initiated`, `ringing` and `answered` are one status, `open`.  They only
  overwrite one another (`results.ts` 49-52) and the queue counts all three.
- Times are the two Booleans `due` and `lapsed`; how long a delay is does not
  matter to any property, that it may be shorter or longer than a call does.
- Candidates are claimed in any order (the code orders by priority and age).
- Counting the calls in flight, waiting for the rows of a reclaim, and locking
  the candidates are one step.  A tick that waits between the count and the lock
  would use an older count still; the count is already not binding between
  ticks, which is why `WithinCaps` is checked for one worker and the proof for
  more of them gives a multiple of the caps.
- `ingestLead` and `qualifyCall` each read and write in one step.  The code has
  a gap in both; `LeadIntake` and `FollowUp` open them.
- The per-campaign reasons of `checkEligibility` (a do-not-call entry of the
  campaign, the dial allowlist, a withdrawn consent) are a free choice of
  `barred` leads wherever the check is made.
- A lead's campaign and phone do not change; there is one tenant (`Access` is
  about several).
- A queued lead whose stored phone cannot be decrypted (quarantined by the
  claim) is left out: it is a lead that intake should never have queued.
- `Inputs` names the outside events a configuration lets happen.  The theorems
  hold whatever it contains, but for `ResultsAreKept`, which says what it needs.

## The model of the sync outbox

`SyncOutbox` models `lib/integrations/outbox.ts` and `sync-worker.ts`;
`Delivery` is the abstract promise it implements.

| Variable | In the program |
|---|---|
| `row` | `sync_outbox` by call and target: `status`, `attempts`.  `next_attempt_at` may pass at any moment |
| `drain` | per open drain, what it has done with each row and not committed |
| `analysis` | the `call_analyses` rows of a call, one per qualifier: none, held, approved |
| `told` | the results that have arrived at the destination (external) |
| `landed` | history: arrivals whose outcome is not lost |
| `crashes` | counter for the bound `MaxCrashes` |

A drain is one transaction: `ClaimDueSyncs` (for update skip locked, hence
`Claimable`), then for each row `SkipHeldResult` or `Deliver`, then `CommitDrain`,
which writes `Settled` for all rows at once, or `CrashDrain`, which takes back
every write and no request.  `Deliver` distinguishes whether the request arrived
from whether the drain heard of it: `ok`, `unheard` (arrived, the answer did
not), `half` (HubSpot's contact was updated, its task was not created),
`transient` and `unusable` (no credential, or refused for good; dead-lettered).
`StoreApproved` enqueues in the transaction that commits the analysis;
`ReplayDeadLetter` and `ReplayAllForTarget` are the operator's.  Two qualifiers
may have stored an analysis of one call, and the drain's join returns either.

`Delivery` knows neither drains nor attempts: an item is owed, then delivered
(only after it has arrived, unless it is optional: a client without a channel) or
given up visibly, and what is not owed is never sent.

## The model of integration credentials

`Integrations` models adding (`clients/actions.ts`), replacing and testing
(`integrations/actions.ts`) a credential, and its use and withdrawal by drains
(`loadCredential`, `disableIntegration`).

| Variable | In the program |
|---|---|
| `row` | `integrations`: status and `credential_ref`, numbered as they are added |
| `stored` | `secrets`, one model value per sealed credential |
| `accepted` | the credentials the far end still accepts (external) |
| `admin` | per administrator, the replacement or test under way and what it has read |
| `drain` | per target, the credential of the drain under way |
| `sealed`, `lost` | counters: credentials sealed (bound `MaxSecrets`); replacements whose reference had been replaced meanwhile |

`BeginReplace`/`CommitReplace` are the two transactions of
`replaceIntegrationCredential`; `BeginTest`, `AnswerTest` and `EndTest` are the
read, the far end's answer and the write of the verdict; `BeginDrain` and
`EndDrain` the read and the consequence of a 401, `LoseDrain` a drain that is
rolled back.  `Revoke` is somebody at the far end.

## The model of what follows a conversation

`FollowUp` follows one lead from the tick to the kept, missed, moved or cancelled
callback (`qualification/pipeline.ts`, `resolve.ts`, `calling/callbacks.ts`,
`worker.ts`).  It extends two modules of pure functions: `LeadScoring`
(`scoring.ts`, `review.ts` and the branches of `commitAnalysis`) and
`CallingWindow` (`windows.ts`).

| Variable | In the program |
|---|---|
| `now` | the clock, in instants up to `Horizon` |
| `lead` | the lead's `status`, `next_call_at`, and whether it is on the list |
| `calls` | committed `call_attempts`, in order, with `started_at` |
| `analysis` | the `call_analyses` rows of each call, one per qualifier |
| `callbacks` | the `callbacks` rows, who closed them, and which call kept them |
| `tick` | the dialler's open transaction: it holds the lead, and the callbacks it kept |
| `move`, `moves` | the open transaction of `rescheduleCallback`: it holds the callback and wants the lead |
| `sweep` | the rows `markMissedCallbacks` has chosen on its snapshot and not written |

The transactions that can wait for one another are open in the state; a writer's
guard says `LeadFree` or `CallbackFree(i)` where it would wait.  When the tick
wants the callback and the reschedule wants the lead, `AbortOneOfTwo` is the
database's deadlock detection.  A reschedule that waits for the lead writes the
time it was given, which may have passed meanwhile (`Overtaken`).  `RefuseCall` keeps the callback as `PlaceCall`
does, because `dialOne` marks it before it asks the provider.

Of an analysis only its effect is kept (suppress, callback, qualified, leave),
which is what the later steps read.  The pure functions
are checked by invariants about the states before the first call: `DecisionsAgree`, `SureRefusalActsAtOnce` and `HotMeansNeed` quantify over
every combination of answers (texts are given or not given, confidence one of
five values), `DeferralOpens` over 72 hours of every window in `SampleWindows`,
in zones whose clocks change by an hour either way in one of the nights.

## The model of a conversation

`Conversation` models what is said on a call, and under which configuration
(`campaigns/config.ts`, `campaigns/actions.ts`, `worker.ts` `loadScript`,
`providers/voice/tenant.ts`, `twiml/route.ts`, `sarvam.ts`, the voice webhook).

| Variable | In the program |
|---|---|
| `campaign` | the `campaigns` row: version, whether it has a script, a destination and how many questions, `active` |
| `saved` | `campaign_versions` |
| `starting` | `setCampaignActive` has found nothing open and not committed |
| `agent` | `campaigns.voice_provider` |
| `call` | each call: how far its tick is, its row, the versions its parts were read from, whose account placed it, the turn, the transcript, the status the provider reported, what that led to, what was analysed |

The tick reads four times in a READ COMMITTED transaction (`Claim`,
`LoadOpening`, `LoadQuestions`, `PlaceCall`), so `SaveCampaign` may come between
any two.  `RequestTurn`, `ServeTurn` and `RefuseTurn` are Twilio's requests for
the next line; `HangUp`, `ReportEnd` and `IgnoreEnd` the end of the call and its
callback, which may overtake the last turn; `Qualify` reads the transcript as far
as it is stored.  `ReportEnd` takes any terminal status and, from Sarvam, a
carrier's reason to suppress; `Outcome` is what `recordCallResult` makes of it:
suppressed, connected (completed, with a transcript that came or was stored), or
the ladder, which redials or stops.

## The model of lead intake

`LeadIntake` models deliveries of events from HubSpot's private app and from any
other source (`leads/intake.ts`, `campaign-routing.ts`, `hubspot-app-intake.ts`
and the routes that call them).  Each handler runs one READ COMMITTED
transaction over its batch.  `IntakeLedger` is what that promises the senders: it
knows events, results and answers, and neither transactions nor leads.  A delivery
is ingested whole or not at all, an event that has a result keeps it and changes
no lead again, and a delivery is answered once all its events have results.

| Variable | In the program |
|---|---|
| `leads` | committed leads: record id, phone, email, campaign, status, and `barred` (on the list, or attempts spent); a lead is named by the event that inserted it |
| `recorded` | `webhook_events`: the result of each event |
| `handler` | per handler, the delivery, the event it is at, what it read, and the rows and results it has written and not committed |
| `answered` | deliveries answered 2xx (external: the source's view) |
| `active`, `listed`, `live`, `edits` | active campaigns, listed numbers, calls under way; counter for the bound `MaxEdits` |
| `applied`, `faults` | history: how often an event has changed leads; counter for `MaxFaults` |

An event goes through `Claim` (insert on conflict do nothing, which waits for
another transaction that holds the key), `Route` or `ContactGone`, `Find` (the up
to three selects of `findExisting`) and `Write` (the update or insert, the
decision and the status, one step because the row stays locked between them);
then the batch through `Commit` and `Answer`.  `WaitsFor` is the lock graph: the
event's key, the row, and the unique index on the record id.  `Collide` is a
violation of that index, `AbortDeadlock` Postgres's choice of a victim, `Fail` and
`LoseAnswer` a crash and a lost response.  The decision uses the status that
`Find` read, as the code does.  `StartCall` and `EndCall` stand for `CallQueue`.

## The model of access

`Access` models the login with its two rate-limit rules (`api/auth/login`,
`lib/ratelimit.ts`), sessions, assignments, elevations and service tokens
(`auth/*`, `settings/actions.ts`), and a transaction's tenant scope with the
row policies (`db/client.ts`, migration 0002).

| Variable | In the program |
|---|---|
| `status`, `disabling` | `users.status`; `setUserStatus` has revoked the sessions and not committed |
| `assigned`, `elevated` | `user_tenant_assignments`, `access_elevations` in force |
| `session` | `sessions`: status, active tenant; `late` is history: created after a disabling had begun |
| `token` | whether the service token is valid |
| `login`, `hits`, `checks` | how far the login from each address is; `rate_limit_counters` of the current windows; passwords verified in the account's window |
| `uncounted` | history: logins past the account's rule that its present window did not count: let through because the limiter was unavailable, or by the window before and not verified when it ended |
| `request` | the request under way: known, granted, scoped, the rows open to it, and whether something was revoked meanwhile |

A request reads the session (`Authenticate`), the grant (`RequireGrant`) and the
rows (`WithTenant`) in three transactions, and administrators act in between.
`BeginDisable` commits the revocation of the sessions on its own, before
`CommitDisable` commits the status.  A request is marked `overtaken` by a
revocation only if what it rests on is taken: its session, or the grant for its
tenant.  A login passes the rule of its address, the rule of the account, verifies
its password and creates its session in separate steps, beside the login from the
other address; a password is counted when it is verified.  The limiter is one SQL
statement per rule and fails open.  Its windows are fixed and aligned, five of an
address (a minute each) to one of the account.

## Runs

| Run | Question | Answer |
|---|---|---|
| `workers` | Two leads with one number, two ticks at once, a crash, refusals, unheard answers, early and repeated webhooks: do ticks keep out of one another's way? | yes: `ExclusiveClaim`, `AttemptLedger`, `CallingIsInFlight`, `DncIsFinal`, and the table implements `CallLedger` |
| `operators` | Can any order of a crash, refusals, lost webhooks, pauses, suspension, re-ingestion, quarantine, review and rescheduling break the budget an open tick relies on, or part rows from calls? | no: `HeldInBudget`, `RowsMatchCalls` |
| `serial` | With one tick at a time, webhooks after the commit and none lost, do the caps hold and is everyone served? | yes, also across a crash: `WithinCaps`, `NoResultDropped`, `QueuedIsServed`, `CallingEnds` |
| `unrecorded` | Does every placed call have a record? | no (violation) |
| `stranded` | Does the lock always free a lead stuck in `calling`? | no (violation) |
| `overlap` | Is a person on at most one call? | no (violation) |
| `outbox` | Is a result delivered, once as far as the database can know, and never while it is held? | yes: `RecordedOnce`, `SentResultsStand`, `ImplementsDelivery`, `RowsSettle` |
| `followup` | Are promised callbacks kept, closed and not contradicted, and do scoring, routing, gate and window mean what they say? | yes, with the exceptions the properties name: contradictory answers, rows a sweep had chosen, rows an operator moved |
| `access` | What can a revoked principal still see, and how many passwords can be tried? | what an open request had been granted; per window the limit, outages and what the window before left over |
| `integrations` | Do rows and stored secrets agree, and does a refused credential leave service? | yes, but for one secret per overlapping replacement, and for Sheets keys |
| `conversation` | Can the words of a call be read back, and is what somebody answered read? | yes; yes if the provider calls the call completed, and only then |
| `intake` | With overlapping repetitions, collisions, deadlocks and a fault, is what was answered on record exactly once, nothing ingested in part, and every delivery answered? | yes, but for deliveries above the limit: `AnsweredIsApplied`, `DeliveriesSettle`, and `LeadIntake` implements `IntakeLedger` |

The properties, each stated above its definition:

- `ExclusiveClaim` - the row locks keep a lead in one tick's hands.
- `AttemptLedger` - a lead's attempt rows are exactly 1..`call_attempt_count`,
  within the budget, whichever of the many ways to requeue it was taken.
- `HeldInBudget` - the budget check made at the claim is still true at the
  commit, several provider requests later.
- `CallingIsInFlight` - a lead in `calling` has its *latest* attempt in flight,
  although late results of earlier attempts may arrive.
- `RowsMatchCalls` - a row names a call that was really placed to its lead, no
  call is named twice, and the recorded outcome is the provider's.
- `DncIsFinal` - once on the list, no later tick claims or calls the number,
  through any lead.  A tick that had claimed the lead before the entry was
  committed may still dial it: that is what the code does, and the property says
  so.
- `ImplementsLedger` - numbers are handed out in order, outcomes are written
  once, nothing is removed or reopened.
- `WithinCaps`, `NoResultDropped`, `QueuedIsServed`, `CallingEnds` - under the
  conditions of the `serial` run.  `stranded` shows that they are needed.
- `RecordedOnce` - two drains and the operator's replays never deliver twice
  what the database knows was delivered; a lost answer is the only way to a
  duplicate.
- `SentResultsStand` - nothing sent is, or later becomes, held or rejected.
- `RowsSettle` - an owed row is delivered or dead-lettered, unless its call has a
  second analysis that is not committed: such a row is postponed for ever.
- `DecisionsAgree` - the routing decision a result is synced with is the one the
  lead is treated by, although the two are decided by branches in different
  orders, except for the `Contradictory` answers, and for each of those it is not:
  the schema admits them, and somebody announced as suppressed is called back or
  counted as qualified.
- `SureRefusalActsAtOnce`, `HotMeansNeed`, `DeferralOpens` - a sure do-not-call is
  never held; nobody reaches sales without need and a short timeline; a deferred
  lead becomes due at the next opening.  Across a 23-hour day the code's probes,
  24 hours apart, may pass over an opening; there only "inside the window" is
  stated.
- `RowsPerAnswer` - two qualifiers and reviewers leave one callback per trusted
  answer that asks for one.
- `NoFalseMiss`, `ClosedStaysClosed` - the sweep against the tick, the reschedule
  and the operator; the exceptions are the rows a sweep had already chosen and the
  rows an operator moved.
- `CallbacksClose` - every promise is closed, unless the call of a tick overtook
  the reschedule that was waiting for the lead (`Overtaken`): the tick found the
  old time and did not keep the row, the row then says a time before the call, and
  the sweep takes that call for the promised one.  Such a row may stay outstanding
  for ever.
- `NothingNewAfterRevocation`, `DisabledHasOnlyLateSessions`,
  `ChecksWithinLimit` - what revocation means between the three transactions of
  a request; what outlives a disabling; how many passwords two interleaved logins
  verify in one window of the account, across its turn.
- `SecretsAccountedFor`, `RefusedLeavesService` - no row points at a deleted
  secret, and unreferenced secrets are no more than the overlapping
  replacements; a refused credential does not stay in use, whatever late
  verdicts write.
- `EveryQuestionIsReadable`, `AnswersAreRead` - the recorded version, and
  every version the words came from, has a snapshot that asks those questions;
  whoever answered has the conversation read if the provider reports the call
  completed (and no carrier's reason to suppress), and only then: with every other
  status the answers go unread to the retry ladder.
- `AnsweredIsApplied`, `ImplementsIntake`, `DeliveriesSettle` - an answered event
  has its result on record and has changed leads once; nothing of a delivery is
  recorded or applied without the rest, and no result is ever changed; deliveries
  are answered unless two keep deadlocking.

### Bounds

- **Leads, workers.**  Two of each in `workers`: each hazard between ticks is
  between two ticks over one lead, or over two leads that share a number or a
  cap.  `operators` has one lead so that every outside event can be enabled.
- **Calls.**  Two where the safety of concurrent ticks is checked: a call and the
  call that must not be mistaken for it (an overlap, a redial after a crash or an
  unheard answer, the other lead of a batch).  Three in `serial`, one more than its
  two leads need, for the redial after the crash.  When the ids are used up no
  further call is accepted; a refusal is still possible where `refuse` is an
  input, so that attempts go on being counted.
- **`MaxAttempts`** 2, so that a first and a later attempt exist at once; 1 in
  `serial`, where the liveness graph has to stay small and the second lead takes
  the place of the second attempt.  `RowBound` is `MaxAttempts + 1`: a row too many
  would be seen.
- **`MaxCrashes`** 1.  A second crash repeats the first: a crash restores
  everything but `call` and `crashes`.
- **Results, verdicts.**  One of each kind the queue tells apart; the runs that do
  not need a kind leave it out.
- **`outbox`**: one call with two targets (two rows a drain can claim together or
  two drains apart), two drains, two attempts (a retry and an exhaustion), one
  crash.  Two qualifiers always.
- **`followup`**: two calls (the first makes the promise, the second keeps it),
  seven instants (0 to `Horizon` 6) with days of two, of which one is inside the
  window, no grace, one reschedule; callbacks with a time (which may have passed
  when it is read) and without one, trusted at once, a do-not-call, and the fallback
  of a failed analysis, which is held and in whose place the reviewer may put any of
  the four.  Six is the first horizon at which a moved time
  can pass while the reschedule waits and the sweep still comes afterwards.  The pure functions are not bounded by these: they are
  evaluated over all their inputs.
- **`access`**: two tenants, one session, the service token and two addresses that
  log in at the same time (symmetric: nothing tells them apart); limits of 1, so that
  the address's rule stops a second login from one address and the account's the
  login from the other; a limiter that is unavailable once, in a window that began
  with no login under way.  The role is the one whose grants matter: an
  administrator's are unconditional.
- **`integrations`**: two HubSpot portals and a chat channel (the campaign names one
  portal, disabling takes both), three credentials, two administrators.
- **`conversation`**: one call, because calls share nothing but the
  configuration; every terminal status, with and without a reason to suppress; four versions, so that the recorded one, two between the reads
  and a later one can differ; two questions.
- **`intake`**: four events over two contacts in opposite orders through both
  kinds of door, with one number that changes hands; a third delivery above the
  limit; two handlers, one fault, one call and one edit of the surroundings.
- `CHECK_DEADLOCK FALSE` where the system may really stop: all leads closed or
  paused (`CallQueue`), everything settled (`outbox`), the clock at its horizon
  (`followup`), calls and versions used up (`conversation`), every delivery
  answered (`intake`).  `access` and `integrations` check deadlock.

Leads, workers and calls are symmetric in the safety runs with identical phones,
the addresses in `access`; no liveness run uses symmetry.

### Fairness

- `CallQueue`: strong fairness of each worker's `Claims` (the cron sweep and
  every intake request run a tick, so a claim that is possible again and again is
  eventually made, though another tick may hold the row whenever one looks);
  weak fairness of dialling and committing (the process goes on with what it has
  begun; `Crash` is bounded); weak fairness of the end of a call and of the
  delivery of its webhook (the providers' promise; `LoseWebhook` is not an input
  of the liveness runs); weak fairness of time.
- `SyncOutbox`: a drain goes on with what it claimed (weak), and an owed row that
  is claimable again and again is claimed (strong): a drain starts every minute
  and takes the longest-due rows first.  Crashes are bounded.
- `FollowUp`: the tick takes its next step, or the database aborts one of the two
  that wait for each other; the reschedule gets the lead; the sweep chooses and
  writes; time goes on (all weak).  Nothing obliges leads, reviewers and operators.
- `Integrations`: drains start (weak) as long as results arrive, and not all of
  them are lost before their verdict commits (strong).
- `LeadIntake`: a handler that can go on does, and the source repeats what is
  unanswered (weak).  That two deliveries do not deadlock for ever is a premise of
  `DeliveriesSettle`, not assumed of the system.
- `Access` and `Conversation` state no fairness: nothing there is promised to
  happen.

Nothing is assumed of operators, reviewers, callers or the language model.

## Proofs

The theorems hold for every value of the constants that satisfies the named
assumption of the module: any number of leads, workers, calls, drains, targets,
sessions, administrators, versions, and any limits.  Each rests on an inductive
invariant, with one lemma per action or per group of actions that write the same
columns, and one step per conjunct the action can disturb.

**`CallQueueProofs`.**  `Invariance`: `Spec => []IInv`, where `IInv` is `TypeOK`,
`ExclusiveClaim`, `AttemptLedger`, `HeldInBudget`, `CallingIsInFlight` and
`WireHasOutcomes`.  The parts keep one another true.  A commit gives its row the number `count + 1`; that this is the next free
number needs `AttemptLedger`, and that it is within the budget needs
`HeldInBudget`.  `HeldInBudget` survives another worker's commit only because of
`ExclusiveClaim`: the other commit raises the counts of leads that this worker
does not hold.  `CallingIsInFlight` survives a recorded result because an outcome
moves its lead out of `calling`, and a commit because the new row is the latest.
`WireHasOutcomes` says that a webhook on its way carries a terminal status, which
the types of recorded rows need.  `TypeCorrect`, `ClaimsAreExclusive`,
`AttemptsStayInBudget`, `BudgetHeldToCommit` and `CallingHasOpenAttempt` are the
parts.

`QueueImplementsLedger`: the initial tables map to the
empty ledger; a `Commit` maps to one `Append` for all leads it placed a call for
(the numbers are free and within the budget by `IInv`), a recorded outcome maps
to `Close`, everything else leaves the mapped ledger as it is.

`CapsHoldPerTick`: for every `m`, in every behaviour in which at most `m` ticks
are open at once, the rows in flight stay within `m` times the tenant's and each
campaign's cap.  Of a set of leads with its limit (all leads, or a campaign's) the
invariant `Fits` says two things: no tick has taken more of them than the limit,
and the rows in flight together with the leads that open ticks may still call are
within `m` times the limit.  A claim is the step that needs an argument.  Its
headroom counted what is in flight, so that and its own leads are within the limit
once; the other open ticks, at most `m - 1`, hold no more than the limit each
(`CoveredBySmallSets` counts their union by numbering each tick's leads).  A commit
turns held leads into rows, and because of `ExclusiveClaim` they are nobody else's;
everything else only takes rows out of flight or leads out of hands.  The bound is
met: with caps of one and two workers, two calls can be in flight.
`CapsHoldWithoutOverlap` is the case of one: where no two ticks are open at once
(`OneTickAtATime`), `WithinCaps` holds.  That is what the code gives as long as one
process dials; nothing in it bounds the number of open ticks.  Counting needs
finitely many leads, which `ConstantsAssumption` says.

**`CallQueueCalls`.**  `DncListIsFinal`: no step takes a phone off the list or clears
`do_not_call`; a claim requires eligibility, which the list refuses; only a
claimed lead is called.

`RowsNameTheirCalls` (`RowsMatchCalls`): a call is named first
by an open tick and then by the one row that tick commits.  The strengthening is
that a call in a tick's hands is in no other hands and in no row
(`HeldCallsAreNew`), that unused ids belong to nobody and outcomes come with the
end (`CallsInOrder`), and that a row which names a call exists
(`NamedRowsExist`).  `ResultsAreKept` (`NoResultDropped`) assumes
`~EarlyWebhooks` and `"lose" \notin Inputs`; its invariant `ResultsToCome` says
that a call in a tick's hands has not ended, and that an ended call in flight is
on the wire and not yet in `webhook_events`.

**`SyncOutboxProofs`.**  `OInv` is the types, `OneHolder` (the row lock),
`HeldIsOwed`, `StagesAreTrue` (what a drain marked sent has arrived) and
`LandedIs`, which says of every row whether its arrival is counted by a commit or
by the drain that holds it.  A commit moves the count from one to the other; that
no second drain holds it too is `OneHolder`.  From it: `OutboxTypes`,
`DeliveryIsRecordedOnce`, `OnlyApprovedIsSent`, and `OutboxDelivers`, the
refinement of `Delivery` (`Deliver` maps to `Arrive`, `CommitDrain`, enqueueing
and replays to `Move`).

**`IntegrationsProofs`.**  `SecretsStayAccounted` from `SInv`.  What a replacement
needs is that the secret it will delete is referenced by no row but its own
(`OwnSecrets`), which holds because secrets are numbered as they are sealed and
never shared (`SealedSoFar`); the count of orphans then grows only when the row
no longer names what was read, which is when `lost` grows.  `IntegrationsTypes`
adds to `SInv` that an open drain holds a secret that was sealed, or none (`DrainTyped`).

**`ConversationProofs`.**  `CInv`: every version a call can meet lies between the
one it recorded and the present one, and all of these are saved
(`VersionsSaved`, `CallGood`); nothing with version 1 starts, because it has no
destination.  From it `ConversationTypes`, `ConversationIsReadable`, and
`AnswersOfCompletedAreRead` (`AnswersAreRead`).  A completed call whose callback found
no transcript may still be served a turn afterwards, but none that has heard
anything: whoever answers has been asked, and the line with the question was stored
before the callback came (the last conjunct of `CallGood`).

**`AccessProofs`.**  `AInv` is the types, `RequestsChecked` (what a request was
last told is still true, or the request is marked), `LateWhileDisabling` and
`ChecksCounted`: the passwords verified in the window and the logins that are past
the account's rule and have not verified (`Counted`) are together within the hits of
the window and the logins it did not count.  An admission adds one to both sides,
a verification moves a login from one summand to the other, and the turn of the
window puts the logins under way on the right side.  From it `AccessTypes`,
`RevocationHolds`, `DisablingEndsSessions` and `LoginIsLimited`, for any number of
addresses.

**`FollowUpProofs`.**  First the pure functions, over all answers and all
thresholds.  `RoutingMatchesEffect` (`DecisionsAgree`) compares the two cascades
branch by branch (`Decisions`): they agree on an answer exactly if it is not
contradictory.  `RefusalIsNeverHeld` (`SureRefusalActsAtOnce`) assumes that the
review band around a threshold does not reach down to -100, the score of a
rejection; with such a band the gate would hold the refusal.  `HotNeedsNeed`
(`HotMeansNeed`) assumes a hot threshold above 65 (75 is the default): the rubric
gives 65 points without a short timeline, or without a confirmed need.

The calling window.  `NextOpeningIsFirst` proves `OpensAt` for every instant, every
length of the day (so for minutes as for hours), every window, every set of
weekdays and every change of the clocks, under one hypothesis, `EdgesAreShown`: the
clocks are not set forward or back over the hour the window opens, nor back over the
hour it closes.  Without it the wall-clock time the code converts does not exist or
exists twice.  Such a time is found by the two corrections of the guess
(`WallToUtc`, `OpeningOf`); a closing that was reached stays reached, so a window that
has opened and is open later was open throughout (`NotReopened`); and an instant
inside the window before the chosen one would lie on a day that some probe has looked
at (`ProbedDay`), whose opening the search would have preferred.  The last step fails
across a 23-hour day, which probes 24 hours apart can step over (`NoShortDay`).
`OpeningIsFound` is the other half: with a permitted weekday and no
clock change within eight days the search does not end in the code's "never opens".
`DeferralIsNextOpening` (`DeferralOpens`) follows for the windows of the run, whose
edges are shown.

Then the state machine.  `FInv` is the types and five facts about open
transactions.  `TickTyped`: while the tick is open, the lead is queued and a call
is left, so that the row it commits is a new one within the budget.  `KeptRows`:
the callbacks a tick has kept are as it found them and no reschedule holds them,
and those it has not kept are not yet due at its call, unless an operator touched
them.  `MoveTyped`: the row a reschedule holds is outstanding.  `CallsPast`: no
call starts in the future, so a callback made now has seen none.  `Untouched`,
the row-wise fact behind `NoFalseMiss`: a row that nobody has closed or moved has
seen no call since its time; it survives a committed call because of `KeptRows`,
and that is why the tick's set is part of the invariant.  `FollowUpTypes` and
`MissedWasMissed` follow.
`ClosedForGood` (`ClosedStaysClosed`) is an action property from the same
invariant: the tick and the reschedule write only rows that are outstanding, or
missed in the tick's case, and `KeptRows` and `MoveTyped` say they still are when
the write comes.  `OneRowPerAnswer` (`RowsPerAnswer`): every action that trusts an
answer which wants a callback appends one row for it in the same transaction; the
proof counts both sides, and what keeps the counts equal is that a stored analysis
is trusted once (`Reviewable`).
`OnlyOvertakenIsPassedOver` is the part of `CallbacksClose` that needs no fairness:
the rows the sweep will not look at because a call has begun since their time are
the overtaken ones and no others.  It is `Untouched` for a row without a mark, and
`OpenRows`: whoever closes a row marks it.

**`LeadIntakeProofs`.**  `AnsweredOnceApplied` (`AnsweredIsApplied`) from `IInv`:
`Tables` and `Transactions` are the types and what each phase may rely on;
`Owned` says that an event's key is claimed by one open transaction at a time and
only while it has no result on record; `Passed` that of a batch every event before
the current one is on record, or will be with this transaction.  A commit records
the results of events nobody else has claimed and that have none, so each event
changes leads once; the delivery is answered when `Passed` covers the whole batch.
A repeated or overlapping delivery either waits at the claim or finds the result.
`Works` needs that a lead which was matched stays a row (nothing deletes leads).
`IntakeAssumption` says that a batch is not empty and that a delivery outside the
private app names a campaign: the routes answer others before any transaction.
`NullAssumption` says that NULL is neither a row nor a result.  `IntakeTypes` is
another consequence.

`IntakeImplementsLedger` (`ImplementsIntake`): a `Commit` maps to `Ingest` of its
delivery and an `Answer` to `Answer`; every other step, a rollback among them, leaves
the tables of the ledger alone.  That the commit gives a result to exactly the pending
events of its delivery is `Passed` in one direction; in the other it is `OfDelivery`
(a transaction claims events of its own delivery) and `Owned` (what it claims has no
result on record).

Only model-checked:

- Liveness (`QueuedIsServed`, `CallingEnds`, `RowsSettle`, `CallbacksClose`,
  `RefusedLeavesService`, `DeliveriesSettle`), which like `ENABLED` is outside what
  the installed provers do, as are induction over data and `RECURSIVE` operators,
  which no module here uses.

Neither proved nor checked, because they do not hold in general: `WithinCaps` where
ticks overlap (the multiple in `CapsHoldPerTick` does), and `OpensAt` where the
clocks change over the edge of a window; a lead may, for instance, be deferred to a
window of one hour that the change leaves out that day.

## Where the code and its comments part

`PROJECT.json` lists 29 disagreements met while modelling, each with its lines and
the comment it contradicts.  Three are shown by a violation run:

1. `unrecorded` - `worker.ts` 16-19 promises a durable record of every attempted
   call.  The row is in the transaction that spans the request; a crash rolls it
   back, and the next tick dials the lead again.
2. `stranded` - a status webhook that arrives before the tick commits is answered
   202 and forgotten.  The attempt stays in flight, counts against the cap, and
   `claimLeads` returns on an exhausted cap before it reaches the reclaim.
3. `overlap` - the five-minute lock is not renewed while a call is live.

The others are in definitions that do what the code does, and in the exceptions
the properties have to make.  By component:

- *Queue*: caps are counted without a lock; `releaseClaim` consumes an attempt; a
  connected call analysed as `no_answer` or `busy` takes a branch whose comment
  says the lead was requeued; a refused call completes a callback.
- *Callbacks*: the sweep overwrites rows closed while it waited; a row whose
  reschedule was overtaken by a call is neither kept nor missed; a callback
  without a usable time closes the lead; `rescheduleCallback` requeues closed
  leads.
- *Qualification*: nothing makes the analysis of a call unique; a confidence
  threshold of 0 trusts the fallback of a failed analysis; the intent to be called no
  more, without its flag, is announced and not obeyed, and so is a rejection beside
  a callback.
- *Intake*: the decision is taken on a status read before the update waited; a
  delivery of more than 40 creations is refused every time; an event without an
  id is keyed by its record, so a later enquiry counts as a repetition.
- *Outbox and credentials*: the dedupe key does not stop a second append after a
  crash; a 403 and a refused Sheets key do not disable the integration; an
  overlapping replacement leaves a secret behind; a verdict about an old
  credential is written to the new one; a second integration for one portal
  cannot be stored.
- *Conversation*: answers are left unread, and the caller redialled, when the
  provider reports anything but completed; callbacks of calls placed on a client's own Twilio account are
  verified with the platform's credential; an integration in `error` falls
  through to the platform's account; the script may be of a later version than
  the one recorded; a save between the checklist and the start leaves an active
  campaign without a script.
- *Access*: a login that had read the account before it was disabled creates a
  session afterwards.

## What is not modelled

- Encryption, signature and payload formats, prompts and the text of transcripts:
  pure input and output; a phone, a secret, an answer is a model value.
- Audit log, logging, health, dashboards, exports and the rendering of admin
  pages: nothing in the modelled logic reads what they write.
- Form validation, the consent declaration and the compliance sign-off: no handler
  reads these columns.  That revoking the sign-off pauses the campaign is `Stop`.
- The lookup of a HubSpot portal's tenant, and the rate limits in front of the
  webhook routes: a request they stop changes nothing.
- The time budget of a sweep (`maxDuration` is `Crash` and `CrashDrain`), the
  clean-up of expired rate-limit windows, and polling of a call's status, which
  no code calls.
- In `CallQueue`, the quarantine of a queued lead whose phone cannot be
  decrypted, and the order in which candidates are claimed.

## Plan

1. The composition of `CallQueue` and `LeadIntake` over the lead row, in place of
   the free actions each now has for the other, and with it the reading and the
   writing half of `ingestLead` beside an open tick.
2. The quarantine branch of the claim, for leads whose stored phone cannot be
   decrypted.
3. An abstract specification of what `FollowUp` promises the person called (a
   promise is open, then kept, missed or withdrawn), which `RowsPerAnswer`,
   `NoFalseMiss` and `ClosedStaysClosed` together are close to.
