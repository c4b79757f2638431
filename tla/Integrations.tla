---------------------------- MODULE Integrations ----------------------------
(***************************************************************************)
(* The credentials of one client: adding, replacing and testing them       *)
(* (clients/actions.ts addIntegration, integrations/actions.ts) beside the *)
(* drains that send results with them and take a refused one out of        *)
(* service (sync-worker.ts loadCredential, disableIntegration).            *)
(*                                                                         *)
(* Replacing reads the old reference in one transaction and swaps it in a  *)
(* second; tests and drains ask the far end between the read of the        *)
(* credential and the write of the verdict.  Integrations are numbered in  *)
(* the order they are added, credentials in the order they are sealed.     *)
(***************************************************************************)
EXTENDS Integers, FiniteSets, Sequences

CONSTANTS
    Type,         \* Type[i]: the type of the i-th integration added
    Crm,          \* campaigns.hubspot_integration_id
    MaxSecrets,   \* bound: credentials ever sealed
    Admins

Integration == DOMAIN Type
Targets == {Type[i] : i \in Integration}
Secrets == 1..MaxSecrets

ASSUME IntegrationsAssumption ==
    /\ MaxSecrets \in Nat /\ Crm \in Nat
    /\ Type \in Seq({"hubspot", "google_sheets", "notification"})

VARIABLES
    row,        \* row[i]: an integrations row, absent until added
    stored,     \* the secrets rows
    sealed,     \* how many credentials were sealed so far
    accepted,   \* credentials the far end still accepts
    admin,      \* admin[a]: the replacement or test an administrator has under way
    drain,      \* drain[t]: the credential of the drain under way for a target
    lost        \* replacements whose reference had been replaced meanwhile

vars == <<row, stored, sealed, accepted, admin, drain, lost>>

Absent == [status |-> "absent", secret |-> 0]
NoJob == [kind |-> "idle", row |-> 0, secret |-> 0, verdict |-> "none"]

Verdict == {"none", "ok", "refused"}

TypeOK ==
    /\ row \in [Integration -> [status : {"absent", "active", "error"}, secret : 0..MaxSecrets]]
    /\ stored \subseteq Secrets /\ accepted \subseteq Secrets
    /\ sealed \in 0..MaxSecrets /\ lost \in 0..MaxSecrets
    /\ admin \in [Admins -> [kind : {"idle", "replace", "test"}, row : {0} \cup Integration,
                             secret : 0..MaxSecrets, verdict : Verdict]]
    /\ drain \in [Targets -> 0..MaxSecrets]

Init ==
    /\ row = [i \in Integration |-> Absent]
    /\ stored = {} /\ accepted = {} /\ sealed = 0 /\ lost = 0
    /\ admin = [a \in Admins |-> NoJob] /\ drain = [t \in Targets |-> 0]

-----------------------------------------------------------------------------
(* Administrators                                                          *)

Present(i) == row[i].status # "absent"

\* A credential of the right shape, sealed and stored with its row.
AddIntegration(i) ==
    /\ ~Present(i) /\ \A j \in 1..(i - 1) : Present(j)
    /\ sealed < MaxSecrets /\ sealed' = sealed + 1
    /\ stored' = stored \cup {sealed'} /\ accepted' = accepted \cup {sealed'}
    /\ row' = [row EXCEPT ![i] = [status |-> "active", secret |-> sealed']]
    /\ UNCHANGED <<admin, drain, lost>>

\* The first transaction of replaceIntegrationCredential reads credential_ref.
BeginReplace(a, i) ==
    /\ admin[a].kind = "idle" /\ Present(i)
    /\ admin' = [admin EXCEPT ![a] = [NoJob EXCEPT !.kind = "replace", !.row = i, !.secret = row[i].secret]]
    /\ UNCHANGED <<row, stored, sealed, accepted, drain, lost>>

\* Mutation: the replaced credential is kept.
KeptSecrets(previous, new) == stored \cup {new}

\* Repoint first, then drop the credential that was read before.
SwappedSecrets(previous, new) == (stored \cup {new}) \ {previous}

CommitReplace(a) ==
    /\ admin[a].kind = "replace"
    /\ sealed < MaxSecrets /\ sealed' = sealed + 1 /\ accepted' = accepted \cup {sealed'}
    /\ stored' = SwappedSecrets(admin[a].secret, sealed')
    /\ row' = [row EXCEPT ![admin[a].row] = [status |-> "active", secret |-> sealed']]
    /\ lost' = IF row[admin[a].row].secret = admin[a].secret THEN lost ELSE lost + 1
    /\ admin' = [admin EXCEPT ![a] = NoJob]
    /\ UNCHANGED drain

\* The new credential is malformed, or permission was withdrawn meanwhile.
RefuseReplace(a) ==
    /\ admin[a].kind = "replace" /\ admin' = [admin EXCEPT ![a] = NoJob]
    /\ UNCHANGED <<row, stored, sealed, accepted, drain, lost>>

\* A test reads the credential of a row of any status.
BeginTest(a, i) ==
    /\ admin[a].kind = "idle" /\ Present(i)
    /\ admin' = [admin EXCEPT ![a] = [NoJob EXCEPT !.kind = "test", !.row = i, !.secret = row[i].secret]]
    /\ UNCHANGED <<row, stored, sealed, accepted, drain, lost>>

\* What the far end says of a credential.
SaidOf(secret) == IF secret \in accepted THEN "ok" ELSE "refused"

\* A request that fails on its way counts as a refusal.
AnswerTest(a, verdict) ==
    /\ admin[a].kind = "test" /\ admin[a].verdict = "none"
    /\ verdict \in {SaidOf(admin[a].secret), "refused"}
    /\ admin' = [admin EXCEPT ![a].verdict = verdict]
    /\ UNCHANGED <<row, stored, sealed, accepted, drain, lost>>

\* Mutation: the verdict itself is written.
TestedByName(verdict) == IF verdict = "ok" THEN "active" ELSE verdict

\* Whatever went wrong is an error; a pass puts the row back into service.
Tested(verdict) == IF verdict = "ok" THEN "active" ELSE "error"

EndTest(a) ==
    /\ admin[a].verdict # "none"
    /\ row' = [row EXCEPT ![admin[a].row].status = Tested(admin[a].verdict)]
    /\ admin' = [admin EXCEPT ![a] = NoJob]
    /\ UNCHANGED <<stored, sealed, accepted, drain, lost>>

\* Somebody revokes a credential at the far end.
Revoke(s) ==
    /\ s \in accepted /\ accepted' = accepted \ {s}
    /\ UNCHANGED <<row, stored, sealed, admin, drain, lost>>

-----------------------------------------------------------------------------
(* Drains                                                                  *)

\* The rows a result for target t may be sent with: active ones of its type,
\* for HubSpot the one its campaign names.
Serving(t) == {i \in Integration : Type[i] = t /\ row[i].status = "active" /\ (t = "hubspot" => i = Crm)}

Oldest(S) == CHOOSE i \in S : \A j \in S : i <= j

BeginDrain(t) ==
    /\ drain[t] = 0 /\ Serving(t) # {}
    /\ drain' = [drain EXCEPT ![t] = row[Oldest(Serving(t))].secret]
    /\ UNCHANGED <<row, stored, sealed, accepted, admin, lost>>

\* Mutation: whatever is not the sheet counts as the CRM.
DisabledAsCrm(t) ==
    {i \in Integration : Type[i] = (IF t = "google_sheets" THEN t ELSE "hubspot") /\ row[i].status = "active"}

\* Every active row of the type, whichever credential was refused.
Disabled(t) == {i \in Integration : Type[i] = t /\ row[i].status = "active"}

\* HubSpot answers a refused credential with 401, the chat client translates
\* its own answer to one.  Google refuses the key itself when it is exchanged
\* for a token, with another status.
RefusedAs401(t) == t \in {"hubspot", "notification"}

\* A refusal is for good, so it may as well be asked for when it is written.
EndDrain(t) ==
    /\ drain[t] # 0
    /\ row' = [i \in Integration |->
                  IF SaidOf(drain[t]) = "refused" /\ RefusedAs401(t) /\ i \in Disabled(t)
                  THEN [row[i] EXCEPT !.status = "error"] ELSE row[i]]
    /\ drain' = [drain EXCEPT ![t] = 0]
    /\ UNCHANGED <<stored, sealed, accepted, admin, lost>>

\* The far end cannot be reached, or the process dies and the verdict is rolled
\* back with its transaction.
LoseDrain(t) ==
    /\ drain[t] # 0
    /\ drain' = [drain EXCEPT ![t] = 0]
    /\ UNCHANGED <<row, stored, sealed, accepted, admin, lost>>

-----------------------------------------------------------------------------

Administer(a) ==
    \/ \E i \in Integration : BeginReplace(a, i) \/ BeginTest(a, i)
    \/ \E verdict \in Verdict : AnswerTest(a, verdict)
    \/ CommitReplace(a) \/ RefuseReplace(a) \/ EndTest(a)

Drains(t) == BeginDrain(t) \/ EndDrain(t) \/ LoseDrain(t)

Next ==
    \/ \E i \in Integration : AddIntegration(i)
    \/ \E s \in Secrets : Revoke(s)
    \/ \E a \in Admins : Administer(a)
    \/ \E t \in Targets : Drains(t)

Spec == Init /\ [][Next]_vars

\* Results keep arriving for every target, so drains keep running; not all of
\* them are lost before their verdict is committed.
Fairness ==
    \A t \in Targets : WF_vars(BeginDrain(t)) /\ SF_vars(EndDrain(t))

FairSpec == Spec /\ Fairness

-----------------------------------------------------------------------------
(* Properties                                                              *)

\* No row ever points at a deleted secret, and "the old secret is deleted once
\* nothing references it" but for the replacements that overlapped another one
\* of the same row: each of those leaves at most one credential behind.
SecretsAccountedFor ==
    LET referenced == {row[i].secret : i \in {j \in Integration : Present(j)}} IN
    /\ referenced \subseteq stored
    /\ Cardinality(stored \ referenced) <= lost

\* A credential the far end refuses does not stay in use: whatever tests and
\* replacements run meanwhile, and with verdicts that arrive late, the row the
\* drains of a target send with is taken out of service or gets another
\* credential - unless the refusal does not reach the drain as a 401.
RefusedLeavesService ==
    \A t \in {u \in Targets : RefusedAs401(u)} :
        []<>(Serving(t) = {} \/ row[Oldest(Serving(t))].secret \in accepted)

=============================================================================
