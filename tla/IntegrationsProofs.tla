-------------------------- MODULE IntegrationsProofs --------------------------
(***************************************************************************)
(* Credentials for every number of integrations, administrators and        *)
(* credentials.  A secret belongs to one row for ever: what the proof      *)
(* needs of a replacement under way is that nobody else's row can have     *)
(* come to use the secret it is going to drop.                             *)
(***************************************************************************)
EXTENDS Integrations, FiniteSetTheorems, WellFoundedInduction, TLAPS

\* The type invariant but for the drains, whose credential is only ever read.
Typed ==
    /\ row \in [Integration -> [status : {"absent", "active", "error"}, secret : 0..MaxSecrets]]
    /\ stored \subseteq Secrets /\ accepted \subseteq Secrets
    /\ sealed \in 0..MaxSecrets /\ lost \in 0..MaxSecrets
    /\ admin \in [Admins -> [kind : {"idle", "replace", "test"}, row : {0} \cup Integration,
                             secret : 0..MaxSecrets, verdict : Verdict]]

Referenced == {row[i].secret : i \in {j \in Integration : Present(j)}}
Orphans == stored \ Referenced

\* Secrets are numbered as they are sealed.
SealedSoFar ==
    /\ stored \subseteq 1..sealed /\ lost <= sealed
    /\ \A i \in Integration : row[i].secret <= sealed /\ (Present(i) <=> row[i].secret > 0)
    /\ \A a \in Admins : admin[a].secret <= sealed

\* No two rows share a secret, and no row uses the one another row is to drop.
OwnSecrets ==
    /\ \A i, j \in Integration : Present(i) /\ Present(j) /\ row[i].secret = row[j].secret => i = j
    /\ \A a \in Admins : admin[a].kind = "replace" =>
          /\ admin[a].row \in Integration /\ admin[a].secret > 0
          /\ \A j \in Integration : row[j].secret = admin[a].secret => j = admin[a].row

\* An administrator who has an answer is testing a row that exists.
TestsName == \A a \in Admins : admin[a].kind # "idle" \/ admin[a].verdict # "none" =>
                admin[a].row \in Integration /\ Present(admin[a].row)

Accounted == Referenced \subseteq stored /\ Cardinality(Orphans) <= lost

SInv == Typed /\ SealedSoFar /\ OwnSecrets /\ TestsName /\ Accounted

LEMMA SInvImplies == SInv => SecretsAccountedFor
BY DEF SInv, Accounted, Referenced, Orphans, SecretsAccountedFor

LEMMA SealedIsFinite == ASSUME NEW n \in Nat PROVE IsFiniteSet(1..n)
BY FS_Interval

LEMMA SInvInit == Init => SInv
<1> SUFFICES ASSUME Init PROVE SInv
  OBVIOUS
<1>1. /\ \A i \in Integration : row[i] = Absent /\ ~Present(i)
      /\ stored = {} /\ sealed = 0 /\ lost = 0 /\ accepted = {}
      /\ \A a \in Admins : admin[a] = NoJob
  BY DEF Init, Present, Absent
<1>2. Typed
  BY <1>1, IntegrationsAssumption DEF Init, Typed, Absent, NoJob, Verdict
<1>3. SealedSoFar /\ OwnSecrets /\ TestsName
  BY <1>1 DEF SealedSoFar, OwnSecrets, TestsName, Absent, NoJob, Present
<1>4. Referenced = {} /\ Orphans = {}
  BY <1>1 DEF Referenced, Orphans
<1>5. Accounted
  BY <1>1, <1>4, FS_EmptySet DEF Accounted
<1>6. QED
  BY <1>2, <1>3, <1>5 DEF SInv

-----------------------------------------------------------------------------

\* A step that leaves the secrets of rows and the stored secrets alone.
LEMMA SecretsUntouched ==
    ASSUME SInv, Typed', TestsName', UNCHANGED <<stored, sealed, lost>>,
           \A i \in Integration : row'[i].secret = row[i].secret /\ (Present(i)' <=> Present(i)),
           \A a \in Admins :
              \/ admin'[a].kind = admin[a].kind /\ admin'[a].row = admin[a].row /\ admin'[a].secret = admin[a].secret
              \/ admin'[a] = NoJob
              \/ /\ admin'[a].row \in Integration /\ Present(admin'[a].row)
                 /\ admin'[a].secret = row[admin'[a].row].secret
    PROVE  SInv'
<1>1. \A i \in Integration : row[i].secret \in Nat
  BY IntegrationsAssumption DEF SInv, Typed
<1>2. SealedSoFar'
  BY <1>1 DEF SInv, SealedSoFar, NoJob, Typed
<1>3. \A i, j \in Integration : Present(i)' /\ Present(j)' /\ row'[i].secret = row'[j].secret => i = j
  BY DEF SInv, OwnSecrets
<1>4. ASSUME NEW a \in Admins, admin'[a].kind = "replace"
      PROVE  /\ admin'[a].row \in Integration /\ admin'[a].secret > 0
             /\ \A j \in Integration : row'[j].secret = admin'[a].secret => j = admin'[a].row
  <2>1. CASE admin'[a].kind = admin[a].kind /\ admin'[a].row = admin[a].row /\ admin'[a].secret = admin[a].secret
    BY <1>4, <2>1 DEF SInv, OwnSecrets
  <2>2. CASE /\ admin'[a].row \in Integration /\ Present(admin'[a].row)
             /\ admin'[a].secret = row[admin'[a].row].secret
    BY <1>1, <2>2 DEF SInv, OwnSecrets, SealedSoFar
  <2>3. admin'[a] # NoJob
    BY <1>4 DEF NoJob
  <2>4. QED
    BY <2>1, <2>2, <2>3
<1>5. OwnSecrets'
  BY <1>3, <1>4 DEF OwnSecrets
<1>6. Referenced' = Referenced
  BY DEF Referenced
<1>7. Accounted'
  BY <1>6 DEF SInv, Accounted, Orphans
<1>8. QED
  BY <1>2, <1>5, <1>7 DEF SInv

LEMMA AddStep ==
    ASSUME SInv, NEW i \in Integration, AddIntegration(i)
    PROVE  SInv'
<1> DEFINE new == sealed + 1
<1>1. /\ sealed \in Nat /\ sealed < MaxSecrets /\ new \in 1..MaxSecrets /\ sealed' = new
      /\ stored' = stored \cup {new} /\ accepted' = accepted \cup {new}
      /\ row' = [row EXCEPT ![i] = [status |-> "active", secret |-> new]]
      /\ UNCHANGED <<admin, drain, lost>> /\ ~Present(i)
  BY IntegrationsAssumption DEF AddIntegration, SInv, Typed
<1>2. /\ row \in [Integration -> [status : {"absent", "active", "error"}, secret : 0..MaxSecrets]]
      /\ \A j \in Integration : row[j].secret \in Nat /\ row[j].secret <= sealed
  BY IntegrationsAssumption DEF SInv, Typed, SealedSoFar
<1>3. \A j \in Integration : row'[j] = IF j = i THEN [status |-> "active", secret |-> new] ELSE row[j]
  BY <1>1, <1>2
<1>4. Typed'
  <2>1. [status |-> "active", secret |-> new] \in [status : {"absent", "active", "error"}, secret : 0..MaxSecrets]
    BY <1>1, IntegrationsAssumption
  <2>2. row' \in [Integration -> [status : {"absent", "active", "error"}, secret : 0..MaxSecrets]]
    BY <1>1, <1>2, <2>1
  <2>3. /\ stored' \subseteq Secrets /\ accepted' \subseteq Secrets /\ sealed' \in 0..MaxSecrets
    BY <1>1, IntegrationsAssumption DEF SInv, Typed, Secrets
  <2>4. QED
    BY <1>1, <2>2, <2>3 DEF SInv, Typed
<1> HIDE DEF new
<1>5. \A j \in Integration : Present(j)' <=> (j = i \/ Present(j))
  BY <1>3 DEF Present
<1>6. new = sealed + 1 /\ new > sealed /\ new \in Nat /\ new > 0
  BY <1>1 DEF new
<1>7. \A a \in Admins : admin[a].secret \in Nat /\ admin[a].secret <= sealed
  BY IntegrationsAssumption DEF SInv, Typed, SealedSoFar
<1>8. SealedSoFar'
  <2>1. lost \in Nat /\ lost <= sealed /\ stored \subseteq 1..sealed
    BY IntegrationsAssumption DEF SInv, SealedSoFar, Typed
  <2>2. \A s \in stored' : s \in 1..new
    BY <1>1, <1>6, <2>1
  <2>3. stored' \subseteq 1..new /\ lost' <= new
    BY <1>1, <1>6, <2>1, <2>2
  <2>4. \A j \in Integration : row'[j].secret <= new /\ (Present(j)' <=> row'[j].secret > 0)
    <3> SUFFICES ASSUME NEW j \in Integration
                 PROVE  row'[j].secret <= new /\ (Present(j)' <=> row'[j].secret > 0)
      OBVIOUS
    <3>1. CASE j = i
      BY <1>3, <1>5, <1>6, <3>1
    <3>2. CASE j # i
      BY <1>1, <1>2, <1>3, <1>5, <1>6, <3>2 DEF SInv, SealedSoFar
    <3>3. QED
      BY <3>1, <3>2
  <2>5. QED
    BY <1>1, <1>6, <1>7, <2>3, <2>4 DEF SealedSoFar
<1>9. OwnSecrets'
  <2>1. ASSUME NEW j \in Integration, NEW k \in Integration, Present(j)', Present(k)', row'[j].secret = row'[k].secret
        PROVE  j = k
    <3>1. CASE j = i \/ k = i
      BY <1>1, <1>2, <1>3, <1>6, <2>1, <3>1
    <3>2. CASE j # i /\ k # i
      BY <1>3, <1>5, <2>1, <3>2 DEF SInv, OwnSecrets
    <3>3. QED
      BY <3>1, <3>2
  <2>2. ASSUME NEW a \in Admins, admin'[a].kind = "replace"
        PROVE  /\ admin'[a].row \in Integration /\ admin'[a].secret > 0
               /\ \A j \in Integration : row'[j].secret = admin'[a].secret => j = admin'[a].row
    <3>1. /\ admin[a].row \in Integration /\ admin[a].secret > 0 /\ admin[a].kind = "replace"
          /\ \A j \in Integration : row[j].secret = admin[a].secret => j = admin[a].row
      BY <1>1, <2>2 DEF SInv, OwnSecrets
    <3>2. admin[a].secret # new
      BY <1>1, <1>6, <1>7
    <3>3. \A j \in Integration : row'[j].secret = admin[a].secret => j = admin[a].row
      BY <1>3, <3>1, <3>2
    <3>4. QED
      BY <1>1, <3>1, <3>3
  <2>3. QED
    BY <2>1, <2>2 DEF OwnSecrets
<1>10. TestsName'
  BY <1>1, <1>5 DEF SInv, TestsName
<1>11. Referenced' = Referenced \cup {new}
  BY <1>1, <1>3, <1>5, <1>6 DEF Referenced
<1>12. Accounted'
  <2>1. new \notin stored
    BY <1>1, <1>6 DEF SInv, SealedSoFar
  <2>2. Orphans' = Orphans
    BY <1>1, <1>11, <2>1 DEF Orphans
  <2>3. QED
    BY <1>1, <1>11, <2>2 DEF SInv, Accounted
<1>13. QED
  BY <1>4, <1>8, <1>9, <1>10, <1>12 DEF SInv

\* The swap: what was read is dropped, what is referenced now is orphaned if
\* it is another one.
LEMMA SwapStep ==
    ASSUME SInv, NEW a \in Admins, CommitReplace(a)
    PROVE  SInv'
<1> DEFINE new == sealed + 1
           i == admin[a].row
           old == admin[a].secret
           cur == row[i].secret
<1>1. /\ admin[a].kind = "replace" /\ sealed < MaxSecrets /\ sealed' = new
      /\ accepted' = accepted \cup {new} /\ stored' = (stored \cup {new}) \ {old}
      /\ row' = [row EXCEPT ![i] = [status |-> "active", secret |-> new]]
      /\ lost' = IF cur = old THEN lost ELSE lost + 1
      /\ admin' = [admin EXCEPT ![a] = NoJob] /\ UNCHANGED drain
  BY DEF CommitReplace, SwappedSecrets
<1>2. /\ sealed \in Nat /\ new \in 1..MaxSecrets /\ new \in Nat /\ new > sealed /\ lost \in Nat /\ lost <= sealed
      /\ row \in [Integration -> [status : {"absent", "active", "error"}, secret : 0..MaxSecrets]]
      /\ \A j \in Integration : row[j].secret \in Nat /\ row[j].secret <= sealed
      /\ admin \in [Admins -> [kind : {"idle", "replace", "test"}, row : {0} \cup Integration,
                               secret : 0..MaxSecrets, verdict : Verdict]]
      /\ \A b \in Admins : admin[b].secret \in Nat /\ admin[b].secret <= sealed
      /\ stored \subseteq 1..sealed /\ accepted \subseteq Secrets
  BY <1>1, IntegrationsAssumption DEF SInv, Typed, SealedSoFar
<1>3. /\ i \in Integration /\ old > 0 /\ old \in Nat /\ old <= sealed /\ Present(i)
      /\ \A j \in Integration : row[j].secret = old => j = i
  BY <1>1, <1>2 DEF SInv, OwnSecrets, TestsName
<1> HIDE DEF new, i, old
<1>4. \A j \in Integration : row'[j] = IF j = i THEN [status |-> "active", secret |-> new] ELSE row[j]
  BY <1>1, <1>2, <1>3
<1>5. \A j \in Integration : Present(j)' <=> Present(j)
  BY <1>3, <1>4 DEF Present
<1>6. \A b \in Admins : admin'[b] = IF b = a THEN NoJob ELSE admin[b]
  BY <1>1, <1>2
<1>7. lost' \in Nat /\ lost' <= new /\ new <= MaxSecrets
  BY <1>1, <1>2 DEF new
<1>8. Typed'
  <2>0. [status |-> "active", secret |-> new] \in [status : {"absent", "active", "error"}, secret : 0..MaxSecrets]
    BY <1>2, IntegrationsAssumption
  <2>1. row' \in [Integration -> [status : {"absent", "active", "error"}, secret : 0..MaxSecrets]]
    BY <1>1, <1>2, <2>0
  <2>2. NoJob \in [kind : {"idle", "replace", "test"}, row : {0} \cup Integration,
                   secret : 0..MaxSecrets, verdict : Verdict]
    BY IntegrationsAssumption DEF NoJob, Verdict
  <2>3. admin' \in [Admins -> [kind : {"idle", "replace", "test"}, row : {0} \cup Integration,
                               secret : 0..MaxSecrets, verdict : Verdict]]
    BY <1>1, <1>2, <2>2
  <2>4. stored' \subseteq Secrets /\ accepted' \subseteq Secrets /\ sealed' \in 0..MaxSecrets
    <3>1. stored \subseteq Secrets /\ new \in Secrets
      BY <1>2 DEF SInv, Typed, Secrets
    <3>2. sealed' \in 0..MaxSecrets
      BY <1>1, <1>2, <1>7, IntegrationsAssumption
    <3>3. QED
      BY <1>1, <1>2, <3>1, <3>2
  <2>5. lost' \in 0..MaxSecrets
    BY <1>2, <1>7, IntegrationsAssumption
  <2>6. QED
    BY <1>1, <2>1, <2>3, <2>4, <2>5 DEF SInv, Typed
<1>9. SealedSoFar'
  <2>1. stored' \subseteq 1..new
    <3> SUFFICES ASSUME NEW s \in stored' PROVE s \in 1..new
      OBVIOUS
    <3>1. s = new \/ s \in 1..sealed
      BY <1>1, <1>2
    <3>2. QED
      BY <1>2, <3>1
  <2>2. ASSUME NEW j \in Integration
        PROVE  row'[j].secret <= new /\ (Present(j)' <=> row'[j].secret > 0)
    <3>1. CASE j = i
      BY <1>2, <1>3, <1>4, <1>5, <3>1
    <3>2. CASE j # i
      BY <1>2, <1>4, <1>5, <3>2 DEF SInv, SealedSoFar
    <3>3. QED
      BY <3>1, <3>2
  <2>3. \A b \in Admins : admin'[b].secret <= new
    BY <1>2, <1>6 DEF NoJob
  <2>4. QED
    BY <1>1, <1>7, <2>1, <2>2, <2>3 DEF SealedSoFar
<1>10. OwnSecrets'
  <2>1. \A j, k \in Integration : Present(j)' /\ Present(k)' /\ row'[j].secret = row'[k].secret => j = k
    BY <1>2, <1>4, <1>5 DEF SInv, OwnSecrets
  <2>2. ASSUME NEW b \in Admins, admin'[b].kind = "replace"
        PROVE  /\ admin'[b].row \in Integration /\ admin'[b].secret > 0
               /\ \A j \in Integration : row'[j].secret = admin'[b].secret => j = admin'[b].row
    <3>1. b # a /\ admin'[b] = admin[b]
      BY <1>6, <2>2 DEF NoJob
    <3>2. QED
      BY <1>2, <1>4, <2>2, <3>1 DEF SInv, OwnSecrets
  <2>3. QED
    BY <2>1, <2>2 DEF OwnSecrets
<1>11. TestsName'
  BY <1>5, <1>6 DEF SInv, TestsName, NoJob
<1>12. new \in Referenced' /\ \A s \in Referenced' : s = new \/ (s \in Referenced /\ s # cur)
  <2>1. new \in Referenced'
    BY <1>3, <1>4, <1>5 DEF Referenced
  <2>2. ASSUME NEW s \in Referenced', s # new PROVE s \in Referenced /\ s # cur
    <3>1. PICK j \in Integration : Present(j)' /\ s = row'[j].secret
      BY DEF Referenced
    <3>2. j # i /\ s = row[j].secret /\ Present(j)
      BY <1>4, <1>5, <2>2, <3>1
    <3>3. QED
      BY <1>3, <3>2 DEF SInv, OwnSecrets, Referenced
  <2>3. QED
    BY <2>1, <2>2
<1>13. \A s \in Referenced : s = cur \/ s \in Referenced'
  <2> SUFFICES ASSUME NEW s \in Referenced, s # cur PROVE s \in Referenced'
    OBVIOUS
  <2>1. PICK j \in Integration : Present(j) /\ s = row[j].secret
    BY DEF Referenced
  <2>2. j # i
    BY <2>1
  <2>3. QED
    BY <1>4, <1>5, <2>1, <2>2 DEF Referenced
<1>14. Referenced \subseteq stored /\ Cardinality(Orphans) <= lost /\ new \notin stored
  BY <1>2 DEF SInv, Accounted
<1>15. old \notin Referenced'
  <2>1. old # new
    BY <1>2, <1>3
  <2>2. old \in Referenced => old = cur
    BY <1>3 DEF Referenced
  <2>3. QED
    BY <1>12, <2>1, <2>2
<1>16. Referenced' \subseteq stored'
  BY <1>1, <1>12, <1>14, <1>15
<1>17. IsFiniteSet(Orphans) /\ Cardinality(Orphans) \in Nat
  <2>1. Orphans \subseteq 1..sealed
    BY <1>2 DEF Orphans
  <2>2. IsFiniteSet(1..sealed)
    BY <1>2, SealedIsFinite
  <2>3. QED
    BY <2>1, <2>2, FS_Subset, FS_CardinalityType
<1>18. Cardinality(Orphans') <= lost'
  <2>1. CASE cur = old
    <3>1. Orphans' \subseteq Orphans
      BY <1>1, <1>12, <1>13, <2>1 DEF Orphans
    <3>2. Cardinality(Orphans') <= Cardinality(Orphans) /\ Cardinality(Orphans') \in Nat
      BY <1>17, <3>1, FS_Subset, FS_CardinalityType
    <3>3. QED
      BY <1>1, <1>2, <1>14, <1>17, <2>1, <3>2
  <2>2. CASE cur # old
    <3>1. Orphans' \subseteq Orphans \cup {cur}
      BY <1>1, <1>12, <1>13 DEF Orphans
    <3>2. IsFiniteSet(Orphans \cup {cur}) /\ Cardinality(Orphans \cup {cur}) <= Cardinality(Orphans) + 1
      <4>1. /\ IsFiniteSet(Orphans \cup {cur})
            /\ Cardinality(Orphans \cup {cur}) = IF cur \in Orphans THEN Cardinality(Orphans) ELSE Cardinality(Orphans) + 1
        BY <1>17, FS_AddElement
      <4>2. QED
        BY <1>17, <4>1
    <3>3. /\ Cardinality(Orphans') <= Cardinality(Orphans \cup {cur}) /\ Cardinality(Orphans') \in Nat
          /\ Cardinality(Orphans \cup {cur}) \in Nat
      BY <3>1, <3>2, FS_Subset, FS_CardinalityType
    <3>4. QED
      BY <1>1, <1>2, <1>14, <1>17, <2>2, <3>2, <3>3
  <2>3. QED
    BY <2>1, <2>2
<1>19. Accounted'
  BY <1>16, <1>18 DEF Accounted
<1>20. QED
  BY <1>8, <1>9, <1>10, <1>11, <1>19 DEF SInv

-----------------------------------------------------------------------------

LEMMA JobStep ==
    ASSUME SInv, NEW a \in Admins,
           \/ \E i \in Integration : BeginReplace(a, i) \/ BeginTest(a, i)
           \/ \E verdict \in Verdict : AnswerTest(a, verdict)
           \/ RefuseReplace(a) \/ EndTest(a)
    PROVE  SInv'
<1> DEFINE Job == [kind : {"idle", "replace", "test"}, row : {0} \cup Integration,
                   secret : 0..MaxSecrets, verdict : Verdict]
<1>1. /\ admin \in [Admins -> Job] /\ admin[a] \in Job /\ NoJob \in Job
      /\ row \in [Integration -> [status : {"absent", "active", "error"}, secret : 0..MaxSecrets]]
  BY IntegrationsAssumption DEF SInv, Typed, NoJob, Verdict
<1>2. ASSUME NEW i \in Integration, BeginReplace(a, i) \/ BeginTest(a, i)
      PROVE  SInv'
  <2>1. PICK kind \in {"replace", "test"} :
           admin' = [admin EXCEPT ![a] = [NoJob EXCEPT !.kind = kind, !.row = i, !.secret = row[i].secret]]
    BY <1>2 DEF BeginReplace, BeginTest
  <2> DEFINE job == [NoJob EXCEPT !.kind = kind, !.row = i, !.secret = row[i].secret]
  <2>2. /\ job \in Job /\ job.kind = kind /\ job.row = i /\ job.secret = row[i].secret
    BY <1>1 DEF NoJob
  <2>3. Present(i) /\ UNCHANGED <<row, stored, sealed, accepted, drain, lost>>
    BY <1>2 DEF BeginReplace, BeginTest
  <2> HIDE DEF job
  <2>4. admin' = [admin EXCEPT ![a] = job]
    BY <2>1 DEF job
  <2>5. admin' \in [Admins -> Job] /\ \A b \in Admins : admin'[b] = IF b = a THEN job ELSE admin[b]
    BY <1>1, <2>2, <2>4
  <2>6. Typed'
    BY <2>3, <2>5 DEF SInv, Typed
  <2>7. \A j \in Integration : Present(j)' <=> Present(j)
    BY <2>3 DEF Present
  <2>8. TestsName'
    BY <2>2, <2>3, <2>5, <2>7 DEF SInv, TestsName
  <2>9. QED
    BY <2>2, <2>3, <2>5, <2>6, <2>7, <2>8, SecretsUntouched
<1>3. ASSUME NEW verdict \in Verdict, AnswerTest(a, verdict)
      PROVE  SInv'
  <2> DEFINE job == [admin[a] EXCEPT !.verdict = verdict]
  <2>1. /\ admin' = [admin EXCEPT ![a] = job] /\ admin[a].kind = "test"
        /\ UNCHANGED <<row, stored, sealed, accepted, drain, lost>>
    BY <1>3 DEF AnswerTest
  <2>2. job \in Job /\ job.kind = admin[a].kind /\ job.row = admin[a].row /\ job.secret = admin[a].secret
    BY <1>1
  <2> HIDE DEF job
  <2>3. admin' \in [Admins -> Job] /\ \A b \in Admins : admin'[b] = IF b = a THEN job ELSE admin[b]
    BY <1>1, <2>1, <2>2
  <2>4. Typed'
    BY <2>1, <2>3 DEF SInv, Typed
  <2>5. \A j \in Integration : Present(j)' <=> Present(j)
    BY <2>1 DEF Present
  <2>6. TestsName'
    BY <2>1, <2>2, <2>3, <2>5 DEF SInv, TestsName
  <2>7. QED
    BY <2>1, <2>2, <2>3, <2>4, <2>5, <2>6, SecretsUntouched
<1>4. CASE RefuseReplace(a)
  <2>1. admin' = [admin EXCEPT ![a] = NoJob] /\ UNCHANGED <<row, stored, sealed, accepted, drain, lost>>
    BY <1>4 DEF RefuseReplace
  <2>2. admin' \in [Admins -> Job] /\ \A b \in Admins : admin'[b] = IF b = a THEN NoJob ELSE admin[b]
    BY <1>1, <2>1
  <2>3. Typed'
    BY <2>1, <2>2 DEF SInv, Typed
  <2>4. \A j \in Integration : Present(j)' <=> Present(j)
    BY <2>1 DEF Present
  <2>5. TestsName'
    BY <2>2, <2>4 DEF SInv, TestsName, NoJob
  <2>6. QED
    BY <2>1, <2>2, <2>3, <2>4, <2>5, SecretsUntouched
<1>5. CASE EndTest(a)
  <2>1. /\ row' = [row EXCEPT ![admin[a].row].status = Tested(admin[a].verdict)]
        /\ admin' = [admin EXCEPT ![a] = NoJob] /\ UNCHANGED <<stored, sealed, accepted, drain, lost>>
        /\ admin[a].row \in Integration /\ Present(admin[a].row)
    BY <1>5 DEF EndTest, SInv, TestsName
  <2>2. /\ row' \in [Integration -> [status : {"absent", "active", "error"}, secret : 0..MaxSecrets]]
        /\ \A j \in Integration : row'[j].secret = row[j].secret
    BY <1>1, <2>1 DEF Tested
  <2>3. \A j \in Integration : Present(j)' <=> Present(j)
    BY <1>1, <2>1 DEF Present, Tested
  <2>4. admin' \in [Admins -> Job] /\ \A b \in Admins : admin'[b] = IF b = a THEN NoJob ELSE admin[b]
    BY <1>1, <2>1
  <2>5. Typed'
    BY <2>1, <2>2, <2>4 DEF SInv, Typed
  <2>6. TestsName'
    BY <2>3, <2>4 DEF SInv, TestsName, NoJob
  <2>7. QED
    BY <2>1, <2>2, <2>3, <2>4, <2>5, <2>6, SecretsUntouched
<1>6. QED
  BY <1>2, <1>3, <1>4, <1>5

LEMMA DrainStep ==
    ASSUME SInv, NEW t \in Targets, Drains(t)
    PROVE  SInv'
<1>1. /\ row \in [Integration -> [status : {"absent", "active", "error"}, secret : 0..MaxSecrets]]
  BY DEF SInv, Typed
<1>2. UNCHANGED <<stored, sealed, accepted, admin, lost>>
  BY DEF Drains, BeginDrain, EndDrain, LoseDrain
<1>3. /\ row' \in [Integration -> [status : {"absent", "active", "error"}, secret : 0..MaxSecrets]]
      /\ \A i \in Integration : row'[i].secret = row[i].secret /\ (Present(i)' <=> Present(i))
  <2>1. CASE UNCHANGED row
    BY <1>1, <2>1 DEF Present
  <2>2. CASE EndDrain(t)
    <3> DEFINE out == {i \in Integration : SaidOf(drain[t]) = "refused" /\ RefusedAs401(t) /\ i \in Disabled(t)}
    <3>1. row' = [i \in Integration |-> IF i \in out THEN [row[i] EXCEPT !.status = "error"] ELSE row[i]]
      BY <2>2 DEF EndDrain
    <3>2. \A i \in out : row[i].status = "active"
      BY DEF Disabled
    <3> HIDE DEF out
    <3>3. QED
      BY <1>1, <3>1, <3>2 DEF Present
  <2>3. QED
    BY <2>1, <2>2 DEF Drains, BeginDrain, LoseDrain
<1>5. Typed'
  BY <1>2, <1>3 DEF SInv, Typed
<1>6. TestsName'
  BY <1>2, <1>3 DEF SInv, TestsName
<1>7. QED
  BY <1>2, <1>3, <1>5, <1>6, SecretsUntouched

LEMMA SInvStep == SInv /\ [Next]_vars => SInv'
<1> SUFFICES ASSUME SInv, [Next]_vars PROVE SInv'
  OBVIOUS
<1>1. CASE UNCHANGED vars
  BY <1>1 DEF vars, SInv, Typed, SealedSoFar, OwnSecrets, TestsName, Accounted, Orphans, Referenced, Present
<1>2. ASSUME NEW s \in Secrets, Revoke(s) PROVE SInv'
  BY <1>2 DEF Revoke, SInv, Typed, SealedSoFar, OwnSecrets, TestsName, Accounted, Orphans, Referenced, Present
<1>3. ASSUME NEW a \in Admins, Administer(a) PROVE SInv'
  BY <1>3, JobStep, SwapStep DEF Administer
<1>4. QED
  BY <1>1, <1>2, <1>3, AddStep, DrainStep DEF Next

\* However replacements, tests and drains overlap (integrations/actions.ts,
\* sync-worker.ts), no row points at a deleted secret, and every secret that
\* outlives its rows is owed to one replacement that overlapped another.
THEOREM SecretsStayAccounted == Spec => []SecretsAccountedFor
<1>1. Init => SInv
  BY SInvInit
<1>2. SInv /\ [Next]_vars => SInv'
  BY SInvStep
<1>3. SInv => SecretsAccountedFor
  BY SInvImplies
<1>4. QED
  BY <1>1, <1>2, <1>3, PTL DEF Spec

-----------------------------------------------------------------------------
(* Drains: the credential they hold is one of a row that was in service.   *)

LEMMA OldestIsOne ==
    ASSUME NEW S, S \subseteq Integration, S # {}
    PROVE  Oldest(S) \in S /\ \A j \in S : Oldest(S) <= j
<1>1. S \subseteq Nat
  BY IntegrationsAssumption DEF Integration
<1>2. PICK i \in S : \A j \in S : ~(<<j, i>> \in OpToRel(<, Nat))
  BY <1>1, NatLessThanWellFounded, WFMin
<1>3. \A j \in S : i <= j
  <2> SUFFICES ASSUME NEW j \in S, j < i PROVE FALSE
    BY <1>1
  <2>1. i \in Nat /\ j \in Nat
    BY <1>1
  <2>2. <<j, i>> \in OpToRel(<, Nat)
    BY <2>1, Zenon DEF OpToRel
  <2>3. QED
    BY <1>2, <2>2
<1>4. QED
  BY <1>3 DEF Oldest

DrainTyped == drain \in [Targets -> 0..MaxSecrets]

LEMMA DrainTypedStep == SInv /\ DrainTyped /\ [Next]_vars => DrainTyped'
<1> SUFFICES ASSUME SInv, DrainTyped, [Next]_vars PROVE DrainTyped'
  OBVIOUS
<1>1. ASSUME NEW t \in Targets, BeginDrain(t) PROVE DrainTyped'
  <2>1. Serving(t) \subseteq Integration /\ Serving(t) # {}
    BY <1>1 DEF BeginDrain, Serving
  <2>2. Oldest(Serving(t)) \in Integration
    BY <2>1, OldestIsOne
  <2>3. row[Oldest(Serving(t))].secret \in 0..MaxSecrets
    BY <2>2 DEF SInv, Typed
  <2>4. QED
    BY <1>1, <2>3 DEF BeginDrain, DrainTyped
<1>2. ASSUME NEW t \in Targets, EndDrain(t) \/ LoseDrain(t) PROVE DrainTyped'
  BY <1>2, IntegrationsAssumption DEF EndDrain, LoseDrain, DrainTyped
<1>3. CASE \E i \in Integration : AddIntegration(i)
  BY <1>3 DEF AddIntegration, DrainTyped
<1>4. CASE \E s \in Secrets : Revoke(s)
  BY <1>4 DEF Revoke, DrainTyped
<1>5. ASSUME NEW a \in Admins, Administer(a) PROVE UNCHANGED drain
  BY <1>5 DEF Administer, BeginReplace, BeginTest, AnswerTest, CommitReplace, RefuseReplace, EndTest
<1>6. CASE UNCHANGED vars
  BY <1>6 DEF vars, DrainTyped
<1>7. QED
  BY <1>1, <1>2, <1>3, <1>4, <1>5, <1>6 DEF Next, Drains, DrainTyped

\* Every row, credential, job and drain keeps its type; a drain always holds a
\* credential that some row had (sync-worker.ts loadCredential).
THEOREM IntegrationsTypes == Spec => []TypeOK
<1>1. Init => SInv /\ DrainTyped
  BY SInvInit, IntegrationsAssumption DEF Init, DrainTyped
<1>2. SInv /\ DrainTyped /\ [Next]_vars => (SInv /\ DrainTyped)'
  BY SInvStep, DrainTypedStep
<1>3. SInv /\ DrainTyped => TypeOK
  BY DEF SInv, Typed, DrainTyped, TypeOK
<1>4. QED
  BY <1>1, <1>2, <1>3, PTL DEF Spec

=============================================================================
