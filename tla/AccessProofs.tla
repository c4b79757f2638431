----------------------------- MODULE AccessProofs -----------------------------
(***************************************************************************)
(* Access control for every number of clients, sessions, addresses and any *)
(* limits.  A request carries what was true when it was last checked; the  *)
(* invariant says that this is still true, or the request is marked.       *)
(***************************************************************************)
EXTENDS Access, FiniteSetTheorems, TLAPS

\* The principal could begin a request now.
Alive(p) ==
    IF p = "token" THEN token ELSE status = "active" /\ session[p].status = "live"

Checked(p) ==
    /\ request[p].rows \subseteq {request[p].tenant}
    /\ request[p].rows # {} => request[p].stage = "scoped"
    /\ request[p].stage # "idle" => Alive(p) \/ request[p].overtaken
    /\ request[p].stage \in {"granted", "scoped"} => Permitted(p, request[p].tenant) \/ request[p].overtaken

RequestsChecked == \A p \in Principals : Checked(p)

\* disabling is the open transaction of an account that is still active.
LateWhileDisabling ==
    /\ disabling => status = "active"
    /\ disabling \/ status = "disabled" => \A s \in Sessions : session[s].status = "live" => session[s].late

\* Every login past the account's rule was counted in this window, or is one of
\* those it did not count.
ChecksCounted == checks + Cardinality(Counted) <= hits.email + uncounted

AInv == TypeOK /\ RequestsChecked /\ LateWhileDisabling /\ ChecksCounted

LEMMA CountedFact ==
    /\ Counted \in SUBSET Clients /\ IsFiniteSet(Counted)
    /\ Cardinality(Counted) \in 0..Cardinality(Clients) /\ Cardinality(Clients) \in Nat
<1>1. Counted \in SUBSET Clients
  BY DEF Counted
<1>2. /\ IsFiniteSet(Counted) /\ Cardinality(Counted) \in Nat /\ Cardinality(Clients) \in Nat
      /\ Cardinality(Counted) <= Cardinality(Clients)
  BY <1>1, AccessAssumption, FS_Subset, FS_CardinalityType
<1>3. QED
  BY <1>1, <1>2

LEMMA AInvImplies == AInv => NothingNewAfterRevocation /\ DisabledHasOnlyLateSessions /\ ChecksWithinLimit
<1> SUFFICES ASSUME AInv PROVE NothingNewAfterRevocation /\ DisabledHasOnlyLateSessions /\ ChecksWithinLimit
  OBVIOUS
<1>1. NothingNewAfterRevocation
  BY DEF AInv, RequestsChecked, Checked, NothingNewAfterRevocation
<1>2. DisabledHasOnlyLateSessions
  BY DEF AInv, LateWhileDisabling, DisabledHasOnlyLateSessions
<1>3. ChecksWithinLimit
  <2>1. Cardinality(Counted) \in Nat /\ Cardinality(Clients) \in Nat
    BY CountedFact
  <2>2. /\ checks \in 0..(EmailLimit + MaxOutages + Cardinality(Clients)) /\ hits.email \in 0..EmailLimit
        /\ uncounted \in 0..(MaxOutages + Cardinality(Clients))
    BY DEF AInv, TypeOK
  <2>3. checks + Cardinality(Counted) <= hits.email + uncounted
    BY DEF AInv, ChecksCounted
  <2>4. QED
    BY <2>1, <2>2, <2>3, AccessAssumption DEF ChecksWithinLimit
<1>4. QED
  BY <1>1, <1>2, <1>3

LEMMA AInvInit == Init => AInv
<1> SUFFICES ASSUME Init PROVE AInv
  OBVIOUS
<1>1. TypeOK
  <2>1. request \in [Principals -> [stage : {"idle", "known", "granted", "scoped"},
                                    tenant : Tenants \cup {NoTenant}, rows : SUBSET Tenants,
                                    overtaken : BOOLEAN]]
    BY DEF Init, NoRequest
  <2>2. hits \in [ip : [Clients -> 0..IpLimit], email : 0..EmailLimit]
    BY AccessAssumption DEF Init
  <2>3. session \in [Sessions -> [status : {"unused", "live", "gone"},
                                  active : Tenants \cup {NoTenant}, late : BOOLEAN]]
    BY DEF Init
  <2>4. /\ checks \in 0..(EmailLimit + MaxOutages + Cardinality(Clients))
        /\ uncounted \in 0..(MaxOutages + Cardinality(Clients))
    BY AccessAssumption, CountedFact DEF Init
  <2>5. QED
    BY <2>1, <2>2, <2>3, <2>4 DEF Init, TypeOK
<1>2. RequestsChecked /\ LateWhileDisabling /\ ChecksCounted
  <2>1. \A p \in Principals : request[p].rows = {} /\ request[p].stage = "idle"
    BY DEF Init, NoRequest
  <2>2. RequestsChecked
    BY <2>1 DEF RequestsChecked, Checked
  <2>3. LateWhileDisabling
    BY DEF Init, LateWhileDisabling
  <2>4. ChecksCounted
    <3>1. Counted = {}
      BY DEF Init, Counted
    <3>2. hits.email = 0 /\ Cardinality(Counted) = 0
      BY <3>1, FS_EmptySet DEF Init
    <3>3. QED
      BY <3>2 DEF Init, ChecksCounted
  <2>5. QED
    BY <2>2, <2>3, <2>4
<1>3. QED
  BY <1>1, <1>2 DEF AInv

-----------------------------------------------------------------------------
(* Requests, from step to step                                             *)

\* A step that takes nothing away leaves every request as checked as it was.
LEMMA NothingTaken ==
    ASSUME RequestsChecked, request' = request,
           \A p \in Principals : Alive(p) => Alive(p)',
           \A p \in Principals : \A t \in {request[p].tenant} : Permitted(p, t) => Permitted(p, t)'
    PROVE  RequestsChecked'
BY DEF RequestsChecked, Checked

\* A step that marks the requests of P may take anything away from them.
LEMMA MarkedChecked ==
    ASSUME TypeOK, RequestsChecked, NEW P, request' = Overtaken(P),
           \A p \in Principals \ P : Alive(p) => Alive(p)',
           \A p \in Principals \ P : \A t \in {request[p].tenant} : Permitted(p, t) => Permitted(p, t)'
    PROVE  RequestsChecked' /\ request' \in [Principals -> [stage : {"idle", "known", "granted", "scoped"},
                                   tenant : Tenants \cup {NoTenant}, rows : SUBSET Tenants,
                                   overtaken : BOOLEAN]]
<1> DEFINE Request == [stage : {"idle", "known", "granted", "scoped"},
                       tenant : Tenants \cup {NoTenant}, rows : SUBSET Tenants, overtaken : BOOLEAN]
<1>1. request \in [Principals -> Request]
  BY DEF TypeOK
<1>2. \A p \in Principals :
         request'[p] = [request[p] EXCEPT !.overtaken = @ \/ (p \in P /\ request[p].stage # "idle")]
  BY DEF Overtaken
<1>3. \A p \in Principals : request[p] \in Request
  BY <1>1
<1>4. \A p \in Principals :
         /\ request'[p].stage = request[p].stage /\ request'[p].tenant = request[p].tenant
         /\ request'[p].rows = request[p].rows
         /\ request'[p].overtaken = (request[p].overtaken \/ (p \in P /\ request[p].stage # "idle"))
         /\ request'[p] \in Request
  <2> SUFFICES ASSUME NEW p \in Principals
               PROVE  /\ request'[p].stage = request[p].stage /\ request'[p].tenant = request[p].tenant
                      /\ request'[p].rows = request[p].rows
                      /\ request'[p].overtaken = (request[p].overtaken \/ (p \in P /\ request[p].stage # "idle"))
                      /\ request'[p] \in Request
    OBVIOUS
  <2> DEFINE mark == request[p].overtaken \/ (p \in P /\ request[p].stage # "idle")
  <2>1. mark \in BOOLEAN
    BY <1>3
  <2>2. request'[p] = [request[p] EXCEPT !.overtaken = mark]
    BY <1>2
  <2> HIDE DEF mark
  <2>3. /\ request'[p].stage = request[p].stage /\ request'[p].tenant = request[p].tenant
        /\ request'[p].rows = request[p].rows /\ request'[p].overtaken = mark /\ request'[p] \in Request
    BY <1>3, <2>1, <2>2
  <2>4. QED
    BY <2>3 DEF mark
<1>5. RequestsChecked'
  <2> SUFFICES ASSUME NEW p \in Principals PROVE Checked(p)'
    BY DEF RequestsChecked
  <2>1. Checked(p)
    BY DEF RequestsChecked
  <2>2. CASE p \in P
    <3>1. request'[p].stage # "idle" => request'[p].overtaken
      BY <1>4, <2>2
    <3>2. QED
      BY <1>4, <2>1, <3>1 DEF Checked
  <2>3. CASE p \notin P
    <3>1. (Alive(p) => Alive(p)') /\ \A t \in {request[p].tenant} : Permitted(p, t) => Permitted(p, t)'
      BY <2>3
    <3>2. request'[p].overtaken = request[p].overtaken
      BY <1>3, <1>4, <2>3
    <3>3. QED
      BY <1>4, <2>1, <3>1, <3>2 DEF Checked, Permitted
  <2>4. QED
    BY <2>2, <2>3
<1>6. request' \in [Principals -> Request]
  BY <1>4 DEF Overtaken
<1>7. QED
  BY <1>5, <1>6

\* A step of one request, with nothing else changed that decides its rights.
LEMMA OneRequest ==
    ASSUME TypeOK, RequestsChecked, NEW p \in Principals,
           NEW new \in [stage : {"idle", "known", "granted", "scoped"},
                        tenant : Tenants \cup {NoTenant}, rows : SUBSET Tenants, overtaken : BOOLEAN],
           request' = [request EXCEPT ![p] = new], token' = token, status' = status,
           assigned' = assigned, elevated' = elevated,
           \A s \in Sessions : session'[s].status = session[s].status,
           new.rows \subseteq {new.tenant}, new.rows # {} => new.stage = "scoped",
           new.stage # "idle" => Alive(p) \/ new.overtaken,
           new.stage \in {"granted", "scoped"} => Permitted(p, new.tenant) \/ new.overtaken
    PROVE  RequestsChecked' /\ request' \in [Principals -> [stage : {"idle", "known", "granted", "scoped"},
                                   tenant : Tenants \cup {NoTenant}, rows : SUBSET Tenants,
                                   overtaken : BOOLEAN]]
<1> DEFINE Request == [stage : {"idle", "known", "granted", "scoped"},
                       tenant : Tenants \cup {NoTenant}, rows : SUBSET Tenants, overtaken : BOOLEAN]
<1>1. request \in [Principals -> Request] /\ new \in Request
  BY DEF TypeOK
<1>2. request' \in [Principals -> Request]
  BY <1>1
<1>3. ASSUME NEW q \in Principals, NEW t
      PROVE  (Alive(q)' <=> Alive(q)) /\ (Permitted(q, t)' <=> Permitted(q, t))
  BY DEF Alive, Permitted, Principals
<1>4. RequestsChecked'
  <2> SUFFICES ASSUME NEW q \in Principals PROVE Checked(q)'
    BY DEF RequestsChecked
  <2>1. request'[q] = IF q = p THEN new ELSE request[q]
    BY <1>1
  <2>2. Checked(q)
    BY DEF RequestsChecked
  <2>3. CASE q = p
    BY <1>3, <2>1, <2>3 DEF Checked
  <2>4. CASE q # p
    BY <1>3, <2>1, <2>2, <2>4 DEF Checked
  <2>5. QED
    BY <2>3, <2>4
<1>5. QED
  BY <1>2, <1>4


-----------------------------------------------------------------------------
(* Login                                                                   *)

\* Login steps take no right away; creating a session adds one.
LEMMA LoginKeepsRequests ==
    ASSUME AInv, NEW c \in Clients, Login(c)
    PROVE  RequestsChecked'
<1>1. /\ UNCHANGED <<status, assigned, elevated, token, request>>
      /\ \A s \in Sessions : session[s].status = "live" => session'[s].status = "live"
  <2>1. session \in [Sessions -> [status : {"unused", "live", "gone"},
                                  active : Tenants \cup {NoTenant}, late : BOOLEAN]]
    BY DEF AInv, TypeOK
  <2>2. ASSUME NEW s \in Sessions, CreateSession(c, s)
        PROVE  <1>1!2
    BY <2>1, <2>2 DEF CreateSession
  <2>3. QED
    BY <2>2 DEF Login, PassIpRule, PassEmailRule, DenyLogin, VerifyPassword, CreateSession
<1>2. \A p \in Principals : (Alive(p) => Alive(p)') /\ \A t : Permitted(p, t) => Permitted(p, t)'
  BY <1>1 DEF Alive, Permitted, Principals
<1>3. QED
  BY <1>1, <1>2, NothingTaken DEF AInv

\* A step of one login changes the counted by that login at most.
LEMMA CountedChange ==
    ASSUME login \in [Clients -> {"idle", "admitted", "counted", "verified"}],
           NEW c \in Clients, NEW stage \in {"idle", "admitted", "counted", "verified"},
           login' = [login EXCEPT ![c] = stage]
    PROVE  /\ login' \in [Clients -> {"idle", "admitted", "counted", "verified"}]
           /\ login[c] # "counted" /\ stage # "counted" => Counted' = Counted
           /\ login[c] # "counted" /\ stage = "counted" => Cardinality(Counted') = Cardinality(Counted) + 1
           /\ login[c] = "counted" /\ stage # "counted" => Cardinality(Counted') = Cardinality(Counted) - 1
<1>1. /\ login' \in [Clients -> {"idle", "admitted", "counted", "verified"}]
      /\ \A d \in Clients : login'[d] = IF d = c THEN stage ELSE login[d]
  OBVIOUS
<1>2. login[c] # "counted" /\ stage # "counted" => Counted' = Counted
  BY <1>1 DEF Counted
<1>3. ASSUME login[c] # "counted", stage = "counted"
      PROVE  Cardinality(Counted') = Cardinality(Counted) + 1
  <2>1. Counted' = Counted \cup {c} /\ c \notin Counted
    BY <1>1, <1>3 DEF Counted
  <2>2. QED
    BY <2>1, CountedFact, FS_AddElement
<1>4. ASSUME login[c] = "counted", stage # "counted"
      PROVE  Cardinality(Counted') = Cardinality(Counted) - 1
  <2>1. Counted' = Counted \ {c} /\ c \in Counted
    BY <1>1, <1>4 DEF Counted
  <2>2. QED
    BY <2>1, CountedFact, FS_RemoveElement
<1>5. QED
  BY <1>1, <1>2, <1>3, <1>4

LEMMA LoginTypes ==
    ASSUME AInv, NEW c \in Clients, Login(c)
    PROVE  TypeOK' /\ ChecksCounted'
<1>1. /\ hits \in [ip : [Clients -> 0..IpLimit], email : 0..EmailLimit]
      /\ checks \in 0..(EmailLimit + MaxOutages + Cardinality(Clients)) /\ checks \in Nat
      /\ uncounted \in 0..(MaxOutages + Cardinality(Clients))
      /\ checks + Cardinality(Counted) <= hits.email + uncounted
      /\ login \in [Clients -> {"idle", "admitted", "counted", "verified"}]
      /\ session \in [Sessions -> [status : {"unused", "live", "gone"},
                                   active : Tenants \cup {NoTenant}, late : BOOLEAN]]
  BY AccessAssumption, CountedFact DEF AInv, TypeOK, ChecksCounted
<1>2. Cardinality(Counted) \in Nat /\ Cardinality(Clients) \in Nat
  BY CountedFact
<1>3. CASE PassIpRule(c)
  <2>1. hits' \in [ip : [Clients -> 0..IpLimit], email : 0..EmailLimit] /\ hits'.email = hits.email
    <3>1. CASE UNCHANGED hits
      BY <1>1, <3>1
    <3>2. CASE Room(hits.ip[c], IpLimit) /\ hits' = [hits EXCEPT !.ip[c] = @ + 1]
      <4>1. hits.ip[c] + 1 \in 0..IpLimit
        BY <1>1, <3>2, AccessAssumption DEF Room
      <4>2. QED
        BY <1>1, <3>2, <4>1
    <3>3. QED
      BY <1>3, <3>1, <3>2 DEF PassIpRule
  <2>2. login' \in [Clients -> {"idle", "admitted", "counted", "verified"}] /\ Counted' = Counted
    BY <1>1, <1>3, CountedChange DEF PassIpRule
  <2>3. UNCHANGED <<status, disabling, assigned, elevated, session, token, checks, uncounted, request>>
    BY <1>3 DEF PassIpRule
  <2>4. ChecksCounted'
    BY <1>1, <2>1, <2>2, <2>3 DEF ChecksCounted
  <2>5. QED
    BY <1>1, <2>1, <2>2, <2>3, <2>4 DEF AInv, TypeOK
<1>4. CASE PassEmailRule(c)
  <2>1. /\ hits' \in [ip : [Clients -> 0..IpLimit], email : 0..EmailLimit]
        /\ uncounted' \in 0..(MaxOutages + Cardinality(Clients)) /\ hits'.email + uncounted' = hits.email + uncounted + 1
    <3>1. CASE UNCHANGED hits /\ uncounted < MaxOutages /\ uncounted' = uncounted + 1
      BY <1>1, <1>2, <3>1, AccessAssumption
    <3>2. CASE Room(hits.email, EmailLimit) /\ hits' = [hits EXCEPT !.email = @ + 1] /\ UNCHANGED uncounted
      <4>1. hits.email + 1 \in 0..EmailLimit
        BY <1>1, <3>2, AccessAssumption DEF Room
      <4>2. QED
        BY <1>1, <3>2, <4>1, AccessAssumption
    <3>3. QED
      BY <1>4, <3>1, <3>2 DEF PassEmailRule
  <2>2. /\ login' \in [Clients -> {"idle", "admitted", "counted", "verified"}]
        /\ Cardinality(Counted') = Cardinality(Counted) + 1
    BY <1>1, <1>4, CountedChange DEF PassEmailRule
  <2>3. UNCHANGED <<status, disabling, assigned, elevated, session, token, checks, request>>
    BY <1>4 DEF PassEmailRule
  <2>4. checks + Cardinality(Counted') <= hits'.email + uncounted'
    <3>1. /\ hits.email \in Nat /\ hits'.email \in Nat /\ uncounted \in Nat /\ uncounted' \in Nat
      BY <1>1, <1>2, <2>1, AccessAssumption
    <3>2. QED
      BY <1>1, <1>2, <2>1, <2>2, <3>1
  <2>5. ChecksCounted'
    BY <2>3, <2>4 DEF ChecksCounted
  <2>6. QED
    BY <1>1, <2>1, <2>2, <2>3, <2>5 DEF AInv, TypeOK
<1>5. ASSUME NEW right \in BOOLEAN, VerifyPassword(c, right)
      PROVE  TypeOK' /\ ChecksCounted'
  <2> DEFINE stage == IF right /\ status = "active" THEN "verified" ELSE "idle"
  <2>1. /\ login[c] = "counted" /\ login' = [login EXCEPT ![c] = stage] /\ checks' = checks + 1
        /\ UNCHANGED <<status, disabling, assigned, elevated, session, token, hits, uncounted, request>>
    BY <1>5 DEF VerifyPassword
  <2>2. stage \in {"idle", "verified"}
    OBVIOUS
  <2> HIDE DEF stage
  <2>3. /\ login' \in [Clients -> {"idle", "admitted", "counted", "verified"}]
        /\ Cardinality(Counted') = Cardinality(Counted) - 1
    BY <1>1, <2>1, <2>2, CountedChange
  <2>4. ChecksCounted'
    BY <1>1, <1>2, <2>1, <2>3, AccessAssumption DEF ChecksCounted
  <2>5. checks' \in 0..(EmailLimit + MaxOutages + Cardinality(Clients))
    <3>1. Cardinality(Counted') \in Nat
      <4>1. Counted' \in SUBSET Clients
        BY DEF Counted
      <4>2. QED
        BY <4>1, AccessAssumption, FS_Subset, FS_CardinalityType
    <3>2. checks' + Cardinality(Counted') <= hits.email + uncounted
      BY <2>1, <2>4 DEF ChecksCounted
    <3>3. QED
      BY <1>1, <1>2, <2>1, <3>1, <3>2, AccessAssumption
  <2>6. QED
    BY <1>1, <2>1, <2>3, <2>4, <2>5 DEF AInv, TypeOK
<1>6. CASE DenyLogin(c) \/ \E s \in Sessions : CreateSession(c, s)
  <2>1. /\ login[c] # "counted" /\ login' = [login EXCEPT ![c] = "idle"]
        /\ UNCHANGED <<status, disabling, assigned, elevated, token, hits, checks, uncounted, request>>
    BY <1>6 DEF DenyLogin, CreateSession
  <2>2. login' \in [Clients -> {"idle", "admitted", "counted", "verified"}] /\ Counted' = Counted
    BY <1>1, <2>1, CountedChange
  <2>3. session' \in [Sessions -> [status : {"unused", "live", "gone"},
                                   active : Tenants \cup {NoTenant}, late : BOOLEAN]]
    <3>1. ASSUME NEW s \in Sessions, CreateSession(c, s)
          PROVE  <2>3
      <4> DEFINE late == disabling \/ status = "disabled"
      <4>1. late \in BOOLEAN
        BY DEF AInv, TypeOK
      <4>2. session' = [session EXCEPT ![s].status = "live", ![s].late = late]
        BY <3>1 DEF CreateSession
      <4> HIDE DEF late
      <4>3. QED
        BY <1>1, <4>1, <4>2, ZenonT(30)
    <3>2. CASE UNCHANGED session
      BY <1>1, <3>2
    <3>3. QED
      BY <1>6, <3>1, <3>2 DEF DenyLogin
  <2>4. ChecksCounted'
    BY <1>1, <2>1, <2>2 DEF ChecksCounted
  <2>5. QED
    BY <1>1, <2>1, <2>2, <2>3, <2>4 DEF AInv, TypeOK
<1>7. QED
  BY <1>3, <1>4, <1>5, <1>6 DEF Login

LEMMA LoginLate ==
    ASSUME AInv, NEW c \in Clients, Login(c)
    PROVE  LateWhileDisabling'
<1>1. ASSUME NEW s \in Sessions, CreateSession(c, s)
      PROVE  LateWhileDisabling'
  <2>1. session \in [Sessions -> [status : {"unused", "live", "gone"},
                                  active : Tenants \cup {NoTenant}, late : BOOLEAN]]
    BY DEF AInv, TypeOK
  <2>2. UNCHANGED <<status, disabling>>
    BY <1>1 DEF CreateSession
  <2>3. disabling \/ status = "disabled" => session'[s].late
    BY <1>1, <2>1 DEF CreateSession
  <2>4. \A r \in Sessions : r # s => session'[r] = session[r]
    BY <1>1, <2>1 DEF CreateSession
  <2>5. QED
    BY <2>2, <2>3, <2>4 DEF AInv, LateWhileDisabling
<1>2. CASE UNCHANGED <<status, disabling, session>>
  BY <1>2 DEF AInv, LateWhileDisabling
<1>3. QED
  BY <1>1, <1>2 DEF Login, PassIpRule, PassEmailRule, DenyLogin, VerifyPassword

LEMMA LoginStep ==
    ASSUME AInv, NEW c \in Clients, Login(c)
    PROVE  AInv'
BY LoginKeepsRequests, LoginTypes, LoginLate DEF AInv

-----------------------------------------------------------------------------
(* Requests                                                                *)

LEMMA RevokedFact ==
    ASSUME TypeOK, NEW s \in Sessions
    PROVE  /\ Revoked(s) \in [status : {"unused", "live", "gone"},
                              active : Tenants \cup {NoTenant}, late : BOOLEAN]
           /\ Revoked(s).status # "live"
BY DEF TypeOK, Revoked

\* A step that changes one request and leaves the rows of sessions alone.
LEMMA RequestOnly ==
    ASSUME AInv, RequestsChecked',
           request' \in [Principals -> [stage : {"idle", "known", "granted", "scoped"},
                                        tenant : Tenants \cup {NoTenant}, rows : SUBSET Tenants,
                                        overtaken : BOOLEAN]],
           UNCHANGED Unused
    PROVE  AInv'
BY DEF AInv, TypeOK, LateWhileDisabling, ChecksCounted, Counted, Unused

LEMMA WorkStep ==
    ASSUME AInv, NEW s \in Sessions, Work(s)
    PROVE  AInv'
<1> DEFINE Request == [stage : {"idle", "known", "granted", "scoped"},
                       tenant : Tenants \cup {NoTenant}, rows : SUBSET Tenants, overtaken : BOOLEAN]
<1>1. /\ s \in Principals /\ s # "token" /\ request \in [Principals -> Request] /\ request[s] \in Request
      /\ session \in [Sessions -> [status : {"unused", "live", "gone"},
                                   active : Tenants \cup {NoTenant}, late : BOOLEAN]]
      /\ RequestsChecked /\ TypeOK /\ Checked(s)
  BY AccessAssumption DEF AInv, TypeOK, Principals, RequestsChecked
<1>2. ASSUME NEW permission \in {"enter", "lead:read", "review:resolve"}, Authenticate(s, permission)
      PROVE  AInv'
  <2> DEFINE new == [NoRequest EXCEPT !.stage = "known"]
  <2>1. new \in Request /\ new.rows = {} /\ new.stage = "known"
    BY DEF NoRequest
  <2>2. UNCHANGED Unused /\ request' = [request EXCEPT ![s] = new] /\ Alive(s)
    BY <1>1, <1>2 DEF Authenticate, Alive
  <2> HIDE DEF new
  <2>3. RequestsChecked' /\ request' \in [Principals -> Request]
    BY <1>1, <2>1, <2>2, OneRequest DEF Unused
  <2>4. QED
    BY <2>2, <2>3, RequestOnly
<1>3. ASSUME NEW t \in Tenants, RequireGrant(s, t)
      PROVE  AInv'
  <2> DEFINE new == IF MayEnter(s, t) THEN [request[s] EXCEPT !.stage = "granted", !.tenant = t] ELSE NoRequest
  <2>1. request[s].stage = "known" /\ UNCHANGED Unused /\ request' = [request EXCEPT ![s] = new]
    BY <1>3 DEF RequireGrant
  <2>2. request[s].rows = {} /\ (Alive(s) \/ request[s].overtaken)
    BY <1>1, <2>1 DEF Checked
  <2>3. CASE MayEnter(s, t)
    <3>1. /\ new \in Request /\ new.rows = {} /\ new.stage = "granted" /\ new.tenant = t
          /\ new.overtaken = request[s].overtaken
      BY <1>1, <2>2, <2>3
    <3>2. Permitted(s, t) \/ request[s].overtaken
      BY <1>1, <2>2, <2>3 DEF Permitted, Alive, MayEnter
    <3> HIDE DEF new
    <3>3. RequestsChecked' /\ request' \in [Principals -> Request]
      BY <1>1, <2>1, <2>2, <3>1, <3>2, OneRequest DEF Unused
    <3>4. QED
      BY <2>1, <3>3, RequestOnly
  <2>4. CASE ~MayEnter(s, t)
    <3>1. new \in Request /\ new.rows = {} /\ new.stage = "idle"
      BY <2>4 DEF NoRequest
    <3> HIDE DEF new
    <3>2. RequestsChecked' /\ request' \in [Principals -> Request]
      BY <1>1, <2>1, <3>1, OneRequest DEF Unused
    <3>3. QED
      BY <2>1, <3>2, RequestOnly
  <2>5. QED
    BY <2>3, <2>4
<1>4. CASE WithTenant(s)
  <2> DEFINE new == Scoped(s, request[s].tenant)
  <2>1. request[s].stage = "granted" /\ UNCHANGED Unused /\ request' = [request EXCEPT ![s] = new]
    BY <1>4 DEF WithTenant
  <2>2. /\ new \in Request /\ new.rows \subseteq {request[s].tenant} /\ new.stage = "scoped"
        /\ new.tenant = request[s].tenant /\ new.overtaken = request[s].overtaken
    BY <1>1 DEF Scoped, Visible, ScopeOf
  <2>3. (Alive(s) \/ request[s].overtaken) /\ (Permitted(s, request[s].tenant) \/ request[s].overtaken)
    BY <1>1, <2>1 DEF Checked
  <2> HIDE DEF new
  <2>4. RequestsChecked' /\ request' \in [Principals -> Request]
    BY <1>1, <2>1, <2>2, <2>3, OneRequest DEF Unused
  <2>5. QED
    BY <2>1, <2>4, RequestOnly
<1>5. CASE EnterTenant(s)
  <2>1. /\ request' = [request EXCEPT ![s] = NoRequest]
        /\ session' = [session EXCEPT ![s].active = request[s].tenant]
        /\ UNCHANGED <<status, disabling, assigned, elevated, token, login, hits, checks, uncounted>>
    BY <1>5 DEF EnterTenant
  <2>2. /\ session' \in [Sessions -> [status : {"unused", "live", "gone"},
                                      active : Tenants \cup {NoTenant}, late : BOOLEAN]]
        /\ \A r \in Sessions : session'[r].status = session[r].status /\ session'[r].late = session[r].late
    BY <1>1, <2>1
  <2>3. NoRequest \in Request /\ NoRequest.rows = {} /\ NoRequest.stage = "idle"
    BY DEF NoRequest
  <2>4. RequestsChecked' /\ request' \in [Principals -> Request]
    BY <1>1, <2>1, <2>2, <2>3, OneRequest
  <2>5. QED
    BY <2>1, <2>2, <2>4 DEF AInv, TypeOK, LateWhileDisabling, ChecksCounted, Counted
<1>6. CASE EndSession(s)
  <2>1. /\ session' = [session EXCEPT ![s] = Revoked(s)] /\ request' = Overtaken({s})
        /\ UNCHANGED <<status, disabling, assigned, elevated, token, login, hits, checks, uncounted>>
    BY <1>6 DEF EndSession
  <2>2. /\ session' \in [Sessions -> [status : {"unused", "live", "gone"},
                                      active : Tenants \cup {NoTenant}, late : BOOLEAN]]
        /\ session'[s].status # "live" /\ \A r \in Sessions : r # s => session'[r] = session[r]
    BY <1>1, <2>1, RevokedFact
  <2>3. RequestsChecked' /\ request' \in [Principals -> Request]
    <3>1. ASSUME NEW p \in Principals \ {s}, NEW t
          PROVE  (Alive(p) => Alive(p)') /\ (Permitted(p, t) => Permitted(p, t)')
      BY <2>1, <2>2, <3>1 DEF Alive, Permitted, Principals
    <3>2. QED
      BY <1>1, <2>1, <3>1, MarkedChecked
  <2>4. LateWhileDisabling'
    <3>1. \A r \in Sessions : session'[r].status = "live" => session[r].status = "live" /\ session'[r].late = session[r].late
      BY <2>2
    <3>2. QED
      BY <2>1, <3>1 DEF AInv, LateWhileDisabling
  <2>5. ChecksCounted'
    BY <2>1 DEF AInv, ChecksCounted, Counted
  <2>6. TypeOK'
    BY <2>1, <2>2, <2>3 DEF AInv, TypeOK
  <2>7. QED
    BY <2>3, <2>4, <2>5, <2>6 DEF AInv
<1>7. QED
  BY <1>2, <1>3, <1>4, <1>5, <1>6 DEF Work

LEMMA RespondStep ==
    ASSUME AInv, NEW p \in Principals, Respond(p)
    PROVE  AInv'
<1>1. request' = [request EXCEPT ![p] = NoRequest] /\ UNCHANGED Unused
  BY DEF Respond
<1>2. /\ NoRequest \in [stage : {"idle", "known", "granted", "scoped"},
                        tenant : Tenants \cup {NoTenant}, rows : SUBSET Tenants, overtaken : BOOLEAN]
      /\ NoRequest.rows = {} /\ NoRequest.stage = "idle"
  BY DEF NoRequest
<1>3. /\ RequestsChecked'
      /\ request' \in [Principals -> [stage : {"idle", "known", "granted", "scoped"},
                                      tenant : Tenants \cup {NoTenant}, rows : SUBSET Tenants,
                                      overtaken : BOOLEAN]]
  BY <1>1, <1>2, OneRequest DEF AInv, Unused
<1>4. QED
  BY <1>1, <1>3, RequestOnly

LEMMA ServiceStep ==
    ASSUME AInv, AuthenticateService \/ WithServiceScope
    PROVE  AInv'
<1> DEFINE Request == [stage : {"idle", "known", "granted", "scoped"},
                       tenant : Tenants \cup {NoTenant}, rows : SUBSET Tenants, overtaken : BOOLEAN]
<1>1. /\ "token" \in Principals /\ request["token"] \in Request /\ TokenTenant \in Tenants
      /\ RequestsChecked /\ TypeOK /\ Checked("token")
  BY AccessAssumption DEF AInv, TypeOK, Principals, RequestsChecked
<1>2. CASE AuthenticateService
  <2> DEFINE new == [NoRequest EXCEPT !.stage = "granted", !.tenant = TokenTenant]
  <2>1. token /\ UNCHANGED Unused /\ request' = [request EXCEPT !["token"] = new]
    BY <1>2 DEF AuthenticateService
  <2>2. new \in Request /\ new.rows = {} /\ new.stage = "granted" /\ new.tenant = TokenTenant
    BY <1>1 DEF NoRequest
  <2>3. Alive("token") /\ Permitted("token", TokenTenant)
    BY <2>1 DEF Alive, Permitted
  <2> HIDE DEF new
  <2>4. RequestsChecked' /\ request' \in [Principals -> Request]
    BY <1>1, <2>1, <2>2, <2>3, OneRequest DEF Unused
  <2>5. QED
    BY <2>1, <2>4, RequestOnly
<1>3. CASE WithServiceScope
  <2> DEFINE new == Scoped("token", TokenTenant)
  <2>1. request["token"].stage = "granted" /\ UNCHANGED Unused /\ request' = [request EXCEPT !["token"] = new]
    BY <1>3 DEF WithServiceScope
  <2>2. /\ new \in Request /\ new.rows \subseteq {TokenTenant} /\ new.stage = "scoped"
        /\ new.tenant = TokenTenant /\ new.overtaken = request["token"].overtaken
    BY <1>1 DEF Scoped, Visible, ScopeOf
  <2>3. /\ Alive("token") \/ request["token"].overtaken
        /\ Permitted("token", TokenTenant) \/ request["token"].overtaken
    BY <1>1, <2>1 DEF Checked, Alive, Permitted
  <2> HIDE DEF new
  <2>4. RequestsChecked' /\ request' \in [Principals -> Request]
    BY <1>1, <2>1, <2>2, <2>3, OneRequest DEF Unused
  <2>5. QED
    BY <2>1, <2>4, RequestOnly
<1>4. QED
  BY <1>2, <1>3

-----------------------------------------------------------------------------
(* Administration and time                                                 *)

\* What is taken away is marked on the requests it was taken from.
LEMMA TakingStep ==
    ASSUME AInv, NEW P, request' = Overtaken(P),
           \A p \in Principals \ P : Alive(p) => Alive(p)',
           \A p \in Principals \ P : \A t \in {request[p].tenant} : Permitted(p, t) => Permitted(p, t)',
           UNCHANGED <<login, hits, checks, uncounted>>,
           status' \in {"active", "disabled"}, disabling' \in BOOLEAN, token' \in BOOLEAN,
           assigned' \subseteq Tenants, elevated' \subseteq Tenants,
           session' \in [Sessions -> [status : {"unused", "live", "gone"},
                                      active : Tenants \cup {NoTenant}, late : BOOLEAN]],
           LateWhileDisabling'
    PROVE  AInv'
<1>1. /\ RequestsChecked'
      /\ request' \in [Principals -> [stage : {"idle", "known", "granted", "scoped"},
                                      tenant : Tenants \cup {NoTenant}, rows : SUBSET Tenants,
                                      overtaken : BOOLEAN]]
  BY MarkedChecked DEF AInv
<1>2. QED
  BY <1>1 DEF AInv, TypeOK, ChecksCounted, Counted

\* What an administrator gives leaves the requests under way checked.
LEMMA GivingStep ==
    ASSUME AInv, UNCHANGED <<request, token, login, hits, checks, uncounted>>,
           status' \in {"active", "disabled"}, status = "active" => status' = "active",
           disabling' \in BOOLEAN,
           assigned \subseteq assigned', elevated \subseteq elevated',
           assigned' \subseteq Tenants, elevated' \subseteq Tenants,
           session' \in [Sessions -> [status : {"unused", "live", "gone"},
                                      active : Tenants \cup {NoTenant}, late : BOOLEAN]],
           \A s \in Sessions : session'[s].status = session[s].status,
           LateWhileDisabling'
    PROVE  AInv'
<1>1. ASSUME NEW p \in Principals, NEW t
      PROVE  (Alive(p) => Alive(p)') /\ (Permitted(p, t) => Permitted(p, t)')
  BY <1>1 DEF Alive, Permitted, Principals
<1>2. RequestsChecked'
  BY <1>1, NothingTaken DEF AInv
<1>3. QED
  BY <1>2 DEF AInv, TypeOK, ChecksCounted, Counted

\* Whatever is taken from the account is marked on the requests of its sessions.
LEMMA SessionsTaken ==
    ASSUME AInv, request' = Overtaken(Sessions),
           UNCHANGED <<assigned, elevated, token, login, hits, checks, uncounted>>,
           status' \in {"active", "disabled"}, disabling' \in BOOLEAN,
           session' \in [Sessions -> [status : {"unused", "live", "gone"},
                                      active : Tenants \cup {NoTenant}, late : BOOLEAN]],
           LateWhileDisabling'
    PROVE  AInv'
<1>1. ASSUME NEW p \in Principals \ Sessions, NEW t
      PROVE  (Alive(p) => Alive(p)') /\ (Permitted(p, t) => Permitted(p, t)')
  BY <1>1 DEF Alive, Permitted, Principals
<1>2. token' \in BOOLEAN /\ assigned' \subseteq Tenants /\ elevated' \subseteq Tenants
  BY DEF AInv, TypeOK
<1>3. QED
  BY <1>1, <1>2, TakingStep

\* A grant on t is taken from the requests that hold it; those that have not
\* asked yet will find it gone.
LEMMA GrantTaken ==
    ASSUME AInv, NEW t \in Tenants, request' = Overtaken(GrantedOn(t)),
           UNCHANGED <<status, disabling, token, login, hits, checks, uncounted>>,
           assigned' \subseteq Tenants, elevated' \subseteq Tenants,
           assigned \ {t} \subseteq assigned', elevated \ {t} \subseteq elevated',
           session' \in [Sessions -> [status : {"unused", "live", "gone"},
                                      active : Tenants \cup {NoTenant}, late : BOOLEAN]],
           \A s \in Sessions : session'[s].status = session[s].status,
           LateWhileDisabling'
    PROVE  AInv'
<1>1. ASSUME NEW p \in Principals \ GrantedOn(t)
      PROVE  /\ Alive(p) => Alive(p)'
             /\ \A u \in {request[p].tenant} : Permitted(p, u) => Permitted(p, u)'
  <2>1. CASE p = "token"
    BY <2>1 DEF Alive, Permitted
  <2>2. CASE p \in Sessions /\ p # "token"
    <3>1. request[p].tenant # t /\ session'[p].status = session[p].status
      BY <1>1, <2>2 DEF GrantedOn
    <3>2. Alive(p) => Alive(p)'
      BY <2>2, <3>1 DEF Alive
    <3>3. ASSUME NEW u, u # t, Permitted(p, u)
          PROVE  Permitted(p, u)'
      <4>1. status' = "active" /\ session'[p].status = "live" /\ (HasGlobalScope(Role) \/ u \in assigned \cup elevated)
        BY <2>2, <3>1, <3>3 DEF Permitted
      <4>2. HasGlobalScope(Role) \/ u \in assigned' \cup elevated'
        BY <3>3, <4>1
      <4>3. QED
        BY <2>2, <4>1, <4>2 DEF Permitted
    <3>4. QED
      BY <3>1, <3>2, <3>3
  <2>3. QED
    BY <1>1, <2>1, <2>2 DEF Principals
<1>2. status' \in {"active", "disabled"} /\ disabling' \in BOOLEAN /\ token' \in BOOLEAN
  BY DEF AInv, TypeOK
<1>3. QED
  BY <1>1, <1>2, TakingStep

LEMMA LeftTenantFact ==
    ASSUME AInv, NEW t \in Tenants, session' = LeftTenant(t), UNCHANGED <<status, disabling>>
    PROVE  /\ session' \in [Sessions -> [status : {"unused", "live", "gone"},
                                         active : Tenants \cup {NoTenant}, late : BOOLEAN]]
           /\ \A s \in Sessions : session'[s].status = session[s].status
           /\ LateWhileDisabling'
<1>1. session \in [Sessions -> [status : {"unused", "live", "gone"},
                                active : Tenants \cup {NoTenant}, late : BOOLEAN]]
  BY DEF AInv, TypeOK
<1>2. \A s \in Sessions :
         session'[s] = IF session[s].active = t THEN [session[s] EXCEPT !.active = NoTenant] ELSE session[s]
  BY DEF LeftTenant
<1>3. /\ session' \in [Sessions -> [status : {"unused", "live", "gone"},
                                    active : Tenants \cup {NoTenant}, late : BOOLEAN]]
      /\ \A s \in Sessions : session'[s].status = session[s].status /\ session'[s].late = session[s].late
  BY <1>1, <1>2 DEF LeftTenant
<1>4. LateWhileDisabling'
  BY <1>3 DEF AInv, LateWhileDisabling
<1>5. QED
  BY <1>3, <1>4

LEMMA AdministerStep ==
    ASSUME AInv, Administer
    PROVE  AInv'
<1> DEFINE Session == [status : {"unused", "live", "gone"}, active : Tenants \cup {NoTenant}, late : BOOLEAN]
<1>1. /\ session \in [Sessions -> Session] /\ status \in {"active", "disabled"} /\ disabling \in BOOLEAN
      /\ assigned \subseteq Tenants /\ elevated \subseteq Tenants /\ token \in BOOLEAN
  BY DEF AInv, TypeOK
<1>2. CASE BeginDisable
  <2>1. session' = [s \in Sessions |-> Revoked(s)]
    BY <1>2 DEF BeginDisable
  <2>2. session' \in [Sessions -> Session] /\ \A s \in Sessions : session'[s].status # "live"
    BY <2>1, RevokedFact DEF AInv
  <2>3. LateWhileDisabling'
    BY <1>2, <2>2 DEF LateWhileDisabling, BeginDisable
  <2>4. /\ request' = Overtaken(Sessions)
        /\ UNCHANGED <<status, assigned, elevated, token, login, hits, checks, uncounted>>
    BY <1>2 DEF BeginDisable
  <2>5. disabling' \in BOOLEAN
    BY <1>2 DEF BeginDisable
  <2>6. QED
    BY <1>1, <2>2, <2>3, <2>4, <2>5, SessionsTaken
<1>3. CASE CommitDisable
  <2>1. LateWhileDisabling'
    BY <1>3 DEF CommitDisable, AInv, LateWhileDisabling
  <2>2. /\ request' = Overtaken(Sessions) /\ status' = "disabled" /\ disabling' = FALSE
        /\ UNCHANGED <<assigned, elevated, session, token, login, hits, checks, uncounted>>
    BY <1>3 DEF CommitDisable
  <2>3. QED
    BY <1>1, <2>1, <2>2, SessionsTaken
<1>4. CASE AbortDisable \/ Enable
  <2>1. /\ disabling' = FALSE /\ status' = "active"
        /\ session' = [s \in Sessions |-> [session[s] EXCEPT !.late = FALSE]]
        /\ UNCHANGED <<assigned, elevated, token, login, hits, checks, uncounted, request>>
    BY <1>4 DEF AbortDisable, Enable, AInv, LateWhileDisabling, TypeOK
  <2>2. session' \in [Sessions -> Session] /\ \A s \in Sessions : session'[s].status = session[s].status
    BY <1>1, <2>1
  <2>3. LateWhileDisabling'
    BY <2>1 DEF LateWhileDisabling
  <2>4. QED
    BY <1>1, <2>1, <2>2, <2>3, GivingStep
<1>5. ASSUME NEW t \in Tenants, Assign(t) \/ GrantElevation(t)
      PROVE  AInv'
  <2>1. LateWhileDisabling'
    BY <1>5 DEF AInv, LateWhileDisabling, Assign, GrantElevation
  <2>2. QED
    BY <1>1, <1>5, <2>1, GivingStep DEF Assign, GrantElevation
<1>6. ASSUME NEW t \in Tenants, RemoveAssignment(t) \/ RevokeElevation(t)
      PROVE  AInv'
  <2>1. /\ session' = LeftTenant(t) /\ request' = Overtaken(GrantedOn(t))
        /\ UNCHANGED <<status, disabling, token, login, hits, checks, uncounted>>
        /\ assigned' \subseteq assigned /\ elevated' \subseteq elevated
        /\ assigned \ {t} \subseteq assigned' /\ elevated \ {t} \subseteq elevated'
    BY <1>6 DEF RemoveAssignment, RevokeElevation
  <2>2. /\ session' \in [Sessions -> Session] /\ LateWhileDisabling'
        /\ \A s \in Sessions : session'[s].status = session[s].status
    BY <2>1, LeftTenantFact
  <2>3. QED
    BY <1>1, <2>1, <2>2, GrantTaken
<1>7. ASSUME NEW t \in Tenants, ElevationExpires(t)
      PROVE  AInv'
  <2>1. LateWhileDisabling'
    BY <1>7 DEF AInv, LateWhileDisabling, ElevationExpires
  <2>2. /\ elevated' = elevated \ {t} /\ request' = Overtaken(GrantedOn(t))
        /\ UNCHANGED <<status, disabling, assigned, session, token, login, hits, checks, uncounted>>
    BY <1>7 DEF ElevationExpires
  <2>3. QED
    BY <1>1, <2>1, <2>2, GrantTaken
<1>8. QED
  BY <1>2, <1>3, <1>4, <1>5, <1>6, <1>7 DEF Administer

LEMMA TokenStep == ASSUME AInv, TokenEnds PROVE AInv'
<1>1. /\ token' = FALSE /\ request' = Overtaken({"token"})
      /\ UNCHANGED <<status, disabling, assigned, elevated, session, login, hits, checks, uncounted>>
  BY DEF TokenEnds
<1>2. LateWhileDisabling'
  BY <1>1 DEF AInv, LateWhileDisabling
<1>3. ASSUME NEW p \in Principals \ {"token"}, NEW t
      PROVE  (Alive(p) => Alive(p)') /\ (Permitted(p, t) => Permitted(p, t)')
  BY <1>1, <1>3 DEF Alive, Permitted
<1>4. QED
  BY <1>1, <1>2, <1>3, TakingStep DEF AInv, TypeOK

LEMMA WindowStep == ASSUME AInv, NextIpWindow \/ NextEmailWindow PROVE AInv'
<1>1. /\ hits \in [ip : [Clients -> 0..IpLimit], email : 0..EmailLimit]
      /\ uncounted \in 0..(MaxOutages + Cardinality(Clients))
      /\ checks + Cardinality(Counted) <= hits.email + uncounted
  BY DEF AInv, TypeOK, ChecksCounted
<1>2. UNCHANGED <<status, disabling, assigned, elevated, session, token, login, request>>
  BY DEF NextIpWindow, NextEmailWindow
<1>3. RequestsChecked' /\ LateWhileDisabling' /\ Counted' = Counted
  BY <1>2 DEF AInv, RequestsChecked, Checked, Alive, Permitted, LateWhileDisabling, Counted
<1>4. CASE NextIpWindow
  <2>1. /\ hits' \in [ip : [Clients -> 0..IpLimit], email : 0..EmailLimit] /\ hits'.email = hits.email
        /\ UNCHANGED <<checks, uncounted>>
    BY <1>1, <1>4, AccessAssumption DEF NextIpWindow
  <2>2. QED
    BY <1>1, <1>2, <1>3, <2>1 DEF AInv, TypeOK, ChecksCounted
<1>5. CASE NextEmailWindow
  <2>1. /\ hits' \in [ip : [Clients -> 0..IpLimit], email : 0..EmailLimit] /\ hits'.email = 0
        /\ checks' = 0 /\ uncounted' = Cardinality(Counted)
    BY <1>1, <1>5, AccessAssumption DEF NextEmailWindow
  <2>2. Cardinality(Counted) \in 0..Cardinality(Clients) /\ Cardinality(Clients) \in Nat
    BY CountedFact
  <2>3. /\ checks' \in 0..(EmailLimit + MaxOutages + Cardinality(Clients)) /\ uncounted' \in 0..(MaxOutages + Cardinality(Clients))
    BY <2>1, <2>2, AccessAssumption
  <2>4. ChecksCounted'
    BY <1>3, <2>1, <2>2 DEF ChecksCounted
  <2>5. QED
    BY <1>2, <1>3, <2>1, <2>3, <2>4 DEF AInv, TypeOK
<1>6. QED
  BY <1>4, <1>5

LEMMA AInvStep == AInv /\ [Next]_vars => AInv'
<1> SUFFICES ASSUME AInv, [Next]_vars PROVE AInv'
  OBVIOUS
<1>1. CASE UNCHANGED vars
  BY <1>1 DEF vars, AInv, TypeOK, RequestsChecked, Checked, Alive, Permitted, LateWhileDisabling, ChecksCounted,
           Counted
<1>2. QED
  BY <1>1, LoginStep, WorkStep, RespondStep, ServiceStep, TokenStep, WindowStep, AdministerStep DEF Next

-----------------------------------------------------------------------------

LEMMA AInvAlways == Spec => []AInv
<1>1. Init => AInv
  BY AInvInit
<1>2. AInv /\ [Next]_vars => AInv'
  BY AInvStep
<1>3. QED
  BY <1>1, <1>2, PTL DEF Spec

\* No request, login, limit or session leaves its type, whatever overlaps and
\* however long the windows of the limiter run.
THEOREM AccessTypes == Spec => []TypeOK
<1>1. AInv => TypeOK
  BY DEF AInv
<1>2. QED
  BY <1>1, AInvAlways, PTL

\* Any number of clients, sessions and administrators' steps between the three
\* reads of a request (auth/session.ts, auth/tenant.ts, db/client.ts): rows are
\* open to whom they are permitted now, or to a request already under way when
\* that changed.
THEOREM RevocationHolds == Spec => []NothingNewAfterRevocation
<1>1. AInv => NothingNewAfterRevocation
  BY AInvImplies
<1>2. QED
  BY <1>1, AInvAlways, PTL

\* Disabling an account (settings/actions.ts) leaves no session but those of
\* logins that had read the account before the disabling was committed.
THEOREM DisablingEndsSessions == Spec => []DisabledHasOnlyLateSessions
<1>1. AInv => DisabledHasOnlyLateSessions
  BY AInvImplies
<1>2. QED
  BY <1>1, AInvAlways, PTL

\* However many logins overlap and whenever the windows turn, the limiter
\* (lib/ratelimit.ts) bounds the passwords verified for an account in a window,
\* by what it let through in it and what was still to be verified when it began.
THEOREM LoginIsLimited == Spec => []ChecksWithinLimit
<1>1. AInv => ChecksWithinLimit
  BY AInvImplies
<1>2. QED
  BY <1>1, AInvAlways, PTL

=============================================================================
