------------------------------- MODULE Access -------------------------------
(***************************************************************************)
(* Who may work on which client's data: login and its rate limits          *)
(* (api/auth/login, lib/ratelimit.ts, migration 0011), sessions            *)
(* (auth/session.ts), assignments and elevations (settings/actions.ts),    *)
(* the grant check of a request (auth/tenant.ts, lib/actions.ts), service  *)
(* tokens (auth/service.ts) and the tenant scope of a transaction          *)
(* (db/client.ts with the policies of migration 0002).                     *)
(*                                                                         *)
(* A request reads its session, its grant and the rows it wants in three   *)
(* transactions: administrators act between them.  One staff account, one  *)
(* service token; a second administrator changes the account.              *)
(***************************************************************************)
EXTENDS Integers, FiniteSets

CONSTANTS
    Role,         \* users.role of the account
    Tenants,
    Sessions,     \* bound: sessions ever created
    Clients,      \* addresses the account logs in from
    IpLimit,      \* RateLimits.loginPerIp
    EmailLimit,   \* RateLimits.loginPerEmail
    MaxOutages,   \* bound: the limiter lets a login through uncounted below this many
    TokenTenant   \* service_tokens.tenant_id

NoTenant == "none"

ASSUME AccessAssumption ==
    /\ Role \in {"agency_admin", "campaign_manager", "operations_manager", "analyst"}
    /\ IsFiniteSet(Clients)
    /\ IpLimit \in Nat \ {0} /\ EmailLimit \in Nat \ {0} /\ MaxOutages \in Nat
    /\ TokenTenant \in Tenants /\ NoTenant \notin Tenants
    /\ "token" \notin Sessions

VARIABLES
    status,       \* users.status
    disabling,    \* setUserStatus has revoked the sessions and not committed
    assigned,     \* user_tenant_assignments
    elevated,     \* access_elevations in force
    session,      \* the sessions rows
    token,        \* whether the service token is valid
    login,        \* login[c]: how far a login from c is
    hits,         \* rate_limit_counters of the current windows
    checks,       \* passwords verified in the account's current window
    uncounted,    \* history: logins past the account's rule that this window did not
                  \* count, for want of the limiter or by the window before
    request       \* request[p]: the request under way for a session or the token

vars == <<status, disabling, assigned, elevated, session, token, login, hits, checks, uncounted, request>>

Principals == Sessions \cup {"token"}
NoRequest == [stage |-> "idle", tenant |-> NoTenant, rows |-> {}, overtaken |-> FALSE]

TypeOK ==
    /\ status \in {"active", "disabled"} /\ disabling \in BOOLEAN /\ token \in BOOLEAN
    /\ assigned \subseteq Tenants /\ elevated \subseteq Tenants
    /\ session \in [Sessions -> [status : {"unused", "live", "gone"},
                                 active : Tenants \cup {NoTenant}, late : BOOLEAN]]
    /\ login \in [Clients -> {"idle", "admitted", "counted", "verified"}]
    /\ hits \in [ip : [Clients -> 0..IpLimit], email : 0..EmailLimit]
    /\ checks \in 0..(EmailLimit + MaxOutages + Cardinality(Clients))
    /\ uncounted \in 0..(MaxOutages + Cardinality(Clients))
    /\ request \in [Principals -> [stage : {"idle", "known", "granted", "scoped"},
                                   tenant : Tenants \cup {NoTenant}, rows : SUBSET Tenants,
                                   overtaken : BOOLEAN]]

Init ==
    /\ status = "active" /\ disabling = FALSE /\ token = TRUE
    /\ assigned \in SUBSET Tenants /\ elevated = {}
    /\ session = [s \in Sessions |-> [status |-> "unused", active |-> NoTenant, late |-> FALSE]]
    /\ login = [c \in Clients |-> "idle"]
    /\ hits = [ip |-> [c \in Clients |-> 0], email |-> 0]
    /\ checks = 0 /\ uncounted = 0
    /\ request = [p \in Principals |-> NoRequest]

-----------------------------------------------------------------------------
(* Roles and scopes                                                        *)

HasGlobalScope(role) == role = "agency_admin"

\* Permissions of the requests modelled here; entering a client needs none.
Can(role, permission) ==
    CASE role = "agency_admin" -> TRUE
      [] role = "campaign_manager" -> permission \in {"lead:read", "campaign:write", "secret:write", "pii:reveal"}
      [] role = "operations_manager" -> permission \in {"lead:read", "lead:write", "review:resolve",
                                                        "callback:write", "dnc:write", "pii:reveal"}
      [] role = "analyst" -> permission = "lead:read"

Unused == <<status, disabling, assigned, elevated, session, token, login, hits, checks, uncounted>>

\* Mutation: the client the session was working on counts as a grant.
MayEnterActive(s, t) ==
    HasGlobalScope(Role) \/ t \in assigned \cup elevated \/ session[s].active = t

\* resolveGrant
MayEnter(s, t) == HasGlobalScope(Role) \/ t \in assigned \cup elevated

\* scopeFor: pinned to the one tenant, for an administrator as well.
ScopeOf(t) == [tenant |-> t, global |-> FALSE]

\* app.tenant_visible in the policies of every tenant-scoped table.
Visible(scope, t) == scope.global \/ scope.tenant = t

-----------------------------------------------------------------------------
(* Login                                                                   *)

\* Mutation: the count is compared before it is incremented.
RoomLoose(count, limit) == count <= limit

\* rate_limit_consume, at cost 1: the first request of a window inserts its row
\* and is not compared; the update of later ones matches no row of a full window.
Room(count, limit) == count = 0 \/ count + 1 <= limit

\* consumeRateLimit fails open.
PassIpRule(c) ==
    /\ login[c] = "idle"
    /\ \/ Room(hits.ip[c], IpLimit) /\ hits' = [hits EXCEPT !.ip[c] = @ + 1]
       \/ UNCHANGED hits
    /\ login' = [login EXCEPT ![c] = "admitted"]
    /\ UNCHANGED <<status, disabling, assigned, elevated, session, token, checks, uncounted, request>>

\* Mutation: the account's rule counts by address as well.
PassEmailRuleByAddress(c) ==
    /\ login[c] = "admitted" /\ hits.ip[c] <= EmailLimit
    /\ login' = [login EXCEPT ![c] = "counted"]
    /\ UNCHANGED <<status, disabling, assigned, elevated, session, token, hits, checks, uncounted, request>>

PassEmailRule(c) ==
    /\ login[c] = "admitted"
    /\ \/ /\ Room(hits.email, EmailLimit)
          /\ hits' = [hits EXCEPT !.email = @ + 1] /\ UNCHANGED uncounted
       \/ /\ uncounted < MaxOutages /\ uncounted' = uncounted + 1 /\ UNCHANGED hits
    /\ login' = [login EXCEPT ![c] = "counted"]
    /\ UNCHANGED <<status, disabling, assigned, elevated, session, token, checks, request>>

\* A request the first rule stops does not spend the account's budget.
DenyLogin(c) ==
    /\ login[c] = "admitted" /\ ~Room(hits.email, EmailLimit)
    /\ login' = [login EXCEPT ![c] = "idle"]
    /\ UNCHANGED <<status, disabling, assigned, elevated, session, token, hits, checks, uncounted, request>>

\* The account is read, then the password is verified (some 300 ms), in
\* whatever window that falls.
VerifyPassword(c, right) ==
    /\ login[c] = "counted"
    /\ login' = [login EXCEPT ![c] = IF right /\ status = "active" THEN "verified" ELSE "idle"]
    /\ checks' = checks + 1
    /\ UNCHANGED <<status, disabling, assigned, elevated, session, token, hits, uncounted, request>>

CreateSession(c, s) ==
    /\ login[c] = "verified" /\ session[s].status = "unused"
    /\ session' = [session EXCEPT ![s].status = "live",
                                  ![s].late = disabling \/ status = "disabled"]
    /\ login' = [login EXCEPT ![c] = "idle"]
    /\ UNCHANGED <<status, disabling, assigned, elevated, token, hits, checks, uncounted, request>>

\* Windows are fixed and aligned, five of an address to one of an account: the
\* next one starts at zero for everybody.
NextIpWindow ==
    /\ \E c \in Clients : hits.ip[c] > 0
    /\ hits' = [hits EXCEPT !.ip = [c \in Clients |-> 0]]
    /\ UNCHANGED <<status, disabling, assigned, elevated, session, token, login, checks, uncounted, request>>

\* Logins that were counted and have not begun to verify.
Counted == {c \in Clients : login[c] = "counted"}

NextEmailWindow ==
    /\ <<hits.email, checks, uncounted>> # <<0, 0, 0>>
    /\ hits' = [ip |-> [c \in Clients |-> 0], email |-> 0] /\ checks' = 0
    /\ uncounted' = Cardinality(Counted)
    /\ UNCHANGED <<status, disabling, assigned, elevated, session, token, login, request>>

-----------------------------------------------------------------------------
(* Requests                                                                *)

\* resolveSession joins the session with its user.
Authenticate(s, permission) ==
    /\ request[s].stage = "idle"
    /\ session[s].status = "live" /\ status = "active"
    /\ permission = "enter" \/ Can(Role, permission)
    /\ request' = [request EXCEPT ![s] = [NoRequest EXCEPT !.stage = "known"]]
    /\ UNCHANGED Unused

\* The tenant id of a URL or a form is a wish; it is granted or refused.
RequireGrant(s, t) ==
    /\ request[s].stage = "known"
    /\ request' = [request EXCEPT ![s] = IF MayEnter(s, t) THEN [@ EXCEPT !.stage = "granted", !.tenant = t]
                                         ELSE NoRequest]
    /\ UNCHANGED Unused

\* The transaction sees what the policies let its scope see.
Scoped(p, t) ==
    [request[p] EXCEPT !.stage = "scoped", !.tenant = t,
                       !.rows = {u \in Tenants : Visible(ScopeOf(t), u)}]

WithTenant(s) ==
    /\ request[s].stage = "granted"
    /\ request' = [request EXCEPT ![s] = Scoped(s, request[s].tenant)]
    /\ UNCHANGED Unused

\* POST /api/tenant ends by writing the session instead.
EnterTenant(s) ==
    /\ request[s].stage = "granted"
    /\ session' = [session EXCEPT ![s].active = request[s].tenant]
    /\ request' = [request EXCEPT ![s] = NoRequest]
    /\ UNCHANGED <<status, disabling, assigned, elevated, token, login, hits, checks, uncounted>>

AuthenticateService ==
    /\ request["token"].stage = "idle" /\ token
    /\ request' = [request EXCEPT !["token"] = [NoRequest EXCEPT !.stage = "granted", !.tenant = TokenTenant]]
    /\ UNCHANGED Unused

WithServiceScope ==
    /\ request["token"].stage = "granted"
    /\ request' = [request EXCEPT !["token"] = Scoped("token", TokenTenant)]
    /\ UNCHANGED Unused

Respond(p) ==
    /\ request[p].stage = "scoped"
    /\ request' = [request EXCEPT ![p] = NoRequest]
    /\ UNCHANGED Unused

-----------------------------------------------------------------------------
(* Administration and time                                                 *)

\* What changes underneath it is marked on a request under way.
Overtaken(P) ==
    [p \in Principals |->
        [request[p] EXCEPT !.overtaken = @ \/ (p \in P /\ request[p].stage # "idle")]]

\* The requests that have been granted client t.
GrantedOn(t) == {s \in Sessions : request[s].tenant = t}

\* Mutation: sessions that never entered a client are not revoked.
RevokedActive(s) ==
    IF session[s].status = "live" /\ session[s].active # NoTenant
    THEN [session[s] EXCEPT !.status = "gone", !.late = FALSE] ELSE session[s]

\* revokeAllSessionsForUser commits on a connection of its own, before the
\* status of the account does.
Revoked(s) ==
    IF session[s].status = "live" THEN [session[s] EXCEPT !.status = "gone", !.late = FALSE] ELSE session[s]

BeginDisable ==
    /\ status = "active" /\ ~disabling
    /\ disabling' = TRUE
    /\ session' = [s \in Sessions |-> Revoked(s)]
    /\ request' = Overtaken(Sessions)
    /\ UNCHANGED <<status, assigned, elevated, token, login, hits, checks, uncounted>>

CommitDisable ==
    /\ disabling /\ disabling' = FALSE
    /\ status' = "disabled" /\ request' = Overtaken(Sessions)
    /\ UNCHANGED <<assigned, elevated, session, token, login, hits, checks, uncounted>>

\* The rest of the action failed: the sessions stay revoked.
AbortDisable ==
    /\ disabling /\ disabling' = FALSE
    /\ session' = [s \in Sessions |-> [session[s] EXCEPT !.late = FALSE]]
    /\ UNCHANGED <<status, assigned, elevated, token, login, hits, checks, uncounted, request>>

Enable ==
    /\ status = "disabled" /\ status' = "active"
    /\ session' = [s \in Sessions |-> [session[s] EXCEPT !.late = FALSE]]
    /\ UNCHANGED <<disabling, assigned, elevated, token, login, hits, checks, uncounted, request>>

EndSession(s) ==
    /\ session[s].status = "live"
    /\ session' = [session EXCEPT ![s] = Revoked(s)] /\ request' = Overtaken({s})
    /\ UNCHANGED <<status, disabling, assigned, elevated, token, login, hits, checks, uncounted>>

Assign(t) ==
    /\ assigned' = assigned \cup {t} /\ t \notin assigned
    /\ UNCHANGED <<status, disabling, elevated, session, token, login, hits, checks, uncounted, request>>

GrantElevation(t) ==
    /\ elevated' = elevated \cup {t} /\ t \notin elevated
    /\ UNCHANGED <<status, disabling, assigned, session, token, login, hits, checks, uncounted, request>>

\* Sessions that are working on the client are sent back to choose one.
LeftTenant(t) ==
    [s \in Sessions |-> IF session[s].active = t THEN [session[s] EXCEPT !.active = NoTenant] ELSE session[s]]

RemoveAssignment(t) ==
    /\ t \in assigned /\ assigned' = assigned \ {t}
    /\ session' = LeftTenant(t) /\ request' = Overtaken(GrantedOn(t))
    /\ UNCHANGED <<status, disabling, elevated, token, login, hits, checks, uncounted>>

RevokeElevation(t) ==
    /\ t \in elevated /\ elevated' = elevated \ {t}
    /\ session' = LeftTenant(t) /\ request' = Overtaken(GrantedOn(t))
    /\ UNCHANGED <<status, disabling, assigned, token, login, hits, checks, uncounted>>

\* An elevation that runs out leaves the session where it is.
ElevationExpires(t) ==
    /\ t \in elevated /\ elevated' = elevated \ {t} /\ request' = Overtaken(GrantedOn(t))
    /\ UNCHANGED <<status, disabling, assigned, session, token, login, hits, checks, uncounted>>

TokenEnds ==
    /\ token /\ token' = FALSE /\ request' = Overtaken({"token"})
    /\ UNCHANGED <<status, disabling, assigned, elevated, session, login, hits, checks, uncounted>>

-----------------------------------------------------------------------------

Login(c) ==
    \/ PassIpRule(c) \/ PassEmailRule(c) \/ DenyLogin(c)
    \/ \E right \in BOOLEAN : VerifyPassword(c, right)
    \/ \E s \in Sessions : CreateSession(c, s)

Work(s) ==
    \/ \E permission \in {"enter", "lead:read", "review:resolve"} : Authenticate(s, permission)
    \/ \E t \in Tenants : RequireGrant(s, t)
    \/ WithTenant(s) \/ EnterTenant(s) \/ EndSession(s)

Administer ==
    \/ BeginDisable \/ CommitDisable \/ AbortDisable \/ Enable
    \/ \E t \in Tenants : \/ Assign(t) \/ GrantElevation(t) \/ RemoveAssignment(t)
                          \/ RevokeElevation(t) \/ ElevationExpires(t)

Next ==
    \/ \E c \in Clients : Login(c)
    \/ \E s \in Sessions : Work(s)
    \/ \E p \in Principals : Respond(p)
    \/ AuthenticateService \/ WithServiceScope \/ TokenEnds
    \/ NextIpWindow \/ NextEmailWindow
    \/ Administer

Spec == Init /\ [][Next]_vars

-----------------------------------------------------------------------------
(* Properties                                                              *)

\* What a principal may see now.
Permitted(p, t) ==
    IF p = "token" THEN token /\ t = TokenTenant
    ELSE status = "active" /\ session[p].status = "live"
         /\ (HasGlobalScope(Role) \/ t \in assigned \cup elevated)

\* Session, grant and rows are read one after the other, while assignments,
\* elevations, sessions and the account come and go: rows are open only to
\* whom they are permitted now, or to a request that was under way when its own
\* session, account, grant or token went.  Nothing that begins later reaches
\* them, whatever its session says, and nothing that was checked later.
NothingNewAfterRevocation ==
    \A p \in Principals : \A t \in request[p].rows : Permitted(p, t) \/ request[p].overtaken

\* "A disabled account with a live session is still an active account": the
\* only sessions that outlive the disabling are those of a login that had read
\* the account before it was committed.
DisabledHasOnlyLateSessions ==
    status = "disabled" => \A s \in Sessions : session[s].status = "live" => session[s].late

\* Each login consumes its place in the account's window and verifies its
\* password in another transaction, beside logins from other addresses and after
\* the window may have turned: the passwords verified in one window stay within
\* its limit, but for those the limiter let through because it was unavailable
\* and those an earlier window had let through when it ended.
ChecksWithinLimit == checks <= EmailLimit + uncounted

=============================================================================
