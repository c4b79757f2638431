SPECIFICATION Spec
CONSTANTS
    Role = "campaign_manager"
    Tenants = {t1, t2}
    Sessions = {s1}
    Clients = {c1, c2}
    IpLimit = 1
    EmailLimit = 1
    MaxOutages = 1
    TokenTenant = t1
INVARIANTS TypeOK NothingNewAfterRevocation DisabledHasOnlyLateSessions ChecksWithinLimit
SYMMETRY Symmetry
