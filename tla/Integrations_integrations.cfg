SPECIFICATION FairSpec
CONSTANTS
    Type <- MCType
    Crm = 1
    MaxSecrets = 3
    Admins = {a1, a2}
INVARIANTS TypeOK SecretsAccountedFor
PROPERTY RefusedLeavesService
