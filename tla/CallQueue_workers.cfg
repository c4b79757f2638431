\* Two leads with one phone number, two workers, one crash, unheard answers.
CONSTANTS
  Leads = {l1, l2}
  Workers = {w1, w2}
  Calls = {k1, k2}
  c1 = c1
  p1 = p1
  Campaigns = {c1}
  CampaignOf <- OneCampaign
  Phones = {p1}
  PhoneOf <- SharedPhone
  MaxAttempts = 2
  RowBound = 3
  TenantLimit = 2
  CampaignLimit = 2
  BatchLimit = 2
  MaxCrashes = 1
  SignedProvider = TRUE
  EarlyWebhooks = TRUE
  Results <- TwoReplies
  Verdicts = {"dnc"}
  Inputs = {"import_dnc", "refuse", "unheard"}
  NoLead = NoLead
  NoCall = NoCall
SPECIFICATION Spec
SYMMETRY Symmetric
INVARIANTS
  TypeOK
  ExclusiveClaim
  AttemptLedger
  CallingIsInFlight
PROPERTIES
  DncIsFinal
  ImplementsLedger
CHECK_DEADLOCK FALSE
