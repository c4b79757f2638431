\* A webhook that arrives before its tick commits, behind a cap of one call.
CONSTANTS
  Leads = {l1}
  Workers = {w1}
  Calls = {k1, k2}
  c1 = c1
  p1 = p1
  Campaigns = {c1}
  CampaignOf <- OneCampaign
  Phones = {p1}
  PhoneOf <- SharedPhone
  MaxAttempts = 2
  RowBound = 3
  TenantLimit = 1
  CampaignLimit = 2
  BatchLimit = 2
  MaxCrashes = 0
  SignedProvider = TRUE
  EarlyWebhooks = TRUE
  Results <- TwoReplies
  Verdicts = {"qualified"}
  Inputs = {}
  NoLead = NoLead
  NoCall = NoCall
SPECIFICATION FairSpec
PROPERTY
  CallingEnds
CHECK_DEADLOCK FALSE
