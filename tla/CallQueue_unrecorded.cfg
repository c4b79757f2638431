\* A tick that dies after the provider accepted its call.
CONSTANTS
  Leads = {l1}
  Workers = {w1}
  Calls = {k1, k2}
  c1 = c1
  p1 = p1
  Campaigns = {c1}
  CampaignOf <- OneCampaign
  Phones = {p1}
  PhoneOf <- SharedPhone
  MaxAttempts = 2
  RowBound = 3
  TenantLimit = 2
  CampaignLimit = 2
  BatchLimit = 2
  MaxCrashes = 1
  SignedProvider = TRUE
  EarlyWebhooks = FALSE
  Results <- TwoReplies
  Verdicts = {"qualified"}
  Inputs = {}
  NoLead = NoLead
  NoCall = NoCall
SPECIFICATION Spec
INVARIANT
  EveryCallHasARecord
CHECK_DEADLOCK FALSE
