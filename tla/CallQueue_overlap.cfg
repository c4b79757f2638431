\* No crash, no early webhook: only a call longer than the lock.
CONSTANTS
  Leads = {l1}
  Workers = {w1, w2}
  Calls = {k1, k2}
  c1 = c1
  p1 = p1
  Campaigns = {c1}
  CampaignOf <- OneCampaign
  Phones = {p1}
  PhoneOf <- SharedPhone
  MaxAttempts = 2
  RowBound = 3
  TenantLimit = 2
  CampaignLimit = 2
  BatchLimit = 2
  MaxCrashes = 0
  SignedProvider = TRUE
  EarlyWebhooks = FALSE
  Results <- TwoReplies
  Verdicts = {"qualified"}
  Inputs = {}
  NoLead = NoLead
  NoCall = NoCall
SPECIFICATION Spec
INVARIANT
  OneLiveCall
CHECK_DEADLOCK FALSE
