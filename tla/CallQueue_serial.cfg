\* Two leads behind a cap of one call, one worker; webhooks after the commit,
\* none lost.
CONSTANTS
  Leads = {l1, l2}
  Workers = {w1}
  Calls = {k1, k2, k3}
  c1 = c1
  p1 = p1
  Campaigns = {c1}
  CampaignOf <- OneCampaign
  Phones = {p1, p2}
  PhoneOf <- OwnPhone
  MaxAttempts = 1
  RowBound = 2
  TenantLimit = 1
  CampaignLimit = 1
  BatchLimit = 2
  MaxCrashes = 1
  SignedProvider = FALSE
  EarlyWebhooks = FALSE
  Results <- TwoReplies
  Verdicts = {"callback"}
  Inputs = {"refuse", "defer"}
  NoLead = NoLead
  NoCall = NoCall
SPECIFICATION FairSpec
INVARIANTS
  WithinCaps
  NoResultDropped
PROPERTIES
  QueuedIsServed
  CallingEnds
CHECK_DEADLOCK FALSE
