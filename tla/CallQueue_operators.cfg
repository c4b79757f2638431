\* One lead, two workers, one crash, every event of operators and intake.
CONSTANTS
  Leads = {l1}
  Workers = {w1, w2}
  Calls = {k1, k2}
  c1 = c1
  p1 = p1
  Campaigns = {c1}
  CampaignOf <- OneCampaign
  Phones = {p1}
  PhoneOf <- SharedPhone
  MaxAttempts = 2
  RowBound = 3
  TenantLimit = 1
  CampaignLimit = 1
  BatchLimit = 2
  MaxCrashes = 1
  SignedProvider = FALSE
  EarlyWebhooks = TRUE
  Results <- MixedReplies
  Verdicts = {"dnc", "hold", "callback", "callback_untimed", "qualified", "no_conversation"}
  Inputs = {"refuse", "lose", "defer", "analyze", "reject", "confirm", "reschedule", "import_dnc", "pause", "suspend", "reingest", "bad_phone", "barred"}
  NoLead = NoLead
  NoCall = NoCall
SPECIFICATION Spec
SYMMETRY Symmetric
INVARIANTS
  HeldInBudget
  RowsMatchCalls
CHECK_DEADLOCK FALSE
