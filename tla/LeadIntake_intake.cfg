\* Three deliveries, one of them above the limit, two handlers, one fault.
CONSTANTS
    e1 = e1 e2 = e2 e3 = e3 e4 = e4
    d1 = d1 d2 = d2 d3 = d3
    r1 = r1 r2 = r2 p1 = p1 p2 = p2 m1 = m1
    Events = {e1, e2, e3, e4}
    Contact <- MCContact
    Deliveries = {d1, d2, d3}
    Batch <- MCBatch
    App = {d1, d3}
    Campaigns = {1, 2}
    Matching <- MCMatching
    Default = None
    Handlers = {h1, h2}
    MaxEvents = 2
    MaxFaults = 1
    MaxLive = 1
    MaxEdits = 1
    Named <- MCNamed
    None = None
SPECIFICATION FairSpec
INVARIANTS TypeOK AnsweredIsApplied
PROPERTIES ImplementsIntake DeliveriesSettle
CHECK_DEADLOCK FALSE
