SPECIFICATION FairSpec
CONSTANTS
    HotThreshold = 75
    InterestedThreshold = 50
    BoundaryBand = 5
    MinConfidence = 70
    Required = {"timeline"}
    Window <- MCWindow
    Answers <- MCAnswers
    MaxCalls = 2
    Grace = 0
    Horizon = 6
    MaxMoves = 1
INVARIANTS TypeOK DecisionsAgree SureRefusalActsAtOnce HotMeansNeed DeferralOpens RowsPerAnswer NoFalseMiss
PROPERTIES ClosedStaysClosed CallbacksClose
CHECK_DEADLOCK FALSE
