SPECIFICATION Spec
CONSTANTS
    Propose <- proposedSets
    Close <- closeLedger
    I = I
    A = A
    B = B
    USD = USD
    NATIVE = NATIVE
    NoAccount = NoAccount
    Account <- Accounts
    CreditAsset <- Credits
    getIssuer <- Issuers
    INT64_MAX = 300
    SeqPerLedger = 4
    UINT8_MAX = 3
    MaxSigners = 1
    InflationRate <- Ten
    InflationWinMin <- One
    InflationVoteMin = 20
    InflationFrequency = 2
    Scenarios <- AllScenarios
INVARIANTS
    InvariantsHold
    LumensAreConserved
    LiabilitiesAreOffers
    NoReplay
    NoException
CHECK_DEADLOCK FALSE
