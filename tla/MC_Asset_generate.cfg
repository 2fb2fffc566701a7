CONSTANTS
    Addr = {a1, a2}
    Other = Other
    Broker = Broker
    InvalidAddr = InvalidAddr
    NoChange = NoChange
    NoStore = NoStore
    Values <- MC_Values
    Amounts <- MC_Amounts
    FeeDecimals = 1
    MinFee = 1
    BrokerFee = 1
    CommitMayFail = FALSE
    CallerPurges = TRUE
    SequenceFinal = 255
    MaxChain = 3
    MaxPool = 1
    MaxSyncs = 1
    MaxRestarts = 0
VIEW MC_GenerateView
SPECIFICATION Spec
INVARIANT TypeOK
INVARIANT SignaturesVerify
PROPERTY SelectionRefined
