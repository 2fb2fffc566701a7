CONSTANTS
    Addr = {a1, a2}
    Other = Other
    Broker = Broker
    InvalidAddr = InvalidAddr
    NoChange = NoChange
    NoStore = NoStore
    Values <- MC_Values
    Amounts <- MC_Amounts
    FeeDecimals = 1
    MinFee = 1
    BrokerFee = 1
    CommitMayFail = FALSE
    CallerPurges = TRUE
    SequenceFinal = 255
    MaxChain = 2
    MaxPool = 1
    MaxSyncs = 2
    MaxRestarts = 0

SYMMETRY MC_Symmetry
SPECIFICATION Spec
PROPERTY KeysRetained
