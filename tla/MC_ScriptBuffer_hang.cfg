SPECIFICATION FairSpec
CONSTANTS
    Objs = {s1}
    Ops = {172}
    DataLens = {1}
    DataByte = 7
    WireBytes = {78, 128}
    MaxWire = 2
    MaxChunks = 1
    MaxArrays = 2
CHECK_DEADLOCK FALSE
PROPERTY ParseReturns
