SPECIFICATION Spec
CONSTANTS
    Objs = {s1}
    Ops = {172}
    DataLens = {256}
    DataByte = 7
    WireBytes = {1}
    MaxWire = 1
    MaxChunks = 2
    MaxArrays = 3
CHECK_DEADLOCK FALSE
INVARIANT ParseAgrees
