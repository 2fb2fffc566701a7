SPECIFICATION Spec
CONSTANTS
    Objs = {s1, s2}
    Ops = {0, 172}
    DataLens = {1, 75, 76, 255}
    DataByte = 7
    WireBytes = {1, 118}
    MaxWire = 2
    MaxChunks = 2
    MaxArrays = 6
INVARIANT ParseAgrees
CHECK_DEADLOCK FALSE
