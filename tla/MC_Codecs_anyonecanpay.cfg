SPECIFICATION Spec
CONSTANTS
    Modes = {"sighash"}
    Bytes = {0, 1, 57, 58, 255}
    MaxBytes = 3
    Chars <- MC_Chars
    MaxChars = 4
    HashLen = 2
    CksLen = 1
    Checksum <- MC_Checksum
    HashBytes <- MC_HashBytes
    HashTypes = {129, 130}
    Prevouts <- MC_Prevouts
    Seqs = {5, 255}
    Values = {10, 11}
    SequenceFinal = 255
CHECK_DEADLOCK FALSE
INVARIANT SighashCommits
