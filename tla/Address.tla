------------------------------ MODULE Address ------------------------------
(***************************************************************************)
(* btc.Address (src/applications/btcproxy/www/js/btc/address.js): the      *)
(* string form is Base58 of version, hash and the first bytes of the       *)
(* double SHA-256 of version and hash.  The hash length and the checksum   *)
(* length are parameters (20 and 4 in the code); the checksum is an        *)
(* operator supplied by the instance.                                      *)
(***************************************************************************)
EXTENDS Base58

CONSTANTS
    HashLen,        \* bytes of an address hash
    CksLen,         \* bytes of the checksum kept
    Checksum(_)     \* first CksLen bytes of SHA256(SHA256(bytes))

Version == 0        \* this.version = 0x00

\* Address.prototype.toString.
AddrToString(hash) ==
    LET prefix == << Version >> \o hash
    IN Encode(prefix \o Checksum(prefix))

\* Mutant: the slice keeps only the hash length, without the version byte.
DecodeStringShort(s) ==
    LET bytes == Decode(s)
        head  == SubSeq(bytes, 1, IF HashLen < Len(bytes) THEN HashLen ELSE Len(bytes))
        cks   == Checksum(head)
    IN CASE \E i \in 1..CksLen : HashLen + i > Len(bytes) \/ cks[i] # bytes[HashLen + i]
              -> [ok |-> FALSE, err |-> "Checksum"]
         [] head[1] # Version -> [ok |-> FALSE, err |-> "Version"]
         [] OTHER -> [ok |-> TRUE, hash |-> Tail(head)]

\* Address.decodeString: the first HashLen+1 bytes (slice clamps), their
\* checksum compared with the next CksLen bytes (a missing byte is
\* undefined and compares unequal), then the version byte is shifted off.
DecodeString(s) ==
    LET bytes == Decode(s)
        head  == SubSeq(bytes, 1, IF HashLen + 1 < Len(bytes) THEN HashLen + 1 ELSE Len(bytes))
        cks   == Checksum(head)
    IN CASE \E i \in 1..CksLen : HashLen + 1 + i > Len(bytes) \/ cks[i] # bytes[HashLen + 1 + i]
              -> [ok |-> FALSE, err |-> "Checksum"]
         [] head[1] # Version -> [ok |-> FALSE, err |-> "Version"]
         [] OTHER -> [ok |-> TRUE, hash |-> Tail(head)]
=============================================================================
