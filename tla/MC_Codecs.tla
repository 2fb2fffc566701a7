------------------------------ MODULE MC_Codecs ------------------------------
(***************************************************************************)
(* Checks the value codecs: Base58 (base58.js), the address string        *)
(* (address.js) and the signature hash of Tx (tx.js).  Init picks one     *)
(* mode and only that mode's input grows, a symbol or an edit at a time,  *)
(* so every bounded input is a reachable state and the state space is the *)
(* sum of the three parts.                                                *)
(***************************************************************************)
EXTENDS Address, Tx, SequencesExt

CONSTANTS
    Modes,       \* the parts checked: "base58", "address", "sighash"
    Bytes,       \* byte values a Base58 input is made of
    MaxBytes,    \* longest byte input (its value must fit TLC's integers)
    Chars,       \* alphabet indices a string is made of, -1 for invalid
    MaxChars,    \* longest string
    HashBytes,   \* byte values of an address hash
    HashTypes,   \* hash types a signer asks for
    Prevouts,    \* coins an input may spend
    Seqs,        \* sequences a TxIn object can hold
    Values       \* output values

VARIABLES mode, bytes, str, hash, version, tx1, tx2, ht, idx
vars == <<mode, bytes, str, hash, version, tx1, tx2, ht, idx>>

\* Definitions for the cfg files (tuples and negative numbers).
MC_Chars == {-1, 0, 1, 57}
MC_Prevouts == {<<1, 1>>, <<3, 1>>}
MC_HashBytes == 0..255

\* A stand-in checksum: an arithmetic function of the prefix that, like
\* SHA-256, takes the value 0 for some inputs.
MC_Checksum(b) == << (BytesToNat(b) * 151 + 7) % 256 >>

\* The string of an address with another version byte, as another wallet
\* would write it.
StringWithVersion(v, h) == Encode(<< v >> \o h \o Checksum(<< v >> \o h))

\* Scripts: what a signed input and an output may hold.
InScripts  == { EmptyScript, << Op(OP_CHECKSIG) >> }
OutScripts == { CreateOutputScript("h1"), CreateOutputScript("h2") }
Connected  == CreateOutputScript("h1")

Base ==
    MkTx(<< MkTxIn(<<1, 1>>, EmptyScript, SequenceFinal),
            MkTxIn(<<2, 1>>, EmptyScript, SequenceFinal) >>,
         << MkTxOut(10, CreateOutputScript("h1")),
            MkTxOut(20, CreateOutputScript("h2")) >>)

Init ==
    /\ mode \in Modes
    /\ bytes = << >> /\ str = << >> /\ hash = << >>
    /\ version \in IF mode = "address" THEN {0, 1} ELSE {0}
    /\ tx1 = Base /\ tx2 = Base
    /\ ht \in IF mode = "sighash" THEN HashTypes ELSE {SIGHASH_ALL}
    /\ idx \in IF mode = "sighash" THEN 1..2 ELSE {1}

AppendByte ==
    /\ mode = "base58" /\ Len(bytes) < MaxBytes
    /\ \E x \in Bytes : bytes' = Append(bytes, x)
    /\ UNCHANGED <<mode, str, hash, version, tx1, tx2, ht, idx>>
AppendChar ==
    /\ mode = "base58" /\ Len(str) < MaxChars
    /\ \E c \in Chars : str' = Append(str, c)
    /\ UNCHANGED <<mode, bytes, hash, version, tx1, tx2, ht, idx>>
AppendHashByte ==
    /\ mode = "address" /\ Len(hash) < HashLen
    /\ \E x \in HashBytes : hash' = Append(hash, x)
    /\ UNCHANGED <<mode, bytes, str, version, tx1, tx2, ht, idx>>
EditIn(j) ==
    /\ mode = "sighash"
    /\ \E p \in Prevouts, q \in Seqs, s \in InScripts :
           tx2' = [tx2 EXCEPT !.ins[j] = MkTxIn(p, s, q)]
    /\ UNCHANGED <<mode, bytes, str, hash, version, tx1, ht, idx>>
EditOut(k) ==
    /\ mode = "sighash"
    /\ \E v \in Values, s \in OutScripts :
           tx2' = [tx2 EXCEPT !.outs[k] = MkTxOut(v, s)]
    /\ UNCHANGED <<mode, bytes, str, hash, version, tx1, ht, idx>>

Next ==
    \/ AppendByte
    \/ AppendChar
    \/ AppendHashByte
    \/ \E j \in 1..2 : EditIn(j)
    \/ \E k \in 1..2 : EditOut(k)
Spec == Init /\ [][Next]_vars
-----------------------------------------------------------------------------
HasNonZero(b) == \E i \in DOMAIN b : b[i] # 0

(* Base58Inverse: on inputs with a nonzero byte, encode gives the design's *)
(* digits and leading zero symbols and decode gives the bytes back; on     *)
(* strings over the alphabet with a non-'1' character, encoding what       *)
(* decode returns gives the string back.  It is about the division loop    *)
(* and the two leading-zero loops of encode and decode agreeing.           *)
Base58Inverse ==
    /\ HasNonZero(bytes) => /\ Encode(bytes) = RefEncode(bytes)
                            /\ Decode(Encode(bytes)) = bytes
    /\ Valid(str) /\ HasNonZero(str) => Encode(Decode(str)) = str

\* The string of an address whose checksum byte is changed, as a typo or a
\* corrupted copy would give it.
StringWithBadChecksum(h) ==
    LET prefix == << Version >> \o h
    IN Encode(prefix \o << (Checksum(prefix)[1] + 1) % 256 >>)

(* AddressRoundTrip: decodeString(toString()) gives the hash back for every *)
(* hash, the ones starting with zero bytes and the all-zero one included,  *)
(* whose leading zeros Base58 must keep apart from the version byte; a    *)
(* string with another version byte, or with a changed checksum byte, is  *)
(* refused.                                                                *)
AddressRoundTrip ==
    Len(hash) = HashLen =>
        IF version = Version
        THEN /\ DecodeString(AddrToString(hash)) = [ok |-> TRUE, hash |-> hash]
             /\ ~DecodeString(StringWithBadChecksum(hash)).ok
        ELSE ~DecodeString(StringWithVersion(version, hash)).ok

(***************************************************************************)
(* The parts of tx that a signature of input i with hash type h covers, as *)
(* the design (section 4.4) and the Bitcoin network define them: the       *)
(* signed input's coin and sequence and the connected script; unless       *)
(* ANYONECANPAY (flag 0x80), every input's coin, and every sequence except *)
(* under NONE; every output unless NONE.  Other input scripts are never    *)
(* covered.                                                                *)
(***************************************************************************)
AnyoneCanPayFlag == 128
Covered(tx, i, h) ==
    [ins  |-> IF (h & AnyoneCanPayFlag) # 0
              THEN << [coin |-> tx.ins[i].prevout, seq |-> tx.ins[i].sequence] >>
              ELSE [j \in DOMAIN tx.ins |->
                      [coin |-> tx.ins[j].prevout,
                       seq  |-> IF j = i \/ (h & 31) # SIGHASH_NONE
                                THEN tx.ins[j].sequence ELSE 0]],
     outs |-> IF (h & 31) = SIGHASH_NONE THEN << >> ELSE tx.outs,
     version |-> tx.version, lockTime |-> tx.lockTime]

(* SighashCommits: the digest of hashTxForSignature for input idx changes  *)
(* exactly when a part of the transaction its hash type covers changes.    *)
(* It is about blanking the other input scripts, clearing outputs and      *)
(* sequences for NONE, and the ANYONECANPAY test on the hash type.         *)
SighashCommits ==
    (HashTxForSignature(tx1, Connected, idx, ht) = HashTxForSignature(tx2, Connected, idx, ht))
    <=> (Covered(tx1, idx, ht) = Covered(tx2, idx, ht))
=============================================================================
