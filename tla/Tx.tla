--------------------------------- MODULE Tx ---------------------------------
(***************************************************************************)
(* btc.Tx, btc.TxIn, btc.TxOut (src/applications/btcproxy/www/js/btc/     *)
(* tx.js): transaction records, clone, serialization and the legacy        *)
(* signature hash.  Byte-level encodings of single fields (little-endian   *)
(* words, varints, reversed hashes) are injective and are kept as the      *)
(* field values; double SHA-256 is an injective digest.                    *)
(***************************************************************************)
EXTENDS Integers, Sequences, Bitwise, Script

CONSTANT SequenceFinal   \* 0xFFFFFFFF, the "final" TxIn sequence

\* tx.js:122-125, the hash-type constants as the code writes them.
SIGHASH_ALL          == 1
SIGHASH_NONE         == 2
SIGHASH_SINGLE       == 3
SIGHASH_ANYONECANPAY == 80    \* decimal 80 = 0x50 in the code

\* new TxIn / TxOut / Tx as records; prevout is a coin <<txid, n>>.
MkTxIn(prevout, script, sequence) ==
    [prevout |-> prevout, script |-> script, sequence |-> sequence]
MkTxOut(value, script) == [value |-> value, script |-> script]
MkTx(ins, outs) == [version |-> 1, lockTime |-> 0, ins |-> ins, outs |-> outs]

\* TxIn constructor line 357: a falsy sequence (0) becomes final.
TxInSequence(seq) == IF seq = 0 THEN SequenceFinal ELSE seq

\* TxIn.prototype.clone: prev_out and script are copied, the sequence goes
\* through the TxIn constructor, so a zero sequence is not preserved.
CloneIn(in) == [in EXCEPT !.sequence = TxInSequence(@)]

\* Tx.prototype.clone: every input cloned and pushed by addInput(txin), every
\* output cloned (TxOut.clone keeps script and value) and pushed.
Clone(tx) == [tx EXCEPT !.ins = [i \in DOMAIN tx.ins |-> CloneIn(tx.ins[i])]]

(***************************************************************************)
(* The JSON form of a transaction (Tx.toJSON) and the Tx constructor that  *)
(* reads it back.  The fields hash, vin_sz, vout_sz and size are written   *)
(* but never read by the constructor's serialization; a null timestamp is  *)
(* not written.                                                            *)
(***************************************************************************)
\* TxOut.toJSON value: (0.00000001 * getValue()).toFixed(8), the integer
\* part, a ".", and 8 decimals.
FixedString(v) == [int |-> v \div 10^8, frac |-> v % 10^8, places |-> 8]

\* TxOut constructor, string value: new BigInteger(s, 10) skips the ".",
\* so the integer digits are followed by the decimal digits.
StringToValue(str) == str.int * 10^str.places + str.frac

\* TxIn.prototype.toJSON: prev_out {hash, n} and the script string; the
\* sequence is not written.
TxInToJson(in) == [prev_out |-> in.prevout, scriptSig |-> ScriptToJson(in.script)]

\* TxOut.prototype.toJSON.
TxOutToJson(out) == [value |-> FixedString(out.value), scriptPubKey |-> ScriptToJson(out.script)]

\* Tx.prototype.toJSON.
TxToJson(tx) ==
    [ver |-> tx.version, lock_time |-> tx.lockTime,
     in |-> [i \in DOMAIN tx.ins |-> TxInToJson(tx.ins[i])],
     out |-> [k \in DOMAIN tx.outs |-> TxOutToJson(tx.outs[k])]]

\* new TxIn(doc): prev_out.n becomes the index; data.sequence is undefined,
\* which is falsy, so the input is final.
TxInFromJson(doc) ==
    MkTxIn(doc.prev_out, ScriptFromJson(doc.scriptSig), SequenceFinal)

\* new TxOut(doc) with a string value.
TxOutFromJson(doc) == MkTxOut(StringToValue(doc.value), ScriptFromJson(doc.scriptPubKey))

\* new Tx(doc): a falsy ver or lock_time keeps the default 1 or 0; every
\* input and output goes through its constructor and addInput / addOutput.
TxFromJson(doc) ==
    [version  |-> IF doc.ver # 0 THEN doc.ver ELSE 1,
     lockTime |-> doc.lock_time,
     ins  |-> [i \in DOMAIN doc.in |-> TxInFromJson(doc.in[i])],
     outs |-> [k \in DOMAIN doc.out |-> TxOutFromJson(doc.out[k])]]

FlattenIns(ins) == [k \in 1..3 * Len(ins) |->
                     LET i == (k - 1) \div 3 + 1
                         f == (k - 1) % 3
                     IN CASE f = 0 -> ins[i].prevout
                          [] f = 1 -> ins[i].script
                          [] f = 2 -> ins[i].sequence]
FlattenOuts(outs) == [k \in 1..2 * Len(outs) |->
                       LET i == (k - 1) \div 2 + 1
                       IN IF (k - 1) % 2 = 0 THEN outs[i].value ELSE outs[i].script]

\* Tx.prototype.serialize: version, input count, per input (prevout,
\* script, sequence), output count, per output (value, script), lock time.
Serialize(tx) ==
    << tx.version, Len(tx.ins) >>
    \o FlattenIns(tx.ins)
    \o << Len(tx.outs) >>
    \o FlattenOuts(tx.outs)
    \o << tx.lockTime >>

\* Crypto.SHA256(Crypto.SHA256(buffer)): an injective digest.
DoubleSha256(buffer) == [sha256d |-> buffer]

(***************************************************************************)
(* Tx.prototype.hashTxForSignature(connectedScript, inIndex, hashType):    *)
(* blank every input script, put connectedScript at inIndex; for NONE drop *)
(* the outputs and zero the other sequences; SINGLE is a TODO that falls   *)
(* through; ANYONECANPAY keeps only inIndex; append hashType and hash.     *)
(***************************************************************************)
\* Mutant: only the signed input's script is replaced.
BlankInputsKeepOthers(tx, connectedScript, inIndex) ==
    [tx EXCEPT !.ins[inIndex].script = connectedScript]

BlankInputs(tx, connectedScript, inIndex) ==
    [tx EXCEPT !.ins = [i \in DOMAIN tx.ins |->
        [tx.ins[i] EXCEPT !.script = IF i = inIndex THEN connectedScript
                                                    ELSE EmptyScript]]]

ApplyHashTypeOutputs(tx, inIndex, hashType) ==
    IF (hashType & 31) = SIGHASH_NONE
    THEN [tx EXCEPT !.outs = << >>,
                    !.ins = [i \in DOMAIN tx.ins |->
                              IF i # inIndex THEN [tx.ins[i] EXCEPT !.sequence = 0]
                                             ELSE tx.ins[i]]]
    ELSE tx

ApplyAnyoneCanPay(tx, inIndex, hashType) ==
    IF (hashType & SIGHASH_ANYONECANPAY) # 0
    THEN [tx EXCEPT !.ins = << tx.ins[inIndex] >>]
    ELSE tx

SignatureTx(tx, connectedScript, inIndex, hashType) ==
    ApplyAnyoneCanPay(
        ApplyHashTypeOutputs(BlankInputs(Clone(tx), connectedScript, inIndex),
                             inIndex, hashType),
        inIndex, hashType)

HashTxForSignature(tx, connectedScript, inIndex, hashType) ==
    DoubleSha256(Serialize(SignatureTx(tx, connectedScript, inIndex, hashType))
                 \o << hashType >>)
=============================================================================
