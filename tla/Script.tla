------------------------------- MODULE Script -------------------------------
(***************************************************************************)
(* btc.Script (src/applications/btcd/www/js/btc/script.js) at the level of *)
(* its parsed chunk sequence.  A chunk is an opcode (a number) or a data   *)
(* push (a byte array).  Data is abstracted to the value it stands for: a  *)
(* 20-byte pubkey hash is an address value, a public key is PubKeyOf(h), a *)
(* signature is a record made by the signer.                               *)
(***************************************************************************)
EXTENDS Integers, Sequences

\* Opcode values of btc.Opcode.map used by the standard templates.
OP_DUP         == 118   \* 0x76
OP_HASH160     == 169   \* 0xa9
OP_EQUALVERIFY == 136   \* 0x88
OP_CHECKSIG    == 172   \* 0xac

\* A chunk: this.chunks holds numbers for opcodes and arrays for data.
Op(n)   == [op |-> n]
Data(d) == [data |-> d]
IsOp(ch)   == "op" \in DOMAIN ch
IsData(ch) == "data" \in DOMAIN ch

\* The public key whose sha256ripe160 hash is h (btc.ECKey.getPub).
PubKeyOf(h) == [pubOf |-> h]
\* btc.Util.sha256ripe160 of a public key.
Sha256Ripe160(pub) == pub.pubOf

\* Script.prototype.getOutType: classification of a scriptPubKey.
GetOutType(s) ==
    IF /\ Len(s) = 5
       /\ s[1] = Op(OP_DUP) /\ s[2] = Op(OP_HASH160)
       /\ s[4] = Op(OP_EQUALVERIFY) /\ s[5] = Op(OP_CHECKSIG)
    THEN "Address"
    ELSE IF Len(s) = 2 /\ s[2] = Op(OP_CHECKSIG)
         THEN "Pubkey"
         ELSE "Strange"

\* Script.prototype.simpleOutPubKeyHash; "Strange" scripts throw, which
\* callers must rule out with GetOutType first.
SimpleOutPubKeyHash(s) ==
    IF GetOutType(s) = "Address" THEN s[3].data ELSE Sha256Ripe160(s[1].data)

\* Script.createOutputScript(address): pay-to-pubkey-hash.
CreateOutputScript(h) ==
    << Op(OP_DUP), Op(OP_HASH160), Data(h), Op(OP_EQUALVERIFY), Op(OP_CHECKSIG) >>

\* Script.createInputScript(signature, pubKey).
CreateInputScript(sig, pub) == << Data(sig), Data(pub) >>

\* new Script(): the empty script.
EmptyScript == << >>

(***************************************************************************)
(* The string form of a script.  A token is an opcode name                 *)
(* (Opcode.reverseMap[n], [name |-> n]) or the hex of a data push          *)
(* ([hex |-> d]); the string is the tokens joined by " ", and split(" ")   *)
(* gives them back because neither form contains a space.                  *)
(***************************************************************************)
\* Script.prototype.toJSON: one token per chunk.
ScriptToJson(s) ==
    [i \in DOMAIN s |-> IF IsOp(s[i]) THEN [name |-> s[i].op] ELSE [hex |-> s[i].data]]

\* new Script(string): "" is falsy and gives the empty script; a single
\* token is taken for base64 and decoded into bytes that are no script the
\* tokens stood for (an opaque chunk); two tokens or more are written with
\* writeOp or writeBytes, which push the chunks, so no parse follows.
ScriptFromJson(toks) ==
    CASE toks = << >> -> EmptyScript
      [] Len(toks) = 1 -> << [base64 |-> toks[1]] >>
      [] OTHER -> [i \in DOMAIN toks |-> IF "name" \in DOMAIN toks[i]
                                         THEN Op(toks[i].name) ELSE Data(toks[i].hex)]
=============================================================================
