---------------------------- MODULE ScriptBuffer ----------------------------
(***************************************************************************)
(* btc.Script objects at byte level (src/applications/btcd/www/js/btc/     *)
(* script.js): each object holds a buffer, a JavaScript array that other   *)
(* objects may share, and the chunk list derived from it.  The constructor *)
(* parses the buffer; writeOp and writeBytes append to both; clone builds  *)
(* a new object on the same array.  Arrays live in a heap so that sharing  *)
(* and in-place pushes are visible.  Data bytes all carry DataByte: only   *)
(* lengths and the bytes the parser reads as opcodes matter here.          *)
(***************************************************************************)
EXTENDS Integers, Sequences, SequencesExt, Script

CONSTANTS
    Objs,        \* the Script objects a client holds
    Ops,         \* opcodes passed to writeOp
    DataLens,    \* lengths of the byte arrays passed to writeBytes
    DataByte,    \* the value of every data byte
    WireBytes,   \* byte values of buffers passed to new Script(array)
    MaxWire,     \* longest such buffer
    MaxChunks,   \* writes per object
    MaxArrays    \* arrays allocated in a behaviour

ASSUME Ops \subseteq ({0} \cup 79..255)    \* the named opcodes outside 1..78

OP_PUSHDATA1 == 76
OP_PUSHDATA2 == 77
OP_PUSHDATA4 == 78

VARIABLES
    heap,       \* heap[r]: the contents of array r
    buf,        \* buf[o]: the array o.buffer refers to, 0 before construction
    chunks,     \* chunks[o]: o.chunks
    parsing,    \* the object whose constructor is inside parse(), if any
    cursor,     \* cursor[o]: the variable i of that parse (1-based)
    trusted     \* history: o was built by new Script(), the writers or a
                \* token string, and its array was never shared with another

vars == <<heap, buf, chunks, parsing, cursor, trusted>>

\* buffer[k] in a bitwise expression: undefined counts as 0.
ByteAt(b, k) == IF k \in DOMAIN b THEN b[k] ELSE 0

\* buffer.slice(from, from + n), clamped at the end of the array.
Slice(b, from, n) == SubSeq(b, from, IF from - 1 + n < Len(b) THEN from - 1 + n ELSE Len(b))

\* The four PUSHDATA4 length bytes, most significant first, combined by
\* << and |: a 32-bit signed number, negative when the first is >= 0x80.
Signed32(b, j) ==
    LET hi == IF ByteAt(b, j) >= 128 THEN ByteAt(b, j) - 256 ELSE ByteAt(b, j)
    IN ((hi * 256 + ByteAt(b, j + 1)) * 256 + ByteAt(b, j + 2)) * 256 + ByteAt(b, j + 3)

(***************************************************************************)
(* One pass of the while loop of Script.prototype.parse from cursor i: the *)
(* chunk it pushes and the cursor it leaves.  A byte >= 0xF0 starts a      *)
(* two-byte opcode read big-endian; 1..75 push that many bytes; PUSHDATA   *)
(* lengths are read most significant byte first.  PUSHDATA1 as the last   *)
(* byte reads length undefined: i becomes NaN and the loop condition       *)
(* fails, modelled as a cursor past the end.  At a cursor below 0 every   *)
(* pass pushes buffer[i] = undefined and adds 1 until i is 0 again; those  *)
(* passes are taken as one step.  The data of a negative-length push is   *)
(* not kept: no parse that reads one returns.                              *)
(***************************************************************************)
Iteration(b, i) ==
    IF i < 1 THEN [chunk |-> [undefined |-> TRUE], next |-> 1]
    ELSE
    LET two    == b[i] >= 240
        opcode == IF two THEN b[i] * 256 + ByteAt(b, i + 1) ELSE b[i]
        j      == IF two THEN i + 2 ELSE i + 1
        Push(k, n) == [chunk |-> Data(Slice(b, k, n)), next |-> k + n]
    IN CASE opcode > 0 /\ opcode < OP_PUSHDATA1 -> Push(j, opcode)
         [] opcode = OP_PUSHDATA1 ->
              IF j > Len(b) THEN [chunk |-> Data(<< >>), next |-> Len(b) + 1]
              ELSE Push(j + 1, b[j])
         [] opcode = OP_PUSHDATA2 -> Push(j + 2, ByteAt(b, j) * 256 + ByteAt(b, j + 1))
         [] opcode = OP_PUSHDATA4 -> Push(j + 4, Signed32(b, j))
         [] OTHER -> [chunk |-> Op(opcode), next |-> j]

\* The chunks parse pushes from cursor i until the loop ends; defined where
\* the loop ends, that is on every array from which a parse returns.  (A
\* recursive function: TLC evaluates its argument once.)
ParseFrom(b, i) ==
    LET from[k \in Int] ==
            IF k > Len(b) THEN << >>
            ELSE LET it == Iteration(b, k) IN Cons(it.chunk, from[it.next])
    IN from[i]

Parse(b) == ParseFrom(b, 1)

\* Mutant: a length of exactly OP_PUSHDATA1 is written as a bare length byte.
WriteBytesHeaderLate(n) ==
    CASE n <= OP_PUSHDATA1 -> << n >>
      [] n <= 255          -> << OP_PUSHDATA1, n >>
      [] n <= 65535        -> << OP_PUSHDATA2, n % 256, (n \div 256) % 256 >>
      [] OTHER             -> << OP_PUSHDATA4, n % 256, (n \div 256) % 256,
                                (n \div 65536) % 256, (n \div 16777216) % 256 >>

\* The bytes writeBytes pushes before the data: lengths little-endian.
WriteBytesHeader(n) ==
    CASE n < OP_PUSHDATA1 -> << n >>
      [] n <= 255         -> << OP_PUSHDATA1, n >>
      [] n <= 65535       -> << OP_PUSHDATA2, n % 256, (n \div 256) % 256 >>
      [] OTHER            -> << OP_PUSHDATA4, n % 256, (n \div 256) % 256,
                               (n \div 65536) % 256, (n \div 16777216) % 256 >>

DataOf(n) == [k \in 1..n |-> DataByte]

\* The bytes of a token of the string constructor: an opcode name is
\* written by writeOp, a hex string by writeBytes.
Written(t) == IF IsOp(t) THEN << t.op >> ELSE WriteBytesHeader(Len(t.data)) \o t.data

Built == {o \in Objs : buf[o] # 0}
Room == Len(heap) < MaxArrays
\* JavaScript runs a constructor to completion: no other call is made while
\* a parse is running.
Idle == parsing = {}
-----------------------------------------------------------------------------
Init ==
    /\ heap = << >>
    /\ buf = [o \in Objs |-> 0]
    /\ chunks = [o \in Objs |-> << >>]
    /\ parsing = {}
    /\ cursor = [o \in Objs |-> 1]
    /\ trusted = [o \in Objs |-> FALSE]

\* new Script(): a fresh empty array; chunks is empty, so parse() runs.
New(o) ==
    /\ Idle /\ o \notin Built /\ Room
    /\ heap' = Append(heap, << >>)
    /\ buf' = [buf EXCEPT ![o] = Len(heap')]
    /\ parsing' = {o}
    /\ trusted' = [trusted EXCEPT ![o] = TRUE]
    /\ UNCHANGED <<chunks, cursor>>

\* new Script(array): the buffer is the array given (a script read from
\* the wire), and it is parsed.
FromBytes(o, w) ==
    /\ Idle /\ o \notin Built /\ Room
    /\ heap' = Append(heap, w)
    /\ buf' = [buf EXCEPT ![o] = Len(heap')]
    /\ parsing' = {o}
    /\ UNCHANGED <<chunks, cursor, trusted>>

\* new Script("OP_DUP OP_HASH160 89ab... "), two tokens or more: a fresh
\* array, each token written by writeOp or writeBytes; chunks is then not
\* empty and parse() does not run.
FromTokens(o, ts) ==
    /\ Idle /\ o \notin Built /\ Room
    /\ heap' = Append(heap, FlattenSeq([k \in DOMAIN ts |-> Written(ts[k])]))
    /\ buf' = [buf EXCEPT ![o] = Len(heap')]
    /\ chunks' = [chunks EXCEPT ![o] = ts]
    /\ trusted' = [trusted EXCEPT ![o] = TRUE]
    /\ UNCHANGED <<parsing, cursor>>

\* clone(): new Script(this.buffer) takes the array itself and parses it.
Clone(o, src) ==
    /\ Idle /\ o \notin Built /\ src \in Built
    /\ buf' = [buf EXCEPT ![o] = buf[src]]
    /\ parsing' = {o}
    /\ trusted' = [trusted EXCEPT ![o] = FALSE, ![src] = FALSE]
    /\ UNCHANGED <<heap, chunks, cursor>>

\* One pass of the while loop of parse: i < this.buffer.length holds.
ParseIteration(o) ==
    /\ o \in parsing
    /\ cursor[o] <= Len(heap[buf[o]])
    /\ cursor' = [cursor EXCEPT ![o] = Iteration(heap[buf[o]], cursor[o]).next]
    /\ UNCHANGED <<heap, buf, chunks, parsing, trusted>>

\* The loop condition fails and parse returns: this.chunks holds what the
\* passes pushed, and the constructor returns.
ParseExit(o) ==
    /\ o \in parsing
    /\ cursor[o] > Len(heap[buf[o]])
    /\ chunks' = [chunks EXCEPT ![o] = Parse(heap[buf[o]])]
    /\ parsing' = {}
    /\ cursor' = [cursor EXCEPT ![o] = 1]
    /\ UNCHANGED <<heap, buf, trusted>>

\* writeOp(opcode): push onto the array in place, and onto chunks.
WriteOp(o, op) ==
    /\ Idle /\ o \in Built /\ Len(chunks[o]) < MaxChunks
    /\ heap' = [heap EXCEPT ![buf[o]] = Append(@, op)]
    /\ chunks' = [chunks EXCEPT ![o] = Append(@, Op(op))]
    /\ UNCHANGED <<buf, parsing, cursor, trusted>>

\* writeBytes(data): push the header onto the array in place, then
\* this.buffer = this.buffer.concat(data), a new array; push data on chunks.
WriteBytes(o, n) ==
    /\ Idle /\ o \in Built /\ Len(chunks[o]) < MaxChunks /\ Room
    /\ LET header == heap[buf[o]] \o WriteBytesHeader(n)
       IN heap' = Append([heap EXCEPT ![buf[o]] = header], header \o DataOf(n))
    /\ buf' = [buf EXCEPT ![o] = Len(heap')]
    /\ chunks' = [chunks EXCEPT ![o] = Append(@, Data(DataOf(n)))]
    /\ UNCHANGED <<parsing, cursor, trusted>>

\* The tokens of a string constructor: opcode names and hex strings.
Tokens == {Op(op) : op \in Ops} \cup {Data(DataOf(n)) : n \in DataLens}

Next ==
    \/ \E o \in Objs : New(o)
    \/ \E o \in Objs, w \in BoundedSeq(WireBytes, MaxWire) : FromBytes(o, w)
    \/ \E o \in Objs, ts \in BoundedSeq(Tokens, MaxChunks) :
         Len(ts) >= 2 /\ FromTokens(o, ts)
    \/ \E o, src \in Objs : Clone(o, src)
    \/ \E o \in Objs : ParseIteration(o) \/ ParseExit(o)
    \/ \E o \in Objs, op \in Ops : WriteOp(o, op)
    \/ \E o \in Objs, n \in DataLens : WriteBytes(o, n)

\* The parse loop is synchronous code that nothing can interrupt: once a
\* constructor is inside it, its next pass (or its exit) is eventually taken.
ParseFairness == \E o \in Objs : ParseIteration(o) \/ ParseExit(o)

Spec == Init /\ [][Next]_vars

FairSpec == Spec /\ WF_vars(ParseFairness)
-----------------------------------------------------------------------------
(* TypeOK: arrays hold bytes, objects refer to allocated arrays.           *)
TypeOK ==
    /\ \A r \in DOMAIN heap : \A k \in DOMAIN heap[r] : heap[r][k] \in 0..255
    /\ buf \in [Objs -> 0..Len(heap)]
    /\ trusted \in [Objs -> BOOLEAN]

(* ParseAgrees: for a script built through new Script(), writeOp and       *)
(* writeBytes, or from a token string, whose array no other object shares, *)
(* parsing its buffer gives back its chunk list: the length classes        *)
(* writeBytes emits are read back by parse with the same boundaries and    *)
(* the same byte order.                                                    *)
ParseAgrees ==
    \A o \in Built : trusted[o] /\ o \notin parsing => Parse(heap[buf[o]]) = chunks[o]

(* ParseReturns: a constructor that enters parse() returns from it, on any *)
(* byte array: no pass of the loop moves the cursor back to where it has   *)
(* been.  It is about the PUSHDATA4 length being read as a signed 32-bit   *)
(* number and added to the cursor.                                         *)
ParseReturns == \A o \in Objs : o \in parsing ~> o \notin parsing
=============================================================================
