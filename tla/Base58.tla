------------------------------- MODULE Base58 -------------------------------
(***************************************************************************)
(* btc.Base58 (src/applications/btcd/www/js/btc/base58.js).  A string is a *)
(* sequence of alphabet indices: index 0 is the character '1', and -1      *)
(* stands for any character outside the alphabet, which is what            *)
(* alphabet.indexOf returns for it.  Bytes are 0..255, most significant    *)
(* first, as BigInteger.fromByteArrayUnsigned reads them.                  *)
(***************************************************************************)
EXTENDS Integers, Sequences

Zero == 0    \* index of '1', the zero symbol

\* BigInteger.fromByteArrayUnsigned(input): big-endian, [] is 0.
RECURSIVE BytesToNat(_)
BytesToNat(b) == IF b = << >> THEN 0 ELSE BytesToNat(SubSeq(b, 1, Len(b) - 1)) * 256 + b[Len(b)]

\* bi.toByteArrayUnsigned(): the minimal big-endian bytes of |bi|, [] for 0.
RECURSIVE NatToBytes(_)
NatToBytes(n) == IF n = 0 THEN << >> ELSE NatToBytes(n \div 256) \o << n % 256 >>
AbsToBytes(n) == NatToBytes(IF n < 0 THEN -n ELSE n)

Zeros(k) == [i \in 1..k |-> Zero]

\* Mutant: the loop runs while bi > 58, so 58 itself is emitted as one digit.
RECURSIVE DigitsLate(_)
DigitsLate(n) == IF n <= 58 THEN << n >> ELSE DigitsLate(n \div 58) \o << n % 58 >>

\* The division loop of encode and the final chars.unshift(alphabet[bi]):
\* base-58 digits, most significant first, one digit even for 0.
RECURSIVE Digits(_)
Digits(n) == IF n < 58 THEN << n >> ELSE Digits(n \div 58) \o << n % 58 >>

\* The number of zero bytes at the start of input (the loop that breaks on
\* the first nonzero byte).
LeadingZeroBytes(b) ==
    IF \A i \in DOMAIN b : b[i] = 0 THEN Len(b)
    ELSE CHOOSE k \in 0..Len(b) - 1 : b[k + 1] # 0 /\ \A i \in 1..k : b[i] = 0

\* btc.Base58.encode(input).
Encode(b) == Zeros(LeadingZeroBytes(b)) \o Digits(BytesToNat(b))

\* The decode loop, from the last character to the first: the value
\* sum indexOf(input[i]) * 58^(length-1-i), where indexOf may be -1.
RECURSIVE StringValue(_)
StringValue(s) == IF s = << >> THEN 0 ELSE StringValue(SubSeq(s, 1, Len(s) - 1)) * 58 + s[Len(s)]

\* leadingZerosNum: reset on every character that is not '1', so after the
\* loop it counts the '1's at the start of the string.
LeadingOnes(s) ==
    IF \A i \in DOMAIN s : s[i] = Zero THEN Len(s)
    ELSE CHOOSE k \in 0..Len(s) - 1 : s[k + 1] # Zero /\ \A i \in 1..k : s[i] = Zero

\* btc.Base58.decode(input).
Decode(s) == Zeros(LeadingOnes(s)) \o AbsToBytes(StringValue(s))

(***************************************************************************)
(* The reference codec of the design (section 4.1): leading zero bytes and *)
(* zero symbols correspond one to one, the rest is the value in base 58    *)
(* with no digit for 0; decode fails on a character outside the alphabet.  *)
(***************************************************************************)
RECURSIVE RefDigits(_)
RefDigits(n) == IF n = 0 THEN << >> ELSE RefDigits(n \div 58) \o << n % 58 >>
RefEncode(b) == Zeros(LeadingZeroBytes(b)) \o RefDigits(BytesToNat(b))
Valid(s) == \A i \in DOMAIN s : s[i] \in 0..57
=============================================================================
