------------------------------- MODULE Base64 -------------------------------
(***************************************************************************)
(* Base64.c: bytes to characters and back.  Bytes and digits are numbers;  *)
(* shifts and masks are divisions and remainders.  The loops of the code   *)
(* fill groups of three bytes and four digits one after the other; here    *)
(* each position of the result is given by its group.                      *)
(***************************************************************************)
EXTENDS Naturals, Sequences

Byte == 0..255

base64Table ==
  <<"A", "B", "C", "D", "E", "F", "G", "H", "I", "J", "K", "L", "M",
    "N", "O", "P", "Q", "R", "S", "T", "U", "V", "W", "X", "Y", "Z",
    "a", "b", "c", "d", "e", "f", "g", "h", "i", "j", "k", "l", "m",
    "n", "o", "p", "q", "r", "s", "t", "u", "v", "w", "x", "y", "z",
    "0", "1", "2", "3", "4", "5", "6", "7", "8", "9", "+", "/">>

Base64Characters == {base64Table[i] : i \in 1..64}
IndexOf(c) == (CHOOSE i \in DOMAIN base64Table : base64Table[i] = c) - 1

(* The element at an offset of a group.  Behind the end the encoder puts    *)
(* zero; what the decoder has there goes into no byte it writes.            *)
At0(s, i) == IF i \in DOMAIN s THEN s[i] ELSE 0

(* s_base64EncodeAndAppend: digit j of the group of three bytes at `from`. *)
EncodedDigit(bytes, from, j) ==
  LET in(n) == At0(bytes, from + n) IN
  CASE j = 0 -> in(0) \div 4
    [] j = 1 -> ((in(0) % 4) * 16) + (in(1) \div 16)
    [] j = 2 -> ((in(1) % 16) * 4) + (in(2) \div 64)
    [] j = 3 -> in(2) % 64

(* Digits n bytes take, without the padding. *)
Digits(n) == ((n \div 3) * 4) + (IF n % 3 = 0 THEN 0 ELSE (n % 3) + 1)

base64_encode(bytes) ==
  [k \in 1..(4 * ((Len(bytes) + 2) \div 3)) |->
     IF k <= Digits(Len(bytes))
     THEN base64Table[EncodedDigit(bytes, (3 * ((k - 1) \div 4)) + 1, (k - 1) % 4) + 1]
     ELSE "="]

(* s_base64DecodeAndAppend: byte j of the group of four digits at `from`. *)
DecodedByte(digits, from, j) ==
  LET in(n) == At0(digits, from + n) IN
  CASE j = 0 -> ((in(0) * 4) + (in(1) \div 16)) % 256
    [] j = 1 -> (((in(1) % 16) * 16) + (in(2) \div 4)) % 256
    [] j = 2 -> (((in(2) % 4) * 64) + in(3)) % 256

(* Decoding reads up to the first "=" or the end, and yields nothing if it  *)
(* meets a character that is no digit.                                      *)
BeforePadding(chars) ==
  SubSeq(chars, 1,
    CHOOSE n \in 0..Len(chars) :
      /\ \A i \in 1..n : chars[i] # "="
      /\ n = Len(chars) \/ chars[n + 1] = "=")

ValidBase64(chars) ==
  \A i \in DOMAIN BeforePadding(chars) : chars[i] \in Base64Characters

(* Bytes n digits decode to. *)
Bytes(n) == (3 * (n \div 4)) + (IF n % 4 = 0 THEN 0 ELSE (n % 4) - 1)

base64_decode(chars) ==
  LET read == BeforePadding(chars)
      digits == [i \in DOMAIN read |-> IndexOf(read[i])]
  IN [k \in 1..Bytes(Len(read)) |->
        DecodedByte(digits, (4 * ((k - 1) \div 3)) + 1, (k - 1) % 3)]
=============================================================================
