---------------------------- MODULE WriterProofs ----------------------------
(***************************************************************************)
(* What the text writer promises for every set of expressions, of any      *)
(* depth and with any words and binary data, at any indent and in both     *)
(* forms.                                                                  *)
(***************************************************************************)
EXTENDS Writer, FiniteSetTheorems, SequenceTheorems, TLAPS

LEMMA OwnCharactersAreCharacters ==
  /\ {Quote, Backslash, Newline, NullCharacter, " ", "\t", "#", "@", "(", ")", "<", ">",
      "n", "u", "l", "r", "t", "="} \subseteq Character
  /\ Base64Characters \subseteq Character
BY CharacterAssumption DEF OwnCharacters

-----------------------------------------------------------------------------
(* Base64: what is encoded is made of characters. *)

LEMMA DigitsAreDigits ==
  ASSUME NEW bytes \in Seq(Byte), NEW from \in Nat, NEW j \in 0..3
  PROVE  EncodedDigit(bytes, from, j) \in 0..63
<1>1. \A i \in DOMAIN bytes : bytes[i] \in 0..255
  <2>1. \A i \in 1..Len(bytes) : bytes[i] \in Byte
    OBVIOUS
  <2>2. DOMAIN bytes = 1..Len(bytes)
    OBVIOUS
  <2>3. Byte = 0..255
    BY DEF Byte
  <2> QED
    BY <2>1, <2>2, <2>3, Zenon
<1>2. \A i : At0(bytes, i) \in 0..255
  BY <1>1 DEF At0
<1>3. PICK b0 \in 0..255, b1 \in 0..255, b2 \in 0..255 :
        /\ At0(bytes, from + 0) = b0 /\ At0(bytes, from + 1) = b1
        /\ At0(bytes, from + 2) = b2
  BY <1>2
<1>4. /\ j = 0 => EncodedDigit(bytes, from, j) = b0 \div 4
      /\ j = 1 => EncodedDigit(bytes, from, j) = ((b0 % 4) * 16) + (b1 \div 16)
      /\ j = 2 => EncodedDigit(bytes, from, j) = ((b1 % 16) * 4) + (b2 \div 64)
      /\ j = 3 => EncodedDigit(bytes, from, j) = b2 % 64
  <2>3. CASE j = 0
    BY <1>3, <2>3 DEF EncodedDigit
  <2>4. CASE j = 1
    BY <1>3, <2>4 DEF EncodedDigit
  <2>5. CASE j = 2
    BY <1>3, <2>5 DEF EncodedDigit
  <2>6. CASE j = 3
    BY <1>3, <2>6 DEF EncodedDigit
  <2> QED
    BY <2>3, <2>4, <2>5, <2>6
<1>5. /\ b0 \div 4 \in 0..63
      /\ ((b0 % 4) * 16) + (b1 \div 16) \in 0..63
      /\ ((b1 % 16) * 4) + (b2 \div 64) \in 0..63
      /\ b2 % 64 \in 0..63
  OBVIOUS
<1>6. CASE j = 0
  <2>1. EncodedDigit(bytes, from, j) = b0 \div 4
    BY <1>4, <1>6
  <2> QED
    BY <1>5, <2>1
<1>7. CASE j = 1
  <2>1. EncodedDigit(bytes, from, j) = ((b0 % 4) * 16) + (b1 \div 16)
    BY <1>4, <1>7
  <2> QED
    BY <1>5, <2>1
<1>8. CASE j = 2
  <2>1. EncodedDigit(bytes, from, j) = ((b1 % 16) * 4) + (b2 \div 64)
    BY <1>4, <1>8
  <2> QED
    BY <1>5, <2>1
<1>9. CASE j = 3
  <2>1. EncodedDigit(bytes, from, j) = b2 % 64
    BY <1>4, <1>9
  <2> QED
    BY <1>5, <2>1
<1> QED
  BY <1>6, <1>7, <1>8, <1>9

LEMMA EncodedIsText ==
  ASSUME NEW bytes \in Seq(Byte)
  PROVE  base64_encode(bytes) \in Seq(Character)
<1> DEFINE n == 4 * ((Len(bytes) + 2) \div 3)
           e == base64_encode(bytes)
<1>1. n \in Nat
  BY SMT
<1>2. ASSUME NEW k \in 1..n
      PROVE  e[k] \in Character
  <2>1. (k - 1) % 4 \in 0..3 /\ (3 * ((k - 1) \div 4)) + 1 \in Nat
    BY <1>1
  <2>2. PICK d \in 0..63 : d = EncodedDigit(bytes, (3 * ((k - 1) \div 4)) + 1, (k - 1) % 4)
    BY <2>1, DigitsAreDigits
  <2>3. e[k] = IF k <= Digits(Len(bytes)) THEN base64Table[d + 1] ELSE "="
    BY <2>2 DEF base64_encode
  <2>4. d + 1 \in 1..64
    OBVIOUS
  <2>5. base64Table[d + 1] \in Base64Characters
    BY <2>4 DEF Base64Characters
  <2> QED
    BY <2>3, <2>5, OwnCharactersAreCharacters
<1>3. e = [k \in 1..n |-> e[k]]
  BY DEF base64_encode
<1> HIDE DEF n, e
<1>4. e \in [1..n -> Character]
  BY <1>2, <1>3
<1> QED
  BY <1>1, <1>4 DEF e

-----------------------------------------------------------------------------
(* Base64: what is decoded is what was encoded. *)

LEMMA TableIsInjective ==
  ASSUME NEW i \in 1..64, NEW j \in 1..64, base64Table[i] = base64Table[j]
  PROVE  i = j
BY DEF base64Table

LEMMA IndexFindsTheDigit ==
  ASSUME NEW d \in 0..63
  PROVE  /\ IndexOf(base64Table[d + 1]) = d
         /\ base64Table[d + 1] \in Base64Characters
         /\ base64Table[d + 1] # "="
<1>1. DOMAIN base64Table = 1..64
  BY DEF base64Table
<1>2. d + 1 \in 1..64
  OBVIOUS
<1> DEFINE c == base64Table[d + 1]
           i == CHOOSE n \in DOMAIN base64Table : base64Table[n] = c
<1>3. i \in DOMAIN base64Table /\ base64Table[i] = c
  <2>1. \E n \in DOMAIN base64Table : base64Table[n] = c
    BY <1>1, <1>2
  <2> HIDE DEF c
  <2> QED
    BY <2>1, Zenon
<1>4. i = d + 1
  <2> HIDE DEF i
  <2> QED
    BY <1>1, <1>2, <1>3, TableIsInjective
<1>5. IndexOf(base64Table[d + 1]) = i - 1
  BY DEF IndexOf
<1>6. base64Table[d + 1] \in Base64Characters
  BY <1>2 DEF Base64Characters
<1>7. base64Table[d + 1] # "="
  BY <1>2 DEF base64Table
<1> HIDE DEF i
<1> QED
  BY <1>4, <1>5, <1>6, <1>7

LEMMA GroupsOfThree ==
  ASSUME NEW n \in Nat
  PROVE  \E g \in Nat, j \in 0..2 : n = (3 * g) + j /\ g = n \div 3 /\ j = n % 3
OBVIOUS

LEMMA ElementsAreBytes ==
  ASSUME NEW bytes \in Seq(Byte), NEW i
  PROVE  At0(bytes, i) \in 0..255
<1>1. \A x \in 1..Len(bytes) : bytes[x] \in Byte
  OBVIOUS
<1>2. DOMAIN bytes = 1..Len(bytes)
  OBVIOUS
<1>3. Byte = 0..255
  BY DEF Byte
<1>4. CASE i \in DOMAIN bytes
  <2>1. At0(bytes, i) = bytes[i]
    BY <1>4 DEF At0
  <2> QED
    BY <1>1, <1>2, <1>3, <1>4, <2>1, Zenon
<1>5. CASE i \notin DOMAIN bytes
  BY <1>5 DEF At0
<1> QED
  BY <1>4, <1>5

(* n bytes take as many digits as decode to n bytes, and the digits fit in  *)
(* the groups; every byte has its digit and the next.                       *)
LEMMA DigitsHoldTheBytes ==
  ASSUME NEW n \in Nat
  PROVE  /\ Digits(n) \in 0..(4 * ((n + 2) \div 3))
         /\ Bytes(Digits(n)) = n
         /\ \A k \in 1..n :
              (4 * ((k - 1) \div 3)) + 1 + ((k - 1) % 3) + 1 <= Digits(n)
<1>1. PICK q \in Nat, r \in 0..2 : n = (3 * q) + r /\ q = n \div 3 /\ r = n % 3
  BY GroupsOfThree
<1>2. Digits(n) = (4 * q) + (IF r = 0 THEN 0 ELSE r + 1)
  BY <1>1 DEF Digits
<1>3. (n + 2) \div 3 = q + (IF r = 0 THEN 0 ELSE 1)
  BY <1>1
<1>4. Digits(n) \in 0..(4 * ((n + 2) \div 3))
  BY <1>2, <1>3
<1>5. Bytes(Digits(n)) = n
  <2>1. CASE r = 0
    <3>1. Digits(n) = 4 * q
      BY <1>2, <2>1
    <3>2. (4 * q) \div 4 = q /\ (4 * q) % 4 = 0
      OBVIOUS
    <3> QED
      BY <1>1, <2>1, <3>1, <3>2 DEF Bytes
  <2>2. CASE r # 0
    <3>1. Digits(n) = (4 * q) + r + 1
      BY <1>2, <2>2
    <3>2. ((4 * q) + r + 1) \div 4 = q /\ ((4 * q) + r + 1) % 4 = r + 1
      BY <2>2
    <3> QED
      BY <1>1, <2>2, <3>1, <3>2 DEF Bytes
  <2> QED
    BY <2>1, <2>2
<1>6. ASSUME NEW k \in 1..n
      PROVE  (4 * ((k - 1) \div 3)) + 1 + ((k - 1) % 3) + 1 <= Digits(n)
  <2>1. PICK g \in Nat, j \in 0..2 :
          k - 1 = (3 * g) + j /\ g = (k - 1) \div 3 /\ j = (k - 1) % 3
    <3>1. k - 1 \in Nat
      OBVIOUS
    <3> QED
      BY <3>1, GroupsOfThree
  <2>2. g < q \/ (g = q /\ j < r)
    BY <1>1, <2>1
  <2> QED
    BY <1>1, <1>2, <2>1, <2>2
<1> QED
  BY <1>4, <1>5, <1>6

LEMMA PaddingIsFound ==
  ASSUME NEW bytes \in Seq(Byte)
  PROVE  BeforePadding(base64_encode(bytes))
           = SubSeq(base64_encode(bytes), 1, Digits(Len(bytes)))
<1> DEFINE e == base64_encode(bytes)
           n == 4 * ((Len(bytes) + 2) \div 3)
           m == Digits(Len(bytes))
           Ends(x) == /\ \A i \in 1..x : e[i] # "="
                      /\ x = Len(e) \/ e[x + 1] = "="
<1>1. n \in Nat /\ m \in 0..n
  BY DigitsHoldTheBytes
<1>2. Len(e) = n
  <2>1. e \in Seq(Character) /\ DOMAIN e = 1..n
    BY EncodedIsText DEF base64_encode
  <2> QED
    BY <1>1, <2>1, LenProperties
<1>3. ASSUME NEW i \in 1..n
      PROVE  e[i] = "=" <=> i > m
  <2>1. (i - 1) % 4 \in 0..3 /\ (3 * ((i - 1) \div 4)) + 1 \in Nat
    BY <1>1
  <2>2. PICK d \in 0..63 : d = EncodedDigit(bytes, (3 * ((i - 1) \div 4)) + 1, (i - 1) % 4)
    BY <2>1, DigitsAreDigits
  <2>3. e[i] = IF i <= m THEN base64Table[d + 1] ELSE "="
    BY <2>2 DEF base64_encode
  <2>4. base64Table[d + 1] # "="
    BY IndexFindsTheDigit
  <2> HIDE DEF e, n, m
  <2>5. n \in Nat /\ m \in Nat /\ i \in Nat
    BY <1>1
  <2>6. CASE i <= m
    BY <2>3, <2>4, <2>5, <2>6
  <2>7. CASE i > m
    BY <2>3, <2>5, <2>7
  <2> QED
    BY <2>5, <2>6, <2>7
<1> HIDE DEF e, n, m
<1>4. Ends(m)
  BY <1>1, <1>2, <1>3
<1>5. ASSUME NEW x \in 0..Len(e), Ends(x)
      PROVE  x = m
  <2>1. ~(x > m)
    <3>1. SUFFICES ASSUME x > m
                   PROVE  FALSE
      OBVIOUS
    <3>2. m + 1 \in 1..x /\ m + 1 \in 1..n
      BY <1>1, <1>2, <3>1
    <3>3. e[m + 1] = "=" /\ e[m + 1] # "="
      BY <1>1, <1>3, <1>5, <3>2
    <3> QED
      BY <3>3
  <2>2. ~(x < m)
    <3>1. SUFFICES ASSUME x < m
                   PROVE  FALSE
      OBVIOUS
    <3>2. x + 1 \in 1..n /\ x # Len(e) /\ ~(x + 1 > m)
      BY <1>1, <1>2, <3>1
    <3> QED
      BY <1>3, <1>5, <3>2
  <2> QED
    BY <1>1, <1>2, <2>1, <2>2
<1>6. (CHOOSE x \in 0..Len(e) : Ends(x)) = m
  <2>1. m \in 0..Len(e)
    BY <1>1, <1>2
  <2> HIDE DEF Ends
  <2> QED
    BY <1>4, <1>5, <2>1
<1> QED
  BY <1>6 DEF BeforePadding, e, m

(* For every sequence of bytes, `base64_encode` writes a text the decoder   *)
(* takes, and `base64_decode` reads from it the bytes that were encoded:     *)
(* what the text writer puts between < and > holds the data of the binary.  *)
THEOREM DecodesWhatWasEncoded ==
  ASSUME NEW bytes \in Seq(Byte)
  PROVE  /\ ValidBase64(base64_encode(bytes))
         /\ base64_decode(base64_encode(bytes)) = bytes
<1> DEFINE e == base64_encode(bytes)
           l == Len(bytes)
           n == 4 * ((l + 2) \div 3)
           m == Digits(l)
           read == BeforePadding(e)
           digits == [i \in DOMAIN read |-> IndexOf(read[i])]
           Digit(i) == EncodedDigit(bytes, (3 * ((i - 1) \div 4)) + 1, (i - 1) % 4)
<1>1. /\ l \in Nat /\ n \in Nat /\ m \in 0..n /\ Bytes(m) = l
      /\ \A k \in 1..l : (4 * ((k - 1) \div 3)) + 1 + ((k - 1) % 3) + 1 <= m
  <2>1. l \in Nat
    OBVIOUS
  <2>2. /\ m \in 0..n /\ Bytes(m) = l
        /\ \A k \in 1..l : (4 * ((k - 1) \div 3)) + 1 + ((k - 1) % 3) + 1 <= m
    <3> HIDE DEF l
    <3> QED
      BY <2>1, DigitsHoldTheBytes, Zenon
  <2>3. n \in Nat
    <3> HIDE DEF l
    <3> QED
      BY <2>1
  <2> QED
    BY <2>1, <2>2, <2>3
<1>2. e \in Seq(Character) /\ Len(e) = n
  <2>1. e \in Seq(Character) /\ DOMAIN e = 1..n
    BY EncodedIsText DEF base64_encode
  <2> QED
    BY <1>1, <2>1, LenProperties
<1>3. /\ Len(read) = m /\ DOMAIN read = 1..m
      /\ \A i \in 1..m : read[i] = e[i]
  <2>1. read = SubSeq(e, 1, m)
    BY PaddingIsFound
  <2> HIDE DEF e, l, n, m, read
  <2> QED
    BY <1>1, <1>2, <2>1
<1>4. ASSUME NEW i \in 1..m
      PROVE  /\ e[i] \in Base64Characters
             /\ Digit(i) \in 0..63
             /\ IndexOf(e[i]) = Digit(i)
  <2>1. (i - 1) % 4 \in 0..3 /\ (3 * ((i - 1) \div 4)) + 1 \in Nat /\ i \in 1..n
    BY <1>1
  <2>2. PICK d \in 0..63 : d = Digit(i)
    BY <2>1, DigitsAreDigits
  <2>3. e[i] = base64Table[d + 1]
    BY <1>1, <2>1, <2>2 DEF base64_encode
  <2> QED
    BY <2>2, <2>3, IndexFindsTheDigit
<1>5. ValidBase64(e)
  BY <1>3, <1>4 DEF ValidBase64
<1>6. \A i \in 1..m : At0(digits, i) = Digit(i)
  <2>1. \A i \in 1..m : digits[i] = Digit(i)
    BY <1>3, <1>4
  <2>2. DOMAIN digits = 1..m
    BY <1>3
  <2> HIDE DEF digits, Digit, m
  <2> QED
    BY <2>1, <2>2 DEF At0
<1>7. ASSUME NEW k \in 1..l
      PROVE  DecodedByte(digits, (4 * ((k - 1) \div 3)) + 1, (k - 1) % 3) = bytes[k]
  <2> HIDE DEF digits, m, e, l, n, read, Digit
  <2>1. PICK g \in Nat, j \in 0..2 :
          k - 1 = (3 * g) + j /\ g = (k - 1) \div 3 /\ j = (k - 1) % 3
    <3>1. k - 1 \in Nat
      BY <1>1
    <3> QED
      BY <3>1, GroupsOfThree
  <2>2. PICK b0 \in 0..255, b1 \in 0..255, b2 \in 0..255 :
          /\ At0(bytes, (3 * g) + 1 + 0) = b0
          /\ At0(bytes, (3 * g) + 1 + 1) = b1
          /\ At0(bytes, (3 * g) + 1 + 2) = b2
    BY ElementsAreBytes
  <2>3. bytes[k] = IF j = 0 THEN b0 ELSE IF j = 1 THEN b1 ELSE b2
    <3>1. k = (3 * g) + 1 + j /\ k \in DOMAIN bytes
      BY <1>1, <2>1 DEF l
    <3>2. bytes[k] = At0(bytes, (3 * g) + 1 + j)
      BY <3>1, Zenon DEF At0
    <3>3. CASE j = 0
      BY <2>2, <3>2, <3>3
    <3>4. CASE j = 1
      BY <2>2, <3>2, <3>4
    <3>5. CASE j = 2
      BY <2>2, <3>2, <3>5
    <3> QED
      BY <3>3, <3>4, <3>5
  <2>4. ASSUME NEW i \in 0..3, (4 * g) + 1 + i <= m
        PROVE  At0(digits, (4 * g) + 1 + i) = EncodedDigit(bytes, (3 * g) + 1, i)
    <3>1. (4 * g) + 1 + i \in 1..m
      BY <1>1, <2>4
    <3>2. /\ ((4 * g) + 1 + i - 1) \div 4 = g
          /\ ((4 * g) + 1 + i - 1) % 4 = i
      OBVIOUS
    <3> QED
      BY <1>6, <3>1, <3>2 DEF Digit
  <2>5. /\ EncodedDigit(bytes, (3 * g) + 1, 0) = b0 \div 4
        /\ EncodedDigit(bytes, (3 * g) + 1, 1) = ((b0 % 4) * 16) + (b1 \div 16)
        /\ EncodedDigit(bytes, (3 * g) + 1, 2) = ((b1 % 16) * 4) + (b2 \div 64)
        /\ EncodedDigit(bytes, (3 * g) + 1, 3) = b2 % 64
    BY <2>2 DEF EncodedDigit
  <2>6. (4 * g) + 1 + j + 1 <= m
    BY <1>1, <2>1
  (* The digits of a group give back its bytes. *)
  <2>7. /\ (((b0 \div 4) * 4) + ((((b0 % 4) * 16) + (b1 \div 16)) \div 16)) % 256 = b0
         /\ ((((((b0 % 4) * 16) + (b1 \div 16)) % 16) * 16)
               + ((((b1 % 16) * 4) + (b2 \div 64)) \div 4)) % 256 = b1
         /\ ((((((b1 % 16) * 4) + (b2 \div 64)) % 4) * 64) + (b2 % 64)) % 256 = b2
    BY ONLY b0 \in 0..255, b1 \in 0..255, b2 \in 0..255, SMT
  <2>8. CASE j = 0
    <3>1. /\ At0(digits, (4 * g) + 1 + 0) = b0 \div 4
          /\ At0(digits, (4 * g) + 1 + 1) = ((b0 % 4) * 16) + (b1 \div 16)
      BY <1>1, <2>4, <2>5, <2>6, <2>8
    <3>2. DecodedByte(digits, (4 * g) + 1, 0)
            = (((b0 \div 4) * 4) + ((((b0 % 4) * 16) + (b1 \div 16)) \div 16)) % 256
      BY <3>1 DEF DecodedByte
    <3>3. DecodedByte(digits, (4 * g) + 1, 0) = b0
      BY <2>7, <3>2
    <3> QED
      BY <2>1, <2>3, <2>8, <3>3
  <2>9. CASE j = 1
    <3>1. /\ At0(digits, (4 * g) + 1 + 1) = ((b0 % 4) * 16) + (b1 \div 16)
          /\ At0(digits, (4 * g) + 1 + 2) = ((b1 % 16) * 4) + (b2 \div 64)
      BY <1>1, <2>4, <2>5, <2>6, <2>9
    <3>2. DecodedByte(digits, (4 * g) + 1, 1)
            = ((((((b0 % 4) * 16) + (b1 \div 16)) % 16) * 16)
                 + ((((b1 % 16) * 4) + (b2 \div 64)) \div 4)) % 256
      BY <3>1 DEF DecodedByte
    <3>3. DecodedByte(digits, (4 * g) + 1, 1) = b1
      BY <2>7, <3>2
    <3> QED
      BY <2>1, <2>3, <2>9, <3>3
  <2>10. CASE j = 2
    <3>1. /\ At0(digits, (4 * g) + 1 + 2) = ((b1 % 16) * 4) + (b2 \div 64)
          /\ At0(digits, (4 * g) + 1 + 3) = b2 % 64
      BY <1>1, <2>4, <2>5, <2>6, <2>10
    <3>2. DecodedByte(digits, (4 * g) + 1, 2)
            = ((((((b1 % 16) * 4) + (b2 \div 64)) % 4) * 64) + (b2 % 64)) % 256
      BY <3>1 DEF DecodedByte
    <3>3. DecodedByte(digits, (4 * g) + 1, 2) = b2
      BY <2>7, <3>2
    <3> QED
      BY <2>1, <2>3, <2>10, <3>3
  <2> QED
    BY <2>8, <2>9, <2>10
<1>8. base64_decode(e) = [k \in 1..l |-> bytes[k]]
  <2>1. base64_decode(e)
          = [k \in 1..l |-> DecodedByte(digits, (4 * ((k - 1) \div 3)) + 1, (k - 1) % 3)]
    <3>1. Bytes(Len(read)) = l
      BY <1>1, <1>3
    <3> HIDE DEF l
    <3> QED
      BY <3>1 DEF base64_decode
  <2> HIDE DEF digits, l, e
  <2> QED
    BY <1>7, <2>1
<1>9. bytes = [k \in 1..l |-> bytes[k]]
  OBVIOUS
<1> QED
  BY <1>5, <1>8, <1>9

-----------------------------------------------------------------------------
(* The room a word takes. *)

(* What is still to be written of a word of which i characters are. *)
EscapesBehind(word, i) == {j \in Escapes(word) : j > i}
Rest(word, i) == Len(word) - i + Cardinality(EscapesBehind(word, i)) + Len(Closing(word))

LEMMA EscapesAreFinite ==
  ASSUME NEW word \in Seq(Character), NEW i \in Nat
  PROVE  /\ IsFiniteSet(EscapesBehind(word, i))
         /\ Cardinality(EscapesBehind(word, i)) \in Nat
         /\ EscapesBehind(word, 0) = Escapes(word)
<1>1. DOMAIN word = 1..Len(word) /\ Len(word) \in Nat
  OBVIOUS
<1>2. IsFiniteSet(1..Len(word))
  BY <1>1, FS_Interval, 1 \in Int, Len(word) \in Int
<1>3. EscapesBehind(word, i) \subseteq 1..Len(word)
  BY <1>1 DEF EscapesBehind, Escapes
<1>4. EscapesBehind(word, 0) = Escapes(word)
  BY <1>1 DEF EscapesBehind, Escapes
<1> QED
  BY <1>2, <1>3, <1>4, FS_Subset, FS_CardinalityType

LEMMA QuotesAreText ==
  ASSUME NEW word
  PROVE  /\ Opening(word) \in Seq(Character) /\ Len(Opening(word)) \in {0, 1}
         /\ Closing(word) \in Seq(Character) /\ Len(Closing(word)) = Len(Opening(word))
         /\ BarewordSafe(word) => Len(Closing(word)) = 0
<1>1. Quote \in Character
  BY OwnCharactersAreCharacters
<1>2. <<>> \in Seq(Character) /\ Len(<<>>) = 0
  OBVIOUS
<1>3. <<Quote>> \in Seq(Character) /\ Len(<<Quote>>) = 1
  BY <1>1
<1> QED
  BY <1>2, <1>3 DEF Opening, Closing

(* What is written of one character. *)
CharSize(word, i) == IF word[i + 1] \in RequiresEscape THEN 2 ELSE 1

LEMMA RestOfWord ==
  ASSUME NEW word \in Seq(Character), NEW i \in Nat
  PROVE  /\ i <= Len(word) => Rest(word, i) \in Nat
         /\ i = Len(word) => Rest(word, i) = Len(Closing(word))
         /\ i < Len(word) => Rest(word, i) = CharSize(word, i) + Rest(word, i + 1)
<1>1. /\ DOMAIN word = 1..Len(word) /\ Len(word) \in Nat
      /\ Len(Closing(word)) \in Nat
  BY QuotesAreText
<1>2. /\ IsFiniteSet(EscapesBehind(word, i + 1))
      /\ Cardinality(EscapesBehind(word, i)) \in Nat
      /\ Cardinality(EscapesBehind(word, i + 1)) \in Nat
  BY EscapesAreFinite
<1>3. i <= Len(word) => Rest(word, i) \in Nat
  BY <1>1, <1>2 DEF Rest
<1>4. ASSUME i = Len(word)
      PROVE  Rest(word, i) = Len(Closing(word))
  <2>1. EscapesBehind(word, i) = {}
    BY <1>1, <1>4 DEF EscapesBehind, Escapes
  <2>2. Cardinality(EscapesBehind(word, i)) = 0
    BY <2>1, FS_EmptySet
  <2> QED
    BY <1>1, <1>4, <2>2 DEF Rest
<1>5. ASSUME i < Len(word)
      PROVE  Cardinality(EscapesBehind(word, i))
               = CharSize(word, i) - 1 + Cardinality(EscapesBehind(word, i + 1))
  <2>1. CASE word[i + 1] \in RequiresEscape
    <3>1. EscapesBehind(word, i) = EscapesBehind(word, i + 1) \cup {i + 1}
      BY <1>1, <1>5, <2>1 DEF EscapesBehind, Escapes
    <3>2. i + 1 \notin EscapesBehind(word, i + 1)
      BY DEF EscapesBehind
    <3>3. Cardinality(EscapesBehind(word, i)) = Cardinality(EscapesBehind(word, i + 1)) + 1
      BY <1>2, <3>1, <3>2, FS_AddElement
    <3> QED
      BY <1>2, <2>1, <3>3 DEF CharSize
  <2>2. CASE word[i + 1] \notin RequiresEscape
    <3>1. EscapesBehind(word, i) = EscapesBehind(word, i + 1)
      BY <1>1, <1>5, <2>2 DEF EscapesBehind, Escapes
    <3> QED
      BY <1>2, <2>2, <3>1 DEF CharSize
  <2> QED
    BY <2>1, <2>2
<1>6. CharSize(word, i) \in Nat
  BY DEF CharSize
<1>7. ASSUME i < Len(word)
      PROVE  Rest(word, i) = CharSize(word, i) + Rest(word, i + 1)
  BY <1>1, <1>2, <1>5, <1>6, <1>7 DEF Rest
<1> QED
  BY <1>3, <1>4, <1>7

-----------------------------------------------------------------------------
(* The inductive invariant. *)

Activations ==
  [pc : {"append", "value", "key", "array", "element", "map", "mapValue",
         "root", "written", "overrun", "aborted"},
   expr : Nodes, indent : Nat, i : Nat]
Waits == [pc : {"element", "mapValue", "root"}, expr : Nodes, indent : Nat, i : Nat]

StackInv ==
  /\ writing \in Activations
  /\ waiting \in Seq(Waits)
  /\ writing.pc \in {"root", "written"} <=> waiting = <<>>
  /\ InOrder(writing)
  /\ \A n \in DOMAIN waiting :
       /\ waiting[n].pc = "root" <=> n = 1
       /\ InOrder(waiting[n])

(* By how much the room made for a key falls short of what is written.      *)
Missing(word) ==
  IF human /\ ~BarewordSafe(word) THEN 0 ELSE Cardinality(Escapes(word))

(* The room left is exactly what is left of a value, and for a key that and *)
(* the space behind it, less what is missing.                               *)
Room ==
  /\ copy.i <= Len(copy.word)
  /\ copy.at <= Len(text)
  /\ \A j \in 1..copy.at : text[j] \in Character
  /\ writing.pc = "value" => copy.at + Rest(copy.word, copy.i) = Len(text)
  /\ writing.pc = "key" =>
       copy.at + Rest(copy.word, copy.i) + 1 = Len(text) + Missing(copy.word)

TextInv ==
  /\ human \in BOOLEAN
  /\ text \in Seq(Character \cup {Unset})
  /\ copy \in [word : Seq(Character), i : Nat, at : Nat]
  /\ Copying => Room
  /\ ~Copying /\ writing.pc # "overrun" => text \in Seq(Character)
  /\ OverrunsOnlyAtKeys

IInv == StackInv /\ TextInv

-----------------------------------------------------------------------------
(* The stack. *)

LEMMA ReturnKeepsStack ==
  ASSUME StackInv, writing.pc \notin {"root", "written"}, Return
  PROVE  StackInv' /\ writing'.pc \in {"element", "mapValue", "root"}
<1>1. waiting # <<>> /\ waiting \in Seq(Waits)
  BY DEF StackInv
<1>2. Len(waiting) \in Nat \ {0} /\ DOMAIN waiting = 1..Len(waiting)
  BY <1>1, EmptySeq
<1>3. PICK k \in Nat : k = Len(waiting) - 1
  <2>1. Len(waiting) - 1 \in Nat
    BY <1>2
  <2> QED
    BY <2>1
<1>4. waiting' = SubSeq(waiting, 1, k) /\ writing' = waiting[Len(waiting)]
  BY <1>3 DEF Return
<1>5. /\ waiting' \in Seq(Waits) /\ Len(waiting') = k
      /\ \A n \in 1..k : waiting'[n] = waiting[n]
  <2>1. \A n \in 1..k : waiting[n] \in Waits
    BY <1>1, <1>2, <1>3
  <2> DEFINE front == SubSeq(waiting, 1, k)
  <2>2. /\ front \in Seq(Waits)
        /\ Len(front) = IF 1 <= k THEN k - 1 + 1 ELSE 0
        /\ \A n \in 1..(k - 1 + 1) : front[n] = waiting[1 + n - 1]
    BY <2>1, SubSeqProperties, 1 \in Int, k \in Int
  <2> HIDE DEF front
  <2>3. k - 1 + 1 = k /\ (~(1 <= k) => k = 0) /\ \A n \in 1..k : 1 + n - 1 = n
    OBVIOUS
  <2> QED
    BY <1>4, <2>2, <2>3 DEF front
<1>6. DOMAIN waiting' = 1..k
  BY <1>5
<1>7. writing' \in Waits /\ InOrder(writing') /\ (writing'.pc = "root" <=> Len(waiting) = 1)
  BY <1>1, <1>2, <1>4 DEF StackInv
<1>8. writing' \in Activations /\ writing'.pc \in {"element", "mapValue", "root"}
  BY <1>7 DEF Waits, Activations
<1>9. waiting' = <<>> <=> Len(waiting) = 1
  <2>1. waiting' = <<>> <=> Len(waiting') = 0
    BY <1>5
  <2> QED
    BY <1>2, <1>3, <1>5, <2>1
<1>10. \A n \in DOMAIN waiting' :
         (waiting'[n].pc = "root" <=> n = 1) /\ InOrder(waiting'[n])
  BY <1>2, <1>3, <1>5, <1>6 DEF StackInv
<1> QED
  BY <1>5, <1>7, <1>8, <1>9, <1>10 DEF StackInv, InOrder

LEMMA CallKeepsStack ==
  ASSUME StackInv, writing.pc \notin {"root", "written"},
         NEW caller \in Waits, caller.pc # "root", InOrder(caller),
         NEW expr \in Nodes, NEW indent \in Nat, Call(caller, expr, indent)
  PROVE  StackInv' /\ writing'.pc = "append"
<1>1. waiting # <<>> /\ waiting \in Seq(Waits)
  BY DEF StackInv
<1>2. Len(waiting) \in Nat \ {0} /\ DOMAIN waiting = 1..Len(waiting)
  BY <1>1, EmptySeq
<1>3. /\ waiting' \in Seq(Waits) /\ Len(waiting') = Len(waiting) + 1
      /\ \A n \in 1..Len(waiting) : waiting'[n] = waiting[n]
      /\ waiting'[Len(waiting) + 1] = caller
      /\ waiting' # <<>>
      /\ DOMAIN waiting' = 1..(Len(waiting) + 1)
  BY <1>1, <1>2 DEF Call
<1>4. /\ writing' \in Activations /\ writing'.pc = "append"
      /\ InOrder(writing')
  BY DEF Call, Frame, Activations, InOrder
<1>5. \A n \in DOMAIN waiting' :
        (waiting'[n].pc = "root" <=> n = 1) /\ InOrder(waiting'[n])
  <2> TAKE n \in DOMAIN waiting'
  <2>1. CASE n \in 1..Len(waiting)
    BY <1>2, <1>3, <2>1 DEF StackInv
  <2>2. CASE n = Len(waiting) + 1
    BY <1>2, <1>3, <2>2
  <2> QED
    BY <1>2, <1>3, <2>1, <2>2
<1> QED
  BY <1>3, <1>4, <1>5 DEF StackInv, InOrder

LEMMA MoveKeepsStack ==
  ASSUME StackInv, writing.pc \notin {"root", "written"},
         writing' \in Activations, writing'.pc \notin {"root", "written"},
         InOrder(writing'), UNCHANGED waiting
  PROVE  StackInv'
BY DEF StackInv, InOrder

-----------------------------------------------------------------------------
(* The text. *)

LEMMA MoreText ==
  ASSUME NEW s \in Seq(Character)
  PROVE  s \in Seq(Character \cup {Unset})
<1>1. Len(s) \in Nat /\ s \in [1..Len(s) -> Character]
  OBVIOUS
<1>2. s \in [1..Len(s) -> Character \cup {Unset}]
  BY <1>1
<1> QED
  BY <1>1, <1>2

LEMMA JoinedText ==
  ASSUME NEW s \in Seq(Character), NEW t \in Seq(Character)
  PROVE  s \o t \in Seq(Character)
BY ConcatProperties

LEMMA ShortText ==
  /\ <<>> \in Seq(Character)
  /\ \A a \in Character : <<a>> \in Seq(Character)
  /\ \A a, b \in Character : <<a, b>> \in Seq(Character)
  /\ \A a, b, c \in Character : <<a, b, c>> \in Seq(Character)
  /\ \A a, b, c, d \in Character : <<a, b, c, d>> \in Seq(Character)
OBVIOUS

LEMMA TabsAreText ==
  ASSUME NEW n \in Nat
  PROVE  /\ Tabs(n) \in Seq(Character)
         /\ InHuman(Tabs(n)) \in Seq(Character)
<1>1. "\t" \in Character
  BY OwnCharactersAreCharacters
<1>2. Tabs(n) \in [1..n -> Character]
  BY <1>1 DEF Tabs
<1>3. <<>> \in Seq(Character)
  OBVIOUS
<1> QED
  BY <1>2, <1>3 DEF InHuman

LEMMA LeadIsText ==
  ASSUME StackInv
  PROVE  Lead \in Seq(Character)
<1>1. writing.indent + 1 \in Nat
  BY DEF StackInv, InOrder
<1>2. " " \in Character
  BY OwnCharactersAreCharacters
<1>3. Separator \in Seq(Character)
  <2>1. <<" ">> \in Seq(Character) /\ <<>> \in Seq(Character)
    BY <1>2, ShortText, Zenon
  <2> QED
    BY <2>1, Zenon DEF Separator
<1> QED
  BY <1>1, <1>3, TabsAreText DEF Lead, Indentation

(* The room a realloc makes: what is not written of it is left unset. *)
LEMMA GrownText ==
  ASSUME text \in Seq(Character), NEW n \in Nat, NEW chars \in Seq(Character),
         Len(chars) <= n
  PROVE  /\ Grown(n, chars) \in Seq(Character \cup {Unset})
         /\ Len(Grown(n, chars)) = Len(text) + n
         /\ \A j \in 1..(Len(text) + Len(chars)) : Grown(n, chars)[j] \in Character
<1> DEFINE new == [j \in 1..n |-> IF j <= Len(chars) THEN chars[j] ELSE Unset]
<1>1. \A j \in 1..n : new[j] \in Character \cup {Unset}
  OBVIOUS
<1>2. \A j \in 1..Len(chars) : new[j] \in Character
  OBVIOUS
<1>3. new \in Seq(Character \cup {Unset}) /\ Len(new) = n
  <2>1. new = [j \in 1..n |-> new[j]]
    OBVIOUS
  <2> HIDE DEF new
  <2>2. new \in [1..n -> Character \cup {Unset}]
    BY <1>1, <2>1
  <2> QED
    BY <2>1, <2>2
<1>4. Grown(n, chars) = text \o new
  BY DEF Grown
<1> HIDE DEF new
<1>5. text \in Seq(Character \cup {Unset})
  BY MoreText
<1>6. /\ text \o new \in Seq(Character \cup {Unset})
      /\ Len(text \o new) = Len(text) + Len(new)
      /\ \A i \in 1..Len(text) + Len(new) :
            (text \o new)[i] = IF i <= Len(text) THEN text[i] ELSE new[i - Len(text)]
  BY <1>3, <1>5, ConcatProperties
<1>7. ASSUME NEW j \in 1..(Len(text) + Len(chars))
      PROVE  Grown(n, chars)[j] \in Character
  <2>1. j \in 1..Len(text) + Len(new)
    BY <1>3
  <2>2. CASE j <= Len(text)
    BY <1>4, <1>6, <2>1, <2>2
  <2>3. CASE ~(j <= Len(text))
    <3>1. j - Len(text) \in 1..Len(chars)
      BY <2>3
    <3>2. Grown(n, chars)[j] = new[j - Len(text)]
      BY <1>4, <1>6, <2>1, <2>3
    <3> QED
      BY <1>2, <3>1, <3>2
  <2> QED
    BY <2>2, <2>3
<1> QED
  BY <1>3, <1>4, <1>6, <1>7

CopyOK == copy \in [word : Seq(Character), i : Nat, at : Nat]

LEMMA FilledText ==
  ASSUME text \in Seq(Character \cup {Unset}), CopyOK,
         \A j \in 1..copy.at : text[j] \in Character,
         NEW chars \in Seq(Character), Fits(chars)
  PROVE  /\ Filled(chars) \in Seq(Character \cup {Unset})
         /\ Len(Filled(chars)) = Len(text)
         /\ DOMAIN Filled(chars) = 1..Len(text)
         /\ \A j \in 1..(copy.at + Len(chars)) : Filled(chars)[j] \in Character
<1>1. /\ copy.at \in Nat /\ Len(chars) \in Nat /\ Len(text) \in Nat
      /\ DOMAIN text = 1..Len(text)
      /\ copy.at + Len(chars) <= Len(text)
  BY DEF CopyOK, Fits
<1>2. Filled(chars) = [j \in 1..Len(text) |->
        IF j \in (copy.at + 1)..(copy.at + Len(chars)) THEN chars[j - copy.at] ELSE text[j]]
  BY <1>1 DEF Filled
<1>3. ASSUME NEW j \in 1..Len(text)
      PROVE  /\ Filled(chars)[j] \in Character \cup {Unset}
             /\ j <= copy.at + Len(chars) => Filled(chars)[j] \in Character
  <2>1. CASE j \in (copy.at + 1)..(copy.at + Len(chars))
    <3>1. j - copy.at \in 1..Len(chars)
      BY <1>1, <2>1
    <3>2. chars[j - copy.at] \in Character
      BY <3>1
    <3> QED
      BY <1>2, <2>1, <3>2
  <2>2. CASE j \notin (copy.at + 1)..(copy.at + Len(chars))
    <3>1. Filled(chars)[j] = text[j] /\ text[j] \in Character \cup {Unset}
      BY <1>1, <1>2, <2>2
    <3>2. j <= copy.at + Len(chars) => j \in 1..copy.at
      BY <1>1, <2>2
    <3> QED
      BY <3>1, <3>2
  <2> QED
    BY <2>1, <2>2
<1>4. Filled(chars) \in [1..Len(text) -> Character \cup {Unset}]
  BY <1>2, <1>3
<1>5. \A j \in 1..(copy.at + Len(chars)) : j \in 1..Len(text)
  BY <1>1
<1> QED
  BY <1>1, <1>2, <1>3, <1>4, <1>5

(* What is written next is text, of the size it takes. *)
LEMMA NextIsText ==
  ASSUME CopyOK, copy.i <= Len(copy.word)
  PROVE  /\ NextChars \in Seq(Character)
         /\ copy.i = Len(copy.word) => Len(NextChars) = Rest(copy.word, copy.i)
         /\ copy.i < Len(copy.word) => Len(NextChars) = CharSize(copy.word, copy.i)
<1>1. copy.word \in Seq(Character) /\ copy.i \in Nat
  BY DEF CopyOK
<1>2. CASE copy.i = Len(copy.word)
  <2>1. NextChars = Closing(copy.word)
    BY <1>2 DEF NextChars
  <2> QED
    BY <1>1, <1>2, <2>1, QuotesAreText, RestOfWord
<1>3. CASE copy.i < Len(copy.word)
  <2> DEFINE c == copy.word[copy.i + 1]
  <2>1. c \in Character
    BY <1>1, <1>3
  <2>2. NextChars = IF c \in RequiresEscape THEN <<Backslash, EscapeForValue(c)>> ELSE <<c>>
    BY <1>1, <1>3 DEF NextChars
  <2>3. EscapeForValue(c) \in Character
    <3>1. "r" \in Character /\ "n" \in Character /\ "t" \in Character
      BY OwnCharactersAreCharacters
    <3> HIDE DEF c
    <3> QED
      BY <2>1, <3>1, Zenon DEF EscapeForValue
  <2>4. Backslash \in Character
    BY OwnCharactersAreCharacters
  <2> HIDE DEF c
  <2>5. CASE c \in RequiresEscape
    BY <1>3, <2>2, <2>3, <2>4, <2>5 DEF CharSize, c
  <2>6. CASE c \notin RequiresEscape
    BY <1>3, <2>1, <2>2, <2>6 DEF CharSize, c
  <2> QED
    BY <2>5, <2>6
<1> QED
  BY <1>1, <1>2, <1>3
-----------------------------------------------------------------------------
(* The steps. *)

(* A step that leaves a text without gaps and no word begun. *)
LEMMA PlainStep ==
  ASSUME TextInv, UNCHANGED <<human, copy>>, text' \in Seq(Character),
         writing'.pc \notin {"value", "key", "overrun"}
  PROVE  TextInv'
<1>1. text' \in Seq(Character \cup {Unset})
  BY MoreText
<1> QED
  BY <1>1 DEF TextInv, Copying, OverrunsOnlyAtKeys

LEMMA Moves ==
  ASSUME StackInv,
         NEW pc \in {"append", "value", "key", "array", "element", "map", "mapValue",
                     "root", "written", "overrun", "aborted"}
  PROVE  /\ At(pc) \in Activations
         /\ At(pc).pc = pc /\ At(pc).expr = writing.expr
         /\ At(pc).indent = writing.indent /\ At(pc).i = writing.i
         /\ AtNext(pc) \in Activations
         /\ AtNext(pc).pc = pc /\ AtNext(pc).expr = writing.expr
         /\ AtNext(pc).indent = writing.indent /\ AtNext(pc).i = writing.i + 1
<1>1. writing \in Activations /\ writing.i + 1 \in Nat
  BY DEF StackInv, InOrder
<1> QED
  BY <1>1 DEF At, AtNext, Activations

LEMMA Expressions ==
  ASSUME StackInv
  PROVE  /\ writing.expr \in Nodes
         /\ WellFormed(writing.expr)
BY NodesAssumption DEF StackInv, Activations

LEMMA LeafStep ==
  ASSUME IInv, text' \in Seq(Character),
         writing.pc \notin {"value", "key", "overrun", "root", "written"},
         Return, UNCHANGED <<human, copy>>
  PROVE  IInv'
<1>1. StackInv' /\ writing'.pc \in {"element", "mapValue", "root"}
  BY ReturnKeepsStack DEF IInv
<1> QED
  BY <1>1, PlainStep DEF IInv

LEMMA MoveStep ==
  ASSUME IInv, text' \in Seq(Character),
         writing.pc \notin {"value", "key", "overrun", "root", "written"},
         writing' \in Activations, InOrder(writing'),
         writing'.pc \notin {"value", "key", "overrun", "root", "written"},
         UNCHANGED <<human, copy, waiting>>
  PROVE  IInv'
<1>1. StackInv'
  BY MoveKeepsStack DEF IInv
<1> QED
  BY <1>1, PlainStep DEF IInv

LEMMA PlainText ==
  ASSUME IInv, writing.pc \notin {"value", "key", "overrun"}
  PROVE  /\ text \in Seq(Character)
         /\ \A s \in Seq(Character) : text \o s \in Seq(Character)
         /\ \A s, t \in Seq(Character) : text \o s \o t \in Seq(Character)
         /\ \A s, t, u \in Seq(Character) : text \o s \o t \o u \in Seq(Character)
         /\ writing.indent \in Nat /\ writing.i \in Nat
<1>1. text \in Seq(Character)
  BY DEF IInv, TextInv, Copying
<1>2. \A s \in Seq(Character) : text \o s \in Seq(Character)
  BY <1>1, JoinedText, Zenon
<1>3. \A s, t \in Seq(Character) : text \o s \o t \in Seq(Character)
  BY <1>2, JoinedText, Zenon
<1>4. \A s, t, u \in Seq(Character) : text \o s \o t \o u \in Seq(Character)
  BY <1>3, JoinedText, Zenon
<1> QED
  BY <1>1, <1>2, <1>3, <1>4 DEF IInv, StackInv, InOrder

LEMMA CopyingStep ==
  ASSUME IInv, Copying
  PROVE  /\ CopyOK /\ Room
         /\ copy.word \in Seq(Character) /\ copy.i \in Nat /\ copy.at \in Nat
         /\ Len(copy.word) \in Nat /\ Len(text) \in Nat
         /\ NextChars \in Seq(Character) /\ Len(NextChars) \in Nat
         /\ Rest(copy.word, copy.i) \in Nat
         /\ Missing(copy.word) \in Nat
<1>1. CopyOK /\ Room /\ text \in Seq(Character \cup {Unset})
  BY DEF IInv, TextInv, CopyOK
<1>2. copy.word \in Seq(Character) /\ copy.i \in Nat /\ copy.at \in Nat
  BY <1>1 DEF CopyOK
<1>3. copy.i <= Len(copy.word)
  BY <1>1 DEF Room
<1>4. NextChars \in Seq(Character)
  BY <1>1, <1>3, NextIsText
<1>5. Rest(copy.word, copy.i) \in Nat
  BY <1>2, <1>3, RestOfWord
<1>6. Missing(copy.word) \in Nat
  <2>1. Cardinality(Escapes(copy.word)) \in Nat
    BY <1>2, EscapesAreFinite
  <2> QED
    BY <2>1 DEF Missing
<1> QED
  BY <1>1, <1>2, <1>4, <1>5, <1>6

LEMMA CopyCharStep ==
  ASSUME IInv, CopyChar
  PROVE  IInv'
<1>1. /\ Copying /\ copy.i < Len(copy.word) /\ Fits(NextChars)
      /\ text' = Filled(NextChars)
      /\ copy' = Copy(copy.word, copy.i + 1, copy.at + Len(NextChars))
      /\ UNCHANGED <<human, writing, waiting>>
  BY DEF CopyChar
<1>2. /\ CopyOK /\ Room
      /\ copy.word \in Seq(Character) /\ copy.i \in Nat /\ copy.at \in Nat
      /\ Len(copy.word) \in Nat /\ Len(text) \in Nat
      /\ NextChars \in Seq(Character) /\ Len(NextChars) \in Nat
  BY <1>1, CopyingStep
<1>3. /\ text \in Seq(Character \cup {Unset})
      /\ \A j \in 1..copy.at : text[j] \in Character
  BY <1>2 DEF IInv, TextInv, Room
<1>4. /\ text' \in Seq(Character \cup {Unset}) /\ Len(text') = Len(text)
      /\ \A j \in 1..(copy.at + Len(NextChars)) : text'[j] \in Character
  BY <1>1, <1>2, <1>3, FilledText
<1>5. /\ copy'.word = copy.word /\ copy'.i = copy.i + 1
      /\ copy'.at = copy.at + Len(NextChars)
      /\ copy' \in [word : Seq(Character), i : Nat, at : Nat]
  BY <1>1, <1>2 DEF Copy
<1>6. /\ Len(NextChars) + Rest(copy.word, copy.i + 1) = Rest(copy.word, copy.i)
      /\ Rest(copy.word, copy.i + 1) \in Nat
  <2>1. Len(NextChars) = CharSize(copy.word, copy.i)
    BY <1>1, <1>2, NextIsText
  <2>2. Rest(copy.word, copy.i) = CharSize(copy.word, copy.i) + Rest(copy.word, copy.i + 1)
    BY <1>1, <1>2, RestOfWord
  <2>3. copy.i + 1 \in Nat /\ copy.i + 1 <= Len(copy.word)
    BY <1>1, <1>2
  <2> QED
    BY <1>2, <2>1, <2>2, <2>3, RestOfWord
<1>7. Missing(copy.word)' = Missing(copy.word)
  BY <1>1, <1>5 DEF Missing
<1>8. /\ writing.pc = "value" => copy.at + Rest(copy.word, copy.i) = Len(text)
      /\ writing.pc = "key" =>
           copy.at + Rest(copy.word, copy.i) + 1 = Len(text) + Missing(copy.word)
  BY <1>2 DEF Room
<1>9. Rest(copy.word, copy.i)' = Rest(copy.word, copy.i + 1)
  BY <1>5 DEF Rest, EscapesBehind, Escapes, Closing, Opening
<1>10. Room'
  <2>1. copy'.i <= Len(copy'.word)
    BY <1>1, <1>2, <1>5
  <2>2. copy'.at <= Len(text')
    BY <1>1, <1>2, <1>4, <1>5 DEF Fits
  <2>3. \A j \in 1..copy'.at : text'[j] \in Character
    BY <1>4, <1>5
  <2>4. writing'.pc = "value" => copy'.at + Rest(copy.word, copy.i)' = Len(text')
    BY <1>1, <1>2, <1>4, <1>5, <1>6, <1>8, <1>9
  <2>5. writing'.pc = "key" =>
          copy'.at + Rest(copy.word, copy.i)' + 1 = Len(text') + Missing(copy.word)'
    BY <1>1, <1>2, <1>4, <1>5, <1>6, <1>7, <1>8, <1>9
  <2> QED
    BY <2>1, <2>2, <2>3, <2>4, <2>5 DEF Room
<1>11. StackInv'
  BY <1>1 DEF IInv, StackInv, InOrder
<1>12. Copying' /\ writing'.pc # "overrun"
  BY <1>1 DEF Copying
<1> QED
  BY <1>1, <1>4, <1>5, <1>10, <1>11, <1>12 DEF IInv, TextInv, OverrunsOnlyAtKeys
LEMMA OverrunStep ==
  ASSUME IInv, Overrun
  PROVE  IInv'
<1>1. /\ Copying /\ ~Fits(NextChars) /\ writing' = At("overrun")
      /\ UNCHANGED <<human, text, waiting, copy>>
  BY DEF Overrun
<1>2. /\ CopyOK /\ Room
      /\ copy.word \in Seq(Character) /\ copy.i \in Nat /\ copy.at \in Nat
      /\ Len(copy.word) \in Nat /\ Len(text) \in Nat
      /\ Len(NextChars) \in Nat
      /\ Rest(copy.word, copy.i) \in Nat /\ Missing(copy.word) \in Nat
  BY <1>1, CopyingStep
<1>3. /\ writing' \in Activations /\ writing'.pc = "overrun"
      /\ writing'.expr = writing.expr /\ InOrder(writing')
  <2>1. /\ At("overrun") \in Activations /\ At("overrun").pc = "overrun"
        /\ At("overrun").expr = writing.expr
        /\ At("overrun").indent = writing.indent /\ At("overrun").i = writing.i
    BY Moves DEF IInv
  <2> QED
    BY <1>1, <2>1 DEF IInv, StackInv, InOrder
<1>4. StackInv'
  <2>1. writing.pc \notin {"root", "written"}
    BY <1>1 DEF Copying
  <2> QED
    BY <1>1, <1>3, <2>1, MoveKeepsStack DEF IInv
(* What is written next is at most what is left of the word. *)
<1>5. Len(NextChars) <= Rest(copy.word, copy.i)
  <2>1. CASE copy.i = Len(copy.word)
    <3>1. Len(NextChars) = Rest(copy.word, copy.i)
      BY <1>2, <2>1, NextIsText
    <3> QED
      BY <1>2, <3>1
  <2>2. CASE copy.i < Len(copy.word)
    <3>1. Len(NextChars) = CharSize(copy.word, copy.i)
      BY <1>2, <2>2, NextIsText
    <3>2. Rest(copy.word, copy.i) = CharSize(copy.word, copy.i) + Rest(copy.word, copy.i + 1)
      BY <1>2, <2>2, RestOfWord
    <3>3. copy.i + 1 \in Nat /\ copy.i + 1 <= Len(copy.word)
      BY <1>2, <2>2
    <3>4. Rest(copy.word, copy.i + 1) \in Nat
      BY <1>2, <3>3, RestOfWord
    <3> QED
      BY <1>2, <3>1, <3>2, <3>4
  <2>3. copy.i <= Len(copy.word)
    BY <1>2 DEF Room
  <2> QED
    BY <1>2, <2>1, <2>2, <2>3
<1>6. copy.at + Len(NextChars) > Len(text)
  BY <1>1, <1>2 DEF Fits
<1>7. writing.pc = "key"
  <2>1. ASSUME writing.pc = "value" PROVE FALSE
    <3>1. copy.at + Rest(copy.word, copy.i) = Len(text)
      BY <1>2, <2>1 DEF Room
    <3> QED
      BY <1>2, <1>5, <1>6, <3>1
  <2> QED
    BY <1>1, <2>1 DEF Copying
<1>8. Missing(copy.word) >= 2
  <2>1. copy.at + Rest(copy.word, copy.i) + 1 = Len(text) + Missing(copy.word)
    BY <1>2, <1>7 DEF Room
  <2> QED
    BY <1>2, <1>5, <1>6, <2>1
<1>9. /\ Cardinality(Escapes(copy.word)) >= 2
      /\ human => BarewordSafe(copy.word)
  BY <1>8 DEF Missing
<1>10. writing.expr.type = "Map"
  BY <1>7 DEF IInv, StackInv, InOrder
<1>11. OverrunsOnlyAtKeys'
  BY <1>1, <1>3, <1>9, <1>10 DEF OverrunsOnlyAtKeys, Escapes, BarewordSafe
<1> QED
  BY <1>1, <1>3, <1>4, <1>11 DEF IInv, TextInv, Copying

LEMMA ValueCopiedStep ==
  ASSUME IInv, ValueCopied
  PROVE  IInv'
<1>1. /\ writing.pc = "value" /\ copy.i = Len(copy.word) /\ Fits(NextChars)
      /\ text' = Filled(NextChars)
      /\ copy' = Copy(copy.word, copy.i, copy.at + Len(NextChars))
      /\ Return /\ UNCHANGED human
  BY DEF ValueCopied, Copied
<1>2. /\ CopyOK /\ Room
      /\ copy.word \in Seq(Character) /\ copy.i \in Nat /\ copy.at \in Nat
      /\ Len(copy.word) \in Nat /\ Len(text) \in Nat
      /\ NextChars \in Seq(Character) /\ Len(NextChars) \in Nat
  BY <1>1, CopyingStep DEF Copying
<1>3. StackInv' /\ writing'.pc \in {"element", "mapValue", "root"}
  BY <1>1, ReturnKeepsStack DEF IInv
<1>4. /\ text \in Seq(Character \cup {Unset})
      /\ \A j \in 1..copy.at : text[j] \in Character
  BY <1>2 DEF IInv, TextInv, Room
<1>5. /\ text' \in Seq(Character \cup {Unset}) /\ Len(text') = Len(text)
      /\ \A j \in 1..(copy.at + Len(NextChars)) : text'[j] \in Character
  BY <1>1, <1>2, <1>4, FilledText
<1>6. copy.at + Len(NextChars) = Len(text)
  <2>1. Len(NextChars) = Rest(copy.word, copy.i)
    BY <1>1, <1>2, NextIsText
  <2> QED
    BY <1>1, <1>2, <2>1 DEF Room
<1>7. text' \in Seq(Character)
  <2>1. text' \in [1..Len(text) -> Character \cup {Unset}]
    BY <1>5
  <2>2. text' \in [1..Len(text) -> Character]
    BY <1>5, <1>6, <2>1
  <2> QED
    BY <1>2, <2>2
<1>8. copy' \in [word : Seq(Character), i : Nat, at : Nat]
  BY <1>1, <1>2 DEF Copy
<1>9. human' \in BOOLEAN
  BY <1>1 DEF IInv, TextInv
<1> QED
  BY <1>3, <1>5, <1>7, <1>8, <1>9 DEF IInv, TextInv, Copying, OverrunsOnlyAtKeys
LEMMA KeyCopiedStep ==
  ASSUME IInv, KeyCopied
  PROVE  IInv'
<1> DEFINE filled == Filled(NextChars)
<1>1. /\ writing.pc = "key" /\ copy.i = Len(copy.word) /\ Fits(NextChars)
      /\ copy' = Copy(copy.word, copy.i, copy.at + Len(NextChars))
      /\ Call(At("mapValue"), writing.expr.pairs[writing.i + 1].value, writing.indent + 1)
      /\ UNCHANGED human
  BY DEF KeyCopied, Copied
<1> HIDE DEF filled
<1>13. text' = [filled EXCEPT ![Len(text)] = " "]
  BY DEF KeyCopied, filled
<1>2. /\ CopyOK /\ Room
      /\ copy.word \in Seq(Character) /\ copy.i \in Nat /\ copy.at \in Nat
      /\ Len(copy.word) \in Nat /\ Len(text) \in Nat
      /\ NextChars \in Seq(Character) /\ Len(NextChars) \in Nat
      /\ Missing(copy.word) \in Nat
  BY <1>1, CopyingStep DEF Copying
<1>3. /\ writing.expr \in Nodes /\ writing.expr.type = "Map"
      /\ writing.i \in Nat /\ writing.indent + 1 \in Nat
      /\ writing.i < Len(writing.expr.pairs) /\ writing.i <= writing.expr.count
      /\ writing.expr.pairs \in Seq(Pairs(Seq(Character), Nodes))
  <2>1. /\ writing.expr.type = "Map" /\ writing.i \in Nat /\ writing.indent + 1 \in Nat
        /\ writing.i < Len(writing.expr.pairs) /\ writing.i <= writing.expr.count
    BY <1>1 DEF IInv, StackInv, InOrder
  <2>2. writing.expr \in Nodes /\ WellFormed(writing.expr)
    BY Expressions DEF IInv
  <2> QED
    BY <2>1, <2>2 DEF WellFormed
<1>4. writing.expr.pairs[writing.i + 1].value \in Nodes
  <2>1. writing.i + 1 \in 1..Len(writing.expr.pairs)
    BY <1>3
  <2>2. writing.expr.pairs[writing.i + 1] \in Pairs(Seq(Character), Nodes)
    BY <1>3, <2>1
  <2> QED
    BY <2>2 DEF Pairs
<1>5. At("mapValue") \in Waits /\ At("mapValue").pc # "root" /\ InOrder(At("mapValue"))
  <2>1. /\ At("mapValue").pc = "mapValue" /\ At("mapValue").expr = writing.expr
        /\ At("mapValue").indent = writing.indent /\ At("mapValue").i = writing.i
        /\ At("mapValue") \in Activations
    BY Moves DEF IInv
  <2>2. At("mapValue") \in Waits
    BY <2>1 DEF Activations, Waits
  <2>3. writing.indent \in Nat
    BY DEF IInv, StackInv, InOrder
  <2>4. InOrder(At("mapValue"))
    BY <1>3, <2>1, <2>3 DEF InOrder
  <2> QED
    BY <2>1, <2>2, <2>4
<1>6. StackInv' /\ writing'.pc = "append"
  BY <1>1, <1>3, <1>4, <1>5, CallKeepsStack DEF IInv
<1>7. /\ text \in Seq(Character \cup {Unset})
      /\ \A j \in 1..copy.at : text[j] \in Character
  BY <1>2 DEF IInv, TextInv, Room
<1>8. /\ filled \in Seq(Character \cup {Unset}) /\ Len(filled) = Len(text)
      /\ DOMAIN filled = 1..Len(text)
      /\ \A j \in 1..(copy.at + Len(NextChars)) : filled[j] \in Character
  BY <1>1, <1>2, <1>7, FilledText DEF filled
<1>9. copy.at + Len(NextChars) + 1 >= Len(text)
  <2>1. Len(NextChars) = Rest(copy.word, copy.i)
    BY <1>1, <1>2, NextIsText
  <2>2. copy.at + Rest(copy.word, copy.i) + 1 = Len(text) + Missing(copy.word)
    BY <1>1, <1>2 DEF Room
  <2> QED
    BY <1>2, <2>1, <2>2
<1>10. text' \in Seq(Character)
  <2>1. " " \in Character
    BY OwnCharactersAreCharacters
  <2>2. PICK space \in Character : text' = [filled EXCEPT ![Len(text)] = space]
    BY <1>13, <2>1, Zenon
  <2>3. \A j \in 1..Len(text) : text'[j] \in Character
    <3> TAKE j \in 1..Len(text)
    <3>1. CASE j = Len(text)
      BY <1>8, <2>2, <3>1
    <3>2. CASE j # Len(text)
      <4>1. j \in 1..(copy.at + Len(NextChars))
        BY <1>2, <1>9, <3>2
      <4> QED
        BY <1>8, <2>2, <3>2, <4>1
    <3> QED
      BY <3>1, <3>2
  <2>4. text' = [j \in 1..Len(text) |-> text'[j]]
    BY <1>8, <2>2
  <2>5. text' \in [1..Len(text) -> Character]
    BY <2>3, <2>4
  <2> QED
    BY <1>2, <2>5
<1>11. copy' \in [word : Seq(Character), i : Nat, at : Nat]
  BY <1>1, <1>2 DEF Copy
<1>12. human' \in BOOLEAN /\ text' \in Seq(Character \cup {Unset})
  BY <1>1, <1>10, MoreText DEF IInv, TextInv
<1> QED
  BY <1>6, <1>10, <1>11, <1>12 DEF IInv, TextInv, Copying, OverrunsOnlyAtKeys

LEMMA AppendValueStep ==
  ASSUME IInv, AppendValue
  PROVE  IInv'
<1> DEFINE word == writing.expr.data
           size == WriteByteSize(word) + QuotesSize(word)
<1>1. /\ writing.pc = "append" /\ writing.expr.type = "Value"
      /\ text' = Grown(size, Opening(word))
      /\ copy' = Copy(word, 0, Len(text) + Len(Opening(word)))
      /\ writing' = At("value")
      /\ UNCHANGED <<human, waiting>>
  BY DEF AppendValue, Appending
<1>2. word \in Seq(Character)
  BY <1>1, Expressions DEF IInv, WellFormed
<1> HIDE DEF word
<1>3. text \in Seq(Character) /\ Len(text) \in Nat
  BY <1>1 DEF IInv, TextInv, Copying
<1>4. /\ Opening(word) \in Seq(Character)
      /\ Len(Opening(word)) \in Nat /\ Len(Closing(word)) = Len(Opening(word))
  BY QuotesAreText
<1>5. /\ Len(word) \in Nat
      /\ Cardinality(Escapes(word)) \in Nat
      /\ EscapesBehind(word, 0) = Escapes(word)
  BY <1>2, EscapesAreFinite, 0 \in Nat
<1>6. /\ size \in Nat /\ Len(Opening(word)) <= size
      /\ Len(Opening(word)) + Rest(word, 0) = size
  BY <1>4, <1>5 DEF WriteByteSize, QuotesSize, Rest
<1> HIDE DEF size
<1>7. /\ text' \in Seq(Character \cup {Unset})
      /\ Len(text') = Len(text) + size
      /\ \A j \in 1..(Len(text) + Len(Opening(word))) : text'[j] \in Character
  BY <1>1, <1>3, <1>4, <1>6, GrownText
<1>8. /\ copy'.word = word /\ copy'.i = 0 /\ copy'.at = Len(text) + Len(Opening(word))
      /\ copy' \in [word : Seq(Character), i : Nat, at : Nat]
  BY <1>1, <1>2, <1>3, <1>4 DEF Copy
<1>9. /\ writing' \in Activations /\ writing'.pc = "value" /\ InOrder(writing')
  <2>1. /\ At("value") \in Activations /\ At("value").pc = "value"
        /\ At("value").expr = writing.expr
        /\ At("value").indent = writing.indent /\ At("value").i = writing.i
    BY Moves DEF IInv
  <2> QED
    BY <1>1, <2>1 DEF IInv, StackInv, InOrder
<1>10. StackInv'
  BY <1>1, <1>9, MoveKeepsStack DEF IInv
<1>11. Rest(copy.word, copy.i)' = Rest(word, 0)
  BY <1>8 DEF Rest, EscapesBehind, Escapes, Closing, Opening
<1>12. Room'
  <2>1. copy'.i <= Len(copy'.word)
    BY <1>5, <1>8
  <2>2. copy'.at <= Len(text')
    BY <1>3, <1>4, <1>6, <1>7, <1>8
  <2>3. copy'.at + Rest(copy.word, copy.i)' = Len(text')
    <3>1. Rest(word, 0) \in Nat
      BY <1>2, <1>5, RestOfWord, 0 \in Nat
    <3>2. copy'.at + Rest(word, 0) = Len(text) + size
      BY <1>3, <1>4, <1>6, <1>8, <3>1
    <3> QED
      BY <1>7, <1>11, <3>2
  <2>4. \A j \in 1..copy'.at : text'[j] \in Character
    BY <1>7, <1>8
  <2> QED
    BY <1>9, <2>1, <2>2, <2>3, <2>4 DEF Room
<1> QED
  BY <1>1, <1>7, <1>8, <1>9, <1>10, <1>12 DEF IInv, TextInv, Copying, OverrunsOnlyAtKeys

LEMMA MapKeyStep ==
  ASSUME IInv, MapKey
  PROVE  IInv'
<1> DEFINE word == writing.expr.pairs[writing.i + 1].key
           size == Len(Lead) + KeySize(word) + 1
           begin == Lead \o Opening(word)
<1>1. /\ writing.pc = "map"
      /\ writing.i < writing.expr.count /\ writing.i < Len(writing.expr.pairs)
      /\ text' = Grown(size, begin)
      /\ copy' = Copy(word, 0, Len(text) + Len(Lead) + Len(Opening(word)))
      /\ writing' = At("key")
      /\ UNCHANGED <<human, waiting>>
  BY DEF MapKey
<1>2. /\ writing.expr.type = "Map" /\ writing.i \in Nat
      /\ writing.expr.pairs \in Seq(Pairs(Seq(Character), Nodes))
      /\ writing.expr.count \in Nat
  <2>1. writing.expr.type = "Map" /\ writing.i \in Nat
    BY <1>1 DEF IInv, StackInv, InOrder
  <2>2. WellFormed(writing.expr)
    BY Expressions DEF IInv
  <2> QED
    BY <2>1, <2>2 DEF WellFormed
<1>3. word \in Seq(Character)
  <2>1. writing.i + 1 \in 1..Len(writing.expr.pairs)
    BY <1>1, <1>2
  <2>2. writing.expr.pairs[writing.i + 1] \in Pairs(Seq(Character), Nodes)
    BY <1>2, <2>1
  <2> QED
    BY <2>2 DEF Pairs
<1> HIDE DEF word
<1>4. text \in Seq(Character) /\ Len(text) \in Nat /\ human \in BOOLEAN
  BY <1>1 DEF IInv, TextInv, Copying
<1>5. /\ Opening(word) \in Seq(Character)
      /\ Len(Opening(word)) \in Nat /\ Len(Closing(word)) = Len(Opening(word))
      /\ BarewordSafe(word) => Len(Closing(word)) = 0
  BY QuotesAreText
<1>6. Lead \in Seq(Character) /\ Len(Lead) \in Nat
  BY LeadIsText DEF IInv
<1>7. begin \in Seq(Character) /\ Len(begin) = Len(Lead) + Len(Opening(word))
  BY <1>5, <1>6, ConcatProperties
<1>8. /\ Len(word) \in Nat
      /\ Cardinality(Escapes(word)) \in Nat
      /\ EscapesBehind(word, 0) = Escapes(word)
      /\ Missing(word) \in Nat
  <2>1. Cardinality(Escapes(word)) \in Nat /\ EscapesBehind(word, 0) = Escapes(word)
    BY <1>3, EscapesAreFinite, 0 \in Nat
  <2> QED
    BY <1>3, <2>1 DEF Missing
<1>9. /\ KeySize(word) \in Nat /\ Len(Opening(word)) <= KeySize(word)
      /\ Len(Opening(word)) + Rest(word, 0) = KeySize(word) + Missing(word)
  <2>1. Rest(word, 0) = Len(word) + Cardinality(Escapes(word)) + Len(Opening(word))
    BY <1>5, <1>8 DEF Rest
  <2>2. CASE human /\ BarewordSafe(word)
    <3>1. KeySize(word) = Len(word)
      BY <2>2, Zenon DEF KeySize
    <3>2. Missing(word) = Cardinality(Escapes(word))
      BY <2>2 DEF Missing
    <3> QED
      BY <1>5, <1>8, <2>1, <2>2, <3>1, <3>2
  <2>3. CASE human /\ ~BarewordSafe(word)
    <3>1. KeySize(word) = WriteByteSize(word) + QuotesSize(word)
      BY <2>3, Zenon DEF KeySize
    <3>2. Missing(word) = 0
      BY <2>3 DEF Missing
    <3> QED
      BY <1>5, <1>8, <2>1, <3>1, <3>2 DEF WriteByteSize, QuotesSize
  <2>4. CASE ~human
    <3>1. KeySize(word) = Len(word) + QuotesSize(word)
      BY <2>4, Zenon DEF KeySize
    <3>2. Missing(word) = Cardinality(Escapes(word))
      BY <2>4 DEF Missing
    <3> QED
      BY <1>5, <1>8, <2>1, <3>1, <3>2 DEF QuotesSize
  <2> QED
    BY <1>4, <2>2, <2>3, <2>4
<1>10. size \in Nat /\ Len(begin) <= size
  BY <1>5, <1>6, <1>7, <1>9
<1>11. size = Len(Lead) + KeySize(word) + 1
  OBVIOUS
<1> HIDE DEF size, begin
<1>12. /\ text' \in Seq(Character \cup {Unset})
       /\ Len(text') = Len(text) + size
       /\ \A j \in 1..(Len(text) + Len(begin)) : text'[j] \in Character
  BY <1>1, <1>4, <1>7, <1>10, GrownText
<1>13. /\ copy'.word = word /\ copy'.i = 0
       /\ copy'.at = Len(text) + Len(Lead) + Len(Opening(word))
       /\ copy' \in [word : Seq(Character), i : Nat, at : Nat]
  BY <1>1, <1>3, <1>4, <1>5, <1>6 DEF Copy
<1>14. /\ writing' \in Activations /\ writing'.pc = "key" /\ InOrder(writing')
  <2>1. /\ At("key") \in Activations /\ At("key").pc = "key"
        /\ At("key").expr = writing.expr
        /\ At("key").indent = writing.indent /\ At("key").i = writing.i
    BY Moves DEF IInv
  <2>2. writing.indent \in Nat
    BY DEF IInv, StackInv, InOrder
  <2> QED
    BY <1>1, <1>2, <2>1, <2>2 DEF InOrder
<1>15. StackInv'
  BY <1>1, <1>14, MoveKeepsStack DEF IInv
<1>16. /\ Rest(copy.word, copy.i)' = Rest(word, 0)
       /\ Missing(copy.word)' = Missing(word)
  <2>1. Rest(copy.word, copy.i)' = Rest(word, 0)
    BY <1>13 DEF Rest, EscapesBehind, Escapes, Closing, Opening
  <2>2. Missing(copy.word)' = Missing(word)
    BY <1>1, <1>13 DEF Missing
  <2> QED
    BY <2>1, <2>2
<1>17. Room'
  <2>1. copy'.i <= Len(copy'.word)
    BY <1>8, <1>13
  <2>2. copy'.at <= Len(text')
    BY <1>4, <1>5, <1>6, <1>7, <1>10, <1>12, <1>13
  <2>3. copy'.at + Rest(copy.word, copy.i)' + 1 = Len(text') + Missing(copy.word)'
    <3>1. Rest(word, 0) \in Nat
      BY <1>3, <1>8, RestOfWord, 0 \in Nat
    <3>2. copy'.at + Rest(word, 0) + 1 = Len(text) + size + Missing(word)
      <4>1. copy'.at = Len(text) + Len(Lead) + Len(Opening(word))
        BY <1>13
      <4>2. size = Len(Lead) + KeySize(word) + 1
        BY <1>11
      <4> HIDE DEF size
      <4>3. /\ Len(text) \in Nat /\ Len(Lead) \in Nat /\ Len(Opening(word)) \in Nat
            /\ KeySize(word) \in Nat /\ Missing(word) \in Nat
        BY <1>4, <1>5, <1>6, <1>8, <1>9
      <4>4. Len(Opening(word)) + Rest(word, 0) = KeySize(word) + Missing(word)
        BY <1>9
      <4> QED
        BY <3>1, <4>1, <4>2, <4>3, <4>4
    <3> QED
      BY <1>12, <1>16, <3>2
  <2>4. \A j \in 1..copy'.at : text'[j] \in Character
    BY <1>4, <1>5, <1>6, <1>7, <1>12, <1>13
  <2> QED
    BY <1>14, <2>1, <2>2, <2>3, <2>4 DEF Room
<1> QED
  BY <1>1, <1>4, <1>12, <1>13, <1>14, <1>15, <1>17
     DEF IInv, TextInv, Copying, OverrunsOnlyAtKeys
(* What a leaf, a container or the root writes besides words. *)
LEMMA Symbols ==
  /\ <<>> \in Seq(Character)
  /\ <<"n", "u", "l", "l">> \in Seq(Character)
  /\ <<"<">> \in Seq(Character) /\ <<">">> \in Seq(Character) /\ <<")">> \in Seq(Character)
  /\ <<"#", "(", ")">> \in Seq(Character) /\ <<"@", "(", ")">> \in Seq(Character)
  /\ InHuman(<<Newline>>) \in Seq(Character)
  /\ <<"#", "(">> \in Seq(Character) /\ <<"@", "(">> \in Seq(Character)
  /\ <<NullCharacter>> \in Seq(Character)
<1>1. /\ "n" \in Character /\ "u" \in Character /\ "l" \in Character
      /\ "<" \in Character /\ ">" \in Character /\ "(" \in Character /\ ")" \in Character
      /\ "#" \in Character /\ "@" \in Character
      /\ Newline \in Character /\ NullCharacter \in Character
  BY OwnCharactersAreCharacters, Zenon
<1>2. /\ <<>> \in Seq(Character)
      /\ <<"n", "u", "l", "l">> \in Seq(Character)
      /\ <<"<">> \in Seq(Character) /\ <<">">> \in Seq(Character) /\ <<")">> \in Seq(Character)
      /\ <<"#", "(", ")">> \in Seq(Character) /\ <<"@", "(", ")">> \in Seq(Character)
      /\ <<Newline>> \in Seq(Character) /\ <<NullCharacter>> \in Seq(Character)
      /\ <<"#", "(">> \in Seq(Character) /\ <<"@", "(">> \in Seq(Character)
  BY <1>1, ShortText, Zenon
<1>3. InHuman(<<Newline>>) \in Seq(Character)
  BY <1>2, Zenon DEF InHuman
<1> QED
  BY <1>2, <1>3, Zenon

LEMMA AppendNullStep ==
  ASSUME IInv, AppendNull
  PROVE  IInv'
<1>1. /\ writing.pc = "append" /\ Return /\ UNCHANGED <<human, copy>>
  BY DEF AppendNull, Appending
<1>2. text' = text \o <<"n", "u", "l", "l">>
  BY DEF AppendNull
<1>3. text' \in Seq(Character)
  BY <1>1, <1>2, PlainText, Symbols, Zenon
<1> QED
  BY <1>1, <1>3, LeafStep

LEMMA AppendBinaryStep ==
  ASSUME IInv, AppendBinary
  PROVE  IInv'
<1>1. /\ writing.pc = "append" /\ writing.expr.type = "BinaryData"
      /\ Return /\ UNCHANGED <<human, copy>>
  BY DEF AppendBinary, Appending
<1>2. writing.expr.data \in Seq(Byte)
  BY <1>1, Expressions DEF IInv, WellFormed
<1>3. text' = text \o <<"<">> \o base64_encode(writing.expr.data) \o <<">">>
  BY DEF AppendBinary
<1>4. text' \in Seq(Character)
  <2>1. base64_encode(writing.expr.data) \in Seq(Character)
    BY <1>2, EncodedIsText
  <2>2. writing.pc \notin {"value", "key", "overrun"}
    BY <1>1
  <2> QED
    BY <1>3, <2>1, <2>2, PlainText, Symbols, Zenon
<1> QED
  BY <1>1, <1>4, LeafStep

LEMMA AppendInvalidStep ==
  ASSUME IInv, AppendInvalid
  PROVE  IInv'
<1>1. /\ writing.pc = "append" /\ writing' = At("aborted")
      /\ UNCHANGED <<human, text, waiting, copy>>
  BY DEF AppendInvalid, Appending
<1>2. text' \in Seq(Character)
  BY <1>1, PlainText
<1>3. /\ writing' \in Activations /\ writing'.pc = "aborted" /\ InOrder(writing')
  <2>1. /\ At("aborted") \in Activations /\ At("aborted").pc = "aborted"
        /\ At("aborted").indent = writing.indent /\ At("aborted").i = writing.i
    BY Moves DEF IInv
  <2> QED
    BY <1>1, <2>1 DEF IInv, StackInv, InOrder
<1> QED
  BY <1>1, <1>2, <1>3, MoveStep

LEMMA AppendEmptyStep ==
  ASSUME IInv, NEW type, NEW size, NEW symbol, <<symbol, "(", ")">> \in Seq(Character),
         AppendEmpty(type, size, symbol)
  PROVE  IInv'
<1>1. /\ writing.pc = "append" /\ Return /\ UNCHANGED <<human, copy>>
  BY DEF AppendEmpty, Appending
<1>2. text' \in Seq(Character)
  <2>1. text' = text \o <<symbol, "(", ")">>
    BY DEF AppendEmpty
  <2>2. writing.pc \notin {"value", "key", "overrun"}
    BY <1>1
  <2> QED
    BY <2>1, <2>2, PlainText, Zenon
<1> QED
  BY <1>1, <1>2, LeafStep

(* A container is entered at its first element. *)
LEMMA AppendOpenStep ==
  ASSUME IInv, NEW type, NEW size, NEW symbol, <<symbol, "(">> \in Seq(Character),
         NEW pc \in {"array", "map"}, AppendOpen(type, size, symbol, pc),
         pc = "array" => type = "Array", pc = "map" => type = "Map"
  PROVE  IInv'
<1>1. /\ writing.pc = "append" /\ writing.expr.type = type /\ writing' = At(pc)
      /\ UNCHANGED <<human, waiting, copy>>
  BY DEF AppendOpen, Appending
<1>2. text' \in Seq(Character)
  <2>1. text' = text \o <<symbol, "(">> \o InHuman(<<Newline>>)
    BY DEF AppendOpen
  <2>2. writing.pc \notin {"value", "key", "overrun"}
    BY <1>1
  <2> QED
    BY <2>1, <2>2, PlainText, Symbols, Zenon
<1>3. /\ At(pc) \in Activations /\ At(pc).pc = pc /\ At(pc).expr = writing.expr
      /\ At(pc).indent = writing.indent /\ At(pc).i = writing.i
  BY Moves DEF IInv
<1>4. writing.indent \in Nat /\ writing.i = 0 /\ WellFormed(writing.expr)
  BY <1>1, Expressions DEF IInv, StackInv, InOrder
<1>5. /\ pc = "array" => writing.expr.list \in Seq(Nodes)
      /\ pc = "map" => writing.expr.count \in Nat
  BY <1>1, <1>4 DEF WellFormed
<1>6. InOrder(writing')
  BY <1>1, <1>3, <1>4, <1>5 DEF InOrder
<1> QED
  BY <1>1, <1>2, <1>3, <1>6, MoveStep
LEMMA ArrayElementStep ==
  ASSUME IInv, ArrayElement
  PROVE  IInv'
<1> DEFINE below == IF human THEN writing.indent + 1 ELSE writing.indent
<1>1. /\ writing.pc = "array" /\ writing.i < Len(writing.expr.list)
      /\ text' = text \o Lead
      /\ Call(At("element"), writing.expr.list[writing.i + 1], below)
      /\ UNCHANGED <<human, copy>>
  BY DEF ArrayElement
<1>2. /\ writing.indent \in Nat /\ writing.i \in Nat /\ writing.expr.type = "Array"
      /\ writing.expr.list \in Seq(Nodes)
  BY <1>1, Expressions DEF IInv, StackInv, InOrder, WellFormed
<1>3. writing.expr.list[writing.i + 1] \in Nodes /\ below \in Nat
  BY <1>1, <1>2
<1> HIDE DEF below
<1>4. At("element") \in Waits /\ At("element").pc # "root" /\ InOrder(At("element"))
  <2>1. /\ At("element").pc = "element" /\ At("element").expr = writing.expr
        /\ At("element").indent = writing.indent /\ At("element").i = writing.i
        /\ At("element") \in Activations
    BY Moves DEF IInv
  <2>2. At("element") \in Waits
    BY <2>1 DEF Activations, Waits
  <2>3. InOrder(At("element"))
    BY <1>1, <1>2, <2>1 DEF InOrder
  <2> QED
    BY <2>1, <2>2, <2>3
<1>5. StackInv' /\ writing'.pc = "append"
  BY <1>1, <1>3, <1>4, CallKeepsStack DEF IInv
<1>6. text' \in Seq(Character)
  BY <1>1, PlainText, LeadIsText DEF IInv
<1> QED
  BY <1>1, <1>5, <1>6, PlainStep DEF IInv

(* An element or a value is written: the loop goes on behind it. *)
LEMMA ItemWrittenStep ==
  ASSUME IInv, NEW waits \in {"element", "mapValue"}, NEW pc \in {"array", "map"},
         (waits = "element" /\ pc = "array") \/ (waits = "mapValue" /\ pc = "map"),
         ItemWritten(waits, pc)
  PROVE  IInv'
<1>1. /\ writing.pc = waits /\ writing' = AtNext(pc)
      /\ UNCHANGED <<human, waiting, copy>>
  BY DEF ItemWritten
<1>2. text' \in Seq(Character)
  <2>1. text' = text \o InHuman(<<Newline>>)
    BY DEF ItemWritten
  <2>2. writing.pc \notin {"value", "key", "overrun"}
    BY <1>1
  <2> QED
    BY <2>1, <2>2, PlainText, Symbols, Zenon
<1>3. /\ AtNext(pc) \in Activations /\ AtNext(pc).pc = pc
      /\ AtNext(pc).expr = writing.expr
      /\ AtNext(pc).indent = writing.indent /\ AtNext(pc).i = writing.i + 1
  BY Moves DEF IInv
<1>4. writing.indent \in Nat /\ writing.i \in Nat /\ WellFormed(writing.expr)
  BY Expressions DEF IInv, StackInv, InOrder
<1>5. CASE pc = "array"
  <2>1. /\ writing.expr.type = "Array" /\ writing.i < Len(writing.expr.list)
        /\ writing.expr.list \in Seq(Nodes)
    BY <1>1, <1>4, <1>5 DEF IInv, StackInv, InOrder, WellFormed
  <2>2. InOrder(writing')
    BY <1>1, <1>3, <1>4, <1>5, <2>1 DEF InOrder
  <2> QED
    BY <1>1, <1>2, <1>3, <2>2, MoveStep
<1>6. CASE pc = "map"
  <2>1. /\ writing.expr.type = "Map" /\ writing.i < Len(writing.expr.pairs)
        /\ Len(writing.expr.pairs) <= writing.expr.count
        /\ Len(writing.expr.pairs) \in Nat /\ writing.expr.count \in Nat
    BY <1>1, <1>4, <1>6 DEF IInv, StackInv, InOrder, WellFormed
  <2>2. InOrder(writing')
    BY <1>1, <1>3, <1>4, <1>6, <2>1 DEF InOrder
  <2> QED
    BY <1>1, <1>2, <1>3, <2>2, MoveStep
<1> QED
  BY <1>5, <1>6

LEMMA CloseStep ==
  ASSUME IInv, NEW pc \in {"array", "map"}, NEW size, Close(pc, size)
  PROVE  IInv'
<1>1. writing.pc = pc /\ Return /\ UNCHANGED <<human, copy>>
  BY DEF Close
<1>2. text' \in Seq(Character)
  <2>1. text' = text \o InHuman(Tabs(writing.indent)) \o <<")">>
    BY DEF Close
  <2>2. writing.pc \notin {"value", "key", "overrun"}
    BY <1>1
  <2>3. InHuman(Tabs(writing.indent)) \in Seq(Character)
    BY <2>2, PlainText, TabsAreText
  <2> QED
    BY <2>1, <2>2, <2>3, PlainText, Symbols, Zenon
<1> QED
  BY <1>1, <1>2, LeafStep

LEMMA MapSkipStep ==
  ASSUME IInv, MapSkip
  PROVE  IInv'
<1>1. /\ writing.pc = "map" /\ writing.i < writing.expr.count
      /\ writing' = AtNext("map") /\ UNCHANGED <<human, text, waiting, copy>>
  BY DEF MapSkip
<1>2. text' \in Seq(Character)
  BY <1>1, PlainText
<1>3. /\ AtNext("map") \in Activations /\ AtNext("map").pc = "map"
      /\ AtNext("map").expr = writing.expr
      /\ AtNext("map").indent = writing.indent /\ AtNext("map").i = writing.i + 1
  BY Moves DEF IInv
<1>4. /\ writing.indent \in Nat /\ writing.i \in Nat /\ writing.expr.type = "Map"
      /\ writing.expr.count \in Nat
  BY <1>1, Expressions DEF IInv, StackInv, InOrder, WellFormed
<1>5. InOrder(writing')
  BY <1>1, <1>3, <1>4 DEF InOrder
<1> QED
  BY <1>1, <1>2, <1>3, <1>5, MoveStep

LEMMA FinishStep ==
  ASSUME IInv, Finish
  PROVE  IInv'
<1>1. /\ writing.pc = "root" /\ writing' = At("written")
      /\ UNCHANGED <<human, waiting, copy>>
  BY DEF Finish
<1>2. text' \in Seq(Character)
  <2>1. text' = text \o <<NullCharacter>>
    BY <1>1, PlainText DEF Finish
  <2>2. writing.pc \notin {"value", "key", "overrun"}
    BY <1>1
  <2> QED
    BY <2>1, <2>2, PlainText, Symbols, Zenon
<1>3. /\ At("written") \in Activations /\ At("written").pc = "written"
      /\ At("written").indent = writing.indent /\ At("written").i = writing.i
  BY Moves DEF IInv
<1>4. StackInv'
  BY <1>1, <1>3 DEF IInv, StackInv, InOrder
<1> QED
  BY <1>1, <1>2, <1>3, <1>4, PlainStep DEF IInv

-----------------------------------------------------------------------------

LEMMA InitEstablishesIInv ==
  ASSUME Init
  PROVE  IInv
<1>1. PICK expr \in Nodes, indent \in Indents : Start(expr, indent)
  BY DEF Init
<1>2. indent \in Nat
  BY IndentsAssumption
<1>3. /\ human \in BOOLEAN /\ text = <<>> /\ copy = Copy(<<>>, 0, 0)
      /\ writing = Frame("append", expr, indent, 0)
      /\ waiting = <<Frame("root", expr, indent, 0)>>
  BY <1>1 DEF Start
<1>4. /\ writing \in Activations /\ writing.pc = "append" /\ InOrder(writing)
  BY <1>2, <1>3 DEF Frame, Activations, InOrder
<1>5. /\ Frame("root", expr, indent, 0) \in Waits
      /\ Frame("root", expr, indent, 0).pc = "root"
      /\ InOrder(Frame("root", expr, indent, 0))
  BY <1>2 DEF Frame, Waits, InOrder
<1>6. /\ waiting \in Seq(Waits) /\ waiting # <<>> /\ DOMAIN waiting = 1..1
      /\ waiting[1] = Frame("root", expr, indent, 0)
  BY <1>3, <1>5
<1>7. StackInv
  BY <1>4, <1>5, <1>6 DEF StackInv
<1>8. copy \in [word : Seq(Character), i : Nat, at : Nat]
  BY <1>3 DEF Copy
<1>9. text \in Seq(Character) /\ text \in Seq(Character \cup {Unset})
  BY <1>3
<1> QED
  BY <1>3, <1>4, <1>7, <1>8, <1>9 DEF IInv, TextInv, Copying, OverrunsOnlyAtKeys

LEMMA NextPreservesIInv ==
  ASSUME IInv, [Next]_writerVars
  PROVE  IInv'
<1>1. CASE AppendNull
  BY <1>1, AppendNullStep
<1>2. CASE AppendValue
  BY <1>2, AppendValueStep
<1>3. CASE AppendBinary
  BY <1>3, AppendBinaryStep
<1>4. CASE AppendInvalid
  BY <1>4, AppendInvalidStep
<1>5. CASE AppendArray
  <2>1. <<"#", "(", ")">> \in Seq(Character) /\ <<"#", "(">> \in Seq(Character)
    BY Symbols
  <2>2. \/ AppendEmpty("Array", Len(writing.expr.list), "#")
        \/ AppendOpen("Array", Len(writing.expr.list), "#", "array")
    BY <1>5 DEF AppendArray
  <2>3. "array" \in {"array", "map"} /\ "array" # "map"
    OBVIOUS
  <2> QED
    BY <2>1, <2>2, <2>3, AppendEmptyStep, AppendOpenStep, Zenon
<1>6. CASE AppendMap
  <2>1. <<"@", "(", ")">> \in Seq(Character) /\ <<"@", "(">> \in Seq(Character)
    BY Symbols
  <2>2. \/ AppendEmpty("Map", writing.expr.count, "@")
        \/ AppendOpen("Map", writing.expr.count, "@", "map")
    BY <1>6 DEF AppendMap
  <2>3. "map" \in {"array", "map"} /\ "array" # "map"
    OBVIOUS
  <2> QED
    BY <2>1, <2>2, <2>3, AppendEmptyStep, AppendOpenStep, Zenon
<1>7. CASE CopyChar
  BY <1>7, CopyCharStep
<1>8. CASE Overrun
  BY <1>8, OverrunStep
<1>9. CASE ValueCopied
  BY <1>9, ValueCopiedStep
<1>10. CASE ArrayElement
  BY <1>10, ArrayElementStep
<1>11. CASE ArrayElementWritten
  BY <1>11, ItemWrittenStep DEF ArrayElementWritten
<1>12. CASE ArrayClose
  BY <1>12, CloseStep DEF ArrayClose
<1>13. CASE MapSkip
  BY <1>13, MapSkipStep
<1>14. CASE MapKey
  BY <1>14, MapKeyStep
<1>15. CASE KeyCopied
  BY <1>15, KeyCopiedStep
<1>16. CASE MapValueWritten
  BY <1>16, ItemWrittenStep DEF MapValueWritten
<1>17. CASE MapClose
  BY <1>17, CloseStep DEF MapClose
<1>18. CASE Finish
  BY <1>18, FinishStep
<1>19. CASE Done \/ UNCHANGED writerVars
  <2>1. UNCHANGED <<human, text, writing, waiting, copy>>
    BY <1>19 DEF Done, writerVars
  <2>2. StackInv'
    BY <2>1 DEF IInv, StackInv, InOrder
  <2>3. Room => Room'
    BY <2>1 DEF Room, Rest, EscapesBehind, Escapes, Closing, Opening, Missing
  <2>4. TextInv'
    BY <2>1, <2>3 DEF IInv, TextInv, Copying, OverrunsOnlyAtKeys
  <2> QED
    BY <2>2, <2>4 DEF IInv
<1> QED
  BY <1>1, <1>2, <1>3, <1>4, <1>5, <1>6, <1>7, <1>8, <1>9, <1>10, <1>11, <1>12, <1>13,
     <1>14, <1>15, <1>16, <1>17, <1>18, <1>19, Zenon DEF Next, Step

(* What the proofs of the three properties share: the invariant above, in   *)
(* which the room left in the buffer is exactly what the rest of the word   *)
(* takes, but for a key written without its escapes having been counted.    *)
THEOREM RoomIsExact == Spec => []IInv
<1>1. Init => IInv
  BY InitEstablishesIInv
<1>2. IInv /\ [Next]_writerVars => IInv'
  BY NextPreservesIInv
<1> QED
  BY <1>1, <1>2, PTL DEF Spec

(* The buffer, the stack and the copying registers keep their types, for    *)
(* any expressions of any depth (the recursion of                           *)
(* p_wexpr_Expression_appendStringRepresentationToAllocatedBuffer).         *)
THEOREM WriterTypes == Spec => []WriterTypeOK
<1>1. IInv => WriterTypeOK
  <2> SUFFICES ASSUME IInv PROVE WriterTypeOK
    OBVIOUS
  <2>1. \A n \in DOMAIN waiting :
          /\ waiting[n].pc \in {"element", "mapValue", "root"}
          /\ waiting[n].pc = "root" <=> n = 1
          /\ InOrder(waiting[n])
    <3>1. \A n \in DOMAIN waiting : waiting[n] \in Waits
      BY DEF IInv, StackInv
    <3> QED
      BY <3>1 DEF IInv, StackInv, Waits
  <2>2. writing.pc \in {"append", "value", "key", "array", "element", "map",
                        "mapValue", "root", "written", "overrun", "aborted"}
    BY DEF IInv, StackInv, Activations
  <2> QED
    BY <2>1, <2>2 DEF IInv, StackInv, TextInv, WriterTypeOK
<1> QED
  BY <1>1, RoomIsExact, PTL

(* Every byte the code makes room for is written before it goes on to       *)
(* another expression: the sizes it computes before each realloc are the    *)
(* sizes of what it writes, or too small, and never too large.              *)
THEOREM NothingIsLeftUnset == Spec => []EveryByteWritten
<1>1. IInv => EveryByteWritten
  <2> SUFFICES ASSUME IInv, NEW j \in DOMAIN text, text[j] = Unset
               PROVE  Copying \/ writing.pc = "overrun"
    BY DEF EveryByteWritten
  <2>1. ASSUME ~Copying, writing.pc # "overrun" PROVE FALSE
    <3>1. text \in Seq(Character)
      BY <2>1 DEF IInv, TextInv
    <3>2. text[j] \in Character
      BY <3>1
    <3> QED
      BY <3>2, CharacterAssumption
  <2> QED
    BY <2>1
<1> QED
  BY <1>1, RoomIsExact, PTL

(* A value never overruns the buffer, nor a quoted key of the human         *)
(* readable form, nor a key with at most one escape.                        *)
THEOREM OnlyKeysOverrun == Spec => []OverrunsOnlyAtKeys
<1>1. IInv => OverrunsOnlyAtKeys
  BY DEF IInv, TextInv
<1> QED
  BY <1>1, RoomIsExact, PTL
=============================================================================
