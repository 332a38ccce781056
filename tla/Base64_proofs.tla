--------------------------- MODULE Base64_proofs ---------------------------
(***************************************************************************)
(* Base64Encode is right for texts of every length, although its           *)
(* accumulator overflows: of the accumulator only the last two characters  *)
(* are ever read, and the last one is all that has to survive a step.      *)
(***************************************************************************)
EXTENDS Base64, TLAPS

TypeOK ==
    /\ text \in Seq(0..255)
    /\ out \in Seq(0..64)
    /\ val \in 0..(Width - 1)
    /\ padded \in BOOLEAN

(* The last two characters, and the last one, in an accumulator. *)
LastTwo(v) == v % 65536
Last(v) == v % 256

(* Between two characters: how many bits are left, and that the last        *)
(* character is in the accumulator.                                         *)
LoopInv ==
    ~padded =>
        /\ valb = 2 * (Len(text) % 3) - 6
        /\ Len(text) > 0 => Last(val) = text[Len(text)]

IInv == TypeOK /\ LoopInv /\ EncodesText

-----------------------------------------------------------------------------
(* The accumulator *)

(* What an int of any width of 16 bits or more has of its last 16 bits. *)
LEMMA Narrow ==
    ASSUME NEW x \in Nat
    PROVE  x % Width \in 0..(Width - 1) /\ (x % Width) % 65536 = x % 65536
<1> DEFINE q == x \div Width
           k == Width \div 65536
           r == x % Width
<1>1. Width \in Nat \ {0} /\ Width = 65536 * k /\ k \in Nat
  BY WidthAssumption, SMT
<1>2. r \in 0..(Width - 1) /\ q \in Nat /\ x = Width * q + r
  BY <1>1, SMT
<1> HIDE DEF q, k, r
<1>3. PICK m \in Nat : m = k * q
  BY <1>1, <1>2, SMT
<1>4. Width * q = 65536 * m
  <2>1. ASSUME NEW i \in Nat, NEW j \in Nat  PROVE (65536 * i) * j = 65536 * (i * j)
    BY SMT
  <2>2. QED
    BY <1>1, <1>2, <1>3, <2>1
<1>5. x = 65536 * m + r
  BY <1>2, <1>4
<1>6. r \in Nat
  BY <1>1, <1>2, SMT
<1>7. r % 65536 = x % 65536
  BY <1>5, <1>6, SMT
<1>8. QED
  BY <1>2, <1>7 DEF r

(* A character is shifted in: only the last one of those before it shows. *)
LEMMA ShiftedIn ==
    ASSUME NEW v \in 0..(Width - 1), NEW c \in 0..255
    PROVE  /\ ShiftIn(v, c) \in 0..(Width - 1)
           /\ LastTwo(ShiftIn(v, c)) = Last(v) * 256 + c
           /\ Last(v) \in 0..255
<1>1. v \in Nat /\ v * 256 + c \in Nat
  BY WidthAssumption, SMT
<1>2. (v * 256 + c) % 65536 = (v % 256) * 256 + c
  BY <1>1, SMT
<1>3. v % 256 \in 0..255
  BY <1>1, SMT
<1>4. QED
  BY <1>1, <1>2, <1>3, Narrow DEF ShiftIn, Last, LastTwo

(* What the shifts of the loop read of the last two characters. *)
LEMMA Sextets ==
    ASSUME NEW v \in Nat, NEW a \in 0..255, NEW c \in 0..255, LastTwo(v) = a * 256 + c
    PROVE  /\ Sextet(v, 2) = c \div 4
           /\ Sextet(v, 4) = (a % 4) * 16 + c \div 16
           /\ Sextet(v, 6) = (a % 16) * 4 + c \div 64
           /\ Sextet(v, 0) = c % 64
           /\ Last(v) = c
<1>1. TwoTo(0) = 1 /\ TwoTo(2) = 4 /\ TwoTo(4) = 16 /\ TwoTo(6) = 64
  BY DEF TwoTo
<1> DEFINE m == v \div 65536
<1>2. m \in Nat /\ v = 65536 * m + a * 256 + c
  BY SMT DEF LastTwo
<1> HIDE DEF m
<1>3. (v \div 4) % 64 = c \div 4
  BY <1>2, SMTT(30)
<1>4. (v \div 16) % 64 = (a % 4) * 16 + c \div 16
  BY <1>2, SMTT(30)
<1>5. (v \div 64) % 64 = (a % 16) * 4 + c \div 64
  BY <1>2, SMTT(30)
<1>6. (v \div 1) % 64 = c % 64 /\ v % 256 = c
  BY <1>2, SMTT(30)
<1>7. QED
  BY <1>1, <1>3, <1>4, <1>5, <1>6 DEF Sextet, Last

LEMMA SextetRange ==
    ASSUME NEW a \in 0..255, NEW c \in 0..255
    PROVE  /\ c \div 4 \in 0..64
           /\ (a % 4) * 16 + c \div 16 \in 0..64
           /\ (a % 16) * 4 + c \div 64 \in 0..64
           /\ c % 64 \in 0..64
BY SMTT(30)

-----------------------------------------------------------------------------
(* The result *)

LEMMA EncodedIs ==
    ASSUME NEW s, NEW q \in Nat
    PROVE  /\ Encoded(s, 4 * q) = Octet(s, 3 * q + 1) \div 4
           /\ Encoded(s, 4 * q + 1) = (Octet(s, 3 * q + 1) % 4) * 16 + Octet(s, 3 * q + 2) \div 16
           /\ Encoded(s, 4 * q + 2) = (Octet(s, 3 * q + 2) % 16) * 4 + Octet(s, 3 * q + 3) \div 64
           /\ Encoded(s, 4 * q + 3) = Octet(s, 3 * q + 3) % 64
<1>1. /\ (4 * q) \div 4 = q /\ (4 * q) % 4 = 0
      /\ (4 * q + 1) \div 4 = q /\ (4 * q + 1) % 4 = 1
      /\ (4 * q + 2) \div 4 = q /\ (4 * q + 2) % 4 = 2
      /\ (4 * q + 3) \div 4 = q /\ (4 * q + 3) % 4 = 3
  BY SMT
<1>2. QED
  BY <1>1 DEF Encoded

LEMMA Octets ==
    ASSUME NEW s \in Seq(0..255), NEW c \in 0..255, NEW i \in Nat \ {0}
    PROVE  /\ i <= Len(s) => Octet(s, i) = s[i] /\ Octet(Append(s, c), i) = s[i]
           /\ i = Len(s) + 1 => Octet(Append(s, c), i) = c
           /\ i > Len(s) => Octet(s, i) = 0
BY DEF Octet

LEMMA OctetStays ==
    ASSUME NEW s \in Seq(0..255), NEW c \in 0..255, NEW i \in Nat \ {0}, i <= Len(s)
    PROVE  Octet(Append(s, c), i) = Octet(s, i)
BY DEF Octet

(* What is determined stays: a character of the result depends on those of *)
(* the text that have been read when it is written.                         *)
LEMMA EncodedStays ==
    ASSUME NEW s \in Seq(0..255), NEW c \in 0..255, NEW i \in Nat, 3 * (i + 1) <= 4 * Len(s)
    PROVE  Encoded(Append(s, c), i) = Encoded(s, i)
<1> DEFINE q == i \div 4
<1>1. /\ q \in Nat
      /\ i = 4 * q \/ i = 4 * q + 1 \/ i = 4 * q + 2 \/ i = 4 * q + 3
  BY SMT
<1> HIDE DEF q
<1>2. Len(s) \in Nat
  OBVIOUS
<1>3. CASE i = 4 * q
  <2>1. 3 * q + 1 <= Len(s) /\ 3 * q + 1 \in Nat \ {0}
    BY <1>1, <1>2, <1>3, SMT
  <2>2. Octet(Append(s, c), 3 * q + 1) = Octet(s, 3 * q + 1)
    BY <2>1, OctetStays, Zenon
  <2>3. QED
    BY <1>1, <1>3, <2>2, EncodedIs
<1>4. CASE i = 4 * q + 1
  <2>1. 3 * q + 2 <= Len(s) /\ 3 * q + 1 <= Len(s) /\ 3 * q + 2 \in Nat \ {0} /\ 3 * q + 1 \in Nat \ {0}
    BY <1>1, <1>2, <1>4, SMT
  <2>2. /\ Octet(Append(s, c), 3 * q + 1) = Octet(s, 3 * q + 1)
        /\ Octet(Append(s, c), 3 * q + 2) = Octet(s, 3 * q + 2)
    BY <2>1, OctetStays, Zenon
  <2>3. QED
    BY <1>1, <1>4, <2>2, EncodedIs
<1>5. CASE i = 4 * q + 2
  <2>1. 3 * q + 3 <= Len(s) /\ 3 * q + 2 <= Len(s) /\ 3 * q + 3 \in Nat \ {0} /\ 3 * q + 2 \in Nat \ {0}
    BY <1>1, <1>2, <1>5, SMT
  <2>2. /\ Octet(Append(s, c), 3 * q + 2) = Octet(s, 3 * q + 2)
        /\ Octet(Append(s, c), 3 * q + 3) = Octet(s, 3 * q + 3)
    BY <2>1, OctetStays, Zenon
  <2>3. QED
    BY <1>1, <1>5, <2>2, EncodedIs
<1>6. CASE i = 4 * q + 3
  <2>1. 3 * q + 3 <= Len(s) /\ 3 * q + 3 \in Nat \ {0}
    BY <1>1, <1>2, <1>6, SMT
  <2>2. Octet(Append(s, c), 3 * q + 3) = Octet(s, 3 * q + 3)
    BY <2>1, OctetStays, Zenon
  <2>3. QED
    BY <1>1, <1>6, <2>2, EncodedIs
<1>7. QED
  BY <1>1, <1>3, <1>4, <1>5, <1>6

-----------------------------------------------------------------------------
(* The invariant *)

LEMMA InitHolds == EncodeInit => IInv
<1> SUFFICES ASSUME EncodeInit PROVE IInv
  OBVIOUS
<1>1. text = <<>> /\ out = <<>> /\ val = 0 /\ valb = -6 /\ padded = FALSE
  BY DEF EncodeInit
<1>2. 0 \in 0..(Width - 1)
  BY WidthAssumption, SMT
<1>3. Len(text) = 0 /\ Len(out) = 0 /\ 0 % 3 = 0 /\ (4 * 0) \div 3 = 0 /\ 2 * 0 - 6 = -6
  BY <1>1, SMT
<1>4. TypeOK
  <2>1. <<>> \in Seq(0..255) /\ <<>> \in Seq(0..64)
    OBVIOUS
  <2>2. QED
    BY <1>1, <1>2, <2>1, Zenon DEF TypeOK
<1>5. LoopInv
  BY <1>1, <1>3 DEF LoopInv
<1>6. EncodesText
  BY <1>1, <1>3 DEF EncodesText
<1>7. QED
  BY <1>4, <1>5, <1>6 DEF IInv

(* The three places of a character in its group. *)
LEMMA Groups ==
    ASSUME NEW n \in Nat
    PROVE  \E q \in Nat :
             \/ n = 3 * q /\ n % 3 = 0 /\ (4 * n) \div 3 = 4 * q
             \/ n = 3 * q + 1 /\ n % 3 = 1 /\ (4 * n) \div 3 = 4 * q + 1
             \/ n = 3 * q + 2 /\ n % 3 = 2 /\ (4 * n) \div 3 = 4 * q + 2
<1> DEFINE q == n \div 3
<1>1. q \in Nat /\ (n = 3 * q \/ n = 3 * q + 1 \/ n = 3 * q + 2)
  BY SMT
<1> HIDE DEF q
<1>2. n = 3 * q => n % 3 = 0 /\ (4 * n) \div 3 = 4 * q
  BY <1>1, SMT
<1>3. n = 3 * q + 1 => n % 3 = 1 /\ (4 * n) \div 3 = 4 * q + 1
  BY <1>1, SMT
<1>4. n = 3 * q + 2 => n % 3 = 2 /\ (4 * n) \div 3 = 4 * q + 2
  BY <1>1, SMT
<1>5. QED
  BY <1>1, <1>2, <1>3, <1>4

LEMMA CharHolds ==
    ASSUME IInv, NEW c \in Chars, Char(c)
    PROVE  IInv'
<1> DEFINE n == Len(text)
           w == ShiftIn(val, c)
<1>1. /\ text \in Seq(0..255) /\ out \in Seq(0..64) /\ val \in 0..(Width - 1)
      /\ c \in 0..255 /\ n \in Nat
  BY CharsAssumption DEF IInv, TypeOK
<1>2. /\ valb = 2 * (n % 3) - 6 /\ (n > 0 => Last(val) = text[n])
      /\ Len(out) = (4 * n) \div 3 /\ \A i \in 1..Len(out) : out[i] = Encoded(text, i - 1)
  BY DEF IInv, LoopInv, EncodesText, Char
<1>3. /\ text' = Append(text, c) /\ val' = w /\ ~padded /\ padded' = padded
      /\ IF valb + 8 >= 6
         THEN /\ out' = out \o <<Sextet(w, valb + 8), Sextet(w, valb + 2)>>
              /\ valb' = valb - 4
         ELSE /\ out' = Append(out, Sextet(w, valb + 8))
              /\ valb' = valb + 2
  BY DEF Char
<1>4. w \in 0..(Width - 1) /\ LastTwo(w) = Last(val) * 256 + c /\ Last(val) \in 0..255
  BY <1>1, ShiftedIn
<1>5. w \in Nat
  BY <1>4, WidthAssumption, SMT
<1> HIDE DEF w
<1>6. /\ Sextet(w, 2) = c \div 4
      /\ Sextet(w, 4) = (Last(val) % 4) * 16 + c \div 16
      /\ Sextet(w, 6) = (Last(val) % 16) * 4 + c \div 64
      /\ Sextet(w, 0) = c % 64
      /\ Last(w) = c
  BY <1>1, <1>4, <1>5, Sextets, ZenonT(60)
<1>7. /\ Len(text') = n + 1 /\ text' \in Seq(0..255) /\ text'[n + 1] = c
      /\ \A i \in 1..n : text'[i] = text[i]
  BY <1>1, <1>3
<1>8. \A i \in 1..Len(out) : out[i] = Encoded(text', i - 1)
  <2> SUFFICES ASSUME NEW i \in 1..Len(out) PROVE Encoded(text', i - 1) = Encoded(text, i - 1)
    BY <1>2
  <2> DEFINE l == Len(out)
  <2>1. l = (4 * n) \div 3 /\ n \in Nat /\ i \in 1..l
    BY <1>1, <1>2
  <2> HIDE DEF l, n
  <2>3. i - 1 \in Nat /\ 3 * ((i - 1) + 1) <= 4 * n
    BY <2>1, SMT
  <2>2. QED
    BY <1>1, <1>3, <2>3, EncodedStays DEF n
<1>9. LoopInv'
  <2>1. /\ n \in Nat /\ valb = 2 * (n % 3) - 6
        /\ valb' = IF valb + 8 >= 6 THEN valb - 4 ELSE valb + 2
    BY <1>1, <1>2, <1>3
  <2> HIDE DEF n
  <2>3. valb' = 2 * ((n + 1) % 3) - 6
    BY <2>1, SMT
  <2> USE DEF n
  <2>2. QED
    BY <1>3, <1>6, <1>7, <2>3 DEF LoopInv
<1>10. PICK q \in Nat :
         \/ n = 3 * q /\ n % 3 = 0 /\ (4 * n) \div 3 = 4 * q
         \/ n = 3 * q + 1 /\ n % 3 = 1 /\ (4 * n) \div 3 = 4 * q + 1
         \/ n = 3 * q + 2 /\ n % 3 = 2 /\ (4 * n) \div 3 = 4 * q + 2
  BY <1>1, Groups
<1>11. /\ out' \in Seq(0..64) /\ Len(out') = (4 * (n + 1)) \div 3
       /\ \A i \in 1..Len(out') : out'[i] = Encoded(text', i - 1)
  <2>1. CASE n = 3 * q /\ n % 3 = 0 /\ (4 * n) \div 3 = 4 * q
    <3>1. out' = Append(out, c \div 4)
      <4>1. valb = -6 /\ ~(valb + 8 >= 6) /\ valb + 8 = 2
        BY <1>2, <2>1, SMT
      <4>2. out' = Append(out, Sextet(w, 2))
        BY <1>3, <4>1, Zenon
      <4>3. QED
        BY <1>6, <4>2, Zenon
    <3>6. c \div 4 \in 0..64
      BY <1>1, SextetRange
    <3>2. Len(out) = 4 * q /\ (4 * (n + 1)) \div 3 = 4 * q + 1
      BY <1>2, <2>1, SMT
    <3>3. Octet(text', 3 * q + 1) = c
      BY <1>7, <2>1 DEF Octet
    <3>4. Encoded(text', 4 * q) = c \div 4
      BY <3>3, EncodedIs
    <3>5. QED
      BY <1>1, <1>8, <3>1, <3>2, <3>4, <3>6
  <2>2. CASE n = 3 * q + 1 /\ n % 3 = 1 /\ (4 * n) \div 3 = 4 * q + 1
    <3> DEFINE s == (text[n] % 4) * 16 + c \div 16
    <3>1. text[n] \in 0..255 /\ Last(val) = text[n]
      <4>1. n > 0 /\ n \in 1..n
        BY <2>2, SMT
      <4>2. QED
        BY <1>1, <1>2, <1>4, <4>1
    <3>2. out' = Append(out, s)
      <4>1. valb = -4 /\ ~(valb + 8 >= 6) /\ valb + 8 = 4
        BY <1>2, <2>2, SMT
      <4>2. out' = Append(out, Sextet(w, 4))
        BY <1>3, <4>1, Zenon
      <4>3. QED
        BY <1>6, <3>1, <4>2, Zenon
    <3>3. s \in 0..64
      BY <1>1, <3>1, SextetRange
    <3>4. Len(out) = 4 * q + 1 /\ (4 * (n + 1)) \div 3 = 4 * q + 2
      BY <1>2, <2>2, SMT
    <3>5. Octet(text', 3 * q + 1) = text[n] /\ Octet(text', 3 * q + 2) = c
      BY <1>7, <2>2 DEF Octet
    <3>6. Encoded(text', 4 * q + 1) = s
      BY <3>5, EncodedIs
    <3> HIDE DEF s
    <3>7. QED
      BY <1>1, <1>8, <3>2, <3>3, <3>4, <3>6
  <2>3. CASE n = 3 * q + 2 /\ n % 3 = 2 /\ (4 * n) \div 3 = 4 * q + 2
    <3> DEFINE s == (text[n] % 16) * 4 + c \div 64
               u == c % 64
    <3>1. text[n] \in 0..255 /\ Last(val) = text[n]
      <4>1. n > 0 /\ n \in 1..n
        BY <2>3, SMT
      <4>2. QED
        BY <1>1, <1>2, <1>4, <4>1
    <3>2. out' = out \o <<s, u>>
      <4>1. valb = -2 /\ valb + 8 >= 6 /\ valb + 8 = 6 /\ valb + 2 = 0
        BY <1>2, <2>3, SMT
      <4>2. out' = out \o <<Sextet(w, 6), Sextet(w, 0)>>
        BY <1>3, <4>1, Zenon
      <4>3. QED
        BY <1>6, <3>1, <4>2, Zenon
    <3>3. s \in 0..64 /\ u \in 0..64
      BY <1>1, <3>1, SextetRange
    <3>4. Len(out) = 4 * q + 2 /\ (4 * (n + 1)) \div 3 = 4 * q + 4
      BY <1>2, <2>3, SMT
    <3>5. Octet(text', 3 * q + 2) = text[n] /\ Octet(text', 3 * q + 3) = c
      BY <1>7, <2>3 DEF Octet
    <3>6. Encoded(text', 4 * q + 2) = s /\ Encoded(text', 4 * q + 3) = u
      BY <3>5, EncodedIs
    <3> HIDE DEF s, u
    <3>7. /\ Len(out') = 4 * q + 4 /\ out' \in Seq(0..64)
          /\ out'[4 * q + 3] = s /\ out'[4 * q + 4] = u
          /\ \A i \in 1..(4 * q + 2) : out'[i] = out[i]
      <4>1. Len(out) \in Nat /\ out \in Seq(0..64) /\ Len(out) = 4 * q + 2
        BY <1>1, <3>4
      <4>2. QED
        BY <3>2, <3>3, <4>1
    <3>8. Len(out') = (4 * (n + 1)) \div 3 /\ out' \in Seq(0..64)
      BY <3>4, <3>7
    <3>9. ASSUME NEW i \in 1..Len(out')  PROVE out'[i] = Encoded(text', i - 1)
      <4>1. i \in 1..(4 * q + 2) \/ i = 4 * q + 3 \/ i = 4 * q + 4
        BY <3>7, <3>9, SMT
      <4>2. CASE i \in 1..(4 * q + 2)
        BY <1>8, <3>4, <3>7, <4>2
      <4>3. (4 * q + 3) - 1 = 4 * q + 2 /\ (4 * q + 4) - 1 = 4 * q + 3
        BY SMT
      <4>4. QED
        BY <3>6, <3>7, <4>1, <4>2, <4>3
    <3>10. QED
      BY <3>8, <3>9
  <2>4. QED
    BY <1>10, <2>1, <2>2, <2>3
<1>12. EncodesText'
  BY <1>3, <1>7, <1>11 DEF EncodesText
<1>13. TypeOK'
  BY <1>3, <1>4, <1>7, <1>11 DEF IInv, TypeOK
<1>14. QED
  BY <1>9, <1>12, <1>13 DEF IInv

(* What a result of k characters misses. *)
Missing(k) == (0 - k) % 4

(* t is the k characters of s and p pads. *)
IsPadded(t, s, k, p) ==
    /\ t \in Seq(0..64) /\ Len(t) = k + p
    /\ \A i \in 1..k : t[i] = s[i]
    /\ \A i \in (k + 1)..(k + p) : t[i] = 64

LEMMA PaddedIs ==
    ASSUME NEW s \in Seq(0..64), NEW k \in Nat, NEW p \in 0..3, Len(s) = k, Missing(k) = p
    PROVE  IsPadded(Padded(s), s, k, p)
<1> DEFINE t == [i \in 1..p |-> 64]
<1>1. t \in Seq(0..64) /\ Len(t) = p /\ \A i \in 1..p : t[i] = 64
  OBVIOUS
<1>2. Padded(s) = s \o t
  BY DEF Padded, Pad, Missing
<1> HIDE DEF t
<1>3. QED
  BY <1>1, <1>2 DEF IsPadded

(* The lengths of the last group. *)
LEMMA LastGroup ==
    ASSUME NEW q \in Nat
    PROVE  /\ (4 * (3 * q) + 2) \div 3 = 4 * q
           /\ (4 * (3 * q + 1) + 2) \div 3 = 4 * q + 2
           /\ (4 * (3 * q + 2) + 2) \div 3 = 4 * q + 3
           /\ (3 * q + 2) \div 3 = q /\ (3 * q + 1 + 2) \div 3 = q + 1
           /\ (3 * q + 2 + 2) \div 3 = q + 1
           /\ Missing(4 * q) = 0 /\ Missing(4 * q + 2) = 2 /\ Missing(4 * q + 3) = 1
BY SMT DEF Missing

LEMMA FinishHolds ==
    ASSUME IInv, Finish
    PROVE  IInv'
<1> DEFINE n == Len(text)
           w == ShiftIn(val, 0)
<1>1. /\ text \in Seq(0..255) /\ out \in Seq(0..64) /\ val \in 0..(Width - 1)
      /\ 0 \in 0..255 /\ n \in Nat
  BY DEF IInv, TypeOK
<1>2. /\ valb = 2 * (n % 3) - 6 /\ (n > 0 => Last(val) = text[n])
      /\ Len(out) = (4 * n) \div 3 /\ \A i \in 1..Len(out) : out[i] = Encoded(text, i - 1)
  BY DEF IInv, LoopInv, EncodesText, Finish
<1>3. /\ text' = text /\ val' = val /\ padded' = TRUE
      /\ out' = Padded(IF valb > -6 THEN Append(out, Sextet(w, valb + 8)) ELSE out)
  BY DEF Finish
<1>4. w \in 0..(Width - 1) /\ LastTwo(w) = Last(val) * 256 + 0 /\ Last(val) \in 0..255
  BY <1>1, ShiftedIn
<1>5. w \in Nat
  BY <1>4, WidthAssumption, SMT
<1> HIDE DEF w
<1>6. /\ Sextet(w, 4) = (Last(val) % 4) * 16 + 0 \div 16
      /\ Sextet(w, 6) = (Last(val) % 16) * 4 + 0 \div 64
  BY <1>1, <1>4, <1>5, Sextets, ZenonT(60)
<1>7. PICK q \in Nat :
         \/ n = 3 * q /\ n % 3 = 0 /\ (4 * n) \div 3 = 4 * q
         \/ n = 3 * q + 1 /\ n % 3 = 1 /\ (4 * n) \div 3 = 4 * q + 1
         \/ n = 3 * q + 2 /\ n % 3 = 2 /\ (4 * n) \div 3 = 4 * q + 2
  BY <1>1, Groups
<1>8. /\ out' \in Seq(0..64) /\ Len(out') = 4 * ((n + 2) \div 3)
      /\ \A i \in 1..Len(out') :
           out'[i] = IF i <= (4 * n + 2) \div 3 THEN Encoded(text, i - 1) ELSE Pad
  <2>1. CASE n = 3 * q /\ n % 3 = 0 /\ (4 * n) \div 3 = 4 * q
    <3>1. Len(out) = 4 * q /\ (4 * n + 2) \div 3 = 4 * q /\ (n + 2) \div 3 = q /\ Missing(4 * q) = 0
      BY <1>2, <2>1, LastGroup
    <3>2. out' = Padded(out)
      <4>1. ~(valb > -6)
        BY <1>2, <2>1, SMT
      <4>2. QED
        BY <1>3, <4>1
    <3>3. /\ out' \in Seq(0..64) /\ Len(out') = 4 * q
          /\ \A i \in 1..(4 * q) : out'[i] = out[i]
      <4>1. 0 \in 0..3 /\ 4 * q + 0 = 4 * q /\ 4 * q \in Nat
        BY SMT
      <4>2. IsPadded(out', out, 4 * q, 0)
        BY <1>1, <3>1, <3>2, <4>1, PaddedIs, Zenon
      <4>3. QED
        BY <4>1, <4>2, Zenon DEF IsPadded
    <3>4. QED
      BY <1>2, <3>1, <3>3
  <2>2. CASE n = 3 * q + 1 /\ n % 3 = 1 /\ (4 * n) \div 3 = 4 * q + 1
    <3> DEFINE e == (text[n] % 4) * 16 + 0 \div 16
               r == Append(out, e)
    <3>1. text[n] \in 0..255 /\ Last(val) = text[n]
      <4>1. n > 0 /\ n \in 1..n
        BY <2>2, SMT
      <4>2. QED
        BY <1>1, <1>2, <1>4, <4>1
    <3>2. out' = Padded(r)
      <4>1. valb > -6 /\ valb + 8 = 4
        BY <1>2, <2>2, SMT
      <4>2. out' = Padded(Append(out, Sextet(w, 4)))
        BY <1>3, <4>1, Zenon
      <4>3. QED
        BY <1>6, <3>1, <4>2, Zenon
    <3>3. e \in 0..64
      BY <1>1, <3>1, SextetRange
    <3>4. Len(out) = 4 * q + 1 /\ (4 * n + 2) \div 3 = 4 * q + 2 /\ (n + 2) \div 3 = q + 1
      BY <1>2, <2>2, LastGroup
    <3>5. Octet(text, 3 * q + 1) = text[n] /\ Octet(text, 3 * q + 2) = 0
      BY <2>2 DEF Octet
    <3>6. Encoded(text, 4 * q + 1) = e
      BY <3>5, EncodedIs
    <3> HIDE DEF e
    <3>7. /\ r \in Seq(0..64) /\ Len(r) = 4 * q + 2
          /\ r[4 * q + 2] = e /\ \A i \in 1..(4 * q + 1) : r[i] = out[i]
      <4>1. out \in Seq(0..64) /\ Len(out) = 4 * q + 1 /\ e \in 0..64
        BY <1>1, <3>3, <3>4
      <4>2. QED
        BY <4>1
    <3> HIDE DEF r
    <3>8. Missing(4 * q + 2) = 2 /\ 4 * q + 2 \in Nat /\ 2 \in 0..3
      BY LastGroup
    <3>9. /\ out' \in Seq(0..64) /\ Len(out') = 4 * q + 4
          /\ \A i \in 1..(4 * q + 2) : out'[i] = r[i]
          /\ \A i \in (4 * q + 3)..(4 * q + 4) : out'[i] = 64
      <4>1. 2 \in 0..3 /\ 4 * q + 2 + 2 = 4 * q + 4 /\ 4 * q + 2 + 1 = 4 * q + 3
        BY SMT
      <4>2. IsPadded(out', r, 4 * q + 2, 2)
        BY <3>2, <3>7, <3>8, PaddedIs, Zenon
      <4>3. QED
        BY <4>1, <4>2, Zenon DEF IsPadded
    <3>10. ASSUME NEW i \in 1..(4 * q + 4)
           PROVE  out'[i] = IF i <= 4 * q + 2 THEN Encoded(text, i - 1) ELSE 64
      <4>1. CASE i \in 1..(4 * q + 1)
        <5>1. i \in 1..(4 * q + 2) /\ i <= 4 * q + 2
          BY <4>1, SMT
        <5>2. QED
          BY <1>2, <3>4, <3>7, <3>9, <4>1, <5>1
      <4>2. CASE i = 4 * q + 2
        <5>1. i \in 1..(4 * q + 2) /\ i <= 4 * q + 2 /\ i - 1 = 4 * q + 1
          BY <4>2, SMT
        <5>2. QED
          BY <3>6, <3>7, <3>9, <4>2, <5>1
      <4>3. CASE i \in (4 * q + 3)..(4 * q + 4)
        BY <3>9, <4>3
      <4>4. QED
        BY <3>10, <4>1, <4>2, <4>3
    <3>11. Len(out') = 4 * ((n + 2) \div 3)
      <4>1. 4 * (q + 1) = 4 * q + 4
        BY SMT
      <4>2. QED
        BY <3>4, <3>9, <4>1, Zenon
    <3>12. Len(out') = 4 * q + 4 /\ (4 * n + 2) \div 3 = 4 * q + 2
      BY <3>4, <3>9
    <3>13. QED
      BY <3>9, <3>10, <3>11, <3>12, ZenonT(60) DEF Pad
  <2>3. CASE n = 3 * q + 2 /\ n % 3 = 2 /\ (4 * n) \div 3 = 4 * q + 2
    <3> DEFINE e == (text[n] % 16) * 4 + 0 \div 64
               r == Append(out, e)
    <3>1. text[n] \in 0..255 /\ Last(val) = text[n]
      <4>1. n > 0 /\ n \in 1..n
        BY <2>3, SMT
      <4>2. QED
        BY <1>1, <1>2, <1>4, <4>1
    <3>2. out' = Padded(r)
      <4>1. valb > -6 /\ valb + 8 = 6
        BY <1>2, <2>3, SMT
      <4>2. out' = Padded(Append(out, Sextet(w, 6)))
        BY <1>3, <4>1, Zenon
      <4>3. QED
        BY <1>6, <3>1, <4>2, Zenon
    <3>3. e \in 0..64
      BY <1>1, <3>1, SextetRange
    <3>4. Len(out) = 4 * q + 2 /\ (4 * n + 2) \div 3 = 4 * q + 3 /\ (n + 2) \div 3 = q + 1
      BY <1>2, <2>3, LastGroup
    <3>5. Octet(text, 3 * q + 2) = text[n] /\ Octet(text, 3 * q + 3) = 0
      BY <2>3 DEF Octet
    <3>6. Encoded(text, 4 * q + 2) = e
      BY <3>5, EncodedIs
    <3> HIDE DEF e
    <3>7. /\ r \in Seq(0..64) /\ Len(r) = 4 * q + 3
          /\ r[4 * q + 3] = e /\ \A i \in 1..(4 * q + 2) : r[i] = out[i]
      <4>1. out \in Seq(0..64) /\ Len(out) = 4 * q + 2 /\ e \in 0..64
        BY <1>1, <3>3, <3>4
      <4>2. QED
        BY <4>1
    <3> HIDE DEF r
    <3>8. Missing(4 * q + 3) = 1 /\ 4 * q + 3 \in Nat /\ 1 \in 0..3
      BY LastGroup
    <3>9. /\ out' \in Seq(0..64) /\ Len(out') = 4 * q + 4
          /\ \A i \in 1..(4 * q + 3) : out'[i] = r[i]
          /\ out'[4 * q + 4] = 64
      <4>1. 1 \in 0..3 /\ 4 * q + 3 + 1 = 4 * q + 4 /\ 4 * q + 4 \in (4 * q + 4)..(4 * q + 4)
        BY SMT
      <4>2. IsPadded(out', r, 4 * q + 3, 1)
        BY <3>2, <3>7, <3>8, PaddedIs, Zenon
      <4>3. QED
        BY <4>1, <4>2, Zenon DEF IsPadded
    <3>10. ASSUME NEW i \in 1..(4 * q + 4)
           PROVE  out'[i] = IF i <= 4 * q + 3 THEN Encoded(text, i - 1) ELSE 64
      <4>1. CASE i \in 1..(4 * q + 2)
        <5>1. i \in 1..(4 * q + 3) /\ i <= 4 * q + 3
          BY <4>1, SMT
        <5>2. QED
          BY <1>2, <3>4, <3>7, <3>9, <4>1, <5>1
      <4>2. CASE i = 4 * q + 3
        <5>1. i \in 1..(4 * q + 3) /\ i <= 4 * q + 3 /\ i - 1 = 4 * q + 2
          BY <4>2, SMT
        <5>2. QED
          BY <3>6, <3>7, <3>9, <4>2, <5>1
      <4>3. CASE i = 4 * q + 4
        BY <3>9, <4>3
      <4>4. QED
        BY <3>10, <4>1, <4>2, <4>3
    <3>11. Len(out') = 4 * ((n + 2) \div 3)
      <4>1. 4 * (q + 1) = 4 * q + 4
        BY SMT
      <4>2. QED
        BY <3>4, <3>9, <4>1, Zenon
    <3>12. Len(out') = 4 * q + 4 /\ (4 * n + 2) \div 3 = 4 * q + 3
      BY <3>4, <3>9
    <3>13. QED
      BY <3>9, <3>10, <3>11, <3>12, ZenonT(60) DEF Pad
  <2>4. QED
    BY <1>7, <2>1, <2>2, <2>3
<1>9. EncodesText'
  BY <1>3, <1>8 DEF EncodesText
<1>10. TypeOK' /\ LoopInv'
  BY <1>1, <1>3, <1>8 DEF TypeOK, LoopInv
<1>11. QED
  BY <1>9, <1>10 DEF IInv

LEMMA ReturnHolds ==
    ASSUME IInv, Return
    PROVE  IInv'
<1>1. text' = <<>> /\ out' = <<>> /\ val' = 0 /\ valb' = -6 /\ padded' = FALSE
  BY DEF Return
<1>2. 0 \in 0..(Width - 1)
  BY WidthAssumption, SMT
<1>3. Len(text') = 0 /\ Len(out') = 0 /\ 0 % 3 = 0 /\ (4 * 0) \div 3 = 0 /\ 2 * 0 - 6 = -6
  BY <1>1, SMT
<1>4. TypeOK'
  <2>1. <<>> \in Seq(0..255) /\ <<>> \in Seq(0..64)
    OBVIOUS
  <2>2. QED
    BY <1>1, <1>2, <2>1, Zenon DEF TypeOK
<1>5. LoopInv'
  BY <1>1, <1>3 DEF LoopInv
<1>6. EncodesText'
  BY <1>1, <1>3 DEF EncodesText
<1>7. QED
  BY <1>4, <1>5, <1>6 DEF IInv

(* The invariant EncodesText of Base64Encode, for texts of every length and  *)
(* ints of every width: no overflow of the accumulator is ever seen in the   *)
(* user and password sent to Loxone.                                         *)
THEOREM AlwaysEncodesText == EncodeSpec => []EncodesText
<1>1. IInv /\ [EncodeNext]_encodeVars => IInv'
  <2> SUFFICES ASSUME IInv, [EncodeNext]_encodeVars  PROVE IInv'
    OBVIOUS
  <2>1. ASSUME NEW c \in Chars, Char(c)  PROVE IInv'
    BY <2>1, CharHolds
  <2>2. CASE Finish
    BY <2>2, FinishHolds
  <2>3. CASE Return
    BY <2>3, ReturnHolds
  <2>4. CASE UNCHANGED encodeVars
    BY <2>4 DEF encodeVars, IInv, TypeOK, LoopInv, EncodesText
  <2>5. QED
    BY <2>1, <2>2, <2>3, <2>4 DEF EncodeNext
<1>2. IInv => EncodesText
  BY DEF IInv
<1>3. QED
  BY InitHolds, <1>1, <1>2, PTL DEF EncodeSpec

=============================================================================
