------------------------------- MODULE Base64 -------------------------------
(***************************************************************************)
(* LoxoneAPI::Base64Encode, which encodes the user and password of every   *)
(* request to Loxone: the loop over the characters with its accumulator    *)
(* val, an int into which all of them are shifted and which is never       *)
(* masked, and the number valb of bits in it that are still to be written, *)
(* less six.                                                               *)
(*                                                                         *)
(* gcc shifts an int as the unsigned number with the same bits, and what   *)
(* is read of it are its low bits: val is modelled as that number.         *)
(* A character of the result is its place in base64_chars.                 *)
(***************************************************************************)
EXTENDS Integers, Sequences

CONSTANTS
    Width,      \* 2^32, the number of values of an int
    Chars,      \* the characters of the text
    MaxText     \* bound: length of the text

(* An int has at least 16 bits. *)
ASSUME WidthAssumption == Width \in Nat \ {0} /\ Width % 65536 = 0
ASSUME CharsAssumption == Chars \subseteq 0..255
ASSUME MaxTextAssumption == MaxText \in Nat

Pad == 64       \* '='

VARIABLES
    text,       \* history: what the loop has read of its argument
    out, val, valb,
    padded      \* the result is complete

encodeVars == <<text, out, val, valb, padded>>

(* 2^k, for the shifts of the code. *)
TwoTo(k) == <<1, 2, 4, 8, 16, 32, 64, 128, 256>>[k + 1]

(* base64_chars[(v >> k) & 0x3F] *)
Sextet(v, k) == (v \div TwoTo(k)) % 64

(* Mutant: the accumulator is a character too. *)
ShiftInByte(v, c) == (v * 256 + c) % 256

ShiftIn(v, c) == (v * 256 + c) % Width

EncodeInit ==
    /\ text = <<>> /\ out = <<>>
    /\ val = 0 /\ valb = -6
    /\ padded = FALSE

(* One character: one or two characters of the result are complete. *)
Char(c) ==
    /\ ~padded /\ Len(text) < MaxText
    /\ text' = Append(text, c)
    /\ LET v == ShiftIn(val, c) IN
        /\ val' = v
        /\ IF valb + 8 >= 6
           THEN /\ out' = out \o <<Sextet(v, valb + 8), Sextet(v, valb + 2)>>
                /\ valb' = valb - 4
           ELSE /\ out' = Append(out, Sextet(v, valb + 8))
                /\ valb' = valb + 2
    /\ UNCHANGED padded

Padded(s) == s \o [i \in 1..((0 - Len(s)) % 4) |-> Pad]

(* The bits that are left, with zeros after them, and the padding. *)
Finish ==
    /\ ~padded
    /\ out' = Padded(IF valb > -6
                     THEN Append(out, Sextet(ShiftIn(val, 0), valb + 8)) ELSE out)
    /\ padded' = TRUE
    /\ UNCHANGED <<text, val, valb>>

(* The next request encodes anew. *)
Return == padded /\ text' = <<>> /\ out' = <<>> /\ val' = 0 /\ valb' = -6 /\ padded' = FALSE

EncodeNext == (\E c \in Chars : Char(c)) \/ Finish \/ Return

EncodeSpec == EncodeInit /\ [][EncodeNext]_encodeVars

-----------------------------------------------------------------------------
(* What it promises: RFC 4648. *)

Octet(s, i) == IF i <= Len(s) THEN s[i] ELSE 0

(* Three characters of a text s are four of the result: the i-th of them, *)
(* counted from 0.                                                         *)
Encoded(s, i) ==
    LET g == 3 * (i \div 4)
        a == Octet(s, g + 1)
        b == Octet(s, g + 2)
        c == Octet(s, g + 3)
    IN CASE i % 4 = 0 -> a \div 4
         [] i % 4 = 1 -> (a % 4) * 16 + b \div 16
         [] i % 4 = 2 -> (b % 16) * 4 + c \div 64
         [] i % 4 = 3 -> c % 64

(* Base64Encode writes every character of the result as soon as the text    *)
(* read so far determines it, and in the end what RFC 4648 says, however    *)
(* often the accumulator has overflown by then.                             *)
EncodesText ==
    LET n == Len(text) IN
    IF padded
    THEN /\ Len(out) = 4 * ((n + 2) \div 3)
         /\ \A i \in 1..Len(out) :
              out[i] = IF i <= (4 * n + 2) \div 3 THEN Encoded(text, i - 1) ELSE Pad
    ELSE /\ Len(out) = (4 * n) \div 3
         /\ \A i \in 1..Len(out) : out[i] = Encoded(text, i - 1)

=============================================================================
