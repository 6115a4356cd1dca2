-------------------------------- MODULE Url --------------------------------
(***************************************************************************)
(* tubekit::utility::url: percent encoding of the links of a directory     *)
(* listing, and the decoding of a request's URL.  A string is a sequence   *)
(* of bytes.                                                               *)
(***************************************************************************)
EXTENDS Integers, Sequences, SequencesExt

Space == 32
Percent == 37
PlusSign == 43
MinusSign == 45
Dot == 46

(* Digits, letters and - _ . ~ / stand for themselves. *)
Plain(c) == c \in (48 .. 57) \cup (65 .. 90) \cup (97 .. 122) \cup {45, 95, Dot, 126, 47}

HexDigit(n) == IF n < 10 THEN 48 + n ELSE 55 + n

(* std::setw(2): one digit is padded with a space, not with 0. *)
Hex(c) == <<IF c < 16 THEN Space ELSE HexDigit(c \div 16), HexDigit(c % 16)>>

encode(str) ==
    FlattenSeq([i \in DOMAIN str |->
                   IF Plain(str[i]) THEN <<str[i]>> ELSE <<Percent>> \o Hex(str[i])])

Digit(c) ==
    CASE c \in 48 .. 57 -> c - 48
      [] c \in 65 .. 70 -> c - 55
      [] c \in 97 .. 102 -> c - 87
      [] OTHER -> -1

(* What operator>> makes of two characters after std::hex: it skips white  *)
(* space, takes a sign and a 0x, and stops at what is no digit; -1 when it *)
(* fails.                                                                  *)
HexValue(a, b) ==
    CASE Digit(a) >= 0 /\ Digit(b) >= 0 -> 16 * Digit(a) + Digit(b)
      [] a = 48 /\ b \in {88, 120} -> -1
      [] Digit(a) >= 0 /\ Digit(b) < 0 /\ ~ (a = 48 /\ b \in {88, 120}) -> Digit(a)
      [] a \in (9 .. 13) \cup {Space, PlusSign} -> Digit(b)
      [] a = MinusSign /\ Digit(b) >= 0 -> (256 - Digit(b)) % 256
      [] OTHER -> -1

decode(str) ==
    LET len == Len(str)
        from[i \in 1 .. len + 1] ==
            IF i > len THEN <<>>
            ELSE IF str[i] = Percent /\ i + 2 <= len /\ HexValue(str[i + 1], str[i + 2]) >= 0
            THEN <<HexValue(str[i + 1], str[i + 2])>> \o from[i + 3]
            ELSE <<IF str[i] = PlusSign THEN Space ELSE str[i]>> \o from[i + 1]
    IN  from[1]
=============================================================================
