------------------------ MODULE WebsocketFrame_proofs ------------------------
(***************************************************************************)
(* Machine-checked proofs about WebsocketFrame, for every width of a byte, *)
(* every size of the receive buffer and every set of frames: whatever the  *)
(* segments, the frames are handled once and in order, no byte is read     *)
(* before it has arrived, the frames of a broadcast carry the payloads,    *)
(* and a connection is closed only for a frame the server cannot take or   *)
(* for more bytes than the buffer holds while no frame in it is whole.     *)
(***************************************************************************)
EXTENDS WebsocketFrame, SequenceTheorems, TLAPS

-----------------------------------------------------------------------------
(* Numbers. *)

(* The byte, as arithmetic needs it. *)
LEMMA Constants ==
    /\ Base \in Nat /\ Half \in Nat /\ NOp \in Nat /\ Base = Half + Half
    /\ Half >= 4 /\ NOp >= 4 /\ NOp <= 16
  BY ByteAssumption DEF Half

(* Quotient and remainder. *)
LEMMA DivMod ==
    ASSUME NEW n \in Nat, NEW m \in Nat, m > 0
    PROVE  /\ n \div m \in Nat /\ n % m \in Nat /\ n % m < m
           /\ n = (n \div m) * m + (n % m)
  OBVIOUS

(* A number below the divisor does not show in the quotient. *)
LEMMA Quotient ==
    ASSUME NEW q \in Nat, NEW r \in Nat, NEW m \in Nat, r < m
    PROVE  (q * m + r) \div m = q
  OBVIOUS

(* Shifting twice is shifting once. *)
LEMMA DivDiv ==
    ASSUME NEW n \in Nat, NEW m \in Nat, NEW b \in Nat, m > 0, b > 0
    PROVE  n \div (m * b) = (n \div m) \div b
  <1> DEFINE q == n \div m
             r == n % m
             p == q \div b
             s == q % b
  <1>1. q \in Nat /\ r \in Nat /\ r < m /\ n = q * m + r
    BY DivMod
  <1>2. p \in Nat /\ s \in Nat /\ s < b /\ q = p * b + s
    BY <1>1, DivMod
  <1> HIDE DEF q, r, p, s
  <1>3. n = p * (m * b) + (s * m + r)
    BY <1>1, <1>2
  <1>4. s * m \in Nat /\ s * m <= (b - 1) * m
    BY <1>2
  <1>5. s * m + r \in Nat /\ s * m + r < m * b
    BY <1>1, <1>4
  <1>6. m * b \in Nat
    OBVIOUS
  <1>7. n \div (m * b) = p
    BY <1>2, <1>3, <1>5, <1>6, Quotient
  <1>8. QED  BY <1>7 DEF p, q

(* Products of natural numbers. *)
LEMMA ProductIsNat == \A a, b \in Nat : a * b \in Nat
  OBVIOUS

(* Products of positive numbers. *)
LEMMA ProductIsPositive ==
    ASSUME NEW a \in Nat, NEW b \in Nat, a > 0, b > 0
    PROVE  a * b \in Nat /\ a * b > 0 /\ a * b >= a
  OBVIOUS

(* The low bits of a frame's first byte are its opcode. *)
LEMMA Opcodes == \A op \in 0 .. NOp - 1 : (Half + op) % NOp = op
  BY ByteAssumption, Constants

(* Each power is Base times the one before; Base2, Base4 and Word go with them. *)
LEMMA PowersAre ==
    /\ Powers[1] = 1 /\ Powers[2] = Base
    /\ Powers[3] = Powers[2] * Base /\ Powers[4] = Powers[3] * Base
    /\ Powers[5] = Powers[4] * Base /\ Powers[6] = Powers[5] * Base
    /\ Powers[7] = Powers[6] * Base /\ Powers[8] = Powers[7] * Base
    /\ Base2 = Powers[2] * Base /\ Word = Powers[8] * Base
    /\ Base4 = ((Base * Base) * Base) * Base
    /\ \A j \in 1 .. 8 : Powers[j] \in Nat /\ Powers[j] > 0
    /\ Base2 \in Nat /\ Base2 > Base /\ Base4 \in Nat /\ Base4 > 0 /\ Word \in Nat /\ Word > Base2
  <1> DEFINE B == Base
  <1>1. B \in Nat /\ B > 1
    BY Constants
  <1>2. /\ Powers[1] = 1 /\ Powers[2] = B /\ Powers[3] = B * B /\ Powers[4] = (B * B) * B
        /\ Powers[5] = (B * B) * (B * B) /\ Powers[6] = ((B * B) * (B * B)) * B
        /\ Powers[7] = ((B * B) * (B * B)) * (B * B)
        /\ Powers[8] = (((B * B) * (B * B)) * (B * B)) * B
    BY DEF Powers, Base2, Base4
  <1>3. Base2 = B * B /\ Base4 = (B * B) * (B * B) /\ Word = ((B * B) * (B * B)) * ((B * B) * (B * B))
    BY DEF Base2, Base4, Word
  <1> HIDE DEF B
  <1>4. /\ B * B \in Nat /\ B * B > B
        /\ (B * B) * (B * B) \in Nat /\ (B * B) * (B * B) > B * B
    <2>1. ASSUME NEW a \in Nat, a > 1 PROVE a * a \in Nat /\ a * a > a
      BY <2>1
    <2>2. B * B \in Nat /\ B * B > B
      BY <1>1, <2>1
    <2>3. QED  BY <1>1, <2>1, <2>2
  <1> DEFINE S == B * B
             F == S * S
  <1>5. S \in Nat /\ S > B /\ F \in Nat /\ F > S
    BY <1>4
  <1>6. (B * B) * B = S * B /\ F = (S * B) * B /\ (F * S) = (F * B) * B /\ F * F = ((F * S) * B) * B
    BY <1>1
  <1>7. F = ((B * B) * B) * B
    BY <1>1
  <1> HIDE DEF S, F
  <1>8. /\ S * B \in Nat /\ S * B > 0 /\ F * B \in Nat /\ F * B > 0
        /\ F * S \in Nat /\ F * S > 0
    BY <1>1, <1>5, ProductIsPositive
  <1>9. (F * S) * B \in Nat /\ (F * S) * B > 0
    BY <1>1, <1>8, ProductIsPositive
  <1>10. F * F \in Nat /\ F * F >= F
    BY <1>1, <1>5, ProductIsPositive
  <1>11. /\ Powers[3] = S /\ Powers[4] = S * B /\ Powers[5] = F /\ Powers[6] = F * B
         /\ Powers[7] = F * S /\ Powers[8] = (F * S) * B /\ Base2 = S /\ Base4 = F /\ Word = F * F
    BY <1>2, <1>3 DEF S, F
  <1>12. \A j \in 1 .. 8 : Powers[j] \in Nat /\ Powers[j] > 0
    BY <1>1, <1>2, <1>5, <1>8, <1>9, <1>11
  <1>13. B = Base /\ S = B * B
    BY DEF B, S
  <1>14. QED
    BY <1>1, <1>2, <1>5, <1>6, <1>7, <1>10, <1>11, <1>12, <1>13

(* One digit of a number. *)
LEMMA DigitIs ==
    ASSUME NEW n \in Nat, NEW m \in Nat, m > 0
    PROVE  /\ n \div m \in Nat /\ n \div (m * Base) \in Nat /\ (n \div m) % Base \in Byte
           /\ n \div m = (n \div (m * Base)) * Base + ((n \div m) % Base)
  <1>1. Base \in Nat /\ Base > 0
    BY Constants
  <1>2. n \div m \in Nat
    BY DivMod
  <1>3. n \div (m * Base) = (n \div m) \div Base
    BY <1>1, DivDiv
  <1> DEFINE q == n \div m
  <1> HIDE DEF q
  <1>4. /\ q \div Base \in Nat /\ q % Base \in Nat /\ q % Base < Base
        /\ q = (q \div Base) * Base + (q % Base)
    BY <1>1, <1>2, DivMod DEF q
  <1>5. q % Base \in Byte
    BY <1>1, <1>4 DEF Byte
  <1>6. QED  BY <1>2, <1>3, <1>4, <1>5 DEF q

(* All digits of a number above its length are 0. *)
LEMMA NothingLeft ==
    ASSUME NEW n \in Nat, NEW m \in Nat, n < m
    PROVE  n \div m = 0
  OBVIOUS

(* Four digits at once, which is what ntohl reads. *)
LEMMA Horner ==
    ASSUME NEW B \in Nat, NEW q \in Nat, NEW a \in Nat, NEW b \in Nat, NEW c \in Nat, NEW d \in Nat
    PROVE  (((q * B + a) * B + b) * B + c) * B + d
           = q * (((B * B) * B) * B) + (((a * B + b) * B + c) * B + d)
  OBVIOUS

(* Digits gives bytes, as many as are asked for. *)
LEMMA DigitsAre ==
    ASSUME NEW n \in Nat, NEW k \in {0, ShortDigits, LongDigits}
    PROVE  /\ Digits(n, k) \in Seq(Byte) /\ Len(Digits(n, k)) = k
           /\ \A i \in 1 .. k : Digits(n, k)[i] = (n \div Powers[k - i + 1]) % Base
  <1> DEFINE e == [i \in 1 .. k |-> (n \div Powers[k - i + 1]) % Base]
  <1>1. k \in Nat /\ k <= 8
    BY DEF ShortDigits, LongDigits
  <1>2. ASSUME NEW i \in 1 .. k PROVE (n \div Powers[k - i + 1]) % Base \in Byte
    <2>1. k - i + 1 \in 1 .. 8
      BY <1>1
    <2>2. Powers[k - i + 1] \in Nat /\ Powers[k - i + 1] > 0
      BY <2>1, PowersAre
    <2>3. QED  BY <2>2, DigitIs
  <1>3. e \in [1 .. k -> Byte] /\ \A i \in 1 .. k : e[i] = (n \div Powers[k - i + 1]) % Base
    BY <1>2
  <1>4. Digits(n, k) = e
    BY DEF Digits
  <1> HIDE DEF e
  <1>5. e \in Seq(Byte) /\ Len(e) = k
    BY <1>1, <1>3
  <1>6. QED  BY <1>3, <1>4, <1>5

(* Both forms give a number back. *)
LEMMA ShortNumber ==
    ASSUME NEW n \in Nat, n < Base2
    PROVE  Number(Digits(n, ShortDigits)) = n
  <1> DEFINE d == Digits(n, ShortDigits)
  <1>1. Len(d) = 2 /\ d[1] = (n \div Powers[2]) % Base /\ d[2] = (n \div Powers[1]) % Base
    BY DigitsAre DEF ShortDigits
  <1>2. Number(d) = d[1] * Base + d[2]
    BY <1>1 DEF Number, ShortDigits
  <1>3. /\ n \div 1 = (n \div (1 * Base)) * Base + ((n \div 1) % Base)
        /\ n \div Base \in Nat /\ (n \div Base) % Base \in Nat
        /\ n \div Base = (n \div (Base * Base)) * Base + ((n \div Base) % Base)
    <2>1. Base \in Nat /\ Base > 0
      BY Constants
    <2>2. n \div 1 = (n \div (1 * Base)) * Base + ((n \div 1) % Base)
      BY DigitIs
    <2>3. /\ n \div Base \in Nat /\ (n \div Base) % Base \in Byte
          /\ n \div Base = (n \div (Base * Base)) * Base + ((n \div Base) % Base)
      BY <2>1, DigitIs
    <2>4. QED  BY <2>1, <2>2, <2>3 DEF Byte
  <1>4. n \div Base2 = 0 /\ Base2 = Base * Base
    BY NothingLeft, PowersAre DEF Base2
  <1>5. 1 * Base = Base /\ n \div 1 = n
    BY Constants
  <1>6. n = (n \div Base) * Base + ((n \div 1) % Base) /\ n \div Base = ((n \div Base) % Base)
    BY <1>3, <1>4, <1>5, Constants
  <1>7. QED  BY <1>1, <1>2, <1>6, PowersAre

(* The same for eight digits, in the two words that ntohl reads. *)
LEMMA LongNumber ==
    ASSUME NEW n \in Nat, n < Word
    PROVE  Number(Digits(n, LongDigits)) = n
  <1> DEFINE d == Digits(n, LongDigits)
             q(j) == n \div Powers[j]
  <1>1. /\ Len(d) = 8
        /\ d[1] = q(8) % Base /\ d[2] = q(7) % Base /\ d[3] = q(6) % Base /\ d[4] = q(5) % Base
        /\ d[5] = q(4) % Base /\ d[6] = q(3) % Base /\ d[7] = q(2) % Base /\ d[8] = q(1) % Base
    BY DigitsAre DEF LongDigits
  <1>2. /\ q(8) \in Nat /\ q(8) % Base \in Byte
        /\ q(8) = (n \div Word) * Base + (q(8) % Base)
    <2>1. Powers[8] \in Nat /\ Powers[8] > 0 /\ Word = Powers[8] * Base
      BY PowersAre
    <2>2. QED  BY <2>1, DigitIs
  <1>3. ASSUME NEW j \in 1 .. 7
        PROVE  q(j) \in Nat /\ q(j) % Base \in Byte /\ q(j) = q(j + 1) * Base + (q(j) % Base)
    <2>1. Powers[j] \in Nat /\ Powers[j] > 0
      BY PowersAre
    <2>2. Powers[j + 1] = Powers[j] * Base
      BY PowersAre, Constants
    <2>3. QED  BY <2>1, <2>2, DigitIs
  <1>4. q(1) = n
    BY PowersAre
  <1>5. q(8) = q(8) % Base
    <2>1. n \div Word = 0
      BY NothingLeft, PowersAre
    <2>2. Base \in Nat /\ 0 * Base = 0
      BY Constants
    <2> HIDE DEF q
    <2>3. q(8) % Base \in Nat
      BY <1>2, <2>2 DEF Byte
    <2>4. QED  BY <1>2, <2>1, <2>2, <2>3
  <1> HIDE DEF q, d
  <1>6. /\ q(7) = q(8) * Base + d[2] /\ q(6) = q(7) * Base + d[3] /\ q(5) = q(6) * Base + d[4]
        /\ q(4) = q(5) * Base + d[5] /\ q(3) = q(4) * Base + d[6] /\ q(2) = q(3) * Base + d[7]
        /\ n = q(2) * Base + d[8] /\ q(8) = d[1]
    BY <1>1, <1>3, <1>4, <1>5
  <1>7. ntohl(d, 0) = q(5)
    BY <1>6 DEF ntohl
  <1>8. d[5] \in Nat /\ d[6] \in Nat /\ d[7] \in Nat /\ d[8] \in Nat /\ q(5) \in Nat
    BY <1>1, <1>3, Constants DEF Byte
  <1>9. n = (((q(5) * Base + d[5]) * Base + d[6]) * Base + d[7]) * Base + d[8]
    BY <1>6
  <1>10. n = q(5) * (((Base * Base) * Base) * Base)
             + (((d[5] * Base + d[6]) * Base + d[7]) * Base + d[8])
    BY <1>8, <1>9, Constants, Horner
  <1>11. ntohl(d, 4) = ((d[5] * Base + d[6]) * Base + d[7]) * Base + d[8]
    BY DEF ntohl
  <1>12. Number(d) = ntohl(d, 0) * Base4 + ntohl(d, 4)
    BY <1>1 DEF Number, ShortDigits
  <1>13. QED  BY <1>7, <1>10, <1>11, <1>12, PowersAre DEF d

-----------------------------------------------------------------------------
(* The inductive invariant. *)

TypeInv ==
    /\ frames \in Seq(Frames) /\ stream \in Seq(Byte) /\ ends \in Seq(Nat)
    /\ arrived \in Nat /\ sock2buf_data_len \in Nat /\ rd \in Nat /\ pc \in {"idle", "loop"}
    /\ base \in Nat /\ index \in Nat /\ all_data_len \in Nat
    /\ out \in Seq(Byte) /\ close_flag \in BOOLEAN
    /\ handled \in Seq(Seq(Byte)) /\ packed \in Seq(Nat) /\ reached \in Nat

(* Some runs of bytes, one after the other, and where each of them ends. *)
Joined(s, marks, parts) ==
    /\ End(marks, Len(marks)) = Len(s)
    /\ \A k \in 1 .. Len(marks) :
          /\ marks[k] = End(marks, k - 1) + Len(parts[k]) /\ marks[k] <= Len(s)
          /\ \A i \in 1 .. Len(parts[k]) : s[End(marks, k - 1) + i] = parts[k][i]

Sent == [k \in 1 .. Len(frames) |-> Bytes(frames[k])]
Pack(data) == send_packet(Half + 1, data)
Broadcast == [k \in 1 .. Len(handled) |-> Pack(handled[k])]

(* Only the last frame may be unfinished. *)
StreamInv ==
    /\ Len(ends) = Len(frames) /\ Joined(stream, ends, Sent)
    /\ \A k \in 1 .. Len(frames) - 1 : frames[k].claim = Len(frames[k].payload)

OutInv ==
    /\ Len(packed) = Len(handled) /\ Joined(out, packed, Broadcast)
    /\ \A k \in 1 .. Len(handled) : Len(handled[k]) < Word

(* What has been handled is what has arrived, and the read pointer is at   *)
(* the end of it, where process_connection's index is.                     *)
ParseInv ==
    /\ Len(handled) <= Len(frames)
    /\ \A k \in 1 .. Len(handled) : Acceptable(frames[k]) /\ handled[k] = frames[k].payload
    /\ End(ends, Len(handled)) <= arrived /\ arrived <= Len(stream)
    /\ ~ close_flag => rd = End(ends, Len(handled))
    /\ pc = "loop" => /\ ~ close_flag /\ base + index = rd /\ base + all_data_len = arrived
                      /\ all_data_len <= RecvMax

(* The first frame that has not been handled. *)
Current == frames[Len(handled) + 1]

(* Between tasks no frame that the server can take is left in the buffer. *)
NotMissed ==
    pc = "idle" /\ Len(handled) < Len(frames) /\ Acceptable(Current) =>
        arrived < ends[Len(handled) + 1]

(* A frame that closes the connection when its turn comes. *)
Refused ==
    /\ Len(handled) < Len(frames) /\ ~ Acceptable(Current)
    /\ Current.payload # <<>> \/ Current.op \notin {1, 2}

CloseInv == close_flag => Refused \/ Overfull

OpenInv ==
    (/\ pc = "idle" /\ Len(handled) < Len(frames) /\ arrived > End(ends, Len(handled))
     /\ Current.op \notin {1, 2}) => close_flag

Inv ==
    TypeInv /\ StreamInv /\ OutInv /\ ParseInv /\ NoOverread /\ NotMissed /\ CloseInv /\ OpenInv

-----------------------------------------------------------------------------
(* Frames as bytes. *)

(* The bytes of two runs put together. *)
LEMMA TwoParts ==
    ASSUME NEW a \in Seq(Byte), NEW b \in Seq(Byte)
    PROVE  /\ a \o b \in Seq(Byte) /\ Len(a \o b) = Len(a) + Len(b)
           /\ \A i \in 1 .. Len(a) : (a \o b)[i] = a[i]
           /\ \A i \in 1 .. Len(b) : (a \o b)[Len(a) + i] = b[i]
  <1>1. /\ a \o b \in Seq(Byte) /\ Len(a \o b) = Len(a) + Len(b)
        /\ \A i \in 1 .. Len(a) + Len(b) : (a \o b)[i] = IF i <= Len(a) THEN a[i] ELSE b[i - Len(a)]
    BY ConcatProperties
  <1>2. Len(a) \in Nat /\ Len(b) \in Nat
    BY LenProperties
  <1>3. ASSUME NEW i \in 1 .. Len(b) PROVE (a \o b)[Len(a) + i] = b[i]
    <2>1. /\ Len(a) + i \in 1 .. Len(a) + Len(b) /\ ~ (Len(a) + i <= Len(a))
          /\ (Len(a) + i) - Len(a) = i
      BY <1>2
    <2>2. QED  BY <1>1, <2>1
  <1>4. ASSUME NEW i \in 1 .. Len(a) PROVE (a \o b)[i] = a[i]
    <2>1. i \in 1 .. Len(a) + Len(b) /\ i <= Len(a)
      BY <1>2
    <2>2. QED  BY <1>1, <2>1
  <1>5. QED  BY <1>1, <1>3, <1>4

(* The bytes of three runs put together. *)
LEMMA ThreeParts ==
    ASSUME NEW a \in Seq(Byte), NEW b \in Seq(Byte), NEW c \in Seq(Byte)
    PROVE  /\ (a \o b) \o c \in Seq(Byte) /\ Len((a \o b) \o c) = Len(a) + Len(b) + Len(c)
           /\ \A i \in 1 .. Len(a) : ((a \o b) \o c)[i] = a[i]
           /\ \A i \in 1 .. Len(b) : ((a \o b) \o c)[Len(a) + i] = b[i]
           /\ \A i \in 1 .. Len(c) : ((a \o b) \o c)[Len(a) + Len(b) + i] = c[i]
  <1> DEFINE d == a \o b
  <1>1. /\ d \in Seq(Byte) /\ Len(d) = Len(a) + Len(b)
        /\ \A i \in 1 .. Len(a) : d[i] = a[i]
        /\ \A i \in 1 .. Len(b) : d[Len(a) + i] = b[i]
    BY TwoParts
  <1>2. Len(a) \in Nat /\ Len(b) \in Nat /\ Len(c) \in Nat
    BY LenProperties
  <1> HIDE DEF d
  <1>3. /\ d \o c \in Seq(Byte) /\ Len(d \o c) = Len(d) + Len(c)
        /\ \A i \in 1 .. Len(d) : (d \o c)[i] = d[i]
        /\ \A i \in 1 .. Len(c) : (d \o c)[Len(d) + i] = c[i]
    BY <1>1, TwoParts
  <1>4. ASSUME NEW i \in 1 .. Len(a) PROVE (d \o c)[i] = a[i]
    BY <1>1, <1>2, <1>3
  <1>5. ASSUME NEW i \in 1 .. Len(b) PROVE (d \o c)[Len(a) + i] = b[i]
    <2>1. Len(a) + i \in 1 .. Len(d)
      BY <1>1, <1>2
    <2>2. QED  BY <1>1, <1>3, <2>1
  <1>6. QED  BY <1>1, <1>3, <1>4, <1>5 DEF d

(* The mask undoes itself. *)
LEMMA MaskIs ==
    ASSUME NEW p \in Seq(Byte), NEW key \in [1 .. KeyLen -> Byte]
    PROVE  /\ Masked(p, key) \in Seq(Byte) /\ Len(Masked(p, key)) = Len(p)
           /\ \A i \in 1 .. Len(p) : Masked(p, key)[i] = ByteXor(p[i], key[((i - 1) % KeyLen) + 1])
           /\ Masked(Masked(p, key), key) = p
  <1>1. Len(p) \in Nat /\ DOMAIN p = 1 .. Len(p) /\ \A i \in 1 .. Len(p) : p[i] \in Byte
    BY LenProperties, ElementOfSeq
  <1>2. ASSUME NEW i \in Nat, i > 0 PROVE key[((i - 1) % KeyLen) + 1] \in Byte
    <2>1. ((i - 1) % KeyLen) + 1 \in 1 .. KeyLen
      BY <1>2 DEF KeyLen
    <2>2. QED  BY <2>1
  <1> DEFINE g(i) == key[((i - 1) % KeyLen) + 1]
  <1>3. \A i \in 1 .. Len(p) : g(i) \in Byte
    BY <1>1, <1>2
  <1>4. Masked(p, key) = [i \in 1 .. Len(p) |-> ByteXor(p[i], g(i))]
    BY <1>1 DEF Masked
  <1> HIDE DEF g
  <1> DEFINE m == [i \in 1 .. Len(p) |-> ByteXor(p[i], g(i))]
  <1>5. ASSUME NEW i \in 1 .. Len(p)
        PROVE  ByteXor(p[i], g(i)) \in Byte /\ ByteXor(ByteXor(p[i], g(i)), g(i)) = p[i]
    BY <1>1, <1>3, XorAssumption
  <1>6. m \in [1 .. Len(p) -> Byte] /\ \A i \in 1 .. Len(p) : m[i] = ByteXor(p[i], g(i))
    BY <1>5
  <1> HIDE DEF m
  <1>7. m \in Seq(Byte) /\ Len(m) = Len(p) /\ DOMAIN m = 1 .. Len(p)
    BY <1>1, <1>6
  <1>8. Masked(m, key) = [i \in 1 .. Len(p) |-> ByteXor(m[i], g(i))]
    BY <1>7 DEF Masked, g
  <1>9. \A i \in 1 .. Len(p) : ByteXor(m[i], g(i)) = p[i]
    BY <1>5, <1>6
  <1>10. p \in [1 .. Len(p) -> Byte]
    BY LenProperties
  <1>11. Masked(m, key) = p
    BY <1>8, <1>9, <1>10
  <1>12. Masked(p, key) = m
    BY <1>4 DEF m
  <1>13. QED  BY <1>6, <1>7, <1>11, <1>12 DEF g

(* A masking key as bytes. *)
LEMMA KeyIs ==
    ASSUME NEW key \in [1 .. KeyLen -> Byte]
    PROVE  key \in Seq(Byte) /\ Len(key) = KeyLen
  <1>1. KeyLen \in Nat
    BY DEF KeyLen
  <1>2. QED  BY <1>1

(* The limits of the three forms. *)
LEMMA LimitIs == Limit(0) = Half - 2 /\ Limit(ShortDigits) = Base2 /\ Limit(LongDigits) = Word
  BY DEF Limit, ShortDigits, LongDigits

(* How many bytes come before the payload. *)
HeadLen(f) == 2 + f.form + (IF f.mask THEN KeyLen ELSE 0)

(* What FramesAssumption says of one frame. *)
LEMMA FrameIs ==
    ASSUME NEW f \in Frames
    PROVE  /\ f.op \in Nat /\ f.op < NOp /\ f.mask \in BOOLEAN
           /\ f.form \in {0, ShortDigits, LongDigits} /\ f.form \in Nat
           /\ f.key \in [1 .. KeyLen -> Byte] /\ f.payload \in Seq(Byte) /\ Len(f.payload) \in Nat
           /\ f.claim \in Nat /\ Len(f.payload) <= f.claim /\ f.claim < Limit(f.form)
           /\ HeadLen(f) \in Nat /\ HeadLen(f) >= 2
  <1>1. /\ f.op \in 0 .. NOp - 1 /\ f.mask \in BOOLEAN
        /\ f.form \in {0, ShortDigits, LongDigits}
        /\ f.key \in [1 .. KeyLen -> Byte] /\ f.payload \in Seq(Byte)
        /\ f.claim \in Len(f.payload) .. Limit(f.form) - 1
    BY FramesAssumption
  <1>2. Len(f.payload) \in Nat
    BY <1>1, LenProperties
  <1>3. Limit(f.form) \in Int
    <2>1. Base2 \in Nat /\ Word \in Nat /\ Half \in Nat
      BY Constants, PowersAre
    <2>2. Limit(0) \in Int /\ Limit(ShortDigits) \in Int /\ Limit(LongDigits) \in Int
      BY <2>1, LimitIs
    <2>3. QED  BY <1>1, <2>2
  <1>4. f.claim \in Nat /\ Len(f.payload) <= f.claim /\ f.claim < Limit(f.form)
    BY <1>1, <1>2, <1>3
  <1>5. f.form \in Nat
    BY <1>1 DEF ShortDigits, LongDigits
  <1>6. HeadLen(f) \in Nat /\ HeadLen(f) >= 2
    BY <1>5 DEF HeadLen, KeyLen
  <1>7. f.op \in Nat /\ f.op < NOp
    BY <1>1, Constants
  <1>8. QED  BY <1>1, <1>2, <1>4, <1>5, <1>6, <1>7

(* The second byte's code for each form. *)
LEMMA CodeIs ==
    /\ \A n : Code(0, n) = n
    /\ \A n : Code(ShortDigits, n) = Half - 2
    /\ \A n : Code(LongDigits, n) = Half - 1
  BY DEF Code, ShortDigits, LongDigits

(* The code leaves the mask bit free. *)
LEMMA CodeType ==
    ASSUME NEW form \in {0, ShortDigits, LongDigits}, NEW n \in Nat, n < Limit(form)
    PROVE  Code(form, n) \in Nat /\ Code(form, n) < Half
  <1>1. Half \in Nat /\ Half >= 4
    BY Constants
  <1>2. CASE form = 0
    BY <1>1, <1>2, CodeIs, LimitIs
  <1>3. CASE form = ShortDigits
    BY <1>1, <1>3, CodeIs
  <1>4. CASE form = LongDigits
    BY <1>1, <1>4, CodeIs
  <1>5. QED  BY <1>2, <1>3, <1>4

(* A first byte is a byte. *)
LEMMA HalfAndOp == \A op \in Nat : op < NOp => Half + op \in Byte
  <1>1. NOp <= Half
    BY ByteAssumption, Constants
  <1>2. QED  BY <1>1, Constants DEF Byte

(* The bytes of a frame, part by part. *)
LEMMA BytesAre ==
    ASSUME NEW f \in Frames
    PROVE  /\ Bytes(f) \in Seq(Byte) /\ Len(Bytes(f)) = HeadLen(f) + Len(f.payload)
           /\ Bytes(f)[1] = Half + f.op
           /\ Bytes(f)[2] = (IF f.mask THEN Half ELSE 0) + Code(f.form, f.claim)
           /\ \A i \in 1 .. f.form : Bytes(f)[2 + i] = Digits(f.claim, f.form)[i]
           /\ f.mask => \A i \in 1 .. KeyLen : Bytes(f)[2 + f.form + i] = f.key[i]
           /\ \A i \in 1 .. Len(f.payload) :
                 Bytes(f)[HeadLen(f) + i] =
                     IF f.mask THEN Masked(f.payload, f.key)[i] ELSE f.payload[i]
  <1> DEFINE u == Half + f.op
             v == (IF f.mask THEN Half ELSE 0) + Code(f.form, f.claim)
             a == <<u, v>>
             b == Digits(f.claim, f.form)
             m == Masked(f.payload, f.key)
             c == IF f.mask THEN f.key \o m ELSE f.payload
  <1>1. /\ f.op \in Nat /\ f.op < NOp /\ f.mask \in BOOLEAN
        /\ f.form \in {0, ShortDigits, LongDigits} /\ f.form \in Nat
        /\ f.key \in [1 .. KeyLen -> Byte] /\ f.payload \in Seq(Byte) /\ Len(f.payload) \in Nat
        /\ f.claim \in Nat /\ f.claim < Limit(f.form)
    BY FrameIs
  <1>2. u \in Byte
    BY <1>1, HalfAndOp
  <1>3. v \in Byte
    <2>1. Code(f.form, f.claim) \in Nat /\ Code(f.form, f.claim) < Half
      BY <1>1, CodeType
    <2>2. QED  BY <2>1, Constants DEF Byte
  <1> HIDE DEF u, v
  <1>4. a \in Seq(Byte) /\ Len(a) = 2 /\ a[1] = u /\ a[2] = v
    BY <1>2, <1>3
  <1>5. b \in Seq(Byte) /\ Len(b) = f.form
    BY <1>1, DigitsAre
  <1>6. m \in Seq(Byte) /\ Len(m) = Len(f.payload)
    BY <1>1, MaskIs
  <1>7. f.key \in Seq(Byte) /\ Len(f.key) = KeyLen /\ KeyLen \in Nat
    BY <1>1, KeyIs DEF KeyLen
  <1> HIDE DEF m
  <1>8. /\ c \in Seq(Byte)
        /\ Len(c) = (IF f.mask THEN KeyLen ELSE 0) + Len(f.payload)
        /\ f.mask => \A i \in 1 .. KeyLen : c[i] = f.key[i]
        /\ \A i \in 1 .. Len(f.payload) :
              c[(IF f.mask THEN KeyLen ELSE 0) + i] = IF f.mask THEN m[i] ELSE f.payload[i]
    <2>1. CASE f.mask
      <3>1. c = f.key \o m
        BY <2>1
      <3>2. /\ f.key \o m \in Seq(Byte) /\ Len(f.key \o m) = Len(f.key) + Len(m)
            /\ \A i \in 1 .. Len(f.key) : (f.key \o m)[i] = f.key[i]
            /\ \A i \in 1 .. Len(m) : (f.key \o m)[Len(f.key) + i] = m[i]
        BY <1>6, <1>7, TwoParts
      <3> HIDE DEF c
      <3>3. QED  BY <1>6, <1>7, <2>1, <3>1, <3>2
    <2>2. CASE ~ f.mask
      <3>1. c = f.payload
        BY <2>2
      <3> HIDE DEF c
      <3>2. QED  BY <1>1, <2>2, <3>1
    <2>3. QED  BY <2>1, <2>2
  <1>9. Bytes(f) = (a \o b) \o c
    BY DEF Bytes, u, v, m
  <1> HIDE DEF a, b, c
  <1> DEFINE s == (a \o b) \o c
  <1>10. /\ s \in Seq(Byte) /\ Len(s) = Len(a) + Len(b) + Len(c)
         /\ \A i \in 1 .. Len(a) : s[i] = a[i]
         /\ \A i \in 1 .. Len(b) : s[Len(a) + i] = b[i]
         /\ \A i \in 1 .. Len(c) : s[Len(a) + Len(b) + i] = c[i]
    BY ZenonT(30), <1>4, <1>5, <1>8, ThreeParts
  <1> HIDE DEF s
  <1>11. s[1] = u /\ s[2] = v
    BY <1>4, <1>10
  <1>12. \A i \in 1 .. f.form : s[2 + i] = b[i]
    BY <1>4, <1>5, <1>10
  <1>13. \A i \in 1 .. Len(c) : s[2 + f.form + i] = c[i]
    BY <1>4, <1>5, <1>10
  <1>14. ASSUME f.mask, NEW i \in 1 .. KeyLen PROVE s[2 + f.form + i] = f.key[i]
    <2>1. i \in 1 .. Len(c)
      BY <1>1, <1>7, <1>8, <1>14
    <2>2. QED  BY <1>8, <1>13, <1>14, <2>1
  <1>15. ASSUME NEW i \in 1 .. Len(f.payload)
         PROVE  s[HeadLen(f) + i] = IF f.mask THEN m[i] ELSE f.payload[i]
    <2> DEFINE h == IF f.mask THEN KeyLen ELSE 0
    <2>1. h \in Nat
      BY <1>7
    <2>2. Len(c) = h + Len(f.payload) /\ c[h + i] = IF f.mask THEN m[i] ELSE f.payload[i]
      BY <1>8
    <2>3. HeadLen(f) = 2 + f.form + h
      BY DEF HeadLen
    <2> HIDE DEF h
    <2>4. h + i \in 1 .. Len(c) /\ HeadLen(f) + i = 2 + f.form + (h + i)
      <3>1. f.form \in Nat /\ Len(f.payload) \in Nat /\ Len(c) = h + Len(f.payload)
        BY <1>1, <2>2
      <3>2. QED  BY <2>1, <2>3, <3>1
    <2>5. QED  BY <1>13, <2>2, <2>4
  <1>16. Len(s) = HeadLen(f) + Len(f.payload)
    <2> DEFINE h == IF f.mask THEN KeyLen ELSE 0
    <2>1. h \in Nat /\ Len(c) = h + Len(f.payload) /\ HeadLen(f) = 2 + f.form + h
      BY <1>7, <1>8 DEF HeadLen
    <2> HIDE DEF h
    <2>2. QED  BY <1>1, <1>4, <1>5, <1>10, <2>1
  <1>17. Bytes(f) = s
    BY <1>9 DEF s
  <1>18. QED  BY <1>10, <1>11, <1>12, <1>14, <1>15, <1>16, <1>17 DEF u, v, b, m

(* The form that send_packet chooses. *)
FormOf(n) == IF n <= Half - 3 THEN 0 ELSE IF n < Base2 THEN ShortDigits ELSE LongDigits

(* The form that send_packet chooses can say the length. *)
LEMMA FormIs ==
    ASSUME NEW n \in Nat, n < Word
    PROVE  /\ FormOf(n) \in {0, ShortDigits, LongDigits} /\ FormOf(n) \in Nat
           /\ n < Limit(FormOf(n))
  <1>1. Half \in Nat /\ Base2 \in Nat
    BY Constants, PowersAre
  <1>2. FormOf(n) = 0 \/ FormOf(n) = ShortDigits \/ FormOf(n) = LongDigits
    BY DEF FormOf
  <1>3. FormOf(n) = 0 => n < Half - 2
    BY <1>1 DEF FormOf, ShortDigits, LongDigits
  <1>4. FormOf(n) = ShortDigits => n < Base2
    BY <1>1 DEF FormOf, ShortDigits, LongDigits
  <1>5. FormOf(n) \in Nat
    BY <1>2 DEF ShortDigits, LongDigits
  <1>6. n < Limit(FormOf(n))
    BY <1>2, <1>3, <1>4, LimitIs
  <1>7. QED  BY <1>2, <1>5, <1>6

(* The bytes that send_packet packs, part by part. *)
LEMMA PackIs ==
    ASSUME NEW d \in Seq(Byte), Len(d) < Word
    PROVE  /\ Pack(d) \in Seq(Byte) /\ Len(Pack(d)) = 2 + FormOf(Len(d)) + Len(d)
           /\ Pack(d)[1] = Half + 1 /\ Pack(d)[2] = Code(FormOf(Len(d)), Len(d))
           /\ \A i \in 1 .. FormOf(Len(d)) :
                 Pack(d)[2 + i] = Digits(Len(d), FormOf(Len(d)))[i]
           /\ \A i \in 1 .. Len(d) : Pack(d)[2 + FormOf(Len(d)) + i] = d[i]
  <1> DEFINE n == Len(d)
             form == FormOf(n)
             a == <<Half + 1>>
             b == IF n <= Half - 3 THEN <<n>>
                  ELSE IF n < Base2 THEN <<Half - 2>> \o Digits(n, ShortDigits)
                  ELSE <<Half - 1>> \o Digits(n, LongDigits)
  <1>1. n \in Nat
    BY LenProperties
  <1>2. form \in {0, ShortDigits, LongDigits} /\ form \in Nat /\ n < Limit(form)
    BY <1>1, FormIs
  <1>3. a \in Seq(Byte) /\ Len(a) = 1 /\ a[1] = Half + 1
    <2>1. Half + 1 \in Byte
      BY HalfAndOp, Constants
    <2>2. QED  BY <2>1
  <1>4. Pack(d) = (a \o b) \o d
    BY DEF Pack, send_packet
  <1>5. /\ b \in Seq(Byte) /\ Len(b) = 1 + form /\ b[1] = Code(form, n)
        /\ \A i \in 1 .. form : b[1 + i] = Digits(n, form)[i]
    <2>1. Code(form, n) \in Byte
      <3>1. Code(form, n) \in Nat /\ Code(form, n) < Half
        BY <1>1, <1>2, CodeType
      <3>2. QED  BY <3>1, Constants DEF Byte
    <2>2. CASE n <= Half - 3
      <3>1. form = 0 /\ b = <<n>> /\ Code(form, n) = n
        BY <2>2, CodeIs DEF FormOf
      <3> HIDE DEF form, b
      <3>2. QED  BY <2>1, <3>1
    <2>3. CASE ~ (n <= Half - 3)
      <3> DEFINE c == Code(form, n)
                 e == Digits(n, form)
      <3>1. b = <<c>> \o e
        BY <2>3, CodeIs DEF FormOf
      <3>2. e \in Seq(Byte) /\ Len(e) = form
        BY <1>1, <1>2, DigitsAre
      <3> HIDE DEF c, e, b, form
      <3>3. <<c>> \in Seq(Byte) /\ Len(<<c>>) = 1 /\ <<c>>[1] = c
        BY <2>1 DEF c
      <3> DEFINE h == <<c>>
      <3> HIDE DEF h
      <3>4. h \in Seq(Byte) /\ Len(h) = 1 /\ h[1] = c /\ b = h \o e
        BY <3>1, <3>3 DEF h
      <3>5. /\ h \o e \in Seq(Byte) /\ Len(h \o e) = Len(h) + Len(e)
            /\ \A i \in 1 .. Len(h) : (h \o e)[i] = h[i]
            /\ \A i \in 1 .. Len(e) : (h \o e)[Len(h) + i] = e[i]
        BY <3>2, <3>4, TwoParts
      <3>6. QED  BY <3>2, <3>4, <3>5 DEF c, e
    <2>4. QED  BY <2>2, <2>3
  <1> HIDE DEF a, b, form, n
  <1> DEFINE s == (a \o b) \o d
  <1>6. /\ s \in Seq(Byte) /\ Len(s) = Len(a) + Len(b) + Len(d)
        /\ \A i \in 1 .. Len(a) : s[i] = a[i]
        /\ \A i \in 1 .. Len(b) : s[Len(a) + i] = b[i]
        /\ \A i \in 1 .. Len(d) : s[Len(a) + Len(b) + i] = d[i]
    BY <1>3, <1>5, ThreeParts
  <1> HIDE DEF s
  <1>7. s[1] = Half + 1
    BY <1>3, <1>6
  <1>8. \A i \in 1 .. 1 + form : s[1 + i] = b[i]
    BY <1>3, <1>5, <1>6
  <1>9. s[2] = Code(form, n)
    BY <1>2, <1>5, <1>8
  <1>10. ASSUME NEW i \in 1 .. form PROVE s[2 + i] = Digits(n, form)[i]
    <2>1. 1 + i \in 1 .. 1 + form /\ 1 + (1 + i) = 2 + i
      BY <1>2
    <2>2. QED  BY <1>5, <1>8, <2>1
  <1>11. \A i \in 1 .. Len(d) : s[2 + form + i] = d[i]
    BY <1>2, <1>3, <1>5, <1>6
  <1>12. Len(s) = 2 + form + Len(d)
    BY <1>1, <1>2, <1>3, <1>5, <1>6 DEF n
  <1>13. Pack(d) = s /\ form = FormOf(Len(d)) /\ n = Len(d)
    BY <1>4 DEF s, form, n
  <1>14. QED  BY <1>6, <1>7, <1>9, <1>10, <1>11, <1>12, <1>13

-----------------------------------------------------------------------------
(* Runs of bytes, one after the other. *)

(* Ends of runs are positions. *)
LEMMA EndType ==
    ASSUME NEW marks \in Seq(Nat), NEW k \in 0 .. Len(marks)
    PROVE  End(marks, k) \in Nat
  <1>1. k = 0 \/ k \in 1 .. Len(marks)
    BY LenProperties
  <1>2. QED  BY <1>1, ElementOfSeq DEF End

(* One more run at the end. *)
LEMMA JoinedAppend ==
    ASSUME NEW s \in Seq(Byte), NEW marks \in Seq(Nat), NEW parts, NEW more, NEW p \in Seq(Byte),
           Joined(s, marks, parts),
           \A k \in 1 .. Len(marks) : parts[k] \in Seq(Byte) /\ more[k] = parts[k],
           more[Len(marks) + 1] = p
    PROVE  Joined(s \o p, Append(marks, Len(s) + Len(p)), more)
  <1> DEFINE n == Len(marks)
             t == s \o p
             all == Append(marks, Len(s) + Len(p))
  <1>1. n \in Nat /\ Len(s) \in Nat /\ Len(p) \in Nat
    BY LenProperties
  <1>2. /\ t \in Seq(Byte) /\ Len(t) = Len(s) + Len(p)
        /\ \A i \in 1 .. Len(s) : t[i] = s[i]
        /\ \A i \in 1 .. Len(p) : t[Len(s) + i] = p[i]
    BY TwoParts
  <1>3. /\ Len(all) = n + 1 /\ all[n + 1] = Len(s) + Len(p)
        /\ \A k \in 1 .. n : all[k] = marks[k]
    BY <1>1, AppendProperties
  <1> HIDE DEF n, t, all
  <1>4. \A k \in 0 .. n : End(all, k) = End(marks, k) /\ End(marks, k) \in Nat
    <2>1. \A k \in 0 .. n : End(marks, k) \in Nat
      BY EndType DEF n
    <2>2. \A k \in 0 .. n : End(all, k) = End(marks, k)
      BY <1>1, <1>3 DEF End
    <2>3. QED  BY <2>1, <2>2
  <1>5. End(all, n + 1) = Len(t)
    BY <1>1, <1>2, <1>3 DEF End
  <1>6. End(marks, n) = Len(s)
    BY DEF Joined, n
  <1>7. ASSUME NEW k \in 1 .. n + 1
        PROVE  /\ all[k] = End(all, k - 1) + Len(more[k]) /\ all[k] <= Len(t)
               /\ \A i \in 1 .. Len(more[k]) : t[End(all, k - 1) + i] = more[k][i]
    <2>1. CASE k \in 1 .. n
      <3> DEFINE a == End(marks, k - 1)
                 q == parts[k]
      <3>1. /\ marks[k] = a + Len(q) /\ marks[k] <= Len(s)
            /\ \A i \in 1 .. Len(q) : s[a + i] = q[i]
        BY <2>1 DEF Joined, n
      <3>2. more[k] = q /\ q \in Seq(Byte) /\ Len(q) \in Nat
        BY <2>1, LenProperties DEF n
      <3>3. a \in Nat /\ End(all, k - 1) = a
        BY <1>1, <1>4, <2>1
      <3> HIDE DEF a, q
      <3>4. ASSUME NEW i \in 1 .. Len(q) PROVE t[a + i] = q[i]
        <4>1. a + i \in 1 .. Len(s)
          BY <1>1, <3>1, <3>2, <3>3
        <4>2. QED  BY <1>2, <3>1, <4>1
      <3>5. all[k] = marks[k] /\ marks[k] <= Len(t)
        BY <1>1, <1>2, <1>3, <2>1, <3>1, <3>2, <3>3
      <3>6. QED  BY <3>1, <3>2, <3>3, <3>4, <3>5
    <2>2. CASE k = n + 1
      <3>1. more[k] = p /\ k - 1 = n /\ n \in 0 .. n
        BY <1>1, <2>2 DEF n
      <3>2. End(all, k - 1) = Len(s)
        BY <1>4, <1>6, <3>1
      <3>3. all[k] = Len(s) + Len(p)
        BY <1>3, <2>2
      <3>4. all[k] <= Len(t)
        BY <1>1, <1>2, <3>3
      <3>5. \A i \in 1 .. Len(p) : t[End(all, k - 1) + i] = p[i]
        BY <1>2, <3>2
      <3>6. QED  BY <3>1, <3>2, <3>3, <3>4, <3>5
    <2>3. QED  BY <1>1, <2>1, <2>2
  <1>8. Joined(t, all, more)
    BY <1>3, <1>5, <1>7 DEF Joined
  <1>9. QED  BY <1>8 DEF t, all

(* The bytes from a position on, as a sequence. *)
LEMMA SliceIs ==
    ASSUME NEW s \in Seq(Byte), NEW a \in Nat, NEW t \in Seq(Byte), a + Len(t) <= Len(s),
           \A i \in 1 .. Len(t) : s[a + i] = t[i]
    PROVE  SubSeq(s, a + 1, a + Len(t)) = t
  <1> DEFINE m == a + 1
             n == a + Len(t)
             u == SubSeq(s, m, n)
  <1>1. m \in Int /\ n \in Int /\ Len(t) \in Nat /\ Len(s) \in Nat
    BY LenProperties
  <1>2. ASSUME NEW i \in m .. n PROVE s[i] \in Byte
    <2>1. i \in 1 .. Len(s)
      BY <1>1
    <2>2. QED  BY <2>1, ElementOfSeq
  <1>3. m = a + 1 /\ n = a + Len(t)
    OBVIOUS
  <1> HIDE DEF m, n
  <1>4. /\ u \in Seq(Byte) /\ Len(u) = (IF m <= n THEN n - m + 1 ELSE 0)
        /\ \A i \in 1 .. n - m + 1 : u[i] = s[m + i - 1]
    BY <1>1, <1>2, SubSeqProperties
  <1> HIDE DEF u
  <1>5. Len(u) = Len(t)
    BY <1>1, <1>3, <1>4
  <1>6. ASSUME NEW i \in 1 .. Len(u) PROVE u[i] = t[i]
    <2>1. i \in 1 .. n - m + 1 /\ m + i - 1 = a + i /\ i \in 1 .. Len(t)
      BY <1>1, <1>3, <1>5
    <2>2. QED  BY <1>4, <2>1
  <1>7. u = t
    BY <1>4, <1>5, <1>6, SeqEqual
  <1>8. QED  BY <1>7 DEF u, m, n

(* What is packed one after the other can be read one after the other. *)
LEMMA OutIsDecodable ==
    ASSUME TypeInv, OutInv
    PROVE  BroadcastDecodes
  <1>1. /\ out \in Seq(Byte) /\ handled \in Seq(Seq(Byte)) /\ packed \in Seq(Nat)
        /\ Len(out) \in Nat /\ Len(handled) \in Nat /\ Len(packed) = Len(handled)
    BY LenProperties DEF TypeInv, OutInv
  <1>2. End(packed, Len(packed)) = Len(out)
    BY DEF OutInv, Joined
  <1>3. ASSUME NEW k \in 1 .. Len(handled)
        PROVE  LET at == End(packed, k - 1)
                   form == CASE out[at + 2] = Half - 2 -> ShortDigits
                             [] out[at + 2] = Half - 1 -> LongDigits
                             [] OTHER -> 0
                   body == at + 2 + form
                   n == IF form = 0 THEN out[at + 2] ELSE Number(SubSeq(out, at + 3, body))
               IN  /\ out[at + 1] = Half + 1
                   /\ body + n = packed[k]
                   /\ SubSeq(out, body + 1, body + n) = handled[k]
    <2> DEFINE d == handled[k]
               l == Len(d)
               w == FormOf(l)
               p == Pack(d)
               at == End(packed, k - 1)
               form == CASE out[at + 2] = Half - 2 -> ShortDigits
                         [] out[at + 2] = Half - 1 -> LongDigits
                         [] OTHER -> 0
               body == at + 2 + form
               n == IF form = 0 THEN out[at + 2] ELSE Number(SubSeq(out, at + 3, body))
    <2>1. d \in Seq(Byte) /\ l \in Nat /\ l < Word
      BY <1>1, ElementOfSeq, LenProperties DEF OutInv
    <2>2. at \in Nat
      BY <1>1, EndType
    <2>3. /\ packed[k] = at + Len(p) /\ packed[k] <= Len(out)
          /\ \A i \in 1 .. Len(p) : out[at + i] = p[i]
      BY <1>1 DEF OutInv, Joined, Broadcast
    <2>4. w \in {0, ShortDigits, LongDigits} /\ w \in Nat /\ l < Limit(w)
      BY <2>1, FormIs
    <2>5. /\ Len(p) = 2 + w + l /\ p[1] = Half + 1 /\ p[2] = Code(w, l)
          /\ \A i \in 1 .. w : p[2 + i] = Digits(l, w)[i]
          /\ \A i \in 1 .. l : p[2 + w + i] = d[i]
      BY <2>1, PackIs
    <2> HIDE DEF p, w, at
    <2>6. 1 \in 1 .. Len(p) /\ 2 \in 1 .. Len(p)
      BY <2>1, <2>4, <2>5
    <2>7. out[at + 1] = Half + 1 /\ out[at + 2] = Code(w, l)
      BY <2>3, <2>5, <2>6
    <2>8. form = w
      <3>1. Half \in Nat /\ Half >= 4 /\ Half - 2 # Half - 1
        BY Constants
      <3>2. CASE w = 0
        <4>1. out[at + 2] = l /\ l < Half - 2
          BY <2>4, <2>7, <3>2, CodeIs, LimitIs
        <4>2. out[at + 2] # Half - 2 /\ out[at + 2] # Half - 1
          BY <2>1, <3>1, <4>1
        <4>3. QED  BY <3>2, <4>2
      <3>3. CASE w = ShortDigits
        BY <2>7, <3>1, <3>3, CodeIs
      <3>4. CASE w = LongDigits
        BY <2>7, <3>1, <3>4, CodeIs
      <3>5. QED  BY <2>4, <3>2, <3>3, <3>4
    <2> HIDE DEF form
    <2>sizes. /\ l \in Nat /\ w \in Nat /\ at \in Nat /\ Len(out) \in Nat /\ form = w
          /\ Len(p) = 2 + w + l /\ packed[k] = at + Len(p) /\ packed[k] <= Len(out)
      BY <1>1, <2>1, <2>2, <2>3, <2>4, <2>5, <2>8
    <2>9. n = l
      <3>1. CASE w = 0
        <4>1. n = out[at + 2]
          BY <2>8, <3>1
        <4>2. QED  BY <2>7, <3>1, <4>1, CodeIs
      <3>2. CASE w # 0
        <4> DEFINE e == Digits(l, w)
                   a == at + 2
        <4>1. e \in Seq(Byte) /\ Len(e) = w
          BY <2>1, <2>4, DigitsAre
        <4> HIDE DEF e
        <4>2. ASSUME NEW i \in 1 .. Len(e) PROVE out[a + i] = e[i]
          <5> HIDE DEF l
          <5>1. 2 + i \in 1 .. Len(p) /\ a + i = at + (2 + i)
            BY <2>sizes, <4>1
          <5>2. QED  BY <2>3, <2>5, <4>1, <5>1 DEF e
        <4>3. a \in Nat /\ a + Len(e) <= Len(out) /\ a + 1 = at + 3 /\ a + Len(e) = body
          <5>1. body = at + 2 + w
            BY <2>8
          <5> HIDE DEF body, l
          <5>2. QED  BY <2>sizes, <4>1, <5>1
        <4> HIDE DEF a, body
        <4>4. SubSeq(out, a + 1, a + Len(e)) = e
          BY <1>1, <4>1, <4>2, <4>3, SliceIs
        <4>5. n = Number(e)
          BY <2>8, <3>2, <4>3, <4>4
        <4>6. Number(e) = l
          <5>1. w = ShortDigits \/ w = LongDigits
            BY <2>4, <3>2
          <5>2. QED  BY <2>1, <2>4, <5>1, ShortNumber, LongNumber, LimitIs DEF e
        <4>7. QED  BY <4>5, <4>6
      <3>3. QED  BY <3>1, <3>2
    <2>10. body \in Nat /\ body + l = packed[k]
      <3>1. body = at + 2 + w
        BY <2>8
      <3> HIDE DEF body, l
      <3>2. QED  BY <2>sizes, <3>1
    <2>11. ASSUME NEW i \in 1 .. l PROVE out[body + i] = d[i]
      <3>1. 2 + w + i \in 1 .. Len(p) /\ body + i = at + (2 + w + i)
        BY <2>sizes
      <3>2. QED  BY <2>3, <2>5, <3>1
    <2> HIDE DEF n, body, d
    <2>12. SubSeq(out, body + 1, body + l) = d
      BY <1>1, <2>1, <2>3, <2>10, <2>11, SliceIs
    <2>13. /\ out[at + 1] = Half + 1 /\ body + n = packed[k]
           /\ SubSeq(out, body + 1, body + n) = d
      BY <2>7, <2>9, <2>10, <2>12
    <2>14. QED  BY <2>13 DEF n, body, form, at, d
  <1>4. QED  BY <1>1, <1>2, <1>3, Zenon DEF BroadcastDecodes

-----------------------------------------------------------------------------
(* One iteration of process_connection's loop: it is at the first byte of  *)
(* the first frame that has not been handled.                              *)
Parsing == TypeInv /\ StreamInv /\ ParseInv /\ pc = "loop" /\ index < all_data_len

(* Lengths are natural numbers. *)
LEMMA SizesAre ==
    ASSUME TypeInv
    PROVE  /\ Len(frames) \in Nat /\ Len(stream) \in Nat /\ Len(ends) \in Nat
           /\ Len(out) \in Nat /\ Len(handled) \in Nat /\ Len(packed) \in Nat
  BY LenProperties DEF TypeInv

(* While the loop runs, its index is where a frame begins, whose bytes follow. *)
LEMMA CurrentIs ==
    ASSUME Parsing
    PROVE  /\ Len(handled) < Len(frames) /\ Current \in Frames
           /\ rd = End(ends, Len(handled)) /\ base + index = rd /\ base + all_data_len = arrived
           /\ all_data_len <= RecvMax /\ arrived <= Len(stream)
           /\ ends[Len(handled) + 1] = rd + Len(Bytes(Current))
           /\ ends[Len(handled) + 1] <= Len(stream)
           /\ \A i \in 1 .. Len(Bytes(Current)) : stream[rd + i] = Bytes(Current)[i]
           /\ Current.claim # Len(Current.payload) => ends[Len(handled) + 1] = Len(stream)
  <1> DEFINE k == Len(handled)
  <1>1. /\ k \in Nat /\ Len(frames) \in Nat /\ Len(ends) = Len(frames)
        /\ Len(stream) \in Nat /\ arrived \in Nat /\ rd \in Nat /\ base \in Nat /\ index \in Nat
        /\ all_data_len \in Nat /\ frames \in Seq(Frames)
    BY SizesAre DEF Parsing, TypeInv, StreamInv
  <1>2. /\ rd = End(ends, k) /\ base + index = rd /\ base + all_data_len = arrived
        /\ all_data_len <= RecvMax /\ arrived <= Len(stream) /\ k <= Len(frames)
        /\ index < all_data_len
    BY DEF Parsing, ParseInv
  <1>3. End(ends, Len(ends)) = Len(stream)
    BY DEF Parsing, StreamInv, Joined
  <1> HIDE DEF k
  <1>4. rd < Len(stream)
    BY <1>1, <1>2
  <1>5. k < Len(frames)
    BY <1>1, <1>2, <1>3, <1>4
  <1>6. k + 1 \in 1 .. Len(frames) /\ (k + 1) - 1 = k
    BY <1>1, <1>5
  <1>7. frames[k + 1] \in Frames
    BY <1>1, <1>6, ElementOfSeq
  <1>8. Sent[k + 1] = Bytes(frames[k + 1])
    BY <1>6 DEF Sent
  <1>9. /\ ends[k + 1] = End(ends, (k + 1) - 1) + Len(Sent[k + 1]) /\ ends[k + 1] <= Len(stream)
        /\ \A i \in 1 .. Len(Sent[k + 1]) : stream[End(ends, (k + 1) - 1) + i] = Sent[k + 1][i]
    BY <1>1, <1>6 DEF Parsing, StreamInv, Joined
  <1>10. ASSUME frames[k + 1].claim # Len(frames[k + 1].payload) PROVE ends[k + 1] = Len(stream)
    <2>1. ~ (k + 1 \in 1 .. Len(frames) - 1)
      BY <1>10 DEF Parsing, StreamInv
    <2>2. k + 1 = Len(ends)
      BY <1>1, <1>6, <2>1
    <2>3. QED  BY <1>1, <1>3, <2>2 DEF End
  <1>11. Current = frames[k + 1]
    BY DEF Current, k
  <1>12. QED  BY <1>2, <1>5, <1>6, <1>7, <1>8, <1>9, <1>10, <1>11 DEF k

(* What process_connection reads is a byte, arrived or not. *)
LEMMA AtType ==
    ASSUME Parsing, NEW j \in Nat
    PROVE  At(j) \in Byte /\ At(j) \in Nat
  <1>1. /\ stream \in Seq(Byte) /\ Len(stream) \in Nat /\ base \in Nat /\ arrived \in Nat
        /\ arrived <= Len(stream)
    BY SizesAre DEF Parsing, TypeInv, ParseInv
  <1>2. 0 \in Byte /\ Byte \subseteq Nat
    BY Constants DEF Byte
  <1>3. CASE base + j < arrived
    <2>1. base + j + 1 \in 1 .. Len(stream)
      BY <1>1, <1>3
    <2>2. stream[base + j + 1] \in Byte
      BY <1>1, <2>1, ElementOfSeq
    <2>3. QED  BY <1>2, <1>3, <2>2 DEF At
  <1>4. CASE ~ (base + j < arrived)
    BY <1>2, <1>4 DEF At
  <1>5. QED  BY <1>3, <1>4

(* data holds the current frame. *)
LEMMA AtIs ==
    ASSUME Parsing, NEW j \in Nat, j < Len(Bytes(Current)), index + j < all_data_len
    PROVE  At(index + j) = Bytes(Current)[j + 1]
  <1>1. /\ base + index = rd /\ base + all_data_len = arrived
        /\ \A i \in 1 .. Len(Bytes(Current)) : stream[rd + i] = Bytes(Current)[i]
        /\ Current \in Frames
    BY CurrentIs
  <1>2. Len(Bytes(Current)) \in Nat
    BY <1>1, BytesAre, LenProperties
  <1>3. base \in Nat /\ index \in Nat /\ all_data_len \in Nat /\ rd \in Nat
    BY DEF Parsing, TypeInv
  <1>4. j + 1 \in 1 .. Len(Bytes(Current)) /\ base + (index + j) < arrived
        /\ base + (index + j) + 1 = rd + (j + 1)
    BY <1>1, <1>2, <1>3
  <1>5. At(index + j) = stream[base + (index + j) + 1]
    BY <1>4 DEF At
  <1>6. QED  BY <1>1, <1>4, <1>5

(* Text and binary are the types that are handled. *)
LEMMA SupportedTypes ==
    \A n \in Nat : n < 16 =>
        (n_2_websocket_frame_type(n) \in {"TEXT_FRAME", "BINARY_FRAME"} <=> n \in {1, 2})
  <1>1. ASSUME NEW n \in Nat, n < 16
        PROVE  n_2_websocket_frame_type(n) \in {"TEXT_FRAME", "BINARY_FRAME"} <=> n \in {1, 2}
    <2>1. CASE n = 1
      BY <2>1 DEF n_2_websocket_frame_type
    <2>2. CASE n = 2
      BY <2>2 DEF n_2_websocket_frame_type
    <2>3. CASE n = 0
      BY <2>3 DEF n_2_websocket_frame_type
    <2>4. CASE n \in 3 .. 7
      BY <2>4 DEF n_2_websocket_frame_type
    <2>5. CASE n \in 11 .. 15
      BY <2>5 DEF n_2_websocket_frame_type
    <2>6. CASE n = 8
      BY <2>6 DEF n_2_websocket_frame_type
    <2>7. CASE n = 9
      BY <2>7 DEF n_2_websocket_frame_type
    <2>8. CASE n = 10
      BY <2>8 DEF n_2_websocket_frame_type
    <2>9. QED  BY <1>1, <2>1, <2>2, <2>3, <2>4, <2>5, <2>6, <2>7, <2>8
  <1>2. QED  BY <1>1

(* The opcode read is the one sent. *)
LEMMA OpcodeIs ==
    ASSUME Parsing
    PROVE  Opcode = Current.op /\ (Supported <=> Current.op \in {1, 2})
  <1> DEFINE f == Current
  <1>1. f \in Frames
    BY CurrentIs
  <1>2. f.op \in Nat /\ f.op < NOp /\ Len(f.payload) \in Nat /\ HeadLen(f) \in Nat /\ HeadLen(f) >= 2
    BY <1>1, FrameIs
  <1>3. Len(Bytes(f)) = HeadLen(f) + Len(f.payload) /\ Bytes(f)[1] = Half + f.op
    BY <1>1, BytesAre
  <1>4. index \in Nat /\ all_data_len \in Nat /\ index < all_data_len
    BY DEF Parsing, TypeInv
  <1>5. 0 \in Nat /\ 0 < Len(Bytes(f)) /\ index + 0 < all_data_len /\ 0 + 1 = 1 /\ index + 0 = index
    BY <1>2, <1>3, <1>4
  <1>6. At(index + 0) = Bytes(f)[0 + 1]
    BY <1>5, AtIs
  <1>7. At(index) = Half + f.op
    BY <1>3, <1>5, <1>6
  <1>8. f.op \in 0 .. NOp - 1 /\ f.op < 16
    BY <1>2, Constants
  <1>9. Opcode = f.op
    BY <1>7, <1>8, Opcodes DEF Opcode
  <1>10. QED  BY <1>2, <1>8, <1>9, SupportedTypes DEF Supported

(* The mask bit and the code of a second byte come apart. *)
LEMMA HalfMod == \A c \in Nat : c < Half => c % Half = c /\ (Half + c) % Half = c
  BY Constants

(* Once it has arrived, the second byte read is the one sent. *)
LEMMA HeaderIs ==
    ASSUME Parsing, index + 1 < all_data_len
    PROVE  /\ Mask <=> Current.mask
           /\ Extended = Current.form /\ Length7 = Code(Current.form, Current.claim)
  <1> DEFINE f == Current
             c == Code(f.form, f.claim)
             v == (IF f.mask THEN Half ELSE 0) + c
  <1>1. f \in Frames
    BY CurrentIs
  <1>2. /\ f.mask \in BOOLEAN /\ f.form \in {0, ShortDigits, LongDigits}
        /\ f.claim \in Nat /\ f.claim < Limit(f.form)
        /\ Len(f.payload) \in Nat /\ HeadLen(f) \in Nat /\ HeadLen(f) >= 2
    BY <1>1, FrameIs
  <1>3. Len(Bytes(f)) = HeadLen(f) + Len(f.payload) /\ Bytes(f)[2] = v
    BY <1>1, BytesAre
  <1>4. c \in Nat /\ c < Half
    BY <1>2, CodeType
  <1>5. 1 \in Nat /\ 1 < Len(Bytes(f)) /\ 1 + 1 = 2
    BY <1>2, <1>3
  <1>6. At(index + 1) = Bytes(f)[1 + 1]
    BY <1>5, AtIs
  <1>7. At(index + 1) = v
    BY <1>3, <1>5, <1>6
  <1> HIDE DEF c
  <1>8. (Mask <=> f.mask) /\ Length7 = c
    <2>1. CASE f.mask
      <3>1. v = Half + c
        BY <2>1
      <3>2. QED  BY <1>4, <1>7, <2>1, <3>1, HalfMod, Constants DEF Mask, Length7
    <2>2. CASE ~ f.mask
      <3>1. v = c
        BY <1>4, <2>2
      <3>2. QED  BY <1>4, <1>7, <2>2, <3>1, HalfMod, Constants DEF Mask, Length7
    <2>3. QED  BY <2>1, <2>2
  <1>9. Extended = f.form
    <2>1. Half \in Nat /\ Half >= 4 /\ Half - 2 # Half - 1
      BY Constants
    <2>2. CASE f.form = 0
      <3>1. c = f.claim /\ f.claim < Half - 2
        BY <1>2, <2>2, CodeIs, LimitIs DEF c
      <3>2. Length7 # Half - 2 /\ Length7 # Half - 1
        BY <1>2, <1>8, <2>1, <3>1
      <3>3. QED  BY <2>2, <3>2 DEF Extended
    <2>3. CASE f.form = ShortDigits
      <3>1. Length7 = Half - 2
        BY <1>8, <2>3, CodeIs DEF c
      <3>2. QED  BY <2>1, <2>3, <3>1 DEF Extended
    <2>4. CASE f.form = LongDigits
      <3>1. Length7 = Half - 1
        BY <1>8, <2>4, CodeIs DEF c
      <3>2. QED  BY <2>1, <2>4, <3>1 DEF Extended
    <2>5. QED  BY <1>2, <2>2, <2>3, <2>4
  <1>10. QED  BY <1>8, <1>9 DEF c

(* Once they have arrived, the length and the positions read are those sent. *)
LEMMA LengthIs ==
    ASSUME Parsing, LengthArrived
    PROVE  /\ index + 1 < all_data_len
           /\ Mask <=> Current.mask
           /\ Extended = Current.form
           /\ payload_length = Current.claim
           /\ KeyAt = index + 2 + Current.form /\ BodyAt = index + HeadLen(Current)
  <1> DEFINE f == Current
             e == Digits(f.claim, f.form)
             d == Data(index + 2, f.form)
  <1>1. index \in Nat /\ all_data_len \in Nat /\ index + 2 < all_data_len /\ index + 1 < all_data_len
    BY DEF Parsing, TypeInv, LengthArrived, HeaderArrived
  <1>2. (Mask <=> f.mask) /\ Extended = f.form /\ Length7 = Code(f.form, f.claim)
    BY <1>1, HeaderIs
  <1>3. f \in Frames
    BY CurrentIs
  <1>4. /\ f.form \in {0, ShortDigits, LongDigits} /\ f.form \in Nat
        /\ f.claim \in Nat /\ f.claim < Limit(f.form) /\ Len(f.payload) \in Nat
        /\ HeadLen(f) \in Nat /\ HeadLen(f) >= 2 + f.form
    <2>1. f.form \in Nat /\ HeadLen(f) \in Nat
      BY <1>3, FrameIs
    <2>2. HeadLen(f) >= 2 + f.form
      BY <2>1 DEF HeadLen, KeyLen
    <2>3. QED  BY <1>3, <2>1, <2>2, FrameIs
  <1>5. KeyAt = index + 2 + f.form
    BY <1>2 DEF KeyAt
  <1>6. BodyAt = index + HeadLen(f)
    <2>1. CASE f.mask
      <3>1. BodyAt = KeyAt + KeyLen /\ HeadLen(f) = 2 + f.form + KeyLen /\ KeyLen \in Nat
        BY <1>2, <2>1 DEF BodyAt, HeadLen, KeyLen
      <3>2. QED  BY SMTT(30), <1>1, <1>4, <1>5, <3>1
    <2>2. CASE ~ f.mask
      BY <1>1, <1>2, <1>4, <1>5, <2>2 DEF BodyAt, HeadLen
    <2>3. QED  BY <2>1, <2>2
  <1>7. payload_length = f.claim
    <2>1. CASE f.form = 0
      <3>1. payload_length = Length7
        BY <1>2, <2>1 DEF payload_length
      <3>2. QED  BY <1>2, <2>1, <3>1, CodeIs
    <2>2. CASE f.form # 0
      <3>1. index + 2 + f.form < all_data_len
        BY <1>2, <1>4, <1>5, <2>2 DEF LengthArrived
      <3>2. /\ Len(Bytes(f)) = HeadLen(f) + Len(f.payload)
            /\ \A i \in 1 .. f.form : Bytes(f)[2 + i] = e[i]
        BY <1>3, BytesAre
      <3>3. ASSUME NEW i \in 1 .. f.form PROVE At((index + 2) + i - 1) = e[i]
        <4>1. /\ 1 + i \in Nat /\ 1 + i < Len(Bytes(f)) /\ index + (1 + i) < all_data_len
              /\ (1 + i) + 1 = 2 + i /\ (index + 2) + i - 1 = index + (1 + i)
          <5>1. /\ f.form \in Nat /\ HeadLen(f) \in Nat /\ HeadLen(f) >= 2 + f.form
                /\ Len(f.payload) \in Nat /\ Len(Bytes(f)) = HeadLen(f) + Len(f.payload)
            BY <1>4, <3>2
          <5> HIDE DEF f
          <5>2. i \in Nat /\ i >= 1 /\ i <= f.form
            BY <5>1
          <5>3. 1 + i < Len(Bytes(f)) /\ index + (1 + i) < all_data_len
            BY SMTT(30), <1>1, <3>1, <5>1, <5>2
          <5>4. QED  BY <1>1, <5>2, <5>3
        <4>2. At(index + (1 + i)) = Bytes(f)[(1 + i) + 1]
          BY <4>1, AtIs
        <4>3. QED  BY <3>2, <4>1, <4>2
      <3>4. e \in [1 .. f.form -> Byte]
        <4>1. e \in Seq(Byte) /\ Len(e) = f.form
          BY <1>4, DigitsAre
        <4> HIDE DEF e
        <4>2. QED  BY <4>1, LenProperties
      <3>5. d = [i \in 1 .. f.form |-> At((index + 2) + i - 1)]
        BY DEF Data
      <3>6. d = e
        <4> HIDE DEF e, d
        <4>1. QED  BY <3>3, <3>4, <3>5
      <3>7. payload_length = Number(e)
        BY <1>2, <2>2, <3>6 DEF payload_length
      <3>8. f.form = ShortDigits \/ f.form = LongDigits
        BY <1>4, <2>2
      <3>9. QED  BY <1>4, <3>7, <3>8, ShortNumber, LongNumber, LimitIs
    <2>3. QED  BY <2>1, <2>2
  <1>8. QED  BY <1>1, <1>2, <1>5, <1>6, <1>7

(* A sum below Word does not wrap. *)
LEMMA SmallMod == ASSUME NEW x \in Nat, NEW m \in Nat, x < m PROVE x % m = x
  OBVIOUS

(* Word is the sum of two halves. *)
LEMMA HalfWord == Word \div 2 \in Nat /\ (Word \div 2) + (Word \div 2) <= Word /\ Word \in Nat
  <1>1. Word \in Nat
    BY PowersAre
  <1>2. QED  BY <1>1

(* Where a length that a string can have does not make the sum wrap. *)
LEMMA NoWrap ==
    ASSUME Parsing, KeyArrived, payload_length <= MaxSize
    PROVE  PayloadArrived <=> BodyAt + payload_length <= all_data_len
  <1>1. /\ LengthArrived /\ BodyAt < all_data_len
    BY DEF KeyArrived, NotEmpty
  <1>2. Current \in Frames /\ all_data_len <= RecvMax
    BY CurrentIs
  <1>3. BodyAt = index + HeadLen(Current) /\ payload_length = Current.claim
    BY <1>1, LengthIs
  <1>4. HeadLen(Current) \in Nat /\ HeadLen(Current) >= 2 /\ Current.claim \in Nat
    BY <1>2, FrameIs
  <1>5. index \in Nat /\ all_data_len \in Nat
    BY DEF Parsing, TypeInv
  <1>6. payload_length <= (Word \div 2) - 1 /\ RecvMax \in Nat /\ RecvMax <= Word \div 2
    BY RecvAssumption DEF MaxSize, RecvMax
  <1> DEFINE x == BodyAt - 1 + payload_length
             w == Word \div 2
  <1> HIDE DEF w
  <1>7. w \in Nat /\ w + w <= Word /\ Word \in Nat /\ payload_length <= w - 1 /\ RecvMax <= w
    BY <1>6, HalfWord DEF w
  <1>8. x \in Nat /\ x < Word
    BY <1>1, <1>2, <1>3, <1>4, <1>5, <1>6, <1>7
  <1> HIDE DEF x
  <1>9. x % Word = x
    BY <1>7, <1>8, SmallMod
  <1>10. PayloadArrived <=> x % Word < all_data_len
    BY DEF PayloadArrived, x
  <1>11. x < all_data_len <=> BodyAt + payload_length <= all_data_len
    BY <1>3, <1>4, <1>5 DEF x
  <1>12. QED  BY <1>9, <1>10, <1>11

(* No iteration looks past what has arrived. *)
LEMMA ReachIs ==
    ASSUME Parsing
    PROVE  Reach \in Nat /\ Reach <= all_data_len
  <1>1. index \in Nat /\ all_data_len \in Nat /\ index < all_data_len
    BY DEF Parsing, TypeInv
  <1>2. CASE ~ Supported \/ index + 1 >= all_data_len
    BY <1>1, <1>2 DEF Reach
  <1>3. CASE Supported /\ index + 1 < all_data_len /\ ~ LengthArrived
    <2>1. Reach = index + 2
      BY <1>1, <1>3 DEF Reach
    <2>2. QED  BY <1>1, <1>3, <2>1
  <1>4. CASE Supported /\ index + 1 < all_data_len /\ LengthArrived
    <2> DEFINE f == Current
    <2>1. f \in Frames
      BY CurrentIs
    <2>2. f.form \in Nat /\ HeadLen(f) \in Nat /\ f.claim \in Nat
      BY <2>1, FrameIs
    <2>3. /\ Extended = f.form /\ payload_length = f.claim
          /\ KeyAt = index + 2 + f.form /\ BodyAt = index + HeadLen(f)
      BY <1>4, LengthIs
    <2> HIDE DEF f
    <2>4. KeyAt \in Nat /\ BodyAt \in Nat /\ payload_length \in Nat
      BY <1>1, <2>2, <2>3
    <2>5. KeyAt < all_data_len
      <3>1. CASE f.form = 0
        <4>1. index + 2 < all_data_len
          BY <1>4 DEF LengthArrived, HeaderArrived
        <4>2. QED  BY <1>1, <2>3, <3>1, <4>1
      <3>2. CASE f.form # 0
        BY <1>4, <2>2, <2>3, <3>2 DEF LengthArrived
      <3>3. QED  BY <3>1, <3>2
    <2>6. ~ (index + 1 >= all_data_len)
      BY <1>1, <1>4
    <2>7. CASE ~ KeyArrived
      <3>1. Reach = KeyAt
        BY <1>4, <2>6, <2>7 DEF Reach
      <3>2. QED  BY <1>1, <2>4, <2>5, <3>1
    <2>8. CASE KeyArrived
      <3>1. BodyAt < all_data_len
        BY <2>8 DEF KeyArrived
      <3>2. CASE ~ PayloadArrived \/ payload_length > MaxSize
        <4>1. Reach = BodyAt
          BY <1>4, <2>6, <2>8, <3>2 DEF Reach
        <4>2. QED  BY <1>1, <2>4, <3>1, <4>1
      <3>3. CASE ~ (~ PayloadArrived \/ payload_length > MaxSize)
        <4>1. Reach = BodyAt + payload_length
          BY <1>4, <2>6, <2>8, <3>3 DEF Reach
        <4>2. MaxSize \in Int
          BY HalfWord DEF MaxSize
        <4>3. payload_length <= MaxSize
          BY <2>4, <3>3, <4>2
        <4>4. BodyAt + payload_length <= all_data_len
          BY <2>8, <3>3, <4>3, NoWrap
        <4>5. QED  BY <1>1, <2>4, <4>1, <4>4
      <3>4. QED  BY <3>2, <3>3
    <2>9. QED  BY <2>7, <2>8
  <1>5. index + 1 \in Int
    BY <1>1
  <1>6. QED  BY <1>1, <1>2, <1>3, <1>4, <1>5

(* What Leave needs: a frame that the server can take and that has arrived *)
(* is seen to have arrived.                                                *)
LEMMA ArrivedIsSeen ==
    ASSUME Parsing, Acceptable(Current), arrived >= ends[Len(handled) + 1]
    PROVE  PayloadArrived
  <1> DEFINE f == Current
  <1>1. /\ f \in Frames /\ base + index = rd /\ base + all_data_len = arrived
        /\ ends[Len(handled) + 1] = rd + Len(Bytes(f))
    BY CurrentIs
  <1>2. f.claim = Len(f.payload) /\ f.payload # <<>> /\ f.claim <= MaxSize
    BY DEF Acceptable
  <1>3. /\ f.form \in Nat /\ HeadLen(f) \in Nat /\ HeadLen(f) >= 2
        /\ f.claim \in Nat /\ f.payload \in Seq(Byte) /\ f.form \in {0, ShortDigits, LongDigits}
    BY <1>1, FrameIs
  <1>4. Len(Bytes(f)) = HeadLen(f) + f.claim
    BY <1>1, <1>2, BytesAre
  <1>5. f.claim > 0
    BY <1>2, <1>3, EmptySeq
  <1>6. HeadLen(f) >= 2 + f.form
    BY <1>3 DEF HeadLen, KeyLen
  <1>7. index \in Nat /\ all_data_len \in Nat /\ base \in Nat /\ rd \in Nat /\ arrived \in Nat
    BY DEF Parsing, TypeInv
  <1> HIDE DEF f
  <1>8. index + HeadLen(f) + f.claim <= all_data_len
    BY SMTT(30), <1>1, <1>3, <1>4, <1>7
  <1>9. HeaderArrived /\ index + 1 < all_data_len /\ index + 2 + f.form < all_data_len
    BY <1>3, <1>5, <1>6, <1>7, <1>8 DEF HeaderArrived
  <1>10. LengthArrived
    <2>1. Extended = f.form
      BY <1>9, HeaderIs DEF f
    <2>2. KeyAt < all_data_len
      BY <1>9, <2>1 DEF KeyAt
    <2>3. QED  BY <1>9, <2>2 DEF LengthArrived
  <1>11. payload_length = f.claim /\ BodyAt = index + HeadLen(f)
    BY <1>10, LengthIs DEF f
  <1>12. KeyArrived
    <2>1. payload_length # 0
      BY <1>3, <1>5, <1>11
    <2>2. BodyAt < all_data_len
      BY <1>3, <1>5, <1>7, <1>8, <1>11
    <2>3. QED  BY <1>10, <2>1, <2>2 DEF KeyArrived, NotEmpty
  <1>13. payload_length <= MaxSize /\ BodyAt + payload_length <= all_data_len
    BY <1>2, <1>3, <1>7, <1>8, <1>11
  <1>14. QED  BY <1>12, <1>13, NoWrap

(* The payload that Frame gives to process_frame. *)
Unmasked ==
    IF Mask THEN Masked(Data(BodyAt, payload_length), Data(KeyAt, KeyLen))
    ELSE Data(BodyAt, payload_length)

(* What Frame needs: the frame that was seen to arrive is the one the      *)
(* client sent, all of it, and no byte of the next.                        *)
LEMMA FrameIsWhole ==
    ASSUME Parsing, Supported, PayloadArrived, payload_length <= MaxSize
    PROVE  /\ Acceptable(Current) /\ payload_length = Len(Current.payload)
           /\ payload_length \in Nat /\ BodyAt \in Nat /\ BodyAt >= index
           /\ ends[Len(handled) + 1] = base + BodyAt + payload_length
           /\ BodyAt + payload_length <= all_data_len
           /\ Unmasked = Current.payload
  <1> DEFINE f == Current
             n == Len(f.payload)
             h == HeadLen(f)
  <1>1. KeyArrived /\ LengthArrived /\ payload_length # 0
    BY DEF PayloadArrived, KeyArrived, NotEmpty
  <1>2. /\ f \in Frames /\ base + index = rd /\ base + all_data_len = arrived /\ arrived <= Len(stream)
        /\ ends[Len(handled) + 1] = rd + Len(Bytes(f))
        /\ f.claim # Len(f.payload) => ends[Len(handled) + 1] = Len(stream)
    BY CurrentIs
  <1>3. /\ f.form \in Nat /\ h \in Nat /\ h >= 2 /\ f.mask \in BOOLEAN
        /\ f.key \in [1 .. KeyLen -> Byte] /\ f.payload \in Seq(Byte) /\ n \in Nat
        /\ f.claim \in Nat /\ n <= f.claim
    BY <1>2, FrameIs
  <1>4. /\ Mask <=> f.mask
        /\ payload_length = f.claim /\ KeyAt = index + 2 + f.form /\ BodyAt = index + h
    BY <1>1, LengthIs
  <1>5. BodyAt + payload_length <= all_data_len
    BY <1>1, NoWrap
  <1>6. /\ Len(Bytes(f)) = h + n
        /\ f.mask => \A i \in 1 .. KeyLen : Bytes(f)[2 + f.form + i] = f.key[i]
        /\ \A i \in 1 .. n : Bytes(f)[h + i] = IF f.mask THEN Masked(f.payload, f.key)[i] ELSE f.payload[i]
    BY <1>2, BytesAre
  <1>7. /\ index \in Nat /\ all_data_len \in Nat /\ base \in Nat /\ rd \in Nat /\ arrived \in Nat
        /\ Len(stream) \in Nat
    BY SizesAre DEF Parsing, TypeInv
  <1>8. f.mask => h = 2 + f.form + KeyLen
    BY DEF HeadLen
  <1> DEFINE e == ends[Len(handled) + 1]
             l == Len(Bytes(f))
  <1>9. l = h + n /\ e = rd + l /\ (f.claim # n => e = Len(stream))
    BY <1>2, <1>6
  <1> HIDE DEF f, n, h, e, l
  <1>10. f.claim = n
    <2> SUFFICES ASSUME f.claim # n PROVE FALSE
      OBVIOUS
    <2>1. n < f.claim /\ e = Len(stream)
      BY <1>3, <1>9
    <2>2. index + h + f.claim <= all_data_len
      BY <1>4, <1>5
    <2>3. QED  BY <1>2, <1>3, <1>7, <1>9, <2>1, <2>2
  <1>11. f.payload # <<>>
    <2>1. n # 0
      BY <1>1, <1>4, <1>10
    <2>2. QED  BY <2>1, EmptySeq DEF n
  <1>12. Acceptable(f)
    <2>1. f.op \in {1, 2}
      BY OpcodeIs DEF f
    <2>2. QED  BY <1>4, <1>10, <1>11, <2>1 DEF Acceptable, n
  <1>13. e = base + BodyAt + payload_length
    BY <1>2, <1>3, <1>4, <1>7, <1>9, <1>10
  <1> DEFINE m == Masked(f.payload, f.key)
             raw == Data(BodyAt, payload_length)
  <1>14. raw = [i \in 1 .. n |-> At(BodyAt + i - 1)]
    BY <1>4, <1>10 DEF Data
  <1>15. ASSUME NEW i \in 1 .. n PROVE At(BodyAt + i - 1) = IF f.mask THEN m[i] ELSE f.payload[i]
    <2>1. /\ h + i - 1 \in Nat /\ h + i - 1 < l /\ index + (h + i - 1) < all_data_len
          /\ (h + i - 1) + 1 = h + i /\ BodyAt + i - 1 = index + (h + i - 1)
      BY <1>3, <1>4, <1>5, <1>7, <1>9, <1>10
    <2>2. At(index + (h + i - 1)) = Bytes(f)[(h + i - 1) + 1]
      BY <2>1, AtIs DEF f, l
    <2>3. Bytes(f)[h + i] = IF f.mask THEN m[i] ELSE f.payload[i]
      BY <1>6
    <2>4. QED  BY <2>1, <2>2, <2>3
  <1>16. f.payload \in [1 .. n -> Byte]
    BY <1>3, LenProperties DEF n
  <1>17. m \in [1 .. n -> Byte] /\ Masked(m, f.key) = f.payload
    <2>1. m \in Seq(Byte) /\ Len(m) = n /\ Masked(m, f.key) = f.payload
      BY <1>3, MaskIs DEF n
    <2> HIDE DEF m
    <2>2. QED  BY <2>1, LenProperties
  <1> HIDE DEF m, raw
  <1>18. Unmasked = IF Mask THEN Masked(raw, Data(KeyAt, KeyLen)) ELSE raw
    BY DEF Unmasked, raw
  <1>19. Unmasked = f.payload
    <2>1. CASE f.mask
      <3>1. raw = m
        BY <1>14, <1>15, <1>17, <2>1
      <3>2. ASSUME NEW i \in 1 .. KeyLen PROVE At(KeyAt + i - 1) = f.key[i]
        <4>1. KeyLen \in Nat
          BY DEF KeyLen
        <4>2. h = 2 + f.form + KeyLen
          BY <1>8, <2>1
        <4> DEFINE j == 1 + f.form + i
        <4>3. /\ j \in Nat /\ j < l /\ index + j < all_data_len
              /\ j + 1 = 2 + f.form + i /\ KeyAt + i - 1 = index + j
          <5>1. i \in Nat /\ i >= 1 /\ i <= KeyLen
            BY <4>1
          <5>2. f.form \in Nat /\ h \in Nat /\ index \in Nat /\ KeyLen \in Nat /\ KeyAt = index + 2 + f.form
            BY <1>3, <1>4, <1>7, <4>1
          <5>3. j \in Nat /\ j < h /\ j + 1 = 2 + f.form + i
            BY <5>1, <5>2, <4>2
          <5>4. KeyAt + i - 1 = index + j
            BY <5>1, <5>2
          <5> HIDE DEF j
          <5>5. j < l /\ index + j < all_data_len
            BY <1>3, <1>4, <1>5, <1>7, <1>9, <1>10, <5>3
          <5>6. QED  BY <5>3, <5>4, <5>5
        <4> HIDE DEF j
        <4>4. At(index + j) = Bytes(f)[j + 1]
          BY <4>3, AtIs DEF f, l
        <4>5. QED  BY <1>6, <2>1, <4>3, <4>4
      <3>3. Data(KeyAt, KeyLen) = [i \in 1 .. KeyLen |-> At(KeyAt + i - 1)]
        BY DEF Data
      <3>4. Data(KeyAt, KeyLen) = f.key
        BY <1>3, <3>2, <3>3
      <3>5. QED  BY <1>4, <1>17, <1>18, <2>1, <3>1, <3>4
    <2>2. CASE ~ f.mask
      <3>1. raw = f.payload
        BY <1>14, <1>15, <1>16, <2>2
      <3>2. QED  BY <1>4, <1>18, <2>2, <3>1
    <2>3. QED  BY <2>1, <2>2
  <1>20. payload_length = n /\ payload_length \in Nat /\ BodyAt \in Nat /\ BodyAt >= index
    BY <1>3, <1>4, <1>7, <1>10
  <1>21. QED  BY <1>5, <1>12, <1>13, <1>19, <1>20 DEF f, n, e

(* What TooLong needs: the frame whose sum wrapped is one the server       *)
(* cannot take, and it is not empty.                                       *)
LEMMA TooLongIsRefused ==
    ASSUME Parsing, PayloadArrived, payload_length > MaxSize
    PROVE  ~ Acceptable(Current) /\ Current.payload # <<>>
  <1> DEFINE f == Current
             n == Len(f.payload)
             h == HeadLen(f)
             e == ends[Len(handled) + 1]
  <1>1. KeyArrived /\ LengthArrived /\ payload_length # 0 /\ BodyAt < all_data_len
    BY DEF PayloadArrived, KeyArrived, NotEmpty
  <1>2. /\ f \in Frames /\ base + index = rd /\ base + all_data_len = arrived /\ arrived <= Len(stream)
        /\ e = rd + Len(Bytes(f)) /\ (f.claim # n => e = Len(stream))
    BY CurrentIs
  <1>3. h \in Nat /\ f.payload \in Seq(Byte) /\ n \in Nat /\ f.claim \in Nat
    BY <1>2, FrameIs
  <1>4. payload_length = f.claim /\ BodyAt = index + h
    BY <1>1, LengthIs
  <1>5. Len(Bytes(f)) = h + n
    BY <1>2, BytesAre
  <1>6. /\ index \in Nat /\ all_data_len \in Nat /\ base \in Nat /\ rd \in Nat /\ arrived \in Nat
        /\ Len(stream) \in Nat /\ MaxSize \in Int
    BY SizesAre, HalfWord DEF Parsing, TypeInv, MaxSize
  <1>7. ~ Acceptable(f)
    BY <1>3, <1>4, <1>6 DEF Acceptable
  <1>8. f.payload # <<>>
    <2> SUFFICES ASSUME f.payload = <<>> PROVE FALSE
      OBVIOUS
    <2>1. n = 0
      BY EmptySeq
    <2> HIDE DEF f, n, h, e
    <2>2. e = Len(stream)
      BY <1>1, <1>2, <1>3, <1>4, <2>1
    <2>3. e = rd + h
      BY <1>2, <1>3, <1>5, <1>6, <2>1
    <2>4. QED  BY <1>1, <1>2, <1>3, <1>4, <1>6, <2>2, <2>3
  <1>9. QED  BY <1>7, <1>8

-----------------------------------------------------------------------------
(* The invariant is inductive. *)

(* No runs. *)
LEMMA NothingYet ==
    ASSUME NEW s, NEW marks, NEW parts, s = <<>>, marks = <<>>
    PROVE  Joined(s, marks, parts)
  BY DEF Joined, End

(* The invariant holds when the handshake is done. *)
LEMMA InitInv == Init => Inv
  <1> SUFFICES ASSUME Init PROVE Inv
    OBVIOUS
  <1>1. /\ frames = <<>> /\ stream = <<>> /\ ends = <<>> /\ out = <<>> /\ handled = <<>>
        /\ packed = <<>>
    BY DEF Init
  <1>2. TypeInv
    <2>1. frames \in Seq(Frames) /\ stream \in Seq(Byte) /\ ends \in Seq(Nat)
      BY <1>1, EmptySeq
    <2>2. out \in Seq(Byte) /\ handled \in Seq(Seq(Byte)) /\ packed \in Seq(Nat)
      BY <1>1, EmptySeq
    <2>3. QED  BY <2>1, <2>2 DEF Init, TypeInv
  <1>3. /\ Len(frames) = 0 /\ Len(stream) = 0 /\ Len(ends) = 0 /\ Len(handled) = 0
        /\ Len(packed) = 0 /\ End(ends, 0) = 0
    BY <1>1, EmptySeq DEF End
  <1>4. StreamInv
    <2>1. Joined(stream, ends, Sent)
      BY <1>1, NothingYet
    <2>2. QED  BY <1>3, <2>1 DEF StreamInv
  <1>5. OutInv
    <2>1. Joined(out, packed, Broadcast)
      BY <1>1, NothingYet
    <2>2. QED  BY <1>3, <2>1 DEF OutInv
  <1>6. ParseInv
    BY <1>3 DEF ParseInv, Init
  <1>7. NoOverread /\ NotMissed /\ CloseInv /\ OpenInv
    BY <1>3 DEF NoOverread, NotMissed, CloseInv, OpenInv, Init
  <1>8. QED  BY <1>2, <1>4, <1>5, <1>6, <1>7 DEF Inv

(* The next client's connection starts the same way. *)
LEMMA ReuseInv == ASSUME Reuse PROVE Inv'
  <1>1. /\ frames' = <<>> /\ stream' = <<>> /\ ends' = <<>> /\ out' = <<>> /\ handled' = <<>>
        /\ packed' = <<>>
    BY DEF Reuse
  <1>2. TypeInv'
    <2>1. frames' \in Seq(Frames) /\ stream' \in Seq(Byte) /\ ends' \in Seq(Nat)
      BY <1>1, EmptySeq
    <2>2. out' \in Seq(Byte) /\ handled' \in Seq(Seq(Byte)) /\ packed' \in Seq(Nat)
      BY <1>1, EmptySeq
    <2>3. QED  BY <2>1, <2>2 DEF Reuse, TypeInv
  <1>3. /\ Len(frames') = 0 /\ Len(stream') = 0 /\ Len(ends') = 0 /\ Len(handled') = 0
        /\ Len(packed') = 0 /\ End(ends', 0) = 0
    BY <1>1, EmptySeq DEF End
  <1>4. StreamInv'
    <2>1. Joined(stream, ends, Sent)'
      BY <1>1, NothingYet
    <2>2. QED  BY <1>3, <2>1 DEF StreamInv
  <1>5. OutInv'
    <2>1. Joined(out, packed, Broadcast)'
      BY <1>1, NothingYet
    <2>2. QED  BY <1>3, <2>1 DEF OutInv
  <1>6. ParseInv'
    BY <1>3 DEF ParseInv, Reuse
  <1>7. NoOverread' /\ NotMissed' /\ CloseInv' /\ OpenInv'
    BY <1>3 DEF NoOverread, NotMissed, CloseInv, OpenInv, Reuse
  <1>8. QED  BY <1>2, <1>4, <1>5, <1>6, <1>7 DEF Inv

(* A step that sends nothing and handles nothing. *)
LEMMA Untouched ==
    ASSUME StreamInv, OutInv, UNCHANGED <<clientVars, playerVars>>
    PROVE  StreamInv' /\ OutInv' /\ Current' = Current
  <1>1. /\ frames' = frames /\ stream' = stream /\ ends' = ends
        /\ out' = out /\ handled' = handled /\ packed' = packed
    BY DEF clientVars, playerVars
  <1>2. Sent' = Sent /\ Broadcast' = Broadcast
    BY <1>1 DEF Sent, Broadcast
  <1>3. Joined(stream, ends, Sent)' /\ Joined(out, packed, Broadcast)'
    BY <1>1, <1>2 DEF StreamInv, OutInv
  <1>4. QED  BY <1>1, <1>3 DEF StreamInv, OutInv, Current

(* A task receives bytes and starts at the read pointer. *)
LEMMA TaskInv ==
    ASSUME Inv, NEW n \in 0 .. Len(stream) - arrived, NEW kept \in 0 .. Len(stream) - arrived,
           Task(n, kept)
    PROVE  Inv'
  <1> DEFINE k == Len(handled)
             m == arrived + sock2buf_data_len + n
  <1>1. TypeInv /\ StreamInv /\ OutInv /\ ParseInv /\ NotMissed /\ CloseInv /\ OpenInv
    BY DEF Inv
  <1>2. /\ Len(frames) \in Nat /\ Len(stream) \in Nat /\ k \in Nat /\ n \in Nat /\ kept \in Nat
        /\ arrived \in Nat /\ sock2buf_data_len \in Nat /\ rd \in Nat /\ Len(ends) = Len(frames)
        /\ m \in Nat /\ m >= arrived
    BY <1>1, SizesAre DEF TypeInv, StreamInv
  <1> HIDE DEF m
  <1>3. /\ pc = "idle" /\ ~ close_flag /\ m + kept <= Len(stream) /\ m - rd <= RecvMax
        /\ arrived' = m /\ sock2buf_data_len' = kept
        /\ base' = rd /\ index' = 0 /\ all_data_len' = m - rd
        /\ reached' = 0 /\ pc' = (IF m = rd THEN "idle" ELSE "loop")
        /\ frames' = frames /\ stream' = stream /\ ends' = ends /\ rd' = rd
        /\ out' = out /\ handled' = handled /\ packed' = packed /\ close_flag' = close_flag
    BY DEF Task, m, clientVars, playerVars
  <1>4. UNCHANGED <<clientVars, playerVars>>
    BY DEF Task
  <1>5. StreamInv' /\ OutInv' /\ Current' = Current
    BY <1>1, <1>4, Untouched
  <1>6. /\ rd = End(ends, k) /\ End(ends, k) <= arrived /\ arrived <= Len(stream) /\ k <= Len(frames)
    BY <1>1, <1>3 DEF ParseInv
  <1>7. TypeInv'
    <2>1. all_data_len' \in Nat
      <3>1. rd <= arrived
        BY <1>6
      <3>2. m - rd \in Nat
        BY <1>2, <3>1
      <3>3. QED  BY <1>3, <3>2
    <2>2. pc' \in {"idle", "loop"}
      BY <1>3
    <2>3. QED  BY <1>1, <1>2, <1>3, <2>1, <2>2 DEF TypeInv
  <1>8. ParseInv'
    <2>1. End(ends, k) <= arrived' /\ arrived' <= Len(stream)
      <3>1. rd <= arrived /\ m + kept <= Len(stream)
        BY <1>3, <1>6
      <3>2. rd <= m /\ m <= Len(stream)
        BY <1>2, <3>1
      <3>3. QED  BY <1>3, <1>6, <3>2
    <2>2. base' + index' = rd' /\ base' + all_data_len' = arrived' /\ all_data_len' <= RecvMax
      BY <1>2, <1>3
    <2>3. \A i \in 1 .. k : Acceptable(frames[i]) /\ handled[i] = frames[i].payload
      BY <1>1 DEF ParseInv
    <2>4. QED  BY <1>3, <1>6, <2>1, <2>2, <2>3 DEF ParseInv
  <1>9. NoOverread'
    <2>1. all_data_len' \in Nat /\ reached' = 0
      BY <1>3, <1>7 DEF TypeInv
    <2>2. QED  BY <2>1 DEF NoOverread
  <1>10. CloseInv'
    BY <1>3 DEF CloseInv
  <1>11. ASSUME pc' = "idle" PROVE arrived' = End(ends, k)
    BY <1>3, <1>6, <1>11
  <1>12. NotMissed'
    <2> SUFFICES ASSUME pc' = "idle", k < Len(frames) PROVE arrived' < ends[k + 1]
      BY <1>3 DEF NotMissed
    <2>1. arrived' = End(ends, k)
      BY <1>11
    <2>2. k + 1 \in 1 .. Len(frames) /\ (k + 1) - 1 = k
      BY <1>2
    <2>3. Sent[k + 1] = Bytes(frames[k + 1])
      BY <2>2 DEF Sent
    <2>4. frames[k + 1] \in Frames
      BY <1>1, <2>2, ElementOfSeq DEF TypeInv
    <2>5. Len(Bytes(frames[k + 1])) \in Nat /\ Len(Bytes(frames[k + 1])) >= 2
      BY SMTT(30), <2>4, BytesAre, FrameIs
    <2>6. ends[k + 1] = End(ends, (k + 1) - 1) + Len(Sent[k + 1])
      BY <1>1, <1>2, <2>2 DEF StreamInv, Joined
    <2>7. QED  BY <1>2, <1>6, <2>1, <2>2, <2>3, <2>5, <2>6
  <1>13. OpenInv'
    <2> SUFFICES ASSUME pc' = "idle", arrived' > End(ends, k) PROVE FALSE
      BY <1>3 DEF OpenInv
    <2>1. arrived' = End(ends, k) /\ arrived' \in Nat
      BY <1>2, <1>3, <1>11
    <2>2. QED  BY <2>1
  <1>14. QED  BY <1>5, <1>7, <1>8, <1>9, <1>10, <1>12, <1>13 DEF Inv

(* A chunk that does not fit closes the connection, when every frame that  *)
(* the server can take and has whole is handled already.                   *)
LEMMA OverflowInv == ASSUME Inv, Overflow PROVE Inv'
  <1>1. TypeInv /\ StreamInv /\ OutInv /\ ParseInv /\ NoOverread /\ NotMissed
    BY DEF Inv
  <1>2. /\ pc = "idle" /\ ~ close_flag
        /\ sock2buf_data_len > 0 /\ arrived + sock2buf_data_len - rd > RecvMax
    BY DEF Overflow
  <1>3. /\ close_flag' = TRUE /\ rd' = arrived /\ pc' = "idle"
        /\ frames' = frames /\ stream' = stream /\ ends' = ends /\ arrived' = arrived
        /\ sock2buf_data_len' = sock2buf_data_len
        /\ base' = base /\ index' = index /\ all_data_len' = all_data_len
        /\ out' = out /\ handled' = handled /\ packed' = packed /\ reached' = reached
    BY DEF Overflow, mark_close, clientVars, recvVars, playerVars
  <1>4. UNCHANGED <<clientVars, playerVars>>
    BY DEF Overflow
  <1>5. StreamInv' /\ OutInv' /\ Current' = Current
    BY <1>1, <1>4, Untouched
  <1>6. TypeInv' /\ NoOverread'
    BY <1>1, <1>3 DEF TypeInv, NoOverread
  <1>7. ParseInv'
    BY <1>1, <1>3 DEF ParseInv
  <1>8. NotMissed' /\ OpenInv'
    BY <1>1, <1>2, <1>3, <1>5 DEF NotMissed, OpenInv
  <1>9. Overfull
    <2>1. rd = End(ends, Len(handled))
      BY <1>1, <1>2 DEF ParseInv
    <2>2. QED  BY <1>1, <1>2, <2>1 DEF Overfull, NotMissed, Current
  <1>10. CloseInv'
    BY <1>3, <1>9 DEF CloseInv, Overfull
  <1>11. QED  BY <1>5, <1>6, <1>7, <1>8, <1>10 DEF Inv

(* A task that parsed all leaves nothing behind. *)
LEMMA LoopEndsInv == ASSUME Inv, LoopEnds PROVE Inv'
  <1> DEFINE k == Len(handled)
  <1>1. TypeInv /\ StreamInv /\ OutInv /\ ParseInv /\ NoOverread /\ CloseInv
    BY DEF Inv
  <1>2. /\ pc = "loop" /\ index >= all_data_len /\ pc' = "idle"
        /\ frames' = frames /\ stream' = stream /\ ends' = ends /\ arrived' = arrived /\ rd' = rd
        /\ sock2buf_data_len' = sock2buf_data_len
        /\ base' = base /\ index' = index /\ all_data_len' = all_data_len
        /\ out' = out /\ handled' = handled /\ packed' = packed
        /\ close_flag' = close_flag /\ reached' = reached
    BY DEF LoopEnds, clientVars, recvVars, playerVars
  <1>3. UNCHANGED <<clientVars, playerVars>>
    BY DEF LoopEnds
  <1>4. StreamInv' /\ OutInv' /\ Current' = Current
    BY <1>1, <1>3, Untouched
  <1>5. TypeInv' /\ NoOverread'
    BY <1>1, <1>2 DEF TypeInv, NoOverread
  <1>6. ParseInv'
    BY <1>1, <1>2 DEF ParseInv
  <1>7. CloseInv'
    BY <1>1, <1>2, <1>4 DEF ParseInv, CloseInv
  <1>8. /\ base \in Nat /\ index \in Nat /\ all_data_len \in Nat /\ arrived \in Nat /\ rd \in Nat
        /\ k \in Nat /\ Len(frames) \in Nat /\ Len(ends) = Len(frames) /\ frames \in Seq(Frames)
    BY <1>1, SizesAre DEF TypeInv, StreamInv
  <1>9. /\ rd = End(ends, k) /\ End(ends, k) <= arrived /\ base + index = rd
        /\ base + all_data_len = arrived
    BY <1>1, <1>2 DEF ParseInv
  <1>10. arrived = End(ends, k)
    BY <1>2, <1>8, <1>9
  <1>11. NotMissed'
    <2> SUFFICES ASSUME k < Len(frames) PROVE arrived < ends[k + 1]
      BY <1>2 DEF NotMissed
    <2>1. k + 1 \in 1 .. Len(frames) /\ (k + 1) - 1 = k
      BY <1>8
    <2>2. Sent[k + 1] = Bytes(frames[k + 1])
      BY <2>1 DEF Sent
    <2>3. frames[k + 1] \in Frames
      BY <1>8, <2>1, ElementOfSeq
    <2>4. Len(Bytes(frames[k + 1])) \in Nat /\ Len(Bytes(frames[k + 1])) >= 2
      BY <2>3, BytesAre, FrameIs
    <2>5. ends[k + 1] = End(ends, (k + 1) - 1) + Len(Sent[k + 1])
      BY <1>1, <1>8, <2>1 DEF StreamInv, Joined
    <2>6. QED  BY <1>8, <1>10, <2>1, <2>2, <2>4, <2>5
  <1>12. OpenInv'
    <2> SUFFICES ASSUME arrived > End(ends, k) PROVE FALSE
      BY <1>2 DEF OpenInv
    <2>1. QED  BY <1>8, <1>10
  <1>13. QED  BY <1>4, <1>5, <1>6, <1>7, <1>11, <1>12 DEF Inv

(* An iteration that ends in mark_close. *)
LEMMA CloseIsInductive ==
    ASSUME Inv, pc = "loop", index < all_data_len, mark_close, reached' = Reach,
           UNCHANGED <<clientVars, recvVars, base, index, all_data_len, playerVars>>,
           ~ Acceptable(Current), Current.payload # <<>> \/ Current.op \notin {1, 2}
    PROVE  Inv'
  <1>1. TypeInv /\ StreamInv /\ OutInv /\ ParseInv
    BY DEF Inv
  <1>2. Parsing
    BY <1>1 DEF Parsing
  <1>3. /\ close_flag' = TRUE /\ rd' = arrived /\ pc' = "idle"
        /\ frames' = frames /\ stream' = stream /\ ends' = ends /\ arrived' = arrived
        /\ sock2buf_data_len' = sock2buf_data_len
        /\ base' = base /\ index' = index /\ all_data_len' = all_data_len
        /\ out' = out /\ handled' = handled /\ packed' = packed
    BY DEF mark_close, clientVars, recvVars, playerVars
  <1>4. UNCHANGED <<clientVars, playerVars>>
    OBVIOUS
  <1>5. StreamInv' /\ OutInv' /\ Current' = Current
    BY <1>1, <1>4, Untouched
  <1>6. Reach \in Nat /\ Reach <= all_data_len
    BY <1>2, ReachIs
  <1>7. TypeInv' /\ NoOverread'
    BY <1>1, <1>3, <1>6 DEF TypeInv, NoOverread
  <1>8. ParseInv'
    BY <1>1, <1>3 DEF ParseInv
  <1>9. Len(handled) < Len(frames)
    BY <1>2, CurrentIs
  <1>10. CloseInv' /\ OpenInv'
    BY <1>3, <1>5, <1>9 DEF CloseInv, Refused, OpenInv
  <1>11. NotMissed'
    BY <1>5 DEF NotMissed
  <1>12. QED  BY <1>5, <1>7, <1>8, <1>10, <1>11 DEF Inv

(* A frame of another type closes the connection, and rightly. *)
LEMMA RefuseInv == ASSUME Inv, Refuse PROVE Inv'
  <1>1. Parsing
    BY DEF Inv, Parsing, Refuse
  <1>2. Current.op \notin {1, 2}
    BY <1>1, OpcodeIs DEF Refuse
  <1>3. ~ Acceptable(Current)
    BY <1>2 DEF Acceptable
  <1>4. QED  BY <1>2, <1>3, CloseIsInductive DEF Refuse

(* So does a length that no string has. *)
LEMMA TooLongInv == ASSUME Inv, TooLong PROVE Inv'
  <1>1. Parsing
    BY DEF Inv, Parsing, TooLong
  <1>2. ~ Acceptable(Current) /\ Current.payload # <<>>
    BY <1>1, TooLongIsRefused DEF TooLong
  <1>3. QED  BY <1>2, CloseIsInductive DEF TooLong

(* What is left for the next task is not whole, or is empty. *)
LEMMA LeaveInv == ASSUME Inv, Leave PROVE Inv'
  <1>1. TypeInv /\ StreamInv /\ OutInv /\ ParseInv /\ CloseInv
    BY DEF Inv
  <1>2. Parsing
    BY <1>1 DEF Parsing, Leave
  <1>3. /\ pc = "loop" /\ Supported /\ ~ PayloadArrived /\ pc' = "idle" /\ reached' = Reach
        /\ frames' = frames /\ stream' = stream /\ ends' = ends /\ arrived' = arrived /\ rd' = rd
        /\ sock2buf_data_len' = sock2buf_data_len
        /\ base' = base /\ index' = index /\ all_data_len' = all_data_len
        /\ out' = out /\ handled' = handled /\ packed' = packed /\ close_flag' = close_flag
    BY DEF Leave, clientVars, recvVars, playerVars
  <1>4. UNCHANGED <<clientVars, playerVars>>
    BY DEF Leave
  <1>5. StreamInv' /\ OutInv' /\ Current' = Current
    BY <1>1, <1>4, Untouched
  <1>6. Reach \in Nat /\ Reach <= all_data_len
    BY <1>2, ReachIs
  <1>7. TypeInv' /\ NoOverread'
    BY <1>1, <1>3, <1>6 DEF TypeInv, NoOverread
  <1>8. ParseInv'
    BY <1>1, <1>3 DEF ParseInv
  <1>9. CloseInv'
    BY <1>1, <1>3, <1>5 DEF ParseInv, CloseInv
  <1>10. OpenInv'
    <2>1. Current.op \in {1, 2}
      BY <1>2, <1>3, OpcodeIs
    <2>2. QED  BY <1>5, <2>1 DEF OpenInv
  <1>11. NotMissed'
    <2> SUFFICES ASSUME Acceptable(Current) PROVE arrived < ends[Len(handled) + 1]
      BY <1>3, <1>5 DEF NotMissed
    <2>1. ~ (arrived >= ends[Len(handled) + 1])
      BY <1>2, <1>3, ArrivedIsSeen
    <2>2. ends[Len(handled) + 1] \in Nat /\ arrived \in Nat
      <3>1. Len(handled) < Len(frames)
        BY <1>2, CurrentIs
      <3>2. Len(handled) + 1 \in 1 .. Len(ends) /\ ends \in Seq(Nat)
        BY <1>1, <3>1, SizesAre DEF TypeInv, StreamInv
      <3>3. QED  BY <1>1, <3>2, ElementOfSeq DEF TypeInv
    <2>3. QED  BY <2>1, <2>2
  <1>12. QED  BY <1>5, <1>7, <1>8, <1>9, <1>10, <1>11 DEF Inv

(* More bytes from the client change nothing of what was parsed. *)
LEMMA SendsInv == ASSUME Inv, NEW f \in Frames, Sends(f) PROVE Inv'
  <1> DEFINE k == Len(handled)
             n == Len(frames)
             p == Bytes(f)
  <1>1. /\ TypeInv /\ StreamInv /\ OutInv /\ ParseInv /\ NoOverread /\ NotMissed /\ CloseInv
        /\ OpenInv
    BY DEF Inv
  <1>2. /\ n \in Nat /\ k \in Nat /\ Len(stream) \in Nat /\ Len(ends) = n /\ arrived \in Nat
        /\ frames \in Seq(Frames) /\ ends \in Seq(Nat) /\ stream \in Seq(Byte)
    BY <1>1, SizesAre DEF TypeInv, StreamInv
  <1>3. /\ \A i \in DOMAIN frames : frames[i].claim = Len(frames[i].payload)
        /\ frames' = Append(frames, f) /\ stream' = stream \o p
        /\ ends' = Append(ends, Len(stream) + Len(p))
        /\ arrived' = arrived /\ sock2buf_data_len' = sock2buf_data_len /\ rd' = rd /\ pc' = pc
        /\ base' = base /\ index' = index /\ all_data_len' = all_data_len
        /\ out' = out /\ handled' = handled /\ packed' = packed
        /\ close_flag' = close_flag /\ reached' = reached
    BY DEF Sends, recvVars, playerVars
  <1>4. p \in Seq(Byte) /\ Len(p) \in Nat /\ Len(p) >= 2
    BY BytesAre, FrameIs
  <1> HIDE DEF p
  <1>5. /\ stream' \in Seq(Byte) /\ Len(stream') = Len(stream) + Len(p)
    BY <1>2, <1>3, <1>4, TwoParts
  <1>6. /\ frames' \in Seq(Frames) /\ Len(frames') = n + 1 /\ frames'[n + 1] = f
        /\ \A i \in 1 .. n : frames'[i] = frames[i]
    BY <1>2, <1>3, AppendProperties
  <1>7. /\ ends' \in Seq(Nat) /\ Len(ends') = n + 1 /\ ends'[n + 1] = Len(stream) + Len(p)
        /\ \A i \in 1 .. n : ends'[i] = ends[i]
    <2>1. Len(stream) + Len(p) \in Nat
      BY <1>2, <1>4
    <2>2. QED  BY <1>2, <1>3, <2>1, AppendProperties
  <1>8. k <= n /\ arrived <= Len(stream)
    BY <1>1 DEF ParseInv
  <1>9. TypeInv'
    BY <1>1, <1>3, <1>5, <1>6, <1>7 DEF TypeInv
  <1>10. StreamInv'
    <2> DEFINE more == Sent'
    <2>1. ASSUME NEW i \in 1 .. n PROVE Sent[i] \in Seq(Byte) /\ more[i] = Sent[i]
      <3>1. frames[i] \in Frames
        BY <1>2, ElementOfSeq
      <3>2. Sent[i] = Bytes(frames[i])
        BY DEF Sent
      <3>3. i \in 1 .. n + 1
        BY <1>2
      <3>4. more[i] = Bytes(frames'[i])
        BY <1>6, <3>3 DEF Sent
      <3>5. QED  BY <1>6, <3>1, <3>2, <3>4, BytesAre
    <2>2. more[n + 1] = p
      <3>1. n + 1 \in 1 .. n + 1
        BY <1>2
      <3>2. QED  BY <1>6, <3>1 DEF Sent, p
    <2>3. Joined(stream, ends, Sent)
      BY <1>1 DEF StreamInv
    <2> HIDE DEF more
    <2>4. Joined(stream \o p, Append(ends, Len(stream) + Len(p)), more)
      BY <1>2, <1>4, <2>1, <2>2, <2>3, JoinedAppend
    <2>5. Joined(stream, ends, Sent)'
      BY <1>3, <2>4 DEF more
    <2>6. ASSUME NEW i \in 1 .. n PROVE frames'[i].claim = Len(frames'[i].payload)
      <3>1. i \in DOMAIN frames
        BY <1>2, LenProperties
      <3>2. QED  BY <1>3, <1>6, <3>1
    <2>7. Len(frames') - 1 = n
      BY <1>2, <1>6
    <2>8. QED  BY <1>6, <1>7, <2>5, <2>6, <2>7 DEF StreamInv
  <1>11. OutInv'
    <2>1. Broadcast' = Broadcast
      BY <1>3 DEF Broadcast
    <2>2. QED  BY <1>1, <1>3, <2>1 DEF OutInv
  <1>12. \A i \in 0 .. n : End(ends', i) = End(ends, i)
    BY <1>2, <1>7 DEF End
  <1>13. ParseInv'
    <2>1. End(ends', k) = End(ends, k)
      BY <1>2, <1>8, <1>12
    <2>2. k <= Len(frames') /\ arrived <= Len(stream')
      BY <1>2, <1>4, <1>5, <1>6, <1>8
    <2>3. \A i \in 1 .. k : Acceptable(frames'[i]) /\ handled[i] = frames'[i].payload
      BY <1>1, <1>2, <1>6, <1>8 DEF ParseInv
    <2>4. QED  BY <1>1, <1>3, <2>1, <2>2, <2>3 DEF ParseInv
  <1>14. NoOverread'
    BY <1>1, <1>3 DEF NoOverread
  <1>15. CASE k < n
    <2>1. k + 1 \in 1 .. n /\ k \in 0 .. n
      BY <1>2, <1>15
    <2>2. Current' = Current /\ ends'[k + 1] = ends[k + 1] /\ End(ends', k) = End(ends, k)
      BY <1>3, <1>6, <1>7, <1>12, <2>1 DEF Current
    <2>3. k < Len(frames')
      BY <1>2, <1>6, <1>15
    <2>4. NotMissed'
      BY <1>1, <1>3, <1>15, <2>2 DEF NotMissed
    <2>5. CloseInv'
      <3>1. Refused => Refused'
        BY <1>3, <2>2, <2>3 DEF Refused
      <3>2. Overfull => Overfull'
        BY <1>3, <1>15, <2>2 DEF Overfull, Current
      <3>3. QED  BY <1>1, <1>3, <3>1, <3>2 DEF CloseInv
    <2>6. OpenInv'
      BY <1>1, <1>3, <1>15, <2>2 DEF OpenInv
    <2>7. QED  BY <1>9, <1>10, <1>11, <1>13, <1>14, <2>4, <2>5, <2>6 DEF Inv
  <1>16. CASE k = n
    <2>1. End(ends', k) = Len(stream)
      <3>1. End(ends, Len(ends)) = Len(stream)
        BY <1>1 DEF StreamInv, Joined
      <3>2. QED  BY <1>2, <1>12, <1>16, <3>1
    <2>2. arrived < ends'[k + 1]
      BY <1>2, <1>4, <1>7, <1>8, <1>16
    <2>3. NotMissed'
      BY <1>3, <2>2 DEF NotMissed
    <2>4. ~ Refused
      BY <1>2, <1>16 DEF Refused
    <2>5. CloseInv'
      <3>1. End(ends', k) = End(ends, k)
        BY <1>2, <1>12, <1>16
      <3>2. Overfull => Overfull'
        BY <1>3, <2>2, <3>1 DEF Overfull
      <3>3. QED  BY <1>1, <1>3, <2>4, <3>2 DEF CloseInv
    <2>6. ~ (arrived > End(ends', k))
      BY <1>2, <1>8, <2>1
    <2>7. OpenInv'
      BY <1>3, <2>6 DEF OpenInv
    <2>8. QED  BY <1>9, <1>10, <1>11, <1>13, <1>14, <2>3, <2>5, <2>7 DEF Inv
  <1>17. QED  BY <1>2, <1>8, <1>15, <1>16

(* The frame handled is the next one, whole. *)
LEMMA FrameInv == ASSUME Inv, Frame PROVE Inv'
  <1> DEFINE k == Len(handled)
             d == Current.payload
             p == Pack(d)
  <1>1. TypeInv /\ StreamInv /\ OutInv /\ ParseInv
    BY DEF Inv
  <1>2. /\ pc = "loop" /\ index < all_data_len /\ Supported /\ PayloadArrived
        /\ payload_length <= MaxSize /\ process_frame(Unmasked)
        /\ rd' = rd + (BodyAt - index) + payload_length /\ index' = BodyAt + payload_length
        /\ reached' = Reach
        /\ frames' = frames /\ stream' = stream /\ ends' = ends /\ arrived' = arrived
        /\ sock2buf_data_len' = sock2buf_data_len
        /\ pc' = pc /\ base' = base /\ all_data_len' = all_data_len /\ close_flag' = close_flag
    BY DEF Frame, Unmasked, clientVars, recvVars
  <1>3. Parsing
    BY <1>1, <1>2 DEF Parsing
  <1>4. /\ Acceptable(Current) /\ payload_length = Len(d) /\ payload_length \in Nat
        /\ BodyAt \in Nat /\ BodyAt >= index /\ ends[k + 1] = base + BodyAt + payload_length
        /\ BodyAt + payload_length <= all_data_len /\ Unmasked = d
    BY <1>2, <1>3, FrameIsWhole
  <1>5. /\ k < Len(frames) /\ Current \in Frames /\ base + index = rd
        /\ base + all_data_len = arrived /\ all_data_len <= RecvMax /\ arrived <= Len(stream)
    BY <1>3, CurrentIs
  <1>6. d \in Seq(Byte)
    BY <1>5, FrameIs
  <1>7. /\ out' = out \o p /\ handled' = Append(handled, d)
        /\ packed' = Append(packed, Len(out) + Len(p))
    <2>1. websocket_frame_type_2_n("TEXT_FRAME") = 1
      BY DEF websocket_frame_type_2_n
    <2>2. QED  BY <1>2, <1>4, <2>1 DEF process_frame, Pack
  <1>8. /\ base \in Nat /\ index \in Nat /\ all_data_len \in Nat /\ rd \in Nat /\ arrived \in Nat
        /\ k \in Nat /\ Len(frames) \in Nat /\ Len(ends) = Len(frames) /\ Len(packed) = k
        /\ out \in Seq(Byte) /\ handled \in Seq(Seq(Byte)) /\ packed \in Seq(Nat)
        /\ Len(out) \in Nat
    BY <1>1, SizesAre DEF TypeInv, StreamInv, OutInv
  <1>9. Len(d) < Word
    <2>1. Len(d) \in Nat /\ Len(d) <= (Word \div 2) - 1
      BY <1>2, <1>4 DEF MaxSize
    <2> DEFINE w == Word \div 2
    <2>2. w \in Nat /\ w + w <= Word /\ Word \in Nat
      BY HalfWord
    <2> HIDE DEF w
    <2>3. Len(d) <= w - 1
      BY <2>1 DEF w
    <2>4. QED  BY <2>1, <2>2, <2>3
  <1>10. p \in Seq(Byte) /\ Len(p) \in Nat
    BY <1>6, <1>9, PackIs, LenProperties
  <1> HIDE DEF p, d
  <1>11. out' \in Seq(Byte)
    BY <1>7, <1>8, <1>10, TwoParts
  <1>12. /\ handled' \in Seq(Seq(Byte)) /\ Len(handled') = k + 1 /\ handled'[k + 1] = d
         /\ \A i \in 1 .. k : handled'[i] = handled[i]
    BY <1>6, <1>7, <1>8, AppendProperties
  <1>13. packed' \in Seq(Nat) /\ Len(packed') = k + 1
    <2>1. Len(out) + Len(p) \in Nat
      BY <1>8, <1>10
    <2>2. QED  BY <1>7, <1>8, <2>1, AppendProperties
  <1>14. Reach \in Nat /\ Reach <= all_data_len
    BY <1>3, ReachIs
  <1>15. /\ rd' = base + BodyAt + payload_length /\ rd' \in Nat /\ index' \in Nat
         /\ base + index' = rd'
    <2>1. /\ base \in Nat /\ index \in Nat /\ BodyAt \in Nat /\ payload_length \in Nat
          /\ rd = base + index
      BY <1>4, <1>5, <1>8
    <2>2. rd' = rd + (BodyAt - index) + payload_length /\ index' = BodyAt + payload_length
      BY <1>2
    <2>3. QED  BY <2>1, <2>2
  <1>16. TypeInv'
    BY <1>1, <1>2, <1>11, <1>12, <1>13, <1>14, <1>15 DEF TypeInv
  <1>17. StreamInv'
    <2>1. Sent' = Sent
      BY <1>2 DEF Sent
    <2>2. QED  BY <1>1, <1>2, <2>1 DEF StreamInv
  <1>18. OutInv'
    <2> DEFINE more == Broadcast'
    <2>1. ASSUME NEW i \in 1 .. k
          PROVE  /\ Broadcast[i] \in Seq(Byte) /\ more[i] = Broadcast[i] /\ Len(handled'[i]) < Word
      <3>1. handled[i] \in Seq(Byte) /\ Len(handled[i]) < Word
        BY <1>1, <1>8, ElementOfSeq DEF OutInv
      <3>2. Broadcast[i] = Pack(handled[i])
        BY DEF Broadcast
      <3>3. i \in 1 .. k + 1
        BY <1>8
      <3>4. more[i] = Pack(handled'[i])
        BY <1>12, <3>3 DEF Broadcast
      <3>5. QED  BY <1>12, <3>1, <3>2, <3>4, PackIs
    <2>2. k + 1 \in 1 .. k + 1
      BY <1>8
    <2>3. more[k + 1] = p
      BY <1>12, <2>2 DEF Broadcast, p
    <2>4. Joined(out, packed, Broadcast)
      BY <1>1 DEF OutInv
    <2> HIDE DEF more
    <2>5. Joined(out \o p, Append(packed, Len(out) + Len(p)), more)
      BY <1>8, <1>10, <2>1, <2>3, <2>4, JoinedAppend
    <2>6. Joined(out, packed, Broadcast)'
      BY <1>7, <2>5 DEF more
    <2>7. ASSUME NEW i \in 1 .. k + 1 PROVE Len(handled'[i]) < Word
      <3>1. i \in 1 .. k \/ i = k + 1
        BY <1>8
      <3>2. QED  BY <1>9, <1>12, <2>1, <3>1
    <2>8. QED  BY <1>12, <1>13, <2>6, <2>7 DEF OutInv
  <1>19. ParseInv'
    <2>1. End(ends, k + 1) = rd'
      BY <1>4, <1>8, <1>15 DEF End
    <2>2. rd' <= arrived
      BY SMTT(30), <1>4, <1>5, <1>8, <1>15
    <2>3. base + index' = rd'
      BY <1>15
    <2>4. ASSUME NEW i \in 1 .. k + 1
          PROVE  Acceptable(frames[i]) /\ handled'[i] = frames[i].payload
      <3>1. CASE i \in 1 .. k
        BY <1>1, <1>12, <3>1 DEF ParseInv
      <3>2. CASE i = k + 1
        BY <1>4, <1>12, <3>2 DEF Current, d
      <3>3. QED  BY <1>8, <3>1, <3>2
    <2>5. k + 1 <= Len(frames)
      BY <1>5, <1>8
    <2>6. ~ close_flag
      BY <1>1, <1>2 DEF ParseInv
    <2>7. QED  BY <1>2, <1>5, <1>12, <2>1, <2>2, <2>3, <2>4, <2>5, <2>6 DEF ParseInv
  <1>20. NoOverread'
    BY <1>2, <1>14 DEF NoOverread
  <1>21. NotMissed' /\ OpenInv'
    BY <1>2 DEF NotMissed, OpenInv
  <1>22. CloseInv'
    <2>1. ~ close_flag
      BY <1>1, <1>2 DEF ParseInv
    <2>2. QED  BY <1>2, <2>1 DEF CloseInv
  <1>23. QED  BY <1>16, <1>17, <1>18, <1>19, <1>20, <1>21, <1>22 DEF Inv

(* Nothing changes. *)
LEMMA StutterInv == ASSUME Inv, UNCHANGED vars PROVE Inv'
  <1>1. UNCHANGED <<clientVars, playerVars>>
    BY DEF vars
  <1>2. StreamInv' /\ OutInv' /\ Current' = Current
    BY <1>1, Untouched DEF Inv
  <1>3. TypeInv' /\ ParseInv' /\ NoOverread'
    BY DEF Inv, TypeInv, ParseInv, NoOverread, vars, clientVars, recvVars, playerVars
  <1>4. NotMissed' /\ CloseInv' /\ OpenInv'
    BY <1>2 DEF Inv, NotMissed, CloseInv, Refused, Overfull, OpenInv, vars, clientVars, recvVars, playerVars
  <1>5. QED  BY <1>2, <1>3, <1>4 DEF Inv

(* Every step keeps the invariant. *)
LEMMA NextInv == Inv /\ [Next]_vars => Inv'
  <1> SUFFICES ASSUME Inv, [Next]_vars PROVE Inv'
    OBVIOUS
  <1>1. CASE \E f \in Frames : Sends(f)
    BY <1>1, SendsInv
  <1>2. CASE \E n, kept \in 0 .. Len(stream) - arrived : Task(n, kept)
    BY <1>2, TaskInv
  <1>3. CASE Reuse
    BY <1>3, ReuseInv
  <1>4. CASE LoopEnds
    BY <1>4, LoopEndsInv
  <1>5. CASE Refuse
    BY <1>5, RefuseInv
  <1>6. CASE Leave
    BY <1>6, LeaveInv
  <1>7. CASE TooLong
    BY <1>7, TooLongInv
  <1>8. CASE Frame
    BY <1>8, FrameInv
  <1>9. CASE Overflow
    BY <1>9, OverflowInv
  <1>10. CASE UNCHANGED vars
    BY <1>10, StutterInv
  <1>11. QED
    BY <1>1, <1>2, <1>3, <1>4, <1>5, <1>6, <1>7, <1>8, <1>9, <1>10 DEF Next

(* The inductive invariant holds of every state of websocket_app's framing.*)
THEOREM Invariance == Spec => []Inv
  BY InitInv, NextInv, PTL DEF Spec

(* What the invariant says of the frames handled. *)
LEMMA InvHandled == Inv => HandledExact
  <1> SUFFICES ASSUME Inv, pc = "idle"
               PROVE  /\ Len(handled) <= Len(frames) /\ End(ends, Len(handled)) <= arrived
                      /\ \A i \in 1 .. Len(handled) :
                            Acceptable(frames[i]) /\ handled[i] = frames[i].payload
                      /\ Len(handled) < Len(frames) /\ Acceptable(frames[Len(handled) + 1])
                         => arrived < ends[Len(handled) + 1]
    BY DEF HandledExact
  <1>1. QED  BY DEF Inv, ParseInv, NotMissed, Current

(* What the invariant says of the close. *)
LEMMA InvClosed == Inv => ClosedExactly
  <1> SUFFICES ASSUME Inv PROVE ClosedExactly
    OBVIOUS
  <1>1. CloseInv /\ OpenInv
    BY DEF Inv
  <1>2. QED  BY <1>1 DEF CloseInv, Refused, OpenInv, Current, ClosedExactly

(* Whatever the segments, and for every width of a byte, every size of the *)
(* receive buffer and every set of frames: process_connection hands a      *)
(* client's frames on once each, in order and unmasked, as soon as they    *)
(* have arrived whole and not before.                                      *)
THEOREM FramesAreHandledExactly == Spec => []HandledExact
  BY Invariance, InvHandled, PTL

(* process_connection looks at no byte that m_recv_buffer has not          *)
(* received, although the sum that it compares wraps.                      *)
THEOREM NothingIsOverread == Spec => []NoOverread
  <1>1. Inv => NoOverread
    BY DEF Inv
  <1>2. QED  BY <1>1, Invariance, PTL

(* What send_packet packs for a player, frame after frame, is read back as *)
(* the payloads handled, whichever of the three forms their lengths take.  *)
THEOREM BroadcastIsDecodable == Spec => []BroadcastDecodes
  <1>1. Inv => BroadcastDecodes
    BY OutIsDecodable DEF Inv
  <1>2. QED  BY <1>1, Invariance, PTL

(* mark_close is called for a frame of another type, for a length that no  *)
(* string has, or for a chunk that m_recv_buffer has no room for beside a  *)
(* frame that is not whole, and never while a frame that the server can    *)
(* take is waiting whole; a frame of another type never survives the task  *)
(* that sees it.                                                           *)
THEOREM ClosesExactly == Spec => []ClosedExactly
  BY Invariance, InvClosed, PTL
=============================================================================
