-------------------------- MODULE StreamIO_proofs --------------------------
(***************************************************************************)
(* Machine-checked proofs about StreamIO, for every buffer size and every  *)
(* amount of data: the application is given the bytes received without a   *)
(* gap and in order, bytes carried over are never forgotten, buf2sock      *)
(* always finds room to refill m_send_buffer, and, as long as ::send takes *)
(* all it is given, a byte accepted by send() goes out once and in order.  *)
(***************************************************************************)
EXTENDS StreamIO, BufferOps_proofs

-----------------------------------------------------------------------------
(* The inductive invariant. *)

TaskAt == {"idle", "carry", "recv", "giveup", "process", "moved", "fill", "refill", "out"}

TypeInv ==
    /\ IsBuffer(Nat, m_recv_buffer) /\ IsBuffer(Nat, m_send_buffer)
    /\ IsBuffer(Nat, m_wating_send_pack)
    /\ carry \in Seq(Nat) /\ out_inner \in Seq(Nat)
    /\ should_send_idx \in {-1, 0} /\ should_send_size \in Nat
    /\ should_send_size <= IF should_send_idx = 0 THEN Len(out_inner) ELSE 0
    /\ close_flag \in BOOLEAN /\ queued \in BOOLEAN /\ pc \in TaskAt
    /\ offset \in Nat /\ arrived \in Nat
    /\ accepted \in Seq(Nat) /\ wire \in Seq(Nat) /\ consumed \in Seq(Nat)

(* m_send_buffer never needs an array larger than the inner buffer, and is *)
(* empty when it is refilled.                                              *)
RoomInv ==
    /\ ~ close_flag => m_send_buffer.limit = Inner + 2
    /\ m_send_buffer.size <= Inner
    /\ pc = "refill" => Contents(m_send_buffer) = <<>> /\ should_send_idx = -1

(* offset counts bytes of m_recv_buffer between process_connection's two   *)
(* critical sections.                                                      *)
OffsetInv ==
    /\ pc # "moved" => offset = 0
    /\ pc = "moved" /\ ~ close_flag => offset <= Len(Contents(m_recv_buffer))

(* Bytes carried over have a task that will store them, or are being       *)
(* stored, or the connection is about to be given up.                      *)
CarryInv ==
    /\ carry # <<>> => queued \/ close_flag \/ pc \in {"carry", "giveup"}
    /\ pc = "recv" => carry = <<>>

Inv == TypeInv /\ RoomInv /\ OffsetInv /\ CarryInv /\ InputExact

(* With whole writes what is in the inner buffer is all still to be sent.  *)
WholeInv ==
    /\ should_send_idx = 0 => should_send_size = Len(out_inner)
    /\ pc = "out" => should_send_idx = 0

OutInv == Inv /\ WholeInv /\ OutputExact

-----------------------------------------------------------------------------
USE DEF vars, buffers, inVars, outVars

(* Numbered bytes. *)
LEMMA NumberedType ==
    ASSUME NEW a \in Nat, NEW n \in Nat
    PROVE  /\ Numbered(a + 1, a + n) \in Seq(Nat) /\ Len(Numbered(a + 1, a + n)) = n
           /\ \A i \in 1 .. n : Numbered(a + 1, a + n)[i] = a + i
  <1>1. Numbered(a + 1, a + n) = [i \in 1 .. n |-> a + i]
    <2>1. (a + n) - (a + 1) + 1 = n /\ \A i \in 1 .. n : (a + 1) + i - 1 = a + i
      OBVIOUS
    <2>2. QED  BY <2>1 DEF Numbered
  <1>2. [i \in 1 .. n |-> a + i] \in Seq(Nat) /\ Len([i \in 1 .. n |-> a + i]) = n
    OBVIOUS
  <1>3. QED  BY <1>1, <1>2

(* Numbered bytes, continued. *)
LEMMA NumberedOnwards ==
    ASSUME NEW a \in Nat, NEW n \in Nat
    PROVE  Numbered(1, a) \o Numbered(a + 1, a + n) = Numbered(1, a + n)
  <1> DEFINE s == Numbered(1, a)
             t == Numbered(a + 1, a + n)
             u == Numbered(1, a + n)
  <1>1. s \in Seq(Nat) /\ Len(s) = a /\ \A i \in 1 .. a : s[i] = i
    <2>1. Numbered(0 + 1, 0 + a) = s
      OBVIOUS
    <2>2. /\ Numbered(0 + 1, 0 + a) \in Seq(Nat) /\ Len(Numbered(0 + 1, 0 + a)) = a
          /\ \A i \in 1 .. a : Numbered(0 + 1, 0 + a)[i] = 0 + i
      BY NumberedType
    <2> HIDE DEF s
    <2>3. QED  BY <2>1, <2>2
  <1>2. t \in Seq(Nat) /\ Len(t) = n /\ \A i \in 1 .. n : t[i] = a + i
    BY NumberedType
  <1>3. u \in Seq(Nat) /\ Len(u) = a + n /\ \A i \in 1 .. a + n : u[i] = i
    <2>1. Numbered(0 + 1, 0 + (a + n)) = u
      OBVIOUS
    <2>2. QED  BY <2>1, NumberedType
  <1> HIDE DEF s, t, u
  <1>4. /\ s \o t \in Seq(Nat) /\ Len(s \o t) = a + n
        /\ \A i \in 1 .. a + n : (s \o t)[i] = IF i <= a THEN s[i] ELSE t[i - a]
    BY <1>1, <1>2, ConcatProperties
  <1>5. ASSUME NEW i \in 1 .. a + n  PROVE (s \o t)[i] = u[i]
    <2>1. CASE i <= a
      BY <1>1, <1>3, <1>4, <2>1
    <2>2. CASE ~ (i <= a)
      <3>1. i - a \in 1 .. n /\ a + (i - a) = i
        BY <2>2
      <3>2. QED  BY <1>2, <1>3, <1>4, <2>2, <3>1
    <2>3. QED  BY <2>1, <2>2
  <1>6. QED  BY <1>3, <1>4, <1>5, SeqEqual DEF s, t, u

(* The buffers of a connection that has just been accepted. *)
LEMMA Reused ==
    /\ IsBuffer(Nat, ReusedBuffer) /\ Contents(ReusedBuffer) = <<>>
    /\ ReusedBuffer.limit = Inner + 2 /\ ReusedBuffer.size = 0
  <1>1. IsBuffer(Nat, buffer) /\ Contents(buffer) = <<>> /\ buffer.limit = MinSize /\ buffer.size = 0
    BY NewBuffer
  <1>2. Inner + 2 \in Nat /\ ~ (Inner + 2 < MinSize)
    BY InnerAssumption, MinSizeAssumption
  <1> HIDE DEF buffer
  <1>3. QED  BY <1>1, <1>2, LimitRises DEF ReusedBuffer

(* A cleared buffer is proper and empty. *)
LEMMA Cleared ==
    IsBuffer(Nat, buffer) /\ Contents(buffer) = <<>> /\ buffer.size = 0
  BY NewBuffer

(* check_init's array fits the inner buffer. *)
LEMMA InitSize ==
    ASSUME NEW b, IsBuffer(Nat, b), b.size <= Inner
    PROVE  check_init(b).size <= Inner
  BY InnerAssumption DEF check_init

(* The invariant holds for a connection just reused. *)
LEMMA InitInv == Init => OutInv
  <1> SUFFICES ASSUME Init  PROVE OutInv
    OBVIOUS
  <1> HIDE DEF ReusedBuffer
  <1>1. TypeInv
    <2>1. should_send_size <= IF should_send_idx = 0 THEN Len(out_inner) ELSE 0
      BY DEF Init
    <2>2. QED  BY <2>1, Reused, EmptySeq DEF Init, TypeInv, TaskAt
  <1>2. RoomInv /\ OffsetInv /\ CarryInv /\ WholeInv
    BY Reused, InnerAssumption DEF Init, RoomInv, OffsetInv, CarryInv, WholeInv
  <1>3. InputExact
    <2>1. Numbered(1, 0) = <<>>
      BY DEF Numbered
    <2>2. SubSeq(<<>>, 0 + 1, Len(<<>>)) = <<>>
      OBVIOUS
    <2>3. <<>> \o <<>> \o <<>> = <<>>
      OBVIOUS
    <2>4. QED  BY <2>1, <2>2, <2>3, Reused DEF Init, InputExact
  <1>4. OutputExact
    <2>1. <<>> \o <<>> \o <<>> \o <<>> = <<>>
      OBVIOUS
    <2>2. QED  BY <2>1, Reused DEF Init, OutputExact, Unsent
  <1>5. QED  BY <1>1, <1>2, <1>3, <1>4 DEF OutInv, Inv

-----------------------------------------------------------------------------
(* What the steps that touch a buffer do, in terms of its contents. *)

(* send() appends what it accepts to m_wating_send_pack. *)
LEMMA SendEffect ==
    ASSUME TypeInv, NEW n \in 1 .. MaxPack, Send(n)
    PROVE  /\ IsBuffer(Nat, m_wating_send_pack') /\ queued' \in BOOLEAN /\ (queued => queued')
           /\ \E src \in Seq(Nat) :
                 /\ accepted' = accepted \o src
                 /\ Contents(m_wating_send_pack') = Contents(m_wating_send_pack) \o src
  <1> USE DEF TypeInv
  <1> DEFINE src == Numbered(Len(accepted) + 1, Len(accepted) + n)
             r == write(m_wating_send_pack, src)
             c == Contents(m_wating_send_pack)
  <1>1. src \in Seq(Nat)
    BY NumberedType, LenProperties, IOAssumption
  <1> HIDE DEF src
  <1>2. /\ IsBuffer(Nat, r.buf)
        /\ r.ok <=> ~ (src = <<>> \/ Len(c) + Len(src) > m_wating_send_pack.limit)
        /\ Contents(r.buf) = IF r.ok THEN c \o src ELSE c
    BY <1>1, WriteAppends
  <1>3. /\ m_wating_send_pack' = r.buf
        /\ accepted' = IF r.ok THEN accepted \o src ELSE accepted
        /\ queued' = (queued \/ r.ok)
    BY DEF Send, src
  <1>4. c \in Seq(Nat) /\ <<>> \in Seq(Nat)
    BY ContentsType, EmptySeq
  <1>5. queued' \in BOOLEAN /\ (queued => queued')
    BY <1>3, Zenon
  <1> HIDE DEF r, c
  <1>6. CASE r.ok
    BY <1>1, <1>2, <1>3, <1>5, <1>6 DEF c
  <1>7. CASE ~ r.ok
    <2>1. accepted' = accepted \o <<>> /\ c = c \o <<>>
      BY <1>3, <1>4, <1>7, ConcatEmptySeq
    <2>2. Contents(m_wating_send_pack') = c
      BY <1>2, <1>3, <1>7
    <2>3. QED  BY <1>2, <1>3, <1>4, <1>5, <2>1, <2>2 DEF c
  <1>8. QED  BY <1>6, <1>7

(* Closing clears the three buffers. *)
LEMMA CloseEffect ==
    ASSUME TypeInv, RoomInv, MarkClose
    PROVE  /\ close_flag' = TRUE /\ queued' \in BOOLEAN /\ (queued => queued')
           /\ IsBuffer(Nat, m_recv_buffer') /\ IsBuffer(Nat, m_send_buffer')
           /\ IsBuffer(Nat, m_wating_send_pack')
           /\ m_send_buffer'.size <= Inner
           /\ Contents(m_send_buffer) = <<>> => Contents(m_send_buffer') = <<>>
  <1> USE DEF TypeInv, RoomInv
  <1>1. CASE close_flag
    BY <1>1 DEF MarkClose
  <1>2. CASE ~ close_flag
    <2> HIDE DEF buffer
    <2>1. m_recv_buffer' = buffer /\ m_send_buffer' = buffer /\ m_wating_send_pack' = buffer
          /\ close_flag' = TRUE /\ queued' = TRUE
      BY <1>2 DEF MarkClose
    <2>2. QED  BY <2>1, Cleared, InnerAssumption
  <1>3. QED  BY <1>1, <1>2

(* What was kept back is stored before anything else, or the task gives up. *)
LEMMA CarryEffect ==
    ASSUME TypeInv, Carry
    PROVE  /\ IsBuffer(Nat, m_recv_buffer') /\ carry' \in Seq(Nat)
           /\ \/ /\ pc' = "recv" /\ carry' = <<>>
                 /\ Contents(m_recv_buffer') = Contents(m_recv_buffer) \o carry
              \/ /\ pc' = "giveup" /\ UNCHANGED carry
                 /\ Contents(m_recv_buffer') = Contents(m_recv_buffer)
  <1> USE DEF TypeInv
  <1> DEFINE r == write(m_recv_buffer, carry)
             c == Contents(m_recv_buffer)
  <1>1. c \in Seq(Nat) /\ <<>> \in Seq(Nat) /\ c \o <<>> = c
    BY ContentsType, EmptySeq, ConcatEmptySeq
  <1>2. CASE carry = <<>>
    BY <1>1, <1>2 DEF Carry
  <1>3. CASE carry # <<>>
    <2>1. /\ IsBuffer(Nat, r.buf) /\ Contents(r.buf) = IF r.ok THEN c \o carry ELSE c
      BY WriteAppends
    <2>2. /\ m_recv_buffer' = r.buf
          /\ pc' = IF r.ok THEN "recv" ELSE "giveup"
          /\ carry' = IF r.ok THEN <<>> ELSE carry
      BY <1>3 DEF Carry
    <2> HIDE DEF r, c
    <2>3. QED  BY <1>1, <2>1, <2>2 DEF c
  <1>4. QED  BY <1>2, <1>3

(* ::recv's bytes are stored, or kept back with a task to come. *)
LEMMA RecvEffect ==
    ASSUME TypeInv, CarryInv, OffsetInv, NEW n \in 1 .. Inner, Recv(n)
    PROVE  /\ IsBuffer(Nat, m_recv_buffer') /\ carry' \in Seq(Nat) /\ arrived' \in Nat
           /\ pc = "recv" /\ carry = <<>> /\ offset = 0
           /\ \E src \in Seq(Nat) :
                 /\ Numbered(1, arrived') = Numbered(1, arrived) \o src
                 /\ \/ /\ UNCHANGED <<pc, carry, queued>>
                       /\ Contents(m_recv_buffer') = Contents(m_recv_buffer) \o src
                    \/ /\ pc' = "process" /\ carry' = src /\ queued' = TRUE
                       /\ Contents(m_recv_buffer') = Contents(m_recv_buffer)
  <1> USE DEF TypeInv
  <1> DEFINE src == Numbered(arrived + 1, arrived + n)
             r == write(m_recv_buffer, src)
             c == Contents(m_recv_buffer)
  <1>0. n \in Nat
    BY InnerAssumption
  <1>1. src \in Seq(Nat) /\ Numbered(1, arrived + n) = Numbered(1, arrived) \o src
    BY <1>0, NumberedType, NumberedOnwards
  <1> HIDE DEF src
  <1>2. IsBuffer(Nat, r.buf) /\ Contents(r.buf) = IF r.ok THEN c \o src ELSE c
    BY <1>1, WriteAppends
  <1>3. /\ pc = "recv" /\ m_recv_buffer' = r.buf /\ arrived' = arrived + n
        /\ IF r.ok THEN UNCHANGED <<pc, carry, queued>>
           ELSE pc' = "process" /\ carry' = src /\ queued' = TRUE
    BY DEF Recv, src
  <1>4. carry = <<>> /\ offset = 0
    BY <1>3 DEF CarryInv, OffsetInv
  <1>5. arrived' \in Nat
    BY <1>0, <1>3
  <1> HIDE DEF r, c
  <1>6. CASE r.ok
    BY <1>1, <1>2, <1>3, <1>4, <1>5, <1>6 DEF c
  <1>7. CASE ~ r.ok
    BY <1>1, <1>2, <1>3, <1>4, <1>5, <1>7 DEF c
  <1>8. QED  BY <1>6, <1>7

(* process_connection takes whole packages from the front. *)
LEMMA ProcessEffect ==
    ASSUME TypeInv, OffsetInv, NEW n \in Nat, Process(n)
    PROVE  LET c == Contents(m_recv_buffer)
           IN  /\ IsBuffer(Nat, m_recv_buffer') /\ Contents(m_recv_buffer') = c
               /\ offset = 0 /\ offset' = n /\ n \in 0 .. Len(c) /\ pc' = "moved"
               /\ consumed' = consumed \o SubSeq(c, 1, n) /\ consumed' \in Seq(Nat)
  <1> USE DEF TypeInv
  <1> DEFINE b == check_init(m_recv_buffer)
             c == Contents(m_recv_buffer)
  <1>1. IsBuffer(Nat, b) /\ Contents(b) = c
    BY CheckInit
  <1>2. get_readable_size(b) = Len(c) /\ Len(c) \in Nat /\ c \in Seq(Nat)
    BY <1>1, ContentsType, LenProperties DEF get_readable_size
  <1>3. /\ n <= get_readable_size(b) /\ m_recv_buffer' = b /\ offset' = n /\ pc' = "moved" /\ pc = "process"
        /\ consumed' = consumed \o SubSeq(c, 1, n)
    BY <1>1 DEF Process
  <1> HIDE DEF b, c
  <1>4. n \in 0 .. Len(c) /\ offset = 0
    BY <1>2, <1>3 DEF OffsetInv
  <1>5. consumed' \in Seq(Nat)
    BY <1>2, <1>3, <1>4, FrontAndRest, ConcatProperties
  <1>6. QED  BY <1>1, <1>3, <1>4, <1>5 DEF c

(* The read pointer moves to process_connection's offset. *)
LEMMA MovedEffect ==
    ASSUME TypeInv, RoomInv, OffsetInv, Moved
    PROVE  /\ offset' = 0 /\ pc' = "fill"
           /\ \/ MarkClose /\ close_flag' = TRUE
              \/ /\ IsBuffer(Nat, m_recv_buffer')
                 /\ UNCHANGED <<m_send_buffer, m_wating_send_pack, close_flag, queued>>
                 /\ offset \in 0 .. Len(Contents(m_recv_buffer))
                 /\ Contents(m_recv_buffer') = SubSeq(Contents(m_recv_buffer), offset + 1,
                                                      Len(Contents(m_recv_buffer)))
  <1> USE DEF TypeInv
  <1> DEFINE r == read_ptr_move_n(m_recv_buffer, offset)
             c == Contents(m_recv_buffer)
  <1>1. /\ IsBuffer(Nat, r.buf) /\ (r.ok <=> offset <= Len(c))
        /\ Contents(r.buf) = IF offset <= Len(c) THEN SubSeq(c, offset + 1, Len(c)) ELSE c
    BY MoveDrops
  <1>2. /\ offset' = 0 /\ pc' = "fill"
        /\ IF r.ok
           THEN m_recv_buffer' = r.buf /\ UNCHANGED <<m_send_buffer, m_wating_send_pack, close_flag, queued>>
           ELSE MarkClose
    BY DEF Moved
  <1>3. Len(c) \in Nat
    BY ContentsType, LenProperties
  <1> HIDE DEF r, c
  <1>4. CASE r.ok
    BY <1>1, <1>2, <1>3, <1>4 DEF c
  <1>5. CASE ~ r.ok
    BY <1>2, <1>5, CloseEffect
  <1>6. QED  BY <1>4, <1>5

(* The inner buffer is filled from m_send_buffer when it is used up. *)
LEMMA FillEffect ==
    ASSUME TypeInv, RoomInv, Fill
    PROVE  /\ IsBuffer(Nat, m_send_buffer') /\ m_send_buffer'.size <= Inner
           /\ m_send_buffer'.limit = m_send_buffer.limit
           /\ \/ /\ should_send_idx = 0 /\ pc' = "out"
                 /\ UNCHANGED <<m_send_buffer, out_inner, should_send_idx, should_send_size>>
              \/ /\ should_send_idx = -1 /\ pc' = "refill"
                 /\ UNCHANGED <<out_inner, should_send_idx, should_send_size>>
                 /\ Contents(m_send_buffer) = <<>> /\ Contents(m_send_buffer') = <<>>
              \/ /\ should_send_idx = -1 /\ pc' = "out" /\ should_send_idx' = 0
                 /\ out_inner' \in Seq(Nat) /\ should_send_size' = Len(out_inner')
                 /\ Contents(m_send_buffer) = out_inner' \o Contents(m_send_buffer')
  <1> USE DEF TypeInv, RoomInv
  <1> DEFINE r == read(m_send_buffer, Inner)
             c == Contents(m_send_buffer)
             k == IF Inner <= Len(c) THEN Inner ELSE Len(c)
  <1>1. CASE should_send_idx >= 0
    BY <1>1 DEF Fill
  <1>2. CASE ~ (should_send_idx >= 0)
    <2>1. /\ IsBuffer(Nat, r.buf) /\ r.buf.limit = m_send_buffer.limit
          /\ r.buf.size = check_init(m_send_buffer).size
          /\ k \in 0 .. Len(c) /\ c \in Seq(Nat)
          /\ r.data = SubSeq(c, 1, k) /\ Contents(r.buf) = SubSeq(c, k + 1, Len(c))
      BY ZenonT(30), InnerAssumption, ReadTakes
    <2>2. /\ m_send_buffer' = r.buf
          /\ IF r.data # <<>>
             THEN /\ out_inner' = r.data /\ should_send_idx' = 0 /\ should_send_size' = Len(r.data)
                  /\ pc' = "out"
             ELSE pc' = "refill" /\ UNCHANGED <<out_inner, should_send_idx, should_send_size>>
      BY <1>2 DEF Fill
    <2>3. r.data \in Seq(Nat) /\ Len(r.data) = k /\ r.data \o Contents(r.buf) = c
      <3> HIDE DEF r, c, k
      <3>1. QED  BY <2>1, FrontAndRest
    <2>4. r.buf.size <= Inner
      BY <2>1, InitSize
    <2>5. Inner \in Nat \ {0} /\ Len(c) \in Nat
      BY <2>1, InnerAssumption, MinSizeAssumption, LenProperties
    <2>6. should_send_idx = -1
      BY <1>2
    <2>7. CASE r.data # <<>>
      <3> HIDE DEF r, c
      <3>1. QED  BY <2>1, <2>2, <2>3, <2>4, <2>6, <2>7 DEF c
    <2>8. CASE r.data = <<>>
      <3>1. k = 0
        BY <2>3, <2>8
      <3>2. Len(c) = 0
        BY <2>5, <3>1
      <3>3. c = <<>>
        BY <2>1, <3>2, EmptySeq
      <3>4. Contents(r.buf) = <<>>
        BY <2>1, <3>1, <3>2, SubSeqEmpty
      <3> HIDE DEF r, c, k
      <3>5. QED  BY <2>1, <2>2, <2>4, <2>6, <2>8, <3>3, <3>4 DEF c
    <2>9. QED  BY <2>7, <2>8
  <1>3. QED  BY <1>1, <1>2

(* m_send_buffer is refilled, when empty, from m_wating_send_pack. *)
LEMMA RefillEffect ==
    ASSUME TypeInv, RoomInv, Refill
    PROVE  /\ IsBuffer(Nat, m_send_buffer') /\ m_send_buffer'.size <= Inner
           /\ IsBuffer(Nat, m_wating_send_pack')
           /\ m_send_buffer'.limit = m_send_buffer.limit
           /\ Contents(m_send_buffer) = <<>>
           /\ \/ /\ pc' \in {"giveup", "idle"} /\ UNCHANGED m_send_buffer
                 /\ Contents(m_wating_send_pack') = Contents(m_wating_send_pack)
              \/ /\ pc' = "fill"
                 /\ Contents(m_wating_send_pack) =
                       Contents(m_send_buffer') \o Contents(m_wating_send_pack')
  <1> USE DEF TypeInv, RoomInv
  <1> DEFINE room == blank_space(m_send_buffer)
             n == Least(room, Inner)
             r == read(m_wating_send_pack, n)
             c == Contents(m_wating_send_pack)
             k == IF n <= Len(c) THEN n ELSE Len(c)
             w == write(m_send_buffer, r.data)
  <1>1. pc = "refill" /\ Contents(m_send_buffer) = <<>>
    BY DEF Refill
  <1>2. room = m_send_buffer.limit - m_send_buffer.wr /\ room \in Nat /\ room <= m_send_buffer.limit
        /\ m_send_buffer.limit \in Nat
    <2>1. /\ room = m_send_buffer.limit - m_send_buffer.wr
          /\ m_send_buffer.limit \in Nat /\ m_send_buffer.wr \in Nat
      BY BlankSpaceIs
    <2>2. m_send_buffer.wr <= m_send_buffer.size /\ m_send_buffer.size <= m_send_buffer.limit
          /\ m_send_buffer.size \in Nat
      BY DEF IsBuffer, Buf
    <2> HIDE DEF room
    <2>3. QED  BY <2>1, <2>2
  <1> HIDE DEF room
  <1>3. n \in Nat /\ n <= room /\ n <= Inner
    BY <1>2, InnerAssumption DEF Least
  <1> HIDE DEF n
  <1>4. /\ IsBuffer(Nat, r.buf) /\ k \in 0 .. Len(c) /\ c \in Seq(Nat)
        /\ r.data = SubSeq(c, 1, k) /\ Contents(r.buf) = SubSeq(c, k + 1, Len(c))
    BY <1>3, ReadTakes
  <1>5. r.data \in Seq(Nat) /\ Len(r.data) = k /\ r.data \o Contents(r.buf) = c
    <2> HIDE DEF r, c, k, w
    <2>1. /\ SubSeq(c, 1, k) \in Seq(Nat) /\ Len(SubSeq(c, 1, k)) = k
          /\ SubSeq(c, 1, k) \o SubSeq(c, k + 1, Len(c)) = c
      BY <1>4, FrontAndRest
    <2>2. QED  BY <1>4, <2>1
  <1>6. Len(c) \in Nat /\ k \in Nat /\ k <= n
    BY <1>3, <1>4, LenProperties
  <1>7. CASE room = 0
    BY <1>1, <1>7 DEF Refill, room
  <1>8. CASE room # 0
    <2>1. /\ m_wating_send_pack' = r.buf
          /\ IF r.data = <<>>
             THEN pc' = "idle" /\ UNCHANGED m_send_buffer
             ELSE m_send_buffer' = w.buf /\ pc' = IF w.ok THEN "fill" ELSE "giveup"
      BY <1>8 DEF Refill, room, n
    <2> HIDE DEF c, k, r
    <2>2. CASE r.data = <<>>
      <3>1. <<>> \o Contents(r.buf) = Contents(r.buf)
        BY <1>4, ContentsType, ConcatEmptySeq
      <3>2. QED  BY <1>1, <1>4, <1>5, <2>1, <2>2, <3>1 DEF c
    <2>3. CASE r.data # <<>>
      <3>1. /\ IsBuffer(Nat, w.buf) /\ w.buf.limit = m_send_buffer.limit
            /\ w.ok <=> ~ (r.data = <<>> \/ Len(Contents(m_send_buffer)) + Len(r.data) > m_send_buffer.limit)
            /\ Contents(w.buf) = IF w.ok THEN Contents(m_send_buffer) \o r.data ELSE Contents(m_send_buffer)
        BY <1>5, WriteAppends
      <3>2. w.buf.size <= Inner
        <4>1. check_init(m_send_buffer).size <= Inner /\ Inner \in Nat
          BY InitSize, InnerAssumption
        <4>2. Len(Contents(m_send_buffer)) + Len(r.data) <= Inner
          <5>1. Len(Contents(m_send_buffer)) = 0
            BY <1>1
          <5>2. QED  BY <1>3, <1>5, <1>6, <5>1, InnerAssumption
        <4>3. QED  BY <1>5, <4>1, <4>2, WriteGrows
      <3>3. Len(Contents(m_send_buffer)) = 0 /\ Contents(m_send_buffer) \o r.data = r.data
        BY <1>1, <1>5, ConcatEmptySeq
      <3> HIDE DEF w
      <3>4. w.ok
        BY <1>2, <1>3, <1>5, <1>6, <2>3, <3>1, <3>3
      <3>5. QED  BY <1>1, <1>4, <1>5, <2>1, <2>3, <3>1, <3>2, <3>3, <3>4 DEF c
    <2>4. QED  BY <2>2, <2>3
  <1>9. QED  BY <1>7, <1>8

(* ::send takes bytes from the front of the inner buffer. *)
LEMMA OutEffect ==
    ASSUME TypeInv, NEW n \in 1 .. Inner, Out(n)
    PROVE  /\ wire' \in Seq(Nat) /\ out_inner' \in Seq(Nat)
           /\ should_send_idx' \in {-1, 0} /\ should_send_size' \in Nat
           /\ should_send_size' <= IF should_send_idx' = 0 THEN Len(out_inner') ELSE 0
           /\ should_send_idx = 0 /\ n <= Len(out_inner)
           /\ wire' = wire \o SubSeq(out_inner, 1, n)
  <1> USE DEF TypeInv
  <1>1. /\ n \in 1 .. should_send_size
        /\ wire' = wire \o SubSeq(out_inner, should_send_idx + 1, should_send_idx + n)
        /\ should_send_size' = should_send_size - n
        /\ IF should_send_size = n THEN should_send_idx' = -1 /\ out_inner' = <<>>
           ELSE UNCHANGED <<should_send_idx, out_inner>>
    BY DEF Out
  <1>2. should_send_idx = 0 /\ n \in 0 .. Len(out_inner) /\ Len(out_inner) \in Nat
    BY <1>1, LenProperties
  <1>3. SubSeq(out_inner, 1, n) \in Seq(Nat)
    BY <1>2, FrontAndRest
  <1>4. wire' = wire \o SubSeq(out_inner, 1, n)
    BY SMTT(30), <1>1, <1>2
  <1>5. wire' \in Seq(Nat)
    BY <1>3, <1>4, ConcatProperties
  <1>6. CASE should_send_size = n
    BY <1>1, <1>2, <1>4, <1>5, <1>6, EmptySeq
  <1>7. CASE should_send_size # n
    BY <1>1, <1>2, <1>4, <1>5, <1>7
  <1>8. QED  BY <1>6, <1>7

(* A failing process_connection closes, or leaves the buffers alone. *)
LEMMA FailEffect ==
    ASSUME TypeInv, RoomInv, ProcessFails
    PROVE  /\ IsBuffer(Nat, m_recv_buffer') /\ IsBuffer(Nat, m_send_buffer')
           /\ IsBuffer(Nat, m_wating_send_pack')
           /\ m_send_buffer'.size <= Inner
           /\ pc = "process" /\ queued' \in BOOLEAN /\ (queued => queued')
           /\ \/ pc' = "fill" /\ close_flag' = TRUE
              \/ pc' = "giveup" /\ UNCHANGED <<buffers, close_flag, queued>>
  <1> USE DEF TypeInv, RoomInv
  <1> HIDE DEF buffer
  <1>1. CASE pc' = "giveup" /\ UNCHANGED <<buffers, close_flag, queued>>
    BY <1>1 DEF ProcessFails
  <1>2. CASE /\ pc' = "fill" /\ close_flag' = TRUE /\ m_recv_buffer' = buffer
             /\ \/ UNCHANGED <<m_send_buffer, m_wating_send_pack, queued>>
                \/ m_send_buffer' = buffer /\ m_wating_send_pack' = buffer /\ queued' = TRUE
    <2>1. pc = "process"
      BY DEF ProcessFails
    <2>2. CASE UNCHANGED <<m_send_buffer, m_wating_send_pack, queued>>
      BY <1>2, <2>1, <2>2, Cleared
    <2>3. CASE m_send_buffer' = buffer /\ m_wating_send_pack' = buffer /\ queued' = TRUE
      BY <1>2, <2>1, <2>3, Cleared, InnerAssumption
    <2>4. QED  BY <1>2, <2>2, <2>3
  <1>3. QED  BY <1>1, <1>2 DEF ProcessFails

-----------------------------------------------------------------------------
(* Each part of the invariant is kept. *)

(* Every step keeps the types and the buffers proper. *)
LEMMA TypeStep ==
    ASSUME TypeInv, RoomInv, OffsetInv, CarryInv, [Next]_vars
    PROVE  TypeInv'
  <1> USE DEF TypeInv
  <1>1. ASSUME NEW n \in 1 .. MaxPack, Send(n)  PROVE TypeInv'
    <2>1. PICK src \in Seq(Nat) : accepted' = accepted \o src
      BY <1>1, SendEffect
    <2>2. accepted' \in Seq(Nat)
      BY <2>1, ConcatProperties
    <2>3. QED  BY <1>1, <2>2, SendEffect DEF Send
  <1>2. ASSUME NEW n \in 1 .. Inner, Recv(n)  PROVE TypeInv'
    <2>1. pc' \in TaskAt /\ queued' \in BOOLEAN
      BY <1>2, RecvEffect DEF TaskAt
    <2>2. QED  BY <1>2, <2>1, RecvEffect DEF Recv
  <1>3. ASSUME NEW n \in 1 .. Inner, Out(n)  PROVE TypeInv'
    BY <1>3, OutEffect DEF Out, TaskAt
  <1>4. ASSUME NEW n \in 0 .. MaxIn, Process(n)  PROVE TypeInv'
    <2>1. n \in Nat
      BY IOAssumption
    <2>2. QED  BY <1>4, <2>1, ProcessEffect DEF Process, TaskAt
  <1>5. CASE Hangup
    BY <1>5, CloseEffect DEF Hangup
  <1>6. CASE Run
    BY <1>6 DEF Run, TaskAt
  <1>7. CASE Reuse
    <2> HIDE DEF ReusedBuffer
    <2>1. should_send_size' <= IF should_send_idx' = 0 THEN Len(out_inner') ELSE 0
      BY <1>7 DEF Reuse
    <2>2. QED  BY <1>7, <2>1, Reused, EmptySeq DEF Reuse
  <1>8. CASE Carry
    <2>1. pc' \in TaskAt
      BY <1>8, CarryEffect DEF TaskAt
    <2>2. QED  BY <1>8, <2>1, CarryEffect DEF Carry
  <1>9. CASE RecvEnds
    BY <1>9 DEF RecvEnds, TaskAt
  <1>10. CASE GiveUp
    BY <1>10, CloseEffect DEF GiveUp, TaskAt
  <1>11. CASE ProcessFails
    <2>1. pc' \in TaskAt /\ close_flag' \in BOOLEAN
      BY <1>11, FailEffect DEF TaskAt
    <2>2. QED  BY <1>11, <2>1, FailEffect DEF ProcessFails
  <1>12. CASE Moved
    <2>1. UNCHANGED <<carry, arrived, consumed, outVars, accepted>>
      BY <1>12 DEF Moved
    <2>2. /\ IsBuffer(Nat, m_recv_buffer') /\ IsBuffer(Nat, m_send_buffer')
          /\ IsBuffer(Nat, m_wating_send_pack') /\ close_flag' \in BOOLEAN /\ queued' \in BOOLEAN
      BY <1>12, MovedEffect, CloseEffect
    <2>3. offset' \in Nat /\ pc' \in TaskAt
      BY <1>12 DEF Moved, TaskAt
    <2>4. QED  BY <2>1, <2>2, <2>3
  <1>13. CASE Fill
    <2>1. /\ UNCHANGED <<m_recv_buffer, m_wating_send_pack, inVars, wire, close_flag, queued, accepted>>
          /\ pc' \in TaskAt /\ IsBuffer(Nat, m_send_buffer')
      BY <1>13, FillEffect DEF Fill, TaskAt
    <2>2. /\ out_inner' \in Seq(Nat) /\ should_send_idx' \in {-1, 0} /\ should_send_size' \in Nat
          /\ should_send_size' <= IF should_send_idx' = 0 THEN Len(out_inner') ELSE 0
      <3>1. CASE UNCHANGED <<out_inner, should_send_idx, should_send_size>>
        BY <3>1
      <3>2. CASE /\ should_send_idx' = 0 /\ out_inner' \in Seq(Nat) /\ should_send_size' = Len(out_inner')
        BY <3>2, LenProperties
      <3>3. QED  BY <1>13, <3>1, <3>2, FillEffect
    <2>3. QED  BY <2>1, <2>2
  <1>14. CASE Refill
    <2>1. pc' \in TaskAt
      BY <1>14, RefillEffect DEF TaskAt
    <2>2. QED  BY <1>14, <2>1, RefillEffect DEF Refill
  <1>15. CASE OutEnds
    BY <1>15 DEF OutEnds, TaskAt
  <1>16. CASE UNCHANGED vars
    BY <1>16
  <1>17. QED
    BY <1>1, <1>2, <1>3, <1>4, <1>5, <1>6, <1>7, <1>8, <1>9, <1>10, <1>11, <1>12, <1>13, <1>14, <1>15, <1>16
       DEF Next

(* Every step keeps m_send_buffer within what a refill needs. *)
LEMMA RoomStep ==
    ASSUME TypeInv, RoomInv, OffsetInv, CarryInv, [Next]_vars
    PROVE  RoomInv'
  <1>2. CASE Hangup \/ GiveUp
    <2>1. pc' = "refill" => pc = "refill" /\ UNCHANGED should_send_idx
      BY <1>2 DEF Hangup, GiveUp
    <2>2. MarkClose
      BY <1>2 DEF Hangup, GiveUp
    <2>3. QED  BY <2>1, <2>2, CloseEffect DEF RoomInv
  <1>3. CASE Reuse
    <2> HIDE DEF ReusedBuffer
    <2>1. m_send_buffer' = ReusedBuffer /\ pc' = "idle"
      BY <1>3 DEF Reuse
    <2>2. QED  BY <2>1, Reused, InnerAssumption DEF RoomInv
  <1>4. CASE ProcessFails
    BY <1>4, FailEffect DEF RoomInv
  <1>5. CASE Moved
    <2>1. CASE MarkClose /\ close_flag' = TRUE
      BY <1>5, <2>1, MovedEffect, CloseEffect DEF RoomInv
    <2>2. CASE UNCHANGED <<m_send_buffer, close_flag>>
      BY <1>5, <2>2, MovedEffect DEF RoomInv
    <2>3. QED  BY <1>5, <2>1, <2>2, MovedEffect
  <1>6. CASE Fill
    <2>1. UNCHANGED close_flag
      BY <1>6 DEF Fill
    <2>2. pc' = "refill" => Contents(m_send_buffer') = <<>> /\ should_send_idx' = -1
      BY <1>6, FillEffect
    <2>3. QED  BY <1>6, <2>1, <2>2, FillEffect DEF RoomInv
  <1>7. CASE Refill
    <2>1. UNCHANGED close_flag /\ pc' # "refill"
      BY <1>7, RefillEffect DEF Refill
    <2>2. QED  BY <1>7, <2>1, RefillEffect DEF RoomInv
  <1>8. ASSUME NEW n \in 1 .. MaxPack, Send(n)  PROVE RoomInv'
    BY <1>8 DEF Send, RoomInv
  <1>9. ASSUME NEW n \in 1 .. Inner, Recv(n)  PROVE RoomInv'
    <2>1. pc' # "refill"
      BY <1>9, RecvEffect
    <2>2. QED  BY <1>9, <2>1 DEF Recv, RoomInv
  <1>10. ASSUME NEW n \in 1 .. Inner, Out(n)  PROVE RoomInv'
    BY <1>10 DEF Out, RoomInv
  <1>11. ASSUME NEW n \in 0 .. MaxIn, Process(n)  PROVE RoomInv'
    BY <1>11 DEF Process, RoomInv
  <1>12. CASE Run \/ RecvEnds \/ OutEnds
    BY <1>12 DEF Run, RecvEnds, OutEnds, RoomInv
  <1>13. CASE Carry
    <2>1. pc' # "refill"
      BY <1>13, CarryEffect
    <2>2. QED  BY <1>13, <2>1 DEF Carry, RoomInv
  <1>14. CASE UNCHANGED vars
    BY <1>14 DEF RoomInv
  <1>15. QED
    BY <1>2, <1>3, <1>4, <1>5, <1>6, <1>7, <1>8, <1>9, <1>10, <1>11, <1>12, <1>13, <1>14 DEF Next

(* Only between process and moved are there bytes passed and not yet dropped. *)
LEMMA OffsetStep ==
    ASSUME TypeInv, RoomInv, OffsetInv, CarryInv, [Next]_vars
    PROVE  OffsetInv'
  <1>1. ASSUME NEW n \in 0 .. MaxIn, Process(n)  PROVE OffsetInv'
    <2>1. n \in Nat
      BY IOAssumption
    <2>2. /\ offset' = n /\ pc' = "moved" /\ n <= Len(Contents(m_recv_buffer))
          /\ Contents(m_recv_buffer') = Contents(m_recv_buffer)
      BY <1>1, <2>1, ProcessEffect
    <2>3. QED  BY <2>2 DEF OffsetInv
  <1>2. ASSUME NEW n \in 1 .. Inner, Recv(n)  PROVE OffsetInv'
    <2>1. offset = 0 /\ pc' \in {"recv", "process"}
      BY <1>2, RecvEffect
    <2>2. UNCHANGED offset
      BY <1>2 DEF Recv
    <2>3. QED  BY <2>1, <2>2 DEF OffsetInv
  <1>3. CASE Carry
    <2>1. pc = "carry" /\ UNCHANGED offset
      BY <1>3 DEF Carry
    <2>2. pc' # "moved"
      BY <1>3, CarryEffect
    <2>3. QED  BY <2>1, <2>2 DEF OffsetInv
  <1>4. CASE Moved
    BY <1>4, MovedEffect DEF OffsetInv
  <1>5. CASE ProcessFails
    <2>1. UNCHANGED offset
      BY <1>5 DEF ProcessFails
    <2>2. QED  BY <1>5, <2>1, FailEffect DEF OffsetInv
  <1>6. CASE Reuse
    <2>1. offset' = 0 /\ pc' = "idle"
      BY <1>6 DEF Reuse
    <2>2. QED  BY <2>1 DEF OffsetInv
  <1>7. CASE Hangup
    <2>1. close_flag' = TRUE /\ UNCHANGED <<pc, offset>>
      BY <1>7, CloseEffect DEF Hangup
    <2>2. QED  BY <2>1 DEF OffsetInv
  <1>8. CASE GiveUp
    <2>1. pc = "giveup" /\ pc' = "idle" /\ UNCHANGED offset
      BY <1>8 DEF GiveUp
    <2>2. QED  BY <2>1 DEF OffsetInv
  <1>9. CASE Fill
    <2>1. pc = "fill" /\ UNCHANGED offset
      BY <1>9 DEF Fill
    <2>2. pc' # "moved"
      BY <1>9, FillEffect
    <2>3. QED  BY <2>1, <2>2 DEF OffsetInv
  <1>10. CASE Refill
    <2>1. pc = "refill" /\ UNCHANGED offset
      BY <1>10 DEF Refill
    <2>2. pc' # "moved"
      BY <1>10, RefillEffect
    <2>3. QED  BY <2>1, <2>2 DEF OffsetInv
  <1>11. ASSUME NEW n \in 1 .. MaxPack, Send(n)  PROVE OffsetInv'
    BY <1>11 DEF Send, OffsetInv
  <1>12. ASSUME NEW n \in 1 .. Inner, Out(n)  PROVE OffsetInv'
    BY <1>12 DEF Out, OffsetInv
  <1>13. CASE Run \/ RecvEnds \/ OutEnds
    BY <1>13 DEF Run, RecvEnds, OutEnds, OffsetInv
  <1>14. CASE UNCHANGED vars
    BY <1>14 DEF OffsetInv
  <1>15. QED
    BY <1>1, <1>2, <1>3, <1>4, <1>5, <1>6, <1>7, <1>8, <1>9, <1>10, <1>11, <1>12, <1>13, <1>14 DEF Next

(* What is kept back has a task. *)
LEMMA CarryStep ==
    ASSUME TypeInv, RoomInv, OffsetInv, CarryInv, [Next]_vars
    PROVE  CarryInv'
  <1>1. ASSUME NEW n \in 0 .. MaxIn, Process(n)  PROVE CarryInv'
    BY <1>1 DEF Process, CarryInv
  <1>2. ASSUME NEW n \in 1 .. Inner, Recv(n)  PROVE CarryInv'
    <2>1. \/ UNCHANGED <<pc, carry, queued>>
          \/ pc' = "process" /\ queued' = TRUE
      BY <1>2, RecvEffect
    <2>2. UNCHANGED close_flag
      BY <1>2 DEF Recv
    <2>3. QED  BY <2>1, <2>2 DEF CarryInv
  <1>3. CASE Carry
    <2>1. UNCHANGED <<queued, close_flag>>
      BY <1>3 DEF Carry
    <2>2. QED  BY <1>3, <2>1, CarryEffect DEF CarryInv
  <1>4. CASE Moved
    <2>1. pc = "moved" /\ pc' = "fill" /\ UNCHANGED carry
      BY <1>4 DEF Moved
    <2>2. close_flag' = TRUE \/ UNCHANGED <<close_flag, queued>>
      BY <1>4, MovedEffect
    <2>3. QED  BY <2>1, <2>2 DEF CarryInv
  <1>5. CASE ProcessFails
    <2>1. UNCHANGED carry
      BY <1>5 DEF ProcessFails
    <2>2. QED  BY <1>5, <2>1, FailEffect DEF CarryInv
  <1>6. CASE Reuse
    <2>1. carry' = <<>>
      BY <1>6 DEF Reuse
    <2>2. QED  BY <2>1 DEF CarryInv
  <1>7. CASE Hangup
    <2>1. close_flag' = TRUE /\ UNCHANGED <<pc, carry>>
      BY <1>7, CloseEffect DEF Hangup
    <2>2. QED  BY <2>1 DEF CarryInv
  <1>8. CASE GiveUp
    <2>1. close_flag' = TRUE /\ pc' = "idle"
      BY <1>8, CloseEffect DEF GiveUp
    <2>2. QED  BY <2>1 DEF CarryInv
  <1>9. CASE Fill
    <2>1. pc = "fill" /\ UNCHANGED <<carry, close_flag, queued>>
      BY <1>9 DEF Fill
    <2>2. pc' # "recv"
      BY <1>9, FillEffect
    <2>3. QED  BY <2>1, <2>2 DEF CarryInv
  <1>10. CASE Refill
    <2>1. pc = "refill" /\ UNCHANGED <<carry, close_flag, queued>>
      BY <1>10 DEF Refill
    <2>2. pc' # "recv"
      BY <1>10, RefillEffect
    <2>3. QED  BY <2>1, <2>2 DEF CarryInv
  <1>11. ASSUME NEW n \in 1 .. MaxPack, Send(n)  PROVE CarryInv'
    <2>1. UNCHANGED <<carry, close_flag, pc>>
      BY <1>11 DEF Send
    <2>2. queued => queued'
      BY <1>11, SendEffect
    <2>3. QED  BY <2>1, <2>2 DEF CarryInv
  <1>12. ASSUME NEW n \in 1 .. Inner, Out(n)  PROVE CarryInv'
    BY <1>12 DEF Out, CarryInv
  <1>13. CASE Run \/ RecvEnds \/ OutEnds
    BY <1>13 DEF Run, RecvEnds, OutEnds, CarryInv
  <1>14. CASE UNCHANGED vars
    BY <1>14 DEF CarryInv
  <1>15. QED
    BY <1>1, <1>2, <1>3, <1>4, <1>5, <1>6, <1>7, <1>8, <1>9, <1>10, <1>11, <1>12, <1>13, <1>14 DEF Next

-----------------------------------------------------------------------------
(* The received bytes. *)

(* A slice of everything. *)
LEMMA WholeOf ==
    ASSUME NEW B, NEW c \in Seq(B)
    PROVE  SubSeq(c, 0 + 1, Len(c)) = c
  <1>1. Len(c) \in Nat /\ 0 + 1 = 1
    BY LenProperties
  <1>2. QED  BY <1>1, SubSeqFull

(* Concatenation is associative. *)
LEMMA Regroup == \A s, t, u \in Seq(Nat) : (s \o t) \o u = s \o (t \o u)
  BY SMTT(30), ConcatAssociative

(* Once up, close_flag comes down in reuse() only. *)
LEMMA OnlyReuseOpens ==
    ASSUME TypeInv, RoomInv, OffsetInv, [Next]_vars, close_flag, ~ close_flag'
    PROVE  Reuse
  <1>1. CASE Hangup \/ GiveUp
    BY <1>1, CloseEffect DEF Hangup, GiveUp
  <1>2. CASE ProcessFails
    BY <1>2, FailEffect
  <1>3. CASE Moved
    BY <1>3, MovedEffect
  <1>4. QED
    BY <1>1, <1>2, <1>3
       DEF Next, Send, Recv, Out, Process, Run, Carry, RecvEnds, Fill, Refill, OutEnds

(* Every step keeps the input exact. *)
LEMMA InputStep ==
    ASSUME TypeInv, RoomInv, OffsetInv, CarryInv, InputExact, [Next]_vars
    PROVE  InputExact'
  <1> DEFINE c == Contents(m_recv_buffer)
             d == consumed
             rest == SubSeq(c, offset + 1, Len(c))
  <1> SUFFICES ASSUME ~ close_flag'  PROVE InputExact'
    BY DEF InputExact
  <1>1. /\ c \in Seq(Nat) /\ Len(c) \in Nat /\ d \in Seq(Nat) /\ carry \in Seq(Nat)
        /\ offset \in Nat /\ SubSeq(c, 0 + 1, Len(c)) = c
    <2>1. c \in Seq(Nat)
      BY ContentsType DEF TypeInv
    <2> HIDE DEF c
    <2>2. QED  BY <2>1, WholeOf, LenProperties DEF TypeInv
  <1>2. CASE Reuse
    <2> HIDE DEF ReusedBuffer
    <2>1. /\ m_recv_buffer' = ReusedBuffer /\ carry' = <<>> /\ offset' = 0
          /\ arrived' = 0 /\ consumed' = <<>>
      BY <1>2 DEF Reuse
    <2>2. Contents(m_recv_buffer') = <<>>
      BY <2>1, Reused
    <2>3. Numbered(1, 0) = <<>> /\ SubSeq(<<>>, 0 + 1, Len(<<>>)) = <<>> /\ <<>> \o <<>> \o <<>> = <<>>
      BY DEF Numbered
    <2>4. QED  BY <2>1, <2>2, <2>3 DEF InputExact
  <1>3. ASSUME ~ Reuse  PROVE ~ close_flag
    BY <1>3, OnlyReuseOpens
  <1>4. ASSUME ~ close_flag  PROVE Numbered(1, arrived) = d \o rest \o carry
    BY <1>4 DEF InputExact
  <1>5. ASSUME ~ close_flag, UNCHANGED inVars, Contents(m_recv_buffer') = c  PROVE InputExact'
    <2>1. /\ carry' = carry /\ offset' = offset /\ arrived' = arrived /\ consumed' = consumed
      BY <1>5
    <2>2. QED  BY <1>4, <1>5, <2>1 DEF InputExact
  <1>6. ASSUME NEW n \in 1 .. Inner, Recv(n)  PROVE InputExact'
    <2>1. ~ close_flag /\ UNCHANGED <<offset, consumed>>
      BY <1>6 DEF Recv
    <2>2. carry = <<>> /\ offset = 0
      BY <1>6, RecvEffect
    <2>3. PICK src \in Seq(Nat) :
              /\ Numbered(1, arrived') = Numbered(1, arrived) \o src
              /\ \/ carry' = carry /\ Contents(m_recv_buffer') = c \o src
                 \/ carry' = src /\ Contents(m_recv_buffer') = c
      BY <1>6, RecvEffect
    <2> HIDE DEF c
    <2>4. d \o c \in Seq(Nat) /\ d \o (c \o src) \in Seq(Nat) /\ c \o src \in Seq(Nat)
      BY <1>1, ConcatProperties
    <2>5. Numbered(1, arrived) = d \o c
      <3>1. Numbered(1, arrived) = d \o c \o <<>>
        BY <1>1, <1>4, <2>1, <2>2
      <3>2. QED  BY <2>4, <3>1, ConcatEmptySeq
    <2>6. CASE carry' = carry /\ Contents(m_recv_buffer') = c \o src
      <3>1. d \o (c \o src) \o <<>> = d \o c \o src
        <4>1. d \o (c \o src) \o <<>> = d \o (c \o src)
          BY <2>4, ConcatEmptySeq, Zenon
        <4>2. d \o c \o src = d \o (c \o src)
          BY <1>1, Regroup
        <4>3. QED  BY <4>1, <4>2
      <3>2. SubSeq(c \o src, 0 + 1, Len(c \o src)) = c \o src
        BY <2>4, WholeOf
      <3>3. QED  BY <2>1, <2>2, <2>3, <2>5, <2>6, <3>1, <3>2 DEF InputExact
    <2>7. CASE carry' = src /\ Contents(m_recv_buffer') = c
      BY <1>1, <2>1, <2>2, <2>3, <2>5, <2>7 DEF InputExact
    <2>8. QED  BY <2>3, <2>6, <2>7
  <1>7. ASSUME NEW n \in 0 .. MaxIn, Process(n)  PROVE InputExact'
    <2>1. ~ close_flag /\ UNCHANGED <<carry, arrived>> /\ n \in Nat
      BY <1>7, IOAssumption DEF Process
    <2>2. /\ Contents(m_recv_buffer') = c /\ offset = 0 /\ offset' = n /\ n \in 0 .. Len(c)
          /\ consumed' = d \o SubSeq(c, 1, n)
      BY <1>7, <2>1, ProcessEffect
    <2> HIDE DEF c
    <2>3. /\ SubSeq(c, 1, n) \in Seq(Nat) /\ SubSeq(c, n + 1, Len(c)) \in Seq(Nat)
          /\ SubSeq(c, 1, n) \o SubSeq(c, n + 1, Len(c)) = c
      BY ZenonT(30), <1>1, <2>2, FrontAndRest
    <2>4. Numbered(1, arrived) = d \o c \o carry
      BY <1>1, <1>4, <2>1, <2>2
    <2>5. (d \o SubSeq(c, 1, n)) \o SubSeq(c, n + 1, Len(c)) = d \o c
      <3> DEFINE s == SubSeq(c, 1, n)
                 t == SubSeq(c, n + 1, Len(c))
      <3>1. s \in Seq(Nat) /\ t \in Seq(Nat) /\ s \o t = c
        BY <2>3
      <3> HIDE DEF s, t, d
      <3>2. (d \o s) \o t = d \o (s \o t)
        BY <1>1, <3>1, Regroup
      <3>3. QED  BY <3>1, <3>2 DEF s, t
    <2>6. QED  BY <2>1, <2>2, <2>4, <2>5 DEF InputExact
  <1>8. CASE Carry
    <2>1. ~ close_flag /\ UNCHANGED <<offset, arrived, consumed>> /\ offset = 0
      BY <1>8 DEF Carry, OffsetInv
    <2>2. CASE UNCHANGED carry /\ Contents(m_recv_buffer') = c
      BY <1>5, <2>1, <2>2
    <2>3. CASE carry' = <<>> /\ Contents(m_recv_buffer') = c \o carry
      <3> HIDE DEF c
      <3>1. Numbered(1, arrived) = d \o c \o carry
        BY <1>1, <1>4, <2>1
      <3>2. c \o carry \in Seq(Nat) /\ d \o (c \o carry) \in Seq(Nat)
        BY <1>1, ConcatProperties
      <3>3. d \o (c \o carry) \o <<>> = d \o c \o carry
        BY SMTT(30), <1>1, <3>2, ConcatEmptySeq, ConcatAssociative
      <3>4. SubSeq(c \o carry, 0 + 1, Len(c \o carry)) = c \o carry
        BY <3>2, WholeOf
      <3>5. QED  BY <2>1, <2>3, <3>1, <3>3, <3>4 DEF InputExact
    <2>4. QED  BY <1>8, <2>2, <2>3, CarryEffect
  <1>9. CASE Moved
    <2>1. UNCHANGED <<carry, arrived, consumed>> /\ offset' = 0
      BY <1>9 DEF Moved
    <2>2. UNCHANGED close_flag /\ offset \in 0 .. Len(c) /\ Contents(m_recv_buffer') = rest
      BY <1>9, MovedEffect
    <2> HIDE DEF c
    <2>3. rest \in Seq(Nat)
      BY <1>1, <2>2, FrontAndRest
    <2>4. SubSeq(rest, 0 + 1, Len(rest)) = rest
      BY <2>3, WholeOf
    <2>5. QED  BY <1>4, <2>1, <2>2, <2>4 DEF InputExact
  <1>10. CASE ProcessFails
    <2>1. UNCHANGED <<buffers, close_flag>> /\ UNCHANGED inVars
      BY <1>10, FailEffect DEF ProcessFails
    <2>2. QED  BY <1>5, <2>1
  <1>11. CASE Hangup \/ GiveUp
    BY <1>11, CloseEffect DEF Hangup, GiveUp
  <1>12. CASE UNCHANGED <<inVars, m_recv_buffer, close_flag>>
    BY <1>5, <1>12
  <1>13. QED
    BY <1>2, <1>6, <1>7, <1>8, <1>9, <1>10, <1>11, <1>12 DEF Next, Send, Out, Run, RecvEnds, Fill, Refill, OutEnds

(* Every step keeps the invariant. *)
LEMMA InvStep == Inv /\ [Next]_vars => Inv'
  <1> SUFFICES ASSUME Inv, [Next]_vars  PROVE Inv'
    OBVIOUS
  <1>1. TypeInv /\ RoomInv /\ OffsetInv /\ CarryInv /\ InputExact
    BY DEF Inv
  <1>2. TypeInv' /\ RoomInv' /\ OffsetInv' /\ CarryInv' /\ InputExact'
    BY <1>1, TypeStep, RoomStep, OffsetStep, CarryStep, InputStep
  <1>3. QED  BY <1>2 DEF Inv

(* The invariant holds in every state. *)
LEMMA InvHolds == Spec => []Inv
  <1>1. Init => Inv
    BY InitInv DEF OutInv
  <1>2. QED  BY <1>1, InvStep, PTL DEF Spec

(* Every byte that ::recv returned has been passed by the application's    *)
(* offset, or is in m_recv_buffer, or is carried over to the next task, in *)
(* order and once: sock2buf, the buffer and read_ptr_move_n lose, repeat   *)
(* and reorder none, whatever the sizes of the buffers and however many of *)
(* the readable bytes each run of process_connection passes.               *)
THEOREM InputIsExact == Spec => []InputExact
  <1>1. Inv => InputExact
    BY DEF Inv
  <1>2. QED  BY <1>1, InvHolds, PTL

(* buf2sock never closes a live connection because m_send_buffer has no    *)
(* blank space: the two bytes set_limit_max adds to inner_buffer_size are  *)
(* enough for every inner_buffer_size.                                     *)
THEOREM RefillAlwaysHasRoom == Spec => []RefillHasRoom
  <1>1. Inv => RefillHasRoom
    <2> SUFFICES ASSUME Inv, pc = "refill", ~ close_flag  PROVE blank_space(m_send_buffer) > 0
      BY DEF RefillHasRoom
    <2>1. /\ IsBuffer(Nat, m_send_buffer) /\ m_send_buffer.limit = Inner + 2
          /\ m_send_buffer.size <= Inner
      BY DEF Inv, TypeInv, RoomInv
    <2>2. /\ blank_space(m_send_buffer) = m_send_buffer.limit - m_send_buffer.wr
          /\ m_send_buffer.wr \in Nat /\ m_send_buffer.wr <= check_init(m_send_buffer).size
      BY <2>1, BlankSpaceIs
    <2>3. m_send_buffer.wr <= m_send_buffer.size /\ m_send_buffer.size \in Nat
      BY <2>1 DEF IsBuffer, Buf
    <2>4. QED  BY <2>1, <2>2, <2>3, InnerAssumption
  <1>2. QED  BY <1>1, InvHolds, PTL

(* Bytes that sock2buf took from the kernel and could not store are never  *)
(* left without a task: do_task was called for them, or the connection is  *)
(* closing.                                                                *)
THEOREM CarryAlwaysHasTask == Spec => []CarryHasTask
  <1>1. Inv => CarryHasTask
    BY DEF Inv, CarryInv, CarryHasTask
  <1>2. QED  BY <1>1, InvHolds, PTL

-----------------------------------------------------------------------------
(* The bytes sent, as long as ::send takes all it is given. *)

(* With whole sends, what is left in the inner buffer is all of it. *)
LEMMA WholeStep ==
    ASSUME PartialWrites = FALSE, TypeInv, RoomInv, OffsetInv, CarryInv, WholeInv, [Next]_vars
    PROVE  WholeInv'
  <1>1. ASSUME NEW n \in 1 .. Inner, Out(n)  PROVE WholeInv'
    BY <1>1 DEF Out, WholeInv
  <1>2. CASE Fill
    <2>1. CASE pc' = "out" /\ should_send_idx = 0 /\ UNCHANGED <<out_inner, should_send_idx, should_send_size>>
      BY <2>1 DEF WholeInv
    <2>2. CASE /\ should_send_idx = -1 /\ pc' = "refill"
               /\ UNCHANGED <<out_inner, should_send_idx, should_send_size>>
      BY <2>2 DEF WholeInv
    <2>3. CASE should_send_idx' = 0 /\ should_send_size' = Len(out_inner')
      BY <2>3 DEF WholeInv
    <2>4. QED  BY <1>2, <2>1, <2>2, <2>3, FillEffect
  <1>3. CASE Reuse
    BY <1>3 DEF Reuse, WholeInv
  <1>4. CASE UNCHANGED outVars /\ (pc' = "out" => pc = "out")
    BY <1>4 DEF WholeInv
  <1>5. ASSUME NEW n \in 1 .. Inner, Recv(n)  PROVE UNCHANGED outVars /\ pc' # "out"
    BY <1>5, RecvEffect DEF Recv
  <1>6. CASE Carry
    BY <1>4, <1>6, CarryEffect DEF Carry
  <1>7. CASE Refill
    BY <1>4, <1>7, RefillEffect DEF Refill
  <1>8. CASE ProcessFails
    BY <1>4, <1>8, FailEffect DEF ProcessFails
  <1>9. QED
    BY <1>1, <1>2, <1>3, <1>4, <1>5, <1>6, <1>7, <1>8
       DEF Next, Send, Process, Hangup, Run, RecvEnds, GiveUp, Moved, OutEnds

(* With whole sends, every step keeps the output exact. *)
LEMMA OutputStep ==
    ASSUME PartialWrites = FALSE, TypeInv, RoomInv, OffsetInv, CarryInv, WholeInv, OutputExact,
           [Next]_vars
    PROVE  OutputExact'
  <1> DEFINE s == Contents(m_send_buffer)
             p == Contents(m_wating_send_pack)
             u == Unsent
  <1> SUFFICES ASSUME ~ close_flag'  PROVE OutputExact'
    BY DEF OutputExact
  <1>1. s \in Seq(Nat) /\ p \in Seq(Nat) /\ wire \in Seq(Nat) /\ out_inner \in Seq(Nat)
    BY ContentsType DEF TypeInv
  <1>2. /\ should_send_idx = -1 => u = <<>>
        /\ should_send_idx = 0 => u = out_inner
    <2>1. CASE should_send_idx = -1
      BY <2>1 DEF Unsent
    <2>2. CASE should_send_idx = 0
      <3>1. should_send_size = Len(out_inner) /\ Len(out_inner) \in Nat
        BY <1>1, <2>2, LenProperties DEF WholeInv
      <3>2. u = SubSeq(out_inner, 0 + 1, 0 + Len(out_inner))
        BY <2>2, <3>1 DEF Unsent
      <3>3. 0 + Len(out_inner) = Len(out_inner)
        BY <3>1
      <3>4. SubSeq(out_inner, 0 + 1, Len(out_inner)) = out_inner
        BY <1>1, WholeOf
      <3>5. QED  BY <2>2, <3>2, <3>3, <3>4
    <2>3. QED  BY <2>1, <2>2
  <1>3. u \in Seq(Nat) /\ wire \o u \in Seq(Nat) /\ wire \o u \o s \in Seq(Nat)
    <2> HIDE DEF u, s
    <2>1. u \in Seq(Nat)
      BY <1>1, <1>2, EmptySeq DEF TypeInv
    <2>2. wire \o u \in Seq(Nat)
      BY <1>1, <2>1, ConcatProperties
    <2>3. wire \o u \o s \in Seq(Nat)
      BY <1>1, <2>2, ConcatProperties
    <2>4. QED  BY <2>1, <2>2, <2>3
  <1>4. CASE Reuse
    <2> HIDE DEF ReusedBuffer
    <2>1. /\ m_send_buffer' = ReusedBuffer /\ m_wating_send_pack' = ReusedBuffer
          /\ should_send_idx' = -1 /\ wire' = <<>> /\ accepted' = <<>>
      BY <1>4 DEF Reuse
    <2>2. Contents(m_send_buffer') = <<>> /\ Contents(m_wating_send_pack') = <<>>
      BY <2>1, Reused
    <2>3. Unsent' = <<>>
      BY <2>1 DEF Unsent
    <2>4. <<>> \o <<>> \o <<>> \o <<>> = <<>>
      OBVIOUS
    <2>5. QED  BY <2>1, <2>2, <2>3, <2>4 DEF OutputExact
  <1>5. ASSUME ~ Reuse  PROVE accepted = wire \o u \o s \o p
    BY <1>5, OnlyReuseOpens DEF OutputExact
  <1>6. ASSUME ~ Reuse, UNCHANGED <<outVars, accepted>>,
               Contents(m_send_buffer') = s, Contents(m_wating_send_pack') = p
        PROVE  OutputExact'
    <2>1. Unsent' = u
      BY <1>6 DEF Unsent
    <2>2. wire' = wire /\ accepted' = accepted
      BY <1>6
    <2>3. QED  BY <1>5, <1>6, <2>1, <2>2 DEF OutputExact
  <1>7. ASSUME NEW n \in 1 .. MaxPack, Send(n)  PROVE OutputExact'
    <2>1. ~ Reuse /\ UNCHANGED <<m_send_buffer, outVars>>
      BY <1>7 DEF Send, Reuse
    <2>2. Unsent' = u /\ wire' = wire /\ Contents(m_send_buffer') = s
      BY <2>1 DEF Unsent
    <2>3. PICK src \in Seq(Nat) :
              accepted' = accepted \o src /\ Contents(m_wating_send_pack') = p \o src
      BY <1>7, SendEffect
    <2> HIDE DEF u, s, p
    <2>4. accepted' = wire \o u \o s \o p \o src
      BY <1>5, <2>1, <2>3
    <2>5. wire \o u \o s \o p \o src = wire \o u \o s \o (p \o src)
      <3> DEFINE x == wire \o u \o s
      <3>1. x \in Seq(Nat)
        BY <1>3
      <3> HIDE DEF x
      <3>2. (x \o p) \o src = x \o (p \o src)
        BY <1>1, <3>1, Regroup
      <3>3. QED  BY <3>2 DEF x
    <2>6. QED  BY <2>2, <2>3, <2>4, <2>5 DEF OutputExact
  <1>8. CASE Fill
    <2>1. UNCHANGED <<wire, accepted, m_wating_send_pack>> /\ ~ Reuse
      BY <1>8 DEF Fill, Reuse
    <2>2. CASE UNCHANGED <<out_inner, should_send_idx, should_send_size>> /\ Contents(m_send_buffer') = s
      BY <1>6, <2>1, <2>2
    <2>3. CASE /\ should_send_idx = -1 /\ should_send_idx' = 0 /\ out_inner' \in Seq(Nat)
               /\ should_send_size' = Len(out_inner')
               /\ s = out_inner' \o Contents(m_send_buffer')
               /\ IsBuffer(Nat, m_send_buffer')
      <3> DEFINE o == out_inner'
                 t == Contents(m_send_buffer')
      <3>1. t \in Seq(Nat) /\ o \in Seq(Nat) /\ Len(o) \in Nat
        BY <2>3, ContentsType, LenProperties
      <3>2. Unsent' = o
        <4>1. Unsent' = SubSeq(o, 0 + 1, 0 + Len(o)) /\ 0 + Len(o) = Len(o)
          BY <2>3, <3>1 DEF Unsent
        <4>2. SubSeq(o, 0 + 1, Len(o)) = o
          BY <3>1, WholeOf
        <4>3. QED  BY <4>1, <4>2
      <3>3. accepted' = wire \o u \o s \o p /\ u = <<>>
        BY <1>2, <1>5, <2>1, <2>3
      <3>4. s = o \o t
        BY <2>3
      <3> HIDE DEF o, t, u, s, p
      <3>5. wire \o u = wire
        BY <1>1, <3>3, ConcatEmptySeq
      <3>6. wire \o s = wire \o o \o t
        BY ZenonT(30), <1>1, <3>1, <3>4, Regroup
      <3>7. accepted' = wire \o o \o t \o p
        BY <3>3, <3>5, <3>6
      <3>8. QED  BY <2>1, <3>2, <3>7 DEF OutputExact, t, p
    <2>4. QED  BY <1>8, <2>2, <2>3, FillEffect
  <1>9. CASE Refill
    <2>1. UNCHANGED <<outVars, accepted>> /\ ~ Reuse /\ pc = "refill"
      BY <1>9 DEF Refill, Reuse
    <2>2. CASE UNCHANGED m_send_buffer /\ Contents(m_wating_send_pack') = p
      BY <1>6, <2>1, <2>2
    <2>3. CASE p = Contents(m_send_buffer') \o Contents(m_wating_send_pack')
      <3> DEFINE t == Contents(m_send_buffer')
                 q == Contents(m_wating_send_pack')
      <3>1. t \in Seq(Nat) /\ q \in Seq(Nat) /\ s = <<>>
        BY <1>9, RefillEffect, ContentsType
      <3>2. Unsent' = u /\ wire' = wire /\ accepted' = wire \o u \o s \o p
        <4>1. Unsent' = u
          BY <2>1 DEF Unsent
        <4>2. wire' = wire /\ accepted' = accepted
          BY <2>1
        <4>3. QED  BY <1>5, <2>1, <4>1, <4>2
      <3>3. p = t \o q
        BY <2>3
      <3> HIDE DEF t, q, u, s, p
      <3>4. wire \o u \o s = wire \o u
        BY <1>3, <3>1, ConcatEmptySeq
      <3>5. wire \o u \o p = wire \o u \o t \o q
        BY ZenonT(30), <1>3, <3>1, <3>3, Regroup
      <3>6. accepted' = wire \o u \o t \o q
        BY <3>2, <3>4, <3>5
      <3>7. QED  BY <3>2, <3>6 DEF OutputExact, t, q
    <2>4. QED  BY <1>9, <2>2, <2>3, RefillEffect
  <1>10. ASSUME NEW n \in 1 .. Inner, Out(n)  PROVE OutputExact'
    <2>1. /\ UNCHANGED <<buffers, accepted>> /\ ~ Reuse
          /\ n = should_send_size /\ should_send_idx' = -1
      BY <1>10 DEF Out, Reuse
    <2>2. should_send_idx = 0 /\ wire' = wire \o SubSeq(out_inner, 1, n)
      BY <1>10, OutEffect
    <2>3. n = Len(out_inner) /\ u = out_inner
      BY <1>2, <2>1, <2>2 DEF WholeInv
    <2>4. SubSeq(out_inner, 1, n) = out_inner
      BY <1>1, <2>3, SubSeqFull
    <2>5. wire' = wire \o u
      BY <2>2, <2>3, <2>4
    <2>6. Unsent' = <<>>
      BY <2>1 DEF Unsent
    <2>7. Contents(m_send_buffer') = s /\ Contents(m_wating_send_pack') = p /\ accepted' = accepted
      BY <2>1
    <2> HIDE DEF u, s, p
    <2>8. wire \o u \o <<>> = wire \o u
      BY <1>3, ConcatEmptySeq
    <2>9. QED  BY <1>5, <2>1, <2>5, <2>6, <2>7, <2>8 DEF OutputExact
  <1>11. CASE Hangup \/ GiveUp
    BY <1>11, CloseEffect DEF Hangup, GiveUp
  <1>12. CASE ProcessFails
    <2>1. UNCHANGED <<buffers, close_flag>> /\ UNCHANGED <<outVars, accepted>>
      BY <1>12, FailEffect DEF ProcessFails
    <2>2. QED  BY <1>4, <1>6, <2>1
  <1>13. CASE Moved
    <2>1. UNCHANGED <<m_send_buffer, m_wating_send_pack>> /\ UNCHANGED <<outVars, accepted>>
      BY <1>13, MovedEffect DEF Moved
    <2>2. QED  BY <1>4, <1>6, <2>1
  <1>14. CASE UNCHANGED <<m_send_buffer, m_wating_send_pack, outVars, accepted>>
    BY <1>4, <1>6, <1>14
  <1>15. QED
    BY <1>4, <1>7, <1>8, <1>9, <1>10, <1>11, <1>12, <1>13, <1>14
       DEF Next, Recv, Process, Run, Carry, RecvEnds, OutEnds

(* As long as ::send takes all the bytes it is given (or fails), every     *)
(* byte that send() accepted goes out once and in order: it is on the      *)
(* wire, in the inner buffer, in m_send_buffer or in m_wating_send_pack.   *)
(* Without the hypothesis it is false: buf2sock does not advance           *)
(* should_send_idx after a partial write; the run partial_send shows it.   *)
THEOREM OutputIsExact ==
    ASSUME PartialWrites = FALSE
    PROVE  Spec => []OutputExact
  <1>1. OutInv /\ [Next]_vars => OutInv'
    <2> SUFFICES ASSUME OutInv, [Next]_vars  PROVE OutInv'
      OBVIOUS
    <2>1. Inv' /\ TypeInv /\ RoomInv /\ OffsetInv /\ CarryInv /\ WholeInv /\ OutputExact
      BY InvStep DEF OutInv, Inv
    <2>2. WholeInv' /\ OutputExact'
      BY <2>1, WholeStep, OutputStep
    <2>3. QED  BY <2>1, <2>2 DEF OutInv
  <1>2. OutInv => OutputExact
    BY DEF OutInv
  <1>3. QED  BY <1>1, <1>2, InitInv, PTL DEF Spec
=============================================================================
