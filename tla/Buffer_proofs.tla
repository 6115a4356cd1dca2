--------------------------- MODULE Buffer_proofs ---------------------------
(***************************************************************************)
(* Proofs about Buffer, for every MinSize, Byte, MaxIO and Limits: the     *)
(* pointers stay in bounds, and the buffer implements ByteQueue.  IsBuffer *)
(* of BufferOps_proofs is the inductive invariant.                         *)
(***************************************************************************)
EXTENDS Buffer, BufferOps_proofs

-----------------------------------------------------------------------------
(* One lemma per call: the buffer stays a buffer and the call is one of    *)
(* the queue's.                                                            *)

(* The inputs of a call are sequences of bytes. *)
LEMMA BytesAreSeqs == Bytes \subseteq Seq(Byte) /\ Bytes = Queue!Bytes
  BY BufferAssumption DEF Bytes, Queue!Bytes

(* write implements the queue's Write. *)
LEMMA WriteStep ==
    ASSUME IsBuffer(Byte, buf), NEW src \in Bytes, Write(src)
    PROVE  IsBuffer(Byte, buf)' /\ Queue!Write(src)
  <1> DEFINE r == write(buf, src)
             c == Contents(buf)
  <1>0. src \in Seq(Byte)
    BY BytesAreSeqs
  <1>1. /\ IsBuffer(Byte, r.buf) /\ r.buf.limit = buf.limit
        /\ r.ok <=> ~ (src = <<>> \/ Len(c) + Len(src) > buf.limit)
        /\ Contents(r.buf) = IF r.ok THEN c \o src ELSE c
    BY <1>0, WriteAppends
  <1>2. buf' = r.buf /\ ret' = IF r.ok THEN Returned(Len(src)) ELSE Thrown
    BY DEF Write
  <1>3. IsBuffer(Byte, buf)'
    BY <1>1, <1>2
  <1>4. Contents(buf') = Contents(r.buf) /\ buf'.limit = buf.limit
    BY <1>1, <1>2
  <1> HIDE DEF r, c
  <1>5. CASE r.ok
    <2>1. ret' = Returned(Len(src)) /\ Contents(buf') = c \o src
          /\ ~ (src = <<>> \/ Len(c) + Len(src) > buf.limit)
      BY <1>1, <1>2, <1>4, <1>5
    <2>2. QED  BY <1>3, <1>4, <2>1 DEF c, Queue!Write, Queue!Returned, Returned
  <1>6. CASE ~ r.ok
    <2>1. ret' = Thrown /\ Contents(buf') = c /\ (src = <<>> \/ Len(c) + Len(src) > buf.limit)
      BY <1>1, <1>2, <1>4, <1>6
    <2>2. QED  BY <1>3, <1>4, <2>1 DEF c, Queue!Write, Queue!Thrown, Thrown
  <1>7. QED  BY <1>5, <1>6

(* read implements the queue's Read. *)
LEMMA ReadStep ==
    ASSUME IsBuffer(Byte, buf), NEW n \in Nat, Read(n)
    PROVE  IsBuffer(Byte, buf)' /\ Queue!Read(n)
  <1> DEFINE r == read(buf, n)
             c == Contents(buf)
             k == IF n <= Len(c) THEN n ELSE Len(c)
  <1>1. /\ IsBuffer(Byte, r.buf) /\ r.buf.limit = buf.limit /\ (r.ok <=> n > 0)
        /\ k \in 0 .. Len(c) /\ c \in Seq(Byte)
        /\ r.data = SubSeq(c, 1, k) /\ Contents(r.buf) = SubSeq(c, k + 1, Len(c))
    BY ReadTakes
  <1>2. buf' = r.buf /\ ret' = IF r.ok THEN Got(r.data) ELSE Thrown
    BY DEF Read
  <1> HIDE DEF r
  <1>3. IsBuffer(Byte, buf)' /\ Contents(buf') = SubSeq(c, k + 1, Len(c)) /\ buf'.limit = buf.limit
    BY <1>1, <1>2
  <1>4. CASE n = 0
    <2>1. k = 0 /\ ret' = Thrown
      BY <1>1, <1>2, <1>4
    <2>2. Contents(buf') = c
      <3>1. SubSeq(c, 1, Len(c)) = c
        BY <1>1, SubSeqFull
      <3> HIDE DEF c, k
      <3>2. QED  BY <1>3, <2>1, <3>1
    <2>3. QED  BY <1>3, <1>4, <2>1, <2>2 DEF Queue!Read, Queue!Thrown, Thrown
  <1>5. CASE n # 0
    <2>1. ret' = Got(SubSeq(c, 1, k))
      BY <1>1, <1>2, <1>5
    <2>2. QED  BY <1>1, <1>3, <1>5, <2>1 DEF Queue!Read, Queue!Got, Got
  <1>6. QED  BY <1>4, <1>5

(* read_ptr_move_n implements the queue's Skip. *)
LEMMA MoveStep ==
    ASSUME IsBuffer(Byte, buf), NEW n \in Nat, ReadPtrMoveN(n)
    PROVE  IsBuffer(Byte, buf)' /\ Queue!Skip(n)
  <1> DEFINE r == read_ptr_move_n(buf, n)
             c == Contents(buf)
  <1>1. /\ IsBuffer(Byte, r.buf) /\ r.buf.limit = buf.limit /\ (r.ok <=> n <= Len(c))
        /\ Contents(r.buf) = IF n <= Len(c) THEN SubSeq(c, n + 1, Len(c)) ELSE c
    BY MoveDrops
  <1>2. buf' = r.buf /\ ret' = IF r.ok THEN Returned(0) ELSE Thrown
    BY DEF ReadPtrMoveN
  <1>3. Len(c) \in Nat
    BY ContentsType, LenProperties
  <1> HIDE DEF r, c
  <1>4. CASE n <= Len(c)
    <2>1. /\ IsBuffer(Byte, buf)' /\ Contents(buf') = SubSeq(c, n + 1, Len(c)) /\ buf'.limit = buf.limit
          /\ ret' = Returned(0) /\ ~ (n > Len(c))
      BY <1>1, <1>2, <1>3, <1>4
    <2>2. QED  BY <2>1 DEF c, Queue!Skip, Queue!Returned, Returned
  <1>5. CASE n > Len(c)
    <2>1. /\ IsBuffer(Byte, buf)' /\ Contents(buf') = c /\ buf'.limit = buf.limit /\ ret' = Thrown
      BY <1>1, <1>2, <1>3, <1>5
    <2>2. QED  BY <1>5, <2>1 DEF c, Queue!Skip, Queue!Thrown, Thrown
  <1>6. QED  BY <1>3, <1>4, <1>5

(* The calls that only look: the contents stay, and what they return is    *)
(* what the queue may return.                                              *)
LEMMA LookStep ==
    ASSUME IsBuffer(Byte, buf), CanReadableSize \/ BlankSpace \/ \E n \in 0 .. MaxIO : CopyAll(n)
    PROVE  IsBuffer(Byte, buf)' /\ (Queue!Size \/ Queue!BlankSpace \/ \E n \in 0 .. MaxIO : Queue!CopyAll(n))
  <1> DEFINE b0 == check_init(buf)
             c == Contents(buf)
  <1>1. /\ IsBuffer(Byte, b0) /\ Contents(b0) = c /\ b0.limit = buf.limit
        /\ b0.rd = buf.rd /\ b0.wr = buf.wr
    BY CheckInit
  <1>2. c \in Seq(Byte) /\ Len(c) = buf.wr - buf.rd
    BY ContentsType
  <1>3. ASSUME buf' = b0
        PROVE  IsBuffer(Byte, buf)' /\ Contents(buf') = c /\ buf'.limit = buf.limit
    BY <1>1, <1>3
  <1>4. CASE CanReadableSize
    <2>1. buf' = b0 /\ ret' = Returned(Len(c))
      BY <1>2, <1>4 DEF CanReadableSize, get_readable_size
    <2>2. QED  BY <1>3, <2>1 DEF Queue!Size, Queue!Returned, Returned
  <1>5. CASE BlankSpace
    <2>1. buf' = b0 /\ ret' = Returned(blank_space(buf))
      BY <1>5 DEF BlankSpace
    <2> DEFINE x == blank_space(buf)
    <2>2. x = buf.limit - buf.wr /\ buf.limit \in Nat /\ buf.wr \in Nat
      BY BlankSpaceIs
    <2>3. x \in 0 .. buf.limit - Len(c)
      <3> HIDE DEF x
      <3>1. buf.rd \in Nat /\ buf.wr <= buf.limit
        BY <2>2 DEF IsBuffer, Buf
      <3>2. QED  BY <1>2, <2>2, <3>1
    <2> HIDE DEF x, b0
    <2>4. QED  BY <1>3, <2>1, <2>3 DEF x, Queue!BlankSpace, Queue!Returned, Returned
  <1>6. ASSUME NEW n \in 0 .. MaxIO, CopyAll(n)
        PROVE  IsBuffer(Byte, buf)' /\ Queue!CopyAll(n)
    <2>1. get_readable_size(b0) = Len(c)
      BY <1>1, <1>2 DEF get_readable_size
    <2>2. buf' = b0 /\ ret' = Got(IF n < Len(c) THEN <<>> ELSE c)
      BY <1>1, <1>6, <2>1 DEF CopyAll, copy_all
    <2>3. QED  BY <1>3, <2>2 DEF Queue!CopyAll, Queue!Got, Got
  <1>7. QED  BY <1>4, <1>5, <1>6

(* set_limit_max never lowers the limit; clear starts afresh. *)
LEMMA LimitStep ==
    ASSUME IsBuffer(Byte, buf), NEW l \in Limits, SetLimitMax(l)
    PROVE  IsBuffer(Byte, buf)' /\ Queue!SetLimit(l)
  <1> DEFINE d == set_limit_max(buf, l)
  <1>1. l \in Nat /\ buf.limit \in Nat
    BY BufferAssumption DEF IsBuffer, Buf
  <1>2. /\ IsBuffer(Byte, d) /\ Contents(d) = Contents(buf)
        /\ d.limit = IF l < buf.limit THEN buf.limit ELSE l
    BY <1>1, LimitRises
  <1>3. buf' = d /\ ret' = Returned(0)
    BY DEF SetLimitMax
  <1> HIDE DEF d
  <1>4. QED  BY <1>1, <1>2, <1>3 DEF Queue!SetLimit, Queue!Returned, Returned

(* Every call keeps IsBuffer and is a call of the queue. *)
LEMMA BufferStep ==
    ASSUME IsBuffer(Byte, buf), [Next]_vars
    PROVE  IsBuffer(Byte, buf)' /\ [Queue!Next]_(Queue!vars)
  <1>1. ASSUME NEW src \in Bytes, Write(src)  PROVE IsBuffer(Byte, buf)' /\ Queue!Next
    BY <1>1, WriteStep, BytesAreSeqs DEF Queue!Next
  <1>2. ASSUME NEW n \in 0 .. MaxIO, Read(n)  PROVE IsBuffer(Byte, buf)' /\ Queue!Next
    BY <1>2, ReadStep, BufferAssumption DEF Queue!Next
  <1>3. ASSUME NEW n \in 0 .. MaxIO, ReadPtrMoveN(n)  PROVE IsBuffer(Byte, buf)' /\ Queue!Next
    BY <1>3, MoveStep, BufferAssumption DEF Queue!Next
  <1>4. CASE CanReadableSize \/ BlankSpace \/ \E n \in 0 .. MaxIO : CopyAll(n)
    BY <1>4, LookStep DEF Queue!Next
  <1>5. ASSUME NEW l \in Limits, SetLimitMax(l)  PROVE IsBuffer(Byte, buf)' /\ Queue!Next
    BY <1>5, LimitStep DEF Queue!Next
  <1>6. CASE Clear
    <2>1. buf' = buffer /\ ret' = Returned(0)
      BY <1>6 DEF Clear
    <2>2. IsBuffer(Byte, buf)' /\ Contents(buf') = <<>> /\ buf'.limit = MinSize
      BY <2>1, NewBuffer
    <2>3. QED  BY <2>1, <2>2 DEF Queue!Next, Queue!Clear, Queue!Returned, Returned
  <1>7. CASE UNCHANGED vars
    BY <1>7 DEF vars, Queue!vars
  <1>8. QED  BY <1>1, <1>2, <1>3, <1>4, <1>5, <1>6, <1>7 DEF Next

(* IsBuffer is an invariant of every use of a buffer. *)
THEOREM BufferInvariant == Spec => []IsBuffer(Byte, buf)
  <1>1. Init => IsBuffer(Byte, buf)
    BY NewBuffer DEF Init
  <1>2. IsBuffer(Byte, buf) /\ [Next]_vars => IsBuffer(Byte, buf)'
    BY BufferStep
  <1>3. QED  BY <1>1, <1>2, PTL DEF Spec

(* The pointers stay in bounds and the array within the limit, for every   *)
(* sequence of calls, every size and every limit.                          *)
THEOREM BufferInBounds == Spec => []InBounds
  <1>1. IsBuffer(Byte, buf) => InBounds
    BY DEF IsBuffer, Buf, InBounds
  <1>2. QED  BY <1>1, BufferInvariant, PTL

(* The array with its two pointers implements the bounded byte queue. *)
THEOREM BufferImplementsQueue == Spec => IsByteQueue
  <1>1. Init => Queue!Init
    BY NewBuffer DEF Init, Queue!Init, Returned, Queue!Returned
  <1>2. IsBuffer(Byte, buf) /\ [Next]_vars => [Queue!Next]_(Queue!vars)
    BY BufferStep
  <1>3. QED  BY <1>1, <1>2, BufferInvariant, PTL DEF Spec, IsByteQueue, Queue!Spec
=============================================================================
