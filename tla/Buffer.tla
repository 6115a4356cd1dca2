------------------------------- MODULE Buffer -------------------------------
(***************************************************************************)
(* A buffer object in use: any thread calls any of its member functions    *)
(* in any order.  Each takes m_mutex for its whole body, so each is one    *)
(* step; ret is what the last call returned, or that it threw.             *)
(***************************************************************************)
EXTENDS BufferOps

CONSTANTS
    Byte,       \* the bytes that are written
    MaxIO,      \* bound: bytes of one call
    Limits      \* the limits set_limit_max is called with

ASSUME BufferAssumption == MaxIO \in Nat /\ Limits \subseteq Nat

VARIABLES buf, ret

vars == <<buf, ret>>

Bytes == UNION {[1 .. n -> Byte] : n \in 0 .. MaxIO}
Thrown == [ok |-> FALSE, data |-> <<>>, n |-> 0]
Returned(n) == [ok |-> TRUE, data |-> <<>>, n |-> n]
Got(bytes) == [ok |-> TRUE, data |-> bytes, n |-> Len(bytes)]

Init == buf = buffer /\ ret = Returned(0)

Write(src) ==
    LET r == write(buf, src)
    IN  buf' = r.buf /\ ret' = IF r.ok THEN Returned(Len(src)) ELSE Thrown

Read(n) ==
    LET r == read(buf, n)
    IN  buf' = r.buf /\ ret' = IF r.ok THEN Got(r.data) ELSE Thrown

ReadPtrMoveN(n) ==
    LET r == read_ptr_move_n(buf, n)
    IN  buf' = r.buf /\ ret' = IF r.ok THEN Returned(0) ELSE Thrown

CopyAll(out_len) ==
    LET r == copy_all(buf, out_len) IN buf' = r.buf /\ ret' = Got(r.data)

CanReadableSize ==
    buf' = check_init(buf) /\ ret' = Returned(get_readable_size(buf))

BlankSpace ==
    buf' = check_init(buf) /\ ret' = Returned(blank_space(buf))

SetLimitMax(limit_max) ==
    buf' = set_limit_max(buf, limit_max) /\ ret' = Returned(0)

Clear == buf' = buffer /\ ret' = Returned(0)

Next ==
    \/ \E src \in Bytes : Write(src)
    \/ \E n \in 0 .. MaxIO : Read(n) \/ ReadPtrMoveN(n) \/ CopyAll(n)
    \/ \E l \in Limits : SetLimitMax(l)
    \/ CanReadableSize \/ BlankSpace \/ Clear

Spec == Init /\ [][Next]_vars

-----------------------------------------------------------------------------
(* Properties. *)

(* The pointers stay inside the array, in order, and the array within the  *)
(* limit: memcpy, memmove and the unsigned subtractions of after_size,     *)
(* get_readable_size and blank_space rest on it.                           *)
InBounds ==
    /\ buf.rd \in 0 .. buf.wr
    /\ buf.wr \in 0 .. buf.size
    /\ buf.size <= buf.limit
    /\ \A i \in buf.rd + 1 .. buf.wr : buf.mem[i] \in Byte

(* The array, the two pointers and every move and growth together behave   *)
(* as one bounded queue of bytes.                                          *)
Queue == INSTANCE ByteQueue WITH
            data <- Contents(buf), limit <- buf.limit, MinLimit <- MinSize

IsByteQueue == Queue!Spec
=============================================================================
