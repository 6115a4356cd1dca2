----------------------------- MODULE ByteQueue -----------------------------
(***************************************************************************)
(* What buffer promises its users: a first-in first-out queue of bytes     *)
(* with a limit.  A write is taken whole or refused whole, and refused     *)
(* only when it would pass the limit; blank_space never promises more than *)
(* a write will take.                                                      *)
(***************************************************************************)
EXTENDS Integers, Sequences

CONSTANTS
    Byte,
    MaxIO,      \* bound: bytes of one call
    MinLimit,   \* the limit after clear
    Limits      \* the limits set_limit_max is called with

VARIABLES
    data,       \* the bytes written and not yet read
    limit,
    ret         \* what the last call returned

vars == <<data, limit, ret>>

Bytes == UNION {[1 .. n -> Byte] : n \in 0 .. MaxIO}
Thrown == [ok |-> FALSE, data |-> <<>>, n |-> 0]
Returned(n) == [ok |-> TRUE, data |-> <<>>, n |-> n]
Got(bytes) == [ok |-> TRUE, data |-> bytes, n |-> Len(bytes)]

Init == data = <<>> /\ limit = MinLimit /\ ret = Returned(0)

Write(src) ==
    /\ IF src = <<>> \/ Len(data) + Len(src) > limit
       THEN ret' = Thrown /\ UNCHANGED data
       ELSE ret' = Returned(Len(src)) /\ data' = data \o src
    /\ UNCHANGED limit

Read(n) ==
    LET k == IF n <= Len(data) THEN n ELSE Len(data)
    IN  /\ IF n = 0
           THEN ret' = Thrown /\ UNCHANGED data
           ELSE /\ ret' = Got(SubSeq(data, 1, k))
                /\ data' = SubSeq(data, k + 1, Len(data))
        /\ UNCHANGED limit

Skip(n) ==
    /\ IF n > Len(data)
       THEN ret' = Thrown /\ UNCHANGED data
       ELSE ret' = Returned(0) /\ data' = SubSeq(data, n + 1, Len(data))
    /\ UNCHANGED limit

CopyAll(n) ==
    /\ ret' = Got(IF n < Len(data) THEN <<>> ELSE data)
    /\ UNCHANGED <<data, limit>>

Size == ret' = Returned(Len(data)) /\ UNCHANGED <<data, limit>>

BlankSpace ==
    /\ \E n \in 0 .. limit - Len(data) : ret' = Returned(n)
    /\ UNCHANGED <<data, limit>>

SetLimit(l) ==
    /\ limit' = IF l < limit THEN limit ELSE l
    /\ ret' = Returned(0)
    /\ UNCHANGED data

Clear == data' = <<>> /\ limit' = MinLimit /\ ret' = Returned(0)

Next ==
    \/ \E src \in Bytes : Write(src)
    \/ \E n \in 0 .. MaxIO : Read(n) \/ Skip(n) \/ CopyAll(n)
    \/ \E l \in Limits : SetLimit(l)
    \/ Size \/ BlankSpace \/ Clear

Spec == Init /\ [][Next]_vars
=============================================================================
