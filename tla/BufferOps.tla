----------------------------- MODULE BufferOps -----------------------------
(***************************************************************************)
(* tubekit::buffer::buffer as a value: an allocated array with a read and  *)
(* a write offset, grown up to a limit.  Every operator is one member      *)
(* function; what the function returns or throws comes with the buffer it  *)
(* leaves behind.  malloc and realloc do not fail.                         *)
(***************************************************************************)
EXTENDS Integers, Sequences

CONSTANTS
    MinSize,    \* 1024: what check_init allocates and the smallest limit
    Junk        \* what allocated memory holds before it is written

ASSUME MinSizeAssumption == MinSize \in Nat \ {0}

(* m_buffer (a null pointer when m_size is 0) and m_size; the two pointers *)
(* as offsets; m_limit_max.                                                *)
buffer == [mem |-> <<>>, size |-> 0, rd |-> 0, wr |-> 0, limit |-> MinSize]

check_init(b) ==
    IF b.size = 0
    THEN [mem |-> [i \in 1 .. MinSize |-> Junk], size |-> MinSize,
          rd |-> 0, wr |-> 0, limit |-> b.limit]
    ELSE b

get_readable_size(b) == b.wr - b.rd

(* The bytes between the two pointers. *)
Contents(b) == [i \in 1 .. get_readable_size(b) |-> b.mem[b.rd + i]]

after_size(b) == b.size - b.wr

(* memcpy to m_write_ptr, which then moves on. *)
Put(b, src) ==
    [mem |-> [i \in 1 .. b.size |->
                 IF b.wr < i /\ i <= b.wr + Len(src) THEN src[i - b.wr] ELSE b.mem[i]],
     size |-> b.size, rd |-> b.rd, wr |-> b.wr + Len(src), limit |-> b.limit]

(* Mutant: the pointers move and the bytes stay. *)
move_pointers(b) == [b EXCEPT !.rd = 0, !.wr = get_readable_size(b)]

move_to_before(b) ==
    [mem |-> [i \in 1 .. b.size |->
                 IF i <= get_readable_size(b) THEN b.mem[b.rd + i] ELSE b.mem[i]],
     size |-> b.size, rd |-> 0, wr |-> get_readable_size(b), limit |-> b.limit]

Grow(b, n) ==
    [mem |-> [i \in 1 .. b.size + n |-> IF i <= b.size THEN b.mem[i] ELSE Junk],
     size |-> b.size + n, rd |-> b.rd, wr |-> b.wr, limit |-> b.limit]

(* write: where the bytes fit after the write pointer, else after moving   *)
(* the readable bytes to the front, else in a larger array; it throws when *)
(* there is nothing to write or the array would pass the limit.            *)
write(b, src) ==
    LET b0 == check_init(b)
        b1 == move_to_before(b0)
        should_add_size == Len(src) - after_size(b1)
    IN  IF src = <<>> THEN [ok |-> FALSE, buf |-> b0]
        ELSE IF Len(src) <= after_size(b0) THEN [ok |-> TRUE, buf |-> Put(b0, src)]
        ELSE IF Len(src) <= after_size(b1) THEN [ok |-> TRUE, buf |-> Put(b1, src)]
        ELSE IF should_add_size + b1.size > b1.limit THEN [ok |-> FALSE, buf |-> b1]
        ELSE [ok |-> TRUE, buf |-> Put(Grow(b1, should_add_size), src)]

Least(m, n) == IF m <= n THEN m ELSE n

(* The bytes a read of n returns, and the buffer after it; a read of no    *)
(* bytes throws.                                                           *)
read(b, n) ==
    LET b0 == check_init(b)
        k == Least(n, get_readable_size(b0))
    IN  [ok |-> n > 0, data |-> SubSeq(Contents(b0), 1, k), buf |-> [b0 EXCEPT !.rd = @ + k]]

(* Nothing is copied when the destination is too small. *)
copy_all(b, out_len) ==
    LET b0 == check_init(b)
    IN  [data |-> IF out_len < get_readable_size(b0) THEN <<>> ELSE Contents(b0), buf |-> b0]

read_ptr_move_n(b, n) ==
    LET b0 == check_init(b)
    IN  IF n = 0 THEN [ok |-> TRUE, buf |-> b]
        ELSE IF n > get_readable_size(b0) THEN [ok |-> FALSE, buf |-> b0]
        ELSE [ok |-> TRUE, buf |-> [b0 EXCEPT !.rd = @ + n]]

(* Room after the write pointer and growth up to the limit: the room that  *)
(* moving the readable bytes to the front would give is not counted.       *)
blank_space(b) ==
    LET b0 == check_init(b) IN after_size(b0) + (b0.limit - b0.size)

(* Mutant: a limit below the present one is taken over. *)
set_limit_any(b, limit_max) == [b EXCEPT !.limit = IF limit_max < MinSize THEN MinSize ELSE limit_max]

set_limit_max(b, limit_max) ==
    IF limit_max < b.limit THEN b
    ELSE [b EXCEPT !.limit = IF limit_max < MinSize THEN MinSize ELSE limit_max]
=============================================================================
