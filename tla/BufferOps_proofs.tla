-------------------------- MODULE BufferOps_proofs --------------------------
(***************************************************************************)
(* What each member function of buffer does, for every MinSize and every   *)
(* set B of bytes: applied to a buffer it leaves a buffer, and this is     *)
(* what it does to the contents, the limit and the size of the array.      *)
(***************************************************************************)
EXTENDS BufferOps, SequenceTheorems, TLAPS

(* A buffer whose readable part holds bytes of B; the rest of the array    *)
(* may never have been written.                                            *)
Cell(B) == B \cup {Junk}
Mem(B) == UNION {[1 .. n -> Cell(B)] : n \in Nat}

Buf(B) == [mem : Mem(B), size : Nat, rd : Nat, wr : Nat, limit : Nat]

IsBuffer(B, b) ==
    /\ b \in Buf(B)
    /\ b.mem \in [1 .. b.size -> Cell(B)]
    /\ b.rd <= b.wr /\ b.wr <= b.size /\ b.size <= b.limit
    /\ MinSize <= b.limit
    /\ \A i \in b.rd + 1 .. b.wr : b.mem[i] \in B

(* The contents of a buffer are a sequence of bytes. *)
LEMMA ContentsType ==
    ASSUME NEW B, NEW b, IsBuffer(B, b)
    PROVE  /\ Contents(b) \in Seq(B)
           /\ Len(Contents(b)) = b.wr - b.rd
           /\ get_readable_size(b) \in Nat
  <1>1. b.wr \in Nat /\ b.rd \in Nat /\ b.rd <= b.wr
    BY DEF IsBuffer, Buf
  <1>2. \A i \in 1 .. b.wr - b.rd : b.mem[b.rd + i] \in B
    BY <1>1 DEF IsBuffer
  <1>3. QED  BY <1>1, <1>2 DEF Contents, get_readable_size

(* The constructor's buffer is a buffer, and empty. *)
LEMMA NewBuffer ==
    ASSUME NEW B
    PROVE  IsBuffer(B, buffer) /\ Contents(buffer) = <<>> /\ buffer.limit = MinSize /\ buffer.size = 0
  <1>1. buffer.mem = [i \in 1 .. 0 |-> Junk]
    BY DEF buffer
  <1>2. buffer.mem \in [1 .. 0 -> Cell(B)] /\ buffer.mem \in Mem(B)
    BY <1>1 DEF Mem, Cell
  <1>3. QED  BY <1>2, MinSizeAssumption DEF IsBuffer, Buf, buffer, Contents, get_readable_size

(* check_init allocates and changes nothing that a caller can see. *)
LEMMA CheckInit ==
    ASSUME NEW B, NEW b, IsBuffer(B, b)
    PROVE  /\ IsBuffer(B, check_init(b))
           /\ Contents(check_init(b)) = Contents(b)
           /\ check_init(b).limit = b.limit
           /\ check_init(b).rd = b.rd /\ check_init(b).wr = b.wr
  <1>1. CASE b.size # 0
    BY <1>1 DEF check_init
  <1>2. CASE b.size = 0
    <2>1. check_init(b) = [mem |-> [i \in 1 .. MinSize |-> Junk], size |-> MinSize,
                           rd |-> 0, wr |-> 0, limit |-> b.limit]
      BY <1>2 DEF check_init
    <2>2. [i \in 1 .. MinSize |-> Junk] \in [1 .. MinSize -> Cell(B)]
      BY DEF Cell
    <2>3. [i \in 1 .. MinSize |-> Junk] \in Mem(B)
      BY <2>2, MinSizeAssumption DEF Mem
    <2>4. b.rd = 0 /\ b.wr = 0
      BY <1>2 DEF IsBuffer, Buf
    <2> DEFINE m == [i \in 1 .. MinSize |-> Junk]
               p == check_init(b)
    <2> HIDE DEF m
    <2>5. /\ p = [mem |-> m, size |-> MinSize, rd |-> 0, wr |-> 0, limit |-> b.limit]
          /\ m \in Mem(B) /\ m \in [1 .. MinSize -> Cell(B)]
      BY <2>1, <2>2, <2>3 DEF m
    <2> HIDE DEF p
    <2>6. /\ p \in Buf(B) /\ p.mem = m /\ p.size = MinSize
          /\ p.rd = b.rd /\ p.wr = b.wr /\ p.limit = b.limit
      BY <2>4, <2>5, MinSizeAssumption DEF IsBuffer, Buf
    <2>7. IsBuffer(B, p)
      BY <2>4, <2>5, <2>6, MinSizeAssumption DEF IsBuffer
    <2>8. Contents(p) = Contents(b)
      BY <2>4, <2>6 DEF Contents, get_readable_size
    <2>9. QED  BY <2>6, <2>7, <2>8 DEF p
  <1>3. QED  BY <1>1, <1>2

(* memcpy behind the write pointer appends. *)
LEMMA PutAppends ==
    ASSUME NEW B, NEW b, IsBuffer(B, b), NEW src \in Seq(B), Len(src) <= after_size(b)
    PROVE  /\ IsBuffer(B, Put(b, src))
           /\ Contents(Put(b, src)) = Contents(b) \o src
           /\ Put(b, src).limit = b.limit
  <1> DEFINE m == [i \in 1 .. b.size |->
                      IF b.wr < i /\ i <= b.wr + Len(src) THEN src[i - b.wr] ELSE b.mem[i]]
             p == Put(b, src)
  <1>0. /\ b.wr \in Nat /\ b.rd \in Nat /\ b.size \in Nat /\ Len(src) \in Nat
        /\ b.rd <= b.wr /\ b.wr + Len(src) <= b.size
    BY DEF IsBuffer, Buf, after_size
  <1>1. m \in [1 .. b.size -> Cell(B)]
    BY <1>0 DEF IsBuffer, Cell
  <1>2. m \in Mem(B)
    BY <1>0, <1>1 DEF Mem
  <1>3. p = [mem |-> m, size |-> b.size, rd |-> b.rd, wr |-> b.wr + Len(src), limit |-> b.limit]
    BY DEF Put
  <1> HIDE DEF m, p
  <1>4. /\ p.mem = m /\ p.wr = b.wr + Len(src)
        /\ p.rd = b.rd /\ p.size = b.size /\ p.limit = b.limit
    BY <1>0, <1>3
  <1>4a. p \in Buf(B)
    BY <1>0, <1>2, <1>3 DEF IsBuffer, Buf
  <1>5. \A i \in 1 .. b.size :
           m[i] = IF b.wr < i /\ i <= b.wr + Len(src) THEN src[i - b.wr] ELSE b.mem[i]
    BY DEF m
  <1>6. ASSUME NEW i \in p.rd + 1 .. p.wr  PROVE p.mem[i] \in B
    <2>1. i \in 1 .. b.size /\ i \in b.rd + 1 .. b.wr + Len(src)
      BY <1>0, <1>4
    <2>2. CASE i <= b.wr
      BY <1>0, <1>4, <1>5, <2>1, <2>2 DEF IsBuffer
    <2>3. CASE b.wr < i
      <3>1. i - b.wr \in 1 .. Len(src)
        BY <1>0, <2>1, <2>3
      <3>2. src[i - b.wr] \in B
        BY <3>1
      <3>3. QED  BY <1>0, <1>4, <1>5, <2>1, <2>3, <3>2
    <2>4. QED  BY <1>0, <2>1, <2>2, <2>3
  <1>7. IsBuffer(B, p)
    BY <1>0, <1>1, <1>4, <1>4a, <1>6 DEF IsBuffer
  <1>8. Contents(p) = Contents(b) \o src
    <2> DEFINE c == Contents(b)
               n == b.wr - b.rd
    <2>1. Contents(p) \in Seq(B) /\ Len(Contents(p)) = n + Len(src)
      BY <1>0, <1>4, <1>7, ContentsType
    <2>2. c \in Seq(B) /\ Len(c) = n
      BY ContentsType
    <2>3. /\ c \o src \in Seq(B) /\ Len(c \o src) = n + Len(src)
          /\ \A i \in 1 .. n + Len(src) : (c \o src)[i] = IF i <= n THEN c[i] ELSE src[i - n]
      BY <2>2, ConcatProperties
    <2>4. ASSUME NEW i \in 1 .. n + Len(src)  PROVE Contents(p)[i] = (c \o src)[i]
      <3> DEFINE j == b.rd + i
      <3>1. i \in 1 .. get_readable_size(p)
        BY <1>0, <1>4 DEF get_readable_size
      <3>2. Contents(p)[i] = m[j]
        BY <1>4, <3>1 DEF Contents
      <3>3. j \in 1 .. b.size /\ j \in Int /\ i \in Int /\ n \in Int /\ j - b.wr = i - n
        BY <1>0
      <3>4. CASE i <= n
        <4>1. ~ (b.wr < j) /\ i \in 1 .. get_readable_size(b)
          BY <1>0, <3>4 DEF get_readable_size
        <4>2. c[i] = b.mem[j]
          BY <4>1 DEF Contents
        <4> HIDE DEF j, n, c
        <4>3. m[j] = b.mem[j]
          BY <1>5, <3>3, <4>1
        <4>4. QED  BY <2>3, <3>2, <3>4, <4>2, <4>3
      <3>5. CASE n < i
        <4>1. b.wr < j /\ j <= b.wr + Len(src)
          BY <1>0, <3>5
        <4> HIDE DEF j, n, c
        <4>2. m[j] = src[j - b.wr]
          BY <1>5, <3>3, <4>1
        <4>3. (c \o src)[i] = src[i - n]
          BY <2>3, <3>3, <3>5
        <4>4. QED  BY <3>2, <3>3, <4>2, <4>3
      <3>6. i <= n \/ n < i
        BY <3>3
      <3>7. QED  BY <3>4, <3>5, <3>6, Zenon
    <2>5. QED  BY <2>1, <2>3, <2>4, SeqEqual
  <1>9. QED  BY <1>4, <1>7, <1>8 DEF p

(* Moving the readable bytes to the front keeps the contents. *)
LEMMA MoveKeeps ==
    ASSUME NEW B, NEW b, IsBuffer(B, b)
    PROVE  /\ IsBuffer(B, move_to_before(b))
           /\ Contents(move_to_before(b)) = Contents(b)
           /\ move_to_before(b).limit = b.limit
           /\ move_to_before(b).size = b.size
           /\ move_to_before(b).wr = b.wr - b.rd
           /\ move_to_before(b).rd = 0
  <1> DEFINE m == [i \in 1 .. b.size |->
                      IF i <= get_readable_size(b) THEN b.mem[b.rd + i] ELSE b.mem[i]]
             p == move_to_before(b)
  <1>0. /\ b.wr \in Nat /\ b.rd \in Nat /\ b.size \in Nat
        /\ b.rd <= b.wr /\ b.wr <= b.size
        /\ get_readable_size(b) = b.wr - b.rd
    BY DEF IsBuffer, Buf, get_readable_size
  <1>1. m \in [1 .. b.size -> Cell(B)]
    BY <1>0 DEF IsBuffer, Cell
  <1>2. m \in Mem(B)
    BY <1>0, <1>1 DEF Mem
  <1>3. p = [mem |-> m, size |-> b.size, rd |-> 0, wr |-> get_readable_size(b), limit |-> b.limit]
    BY DEF move_to_before
  <1> HIDE DEF m, p
  <1>4. /\ p.mem = m /\ p.wr = b.wr - b.rd
        /\ p.rd = 0 /\ p.size = b.size /\ p.limit = b.limit
    BY <1>0, <1>3
  <1>4a. p \in Buf(B)
    BY <1>0, <1>2, <1>3 DEF IsBuffer, Buf
  <1>5. ASSUME NEW i \in p.rd + 1 .. p.wr  PROVE p.mem[i] \in B
    <2>1. i \in 1 .. b.size /\ i <= get_readable_size(b) /\ b.rd + i \in b.rd + 1 .. b.wr
      BY <1>0, <1>4
    <2>2. p.mem[i] = b.mem[b.rd + i]
      BY <1>4, <2>1 DEF m
    <2>3. QED  BY <2>1, <2>2 DEF IsBuffer
  <1>6. IsBuffer(B, p)
    BY <1>0, <1>1, <1>4, <1>4a, <1>5 DEF IsBuffer
  <1>7. Contents(p) = Contents(b)
    BY <1>0, <1>4 DEF m, Contents, get_readable_size
  <1>8. QED  BY <1>4, <1>6, <1>7 DEF p

(* realloc keeps the contents and makes room. *)
LEMMA GrowKeeps ==
    ASSUME NEW B, NEW b, IsBuffer(B, b), NEW n \in Nat, b.size + n <= b.limit
    PROVE  /\ IsBuffer(B, Grow(b, n))
           /\ Contents(Grow(b, n)) = Contents(b)
           /\ Grow(b, n).limit = b.limit
           /\ Grow(b, n).wr = b.wr
           /\ Grow(b, n).size = b.size + n
  <1> DEFINE m == [i \in 1 .. b.size + n |-> IF i <= b.size THEN b.mem[i] ELSE Junk]
             p == Grow(b, n)
  <1>0. /\ b.wr \in Nat /\ b.rd \in Nat /\ b.size \in Nat
        /\ b.rd <= b.wr /\ b.wr <= b.size
    BY DEF IsBuffer, Buf
  <1>1. m \in [1 .. b.size + n -> Cell(B)]
    BY <1>0 DEF IsBuffer, Cell
  <1>2. m \in Mem(B)
    BY <1>0, <1>1 DEF Mem
  <1>3. p = [mem |-> m, size |-> b.size + n, rd |-> b.rd, wr |-> b.wr, limit |-> b.limit]
    BY DEF Grow
  <1> HIDE DEF m, p
  <1>4. /\ p.mem = m /\ p.wr = b.wr
        /\ p.rd = b.rd /\ p.size = b.size + n /\ p.limit = b.limit
    BY <1>0, <1>3
  <1>4a. p \in Buf(B)
    BY <1>0, <1>2, <1>3 DEF IsBuffer, Buf
  <1>5. \A i \in p.rd + 1 .. p.wr : p.mem[i] \in B
    BY <1>0, <1>4 DEF IsBuffer, m
  <1>6. IsBuffer(B, p)
    BY <1>0, <1>1, <1>4, <1>4a, <1>5 DEF IsBuffer
  <1>7. Contents(p) = Contents(b)
    BY <1>0, <1>4 DEF m, Contents, get_readable_size
  <1>8. QED  BY <1>4, <1>6, <1>7 DEF p

(* write appends the bytes, all or none; it refuses them exactly when      *)
(* there are none or when they would pass the limit.                       *)
LEMMA WriteAppends ==
    ASSUME NEW B, NEW b, IsBuffer(B, b), NEW src \in Seq(B)
    PROVE  LET r == write(b, src)
           IN  /\ IsBuffer(B, r.buf) /\ r.buf.limit = b.limit
               /\ r.ok <=> ~ (src = <<>> \/ Len(Contents(b)) + Len(src) > b.limit)
               /\ Contents(r.buf) = IF r.ok THEN Contents(b) \o src ELSE Contents(b)
  <1> DEFINE b0 == check_init(b)
             b1 == move_to_before(b0)
             add == Len(src) - after_size(b1)
             b2 == Grow(b1, add)
             r == write(b, src)
  <1>1. /\ IsBuffer(B, b0) /\ Contents(b0) = Contents(b) /\ b0.limit = b.limit
        /\ b0.rd = b.rd /\ b0.wr = b.wr
    BY CheckInit
  <1>2. /\ IsBuffer(B, b1) /\ Contents(b1) = Contents(b) /\ b1.limit = b.limit
        /\ b1.size = b0.size /\ b1.wr = b0.wr - b0.rd /\ b1.rd = 0
    BY <1>1, MoveKeeps
  <1>3. /\ Len(src) \in Nat /\ b0.rd \in Nat /\ b0.wr \in Nat /\ b0.size \in Nat /\ b.limit \in Nat
        /\ b0.rd <= b0.wr /\ b0.wr <= b0.size /\ b0.size <= b.limit
        /\ Len(Contents(b)) = b0.wr - b0.rd
        /\ after_size(b0) = b0.size - b0.wr
        /\ after_size(b1) = b0.size - (b0.wr - b0.rd)
    <2>1. Len(Contents(b0)) = b0.wr - b0.rd
      BY <1>1, ContentsType
    <2> HIDE DEF b0, b1
    <2>2. /\ b0.rd \in Nat /\ b0.wr \in Nat /\ b0.size \in Nat /\ b0.limit \in Nat
          /\ b0.rd <= b0.wr /\ b0.wr <= b0.size /\ b0.size <= b0.limit
      BY <1>1 DEF IsBuffer, Buf
    <2>3. QED  BY <1>1, <1>2, <2>1, <2>2 DEF after_size
  <1>4. CASE src = <<>>
    <2>1. r = [ok |-> FALSE, buf |-> b0]
      BY <1>4 DEF write
    <2>2. QED  BY <1>1, <1>4, <2>1
  <1>5. CASE src # <<>> /\ Len(src) <= after_size(b0)
    <2>1. r = [ok |-> TRUE, buf |-> Put(b0, src)]
      BY <1>5 DEF write
    <2>2. Len(Contents(b)) + Len(src) <= b.limit
      BY <1>3, <1>5
    <2>3. /\ IsBuffer(B, Put(b0, src)) /\ Contents(Put(b0, src)) = Contents(b) \o src
          /\ Put(b0, src).limit = b.limit
      BY <1>1, <1>5, PutAppends
    <2>4. r.ok /\ r.buf = Put(b0, src)
      BY <2>1
    <2>5. QED  BY <1>3, <1>5, <2>2, <2>3, <2>4, SMTT(30)
  <1>6. CASE src # <<>> /\ Len(src) > after_size(b0) /\ Len(src) <= after_size(b1)
    <2>1. r = [ok |-> TRUE, buf |-> Put(b1, src)]
      BY <1>3, <1>6 DEF write
    <2>2. Len(Contents(b)) + Len(src) <= b.limit
      BY <1>3, <1>6
    <2>3. /\ IsBuffer(B, Put(b1, src)) /\ Contents(Put(b1, src)) = Contents(b) \o src
          /\ Put(b1, src).limit = b.limit
      BY <1>2, <1>6, PutAppends
    <2>4. r.ok /\ r.buf = Put(b1, src)
      BY <2>1
    <2>5. QED  BY <1>3, <1>6, <2>2, <2>3, <2>4, SMTT(30)
  <1>7. CASE src # <<>> /\ Len(src) > after_size(b1) /\ add + b1.size > b1.limit
    <2>1. Len(src) > after_size(b0) /\ Len(Contents(b)) + Len(src) > b.limit
      BY <1>2, <1>3, <1>7
    <2>2. r = [ok |-> FALSE, buf |-> b1]
      BY <1>3, <1>7, <2>1, SMTT(30) DEF write
    <2>3. QED  BY <1>2, <1>7, <2>1, <2>2
  <1>8. CASE src # <<>> /\ Len(src) > after_size(b1) /\ add + b1.size <= b1.limit
    <2>1. Len(src) > after_size(b0) /\ Len(Contents(b)) + Len(src) <= b.limit
      BY <1>2, <1>3, <1>8
    <2>2. r = [ok |-> TRUE, buf |-> Put(b2, src)]
      BY <1>2, <1>3, <1>8, <2>1, SMTT(30) DEF write
    <2>3. add \in Nat /\ b1.size + add <= b1.limit
      BY <1>2, <1>3, <1>8
    <2> HIDE DEF add
    <2>4. /\ IsBuffer(B, b2) /\ Contents(b2) = Contents(b) /\ b2.limit = b.limit
          /\ b2.wr = b1.wr /\ b2.size = b1.size + add
      BY <1>2, <2>3, GrowKeeps
    <2>5. Len(src) <= after_size(b2)
      BY <1>2, <1>3, <2>3, <2>4 DEF add, after_size
    <2> HIDE DEF b2
    <2>6. /\ IsBuffer(B, Put(b2, src)) /\ Contents(Put(b2, src)) = Contents(b) \o src
          /\ Put(b2, src).limit = b.limit
      BY <2>4, <2>5, PutAppends
    <2>7. r.ok /\ r.buf = Put(b2, src)
      BY <2>2
    <2>8. r.ok <=> ~ (src = <<>> \/ Len(Contents(b)) + Len(src) > b.limit)
      BY <1>3, <1>8, <2>1, <2>7
    <2> HIDE DEF r
    <2>9. QED  BY <2>6, <2>7, <2>8 DEF r
  <1>9. QED
    <2>1. \/ src = <<>>
          \/ src # <<>> /\ Len(src) <= after_size(b0)
          \/ src # <<>> /\ Len(src) > after_size(b0) /\ Len(src) <= after_size(b1)
          \/ src # <<>> /\ Len(src) > after_size(b1) /\ add + b1.size > b1.limit
          \/ src # <<>> /\ Len(src) > after_size(b1) /\ add + b1.size <= b1.limit
      BY <1>2, <1>3
    <2>2. QED  BY <1>4, <1>5, <1>6, <1>7, <1>8, <2>1, Zenon

(* Moving the read pointer drops bytes from the front. *)
LEMMA SkipDrops ==
    ASSUME NEW B, NEW b, IsBuffer(B, b), NEW k \in 0 .. get_readable_size(b)
    PROVE  LET d == [b EXCEPT !.rd = @ + k]
           IN  /\ IsBuffer(B, d) /\ d.limit = b.limit
               /\ Contents(d) = SubSeq(Contents(b), k + 1, Len(Contents(b)))
  <1> DEFINE d == [b EXCEPT !.rd = @ + k]
             c == Contents(b)
             t == SubSeq(c, k + 1, Len(c))
  <1>0. /\ b.wr \in Nat /\ b.rd \in Nat /\ b.size \in Nat
        /\ b.rd <= b.wr /\ b.wr <= b.size
        /\ get_readable_size(b) = b.wr - b.rd
        /\ k \in Nat /\ k <= b.wr - b.rd
    BY SMTT(30) DEF IsBuffer, Buf, get_readable_size
  <1>1. /\ d \in Buf(B) /\ d.mem = b.mem /\ d.size = b.size /\ d.rd = b.rd + k
        /\ d.wr = b.wr /\ d.limit = b.limit
    BY <1>0, SMTT(30) DEF IsBuffer, Buf
  <1> HIDE DEF d
  <1>2. IsBuffer(B, d)
    BY <1>0, <1>1 DEF IsBuffer
  <1>3. c \in Seq(B) /\ Len(c) = b.wr - b.rd
    BY ContentsType
  <1>4. Contents(d) \in Seq(B) /\ Len(Contents(d)) = b.wr - b.rd - k
    BY <1>0, <1>1, <1>2, ContentsType
  <1>5. \A i \in 1 .. b.wr - b.rd : c[i] = b.mem[b.rd + i]
    BY <1>0 DEF Contents
  <1>6. \A i \in 1 .. b.wr - b.rd - k : Contents(d)[i] = b.mem[b.rd + k + i]
    BY <1>0, <1>1 DEF Contents, get_readable_size
  <1> HIDE DEF c
  <1>7. \A i \in k + 1 .. Len(c) : c[i] \in B
    BY <1>0, <1>3
  <1>8. /\ t \in Seq(B) /\ Len(t) = b.wr - b.rd - k
        /\ \A i \in 1 .. b.wr - b.rd - k : t[i] = c[k + i]
    <2>1. k + 1 \in Int /\ Len(c) \in Int
      BY <1>0, <1>3
    <2>2. /\ t \in Seq(B)
          /\ Len(t) = IF k + 1 <= Len(c) THEN Len(c) - (k + 1) + 1 ELSE 0
          /\ \A i \in 1 .. Len(c) - (k + 1) + 1 : t[i] = c[(k + 1) + i - 1]
      BY <1>7, <2>1, SubSeqProperties
    <2> HIDE DEF t
    <2>3. QED  BY <1>0, <1>3, <2>2
  <1> HIDE DEF t
  <1>9. \A i \in 1 .. b.wr - b.rd - k : Contents(d)[i] = t[i]
    <2> TAKE i \in 1 .. b.wr - b.rd - k
    <2>1. k + i \in 1 .. b.wr - b.rd /\ b.rd + (k + i) = b.rd + k + i
      BY <1>0
    <2>2. c[k + i] = b.mem[b.rd + (k + i)]
      BY <1>5, <2>1
    <2>3. QED  BY <1>6, <1>8, <2>1, <2>2
  <1>10. Contents(d) = t
    BY <1>4, <1>8, <1>9, SeqEqual
  <1>11. QED  BY <1>1, <1>2, <1>10 DEF d, t, c

(* The bytes a call takes from the front and the rest make the whole.      *)
LEMMA FrontAndRest ==
    ASSUME NEW B, NEW c \in Seq(B), NEW k \in 0 .. Len(c)
    PROVE  /\ SubSeq(c, 1, k) \in Seq(B) /\ Len(SubSeq(c, 1, k)) = k
           /\ SubSeq(c, k + 1, Len(c)) \in Seq(B)
           /\ SubSeq(c, 1, k) \o SubSeq(c, k + 1, Len(c)) = c
  <1>1. Len(c) \in Nat /\ k \in Nat /\ k <= Len(c)
    BY LenProperties
  <1>2. SubSeq(c, 1, k) \in Seq(B) /\ Len(SubSeq(c, 1, k)) = k
    <2>1. \A i \in 1 .. k : c[i] \in B
      BY <1>1, ElementOfSeq
    <2>2. /\ SubSeq(c, 1, k) \in Seq(B)
          /\ Len(SubSeq(c, 1, k)) = IF 1 <= k THEN k - 1 + 1 ELSE 0
      BY <1>1, <2>1, SubSeqProperties
    <2>3. QED  BY <1>1, <2>2
  <1>3. SubSeq(c, k + 1, Len(c)) \in Seq(B)
    <2>1. \A i \in k + 1 .. Len(c) : c[i] \in B
      BY <1>1, ElementOfSeq
    <2>2. QED  BY <1>1, <2>1, SubSeqProperties
  <1>4. SubSeq(c, 1, k) \o SubSeq(c, k + 1, Len(c)) = SubSeq(c, 1, Len(c))
    <2>1. 1 \in 1 .. Len(c) + 1 /\ k \in 1 - 1 .. Len(c) /\ Len(c) \in k .. Len(c)
      BY <1>1
    <2>2. QED  BY <2>1, ConcatAdjacentSubSeq
  <1>5. QED  BY <1>2, <1>3, <1>4, SubSeqFull

(* read takes as many bytes as it is asked for, or all there are, from the *)
(* front.                                                                  *)
LEMMA ReadTakes ==
    ASSUME NEW B, NEW b, IsBuffer(B, b), NEW n \in Nat
    PROVE  LET r == read(b, n)
               c == Contents(b)
               k == IF n <= Len(c) THEN n ELSE Len(c)
           IN  /\ IsBuffer(B, r.buf) /\ r.buf.limit = b.limit /\ r.buf.size = check_init(b).size
               /\ r.ok <=> n > 0
               /\ k \in 0 .. Len(c) /\ c \in Seq(B)
               /\ r.data = SubSeq(c, 1, k) /\ Contents(r.buf) = SubSeq(c, k + 1, Len(c))
  <1> DEFINE b0 == check_init(b)
             c == Contents(b)
             k == Least(n, get_readable_size(b0))
             d == [b0 EXCEPT !.rd = @ + k]
             r == read(b, n)
  <1>1. IsBuffer(B, b0) /\ Contents(b0) = c /\ b0.limit = b.limit
    BY CheckInit
  <1>2. c \in Seq(B) /\ get_readable_size(b0) \in Nat /\ Len(c) = get_readable_size(b0)
    BY <1>1, ContentsType DEF get_readable_size
  <1>3. k \in 0 .. get_readable_size(b0) /\ k = IF n <= Len(c) THEN n ELSE Len(c)
    BY <1>2 DEF Least
  <1>4. IsBuffer(B, d) /\ d.limit = b.limit /\ Contents(d) = SubSeq(c, k + 1, Len(c))
    BY <1>1, <1>3, SkipDrops
  <1>5. d.size = b0.size
    BY <1>1 DEF IsBuffer, Buf
  <1>6. r = [ok |-> n > 0, data |-> SubSeq(c, 1, k), buf |-> d]
    BY <1>1 DEF read
  <1> HIDE DEF d, c, b0
  <1> HIDE DEF k, r
  <1>7. (r.ok <=> n > 0) /\ r.data = SubSeq(c, 1, k) /\ r.buf = d
    BY <1>6, Zenon
  <1>8. QED  BY <1>2, <1>3, <1>4, <1>5, <1>7 DEF r, c, b0

(* read_ptr_move_n drops n bytes, or refuses if there are fewer. *)
LEMMA MoveDrops ==
    ASSUME NEW B, NEW b, IsBuffer(B, b), NEW n \in Nat
    PROVE  LET r == read_ptr_move_n(b, n)
               c == Contents(b)
           IN  /\ IsBuffer(B, r.buf) /\ r.buf.limit = b.limit
               /\ r.ok <=> n <= Len(c)
               /\ Contents(r.buf) = IF n <= Len(c) THEN SubSeq(c, n + 1, Len(c)) ELSE c
  <1> DEFINE b0 == check_init(b)
             c == Contents(b)
             d == [b0 EXCEPT !.rd = @ + n]
             r == read_ptr_move_n(b, n)
  <1>1. IsBuffer(B, b0) /\ Contents(b0) = c /\ b0.limit = b.limit
    BY CheckInit
  <1>2. c \in Seq(B) /\ get_readable_size(b0) \in Nat /\ Len(c) = get_readable_size(b0)
    BY <1>1, ContentsType DEF get_readable_size
  <1>3. CASE n = 0
    <2>1. r = [ok |-> TRUE, buf |-> b]
      BY <1>3 DEF read_ptr_move_n
    <2>2. n <= Len(c) /\ SubSeq(c, n + 1, Len(c)) = c
      BY <1>2, <1>3, SubSeqFull
    <2> HIDE DEF r
    <2>3. QED  BY <2>1, <2>2 DEF r
  <1>4. CASE n # 0 /\ n > get_readable_size(b0)
    <2>1. r = [ok |-> FALSE, buf |-> b0]
      BY <1>4 DEF read_ptr_move_n
    <2>2. ~ (n <= Len(c))
      BY <1>2, <1>4
    <2> HIDE DEF r, b0
    <2>3. QED  BY <1>1, <2>1, <2>2 DEF r
  <1>5. CASE n # 0 /\ n <= get_readable_size(b0)
    <2>1. r = [ok |-> TRUE, buf |-> d]
      BY <1>2, <1>5 DEF read_ptr_move_n
    <2>2. n \in 0 .. get_readable_size(b0)
      BY <1>2, <1>5
    <2>3. IsBuffer(B, d) /\ d.limit = b.limit /\ Contents(d) = SubSeq(c, n + 1, Len(c))
      BY <1>1, <2>2, SkipDrops
    <2>4. n <= Len(c)
      BY <1>2, <1>5
    <2> HIDE DEF r, d
    <2>5. QED  BY <2>1, <2>3, <2>4 DEF r
  <1>6. QED  BY <1>2, <1>3, <1>4, <1>5

(* set_limit_max never lowers the limit. *)
LEMMA LimitRises ==
    ASSUME NEW B, NEW b, IsBuffer(B, b), NEW l \in Nat
    PROVE  LET d == set_limit_max(b, l)
           IN  /\ IsBuffer(B, d) /\ Contents(d) = Contents(b) /\ d.size = b.size
               /\ d.limit = IF l < b.limit THEN b.limit ELSE l
  <1>0. b.limit \in Nat /\ MinSize <= b.limit /\ b \in Buf(B) /\ MinSize \in Nat
    BY MinSizeAssumption DEF IsBuffer, Buf
  <1>1. CASE l < b.limit
    BY <1>1 DEF set_limit_max
  <1>2. CASE ~ (l < b.limit)
    <2> DEFINE d == [b EXCEPT !.limit = l]
    <2>1. ~ (l < MinSize)
      BY <1>0, <1>2
    <2>2. set_limit_max(b, l) = d
      BY <1>2, <2>1 DEF set_limit_max
    <2>3. /\ d \in Buf(B) /\ d.mem = b.mem /\ d.size = b.size
          /\ d.rd = b.rd /\ d.wr = b.wr /\ d.limit = l
      BY <1>0 DEF Buf
    <2> HIDE DEF d
    <2>4. IsBuffer(B, d)
      BY <1>0, <1>2, <2>3 DEF IsBuffer, Buf
    <2>5. Contents(d) = Contents(b)
      BY <2>3 DEF Contents, get_readable_size
    <2>6. QED  BY <1>2, <2>2, <2>3, <2>4, <2>5
  <1>3. QED  BY <1>1, <1>2

(* blank_space counts the room after the write pointer and up to the       *)
(* limit.                                                                  *)
LEMMA BlankSpaceIs ==
    ASSUME NEW B, NEW b, IsBuffer(B, b)
    PROVE  /\ blank_space(b) = b.limit - b.wr
           /\ b.limit \in Nat /\ b.wr \in Nat /\ b.wr <= check_init(b).size
  <1> DEFINE b0 == check_init(b)
  <1>1. IsBuffer(B, b0) /\ b0.limit = b.limit /\ b0.wr = b.wr
    BY CheckInit
  <1>2. blank_space(b) = after_size(b0) + (b0.limit - b0.size)
    BY DEF blank_space
  <1> HIDE DEF b0
  <1>3. b0.wr \in Nat /\ b0.size \in Nat /\ b0.limit \in Nat /\ b0.wr <= b0.size
    BY <1>1 DEF IsBuffer, Buf
  <1>4. QED  BY <1>1, <1>2, <1>3 DEF after_size, b0

(* The array grows only to hold the contents and what is written. *)
LEMMA WriteGrows ==
    ASSUME NEW B, NEW b, IsBuffer(B, b), NEW src \in Seq(B),
           NEW m \in Nat, check_init(b).size <= m, Len(Contents(b)) + Len(src) <= m
    PROVE  write(b, src).buf.size <= m
  <1> DEFINE b0 == check_init(b)
             b1 == move_to_before(b0)
             add == Len(src) - after_size(b1)
             b2 == Grow(b1, add)
             r == write(b, src)
  <1>1. IsBuffer(B, b0) /\ Contents(b0) = Contents(b)
    BY CheckInit
  <1>2. /\ IsBuffer(B, b1) /\ Contents(b1) = Contents(b)
        /\ b1.size = b0.size /\ b1.wr = b0.wr - b0.rd /\ b1.rd = 0
    BY <1>1, MoveKeeps
  <1>3. Len(Contents(b)) = b1.wr
    <2>1. Len(Contents(b1)) = b1.wr - b1.rd /\ b1.wr \in Nat
      BY <1>2, ContentsType DEF IsBuffer, Buf
    <2> HIDE DEF b1
    <2>2. QED  BY <1>2, <2>1
  <1>4. Put(b0, src).size = b0.size /\ Put(b1, src).size = b1.size /\ Put(b2, src).size = b2.size
    BY DEF Put
  <1>5. b2.size = b1.size + add
    BY DEF Grow
  <1>6. b1.size + add = Len(src) + b1.wr
    <2>1. b1.size \in Nat /\ b1.wr \in Nat /\ Len(src) \in Nat
      BY <1>2, LenProperties DEF IsBuffer, Buf
    <2> HIDE DEF b1
    <2>2. QED  BY <2>1 DEF after_size
  <1>7. r.buf \in {b0, b1, Put(b0, src), Put(b1, src), Put(b2, src)}
    BY DEF write
  <1> HIDE DEF b0, b1, b2, r, add
  <1>8. b0.size <= m /\ b1.size <= m /\ b2.size <= m
    <2>1. Len(src) \in Nat /\ b1.wr \in Nat
      BY <1>2, LenProperties DEF IsBuffer, Buf
    <2>2. QED  BY <1>2, <1>3, <1>5, <1>6, <2>1 DEF b0
  <1>9. QED  BY <1>4, <1>7, <1>8 DEF r
=============================================================================
