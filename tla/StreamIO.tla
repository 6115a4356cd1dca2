------------------------------ MODULE StreamIO ------------------------------
(***************************************************************************)
(* The bytes of one stream_connection (websocket_connection has the same   *)
(* sock2buf and buf2sock):                                                 *)
(*   in:   kernel -> sock2buf_inner_buffer -> m_recv_buffer -> application *)
(*   out:  send() -> m_wating_send_pack -> m_send_buffer                   *)
(*                -> buf2sock_inner_buffer -> kernel.                      *)
(* A task of the connection runs in one worker at a time; send() is called *)
(* by any thread, and the main thread marks the connection closed when the *)
(* peer hangs up.  A step is one critical section of a buffer's mutex or   *)
(* one system call.  The bytes of a stream are numbered, so that a lost,   *)
(* repeated or reordered byte shows.  That the application reads           *)
(* m_recv_buffer in place, outside the mutex, is the subject of            *)
(* BuffersExclusive in Reactor.  write_end_callback is not modelled: no    *)
(* application of the repository sets it on a stream connection.           *)
(***************************************************************************)
EXTENDS BufferOps

CONSTANTS
    Inner,          \* inner_buffer_size
    MaxOut,         \* bound: bytes accepted by send() for one connection
    MaxIn,          \* bound: bytes received by one connection
    MaxPack,        \* bound: bytes of one send()
    PartialWrites   \* may ::send take a part of the bytes

ASSUME InnerAssumption == Inner \in Nat /\ MinSize <= Inner
ASSUME IOAssumption == MaxOut \in Nat /\ MaxIn \in Nat /\ MaxPack \in Nat
ASSUME PartialAssumption == PartialWrites \in BOOLEAN

VARIABLES
    m_recv_buffer, m_send_buffer, m_wating_send_pack,
    carry,          \* the sock2buf_data_len bytes left in sock2buf_inner_buffer
    out_inner,      \* buf2sock_inner_buffer
    should_send_idx, should_send_size,
    close_flag,
    queued,         \* a task of the connection is queued
    pc,             \* where the connection's task is
    offset,         \* process_connection's, where its loop has ended
    accepted, wire,     \* history: bytes send() took, bytes ::send took
    arrived, consumed   \* history: number of bytes received, bytes offset has passed

buffers == <<m_recv_buffer, m_send_buffer, m_wating_send_pack>>
inVars == <<carry, offset, arrived, consumed>>
outVars == <<out_inner, should_send_idx, should_send_size, wire>>
vars == <<buffers, inVars, outVars, close_flag, queued, pc, accepted>>

(* Bytes number a .. b of a stream. *)
Numbered(a, b) == [i \in 1 .. b - a + 1 |-> a + i - 1]

(* Mutant: no slack over the inner buffers. *)
TightBuffer == set_limit_max(buffer, Inner)

(* clear() and set_limit_max(inner_buffer_size + 2). *)
ReusedBuffer == set_limit_max(buffer, Inner + 2)

(* An accepted connection, after reuse(), with its first task queued. *)
Init ==
    /\ m_recv_buffer = ReusedBuffer /\ m_send_buffer = ReusedBuffer
    /\ m_wating_send_pack = ReusedBuffer
    /\ carry = <<>> /\ out_inner = <<>>
    /\ should_send_idx = -1 /\ should_send_size = 0
    /\ close_flag = FALSE /\ queued = TRUE /\ pc = "idle" /\ offset = 0
    /\ accepted = <<>> /\ wire = <<>> /\ arrived = 0 /\ consumed = <<>>

(* mark_close: the first caller clears the buffers and submits a task.     *)
(* These are several critical sections; they are one step because nothing  *)
(* is claimed of the buffers once the flag is up.                          *)
MarkClose ==
    IF close_flag
    THEN UNCHANGED <<close_flag, buffers, queued>>
    ELSE /\ close_flag' = TRUE
         /\ m_recv_buffer' = buffer /\ m_send_buffer' = buffer /\ m_wating_send_pack' = buffer
         /\ queued' = TRUE

-----------------------------------------------------------------------------
(* The other threads. *)

(* send(): all or nothing into m_wating_send_pack, then do_task. *)
Send(n) ==
    LET src == Numbered(Len(accepted) + 1, Len(accepted) + n)
        r == write(m_wating_send_pack, src)
    IN  /\ Len(accepted) + n <= MaxOut
        /\ m_wating_send_pack' = r.buf
        /\ accepted' = IF r.ok THEN accepted \o src ELSE accepted
        /\ queued' = (queued \/ r.ok)
        /\ UNCHANGED <<m_recv_buffer, m_send_buffer, inVars, outVars, close_flag, pc>>

Hangup ==
    /\ ~ close_flag
    /\ MarkClose
    /\ UNCHANGED <<inVars, outVars, pc, accepted>>

-----------------------------------------------------------------------------
(* stream_task::run. *)

(* A queued task, or one that an epoll event submits.  If the connection   *)
(* is closed it is removed, and reuse() readies the object for another.    *)
Run ==
    /\ pc = "idle" /\ ~ close_flag
    /\ pc' = "carry" /\ queued' = FALSE
    /\ UNCHANGED <<buffers, inVars, outVars, close_flag, accepted>>

(* Mutant: reuse() leaves the rest of the last connection's output. *)
ReuseKeepsOutput ==
    /\ pc = "idle" /\ close_flag
    /\ m_recv_buffer' = ReusedBuffer /\ m_send_buffer' = ReusedBuffer
    /\ m_wating_send_pack' = ReusedBuffer
    /\ carry' = <<>> /\ offset' = 0 /\ arrived' = 0 /\ consumed' = <<>>
    /\ UNCHANGED <<out_inner, should_send_idx, should_send_size>> /\ wire' = <<>>
    /\ close_flag' = FALSE /\ queued' = TRUE /\ accepted' = <<>>
    /\ UNCHANGED pc

Reuse ==
    /\ pc = "idle" /\ close_flag
    /\ m_recv_buffer' = ReusedBuffer /\ m_send_buffer' = ReusedBuffer
    /\ m_wating_send_pack' = ReusedBuffer
    /\ carry' = <<>> /\ offset' = 0 /\ arrived' = 0 /\ consumed' = <<>>
    /\ out_inner' = <<>> /\ should_send_idx' = -1 /\ should_send_size' = 0 /\ wire' = <<>>
    /\ close_flag' = FALSE /\ queued' = TRUE /\ accepted' = <<>>
    /\ UNCHANGED pc

(* sock2buf begins with what the last run could not store; if there is     *)
(* still no room the connection is given up.                               *)
Carry ==
    LET r == write(m_recv_buffer, carry)
    IN  /\ pc = "carry"
        /\ IF carry = <<>>
           THEN pc' = "recv" /\ UNCHANGED <<m_recv_buffer, carry>>
           ELSE /\ m_recv_buffer' = r.buf
                /\ pc' = IF r.ok THEN "recv" ELSE "giveup"
                /\ carry' = IF r.ok THEN <<>> ELSE carry
        /\ UNCHANGED <<m_send_buffer, m_wating_send_pack, offset, arrived, consumed, outVars,
                       close_flag, queued, accepted>>

(* Mutant: what does not fit is dropped. *)
RecvDrops(n) ==
    LET r == write(m_recv_buffer, Numbered(arrived + 1, arrived + n))
    IN  /\ pc = "recv" /\ n <= Inner /\ arrived + n <= MaxIn
        /\ m_recv_buffer' = r.buf
        /\ arrived' = arrived + n
        /\ IF r.ok THEN UNCHANGED <<pc, queued>> ELSE pc' = "process" /\ queued' = TRUE
        /\ UNCHANGED <<m_send_buffer, m_wating_send_pack, carry, offset, consumed, outVars,
                       close_flag, accepted>>

(* Mutant: what does not fit waits for the next event, not for a task. *)
RecvNoTask(n) ==
    LET src == Numbered(arrived + 1, arrived + n)
        r == write(m_recv_buffer, src)
    IN  /\ pc = "recv" /\ n <= Inner /\ arrived + n <= MaxIn
        /\ m_recv_buffer' = r.buf
        /\ arrived' = arrived + n
        /\ IF r.ok THEN UNCHANGED <<pc, carry>> ELSE pc' = "process" /\ carry' = src
        /\ UNCHANGED <<m_send_buffer, m_wating_send_pack, offset, consumed, outVars,
                       close_flag, queued, accepted>>

(* ::recv returns n bytes: into m_recv_buffer and on, or, when they do not *)
(* fit, kept for another task.                                             *)
Recv(n) ==
    LET src == Numbered(arrived + 1, arrived + n)
        r == write(m_recv_buffer, src)
    IN  /\ pc = "recv" /\ n <= Inner /\ arrived + n <= MaxIn
        /\ m_recv_buffer' = r.buf
        /\ arrived' = arrived + n
        /\ IF r.ok THEN UNCHANGED <<pc, carry, queued>>
           ELSE pc' = "process" /\ carry' = src /\ queued' = TRUE
        /\ UNCHANGED <<m_send_buffer, m_wating_send_pack, offset, consumed, outVars,
                       close_flag, accepted>>

(* EAGAIN: the kernel has no more; or end of file, or an error. *)
RecvEnds ==
    /\ pc = "recv"
    /\ pc' \in {"process", "giveup"}
    /\ UNCHANGED <<buffers, inVars, outVars, close_flag, queued, accepted>>

(* sock2buf or process_connection has failed: mark_close and return. *)
GiveUp ==
    /\ pc = "giveup"
    /\ MarkClose
    /\ pc' = "idle"
    /\ UNCHANGED <<inVars, outVars, accepted>>

(* process_connection parses the readable bytes in place and drops the     *)
(* first n of them.  Every turn of its loop gives all that are left to     *)
(* ParseFromArray and passes as many as ByteSizeLong of the result: what   *)
(* messages come out of the bytes, and the sum n of their sizes, is        *)
(* protobuf's, and nothing is assumed of it but that it is no more than    *)
(* was readable (the cmd of an accepted package is 0, which takes none).   *)
Process(n) ==
    LET b == check_init(m_recv_buffer)
    IN  /\ pc = "process" /\ n <= get_readable_size(b)
        /\ m_recv_buffer' = b
        /\ consumed' = consumed \o SubSeq(Contents(b), 1, n)
        /\ offset' = n
        /\ pc' = "moved"
        /\ UNCHANGED <<m_send_buffer, m_wating_send_pack, carry, arrived, outVars,
                       close_flag, queued, accepted>>

(* A package that process_protocol rejects, or that makes it throw, ends   *)
(* the connection; the rejected case clears m_recv_buffer once more.  The  *)
(* bytes passed before it are not counted: the connection is over.         *)
ProcessFails ==
    /\ pc = "process" /\ get_readable_size(m_recv_buffer) > 0
    /\ \/ /\ pc' = "fill"
          /\ close_flag' = TRUE /\ m_recv_buffer' = buffer
          /\ IF close_flag
             THEN UNCHANGED <<m_send_buffer, m_wating_send_pack, queued>>
             ELSE m_send_buffer' = buffer /\ m_wating_send_pack' = buffer /\ queued' = TRUE
       \/ pc' = "giveup" /\ UNCHANGED <<buffers, close_flag, queued>>
    /\ UNCHANGED <<inVars, outVars, accepted>>

(* read_ptr_move_n fails when the buffer was cleared in the meantime. *)
Moved ==
    LET r == read_ptr_move_n(m_recv_buffer, offset)
    IN  /\ pc = "moved"
        /\ pc' = "fill" /\ offset' = 0
        /\ IF r.ok
           THEN /\ m_recv_buffer' = r.buf
                /\ UNCHANGED <<m_send_buffer, m_wating_send_pack, close_flag, queued>>
           ELSE MarkClose
        /\ UNCHANGED <<carry, arrived, consumed, outVars, accepted>>

(* buf2sock, tag2: the inner buffer is filled from m_send_buffer. *)
Fill ==
    LET r == read(m_send_buffer, Inner)
    IN  /\ pc = "fill"
        /\ IF should_send_idx >= 0
           THEN pc' = "out" /\ UNCHANGED <<m_send_buffer, out_inner, should_send_idx, should_send_size>>
           ELSE /\ m_send_buffer' = r.buf
                /\ IF r.data # <<>>
                   THEN /\ out_inner' = r.data
                        /\ should_send_idx' = 0 /\ should_send_size' = Len(r.data)
                        /\ pc' = "out"
                   ELSE pc' = "refill" /\ UNCHANGED <<out_inner, should_send_idx, should_send_size>>
        /\ UNCHANGED <<m_recv_buffer, m_wating_send_pack, inVars, wire, close_flag, queued, accepted>>

(* tag3: as much of m_wating_send_pack as m_send_buffer has room for; no   *)
(* room is an error, nothing to send the end.                              *)
Refill ==
    LET room == blank_space(m_send_buffer)
        r == read(m_wating_send_pack, Least(room, Inner))
        w == write(m_send_buffer, r.data)
    IN  /\ pc = "refill"
        /\ IF room = 0
           THEN pc' = "giveup" /\ UNCHANGED <<m_send_buffer, m_wating_send_pack>>
           ELSE /\ m_wating_send_pack' = r.buf
                /\ IF r.data = <<>>
                   THEN pc' = "idle" /\ UNCHANGED m_send_buffer
                   ELSE /\ m_send_buffer' = w.buf
                        /\ pc' = IF w.ok THEN "fill" ELSE "giveup"
        /\ UNCHANGED <<m_recv_buffer, inVars, outVars, close_flag, queued, accepted>>

(* tag4: ::send takes n bytes ...                                          *)
Out(n) ==
    /\ pc = "out"
    /\ n \in 1 .. should_send_size
    /\ PartialWrites \/ n = should_send_size
    /\ wire' = wire \o SubSeq(out_inner, should_send_idx + 1, should_send_idx + n)
    /\ should_send_size' = should_send_size - n
    /\ IF should_send_size = n
       THEN should_send_idx' = -1 /\ out_inner' = <<>>
       ELSE UNCHANGED <<should_send_idx, out_inner>>
    /\ pc' = "fill"
    /\ UNCHANGED <<buffers, inVars, close_flag, queued, accepted>>

(* ... or EAGAIN, and the task ends with EPOLLOUT asked for; or it fails.  *)
OutEnds ==
    /\ pc = "out"
    /\ pc' \in {"idle", "giveup"}
    /\ UNCHANGED <<buffers, inVars, outVars, close_flag, queued, accepted>>

Next ==
    \/ \E n \in 1 .. MaxPack : Send(n)
    \/ \E n \in 1 .. Inner : Recv(n) \/ Out(n)
    \/ \E n \in 0 .. MaxIn : Process(n)
    \/ Hangup \/ Run \/ Reuse \/ Carry \/ RecvEnds \/ GiveUp \/ ProcessFails \/ Moved
    \/ Fill \/ Refill \/ OutEnds

Spec == Init /\ [][Next]_vars

-----------------------------------------------------------------------------
(* Properties. *)

(* What buf2sock has taken from m_send_buffer and not yet sent. *)
Unsent ==
    IF should_send_idx < 0 THEN <<>>
    ELSE SubSeq(out_inner, should_send_idx + 1, should_send_idx + should_send_size)

(* Every byte send() accepted is, in order and once, on the wire, in the   *)
(* inner buffer, in m_send_buffer or in m_wating_send_pack.                *)
OutputExact ==
    ~ close_flag =>
        accepted = wire \o Unsent \o Contents(m_send_buffer) \o Contents(m_wating_send_pack)

(* What the application is given to parse is the received stream, without  *)
(* a gap, from the first byte that its offset has not passed: every byte   *)
(* received has been passed, is in m_recv_buffer or is carried over to the *)
(* next task, in order and once.  (Which messages protobuf makes of these  *)
(* bytes is another matter: it merges those that arrive together.)         *)
InputExact ==
    ~ close_flag =>
        Numbered(1, arrived) =
            consumed \o SubSeq(Contents(m_recv_buffer), offset + 1, Len(Contents(m_recv_buffer)))
                      \o carry

(* buf2sock gives the connection up when m_send_buffer reports no blank    *)
(* space; the limit leaves two bytes over the inner buffer, and that is    *)
(* enough for an empty m_send_buffer never to report none.                 *)
RefillHasRoom == pc = "refill" /\ ~ close_flag => blank_space(m_send_buffer) > 0

(* Bytes carried over are already out of the kernel, so no event need come *)
(* for them: a task is always queued for them.                             *)
CarryHasTask == pc = "idle" /\ carry # <<>> => queued \/ close_flag

(* "send data to socket from connection layer": what is on the wire is a   *)
(* prefix of what send() accepted.                                         *)
OutputInOrder ==
    ~ close_flag => wire = SubSeq(accepted, 1, Len(wire))
=============================================================================
