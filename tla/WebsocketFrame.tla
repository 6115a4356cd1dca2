--------------------------- MODULE WebsocketFrame ---------------------------
(***************************************************************************)
(* websocket_app's framing on one connection that has completed its        *)
(* handshake: a client sends frames, their bytes arrive in segments of any *)
(* size, every task parses what m_recv_buffer holds from its start, and    *)
(* the payload of each frame is packed into a new frame for every player   *)
(* (one of them stands for all).  How tasks come about, and what becomes   *)
(* of a client that hangs up, is in Reactor; how the packed bytes reach    *)
(* the socket is in StreamIO.  Here the client stays.                      *)
(*                                                                         *)
(* The byte is a parameter: Base is 256 in the code and NOp 16, and a      *)
(* smaller one puts the boundaries of the length forms (125, 65535) within *)
(* reach of the model checker.  So is its exclusive or, of which only      *)
(* matters that it undoes itself.                                          *)
(***************************************************************************)
EXTENDS Integers, Sequences

CONSTANTS
    Base,       \* 256: values of a byte
    NOp,        \* 16: opcodes
    ByteXor(_, _), \* ^ of two bytes
    Inner,      \* inner_buffer_size: the most that one recv returns
    Frames,     \* frames that a client may send
    MaxFrames,  \* bound: frames of one connection
    MaxBytes    \* bound: their bytes

KeyLen == 4
ShortDigits == 2
LongDigits == 8
Byte == 0 .. Base - 1
Half == Base \div 2                 \* 0x80
Base2 == Base * Base                \* values of a uint16_t
Base4 == Base2 * Base2              \* values of a uint32_t
Word == Base4 * Base4               \* values of a uint64_t
MaxSize == (Word \div 2) - 1        \* std::string::max_size
RecvMax == Inner + 2                \* limit of m_recv_buffer

(* What a length of so many digits can say. *)
Limit(form) ==
    CASE form = 0 -> Half - 2
      [] form = ShortDigits -> Base2
      [] form = LongDigits -> Word

ASSUME ByteAssumption ==
    Base \in Nat \ {0} /\ Base % 2 = 0 /\ NOp \in {4, 8, 16} /\ Half % NOp = 0
ASSUME XorAssumption == \A a, b \in Byte : ByteXor(a, b) \in Byte /\ ByteXor(ByteXor(a, b), b) = a
ASSUME RecvAssumption == Inner \in Nat /\ RecvMax <= Word \div 2

(* A frame is of a type; has a form, the number of digits that give its    *)
(* length, 0 when the second byte does; the length it claims; and the      *)
(* payload the client sends of it, which may fall short of the claim.      *)
ASSUME FramesAssumption ==
    \A f \in Frames :
        /\ f.op \in 0 .. NOp - 1 /\ f.mask \in BOOLEAN
        /\ f.form \in {0, ShortDigits, LongDigits}
        /\ f.key \in [1 .. KeyLen -> Byte] /\ f.payload \in Seq(Byte)
        /\ f.claim \in Len(f.payload) .. Limit(f.form) - 1

VARIABLES
    frames,         \* what the client has sent
    stream,         \* its bytes
    ends,           \* history: how many there were after each frame
    arrived,        \* how many of them m_recv_buffer has received
    sock2buf_data_len,  \* how many more the inner buffer keeps for the next task
    rd,             \* its read pointer
    pc,             \* "idle", or "loop" in process_connection
    base, index, all_data_len,  \* process_connection's data, as an offset, and its locals
    out,            \* bytes written to a player's m_wating_send_pack
    close_flag,
    handled,        \* history: the payloads given to process_frame
    packed,         \* history: the length of out after each of them
    reached         \* history: bytes of data that the last iteration has looked at

clientVars == <<frames, stream, ends>>
recvVars == <<arrived, sock2buf_data_len>>
playerVars == <<out, handled, packed>>
vars == <<clientVars, recvVars, rd, pc, base, index, all_data_len, playerVars, close_flag, reached>>

-----------------------------------------------------------------------------
(* Numbers of k digits, first digit first: message_length >> (8 * i), and  *)
(* the two words that ntohl turns round.                                   *)
Powers == <<1, Base, Base2, Base2 * Base, Base4, Base4 * Base, Base4 * Base2, Base4 * Base2 * Base>>
Digits(n, k) == [i \in 1 .. k |-> (n \div Powers[k - i + 1]) % Base]

ntohl(d, i) == ((d[i + 1] * Base + d[i + 2]) * Base + d[i + 3]) * Base + d[i + 4]
Number(d) ==
    IF Len(d) = ShortDigits THEN d[1] * Base + d[2] ELSE ntohl(d, 0) * Base4 + ntohl(d, 4)

(* payload_data[i] ^= masking_key[i % 4]; its own inverse. *)
Masked(payload, key) == [i \in DOMAIN payload |-> ByteXor(payload[i], key[((i - 1) % KeyLen) + 1])]

(* The client: a frame as bytes. *)
Code(form, n) ==
    CASE form = 0 -> n
      [] form = ShortDigits -> Half - 2
      [] form = LongDigits -> Half - 1

Bytes(f) ==
    <<Half + f.op, (IF f.mask THEN Half ELSE 0) + Code(f.form, f.claim)>>
    \o Digits(f.claim, f.form)
    \o (IF f.mask THEN f.key \o Masked(f.payload, f.key) ELSE f.payload)

(* Where the k-th of some runs of bytes ends, by the ends of all. *)
End(marks, k) == IF k = 0 THEN 0 ELSE marks[k]

-----------------------------------------------------------------------------
(* websocket_app. *)

n_2_websocket_frame_type(n) ==
    CASE n = 1 -> "TEXT_FRAME"
      [] n = 2 -> "BINARY_FRAME"
      [] n = 0 -> "CONTINUATION_FRAME"
      [] n \in 3 .. 7 -> "FURTHER_NON_CONTROL"
      [] n \in 11 .. 15 -> "FURTHER_CONTROL"
      [] n = 8 -> "CONNECTION_CLOSE_FRAME"
      [] n = 9 -> "PING"
      [] n = 10 -> "PONG"

(* Without an index the further types are the first of their range. *)
websocket_frame_type_2_n(type) ==
    CASE type = "TEXT_FRAME" -> 1
      [] type = "BINARY_FRAME" -> 2
      [] type = "CONTINUATION_FRAME" -> 0
      [] type = "FURTHER_NON_CONTROL" -> 3
      [] type = "FURTHER_CONTROL" -> 11
      [] type = "PING" -> 9
      [] type = "PONG" -> 10
      [] OTHER -> 8

(* data[k], and what memory happens to hold after the bytes received. *)
At(k) == IF base + k < arrived THEN stream[base + k + 1] ELSE 0
Data(k, n) == [i \in 1 .. n |-> At(k + i - 1)]

Opcode == At(index) % NOp
Supported == n_2_websocket_frame_type(Opcode) \in {"TEXT_FRAME", "BINARY_FRAME"}

Mask == At(index + 1) >= Half
Length7 == At(index + 1) % Half

(* How many digits follow the second byte. *)
Extended ==
    CASE Length7 = Half - 2 -> ShortDigits
      [] Length7 = Half - 1 -> LongDigits
      [] OTHER -> 0

payload_length == IF Extended = 0 THEN Length7 ELSE Number(Data(index + 2, Extended))

KeyAt == index + 2 + Extended
BodyAt == IF Mask THEN KeyAt + KeyLen ELSE KeyAt

(* The tests before the payload, in the order of the code: both header     *)
(* bytes and one more, the length, a payload that is not empty, the key.   *)
HeaderArrived == index + 2 < all_data_len
LengthArrived == HeaderArrived /\ (Extended > 0 => KeyAt < all_data_len)
NotEmpty == LengthArrived /\ payload_length # 0
KeyArrived == NotEmpty /\ BodyAt < all_data_len

(* Mutant: one byte less is asked for. *)
PayloadAlmostArrived == KeyArrived /\ (BodyAt - 2 + payload_length) % Word < all_data_len

(* index - 1 + payload_length, which wraps, against all_data_len. *)
PayloadArrived == KeyArrived /\ (BodyAt - 1 + payload_length) % Word < all_data_len

(* How far the iteration reads, whether it goes on to the payload or not. *)
Reach ==
    IF ~ Supported \/ index + 1 >= all_data_len THEN index + 1
    ELSE IF ~ LengthArrived THEN index + 2
    ELSE IF ~ KeyArrived THEN KeyAt
    ELSE IF ~ PayloadArrived \/ payload_length > MaxSize THEN BodyAt
    ELSE BodyAt + payload_length

(* Mutant: the short form is used up to 126, which is a code. *)
send_packet_126(first_byte, data) ==
    LET n == Len(data)
    IN  <<first_byte>>
        \o (IF n <= Half - 2 THEN <<n>>
            ELSE IF n < Base2 THEN <<Half - 2>> \o Digits(n, ShortDigits)
            ELSE <<Half - 1>> \o Digits(n, LongDigits))
        \o data

send_packet(first_byte, data) ==
    LET n == Len(data)
    IN  <<first_byte>>
        \o (IF n <= Half - 3 THEN <<n>>
            ELSE IF n < Base2 THEN <<Half - 2>> \o Digits(n, ShortDigits)
            ELSE <<Half - 1>> \o Digits(n, LongDigits))
        \o data

(* One more message, always text, for the player. *)
process_frame(payload_data) ==
    LET frame == send_packet(Half + websocket_frame_type_2_n("TEXT_FRAME"), payload_data)
    IN  /\ out' = out \o frame
        /\ handled' = Append(handled, payload_data)
        /\ packed' = Append(packed, Len(out) + Len(frame))

-----------------------------------------------------------------------------
(* websocket_connection::reuse and the handshake. *)
Init ==
    /\ frames = <<>> /\ stream = <<>> /\ ends = <<>>
    /\ arrived = 0 /\ sock2buf_data_len = 0
    /\ rd = 0 /\ pc = "idle" /\ base = 0 /\ index = 0 /\ all_data_len = 0
    /\ out = <<>> /\ close_flag = FALSE /\ handled = <<>> /\ packed = <<>> /\ reached = 0

(* The task after mark_close removes the connection, and another client    *)
(* gets the object.                                                        *)
Reuse ==
    /\ close_flag
    /\ frames' = <<>> /\ stream' = <<>> /\ ends' = <<>>
    /\ arrived' = 0 /\ sock2buf_data_len' = 0
    /\ rd' = 0 /\ pc' = "idle" /\ base' = 0 /\ index' = 0 /\ all_data_len' = 0
    /\ out' = <<>> /\ close_flag' = FALSE /\ handled' = <<>> /\ packed' = <<>> /\ reached' = 0

(* The client sends one more frame, unless it has left one unfinished,     *)
(* whose payload all that follows would be.                                *)
Sends(f) ==
    /\ Len(frames) < MaxFrames /\ Len(stream) + Len(Bytes(f)) <= MaxBytes
    /\ \A i \in DOMAIN frames : frames[i].claim = Len(frames[i].payload)
    /\ frames' = Append(frames, f)
    /\ stream' = stream \o Bytes(f)
    /\ ends' = Append(ends, Len(stream) + Len(Bytes(f)))
    /\ UNCHANGED <<recvVars, rd, pc, base, index, all_data_len, playerVars, close_flag, reached>>

(* mark_close empties the buffers. *)
mark_close ==
    /\ close_flag' = TRUE
    /\ rd' = arrived
    /\ pc' = "idle"

(* Mutant: a chunk that does not fit ends the connection at once. *)
TaskClosesAtOnce(n, kept) ==
    LET m == arrived + sock2buf_data_len + n
    IN  /\ pc = "idle" /\ ~ close_flag
        /\ kept <= Inner /\ m + kept <= Len(stream) /\ m - rd <= RecvMax
        /\ kept > 0 => m + kept - rd > RecvMax
        /\ arrived' = m /\ sock2buf_data_len' = kept
        /\ base' = rd /\ index' = 0 /\ all_data_len' = m - rd /\ reached' = 0
        /\ pc' = IF m = rd \/ kept > 0 THEN "idle" ELSE "loop"
        /\ close_flag' = (kept > 0) /\ rd' = IF kept > 0 THEN m ELSE rd
        /\ UNCHANGED <<clientVars, playerVars>>

(* A task: sock2buf stores the chunk that the last task kept and, chunk by *)
(* chunk, n more bytes, none when the task is a broadcast's; either the    *)
(* socket has no more, or one more chunk does not fit and is kept, with a  *)
(* task for it.  Then process_connection begins, unless there is nothing   *)
(* to read.                                                                *)
Task(n, kept) ==
    LET m == arrived + sock2buf_data_len + n
    IN  /\ pc = "idle" /\ ~ close_flag
        /\ kept <= Inner /\ m + kept <= Len(stream) /\ m - rd <= RecvMax
        /\ kept > 0 => m + kept - rd > RecvMax
        /\ arrived' = m /\ sock2buf_data_len' = kept
        /\ base' = rd /\ index' = 0 /\ all_data_len' = m - rd /\ reached' = 0
        /\ pc' = IF m = rd THEN "idle" ELSE "loop"
        /\ UNCHANGED <<clientVars, rd, playerVars, close_flag>>

(* The chunk that the last task kept still does not fit: sock2buf fails    *)
(* without need_task, and the task closes the connection.                  *)
Overflow ==
    /\ pc = "idle" /\ ~ close_flag
    /\ sock2buf_data_len > 0 /\ arrived + sock2buf_data_len - rd > RecvMax
    /\ mark_close
    /\ UNCHANGED <<clientVars, recvVars, base, index, all_data_len, playerVars, reached>>

(* All is parsed. *)
LoopEnds ==
    /\ pc = "loop" /\ index >= all_data_len
    /\ pc' = "idle"
    /\ UNCHANGED <<clientVars, recvVars, rd, base, index, all_data_len, playerVars, close_flag,
                   reached>>

(* A frame of another type. *)
Refuse ==
    /\ pc = "loop" /\ index < all_data_len /\ ~ Supported
    /\ mark_close
    /\ reached' = Reach
    /\ UNCHANGED <<clientVars, recvVars, base, index, all_data_len, playerVars>>

(* A frame that has not arrived, or has no payload: the read pointer stays *)
(* at its start, for the next task.                                        *)
Leave ==
    /\ pc = "loop" /\ index < all_data_len /\ Supported /\ ~ PayloadArrived
    /\ pc' = "idle"
    /\ reached' = Reach
    /\ UNCHANGED <<clientVars, recvVars, rd, base, index, all_data_len, playerVars, close_flag>>

(* A length whose sum wrapped: the string's constructor throws, and the    *)
(* task closes the connection.                                             *)
TooLong ==
    /\ pc = "loop" /\ index < all_data_len /\ Supported /\ PayloadArrived
    /\ payload_length > MaxSize
    /\ mark_close
    /\ reached' = Reach
    /\ UNCHANGED <<clientVars, recvVars, base, index, all_data_len, playerVars>>

(* Mutant: the read pointer does not pass the payload. *)
FrameKept ==
    /\ pc = "loop" /\ index < all_data_len /\ Supported /\ PayloadArrived
    /\ payload_length <= MaxSize
    /\ LET raw == Data(BodyAt, payload_length)
           payload == IF Mask THEN Masked(raw, Data(KeyAt, KeyLen)) ELSE raw
       IN  process_frame(payload)
    /\ rd' = rd + (BodyAt - index)
    /\ index' = BodyAt + payload_length
    /\ reached' = Reach
    /\ UNCHANGED <<clientVars, recvVars, pc, base, all_data_len, close_flag>>

(* A whole frame: process_frame, and read pointer and index pass it. *)
Frame ==
    /\ pc = "loop" /\ index < all_data_len /\ Supported /\ PayloadArrived
    /\ payload_length <= MaxSize
    /\ LET raw == Data(BodyAt, payload_length)
           payload == IF Mask THEN Masked(raw, Data(KeyAt, KeyLen)) ELSE raw
       IN  process_frame(payload)
    /\ rd' = rd + (BodyAt - index) + payload_length
    /\ index' = BodyAt + payload_length
    /\ reached' = Reach
    /\ UNCHANGED <<clientVars, recvVars, pc, base, all_data_len, close_flag>>

Next ==
    \/ \E f \in Frames : Sends(f)
    \/ \E n, kept \in 0 .. Len(stream) - arrived : Task(n, kept)
    \/ Overflow \/ Reuse \/ LoopEnds \/ Refuse \/ Leave \/ TooLong \/ Frame

Spec == Init /\ [][Next]_vars

-----------------------------------------------------------------------------
(* Properties. *)

(* What the server can take: text or binary, not empty, of the length that *)
(* its header gives, and one that a string can have.                       *)
Acceptable(f) ==
    f.op \in {1, 2} /\ f.payload # <<>> /\ f.claim = Len(f.payload) /\ f.claim <= MaxSize

(* Whatever the segments, a client's frames are handled once each, in      *)
(* order, unmasked, as soon as they have arrived whole and not before,     *)
(* across tasks that parse the same bytes again; a frame with no payload,  *)
(* or one that is refused, is the last.                                    *)
HandledExact ==
    LET k == Len(handled)
    IN  pc = "idle" =>
            /\ k <= Len(frames) /\ End(ends, k) <= arrived
            /\ \A i \in 1 .. k : Acceptable(frames[i]) /\ handled[i] = frames[i].payload
            /\ k < Len(frames) /\ Acceptable(frames[k + 1]) => arrived < ends[k + 1]

(* process_connection looks at no byte that has not arrived, whatever      *)
(* length a frame claims.                                                  *)
NoOverread == reached <= all_data_len

(* The frames that a broadcast packs carry the payloads: reading them one  *)
(* after the other by the rules of the framing gives back what was         *)
(* handled, at every boundary between the three forms of the length.       *)
BroadcastDecodes ==
    /\ Len(packed) = Len(handled) /\ End(packed, Len(packed)) = Len(out)
    /\ \A k \in 1 .. Len(handled) :
          LET at == End(packed, k - 1)
              form == CASE out[at + 2] = Half - 2 -> ShortDigits
                        [] out[at + 2] = Half - 1 -> LongDigits
                        [] OTHER -> 0
              body == at + 2 + form
              n == IF form = 0 THEN out[at + 2] ELSE Number(SubSeq(out, at + 3, body))
          IN  /\ out[at + 1] = Half + 1
              /\ body + n = packed[k]
              /\ SubSeq(out, body + 1, body + n) = handled[k]

(* The bytes received of frames not yet handled, the first of which is not *)
(* whole or cannot be taken, do not fit into m_recv_buffer.                *)
Overfull ==
    LET k == Len(handled)
    IN  /\ sock2buf_data_len > 0 /\ arrived + sock2buf_data_len - End(ends, k) > RecvMax
        /\ k < Len(frames) /\ Acceptable(frames[k + 1]) => arrived < ends[k + 1]

(* The connection of a client that stays is closed only for a frame that   *)
(* the server cannot take, or because the bytes received of frames not yet *)
(* whole exceed m_recv_buffer, never while a whole one could still be      *)
(* handled to make room; and a frame of another type always closes it.     *)
ClosedExactly ==
    LET k == Len(handled)
    IN  /\ close_flag => \/ /\ k < Len(frames) /\ ~ Acceptable(frames[k + 1])
                            /\ frames[k + 1].payload # <<>> \/ frames[k + 1].op \notin {1, 2}
                         \/ Overfull
        /\ (/\ pc = "idle" /\ k < Len(frames) /\ arrived > End(ends, k)
            /\ frames[k + 1].op \notin {1, 2}) => close_flag
=============================================================================
