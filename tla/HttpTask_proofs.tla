-------------------------- MODULE HttpTask_proofs --------------------------
(***************************************************************************)
(* Machine-checked proofs about HttpTask, for every set of files and       *)
(* requests and every size: the response object is deleted exactly once;   *)
(* the URL that is decoded is the one that was asked for; the peer         *)
(* receives the response, whole and in order, however the kernel cuts it.  *)
(***************************************************************************)
EXTENDS HttpTask, BufferOps_proofs

-----------------------------------------------------------------------------
(* The inductive invariants. *)

TaskAt == {"idle", "read", "process", "write", "notify", "refill", "finish", "free"}

(* Where the flags can be up, and which thread has the connection: a       *)
(* queued task and an armed event exclude each other and a running task.   *)
TurnInv ==
    /\ process_end \in BOOLEAN /\ close_flag \in BOOLEAN /\ queued \in BOOLEAN
    /\ recv_end \in BOOLEAN /\ everything_end \in BOOLEAN /\ response_end \in BOOLEAN
    /\ hup \in BOOLEAN /\ tls \in {"OFF", "OK", "BROKEN"}
    /\ pc \in TaskAt /\ armed \in {"NONE", "IN", "INOUT"}
    /\ queued => pc = "idle" /\ armed = "NONE"
    /\ armed # "NONE" => pc = "idle" /\ ~ close_flag
    /\ close_flag => pc \in {"idle", "free"}
    /\ pc = "free" => close_flag
    /\ pc \in {"write", "notify", "refill"} => process_end
    /\ pc = "read" => ~ process_end
    /\ everything_end => close_flag \/ pc \in {"process", "notify", "refill", "finish"}
    /\ process_end => recv_end

(* The response object. *)
PtrInv ==
    /\ ptr \in [type : {"NONE", "FD", "DIR"}, len : Nat, pos : Nat] /\ ptr.pos <= ptr.len
    /\ ptr.type = "NONE" => ptr = NoPtr
    /\ ptr # NoPtr => process_end
    /\ pc = "free" => ptr = NoPtr
    /\ pc # "free" /\ write_end_callback => ptr # NoPtr
    /\ write_end_callback \in BOOLEAN

FreedInv == TurnInv /\ PtrInv /\ ResponseFreed

(* The request, when its URL arrives in one segment. *)
RequestInv ==
    /\ req \in Requests
    /\ asked \in Nat /\ got \in 0 .. asked /\ asked <= UrlLen(req) + 2
    /\ asked = 0 \/ asked > UrlLen(req)
    /\ got = 0 \/ (got > UrlLen(req) /\ url = encode(req.name))
    /\ recv_end => got = UrlLen(req) + 2 /\ ~ req.bad

BytesInv ==
    /\ IsBuffer(Int, m_send_buffer)
    /\ ~ close_flag => m_send_buffer.limit >= LimitMax
    /\ inner \in Seq(Int) /\ buffer_start_use \in 0 .. Len(inner)
    /\ wire \in Seq(Int)

(* What has been produced of the response, and how much has not. *)
Produced ==
    wire \o SubSeq(inner, buffer_start_use + 1, Len(inner)) \o Contents(m_send_buffer)
Left == IF write_end_callback THEN ptr.len - ptr.pos ELSE 0

(* Nothing is produced before process_callback; then it is the beginning   *)
(* of the response, and Left bytes are to come.                            *)
ProducedInv ==
    /\ ~ process_end => /\ wire = <<>> /\ inner = <<>> /\ buffer_start_use = 0
                        /\ ~ close_flag => Contents(m_send_buffer) = <<>>
                        /\ ~ write_end_callback /\ ~ response_end
    /\ process_end /\ ~ close_flag =>
          /\ Len(Produced) + Left = Len(Response(req))
          /\ \/ LongListing(req)
             \/ \A i \in 1 .. Len(Produced) : Produced[i] = Response(req)[i]
          /\ write_end_callback =>
                LET f == Lookup(req.name)
                IN  /\ f.kind \in {"FILE", "DIR"} /\ ptr.len = f.len
                    /\ ptr.type = IF f.kind = "DIR" THEN "DIR" ELSE "FD"
                    /\ ptr.type = "DIR" /\ ptr.len <= Piece => ptr.pos \in {0, ptr.len}
          /\ response_end /\ ~ hup => Left = 0
          /\ ~ write_end_callback => response_end \/ Lookup(req.name).kind = "NOSTAT"

WireInv ==
    /\ Len(wire) <= Len(Response(req))
    /\ LongListing(req) \/ \A i \in 1 .. Len(wire) : wire[i] = Response(req)[i]
    /\ everything_end /\ ~ hup => Len(wire) = Len(Response(req))

ExactInv == RequestInv /\ BytesInv /\ ProducedInv /\ WireInv

-----------------------------------------------------------------------------
USE DEF vars, peerVars, flagVars, outVars, appVars, kernelVars

Kinds == {"FILE", "NOOPEN", "NOSTAT", "DIR", "DOTDOT", "NONE"}

(* What a path leads to, and how long it is. *)
LEMMA LookupType ==
    ASSUME NEW path
    PROVE  LET f == Lookup(path)
           IN  /\ f.kind \in Kinds /\ f.len \in Nat
               /\ f.kind = "DIR" => f.len > 0
               /\ f.kind \notin {"FILE", "DIR"} => f.len = 0
  <1>1. CASE HasDotDot(path)
    BY <1>1 DEF Lookup, Kinds
  <1>2. CASE ~ HasDotDot(path) /\ \E f \in Files : f.name = path
    <2> DEFINE g == CHOOSE f \in Files : f.name = path
    <2>1. g \in Files
      BY <1>2
    <2>2. Lookup(path) = [kind |-> g.kind, len |-> g.len]
      BY <1>2 DEF Lookup
    <2> HIDE DEF g
    <2>3. /\ g.kind \in {"FILE", "NOOPEN", "NOSTAT", "DIR"} /\ g.len \in Nat
          /\ (g.kind = "DIR" => g.len > 0) /\ (g.kind \in {"NOOPEN", "NOSTAT"} => g.len = 0)
      BY <2>1, FilesAssumption
    <2>4. QED  BY <2>2, <2>3 DEF Kinds
  <1>3. CASE ~ HasDotDot(path) /\ ~ \E f \in Files : f.name = path
    BY <1>3 DEF Lookup, Kinds
  <1>4. QED  BY <1>1, <1>2, <1>3

(* write_end_callback moves on in the file or listing, by at most a piece. *)
LEMMA PieceMoves ==
    ASSUME NEW b, NEW p \in [type : {"NONE", "FD", "DIR"}, len : Nat, pos : Nat], p.pos <= p.len
    PROVE  LET q == AddPiece(b, p).ptr
           IN  /\ q \in [type : {"NONE", "FD", "DIR"}, len : Nat, pos : Nat]
               /\ q.pos <= q.len /\ q.type = p.type /\ q.len = p.len
               /\ p.len = 0 => q = p
               /\ AddPiece(b, p).end \in BOOLEAN
  <1> DEFINE n == Least(Piece, p.len - p.pos)
             first == IF p.type = "FD" THEN p.pos + 1 ELSE 1
             r == write(b, SubSeq(Body(p.len), first, first + n - 1))
             q == [p EXCEPT !.pos = @ + n]
  <1>1. n \in Nat /\ n <= p.len - p.pos
    BY HttpSizeAssumption DEF Least
  <1>2. /\ AddPiece(b, p).ptr = p \/ (n # 0 /\ AddPiece(b, p).ptr = q)
        /\ AddPiece(b, p).end = TRUE \/ AddPiece(b, p).end = FALSE
    <2> HIDE DEF r
    <2>1. AddPiece(b, p) = IF n = 0 THEN [buf |-> b, ptr |-> p, end |-> TRUE]
                           ELSE [buf |-> r.buf, end |-> FALSE,
                                 ptr |-> IF p.type = "FD" \/ r.ok THEN q ELSE p]
      BY DEF AddPiece, r
    <2> HIDE DEF n, q
    <2>2. CASE n = 0
      BY <2>1, <2>2
    <2>3. CASE n # 0
      BY <2>1, <2>3
    <2>4. QED  BY <2>2, <2>3
  <1> HIDE DEF n
  <1>3. /\ q \in [type : {"NONE", "FD", "DIR"}, len : Nat, pos : Nat]
        /\ q.pos <= q.len /\ q.type = p.type /\ q.len = p.len
    BY <1>1
  <1> HIDE DEF q
  <1>4. p.len = 0 => n = 0
    BY <1>1
  <1>5. QED  BY <1>2, <1>3, <1>4

(* A connection starts without a response object. *)
LEMMA FreedInit == Init => FreedInv
  <1> SUFFICES ASSUME Init  PROVE FreedInv
    OBVIOUS
  <1>1. TurnInv
    BY DEF Init, TurnInv, TaskAt
  <1>2. /\ ptr = NoPtr /\ allocated = 0 /\ write_end_callback = FALSE
        /\ NoPtr \in [type : {"NONE", "FD", "DIR"}, len : Nat, pos : Nat] /\ NoPtr.pos <= NoPtr.len
    BY DEF Init, NoPtr
  <1>3. QED  BY <1>1, <1>2 DEF FreedInv, PtrInv, ResponseFreed

(* What process_callback does to the response object. *)
LEMMA CallbackObject ==
    ASSUME TurnInv, PtrInv, process_callback
    PROVE  /\ response_end' \in BOOLEAN /\ everything_end' \in {TRUE, everything_end}
           /\ \/ UNCHANGED appVars
              \/ /\ ptr' \in [type : {"FD", "DIR"}, len : Nat, pos : Nat] /\ ptr'.pos <= ptr'.len
                 /\ allocated' = allocated + 1
                 /\ write_end_callback' \in {TRUE, write_end_callback}
  <1> DEFINE f == Lookup(decode(url))
             head == write(m_send_buffer, HeadBytes).buf
             response == [type |-> IF f.kind = "DIR" THEN "DIR" ELSE "FD", len |-> f.len, pos |-> 0]
             first == AddPiece(head, response)
  <1>1. f.len \in Nat
    BY LookupType
  <1>2. response \in [type : {"FD", "DIR"}, len : Nat, pos : Nat] /\ response.pos <= response.len
    <2> HIDE DEF f
    <2>1. QED  BY <1>1
  <1>3. \/ response_end' = response_end /\ UNCHANGED appVars
        \/ response_end' = TRUE /\ UNCHANGED appVars
        \/ /\ response_end' = TRUE /\ ptr' = response /\ allocated' = allocated + 1
           /\ UNCHANGED write_end_callback
        \/ /\ write_end_callback' = TRUE /\ response_end' = first.end
           /\ ptr' = first.ptr /\ allocated' = allocated + 1
    BY DEF process_callback
  <1>4. everything_end' \in {TRUE, everything_end}
    BY DEF process_callback
  <1>5. response_end \in BOOLEAN
    BY DEF TurnInv
  <1> HIDE DEF f, head, response
  <1>6. /\ first.ptr \in [type : {"NONE", "FD", "DIR"}, len : Nat, pos : Nat]
        /\ first.ptr.pos <= first.ptr.len /\ first.ptr.type = response.type
        /\ first.end \in BOOLEAN
    BY <1>2, PieceMoves
  <1> HIDE DEF first
  <1>7. first.ptr \in [type : {"FD", "DIR"}, len : Nat, pos : Nat]
    BY <1>2, <1>6
  <1>8. QED  BY <1>2, <1>3, <1>6, <1>7, <1>4, <1>5

(* The callback moves on in the response object and keeps it. *)
LEMMA NotifyObject ==
    ASSUME PtrInv, response_end \in BOOLEAN, Notify
    PROVE  /\ response_end' \in BOOLEAN
           /\ ptr' \in [type : {"NONE", "FD", "DIR"}, len : Nat, pos : Nat] /\ ptr'.pos <= ptr'.len
           /\ ptr'.type = ptr.type /\ (ptr = NoPtr => ptr' = NoPtr)
           /\ UNCHANGED <<process_end, write_end_callback, allocated>>
           /\ pc = "notify" /\ pc' = "refill"
  <1> DEFINE cb == AddPiece(m_send_buffer, ptr)
  <1>1. /\ \/ ptr' = cb.ptr /\ response_end' = cb.end
           \/ UNCHANGED <<ptr, response_end>>
        /\ UNCHANGED <<process_end, write_end_callback, allocated>>
        /\ pc = "notify" /\ pc' = "refill"
    BY DEF Notify
  <1>2. /\ cb.ptr \in [type : {"NONE", "FD", "DIR"}, len : Nat, pos : Nat]
        /\ cb.ptr.pos <= cb.ptr.len /\ cb.ptr.type = ptr.type
        /\ ptr.len = 0 => cb.ptr = ptr
        /\ cb.end \in BOOLEAN
    BY PieceMoves DEF PtrInv
  <1>3. ptr = NoPtr => ptr.len = 0
    BY DEF NoPtr
  <1> HIDE DEF cb
  <1>4. QED  BY <1>1, <1>2, <1>3 DEF PtrInv

(* Every step keeps the flags where they can be, and one actor at a time. *)
LEMMA TurnStep ==
    ASSUME TurnInv, PtrInv, [Next]_vars
    PROVE  TurnInv'
  <1> USE DEF TurnInv
  <1>1. CASE Reuse
    BY <1>1 DEF Reuse, TaskAt
  <1>2. CASE \E n \in 1 .. Len(Message(req)) : Ask(n)
    <2>1. UNCHANGED <<hup, tls, flagVars, close_flag, armed, queued, pc>>
      BY <1>2 DEF Ask
    <2>2. QED  BY <2>1
  <1>17. CASE PeerReads \/ HangUp \/ Break
    <2>1. /\ UNCHANGED <<flagVars, close_flag, armed, queued, pc>>
          /\ hup' \in {hup, TRUE} /\ tls' \in {tls, "BROKEN"}
      BY <1>17 DEF PeerReads, HangUp, Break
    <2>2. QED  BY <2>1
  <1>3. CASE Event
    BY <1>3 DEF Event
  <1>4. CASE EventHup
    BY <1>4 DEF EventHup, mark_close
  <1>5. CASE Run
    BY <1>5 DEF Run, TaskAt
  <1>6. CASE Release
    BY <1>6 DEF Release, TaskAt
  <1>7. CASE Recv
    <2>1. /\ recv_end' \in BOOLEAN /\ everything_end' \in BOOLEAN
          /\ pc = "read" /\ pc' \in {"process", "read"} /\ (everything_end' => pc' = "process")
      BY <1>7, Zenon DEF Recv
    <2>2. ~ process_end
      BY <1>7 DEF Recv
    <2>3. QED  BY <1>7, <2>1, <2>2 DEF Recv, TaskAt
  <1>8. CASE RecvEnds
    <2>1. everything_end' \in BOOLEAN
      BY <1>8, Zenon DEF RecvEnds
    <2>2. QED  BY <1>8, <2>1 DEF RecvEnds, TaskAt
  <1>9. CASE Process
    <2>1. process_end' \in BOOLEAN /\ (process_end' => recv_end) /\ (process_end => process_end')
      BY <1>9 DEF Process
    <2>2. response_end' \in BOOLEAN
      BY <1>9, CallbackObject DEF Process
    <2>3. /\ pc = "process" /\ pc' = IF ~ everything_end' /\ process_end' THEN "write" ELSE "finish"
          /\ UNCHANGED <<peerVars, got, url, recv_end, close_flag, armed, queued>>
      BY <1>9 DEF Process
    <2>4. everything_end' \in {TRUE, everything_end}
      BY <1>9, CallbackObject DEF Process
    <2>5. everything_end' \in BOOLEAN
      BY <2>4
    <2>6. QED  BY <2>1, <2>2, <2>3, <2>5 DEF TaskAt
  <1>10. CASE SendEnds
    <2>1. everything_end' \in BOOLEAN /\ response_end' \in BOOLEAN
      BY <1>10, Zenon DEF SendEnds
    <2>2. QED  BY <1>10, <2>1 DEF SendEnds, TaskAt
  <1>11. CASE Notify
    <2>1. everything_end' \in BOOLEAN
      BY <1>11, Zenon DEF Notify
    <2>2. response_end' \in BOOLEAN
      BY <1>11, NotifyObject
    <2>3. QED  BY <1>11, <2>1, <2>2 DEF Notify, TaskAt
  <1>12. CASE Refill
    <2>1. everything_end' \in BOOLEAN
      BY <1>12, Zenon DEF Refill
    <2>2. QED  BY <1>12, <2>1 DEF Refill, TaskAt
  <1>13. CASE Finish
    BY <1>13 DEF Finish, mark_close, TaskAt
  <1>14. CASE \E n \in 1 .. Room : Send(n)
    BY <1>14 DEF Send
  <1>15. CASE UNCHANGED vars
    BY <1>15
  <1>16. QED
    BY <1>1, <1>2, <1>3, <1>4, <1>5, <1>6, <1>7, <1>8, <1>9, <1>10, <1>11, <1>12, <1>13, <1>14, <1>15, <1>17
       DEF Next, MainStep, TaskStep

(* Every step keeps ptr the one object not yet deleted. *)
LEMMA PtrStep ==
    ASSUME TurnInv, PtrInv, ResponseFreed, [Next]_vars
    PROVE  PtrInv' /\ ResponseFreed'
  <1> USE DEF PtrInv, ResponseFreed
  <1>1. CASE Reuse
    <2>1. ptr = NoPtr /\ ptr' = NoPtr /\ UNCHANGED allocated /\ write_end_callback' = FALSE
      BY <1>1 DEF Reuse
    <2>2. QED  BY <2>1 DEF NoPtr
  <1>2. CASE Release
    <2>1. /\ pc' = "free" /\ UNCHANGED <<process_end, write_end_callback>>
          /\ IF process_end /\ ptr # NoPtr THEN ptr' = NoPtr /\ allocated' = allocated - 1
             ELSE UNCHANGED <<ptr, allocated>>
      BY <1>2 DEF Release
    <2>2. CASE ptr = NoPtr
      BY <2>1, <2>2
    <2>3. CASE ptr # NoPtr
      BY <2>1, <2>3 DEF NoPtr
    <2>4. QED  BY <2>2, <2>3
  <1>3. CASE Process
    <2>1. pc = "process" /\ pc' # "free"
      BY <1>3 DEF Process
    <2>2. CASE UNCHANGED <<process_end, appVars>>
      BY <2>1, <2>2
    <2>3. CASE process_end' = TRUE /\ ~ process_end /\ process_callback
      <3>1. ptr = NoPtr /\ allocated = 0
        BY <2>3
      <3>2. CASE UNCHANGED appVars
        BY <2>1, <2>3, <3>1, <3>2
      <3>3. CASE /\ ptr' \in [type : {"FD", "DIR"}, len : Nat, pos : Nat] /\ ptr'.pos <= ptr'.len
                 /\ allocated' = allocated + 1
                 /\ write_end_callback' \in {TRUE, write_end_callback}
        <4>1. ptr'.type # "NONE" /\ ptr' # NoPtr
          BY <3>3 DEF NoPtr
        <4>2. ptr' \in [type : {"NONE", "FD", "DIR"}, len : Nat, pos : Nat] /\ ptr'.pos <= ptr'.len
          BY <3>3
        <4>3. allocated' = 1 /\ process_end'
          BY <2>3, <3>1, <3>3
        <4>4. write_end_callback' \in BOOLEAN
          <5>1. CASE write_end_callback' = TRUE
            BY <5>1
          <5>2. CASE write_end_callback' = write_end_callback
            BY <5>2
          <5>3. QED  BY <3>3, <5>1, <5>2
        <4>5. QED  BY <2>1, <4>1, <4>2, <4>3, <4>4
      <3>4. QED  BY <2>3, <3>2, <3>3, CallbackObject
    <2>4. QED  BY <1>3, <2>2, <2>3 DEF Process
  <1>4. CASE Notify
    <2>1. /\ ptr' \in [type : {"NONE", "FD", "DIR"}, len : Nat, pos : Nat] /\ ptr'.pos <= ptr'.len
          /\ ptr'.type = ptr.type /\ (ptr = NoPtr => ptr' = NoPtr)
          /\ UNCHANGED <<process_end, write_end_callback, allocated>>
          /\ pc = "notify" /\ pc' = "refill"
      BY <1>4, NotifyObject DEF TurnInv
    <2>2. ptr # NoPtr => ptr'.type # "NONE" /\ ptr' # NoPtr
      BY <2>1 DEF NoPtr
    <2>3. QED  BY <2>1, <2>2
  <1>5. CASE UNCHANGED <<ptr, write_end_callback, allocated, process_end>> /\ pc # "free" /\ pc' # "free"
    BY <1>5
  <1>6. CASE UNCHANGED <<ptr, write_end_callback, allocated, process_end, pc>>
    BY <1>6
  <1>7. CASE MainStep \/ PeerReads \/ HangUp \/ Break
    BY <1>6, <1>7 DEF MainStep, Event, EventHup, PeerReads, HangUp, Break
  <1>8. CASE \E n \in 1 .. Len(Message(req)) : Ask(n)
    BY <1>6, <1>8 DEF Ask
  <1>9. CASE \E n \in 1 .. Room : Send(n)
    BY <1>6, <1>9 DEF Send
  <1>10. CASE Run \/ Recv \/ RecvEnds \/ SendEnds \/ Refill \/ Finish
    BY <1>5, <1>10 DEF Run, Recv, RecvEnds, SendEnds, Refill, Finish
  <1>11. QED
    BY <1>1, <1>2, <1>3, <1>4, <1>6, <1>7, <1>8, <1>9, <1>10 DEF Next, TaskStep

(* The invariant behind ResponseIsFreed. *)
LEMMA FreedHolds == Spec => []FreedInv
  <1>1. FreedInv /\ [Next]_vars => FreedInv'
    BY TurnStep, PtrStep DEF FreedInv
  <1>2. QED  BY <1>1, FreedInit, PTL DEF Spec

(* The http_app_reponse that process_callback allocates is deleted by the  *)
(* connection's destory_callback, once, however the connection ends: when  *)
(* a connection object is reused none is left over.                        *)
THEOREM ResponseIsFreed == Spec => []ResponseFreed
  <1>1. FreedInv => ResponseFreed
    BY DEF FreedInv
  <1>2. QED  BY <1>1, FreedHolds, PTL

-----------------------------------------------------------------------------
(* The request. *)

(* A request's bytes are its encoded name and two marks. *)
LEMMA MessageIs ==
    ASSUME LinksDecode, NEW r \in Requests
    PROVE  /\ UrlLen(r) \in Nat /\ Len(Message(r)) = UrlLen(r) + 2
           /\ SubSeq(Message(r), 1, UrlLen(r)) = encode(r.name)
  <1> DEFINE e == encode(r.name)
             t == <<EndOfUrl, EndOfMessage>>
             m == e \o t
  <1>1. e \in Seq(Int) /\ Len(e) \in Nat
    BY LenProperties DEF LinksDecode
  <1>2. t \in Seq(Int) /\ Len(t) = 2
    BY DEF EndOfUrl, EndOfMessage
  <1> HIDE DEF e, t
  <1>3. /\ m \in Seq(Int) /\ Len(m) = Len(e) + 2
        /\ \A i \in 1 .. Len(e) : m[i] = e[i]
    <2>1. /\ e \o t \in Seq(Int) /\ Len(e \o t) = Len(e) + Len(t)
          /\ \A i \in 1 .. Len(e) + Len(t) : (e \o t)[i] = IF i <= Len(e) THEN e[i] ELSE t[i - Len(e)]
      BY <1>1, <1>2, ConcatProperties
    <2>2. QED  BY <1>1, <1>2, <2>1
  <1> HIDE DEF m
  <1>4. SubSeq(m, 1, Len(e)) = e
    <2>1. CASE Len(e) = 0
      <3>1. e = <<>>
        BY <1>1, <2>1, EmptySeq
      <3>2. SubSeq(m, 1, Len(e)) = <<>>
        BY <1>3, <2>1, SubSeqEmpty
      <3>3. QED  BY <3>1, <3>2
    <2>2. CASE Len(e) # 0
      <3>1. /\ SubSeq(m, 1, Len(e)) \in Seq(Int) /\ Len(SubSeq(m, 1, Len(e))) = Len(e)
            /\ \A i \in 1 .. Len(e) : SubSeq(m, 1, Len(e))[i] = m[i]
        <4>1. 1 \in 1 .. Len(m) + 1 /\ Len(e) \in 0 .. Len(m)
          BY <1>1, <1>3
        <4>2. QED  BY <1>1, <1>3, <4>1, SubSeqProperties
      <3>2. QED  BY <1>1, <1>3, <3>1, SeqEqual
    <2>3. QED  BY <2>1, <2>2
  <1>5. Message(r) = m /\ UrlLen(r) = Len(e)
    BY DEF Message, UrlLen, m, t, e
  <1>6. QED  BY <1>1, <1>3, <1>4, <1>5 DEF e

(* A URL that arrives in one segment is kept whole. *)
LEMMA RequestStep ==
    ASSUME SplitUrl = FALSE, LinksDecode, TurnInv, RequestInv, [Next]_vars
    PROVE  RequestInv'
  <1>1. /\ req \in Requests /\ UrlLen(req) \in Nat /\ Len(Message(req)) = UrlLen(req) + 2
        /\ SubSeq(Message(req), 1, UrlLen(req)) = encode(req.name)
    BY MessageIs DEF RequestInv
  <1>2. CASE Reuse
    <2>1. req' \in Requests /\ asked' = 0 /\ got' = 0 /\ recv_end' = FALSE
      BY <1>2 DEF Reuse
    <2>2. UrlLen(req') \in Nat
      BY <2>1, MessageIs
    <2>3. UrlLen(req)' = UrlLen(req')
      BY DEF UrlLen
    <2>4. QED  BY <2>1, <2>2, <2>3 DEF RequestInv
  <1>3. ASSUME NEW n \in 1 .. Len(Message(req)), Ask(n)  PROVE RequestInv'
    <2>1. /\ asked' = asked + n /\ asked + n <= UrlLen(req) + 2 /\ asked + n > UrlLen(req)
          /\ UNCHANGED <<req, got, url, recv_end>>
      BY <1>1, <1>3 DEF Ask
    <2>2. UrlLen(req)' = UrlLen(req)
      BY <2>1 DEF UrlLen
    <2>3. QED  BY <1>1, <2>1, <2>2 DEF RequestInv
  <1>4. CASE Recv
    <2>1. /\ got < asked /\ got' = asked
          /\ url' = IF got <= UrlLen(req) THEN SubSeq(Message(req), got + 1, Least(asked, UrlLen(req)))
                    ELSE url
          /\ recv_end' => asked = Len(Message(req)) /\ ~ req.bad
          /\ UNCHANGED <<req, asked>>
      BY <1>4 DEF Recv, on_url
    <2>2. UrlLen(req)' = UrlLen(req)
      BY <2>1 DEF UrlLen
    <2>3. got \in Nat /\ asked \in Nat /\ asked > UrlLen(req) /\ asked <= UrlLen(req) + 2
      BY <2>1 DEF RequestInv
    <2>4. url' = encode(req.name)
      <3>1. CASE got = 0
        <4>1. Least(asked, UrlLen(req)) = UrlLen(req) /\ got <= UrlLen(req) /\ got + 1 = 1
          BY <1>1, <2>3, <3>1 DEF Least
        <4>2. QED  BY <1>1, <2>1, <4>1
      <3>2. CASE got # 0
        <4>1. got > UrlLen(req) /\ url = encode(req.name)
          BY <3>2 DEF RequestInv
        <4>2. ~ (got <= UrlLen(req))
          BY <1>1, <2>3, <4>1
        <4>3. QED  BY <2>1, <4>1, <4>2
      <3>3. QED  BY <3>1, <3>2
    <2>5. asked' = asked /\ got' \in 0 .. asked' /\ req' = req
      BY <2>1, <2>3
    <2>6. recv_end' => got' = UrlLen(req) + 2 /\ ~ req.bad
      BY <1>1, <2>1
    <2>7. QED  BY <1>1, <2>1, <2>2, <2>3, <2>4, <2>5, <2>6 DEF RequestInv
  <1>5. CASE UNCHANGED <<req, asked, got, url, recv_end>>
    BY <1>5 DEF RequestInv, UrlLen
  <1>6. CASE MainStep \/ PeerReads \/ HangUp \/ Break
    BY <1>5, <1>6 DEF MainStep, Event, EventHup, PeerReads, HangUp, Break
  <1>7. CASE \E n \in 1 .. Room : Send(n)
    BY <1>5, <1>7 DEF Send
  <1>8. CASE Run \/ Release \/ RecvEnds \/ Process \/ SendEnds \/ Notify \/ Refill \/ Finish
    BY <1>5, <1>8 DEF Run, Release, RecvEnds, Process, SendEnds, Notify, Refill, Finish
  <1>9. QED
    BY <1>2, <1>3, <1>4, <1>5, <1>6, <1>7, <1>8 DEF Next, TaskStep

(* No request has arrived yet. *)
LEMMA RequestInit == ASSUME LinksDecode, Init PROVE RequestInv
  <1>1. req \in Requests /\ UrlLen(req) \in Nat
    BY MessageIs DEF Init
  <1>2. QED  BY <1>1 DEF Init, RequestInv

(* When a URL arrives in one segment, the URL that process_callback        *)
(* decodes is the whole URL of the request, for every request whose link   *)
(* decodes to its name.  Without the first hypothesis it is false: on_url  *)
(* keeps the last part only, which the run http_segments shows.  That      *)
(* url::decode undoes url::encode is an induction over the name, which TLC *)
(* checks.                                                                 *)
THEOREM RequestIsWhole ==
    ASSUME SplitUrl = FALSE, LinksDecode
    PROVE  Spec => []RequestWhole
  <1> DEFINE I == FreedInv /\ RequestInv
  <1>1. Init => I
    BY FreedInit, RequestInit
  <1>2. I /\ [Next]_vars => I'
    BY TurnStep, PtrStep, RequestStep DEF FreedInv
  <1>3. I => RequestWhole
    <2> SUFFICES ASSUME I, process_end  PROVE decode(url) = req.name
      BY DEF RequestWhole
    <2>1. got = UrlLen(req) + 2 /\ req \in Requests
      BY DEF FreedInv, TurnInv, RequestInv
    <2>2. UrlLen(req) \in Nat
      BY <2>1, MessageIs
    <2>3. url = encode(req.name)
      BY <2>1, <2>2 DEF RequestInv
    <2>4. QED  BY <2>1, <2>3 DEF LinksDecode
  <1> HIDE DEF I
  <1>4. QED  BY <1>1, <1>2, <1>3, PTL DEF Spec

-----------------------------------------------------------------------------
(* Slices of a sequence, and what a piece of the response is. *)

(* A slice, byte by byte. *)
LEMMA SliceIs ==
    ASSUME NEW s \in Seq(Int), NEW a \in Nat, NEW b \in Nat, a <= b, b <= Len(s)
    PROVE  /\ SubSeq(s, a + 1, b) \in Seq(Int) /\ Len(SubSeq(s, a + 1, b)) = b - a
           /\ \A i \in 1 .. b - a : SubSeq(s, a + 1, b)[i] = s[a + i]
  <1>1. Len(s) \in Nat /\ \A i \in 1 .. Len(s) : s[i] \in Int
    BY LenProperties, ElementOfSeq
  <1>2. \A i \in a + 1 .. b : s[i] \in Int
    BY <1>1
  <1>3. a + 1 \in Int /\ b \in Int
    OBVIOUS
  <1> DEFINE m == a + 1
             t == SubSeq(s, m, b)
  <1>4. m \in Int /\ m = a + 1 /\ \A i \in m .. b : s[i] \in Int
    BY <1>2, <1>3
  <1> HIDE DEF m
  <1>5. /\ t \in Seq(Int) /\ Len(t) = IF m <= b THEN b - m + 1 ELSE 0
        /\ \A i \in 1 .. b - m + 1 : t[i] = s[m + i - 1]
    BY <1>3, <1>4, SubSeqProperties
  <1> HIDE DEF t
  <1>6. /\ Len(t) = b - a /\ b - m + 1 = b - a
    BY <1>4, <1>5
  <1>7. ASSUME NEW i \in 1 .. b - a  PROVE t[i] = s[a + i]
    <2>1. m + i - 1 = a + i /\ i \in 1 .. b - m + 1
      BY <1>4, <1>6
    <2>2. QED  BY <1>5, <2>1
  <1>8. QED  BY <1>5, <1>6, <1>7 DEF t, m

(* Two slices that meet. *)
LEMMA SliceJoin ==
    ASSUME NEW s \in Seq(Int), NEW a \in Nat, NEW b \in Nat, NEW c \in Nat, a <= b, b <= c, c <= Len(s)
    PROVE  SubSeq(s, a + 1, b) \o SubSeq(s, b + 1, c) = SubSeq(s, a + 1, c)
  <1> DEFINE x == SubSeq(s, a + 1, b)
             y == SubSeq(s, b + 1, c)
             z == SubSeq(s, a + 1, c)
  <1>0. Len(s) \in Nat /\ b <= Len(s) /\ a <= c
    BY LenProperties
  <1>1. x \in Seq(Int) /\ Len(x) = b - a /\ \A i \in 1 .. b - a : x[i] = s[a + i]
    BY <1>0, SliceIs
  <1>2. y \in Seq(Int) /\ Len(y) = c - b /\ \A i \in 1 .. c - b : y[i] = s[b + i]
    BY <1>0, SliceIs
  <1>3. z \in Seq(Int) /\ Len(z) = c - a /\ \A i \in 1 .. c - a : z[i] = s[a + i]
    BY <1>0, SliceIs
  <1> HIDE DEF x, y, z
  <1>4. /\ x \o y \in Seq(Int) /\ Len(x \o y) = Len(x) + Len(y)
        /\ \A i \in 1 .. Len(x) + Len(y) : (x \o y)[i] = IF i <= Len(x) THEN x[i] ELSE y[i - Len(x)]
    BY <1>1, <1>2, ConcatProperties
  <1>5. Len(x) + Len(y) = c - a
    BY <1>1, <1>2
  <1>6. ASSUME NEW i \in 1 .. c - a  PROVE (x \o y)[i] = z[i]
    <2>1. CASE i <= b - a
      BY <1>1, <1>3, <1>4, <1>5, <2>1
    <2>2. CASE ~ (i <= b - a)
      <3>1. i - (b - a) \in 1 .. c - b /\ b + (i - (b - a)) = a + i
        BY <2>2
      <3>2. (x \o y)[i] = y[i - (b - a)]
        BY <1>1, <1>4, <1>5, <2>2
      <3>3. QED  BY <1>2, <1>3, <3>1, <3>2
    <2>3. QED  BY <2>1, <2>2
  <1>7. QED  BY <1>3, <1>4, <1>5, <1>6, SeqEqual DEF x, y, z

(* Concatenation is associative. *)
LEMMA Regroup == \A s, t, u \in Seq(Int) : (s \o t) \o u = s \o (t \o u)
  BY SMTT(30), ConcatAssociative

(* The bytes of a file. *)
LEMMA BodyIs ==
    ASSUME NEW n \in Nat
    PROVE  Body(n) \in Seq(Int) /\ Len(Body(n)) = n /\ \A i \in 1 .. n : Body(n)[i] = i
  BY DEF Body

(* The bytes of a head. *)
LEMMA HeadIs ==
    /\ HeadBytes \in Seq(Int) /\ Len(HeadBytes) = HeadLen /\ HeadBytes # <<>>
    /\ \A i \in 1 .. HeadLen : HeadBytes[i] = - i
  <1>1. HeadLen \in Nat \ {0}
    BY HttpSizeAssumption
  <1>2. /\ HeadBytes \in Seq(Int) /\ Len(HeadBytes) = HeadLen
        /\ \A i \in 1 .. HeadLen : HeadBytes[i] = - i
    BY <1>1 DEF HeadBytes
  <1>3. HeadBytes # <<>>
    BY <1>1, <1>2
  <1>4. QED  BY <1>2, <1>3

(* The bytes of a response: the head and what the path leads to. *)
LEMMA ResponseIs ==
    ASSUME NEW r, NEW f, f = Lookup(r.name)
    PROVE  /\ Response(r) \in Seq(Int)
           /\ r.bad \/ f.kind \in {"DOTDOT", "NOSTAT"} => Len(Response(r)) = 0
           /\ ~ (r.bad \/ f.kind \in {"DOTDOT", "NOSTAT"}) =>
                 /\ Len(Response(r)) = HeadLen + f.len
                 /\ \A i \in 1 .. HeadLen + f.len :
                       Response(r)[i] = IF i <= HeadLen THEN - i ELSE i - HeadLen
  <1>1. CASE r.bad \/ f.kind \in {"DOTDOT", "NOSTAT"}
    <2>1. Response(r) = <<>>
      BY <1>1 DEF Response
    <2>2. QED  BY <1>1, <2>1, EmptySeq
  <1>2. CASE ~ (r.bad \/ f.kind \in {"DOTDOT", "NOSTAT"})
    <2> DEFINE h == HeadBytes
               b == Body(f.len)
    <2>1. f.len \in Nat /\ HeadLen \in Nat
      BY LookupType, HttpSizeAssumption
    <2>2. h \in Seq(Int) /\ Len(h) = HeadLen /\ \A i \in 1 .. HeadLen : h[i] = - i
      BY HeadIs
    <2>3. b \in Seq(Int) /\ Len(b) = f.len /\ \A i \in 1 .. f.len : b[i] = i
      BY <2>1, BodyIs
    <2>4. Response(r) = h \o b
      BY <1>2 DEF Response
    <2> HIDE DEF h, b
    <2>5. /\ h \o b \in Seq(Int) /\ Len(h \o b) = Len(h) + Len(b)
          /\ \A i \in 1 .. Len(h) + Len(b) : (h \o b)[i] = IF i <= Len(h) THEN h[i] ELSE b[i - Len(h)]
      BY <2>2, <2>3, ConcatProperties
    <2>6. ASSUME NEW i \in 1 .. HeadLen + f.len
          PROVE  (h \o b)[i] = IF i <= HeadLen THEN - i ELSE i - HeadLen
      <3>1. CASE i <= HeadLen
        BY <2>1, <2>2, <2>3, <2>5, <3>1
      <3>2. CASE ~ (i <= HeadLen)
        <4>1. i - HeadLen \in 1 .. f.len
          BY <2>1, <3>2
        <4>2. QED  BY <2>1, <2>2, <2>3, <2>5, <3>2, <4>1
      <3>3. QED  BY <3>1, <3>2
    <2>7. QED  BY <1>2, <2>2, <2>3, <2>4, <2>5, <2>6
  <1>3. QED  BY <1>1, <1>2

(* The next piece of a file or of a listing. *)
NextLen(p) == Least(Piece, p.len - p.pos)
NextFrom(p) == IF p.type = "FD" THEN p.pos ELSE 0
NextPiece(p) == SubSeq(Body(p.len), NextFrom(p) + 1, NextFrom(p) + NextLen(p))

Objects == [type : {"FD", "DIR"}, len : Nat, pos : Nat]

(* The next piece follows what was produced, except in a long listing. *)
LEMMA NextIs ==
    ASSUME NEW p \in Objects, p.pos <= p.len
    PROVE  /\ NextLen(p) \in Nat /\ NextLen(p) <= p.len - p.pos /\ NextLen(p) <= Piece
           /\ NextLen(p) = Piece \/ NextLen(p) = p.len - p.pos
           /\ NextLen(p) = 0 => p.pos = p.len
           /\ NextPiece(p) \in Seq(Int) /\ Len(NextPiece(p)) = NextLen(p)
           /\ p.type = "FD" \/ p.pos = 0 => \A j \in 1 .. NextLen(p) : NextPiece(p)[j] = p.pos + j
  <1> DEFINE n == NextLen(p)
             start == NextFrom(p)
             e == start + n
             y == Body(p.len)
             s == SubSeq(y, start + 1, e)
  <1>1. Piece \in Nat \ {0} /\ p.len \in Nat /\ p.pos \in Nat
    BY HttpSizeAssumption DEF Objects
  <1>2. /\ n \in Nat /\ n <= Piece /\ n <= p.len - p.pos /\ (n = 0 => p.pos = p.len)
        /\ n = Piece \/ n = p.len - p.pos
    BY <1>1 DEF NextLen, Least
  <1> HIDE DEF n
  <1>3. start \in Nat /\ e \in Nat /\ e <= p.len /\ start <= e /\ e - start = n
        /\ (p.type = "FD" \/ p.pos = 0 => start = p.pos)
    BY <1>1, <1>2 DEF NextFrom
  <1> HIDE DEF start
  <1>4. y \in Seq(Int) /\ Len(y) = p.len /\ \A i \in 1 .. p.len : y[i] = i
    BY <1>1, BodyIs
  <1> HIDE DEF y
  <1>5. \A j \in 1 .. n : start + j \in 1 .. p.len
    BY <1>1, <1>2, <1>3
  <1> HIDE DEF e
  <1>6. s \in Seq(Int) /\ Len(s) = e - start /\ \A i \in 1 .. e - start : s[i] = y[start + i]
    BY <1>3, <1>4, SliceIs
  <1>7. NextPiece(p) = s
    BY DEF NextPiece, y, e, start, n
  <1> HIDE DEF s
  <1>8. s \in Seq(Int) /\ Len(s) = n /\ \A j \in 1 .. n : s[j] = start + j
    BY <1>3, <1>4, <1>5, <1>6
  <1>9. p.type = "FD" \/ p.pos = 0 => \A j \in 1 .. n : s[j] = p.pos + j
    BY <1>3, <1>8
  <1>10. QED  BY <1>2, <1>7, <1>8, <1>9 DEF n

(* write_end_callback in its two cases. *)
LEMMA AddPieceIs ==
    ASSUME NEW b, NEW p \in Objects, p.pos <= p.len
    PROVE  LET r == write(b, NextPiece(p))
               q == [p EXCEPT !.pos = @ + NextLen(p)]
           IN  /\ NextLen(p) = 0 => AddPiece(b, p) = [buf |-> b, ptr |-> p, end |-> TRUE]
               /\ NextLen(p) # 0 =>
                     AddPiece(b, p) = [buf |-> r.buf, end |-> FALSE,
                                       ptr |-> IF p.type = "FD" \/ r.ok THEN q ELSE p]
  <1> DEFINE n == Least(Piece, p.len - p.pos)
             first == IF p.type = "FD" THEN p.pos + 1 ELSE 1
             s == SubSeq(Body(p.len), first, first + n - 1)
  <1>1. n \in Nat /\ p.pos \in Nat
    BY NextIs DEF NextLen, Objects
  <1>2. first = NextFrom(p) + 1 /\ first + n - 1 = NextFrom(p) + n
    BY <1>1 DEF NextFrom
  <1>3. s = NextPiece(p)
    <2> HIDE DEF first
    <2>1. QED  BY <1>2 DEF NextPiece, NextLen
  <1>4. AddPiece(b, p) = IF n = 0 THEN [buf |-> b, ptr |-> p, end |-> TRUE]
                         ELSE [buf |-> write(b, s).buf, end |-> FALSE,
                               ptr |-> IF p.type = "FD" \/ write(b, s).ok
                                       THEN [p EXCEPT !.pos = @ + n] ELSE p]
    BY DEF AddPiece
  <1> HIDE DEF s
  <1>5. QED  BY <1>3, <1>4 DEF NextLen

(* It leaves a proper buffer, written or not. *)
LEMMA AddPieceBuffer ==
    ASSUME NEW b, IsBuffer(Int, b), NEW p \in Objects, p.pos <= p.len
    PROVE  IsBuffer(Int, AddPiece(b, p).buf) /\ AddPiece(b, p).buf.limit = b.limit
  <1> DEFINE r == write(b, NextPiece(p))
  <1>1. IsBuffer(Int, r.buf) /\ r.buf.limit = b.limit
    BY NextIs, WriteAppends
  <1> HIDE DEF r
  <1>2. AddPiece(b, p).buf = b \/ AddPiece(b, p).buf = r.buf
    BY AddPieceIs DEF r
  <1>3. QED  BY <1>1, <1>2

(* write_end_callback appends the next piece when there is room for it. *)
LEMMA AddPieceFits ==
    ASSUME NEW b, IsBuffer(Int, b), NEW p \in Objects, p.pos <= p.len,
           Len(Contents(b)) + Piece <= b.limit
    PROVE  /\ Contents(AddPiece(b, p).buf) = Contents(b) \o NextPiece(p)
           /\ AddPiece(b, p).ptr.type = p.type /\ AddPiece(b, p).ptr.len = p.len
           /\ AddPiece(b, p).ptr.pos = p.pos + NextLen(p)
           /\ AddPiece(b, p).end \in BOOLEAN
           /\ AddPiece(b, p).end => NextLen(p) = 0
           /\ NextLen(p) = 0 => AddPiece(b, p).end
  <1> DEFINE n == NextLen(p)
             s == NextPiece(p)
             r == write(b, s)
             c == Contents(b)
             q == [p EXCEPT !.pos = @ + n]
             a == AddPiece(b, p)
  <1>1. s \in Seq(Int) /\ Len(s) = n /\ n \in Nat /\ n <= Piece /\ Piece \in Nat
        /\ p.pos \in Nat
    BY NextIs, HttpSizeAssumption DEF Objects
  <1>2. /\ r.ok <=> ~ (s = <<>> \/ Len(c) + Len(s) > b.limit)
        /\ Contents(r.buf) = IF r.ok THEN c \o s ELSE c
    BY <1>1, WriteAppends
  <1>3. c \in Seq(Int) /\ Len(c) \in Nat /\ b.limit \in Nat
    <2>1. c \in Seq(Int)
      BY ContentsType
    <2>2. QED  BY <2>1, LenProperties DEF IsBuffer, Buf
  <1>4. q.type = p.type /\ q.len = p.len /\ q.pos = p.pos + n
    BY DEF Objects
  <1>5. /\ n = 0 => a = [buf |-> b, ptr |-> p, end |-> TRUE]
        /\ n # 0 => a = [buf |-> r.buf, end |-> FALSE, ptr |-> IF p.type = "FD" \/ r.ok THEN q ELSE p]
    BY AddPieceIs
  <1> HIDE DEF n, s, r, c, q, a
  <1>6. CASE n = 0
    <2>1. a.buf = b /\ a.ptr = p /\ a.end = TRUE /\ p.pos + n = p.pos
      BY <1>1, <1>5, <1>6
    <2>2. s = <<>> /\ c \o <<>> = c
      BY <1>1, <1>3, <1>6, EmptySeq, ConcatEmptySeq
    <2>3. QED  BY <1>6, <2>1, <2>2 DEF a, c, s, n
  <1>7. CASE n # 0
    <2>1. r.ok
      <3>1. s # <<>>
        BY <1>1, <1>7
      <3>2. ~ (Len(c) + Len(s) > b.limit)
        BY <1>1, <1>3 DEF c
      <3>3. QED  BY <1>2, <3>1, <3>2
    <2>2. a.buf = r.buf /\ a.end = FALSE /\ a.ptr = q
      BY <1>5, <1>7, <2>1
    <2>3. Contents(r.buf) = c \o s
      BY <1>2, <2>1
    <2>4. QED  BY <1>4, <1>7, <2>2, <2>3 DEF a, c, s, n
  <1>8. QED  BY <1>6, <1>7

-----------------------------------------------------------------------------
(* The response, when m_send_buffer has room for the head and a piece. *)

(* reuse leaves an empty m_send_buffer of the full limit. *)
LEMMA ReusedIs ==
    /\ IsBuffer(Int, ReusedBuffer) /\ Contents(ReusedBuffer) = <<>>
    /\ ReusedBuffer.limit >= LimitMax
  <1>1. IsBuffer(Int, buffer) /\ Contents(buffer) = <<>> /\ buffer.limit = MinSize
    BY NewBuffer
  <1>2. LimitMax \in Nat /\ MinSize \in Nat
    BY HttpSizeAssumption, MinSizeAssumption
  <1> HIDE DEF buffer
  <1>3. /\ IsBuffer(Int, set_limit_max(buffer, LimitMax))
        /\ Contents(set_limit_max(buffer, LimitMax)) = Contents(buffer)
        /\ set_limit_max(buffer, LimitMax).limit = IF LimitMax < buffer.limit THEN buffer.limit ELSE LimitMax
    BY <1>1, <1>2, LimitRises
  <1>4. QED  BY <1>1, <1>2, <1>3 DEF ReusedBuffer

(* What is produced so far is a run of bytes. *)
LEMMA ProducedType ==
    ASSUME BytesInv
    PROVE  /\ Contents(m_send_buffer) \in Seq(Int)
           /\ SubSeq(inner, buffer_start_use + 1, Len(inner)) \in Seq(Int)
           /\ wire \o SubSeq(inner, buffer_start_use + 1, Len(inner)) \in Seq(Int)
           /\ Produced \in Seq(Int)
  <1> DEFINE c == Contents(m_send_buffer)
             t == SubSeq(inner, buffer_start_use + 1, Len(inner))
  <1>1. c \in Seq(Int) /\ wire \in Seq(Int)
    BY ContentsType DEF BytesInv
  <1>2. t \in Seq(Int)
    <2>1. inner \in Seq(Int) /\ Len(inner) \in Nat /\ buffer_start_use \in Nat /\ buffer_start_use <= Len(inner)
      BY LenProperties DEF BytesInv
    <2>2. QED  BY <2>1, SliceIs
  <1>3. Produced = wire \o t \o c
    BY DEF Produced
  <1> HIDE DEF c, t
  <1>4. wire \o t \in Seq(Int)
    BY <1>1, <1>2, ConcatProperties
  <1>5. wire \o t \o c \in Seq(Int)
    BY <1>1, <1>4, ConcatProperties
  <1>6. QED  BY <1>1, <1>2, <1>3, <1>4, <1>5 DEF c, t

(* The response belongs to the request. *)
LEMMA SameRequest ==
    ASSUME req' = req
    PROVE  Response(req)' = Response(req) /\ LongListing(req)' = LongListing(req)
           /\ Lookup(req.name)' = Lookup(req.name)
  OBVIOUS

(* Steps that leave the output alone. *)
LEMMA OutFrame ==
    ASSUME BytesInv, ProducedInv, hup => hup',
           UNCHANGED <<req, process_end, response_end, wire, inner, buffer_start_use, m_send_buffer,
                       write_end_callback, ptr, close_flag>>
    PROVE  BytesInv' /\ ProducedInv'
  <1>1. BytesInv'
    BY DEF BytesInv
  <1>2. Produced' = Produced /\ Left' = Left
    BY DEF Produced, Left
  <1>3. ProducedInv'
    BY <1>2, SameRequest DEF ProducedInv
  <1>4. QED  BY <1>1, <1>3

(* Steps that close. *)
LEMMA OutClose ==
    ASSUME BytesInv, ProducedInv, mark_close,
           UNCHANGED <<req, process_end, response_end, wire, inner, buffer_start_use,
                       write_end_callback, ptr>>
    PROVE  BytesInv' /\ ProducedInv'
  <1> HIDE DEF buffer
  <1>1. close_flag' = TRUE /\ IsBuffer(Int, m_send_buffer')
    <2>1. m_send_buffer' = m_send_buffer \/ m_send_buffer' = buffer
      BY DEF mark_close
    <2>2. IsBuffer(Int, m_send_buffer')
      BY <2>1, NewBuffer DEF BytesInv
    <2>3. close_flag' = TRUE
      <3>1. CASE close_flag
        BY <3>1 DEF mark_close
      <3>2. CASE ~ close_flag
        BY <3>2 DEF mark_close
      <3>3. QED  BY <3>1, <3>2
    <2>4. QED  BY <2>2, <2>3
  <1>2. BytesInv'
    BY <1>1 DEF BytesInv
  <1>3. ProducedInv'
    BY <1>1 DEF ProducedInv
  <1>4. QED  BY <1>2, <1>3

(* Steps that move bytes from one place to the next. *)
LEMMA OutMove ==
    ASSUME BytesInv, ProducedInv, BytesInv', Produced' = Produced, process_end,
           UNCHANGED <<req, hup, process_end, response_end, write_end_callback, ptr, close_flag>>
    PROVE  ProducedInv'
  <1>1. Left' = Left
    BY DEF Left
  <1>2. QED  BY <1>1, SameRequest DEF ProducedInv

(* The next piece keeps what is produced the beginning of the response. *)
LEMMA PieceFits ==
    ASSUME NEW r, NEW f, f = Lookup(r.name), ~ r.bad, f.kind \notin {"DOTDOT", "NOSTAT"},
           NEW P \in Seq(Int), NEW s \in Seq(Int), NEW pos \in Nat, pos + Len(s) <= f.len,
           Len(P) = HeadLen + pos,
           \A i \in 1 .. Len(P) : P[i] = Response(r)[i],
           \A j \in 1 .. Len(s) : s[j] = pos + j
    PROVE  \A i \in 1 .. Len(P \o s) : (P \o s)[i] = Response(r)[i]
  <1>1. f.len \in Nat /\ HeadLen \in Nat /\ Len(P) \in Nat /\ Len(s) \in Nat
    BY LookupType, HttpSizeAssumption, LenProperties
  <1>2. \A i \in 1 .. HeadLen + f.len : Response(r)[i] = IF i <= HeadLen THEN - i ELSE i - HeadLen
    BY ResponseIs
  <1>3. /\ Len(P \o s) = Len(P) + Len(s)
        /\ \A i \in 1 .. Len(P) + Len(s) : (P \o s)[i] = IF i <= Len(P) THEN P[i] ELSE s[i - Len(P)]
    BY ConcatProperties
  <1>4. ASSUME NEW i \in 1 .. Len(P) + Len(s)  PROVE (P \o s)[i] = Response(r)[i]
    <2>1. CASE i <= Len(P)
      BY <1>1, <1>3, <2>1
    <2>2. CASE ~ (i <= Len(P))
      <3>1. i - Len(P) \in 1 .. Len(s) /\ pos + (i - Len(P)) = i - HeadLen
        BY SMTT(30), <1>1, <2>2
      <3>2. i \in 1 .. HeadLen + f.len /\ ~ (i <= HeadLen)
        BY <1>1, <2>2
      <3>3. (P \o s)[i] = s[i - Len(P)]
        BY <1>1, <1>3, <2>2
      <3>4. QED  BY <1>2, <3>1, <3>2, <3>3
    <2>3. QED  BY <2>1, <2>2
  <1>5. QED  BY <1>3, <1>4

(* What process_callback produces. *)
LEMMA CallbackBytes ==
    ASSUME HeadLen + Piece <= LimitMax, BytesInv, ~ close_flag, Contents(m_send_buffer) = <<>>,
           ~ write_end_callback, decode(url) = req.name, ~ req.bad, process_callback,
           NEW f, f = Lookup(req.name)
    PROVE  LET c == Contents(m_send_buffer')
           IN  /\ IsBuffer(Int, m_send_buffer') /\ m_send_buffer'.limit = m_send_buffer.limit
               /\ Len(c) + Left' = Len(Response(req))
               /\ \A i \in 1 .. Len(c) : c[i] = Response(req)[i]
               /\ write_end_callback' =>
                     /\ f.kind \in {"FILE", "DIR"} /\ ptr'.len = f.len
                     /\ ptr'.type = IF f.kind = "DIR" THEN "DIR" ELSE "FD"
                     /\ ptr'.type = "DIR" /\ ptr'.len <= Piece => ptr'.pos \in {0, ptr'.len}
               /\ response_end' => Left' = 0
               /\ ~ write_end_callback' => response_end' \/ f.kind = "NOSTAT"
  <1> DEFINE R == Response(req)
             w == write(m_send_buffer, HeadBytes)
             head == w.buf
             p == [type |-> IF f.kind = "DIR" THEN "DIR" ELSE "FD", len |-> f.len, pos |-> 0]
             n == NextLen(p)
             s == NextPiece(p)
             a == AddPiece(head, p)
             c == Contents(m_send_buffer')
  <1>1. /\ f.kind \in Kinds /\ f.len \in Nat /\ (f.kind \notin {"FILE", "DIR"} => f.len = 0)
        /\ HeadLen \in Nat \ {0} /\ Piece \in Nat \ {0} /\ LimitMax \in Nat
    BY LookupType, HttpSizeAssumption
  <1>2. /\ f.kind \in {"DOTDOT", "NOSTAT"} => Len(R) = 0
        /\ f.kind \notin {"DOTDOT", "NOSTAT"} =>
              /\ Len(R) = HeadLen + f.len
              /\ \A i \in 1 .. HeadLen + f.len : R[i] = IF i <= HeadLen THEN - i ELSE i - HeadLen
    BY ResponseIs
  <1>3. /\ HeadBytes \in Seq(Int) /\ Len(HeadBytes) = HeadLen /\ HeadBytes # <<>>
        /\ \A i \in 1 .. HeadLen : HeadBytes[i] = - i
    BY HeadIs
  <1> HIDE DEF R
  <1>4. IsBuffer(Int, m_send_buffer) /\ m_send_buffer.limit >= LimitMax /\ m_send_buffer.limit \in Nat
    BY DEF BytesInv, IsBuffer, Buf
  <1>5. IsBuffer(Int, head) /\ head.limit = m_send_buffer.limit /\ Contents(head) = HeadBytes
    <2>1. /\ IsBuffer(Int, w.buf) /\ w.buf.limit = m_send_buffer.limit
          /\ w.ok <=> ~ (HeadBytes = <<>> \/ Len(Contents(m_send_buffer)) + Len(HeadBytes) > m_send_buffer.limit)
          /\ Contents(w.buf) = IF w.ok THEN Contents(m_send_buffer) \o HeadBytes ELSE Contents(m_send_buffer)
      BY <1>3, <1>4, WriteAppends
    <2>2. Len(Contents(m_send_buffer)) = 0 /\ Contents(m_send_buffer) \o HeadBytes = HeadBytes
      BY <1>3, ConcatEmptySeq
    <2> HIDE DEF w
    <2>3. ~ (0 + HeadLen > m_send_buffer.limit)
      BY <1>1, <1>4
    <2>4. w.ok
      BY <1>3, <2>1, <2>2, <2>3
    <2>5. QED  BY <2>1, <2>2, <2>4
  <1>6. p \in Objects /\ p.len = f.len /\ p.pos = 0 /\ p.type = IF f.kind = "DIR" THEN "DIR" ELSE "FD"
    BY <1>1 DEF Objects
  <1>7. \/ /\ f.kind \in {"DOTDOT", "NOSTAT"} /\ (response_end' = TRUE \/ f.kind = "NOSTAT")
           /\ UNCHANGED <<m_send_buffer, appVars>>
        \/ /\ f.kind \in {"NONE", "NOOPEN"} /\ response_end' = TRUE /\ m_send_buffer' = head
           /\ UNCHANGED write_end_callback
        \/ /\ f.kind \in {"FILE", "DIR"} /\ write_end_callback' = TRUE
           /\ response_end' = a.end /\ m_send_buffer' = a.buf /\ ptr' = a.ptr
    BY DEF process_callback
  <1> HIDE DEF w, head, p
  <1>8. CASE /\ f.kind \in {"DOTDOT", "NOSTAT"} /\ (response_end' = TRUE \/ f.kind = "NOSTAT")
             /\ UNCHANGED <<m_send_buffer, appVars>>
    <2>1. c = <<>> /\ Left' = 0 /\ ~ write_end_callback' /\ Len(c) = 0
      BY <1>8 DEF Left
    <2> HIDE DEF c
    <2>2. QED  BY <1>2, <1>4, <1>8, <2>1 DEF c, R
  <1>9. CASE /\ f.kind \in {"NONE", "NOOPEN"} /\ response_end' = TRUE /\ m_send_buffer' = head
             /\ UNCHANGED write_end_callback
    <2>1. c = HeadBytes /\ Left' = 0 /\ ~ write_end_callback'
      BY <1>5, <1>9 DEF Left
    <2>2. f.len = 0 /\ f.kind \notin {"DOTDOT", "NOSTAT"}
      BY <1>1, <1>9
    <2> HIDE DEF c
    <2>3. Len(c) + Left' = Len(R) /\ \A i \in 1 .. Len(c) : c[i] = R[i]
      BY <1>1, <1>2, <1>3, <2>1, <2>2
    <2>4. QED  BY <1>5, <1>9, <2>1, <2>3 DEF c, R
  <1>10. CASE /\ f.kind \in {"FILE", "DIR"} /\ write_end_callback' = TRUE
              /\ response_end' = a.end /\ m_send_buffer' = a.buf /\ ptr' = a.ptr
    <2>1. p.pos <= p.len /\ Len(Contents(head)) + Piece <= head.limit
      BY <1>1, <1>3, <1>4, <1>5, <1>6
    <2>2. /\ n \in Nat /\ n <= Piece /\ n <= f.len /\ (n = 0 => f.len = 0) /\ (n = Piece \/ n = f.len)
          /\ s \in Seq(Int) /\ Len(s) = n /\ \A j \in 1 .. n : s[j] = 0 + j
      <3> HIDE DEF n, s
      <3>1. f.len - 0 = f.len
        BY <1>1
      <3>2. QED  BY <1>6, <2>1, <3>1, NextIs DEF n, s
    <2>3. IsBuffer(Int, a.buf) /\ a.buf.limit = head.limit
      BY <1>5, <1>6, <2>1, AddPieceBuffer
    <2>4. /\ Contents(a.buf) = HeadBytes \o s
          /\ a.ptr.type = p.type /\ a.ptr.len = p.len /\ a.ptr.pos = p.pos + n
          /\ a.end => n = 0
      <3>1. p \in Objects /\ p.pos <= p.len /\ Len(Contents(head)) + Piece <= head.limit /\ IsBuffer(Int, head)
        BY <1>5, <1>6, <2>1
      <3>2. Contents(a.buf) = Contents(head) \o s
        BY <3>1, AddPieceFits
      <3>3. a.ptr.type = p.type /\ a.ptr.len = p.len /\ a.ptr.pos = p.pos + n
        BY <3>1, AddPieceFits
      <3>4. a.end => n = 0
        BY <3>1, AddPieceFits
      <3> HIDE DEF n, s, a
      <3>5. QED  BY <1>5, <3>2, <3>3, <3>4
    <2> HIDE DEF n, s, a, c
    <2>5. /\ HeadBytes \o s \in Seq(Int) /\ Len(HeadBytes \o s) = HeadLen + n
      BY ZenonT(30), <1>3, <2>2, ConcatProperties
    <2>6. \A i \in 1 .. Len(HeadBytes \o s) : (HeadBytes \o s)[i] = Response(req)[i]
      <3>1. \A i \in 1 .. Len(HeadBytes) : HeadBytes[i] = Response(req)[i]
        <4>1. \A i \in 1 .. HeadLen + f.len : R[i] = IF i <= HeadLen THEN - i ELSE i - HeadLen
          BY <1>2, <1>10
        <4>2. ASSUME NEW i \in 1 .. HeadLen  PROVE HeadBytes[i] = R[i]
          <5>1. i \in 1 .. HeadLen + f.len /\ i <= HeadLen
            BY <1>1
          <5>2. QED  BY <1>3, <4>1, <5>1
        <4>3. QED  BY <1>3, <4>2 DEF R
      <3>2. 0 \in Nat /\ 0 + Len(s) <= f.len /\ Len(HeadBytes) = HeadLen + 0 /\ f.kind \notin {"DOTDOT", "NOSTAT"}
        BY <1>1, <1>3, <1>10, <2>2
      <3>3. QED  BY <1>3, <2>2, <3>1, <3>2, PieceFits
    <2>7. ptr'.len = f.len /\ ptr'.type = p.type /\ ptr'.pos = n
      BY <1>1, <1>6, <1>10, <2>2, <2>4
    <2>8. Left' = f.len - n
      BY <1>10, <2>7 DEF Left
    <2>9. c = HeadBytes \o s
      BY <1>10, <2>4 DEF c
    <2>10. Len(c) + Left' = Len(R)
      <3>1. Len(R) = HeadLen + f.len
        BY <1>2, <1>10
      <3>2. QED  BY <1>1, <2>2, <2>5, <2>8, <2>9, <3>1
    <2>11. response_end' => Left' = 0
      <3>1. response_end' => n = 0
        BY <1>10, <2>4
      <3>2. QED  BY <1>1, <2>2, <2>8, <3>1
    <2>12. ptr'.type = "DIR" /\ ptr'.len <= Piece => ptr'.pos \in {0, ptr'.len}
      BY <1>1, <2>2, <2>7
    <2>13. IsBuffer(Int, m_send_buffer') /\ m_send_buffer'.limit = m_send_buffer.limit
      BY <1>5, <1>10, <2>3
    <2>14. \A i \in 1 .. Len(c) : c[i] = R[i]
      BY <2>6, <2>9 DEF R
    <2>15. QED  BY <1>6, <1>10, <2>7, <2>10, <2>11, <2>12, <2>13, <2>14 DEF c, R
  <1>11. QED  BY <1>7, <1>8, <1>9, <1>10

(* When the request has been received, its URL is the name asked for. *)
LEMMA UrlIs ==
    ASSUME LinksDecode, RequestInv, recv_end
    PROVE  decode(url) = req.name /\ ~ req.bad
  <1>1. got = UrlLen(req) + 2 /\ req \in Requests /\ ~ req.bad
    BY DEF RequestInv
  <1>2. UrlLen(req) \in Nat
    BY <1>1, MessageIs
  <1>3. url = encode(req.name)
    BY <1>1, <1>2 DEF RequestInv
  <1>4. QED  BY <1>1, <1>3 DEF LinksDecode

(* process_callback writes the head and the first piece. *)
LEMMA ProcessOut ==
    ASSUME HeadLen + Piece <= LimitMax, LinksDecode,
           TurnInv, PtrInv, RequestInv, BytesInv, ProducedInv, Process
    PROVE  BytesInv' /\ ProducedInv'
  <1>1. UNCHANGED <<req, hup, wire, inner, buffer_start_use, close_flag>> /\ pc = "process"
    BY DEF Process
  <1>2. CASE UNCHANGED <<process_end, response_end, m_send_buffer, appVars>>
    BY <1>1, <1>2, OutFrame
  <1>3. CASE process_end' = TRUE /\ ~ process_end /\ recv_end /\ process_callback
    <2> DEFINE c == Contents(m_send_buffer')
               f == Lookup(req.name)
    <2>1. /\ ~ close_flag /\ Contents(m_send_buffer) = <<>> /\ ~ write_end_callback
          /\ wire = <<>> /\ inner = <<>> /\ buffer_start_use = 0
      BY <1>1, <1>3 DEF TurnInv, ProducedInv
    <2>2. decode(url) = req.name /\ ~ req.bad
      BY <1>3, UrlIs
    <2>3. /\ IsBuffer(Int, m_send_buffer') /\ m_send_buffer'.limit = m_send_buffer.limit
          /\ Len(c) + Left' = Len(Response(req))
          /\ \A i \in 1 .. Len(c) : c[i] = Response(req)[i]
          /\ write_end_callback' =>
                /\ f.kind \in {"FILE", "DIR"} /\ ptr'.len = f.len
                /\ ptr'.type = IF f.kind = "DIR" THEN "DIR" ELSE "FD"
                /\ ptr'.type = "DIR" /\ ptr'.len <= Piece => ptr'.pos \in {0, ptr'.len}
          /\ response_end' => Left' = 0
          /\ ~ write_end_callback' => response_end' \/ f.kind = "NOSTAT"
      BY <1>3, <2>1, <2>2, CallbackBytes
    <2>4. BytesInv'
      BY <1>1, <2>1, <2>3 DEF BytesInv
    <2>5. Produced' = c
      <3>1. c \in Seq(Int)
        BY <2>3, ContentsType
      <3>2. wire' = <<>> /\ inner' = <<>> /\ buffer_start_use' = 0
        BY <1>1, <2>1
      <3>3. SubSeq(<<>>, 0 + 1, Len(<<>>)) = <<>> /\ <<>> \o <<>> = <<>>
        OBVIOUS
      <3>4. Produced' = <<>> \o <<>> \o c
        BY <3>2, <3>3 DEF Produced
      <3> HIDE DEF c
      <3>5. <<>> \o c = c
        BY <3>1, ConcatEmptySeq
      <3>6. QED  BY <3>3, <3>4, <3>5
    <2> HIDE DEF c, f
    <2>6. Response(req)' = Response(req) /\ LongListing(req)' = LongListing(req) /\ Lookup(req.name)' = f
      BY <1>1, SameRequest DEF f
    <2>7. ProducedInv'
      BY <1>3, <2>3, <2>5, <2>6 DEF ProducedInv
    <2>8. QED  BY <2>4, <2>7
  <1>4. QED  BY <1>2, <1>3 DEF Process

(* ::send moves bytes from the inner buffer to the wire. *)
LEMMA SendOut ==
    ASSUME TurnInv, BytesInv, ProducedInv, NEW n \in 1 .. Room, Send(n)
    PROVE  BytesInv' /\ ProducedInv' /\ Produced' = Produced /\ process_end /\ ~ close_flag
  <1> DEFINE k == buffer_start_use
             x == SubSeq(inner, k + 1, k + n)
             y == SubSeq(inner, k + n + 1, Len(inner))
             z == SubSeq(inner, k + 1, Len(inner))
             c == Contents(m_send_buffer)
  <1>1. /\ wire' = wire \o x /\ buffer_start_use' = k + n /\ k + n <= Len(inner) /\ pc = "write"
        /\ UNCHANGED <<req, hup, inner, m_send_buffer, process_end, response_end, write_end_callback,
                       ptr, close_flag>>
    BY DEF Send
  <1>2. process_end /\ ~ close_flag
    BY <1>1 DEF TurnInv
  <1>3. /\ inner \in Seq(Int) /\ Len(inner) \in Nat /\ k \in Nat /\ n \in Nat /\ k + n \in Nat
        /\ wire \in Seq(Int) /\ c \in Seq(Int)
    <2>1. c \in Seq(Int)
      BY ProducedType
    <2>2. QED  BY <2>1, LenProperties, HttpSizeAssumption DEF BytesInv
  <1>4. x \in Seq(Int) /\ y \in Seq(Int) /\ x \o y = z
    <2> DEFINE m == k + n
    <2>1. m \in Nat /\ k <= m /\ m <= Len(inner)
      BY <1>1, <1>3
    <2> HIDE DEF m
    <2>2. /\ SubSeq(inner, k + 1, m) \in Seq(Int) /\ SubSeq(inner, m + 1, Len(inner)) \in Seq(Int)
          /\ SubSeq(inner, k + 1, m) \o SubSeq(inner, m + 1, Len(inner)) = SubSeq(inner, k + 1, Len(inner))
      <3> DEFINE l == Len(inner)
      <3>1. l \in Nat /\ m <= l /\ l <= Len(inner)
        BY <1>3, <2>1
      <3> HIDE DEF l
      <3>2. SubSeq(inner, k + 1, m) \in Seq(Int)
        BY <1>3, <2>1, SliceIs
      <3>3. SubSeq(inner, m + 1, l) \in Seq(Int)
        BY <1>3, <2>1, <3>1, SliceIs
      <3>4. SubSeq(inner, k + 1, m) \o SubSeq(inner, m + 1, l) = SubSeq(inner, k + 1, l)
        <4>1. inner \in Seq(Int) /\ k \in Nat /\ m \in Nat /\ l \in Nat /\ k <= m /\ m <= l /\ l <= Len(inner)
          BY <1>3, <2>1, <3>1
        <4>2. QED  BY <4>1, SliceJoin, Zenon
      <3>5. QED  BY <3>2, <3>3, <3>4 DEF l
    <2>3. QED  BY <2>2 DEF m
  <1>5. Produced' = (wire \o x) \o y \o c
    BY <1>1 DEF Produced
  <1>6. Produced = wire \o z \o c
    BY DEF Produced
  <1> HIDE DEF x, y, z, c
  <1>7. (wire \o x) \o y = wire \o z
    BY <1>3, <1>4, Regroup
  <1>8. wire' \in Seq(Int)
    BY <1>1, <1>3, <1>4, ConcatProperties
  <1>9. BytesInv'
    BY <1>1, <1>3, <1>8 DEF BytesInv
  <1>10. Produced' = Produced
    BY <1>5, <1>6, <1>7
  <1>11. QED  BY <1>1, <1>2, <1>9, <1>10, OutMove

(* Bytes move from m_send_buffer to the inner buffer. *)
LEMMA RefillOut ==
    ASSUME TurnInv, BytesInv, ProducedInv, Refill
    PROVE  BytesInv' /\ ProducedInv'
  <1> DEFINE r == read(m_send_buffer, BufferSize)
             c == Contents(m_send_buffer)
             k == IF BufferSize <= Len(c) THEN BufferSize ELSE Len(c)
             z == SubSeq(inner, buffer_start_use + 1, Len(inner))
  <1>1. /\ pc = "refill"
        /\ UNCHANGED <<req, hup, wire, process_end, response_end, write_end_callback, ptr, close_flag>>
        /\ \/ UNCHANGED <<m_send_buffer, inner, buffer_start_use>>
           \/ /\ buffer_start_use = Len(inner)
              /\ m_send_buffer' = r.buf /\ inner' = r.data /\ buffer_start_use' = 0
    BY DEF Refill
  <1>2. process_end /\ ~ close_flag
    BY <1>1 DEF TurnInv
  <1>3. CASE UNCHANGED <<m_send_buffer, inner, buffer_start_use>>
    BY <1>1, <1>3, OutFrame
  <1>4. CASE /\ buffer_start_use = Len(inner)
             /\ m_send_buffer' = r.buf /\ inner' = r.data /\ buffer_start_use' = 0
    <2>1. /\ IsBuffer(Int, r.buf) /\ r.buf.limit = m_send_buffer.limit
          /\ k \in 0 .. Len(c) /\ c \in Seq(Int)
          /\ r.data = SubSeq(c, 1, k) /\ Contents(r.buf) = SubSeq(c, k + 1, Len(c))
      BY ZenonT(30), HttpSizeAssumption, ReadTakes DEF BytesInv
    <2> DEFINE d == r.data
               t == Contents(r.buf)
    <2>2. d \in Seq(Int) /\ t \in Seq(Int) /\ d \o t = c /\ Len(d) \in Nat
      <3> HIDE DEF r, c, k
      <3>1. /\ SubSeq(c, 1, k) \in Seq(Int) /\ SubSeq(c, k + 1, Len(c)) \in Seq(Int)
            /\ SubSeq(c, 1, k) \o SubSeq(c, k + 1, Len(c)) = c
        BY <2>1, FrontAndRest
      <3>2. QED  BY <2>1, <3>1, LenProperties
    <2>3. wire \in Seq(Int) /\ z = <<>>
      <3>1. Len(inner) \in Nat /\ wire \in Seq(Int)
        BY LenProperties DEF BytesInv
      <3>2. buffer_start_use + 1 \in Int /\ Len(inner) \in Int /\ Len(inner) < buffer_start_use + 1
        BY <1>4, <3>1
      <3>3. QED  BY <3>1, <3>2, SubSeqEmpty
    <2>4. Produced' = wire \o SubSeq(d, 0 + 1, Len(d)) \o t
      BY <1>1, <1>4 DEF Produced
    <2>5. Produced = wire \o z \o c
      BY DEF Produced
    <2> HIDE DEF d, t, z, c, r
    <2>6. SubSeq(d, 0 + 1, Len(d)) = d
      <3>1. SubSeq(d, 1, Len(d)) = d /\ 0 + 1 = 1
        BY <2>2, SubSeqFull
      <3>2. QED  BY <3>1
    <2>7. wire \o z = wire
      BY <2>3, ConcatEmptySeq
    <2>8. wire \o d \o t = wire \o c
      BY <2>2, <2>3, Regroup
    <2>9. Produced' = Produced
      BY <2>4, <2>5, <2>6, <2>7, <2>8
    <2>10. inner' \in Seq(Int) /\ Len(inner') \in Nat
      BY <1>4, <2>2 DEF d
    <2>11. BytesInv'
      BY <1>1, <1>4, <2>1, <2>10 DEF BytesInv
    <2>12. QED  BY <1>1, <1>2, <2>9, <2>11, OutMove
  <1>5. QED  BY <1>1, <1>3, <1>4

(* The callback appends the next piece, which fits because the buffer is empty. *)
LEMMA NotifyOut ==
    ASSUME HeadLen + Piece <= LimitMax, TurnInv, PtrInv, RequestInv, BytesInv, ProducedInv, Notify
    PROVE  BytesInv' /\ ProducedInv'
  <1> DEFINE a == AddPiece(m_send_buffer, ptr)
             n == NextLen(ptr)
             s == NextPiece(ptr)
             c == Contents(m_send_buffer)
             f == Lookup(req.name)
  <1>1. /\ pc = "notify"
        /\ UNCHANGED <<req, hup, wire, inner, buffer_start_use, process_end, write_end_callback, close_flag>>
        /\ \/ UNCHANGED <<m_send_buffer, ptr, response_end>>
           \/ /\ write_end_callback /\ get_readable_size(m_send_buffer) = 0
              /\ m_send_buffer' = a.buf /\ ptr' = a.ptr /\ response_end' = a.end
    BY DEF Notify
  <1>2. process_end /\ ~ close_flag
    BY <1>1 DEF TurnInv
  <1>3. CASE UNCHANGED <<m_send_buffer, ptr, response_end>>
    BY <1>1, <1>3, OutFrame
  <1>4. CASE /\ write_end_callback /\ get_readable_size(m_send_buffer) = 0
             /\ m_send_buffer' = a.buf /\ ptr' = a.ptr /\ response_end' = a.end
    <2>1. ptr \in Objects /\ ptr.pos <= ptr.len /\ ptr.pos \in Nat /\ ptr.len \in Nat
      <3>1. ptr # NoPtr /\ ptr.type # "NONE"
        BY <1>1, <1>4 DEF PtrInv
      <3>2. QED  BY <3>1 DEF PtrInv, Objects
    <2>2. IsBuffer(Int, m_send_buffer) /\ m_send_buffer.limit >= LimitMax /\ m_send_buffer.limit \in Nat
      BY <1>2 DEF BytesInv, IsBuffer, Buf
    <2>3. c \in Seq(Int) /\ Len(c) = 0
      <3>1. c \in Seq(Int) /\ Len(c) = m_send_buffer.wr - m_send_buffer.rd
        BY <2>2, ContentsType
      <3>2. QED  BY <1>4, <3>1 DEF get_readable_size
    <2>4. Piece \in Nat /\ HeadLen \in Nat /\ LimitMax \in Nat
      BY HttpSizeAssumption
    <2>5. Len(c) + Piece <= m_send_buffer.limit
      BY <2>2, <2>3, <2>4
    <2>6. /\ n \in Nat /\ n <= ptr.len - ptr.pos /\ n <= Piece /\ (n = Piece \/ n = ptr.len - ptr.pos)
          /\ (n = 0 => ptr.pos = ptr.len)
          /\ s \in Seq(Int) /\ Len(s) = n
          /\ ptr.type = "FD" \/ ptr.pos = 0 => \A j \in 1 .. n : s[j] = ptr.pos + j
      BY <2>1, NextIs
    <2>7. IsBuffer(Int, a.buf) /\ a.buf.limit = m_send_buffer.limit
      BY <2>1, <2>2, AddPieceBuffer
    <2>8. /\ Contents(a.buf) = c \o s
          /\ a.ptr.type = ptr.type /\ a.ptr.len = ptr.len /\ a.ptr.pos = ptr.pos + n
          /\ a.end \in BOOLEAN /\ (a.end => n = 0)
      BY <2>1, <2>2, <2>5, AddPieceFits
    <2> DEFINE X == wire \o SubSeq(inner, buffer_start_use + 1, Len(inner))
               P == Produced
    <2>9. X \in Seq(Int) /\ P \in Seq(Int) /\ P = X \o c
      BY ProducedType DEF Produced
    <2>10. Produced' = X \o (c \o s)
      BY <1>1, <1>4, <2>8 DEF Produced
    <2> HIDE DEF a, n, s, c, f, X, P
    <2>11. Produced' = P \o s
      BY <2>3, <2>6, <2>9, <2>10, Regroup
    <2>12. /\ Len(P) + (ptr.len - ptr.pos) = Len(Response(req))
           /\ LongListing(req) \/ \A i \in 1 .. Len(P) : P[i] = Response(req)[i]
           /\ f.kind \in {"FILE", "DIR"} /\ ptr.len = f.len
           /\ ptr.type = IF f.kind = "DIR" THEN "DIR" ELSE "FD"
           /\ ptr.type = "DIR" /\ ptr.len <= Piece => ptr.pos \in {0, ptr.len}
      BY <1>2, <1>4 DEF ProducedInv, Left, P, f
    <2>13. Len(P) \in Nat /\ Len(P \o s) = Len(P) + n
      BY <2>6, <2>9, ConcatProperties, LenProperties
    <2>14. Left' = ptr.len - (ptr.pos + n)
      BY <1>1, <1>4, <2>8 DEF Left
    <2>15. Len(P \o s) + Left' = Len(Response(req))
      BY SMTT(30), <2>1, <2>6, <2>12, <2>13, <2>14
    <2>16. ASSUME ~ LongListing(req)
           PROVE  \A i \in 1 .. Len(P \o s) : (P \o s)[i] = Response(req)[i]
      <3>1. ~ req.bad
        BY <1>2 DEF TurnInv, RequestInv
      <3>2. Len(P) = HeadLen + ptr.pos
        <4>1. Len(Response(req)) = HeadLen + f.len
          BY <2>12, <3>1, ResponseIs DEF f
        <4>2. QED  BY SMTT(30), <2>1, <2>4, <2>12, <2>13, <4>1
      <3>3. \A j \in 1 .. Len(s) : s[j] = ptr.pos + j
        <4>1. CASE ptr.type = "FD" \/ ptr.pos = 0
          BY <2>6, <4>1
        <4>2. CASE ~ (ptr.type = "FD" \/ ptr.pos = 0)
          <5>1. f.kind = "DIR" /\ ptr.type = "DIR"
            BY <2>12, <4>2
          <5>2. f.len <= Piece
            BY <2>1, <2>4, <2>12, <2>16, <5>1 DEF LongListing, f
          <5>3. ptr.pos = ptr.len
            BY <2>12, <4>2, <5>1, <5>2
          <5>4. n = 0
            BY <2>1, <2>6, <5>3
          <5>5. QED  BY <2>6, <5>4
        <4>3. QED  BY <4>1, <4>2
      <3>4. ptr.pos + Len(s) <= f.len /\ f.kind \notin {"DOTDOT", "NOSTAT"} /\ f = Lookup(req.name)
        BY <2>1, <2>6, <2>12 DEF f
      <3>5. \A i \in 1 .. Len(P) : P[i] = Response(req)[i]
        BY <2>12, <2>16
      <3>6. QED  BY ZenonT(30), <2>1, <2>6, <2>9, <3>1, <3>2, <3>3, <3>4, <3>5, PieceFits
    <2>17. BytesInv'
      BY <1>1, <1>2, <1>4, <2>2, <2>7 DEF BytesInv
    <2>18. response_end' => Left' = 0
      BY <1>4, <2>1, <2>6, <2>8, <2>14
    <2>19. /\ ptr'.len = f.len /\ ptr'.type = IF f.kind = "DIR" THEN "DIR" ELSE "FD"
           /\ ptr'.type = "DIR" /\ ptr'.len <= Piece => ptr'.pos \in {0, ptr'.len}
      <3>1. ptr'.len = ptr.len /\ ptr'.type = ptr.type /\ ptr'.pos = ptr.pos + n
        BY <1>4, <2>8
      <3>2. ASSUME ptr.type = "DIR", ptr.len <= Piece  PROVE ptr.pos + n \in {0, ptr.len}
        BY SMTT(30), <2>1, <2>4, <2>6, <2>12, <3>2
      <3>3. QED  BY <2>12, <3>1, <3>2
    <2>20. Response(req)' = Response(req) /\ LongListing(req)' = LongListing(req) /\ Lookup(req.name)' = f
      BY <1>1, SameRequest DEF f
    <2>21. process_end' /\ write_end_callback'
      BY <1>1, <1>2, <1>4
    <2>22. ProducedInv'
      BY <2>11, <2>12, <2>15, <2>16, <2>18, <2>19, <2>20, <2>21 DEF ProducedInv
    <2>23. QED  BY <2>17, <2>22
  <1>5. QED  BY <1>1, <1>3, <1>4

(* Every step keeps what is produced the beginning of the response. *)
LEMMA OutStep ==
    ASSUME HeadLen + Piece <= LimitMax, LinksDecode,
           TurnInv, PtrInv, RequestInv, BytesInv, ProducedInv, [Next]_vars
    PROVE  BytesInv' /\ ProducedInv'
  <1>1. CASE Reuse
    <2> HIDE DEF ReusedBuffer
    <2>1. /\ m_send_buffer' = ReusedBuffer /\ inner' = <<>> /\ buffer_start_use' = 0 /\ wire' = <<>>
          /\ process_end' = FALSE /\ response_end' = FALSE /\ write_end_callback' = FALSE
      BY <1>1 DEF Reuse
    <2>2. BytesInv'
      BY <2>1, ReusedIs, EmptySeq DEF BytesInv
    <2>3. ProducedInv'
      BY <2>1, ReusedIs DEF ProducedInv
    <2>4. QED  BY <2>2, <2>3
  <1>2. CASE PeerReads \/ HangUp \/ Break \/ Event
    BY <1>2, OutFrame DEF PeerReads, HangUp, Break, Event
  <1>3. CASE \E n \in 1 .. Len(Message(req)) : Ask(n)
    <2>1. UNCHANGED <<req, hup, process_end, response_end, wire, inner, buffer_start_use, m_send_buffer,
                      write_end_callback, ptr, close_flag>>
      BY <1>3 DEF Ask
    <2>2. QED  BY <2>1, OutFrame
  <1>4. CASE EventHup
    BY <1>4, OutClose DEF EventHup
  <1>5. CASE Run
    <2>1. UNCHANGED <<req, hup, process_end, response_end, wire, buffer_start_use, m_send_buffer,
                      write_end_callback, ptr, close_flag>>
      BY <1>5 DEF Run
    <2>2. inner' = inner
      <3>1. inner' = inner \/ (inner' = <<>> /\ ~ recv_end)
        BY <1>5 DEF Run
      <3>2. QED  BY <3>1 DEF TurnInv, ProducedInv
    <2>3. QED  BY <2>1, <2>2, OutFrame
  <1>6. CASE Release
    <2>1. close_flag /\ UNCHANGED <<process_end, response_end, wire, inner, buffer_start_use, m_send_buffer,
                                   write_end_callback, close_flag>>
      BY <1>6 DEF Release
    <2>2. BytesInv'
      BY <2>1 DEF BytesInv
    <2>3. ProducedInv'
      BY <2>1 DEF ProducedInv
    <2>4. QED  BY <2>2, <2>3
  <1>7. CASE Recv \/ RecvEnds
    BY <1>7, OutFrame DEF Recv, RecvEnds
  <1>8. CASE Process
    BY <1>8, ProcessOut
  <1>9. CASE SendEnds
    <2>1. /\ UNCHANGED <<req, hup, process_end, wire, inner, buffer_start_use, m_send_buffer,
                         write_end_callback, ptr, close_flag>>
          /\ pc = "write"
      BY <1>9 DEF SendEnds
    <2>2. UNCHANGED response_end \/ (hup /\ response_end' = TRUE)
      <3>1. CASE UNCHANGED response_end
        BY <3>1
      <3>2. CASE Failed /\ \E r \in Errors : response_end' = (response_end \/ r = "ERROR")
        <4>1. PICK r \in Errors : response_end' = (response_end \/ r = "ERROR")
          BY <3>2
        <4>2. CASE r = "ERROR"
          <5>1. tls # "BROKEN"
            BY <4>1, <4>2 DEF Errors
          <5>2. hup
            BY <3>2, <5>1 DEF Failed
          <5>3. QED  BY <4>1, <4>2, <5>2
        <4>3. CASE r # "ERROR"
          BY <4>1, <4>3 DEF TurnInv
        <4>4. QED  BY <4>2, <4>3
      <3>3. QED  BY <1>9, <3>1, <3>2 DEF SendEnds
    <2>3. CASE UNCHANGED response_end
      BY <2>1, <2>3, OutFrame
    <2>4. CASE hup /\ response_end' = TRUE
      <3>1. BytesInv'
        BY <2>1 DEF BytesInv
      <3>2. Produced' = Produced /\ Left' = Left
        BY <2>1 DEF Produced, Left
      <3>3. process_end
        BY <2>1 DEF TurnInv
      <3>4. ProducedInv'
        BY <2>1, <2>4, <3>2, <3>3, SameRequest DEF ProducedInv
      <3>5. QED  BY <3>1, <3>4
    <2>5. QED  BY <2>2, <2>3, <2>4
  <1>10. CASE Notify
    BY <1>10, NotifyOut
  <1>11. CASE Refill
    BY <1>11, RefillOut
  <1>12. CASE Finish
    <2>1. UNCHANGED <<req, hup, process_end, response_end, wire, inner, buffer_start_use,
                      write_end_callback, ptr>>
      BY <1>12 DEF Finish
    <2>2. mark_close \/ UNCHANGED <<close_flag, m_send_buffer>>
      BY <1>12 DEF Finish
    <2>3. QED  BY <2>1, <2>2, OutClose, OutFrame
  <1>13. CASE \E n \in 1 .. Room : Send(n)
    BY <1>13, SendOut
  <1>14. CASE UNCHANGED vars
    BY <1>14, OutFrame
  <1>15. QED
    BY <1>1, <1>2, <1>3, <1>4, <1>5, <1>6, <1>7, <1>8, <1>9, <1>10, <1>11, <1>12, <1>13, <1>14
       DEF Next, MainStep, TaskStep

(* The first of three runs. *)
LEMMA PrefixOf ==
    ASSUME NEW w \in Seq(Int), NEW t \in Seq(Int), NEW c \in Seq(Int)
    PROVE  /\ Len(w \o t \o c) = Len(w) + Len(t) + Len(c)
           /\ \A i \in 1 .. Len(w) : i \in 1 .. Len(w \o t \o c) /\ (w \o t \o c)[i] = w[i]
  <1>1. Len(w) \in Nat /\ Len(t) \in Nat /\ Len(c) \in Nat
    BY LenProperties
  <1> DEFINE x == w \o t
  <1>2. /\ x \in Seq(Int) /\ Len(x) = Len(w) + Len(t)
        /\ \A i \in 1 .. Len(w) + Len(t) : x[i] = IF i <= Len(w) THEN w[i] ELSE t[i - Len(w)]
    BY ConcatProperties
  <1> HIDE DEF x
  <1>3. /\ Len(x \o c) = Len(x) + Len(c)
        /\ \A i \in 1 .. Len(x) + Len(c) : (x \o c)[i] = IF i <= Len(x) THEN x[i] ELSE c[i - Len(x)]
    <2>1. x \in Seq(Int) /\ c \in Seq(Int)
      BY <1>2
    <2>2. QED  BY <2>1, ConcatProperties
  <1>4. ASSUME NEW i \in 1 .. Len(w)  PROVE i \in 1 .. Len(x \o c) /\ (x \o c)[i] = w[i]
    <2>1. i \in 1 .. Len(x) + Len(c) /\ i <= Len(x) /\ i \in 1 .. Len(w) + Len(t) /\ i <= Len(w)
      BY <1>1, <1>2
    <2>2. QED  BY <1>2, <1>3, <2>1
  <1>5. QED  BY <1>2, <1>3, <1>4 DEF x

(* While the connection is open, what is left to come is not negative. *)
LEMMA LeftIs == ASSUME PtrInv  PROVE Left \in Nat
  BY DEF PtrInv, Left

(* The wire has the beginning of the response, and all of it at the end. *)
LEMMA WireStep ==
    ASSUME LinksDecode, TurnInv, PtrInv, RequestInv, BytesInv, ProducedInv, WireInv, [Next]_vars
    PROVE  WireInv'
  <1> DEFINE R == Response(req)
             c == Contents(m_send_buffer)
             t == SubSeq(inner, buffer_start_use + 1, Len(inner))
  <1>0. R \in Seq(Int) /\ Len(R) \in Nat
    BY ResponseIs, LenProperties
  <1>1. CASE Reuse
    <2>1. wire' = <<>> /\ everything_end' = FALSE
      BY <1>1 DEF Reuse
    <2>2. Len(<<>>) = 0 /\ \A i \in 1 .. Len(<<>>) : FALSE
      OBVIOUS
    <2>3. Response(req)' \in Seq(Int)
      BY ResponseIs
    <2>4. Len(Response(req)') \in Nat
      BY <2>3, LenProperties
    <2>5. QED  BY <2>1, <2>2, <2>4 DEF WireInv
  <1>2. ASSUME UNCHANGED <<req, wire>>, everything_end' /\ ~ hup' => Len(wire) = Len(R)
        PROVE  WireInv'
    BY <1>2, SameRequest DEF WireInv
  <1>3. CASE UNCHANGED <<req, wire, everything_end>> /\ (hup => hup')
    BY <1>2, <1>3 DEF WireInv
  <1>4. ASSUME NEW n \in 1 .. Room, Send(n)  PROVE WireInv'
    <2>1. Produced' = Produced /\ BytesInv' /\ process_end /\ ~ close_flag
      BY <1>4, SendOut
    <2>2. UNCHANGED <<req, hup, everything_end>> /\ pc = "write"
      BY <1>4 DEF Send
    <2>3. ~ everything_end
      BY <2>1, <2>2 DEF TurnInv
    <2> DEFINE w == wire'
               u == SubSeq(inner, buffer_start_use + 1, Len(inner))'
               d == Contents(m_send_buffer)'
    <2>4. w \in Seq(Int) /\ u \in Seq(Int) /\ d \in Seq(Int) /\ Produced' = w \o u \o d
      <3>1. w \in Seq(Int) /\ IsBuffer(Int, m_send_buffer')
            /\ inner' \in Seq(Int) /\ buffer_start_use' \in 0 .. Len(inner')
        BY <2>1 DEF BytesInv
      <3>2. d \in Seq(Int)
        BY <3>1, ContentsType
      <3>3. u \in Seq(Int)
        <4> DEFINE s == inner'
                   a == buffer_start_use'
                   b == Len(s)
        <4>1. b \in Nat
          BY <3>1, LenProperties
        <4>2. s \in Seq(Int) /\ a \in Nat /\ b \in Nat /\ a <= b /\ b <= Len(s)
          BY <3>1, <4>1
        <4>3. u = SubSeq(s, a + 1, b)
          OBVIOUS
        <4> HIDE DEF s, a, b
        <4>4. SubSeq(s, a + 1, b) \in Seq(Int)
          BY <4>2, SliceIs
        <4>5. QED  BY <4>3, <4>4
      <3>4. QED  BY <3>1, <3>2, <3>3 DEF Produced
    <2>5. /\ Len(Produced) + Left = Len(R)
          /\ LongListing(req) \/ \A i \in 1 .. Len(Produced) : Produced[i] = R[i]
      BY <2>1 DEF ProducedInv
    <2> DEFINE P == Produced
    <2>6. P = w \o u \o d
      BY <2>1, <2>4
    <2> HIDE DEF w, u, d, P, R
    <2>7. Len(P) = Len(w) + Len(u) + Len(d) /\ \A i \in 1 .. Len(w) : i \in 1 .. Len(P) /\ P[i] = w[i]
      BY <2>4, <2>6, PrefixOf
    <2>8. Len(w) \in Nat /\ Len(u) \in Nat /\ Len(d) \in Nat /\ Left \in Nat
      BY <2>4, LenProperties, LeftIs
    <2>9. Len(P) + Left = Len(R) /\ (LongListing(req) \/ \A i \in 1 .. Len(P) : P[i] = R[i])
      BY <2>5 DEF P
    <2>10. Len(w) <= Len(R)
      BY <1>0, <2>7, <2>8, <2>9
    <2>11. LongListing(req) \/ \A i \in 1 .. Len(w) : w[i] = R[i]
      BY <2>7, <2>9
    <2>12. Response(req)' = R /\ LongListing(req)' = LongListing(req) /\ ~ everything_end'
      BY <2>2, <2>3, SameRequest DEF R
    <2>13. QED  BY <2>10, <2>11, <2>12 DEF WireInv, w
  <1>5. CASE Recv
    <2>1. UNCHANGED <<req, wire>> /\ pc = "read" /\ (everything_end' => req.bad)
      BY <1>5 DEF Recv
    <2>2. wire = <<>>
      BY <2>1 DEF TurnInv, ProducedInv
    <2>3. req.bad => Len(R) = 0
      BY ResponseIs
    <2>4. QED  BY <1>2, <2>1, <2>2, <2>3
  <1>6. CASE RecvEnds \/ SendEnds
    <2>1. UNCHANGED <<req, wire, hup>>
      BY <1>6 DEF RecvEnds, SendEnds
    <2>2. CASE UNCHANGED everything_end
      BY <1>3, <2>1, <2>2
    <2>3. CASE Failed /\ \E r \in Errors : everything_end' = (r # "EAGAIN")
      <3>1. everything_end' => tls # "BROKEN"
        BY <2>3 DEF Errors
      <3>2. everything_end' => hup
        BY <2>3, <3>1 DEF Failed
      <3>3. QED  BY <1>2, <2>1, <3>2
    <2>4. QED  BY <1>6, <2>2, <2>3 DEF RecvEnds, SendEnds
  <1>13. Lookup(req.name).kind = "NOSTAT" => Len(wire) = Len(R)
    <2>1. Lookup(req.name).kind = "NOSTAT" => Len(R) = 0
      BY ResponseIs
    <2>2. wire \in Seq(Int) /\ Len(wire) <= Len(R)
      BY DEF BytesInv, WireInv
    <2>3. Len(wire) \in Nat
      BY <2>2, LenProperties
    <2>4. QED  BY <1>0, <2>1, <2>2, <2>3
  <1>7. CASE Notify
    <2>1. /\ UNCHANGED <<req, wire, hup>> /\ pc = "notify"
          /\ everything_end' => everything_end \/ (~ response_end /\ ~ write_end_callback)
      BY <1>7 DEF Notify
    <2>2. write_end_callback \/ response_end \/ Lookup(req.name).kind = "NOSTAT"
      BY <2>1 DEF TurnInv, ProducedInv
    <2>3. QED  BY <1>2, <1>13, <2>1, <2>2 DEF WireInv
  <1>8. CASE Refill
    <2>1. /\ UNCHANGED <<req, wire, hup>> /\ pc = "refill"
          /\ everything_end' =>
                \/ everything_end
                \/ /\ buffer_start_use = Len(inner) /\ get_readable_size(m_send_buffer) = 0
                   /\ response_end
      BY <1>8 DEF Refill
    <2>2. ASSUME buffer_start_use = Len(inner), get_readable_size(m_send_buffer) = 0, response_end, ~ hup
          PROVE  Len(wire) = Len(R)
      <3>1. Len(Produced) + Left = Len(R) /\ Left = 0
        BY <2>1, <2>2 DEF TurnInv, ProducedInv
      <3>2. c \in Seq(Int) /\ t \in Seq(Int) /\ wire \in Seq(Int) /\ Produced = wire \o t \o c
        BY ProducedType DEF Produced, BytesInv
      <3>3. Len(c) = 0
        <4>1. Len(c) = m_send_buffer.wr - m_send_buffer.rd
          BY ContentsType DEF BytesInv
        <4>2. QED  BY <2>2, <4>1 DEF get_readable_size
      <3>4. Len(t) = 0
        <4>1. inner \in Seq(Int) /\ Len(inner) \in Nat /\ buffer_start_use \in Nat
          BY LenProperties DEF BytesInv
        <4>2. Len(t) = Len(inner) - buffer_start_use
          BY <2>2, <4>1, SliceIs
        <4>3. QED  BY <2>2, <4>1, <4>2
      <3> HIDE DEF c, t, R
      <3>5. Len(Produced) = Len(wire) + Len(t) + Len(c) /\ Len(wire) \in Nat
        BY <3>2, PrefixOf, LenProperties
      <3>6. QED  BY <1>0, <3>1, <3>3, <3>4, <3>5
    <2>3. QED  BY <1>2, <2>1, <2>2 DEF WireInv
  <1>9. CASE PeerReads \/ HangUp \/ Break \/ MainStep
    BY <1>3, <1>9 DEF PeerReads, HangUp, Break, MainStep, Event, EventHup
  <1>10. CASE \E n \in 1 .. Len(Message(req)) : Ask(n)
    <2>1. UNCHANGED <<req, wire, everything_end, hup>>
      BY <1>10 DEF Ask
    <2>2. QED  BY <1>3, <2>1
  <1>11. CASE Run \/ Release \/ Finish
    BY <1>3, <1>11 DEF Run, Release, Finish
  <1>14. CASE Process
    <2>1. UNCHANGED <<req, wire, hup>>
      BY <1>14 DEF Process
    <2>2. CASE UNCHANGED everything_end
      BY <1>3, <2>1, <2>2
    <2>3. CASE recv_end /\ process_callback
      <3>1. decode(url) = req.name
        BY <2>3, UrlIs
      <3>2. UNCHANGED everything_end \/ Lookup(req.name).kind = "NOSTAT"
        BY <2>3, <3>1 DEF process_callback
      <3>3. QED  BY <1>2, <1>13, <2>1, <2>2, <3>2
    <2>4. QED  BY <1>14, <2>2, <2>3 DEF Process
  <1>12. CASE UNCHANGED vars
    BY <1>3, <1>12
  <1>15. QED
    BY <1>1, <1>4, <1>5, <1>6, <1>7, <1>8, <1>9, <1>10, <1>11, <1>12, <1>14 DEF Next, TaskStep

(* Nothing is produced yet. *)
LEMMA ExactInit == ASSUME LinksDecode, Init  PROVE ExactInv
  <1> HIDE DEF ReusedBuffer
  <1>1. RequestInv
    BY RequestInit
  <1>2. BytesInv
    BY ReusedIs, EmptySeq DEF Init, BytesInv
  <1>3. ProducedInv
    BY ReusedIs DEF Init, ProducedInv
  <1>4. WireInv
    <2>1. Response(req) \in Seq(Int)
      BY ResponseIs
    <2>2. Len(Response(req)) \in Nat
      BY <2>1, LenProperties
    <2>3. Len(<<>>) = 0 /\ \A i \in 1 .. Len(<<>>) : FALSE
      OBVIOUS
    <2>4. QED  BY <2>2, <2>3 DEF Init, WireInv
  <1>5. QED  BY <1>1, <1>2, <1>3, <1>4 DEF ExactInv

(* A beginning, byte by byte, is a prefix. *)
LEMMA WirePrefix ==
    ASSUME NEW w \in Seq(Int), NEW r \in Seq(Int), Len(w) <= Len(r), \A i \in 1 .. Len(w) : w[i] = r[i]
    PROVE  IsPrefix(w, r)
  <1> DEFINE l == Len(w)
             x == SubSeq(r, 1, l)
  <1>1. l \in Nat /\ Len(r) \in Nat /\ l \in 0 .. Len(r)
    BY LenProperties
  <1> HIDE DEF l
  <1>2. x \in Seq(Int) /\ Len(x) = l /\ \A i \in 1 .. l : x[i] = r[i]
    <2>1. /\ SubSeq(r, 0 + 1, l) \in Seq(Int) /\ Len(SubSeq(r, 0 + 1, l)) = l - 0
          /\ \A i \in 1 .. l - 0 : SubSeq(r, 0 + 1, l)[i] = r[0 + i]
      BY <1>1, SliceIs
    <2>2. SubSeq(r, 0 + 1, l) = x /\ l - 0 = l
      BY <1>1
    <2> HIDE DEF x
    <2>3. ASSUME NEW i \in 1 .. l  PROVE x[i] = r[i]
      <3>1. 0 + i = i /\ i \in 1 .. l - 0
        BY <1>1
      <3>2. SubSeq(r, 0 + 1, l)[i] = r[0 + i]
        BY <2>1, <3>1
      <3>3. QED  BY <2>2, <3>1, <3>2
    <2>4. QED  BY <2>1, <2>2, <2>3
  <1> HIDE DEF x
  <1>3. w = x
    BY <1>2, SeqEqual DEF l
  <1>4. SubSeq(w, 1, Len(w)) = w
    BY SubSeqFull
  <1>5. QED  BY <1>3, <1>4 DEF IsPrefix, l, x

(* The peer receives the bytes of its response in order, none lost and     *)
(* none twice, however ::send cuts them and write_end_callback produces    *)
(* them, and all of them before the server closes (of a listing longer     *)
(* than a piece, as many bytes as it has).  The hypotheses: the            *)
(* URL arrives in one segment (see RequestIsWhole), the links decode, and  *)
(* m_send_buffer may hold the head and one piece, because write_end_       *)
(* callback does not notice that buffer::write has thrown.                 *)
THEOREM ResponseIsExact ==
    ASSUME SplitUrl = FALSE, LinksDecode, HeadLen + Piece <= LimitMax
    PROVE  Spec => []ResponseExact
  <1> DEFINE I == FreedInv /\ ExactInv
  <1>1. Init => I
    BY FreedInit, ExactInit
  <1>2. I /\ [Next]_vars => I'
    <2> SUFFICES ASSUME I, [Next]_vars  PROVE I'
      OBVIOUS
    <2>1. TurnInv /\ PtrInv /\ ResponseFreed /\ RequestInv /\ BytesInv /\ ProducedInv /\ WireInv
      BY DEF FreedInv, ExactInv
    <2>2. TurnInv' /\ PtrInv' /\ ResponseFreed' /\ RequestInv'
      BY <2>1, TurnStep, PtrStep, RequestStep
    <2>3. BytesInv' /\ ProducedInv' /\ WireInv'
      BY <2>1, OutStep, WireStep
    <2>4. QED  BY <2>2, <2>3 DEF FreedInv, ExactInv
  <1>3. I => ResponseExact
    <2> SUFFICES ASSUME I  PROVE ResponseExact
      OBVIOUS
    <2>1. wire \in Seq(Int) /\ Response(req) \in Seq(Int)
      BY ResponseIs DEF ExactInv, BytesInv
    <2>2. WireInv
      BY DEF ExactInv
    <2>3. ~ LongListing(req) => IsPrefix(wire, Response(req))
      BY <2>1, <2>2, WirePrefix DEF WireInv
    <2>4. QED  BY <2>2, <2>3 DEF WireInv, ResponseExact
  <1> HIDE DEF I
  <1>4. QED  BY <1>1, <1>2, <1>3, PTL DEF Spec
=============================================================================
