------------------------------ MODULE HttpTask ------------------------------
(***************************************************************************)
(* One http_connection from accept to its return to the pool: http_task's  *)
(* runs, the four end flags, the response that http_app produces piece by  *)
(* piece through write_end_callback, and the events that the task waits    *)
(* for between its runs.  In HTTP mode a task comes from an epoll event or *)
(* from mark_close only, so main thread and worker take turns (see         *)
(* BuffersExclusive in Reactor).  A TLS connection begins here after its   *)
(* handshake, which is in Reactor.                                         *)
(*                                                                         *)
(* A request is its URL, a mark that ends the URL and a mark that ends the *)
(* message.  Bytes of a response are numbered: the head's are negative.    *)
(* A connection carries one request; the server closes it when it has      *)
(* answered.                                                               *)
(***************************************************************************)
EXTENDS BufferOps, Url

CONSTANTS
    BufferSize,     \* bytes one read of m_send_buffer may fill in buffer
    Piece,          \* 102400: bytes one write_end_callback adds
    HeadLen,        \* bytes of a response's head
    LimitMax,       \* limit of m_send_buffer
    Room,           \* bytes the kernel holds for the peer
    Files,          \* the paths under the static directory that are not absent
    Requests,       \* requests the peer may make
    SplitUrl        \* may the URL arrive in more than one segment

(* An empty FILE, or one that cannot be opened (NOOPEN), has len 0; so has *)
(* a path whose status cannot be read (NOSTAT: a name that is too long, a  *)
(* directory without permission), for which fs::exists throws; a listing   *)
(* (DIR) is never empty.  A request that is bad is malformed, or its body  *)
(* is more than on_body accepts.                                           *)
ASSUME FilesAssumption ==
    \A f \in Files : /\ f.kind \in {"FILE", "NOOPEN", "NOSTAT", "DIR"}
                     /\ f.len \in Nat
                     /\ (f.kind = "DIR" => f.len > 0)
                     /\ (f.kind \in {"NOOPEN", "NOSTAT"} => f.len = 0)
ASSUME RequestsAssumption ==
    \A r \in Requests : r.bad \in BOOLEAN /\ Space \notin ToSet(encode(r.name))
ASSUME HttpSizeAssumption ==
    /\ BufferSize \in Nat \ {0} /\ Piece \in Nat \ {0} /\ HeadLen \in Nat \ {0}
    /\ LimitMax \in Nat /\ Room \in Nat \ {0} /\ SplitUrl \in BOOLEAN

NoPtr == [type |-> "NONE", len |-> 0, pos |-> 0]

VARIABLES
    req,            \* what the peer asks for on this connection
    asked, got,     \* symbols of the request sent by the peer, and received
    url,            \* http_connection::url
    recv_end, process_end, response_end, everything_end, close_flag,
    m_send_buffer,
    inner,          \* the buffer_used_len bytes of buffer
    buffer_start_use,
    ptr,            \* the http_app_reponse, or NoPtr
    write_end_callback,     \* is it set
    armed,          \* what epoll waits for: "NONE", "IN" or "INOUT"
    queued,         \* a task is queued
    pc,             \* where the task is; "free": the connection is in its pool
    wire, inflight, \* history: bytes ::send took; how many the peer has not read
    hup,            \* the peer is gone
    tls,            \* "OFF", "OK", or "BROKEN" after a fatal error of the session
    allocated       \* history: response objects not yet deleted

peerVars == <<req, asked, hup, tls>>
flagVars == <<recv_end, process_end, response_end, everything_end>>
outVars == <<m_send_buffer, inner, buffer_start_use>>
appVars == <<ptr, write_end_callback, allocated>>
kernelVars == <<wire, inflight>>
vars == <<peerVars, got, url, flagVars, close_flag, outVars, appVars, armed, queued, pc, kernelVars>>

-----------------------------------------------------------------------------
(* The request, the file system and the response that is due. *)

EndOfUrl == -1
EndOfMessage == -2
Message(r) == encode(r.name) \o <<EndOfUrl, EndOfMessage>>
UrlLen(r) == Len(encode(r.name))

HasDotDot(path) == \E i \in 1 .. Len(path) - 1 : path[i] = Dot /\ path[i + 1] = Dot

Lookup(path) ==
    IF HasDotDot(path) THEN [kind |-> "DOTDOT", len |-> 0]
    ELSE IF \E f \in Files : f.name = path
    THEN LET f == CHOOSE f \in Files : f.name = path IN [kind |-> f.kind, len |-> f.len]
    ELSE [kind |-> "NONE", len |-> 0]

HeadBytes == [i \in 1 .. HeadLen |-> -i]
Body(n) == [i \in 1 .. n |-> i]

Response(r) ==
    LET f == Lookup(r.name)
    IN  IF r.bad \/ f.kind \in {"DOTDOT", "NOSTAT"} THEN <<>> ELSE HeadBytes \o Body(f.len)

(* The links of a listing lead back to the names they were made of. *)
LinksDecode == \A r \in Requests : encode(r.name) \in Seq(Int) /\ decode(encode(r.name)) = r.name

-----------------------------------------------------------------------------
(* clear() and set_limit_max(mem_buffer_size_max). *)
ReusedBuffer == set_limit_max(buffer, LimitMax)

(* http_connection::reuse for connection object and request r. *)
Init ==
    /\ req \in Requests /\ asked = 0 /\ hup = FALSE /\ tls \in {"OFF", "OK"}
    /\ got = 0 /\ url = <<>>
    /\ recv_end = FALSE /\ process_end = FALSE /\ response_end = FALSE
    /\ everything_end = FALSE /\ close_flag = FALSE
    /\ m_send_buffer = ReusedBuffer /\ inner = <<>> /\ buffer_start_use = 0
    /\ ptr = NoPtr /\ write_end_callback = FALSE /\ allocated = 0
    /\ armed = "NONE" /\ queued = TRUE /\ pc = "idle"
    /\ wire = <<>> /\ inflight = 0

(* The next connection gets the object: accept, reuse and a first task. *)
Reuse ==
    /\ pc = "free"
    /\ req' \in Requests /\ asked' = 0 /\ hup' = FALSE /\ got' = 0 /\ url' = <<>>
    /\ tls' = IF tls = "OFF" THEN "OFF" ELSE "OK"
    /\ recv_end' = FALSE /\ process_end' = FALSE /\ response_end' = FALSE
    /\ everything_end' = FALSE /\ close_flag' = FALSE
    /\ m_send_buffer' = ReusedBuffer /\ inner' = <<>> /\ buffer_start_use' = 0
    /\ ptr' = NoPtr /\ write_end_callback' = FALSE /\ UNCHANGED allocated
    /\ armed' = "NONE" /\ queued' = TRUE /\ pc' = "idle"
    /\ wire' = <<>> /\ inflight' = 0

(* connection::mark_close and on_mark_close. *)
mark_close ==
    IF close_flag THEN UNCHANGED <<close_flag, m_send_buffer, queued>>
    ELSE close_flag' = TRUE /\ m_send_buffer' = buffer /\ queued' = TRUE

-----------------------------------------------------------------------------
(* The peer. *)

Ask(n) ==
    /\ pc # "free" /\ ~ hup
    /\ asked + n <= Len(Message(req))
    /\ SplitUrl \/ asked + n > UrlLen(req)
    /\ asked' = asked + n
    /\ UNCHANGED <<req, hup, tls, got, url, flagVars, close_flag, outVars, appVars, armed, queued, pc,
                   kernelVars>>

PeerReads ==
    /\ inflight > 0
    /\ inflight' = inflight - 1
    /\ UNCHANGED <<peerVars, got, url, flagVars, close_flag, outVars, appVars, armed, queued, pc,
                   wire>>

HangUp ==
    /\ pc # "free" /\ ~ hup
    /\ hup' = TRUE
    /\ UNCHANGED <<req, asked, tls, got, url, flagVars, close_flag, outVars, appVars, armed, queued,
                   pc, kernelVars>>

(* A record that does not decrypt, say. *)
Break ==
    /\ pc # "free" /\ tls = "OK"
    /\ tls' = "BROKEN"
    /\ UNCHANGED <<req, asked, hup, got, url, flagVars, close_flag, outVars, appVars, armed, queued,
                   pc, kernelVars>>

-----------------------------------------------------------------------------
(* The main thread. *)

(* EPOLLIN or EPOLLOUT: detach and do_task. *)
Event ==
    /\ ~ hup
    /\ \/ armed # "NONE" /\ got < asked
       \/ armed = "INOUT" /\ inflight < Room
    /\ armed' = "NONE" /\ queued' = TRUE
    /\ UNCHANGED <<peerVars, got, url, flagVars, close_flag, outVars, appVars, pc, kernelVars>>

(* EPOLLHUP, EPOLLERR or EPOLLRDHUP: detach and mark_close. *)
EventHup ==
    /\ hup /\ armed # "NONE"
    /\ armed' = "NONE"
    /\ mark_close
    /\ UNCHANGED <<peerVars, got, url, flagVars, inner, buffer_start_use, appVars, pc, kernelVars>>

-----------------------------------------------------------------------------
(* http_task::run. *)

Run ==
    /\ pc = "idle" /\ queued /\ ~ close_flag
    /\ queued' = FALSE
    /\ IF recv_end \/ everything_end THEN pc' = "process" /\ UNCHANGED inner
       ELSE pc' = "read" /\ inner' = <<>>
    /\ UNCHANGED <<peerVars, got, url, flagVars, close_flag, m_send_buffer, buffer_start_use,
                   appVars, armed, kernelVars>>

(* Mutant: the connection is given back without its destory_callback. *)
ReleaseOnly ==
    /\ pc = "idle" /\ queued /\ close_flag
    /\ queued' = FALSE /\ pc' = "free"
    /\ UNCHANGED <<peerVars, got, url, flagVars, close_flag, outVars, appVars, armed, kernelVars>>

(* A closed connection: destory_callback, which process_connection sets,   *)
(* deletes the response object; the connection goes back to its pool.      *)
Release ==
    /\ pc = "idle" /\ queued /\ close_flag
    /\ queued' = FALSE /\ pc' = "free"
    /\ IF process_end /\ ptr # NoPtr THEN ptr' = NoPtr /\ allocated' = allocated - 1
       ELSE UNCHANGED <<ptr, allocated>>
    /\ UNCHANGED <<peerVars, got, url, flagVars, close_flag, outVars, write_end_callback, armed,
                   kernelVars>>

(* What socket::recv and socket::send report when there is an error or the *)
(* peer is gone.  A negative result of OpenSSL is always EAGAIN, a fatal   *)
(* one too.                                                                *)
Failed == hup \/ tls = "BROKEN"
Errors ==
    CASE tls = "OFF" -> {"ERROR", "ZERO"}
      [] tls = "OK" -> {"EAGAIN", "ZERO"}
      [] tls = "BROKEN" -> {"EAGAIN"}

(* Mutant: what arrives after the URL replaces it too. *)
on_url_always == SubSeq(Message(req), got + 1, Least(asked, UrlLen(req)))

(* url after the parser has run over what recv returned: on_url assigns    *)
(* the part of the URL that this call holds (an empty one if the URL had   *)
(* just ended) and is not called once the URL is over.                     *)
on_url ==
    IF got <= UrlLen(req) THEN SubSeq(Message(req), got + 1, Least(asked, UrlLen(req))) ELSE url

(* recv returns what has arrived, and the parser makes its callbacks,      *)
(* on_url and on_message_complete among them.  A request that is           *)
(* malformed, or whose body is oversize, stops the parser.                 *)
Recv ==
    LET last == asked = Len(Message(req))
    IN  /\ pc = "read" /\ got < asked /\ tls # "BROKEN"
        /\ got' = asked
        /\ url' = on_url
        /\ recv_end' = (last /\ ~ req.bad)
        /\ everything_end' = (last /\ req.bad)
        /\ pc' = IF last /\ req.bad THEN "process" ELSE "read"
        /\ UNCHANGED <<peerVars, process_end, response_end, close_flag, outVars, appVars, armed,
                       queued, kernelVars>>

(* Nothing more has arrived, or the call fails. *)
RecvEnds ==
    /\ pc = "read"
    /\ \/ got = asked /\ ~ hup /\ UNCHANGED everything_end
       \/ Failed /\ \E r \in Errors : everything_end' = (r # "EAGAIN")
    /\ pc' = "process"
    /\ UNCHANGED <<peerVars, got, url, recv_end, process_end, response_end, close_flag, outVars,
                   appVars, armed, queued, kernelVars>>

(* Mutant: a piece of a file is taken from its start, like a listing's. *)
AddPieceFromStart(b, p) ==
    LET n == Least(Piece, p.len - p.pos)
        r == write(b, SubSeq(Body(p.len), 1, n))
    IN  IF n = 0 THEN [buf |-> b, ptr |-> p, end |-> TRUE]
        ELSE [buf |-> r.buf, ptr |-> [p EXCEPT !.pos = @ + n], end |-> FALSE]

(* write_end_callback: the next piece of the file, or of the listing       *)
(* (whose pieces are all taken from the start of its text); response_end   *)
(* when there is none.  fread moves on even if the write throws.           *)
AddPiece(b, p) ==
    LET n == Least(Piece, p.len - p.pos)
        first == IF p.type = "FD" THEN p.pos + 1 ELSE 1
        r == write(b, SubSeq(Body(p.len), first, first + n - 1))
    IN  IF n = 0 THEN [buf |-> b, ptr |-> p, end |-> TRUE]
        ELSE [buf |-> r.buf, end |-> FALSE,
              ptr |-> IF p.type = "FD" \/ r.ok THEN [p EXCEPT !.pos = @ + n] ELSE p]

(* http_app's process_callback, and what http_task::run makes of it when   *)
(* it throws: the end of everything, with nothing written.                 *)
process_callback ==
    \E path \in {decode(url)} :
    \E f \in {Lookup(path)}, head \in {write(m_send_buffer, HeadBytes).buf} :
    \E response \in {[type |-> IF f.kind = "DIR" THEN "DIR" ELSE "FD", len |-> f.len, pos |-> 0]} :
        \/ /\ f.kind = "NOSTAT"
           /\ everything_end' = TRUE
           /\ UNCHANGED <<response_end, m_send_buffer, appVars>>
        \/ /\ f.kind = "DOTDOT"
           /\ response_end' = TRUE
           /\ UNCHANGED <<everything_end, m_send_buffer, appVars>>
        \/ /\ f.kind = "NONE"
           /\ response_end' = TRUE /\ m_send_buffer' = head
           /\ UNCHANGED <<everything_end, appVars>>
        \/ /\ f.kind = "NOOPEN"
           /\ response_end' = TRUE /\ m_send_buffer' = head
           /\ ptr' = response /\ allocated' = allocated + 1
           /\ UNCHANGED <<everything_end, write_end_callback>>
        \/ /\ f.kind \in {"FILE", "DIR"}
           /\ write_end_callback' = TRUE /\ UNCHANGED everything_end
           /\ \E first \in {AddPiece(head, response)} :
                 /\ response_end' = first.end /\ m_send_buffer' = first.buf
                 /\ ptr' = first.ptr /\ allocated' = allocated + 1

Process ==
    /\ pc = "process"
    /\ IF ~ everything_end /\ recv_end /\ ~ process_end
       THEN process_end' = TRUE /\ process_callback
       ELSE UNCHANGED <<process_end, response_end, everything_end, m_send_buffer, appVars>>
    /\ pc' = IF ~ everything_end' /\ process_end' THEN "write" ELSE "finish"
    /\ UNCHANGED <<peerVars, got, url, recv_end, close_flag, inner,
                   buffer_start_use, armed, queued, kernelVars>>

(* ::send takes as many bytes as it likes of those that are left. *)
Send(n) ==
    /\ pc = "write" /\ tls # "BROKEN"
    /\ buffer_start_use + n <= Len(inner) /\ inflight + n <= Room
    /\ wire' = wire \o SubSeq(inner, buffer_start_use + 1, buffer_start_use + n)
    /\ inflight' = inflight + n
    /\ buffer_start_use' = buffer_start_use + n
    /\ UNCHANGED <<peerVars, got, url, flagVars, close_flag, m_send_buffer, inner, appVars, armed,
                   queued, pc>>

(* All is sent, the kernel is full, or the call fails. *)
SendEnds ==
    /\ pc = "write"
    /\ \/ /\ buffer_start_use = Len(inner) \/ inflight = Room
          /\ UNCHANGED <<response_end, everything_end>>
       \/ /\ buffer_start_use < Len(inner) /\ Failed
          /\ \E r \in Errors : /\ response_end' = (response_end \/ r = "ERROR")
                               /\ everything_end' = (r # "EAGAIN")
    /\ pc' = "notify"
    /\ UNCHANGED <<peerVars, got, url, recv_end, process_end, close_flag, outVars, appVars, armed,
                   queued, kernelVars>>

(* All that was produced is sent and the response has not ended: the       *)
(* callback, which may produce more; without one this is the end.          *)
Notify ==
    LET call == buffer_start_use = Len(inner) /\ get_readable_size(m_send_buffer) = 0 /\ ~ response_end
    IN  /\ pc = "notify"
        /\ IF call /\ write_end_callback
           THEN \E cb \in {AddPiece(m_send_buffer, ptr)} :
                    m_send_buffer' = cb.buf /\ ptr' = cb.ptr /\ response_end' = cb.end
           ELSE UNCHANGED <<m_send_buffer, ptr, response_end>>
        /\ everything_end' = (everything_end \/ (call /\ ~ write_end_callback))
        /\ pc' = "refill"
        /\ UNCHANGED <<peerVars, got, url, recv_end, process_end, close_flag, inner,
                       buffer_start_use, write_end_callback, allocated, armed, queued, kernelVars>>

(* buffer is sent: the next bytes of m_send_buffer; or, when there are     *)
(* none and the response has ended, the end.                               *)
Refill ==
    LET sent == buffer_start_use = Len(inner)
        none == get_readable_size(m_send_buffer) = 0
    IN  /\ pc = "refill"
        /\ IF sent /\ ~ none
           THEN \E r \in {read(m_send_buffer, BufferSize)} :
                    m_send_buffer' = r.buf /\ inner' = r.data /\ buffer_start_use' = 0
           ELSE UNCHANGED outVars
        /\ everything_end' = (everything_end \/ (sent /\ none /\ response_end))
        /\ pc' = "finish"
        /\ UNCHANGED <<peerVars, got, url, recv_end, process_end, response_end, close_flag, appVars,
                       armed, queued, kernelVars>>

(* Mutant: the task always waits for data. *)
FinishWaitsToRead ==
    /\ pc = "finish"
    /\ IF everything_end
       THEN mark_close /\ UNCHANGED armed
       ELSE armed' = "IN" /\ UNCHANGED <<close_flag, m_send_buffer, queued>>
    /\ pc' = "idle"
    /\ UNCHANGED <<peerVars, got, url, flagVars, inner, buffer_start_use, appVars, kernelVars>>

(* The end of run(): wait to read, wait to write, or close. *)
Finish ==
    /\ pc = "finish"
    /\ IF everything_end
       THEN mark_close /\ UNCHANGED armed
       ELSE /\ armed' = IF recv_end THEN "INOUT" ELSE "IN"
            /\ UNCHANGED <<close_flag, m_send_buffer, queued>>
    /\ pc' = "idle"
    /\ UNCHANGED <<peerVars, got, url, flagVars, inner, buffer_start_use, appVars, kernelVars>>

-----------------------------------------------------------------------------
MainStep == Event \/ EventHup

TaskStep ==
    \/ Run \/ Release \/ Recv \/ RecvEnds \/ Process \/ SendEnds \/ Notify \/ Refill \/ Finish
    \/ \E n \in 1 .. Room : Send(n)

Next ==
    \/ Reuse \/ PeerReads \/ HangUp \/ Break
    \/ \E n \in 1 .. Len(Message(req)) : Ask(n)
    \/ MainStep \/ TaskStep

Spec == Init /\ [][Next]_vars

(* The two threads run, and a peer that has sent its request reads the     *)
(* answer; that it sends the request, hangs up, or that another connection *)
(* comes, is assumed of nobody.                                            *)
FairSpec == Spec /\ WF_vars(MainStep) /\ WF_vars(TaskStep) /\ WF_vars(PeerReads)

-----------------------------------------------------------------------------
(* Properties. *)

(* A listing of more than one piece, which AddPiece sends wrongly. *)
LongListing(r) == LET f == Lookup(r.name) IN f.kind = "DIR" /\ f.len > Piece

(* The peer receives the bytes of the response in order, none lost and     *)
(* none twice, however the kernel cuts them, except that the pieces of a   *)
(* long listing all start like the first; and a connection that the        *)
(* server closes while the peer is there has received as many as are due.  *)
(* Nothing is due, and nothing sent, for a malformed request, a path with  *)
(* two dots and a path whose status cannot be read.                        *)
ResponseExact ==
    /\ IF LongListing(req) THEN Len(wire) <= Len(Response(req)) ELSE IsPrefix(wire, Response(req))
    /\ everything_end /\ ~ hup => Len(wire) = Len(Response(req))

(* The response object (an open FILE or a listing) lives exactly as long   *)
(* as the connection refers to it: whatever ends a connection, none is     *)
(* left when the object is used again, and none is deleted twice.          *)
ResponseFreed == allocated = IF ptr = NoPtr THEN 0 ELSE 1

(* What is served is what was asked for: the URL that process_callback     *)
(* decodes is the whole URL, and decoding undoes the encoding of a link.   *)
RequestWhole == process_end => decode(url) = req.name

(* A connection whose request has arrived, or whose peer is gone, ends up  *)
(* back in the pool: every run that does not close it waits for an event   *)
(* that comes, also when a failed call was taken for EAGAIN.  Only a TLS   *)
(* session that fails under a peer that stays is kept for ever.            *)
RequestEnds ==
    (pc # "free" /\ (asked = Len(Message(req)) \/ hup))
        ~> (pc = "free" \/ (tls = "BROKEN" /\ ~ hup))
=============================================================================
