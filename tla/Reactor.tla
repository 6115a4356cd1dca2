------------------------------ MODULE Reactor ------------------------------
(***************************************************************************)
(* The event loop (socket_handler::handle) and the worker threads around   *)
(* the tables they share: epoll and its fd -> events map, the socket and   *)
(* connection pools, connection_mgr's gid -> (socket, connection) mapping, *)
(* the list of sockets waiting to be removed, and the workers' queues.     *)
(*                                                                         *)
(* do_task is one step here, that of WakeUps, which TaskDispatch is shown  *)
(* to implement.  Bytes are abstracted: what a connection reads and what   *)
(* the kernel accepts are outcomes chosen by the environment.  Peers may   *)
(* connect, send, read and hang up at any time.                            *)
(***************************************************************************)
EXTENDS Integers, Sequences, FiniteSets, SequencesExt

CONSTANTS
    NW,             \* worker threads, and shards of the mapping
    Socket, Conn,   \* the objects of the two pools (the code sizes them alike)
    NFd,            \* bound: file descriptors of accepted connections
    Seconds,        \* bound: readings of the wall clock
    MaxSeq,         \* bound: connections accepted in one second
    Shift,          \* stands for 2^32 in gid = (seconds << 32) + gid_seq
    AcceptPerTick,  \* accept_per_tick
    TaskType,       \* "STREAM_TASK", "WEBSOCKET_TASK" or "HTTP_TASK"
    UseSSL,         \* use_ssl
    Null

ASSUME NWAssumption == NW \in Nat \ {0}
ASSUME SizeAssumption == NFd \in Nat /\ MaxSeq \in Nat /\ AcceptPerTick \in Nat
ASSUME ClockAssumption == Seconds \subseteq Nat /\ Seconds # {} /\ Shift \in Nat /\ Shift > MaxSeq
ASSUME TypeAssumption ==
    TaskType \in {"STREAM_TASK", "WEBSOCKET_TASK", "HTTP_TASK"} /\ UseSSL \in BOOLEAN
ASSUME PoolAssumption == IsFiniteSet(Socket) /\ IsFiniteSet(Conn)
ASSUME NullAssumption ==
    /\ Null \notin Socket \cup Conn /\ Null \notin Socket \X Conn
    /\ Null \notin [ptr : Socket, out : BOOLEAN, armed : BOOLEAN]

Worker == 0 .. NW - 1
Main == NW
NoOne == -1
Fd == 1 .. NFd
GidOf(sec, seq) == sec * Shift + seq
Gid == {GidOf(sec, seq) : sec \in Seconds, seq \in 1 .. MaxSeq}
WorkerOf(g) == g % NW

VARIABLES
    reg,            \* the kernel's epoll set: fd -> [ptr, out, armed], or Null
    m_map_fd_envets,\* event_poller's copy of the events asked for
    free_socket,    \* object_pool<socket>
    free_conn,      \* object_pool<connection>
    m_sockfd,       \* socket: fd (0 when closed)
    sock_gid,       \* socket: gid
    ssl_accepted,   \* socket: m_ssl_accepted
    close_flag,     \* connection: close_flag
    connected,      \* websocket_connection: m_connected
    wating,         \* connection: output accepted by send() and not yet sent
    gid2pair,       \* safe_mapping: gid -> <<socket, connection>>, or Null
    shard_lock,     \* safe_mapping: who holds the shard's mutex across steps
    players,        \* global_player of the application
    wait_remove,    \* m_write_remove_list
    removed_socket, \* removed_socket of handle()
    batch,          \* events of this epoll_wait not yet handled
    mpc, mev, mgid, accept_idx, sec, gid_seq,   \* locals of handle()
    queue,          \* the gids queued at every worker
    wpc, wgid, whold, wret, wout, wto   \* locals of task::run of every worker

epollVars == <<reg, m_map_fd_envets>>
socketVars == <<free_socket, m_sockfd, sock_gid>>
connVars == <<free_conn, close_flag, connected, wating>>
mapVars == <<gid2pair, players>>
removeVars == <<wait_remove, removed_socket>>
mainVars == <<batch, mpc, mev, mgid, accept_idx, sec, gid_seq>>
mainOnly == <<socketVars, removed_socket, mainVars>>
workVars == <<wpc, wgid, whold, wret, wout, wto>>
vars == <<epollVars, socketVars, ssl_accepted, connVars, mapVars, shard_lock, removeVars,
          mainVars, queue, workVars>>

Listener == [ptr |-> Null, hup |-> FALSE, gid |-> 0]
Event == [ptr : Socket, hup : BOOLEAN, gid : Gid]

MainAt == {"wait", "update", "events", "accept", "new", "first", "act", "mc_set", "mc_task"}
WorkerAt == {"idle", "lookup", "check", "remove", "ssl", "upgrade", "recv", "process", "sending",
             "send", "attach", "mc_check", "mc_set", "mc_task"}

TypeOK ==
    /\ reg \in [Fd -> [ptr : Socket, out : BOOLEAN, armed : BOOLEAN] \cup {Null}]
    /\ m_map_fd_envets \in [Fd -> {"0", "IN", "INOUT"}]
    /\ free_socket \subseteq Socket /\ free_conn \subseteq Conn
    /\ m_sockfd \in [Socket -> Fd \cup {0}]
    /\ sock_gid \in [Socket -> Gid \cup {0}]
    /\ ssl_accepted \in [Socket -> BOOLEAN]
    /\ close_flag \in [Conn -> BOOLEAN]
    /\ connected \in [Conn -> BOOLEAN]
    /\ wating \in [Conn -> BOOLEAN]
    /\ gid2pair \in [Gid -> (Socket \X Conn) \cup {Null}]
    /\ shard_lock \in [Worker -> Worker \cup {Main, NoOne}]
    /\ players \subseteq Gid
    /\ wait_remove \in Seq(Socket) /\ removed_socket \subseteq Socket
    /\ batch \subseteq Event \cup {Listener}
    /\ mpc \in MainAt
    /\ mev \in Event \cup {Listener}
    /\ mgid \in Gid \cup {0}
    /\ accept_idx \in 0 .. AcceptPerTick
    /\ sec \in Seconds /\ gid_seq \in 0 .. MaxSeq
    /\ queue \in [Worker -> Seq(Gid)]
    /\ wpc \in [Worker -> WorkerAt]
    /\ wgid \in [Worker -> Gid \cup {0}]
    /\ whold \in [Worker -> (Socket \X Conn) \cup {Null}]
    /\ wret \in [Worker -> WorkerAt]
    /\ wout \in [Worker -> BOOLEAN]
    /\ wto \in [Worker -> Gid \cup {0}]

Init ==
    /\ reg = [fd \in Fd |-> Null]
    /\ m_map_fd_envets = [fd \in Fd |-> "0"]
    /\ free_socket = Socket /\ free_conn = Conn
    /\ m_sockfd = [s \in Socket |-> 0]
    /\ sock_gid = [s \in Socket |-> 0]
    /\ ssl_accepted = [s \in Socket |-> FALSE]
    /\ close_flag = [c \in Conn |-> FALSE]
    /\ connected = [c \in Conn |-> FALSE]
    /\ wating = [c \in Conn |-> FALSE]
    /\ gid2pair = [g \in Gid |-> Null]
    /\ shard_lock = [i \in Worker |-> NoOne]
    /\ players = {}
    /\ wait_remove = <<>> /\ removed_socket = {}
    /\ batch = {} /\ mpc = "wait" /\ mev = Listener /\ mgid = 0 /\ accept_idx = 0
    /\ sec \in Seconds /\ gid_seq = 0
    /\ queue = [w \in Worker |-> <<>>]
    /\ wpc = [w \in Worker |-> "idle"]
    /\ wgid = [w \in Worker |-> 0]
    /\ whold = [w \in Worker |-> Null]
    /\ wret = [w \in Worker |-> "idle"]
    /\ wout = [w \in Worker |-> FALSE]
    /\ wto = [w \in Worker |-> 0]

-----------------------------------------------------------------------------
(* What the steps share. *)

Mapped(g) == gid2pair[g] # Null
SocketOf(g) == gid2pair[g][1]
ConnOf(g) == gid2pair[g][2]

(* A step that takes a shard's mutex and gives it back within the step. *)
ShardFree(g) == shard_lock[WorkerOf(g)] = NoOne

(* Mutant: the task goes to the shortest queue. *)
do_task_shortest(g) ==
    LET w == CHOOSE i \in Worker : \A j \in Worker : Len(queue[i]) <= Len(queue[j])
    IN  queue' = [queue EXCEPT ![w] = IF g \in ToSet(@) THEN @ ELSE Append(@, g)]

(* socket_handler::do_task; task_queue::push refuses a gid already queued. *)
do_task(g) ==
    queue' = [queue EXCEPT ![WorkerOf(g)] = IF g \in ToSet(@) THEN @ ELSE Append(@, g)]

(* Mutant: attach returns early whatever is asked for already. *)
attach_once(s, listen_send) ==
    LET fd == m_sockfd[s]
    IN  IF m_map_fd_envets[fd] # "0"
        THEN UNCHANGED epollVars
        ELSE /\ reg' = [reg EXCEPT ![fd] = [ptr |-> s, out |-> listen_send, armed |-> TRUE]]
             /\ m_map_fd_envets' =
                    [m_map_fd_envets EXCEPT ![fd] = IF listen_send THEN "INOUT" ELSE "IN"]

(* socket_handler::attach: nothing if EPOLLOUT is already asked for, else  *)
(* EPOLL_CTL_ADD, and on EEXIST EPOLL_CTL_MOD; both arm the fd (ONESHOT).  *)
attach(s, listen_send) ==
    LET fd == m_sockfd[s]
    IN  IF m_map_fd_envets[fd] = "INOUT"
        THEN UNCHANGED epollVars
        ELSE /\ reg' = [reg EXCEPT ![fd] = [ptr |-> s, out |-> listen_send, armed |-> TRUE]]
             /\ m_map_fd_envets' =
                    [m_map_fd_envets EXCEPT ![fd] = IF listen_send THEN "INOUT" ELSE "IN"]

(* Mutant: the map keeps the events of an fd that has left epoll. *)
detach_kernel_only(s) ==
    /\ reg' = [reg EXCEPT ![m_sockfd[s]] = Null]
    /\ UNCHANGED m_map_fd_envets

(* socket_handler::detach: event_poller::del clears the map only if the    *)
(* kernel had the fd.                                                      *)
detach(s) ==
    LET fd == m_sockfd[s]
    IN  /\ reg' = [reg EXCEPT ![fd] = Null]
        /\ m_map_fd_envets' = IF reg[fd] = Null THEN m_map_fd_envets
                              ELSE [m_map_fd_envets EXCEPT ![fd] = "0"]

HasPlayers == TaskType # "HTTP_TASK"

-----------------------------------------------------------------------------
(* handle(): one iteration of the main loop.  A local, or the gid of a     *)
(* socket in the pool, is cleared as soon as the code will not read it     *)
(* again before assigning it.                                              *)

(* epoll_wait: any of the armed fds, each with data or room, or hung up,   *)
(* and the listening socket; a delivered ONESHOT event disarms its fd.     *)
(* The gid in the event is a history value: the connection it was for.     *)
Wait ==
    /\ mpc = "wait"
    /\ \E ready \in SUBSET {fd \in Fd : reg[fd] # Null /\ reg[fd].armed} :
       \E hup \in SUBSET ready, l \in SUBSET {Listener} :
          /\ batch' = l \cup {[ptr |-> reg[fd].ptr, hup |-> fd \in hup,
                               gid |-> sock_gid[reg[fd].ptr]] : fd \in ready}
          /\ reg' = [fd \in Fd |-> IF fd \in ready THEN [reg[fd] EXCEPT !.armed = FALSE]
                                   ELSE reg[fd]]
    /\ mpc' = "update"
    /\ UNCHANGED <<m_map_fd_envets, socketVars, ssl_accepted, connVars, mapVars, shard_lock,
                   removeVars, mev, mgid, accept_idx, sec, gid_seq, queue, workVars>>

(* Mutant: the list that has been worked off is not cleared. *)
UpdateKeepsList ==
    LET gone == ToSet(wait_remove)
    IN  /\ mpc = "update"
        /\ m_sockfd' = [s \in Socket |-> IF s \in gone THEN 0 ELSE m_sockfd[s]]
        /\ free_socket' = free_socket \cup gone
        /\ mpc' = IF batch = {} THEN "wait" ELSE "events"
        /\ UNCHANGED <<epollVars, sock_gid, ssl_accepted, connVars, mapVars, shard_lock, removeVars,
                       batch, mev, mgid, accept_idx, sec, gid_seq, queue, workVars>>

(* update_wait_remove: detach, close and release every socket listed; then *)
(* the clock is read, and gid_seq restarts when the second has changed.    *)
(* (Stopping, which is tested here, is the subject of TaskDispatch.)       *)
Update ==
    LET gone == ToSet(wait_remove)
        fds == {m_sockfd[s] : s \in gone}
        over == batch = {}
    IN  /\ mpc = "update"
        /\ reg' = [fd \in Fd |-> IF fd \in fds THEN Null ELSE reg[fd]]
        /\ m_map_fd_envets' = [fd \in Fd |-> IF fd \in fds /\ reg[fd] # Null THEN "0"
                                             ELSE m_map_fd_envets[fd]]
        /\ m_sockfd' = [s \in Socket |-> IF s \in gone THEN 0 ELSE m_sockfd[s]]
        /\ ssl_accepted' = [s \in Socket |-> s \notin gone /\ ssl_accepted[s]]
        /\ free_socket' = free_socket \cup gone
        /\ removed_socket' = IF over THEN {} ELSE gone
        /\ wait_remove' = <<>>
        /\ sec' \in Seconds
        /\ gid_seq' = IF sec' = sec THEN gid_seq ELSE 0
        /\ mpc' = IF over THEN "wait" ELSE "events"
        /\ sock_gid' = [s \in Socket |-> IF s \in gone THEN 0 ELSE sock_gid[s]]
        /\ UNCHANGED <<connVars, mapVars, shard_lock, batch, mev, mgid, accept_idx,
                       queue, workVars>>

(* Mutant: events of removed sockets are not skipped. *)
NextEventAll ==
    /\ mpc = "events"
    /\ IF batch = {}
       THEN mpc' = "wait" /\ UNCHANGED <<batch, mev, epollVars>>
       ELSE \E ev \in batch :
            /\ batch' = batch \ {ev}
            /\ IF ev = Listener
               THEN mpc' = "accept" /\ UNCHANGED <<mev, epollVars>>
               ELSE /\ mpc' = "act" /\ mev' = ev
                    /\ IF ev.ptr \in free_socket THEN UNCHANGED epollVars ELSE detach(ev.ptr)
    /\ UNCHANGED <<socketVars, ssl_accepted, connVars, mapVars, shard_lock, removeVars,
                   mgid, accept_idx, sec, gid_seq, queue, workVars>>

(* The next event of the batch; the order of m_events is not known. *)
NextEvent ==
    /\ mpc = "events"
    /\ IF batch = {}
       THEN /\ mpc' = "wait" /\ removed_socket' = {}
            /\ UNCHANGED <<batch, mev, epollVars>>
       ELSE \E ev \in batch :
            /\ batch' = batch \ {ev}
            /\ UNCHANGED removed_socket
            /\ IF ev = Listener
               THEN mpc' = "accept" /\ UNCHANGED <<mev, epollVars>>
               ELSE IF ev.ptr \in removed_socket
               THEN UNCHANGED <<mpc, mev, epollVars>>
               ELSE mpc' = "act" /\ mev' = ev /\ detach(ev.ptr)
    /\ UNCHANGED <<socketVars, ssl_accepted, connVars, mapVars, shard_lock, wait_remove,
                   mgid, accept_idx, sec, gid_seq, queue, workVars>>

(* EPOLLIN or EPOLLOUT: a task for the socket's connection. *)
Act ==
    /\ mpc = "act" /\ ~ mev.hup
    /\ do_task(sock_gid[mev.ptr])
    /\ mpc' = "events" /\ mev' = Listener
    /\ UNCHANGED <<epollVars, socketVars, ssl_accepted, connVars, mapVars, shard_lock,
                   removeVars, batch, mgid, accept_idx, sec, gid_seq, workVars>>

(* EPOLLHUP, EPOLLERR, EPOLLRDHUP: connection_mgr::mark_close looks the    *)
(* gid up and calls connection::mark_close with the shard's mutex held.    *)
ActHup ==
    LET g == sock_gid[mev.ptr]
    IN  /\ mpc = "act" /\ mev.hup
        /\ ShardFree(g)
        /\ IF Mapped(g) /\ ~ close_flag[ConnOf(g)]
           THEN /\ shard_lock' = [shard_lock EXCEPT ![WorkerOf(g)] = Main]
                /\ mpc' = "mc_set" /\ mgid' = g
           ELSE mpc' = "events" /\ UNCHANGED <<mgid, shard_lock>>
        /\ mev' = Listener
        /\ UNCHANGED <<epollVars, socketVars, ssl_accepted, connVars, mapVars, removeVars,
                       batch, accept_idx, sec, gid_seq, queue, workVars>>

(* mark_close sets close_flag ... *)
MainSetsClose ==
    /\ mpc = "mc_set"
    /\ close_flag' = [close_flag EXCEPT ![ConnOf(mgid)] = TRUE]
    /\ mpc' = "mc_task"
    /\ UNCHANGED <<epollVars, socketVars, ssl_accepted, free_conn, connected, wating, mapVars,
                   shard_lock, removeVars, batch, mev, mgid, accept_idx, sec, gid_seq,
                   queue, workVars>>

(* Mutant: the buffers are cleared and no task is submitted. *)
MainClosedSilently ==
    /\ mpc = "mc_task"
    /\ wating' = [wating EXCEPT ![ConnOf(mgid)] = FALSE]
    /\ shard_lock' = [shard_lock EXCEPT ![WorkerOf(mgid)] = NoOne]
    /\ mpc' = "events" /\ mgid' = 0
    /\ UNCHANGED <<epollVars, socketVars, ssl_accepted, free_conn, close_flag, connected,
                   mapVars, removeVars, batch, mev, accept_idx, sec, gid_seq, queue, workVars>>

(* ... and on_mark_close clears the buffers and submits the closing task.  *)
MainClosed ==
    /\ mpc = "mc_task"
    /\ wating' = [wating EXCEPT ![ConnOf(mgid)] = FALSE]
    /\ do_task(mgid)
    /\ shard_lock' = [shard_lock EXCEPT ![WorkerOf(mgid)] = NoOne]
    /\ mpc' = "events" /\ mgid' = 0
    /\ UNCHANGED <<epollVars, socketVars, ssl_accepted, free_conn, close_flag, connected,
                   mapVars, removeVars, batch, mev, accept_idx, sec, gid_seq, workVars>>

(* The accept loop ends: its rounds are used up, no peer is waiting, no     *)
(* descriptor is left, or no socket object is free and the peer is         *)
(* disconnected at once.                                                   *)
AcceptNone ==
    /\ mpc = "accept"
    /\ mpc' = "events" /\ accept_idx' = 0
    /\ UNCHANGED <<epollVars, socketVars, ssl_accepted, connVars, mapVars, shard_lock,
                   removeVars, batch, mev, mgid, sec, gid_seq, queue, workVars>>

(* Mutant: one round too many. *)
MoreRoundsByOne == accept_idx <= AcceptPerTick

(* The accept loop has rounds left. *)
MoreRounds == accept_idx < AcceptPerTick

(* connection::reuse and its overrides: the state of the last use is gone. *)
reuse(c) ==
    /\ close_flag' = [close_flag EXCEPT ![c] = FALSE]
    /\ connected' = [connected EXCEPT ![c] = FALSE]
    /\ wating' = [wating EXCEPT ![c] = FALSE]

(* accept returns the lowest descriptor that is free. *)
FreeFd == Fd \ {m_sockfd[s] : s \in Socket}

(* One round of the accept loop.  A socket that cannot be given to a       *)
(* connection goes straight to the removal list.                           *)
Accept ==
    LET fd == CHOOSE x \in FreeFd : \A y \in FreeFd : x <= y
        g == GidOf(sec, gid_seq + 1)
        Refuse(s, at) == /\ wait_remove' = Append(wait_remove, s)
                         /\ mpc' = at
                         /\ accept_idx' = IF at = "accept" THEN accept_idx + 1 ELSE 0
                         /\ UNCHANGED <<gid2pair, free_conn, mgid>>
    IN  /\ mpc = "accept"
        /\ MoreRounds
        /\ gid_seq < MaxSeq
        /\ FreeFd # {}
        /\ \E s \in free_socket, ssl_err \in {FALSE, UseSSL} :
              /\ free_socket' = free_socket \ {s}
              /\ m_sockfd' = [m_sockfd EXCEPT ![s] = fd]
              /\ sock_gid' = [sock_gid EXCEPT ![s] = g]
              /\ gid_seq' = gid_seq + 1
              /\ IF ssl_err
                 THEN Refuse(s, "accept") /\ UNCHANGED <<close_flag, connected, wating>>
                 ELSE IF free_conn = {}
                 THEN Refuse(s, "events") /\ UNCHANGED <<close_flag, connected, wating>>
                 ELSE \E c \in free_conn :
                      /\ ShardFree(g)
                      /\ reuse(c)
                      /\ IF Mapped(g)
                         THEN Refuse(s, "accept")
                         ELSE /\ gid2pair' = [gid2pair EXCEPT ![g] = <<s, c>>]
                              /\ free_conn' = free_conn \ {c}
                              /\ mgid' = g
                              /\ accept_idx' = accept_idx + 1
                              /\ mpc' = IF UseSSL THEN "first" ELSE "new"
                              /\ UNCHANGED wait_remove
        /\ UNCHANGED <<epollVars, ssl_accepted, players, shard_lock, removed_socket, batch, mev,
                       sec, queue, workVars>>

(* on_new_connection looks the gid up again. *)
AcceptHook ==
    /\ mpc = "new"
    /\ ShardFree(mgid)
    /\ players' = IF HasPlayers /\ Mapped(mgid) THEN players \cup {mgid} ELSE players
    /\ mpc' = "first"
    /\ UNCHANGED <<epollVars, socketVars, ssl_accepted, connVars, gid2pair, shard_lock,
                   removeVars, batch, mev, mgid, accept_idx, sec, gid_seq, queue, workVars>>

(* "first connected, try listen write and process" *)
AcceptTask ==
    /\ mpc = "first"
    /\ do_task(mgid)
    /\ mpc' = "accept" /\ mgid' = 0
    /\ UNCHANGED <<epollVars, socketVars, ssl_accepted, connVars, mapVars, shard_lock,
                   removeVars, batch, mev, accept_idx, sec, gid_seq, workVars>>

MainStep ==
    \/ Wait \/ Update \/ NextEvent \/ Act \/ ActHup \/ MainSetsClose \/ MainClosed
    \/ AcceptNone \/ Accept \/ AcceptHook \/ AcceptTask

-----------------------------------------------------------------------------
(* task::run in worker w.  Goto ends a step that only moves on. *)

Goto(w, at) == wpc' = [wpc EXCEPT ![w] = at]

Return(w) ==
    /\ Goto(w, "idle")
    /\ wgid' = [wgid EXCEPT ![w] = 0]
    /\ whold' = [whold EXCEPT ![w] = Null]

(* mark_close of the connection w runs, then on at `then`. *)
CallMarkClose(w, then) ==
    /\ Goto(w, "mc_check")
    /\ wret' = [wret EXCEPT ![w] = then]

Pop(w) ==
    /\ wpc[w] = "idle" /\ queue[w] # <<>>
    /\ wgid' = [wgid EXCEPT ![w] = Head(queue[w])]
    /\ queue' = [queue EXCEPT ![w] = Tail(@)]
    /\ Goto(w, "lookup")
    /\ UNCHANGED <<epollVars, mainOnly, ssl_accepted, connVars, mapVars, shard_lock, wait_remove,
                   whold, wret, wout, wto>>

Lookup(w) ==
    /\ wpc[w] = "lookup" /\ ShardFree(wgid[w])
    /\ IF Mapped(wgid[w])
       THEN /\ whold' = [whold EXCEPT ![w] = gid2pair[wgid[w]]]
            /\ Goto(w, "check") /\ UNCHANGED wgid
       ELSE Return(w)
    /\ UNCHANGED <<epollVars, mainOnly, ssl_accepted, connVars, mapVars, shard_lock, wait_remove,
                   queue, wret, wout, wto>>

(* is_close, then the TLS handshake if it is not over, then the protocol. *)
Check(w) ==
    LET s == whold[w][1]
        c == whold[w][2]
    IN  /\ wpc[w] = "check"
        /\ Goto(w, IF close_flag[c] THEN "remove"
                   ELSE IF UseSSL /\ ~ ssl_accepted[s] THEN "ssl"
                   ELSE IF TaskType = "WEBSOCKET_TASK" /\ ~ connected[c] THEN "upgrade"
                   ELSE "recv")
        /\ UNCHANGED <<epollVars, mainOnly, ssl_accepted, connVars, mapVars, shard_lock,
                       wait_remove, queue, wgid, whold, wret, wout, wto>>

(* Mutants: the close hook is not called; the connection is not released. *)
RemoveWithoutHook(w) ==
    LET g == wgid[w]
    IN  /\ wpc[w] = "remove" /\ ShardFree(g) /\ Mapped(g)
        /\ gid2pair' = [gid2pair EXCEPT ![g] = Null]
        /\ free_conn' = free_conn \cup {ConnOf(g)}
        /\ wait_remove' = Append(wait_remove, SocketOf(g))
        /\ Return(w)
        /\ UNCHANGED <<epollVars, mainOnly, ssl_accepted, close_flag, connected, wating, players,
                       shard_lock, queue, wret, wout, wto>>

RemoveWithoutRelease(w) ==
    LET g == wgid[w]
    IN  /\ wpc[w] = "remove" /\ ShardFree(g) /\ Mapped(g)
        /\ gid2pair' = [gid2pair EXCEPT ![g] = Null]
        /\ players' = players \ {g}
        /\ wait_remove' = Append(wait_remove, SocketOf(g))
        /\ Return(w)
        /\ UNCHANGED <<epollVars, mainOnly, ssl_accepted, connVars, shard_lock, queue,
                       wret, wout, wto>>

(* connection_mgr::remove: erase, on_close_connection, release the         *)
(* connection, list the socket; all with the shard's mutex held.           *)
RemoveClosed(w) ==
    LET g == wgid[w]
    IN  /\ wpc[w] = "remove" /\ ShardFree(g)
        /\ IF Mapped(g)
           THEN /\ gid2pair' = [gid2pair EXCEPT ![g] = Null]
                /\ players' = players \ {g}
                /\ free_conn' = free_conn \cup {ConnOf(g)}
                /\ wait_remove' = Append(wait_remove, SocketOf(g))
           ELSE UNCHANGED <<mapVars, free_conn, wait_remove>>
        /\ Return(w)
        /\ UNCHANGED <<epollVars, mainOnly, ssl_accepted, close_flag, connected, wating,
                       shard_lock, queue, wret, wout, wto>>

(* Mutant: the new-connection hook is not called after the handshake. *)
SslAcceptedWithoutHook(w) ==
    /\ wpc[w] = "ssl"
    /\ ssl_accepted' = [ssl_accepted EXCEPT ![whold[w][1]] = TRUE]
    /\ Goto(w, IF TaskType = "WEBSOCKET_TASK" THEN "upgrade" ELSE "recv")
    /\ UNCHANGED <<epollVars, mainOnly, connVars, mapVars, shard_lock, wait_remove,
                   queue, wgid, whold, wret, wout, wto>>

(* SSL_accept succeeds: the new-connection hook; the task goes on.         *)
SslAccepted(w) ==
    LET s == whold[w][1]
        c == whold[w][2]
    IN  /\ wpc[w] = "ssl" /\ ShardFree(wgid[w])
        /\ ssl_accepted' = [ssl_accepted EXCEPT ![s] = TRUE]
        /\ players' = IF HasPlayers THEN players \cup {wgid[w]} ELSE players
        /\ Goto(w, IF TaskType = "WEBSOCKET_TASK" THEN "upgrade" ELSE "recv")
        /\ UNCHANGED <<epollVars, mainOnly, connVars, gid2pair, shard_lock, wait_remove,
                       queue, wgid, whold, wret, wout, wto>>

(* Mutants: the task goes on after re-arming; an incomplete upgrade only   *)
(* returns.                                                                *)
RearmFirst(w) ==
    \E listen_send \in BOOLEAN :
        /\ wpc[w] = "recv" /\ TaskType = "HTTP_TASK"
        /\ attach(whold[w][1], listen_send)
        /\ UNCHANGED <<mainOnly, ssl_accepted, connVars, mapVars, shard_lock, wait_remove,
                       queue, workVars>>

RearmForgotten(w) ==
    /\ wpc[w] = "upgrade"
    /\ Return(w)
    /\ UNCHANGED <<epollVars, mainOnly, ssl_accepted, connVars, mapVars, shard_lock, wait_remove,
                   queue, wret, wout, wto>>

(* The task re-arms its socket and returns: SSL_accept wants more data or  *)
(* room, or the HTTP request (the upgrade) is not complete.                *)
Rearm(w) ==
    \E listen_send \in BOOLEAN :
        /\ \/ wpc[w] = "ssl"
           \/ wpc[w] = "upgrade" /\ ~ listen_send
           \/ wpc[w] = "recv" /\ TaskType = "HTTP_TASK"
        /\ attach(whold[w][1], listen_send)
        /\ Return(w)
        /\ UNCHANGED <<mainOnly, ssl_accepted, connVars, mapVars, shard_lock, wait_remove,
                       queue, wret, wout, wto>>

(* The task gives its connection up and returns.  http_task, and sock2buf  *)
(* at end of file or with no room for what it carried over, call           *)
(* connection::mark_close directly; a failed TLS handshake of the other    *)
(* two, and a failed upgrade, go through connection_mgr and its mutex.     *)
GiveUp(w) ==
    LET direct == wpc[w] = "recv" \/ TaskType = "HTTP_TASK"
    IN  /\ wpc[w] \in {"ssl", "upgrade", "recv"}
        /\ direct \/ ShardFree(wgid[w])
        /\ CallMarkClose(w, "idle")
        /\ shard_lock' = IF direct THEN shard_lock
                         ELSE [shard_lock EXCEPT ![WorkerOf(wgid[w])] = w]
        /\ UNCHANGED <<epollVars, mainOnly, ssl_accepted, connVars, mapVars, wait_remove,
                       queue, wgid, whold, wout, wto>>

(* connection::mark_close in a worker: test, set, clear and do_task. *)
MarkReturns(w) ==
    /\ shard_lock' = [i \in Worker |-> IF shard_lock[i] = w THEN NoOne ELSE shard_lock[i]]
    /\ IF wret[w] = "idle" THEN Return(w) ELSE Goto(w, wret[w]) /\ UNCHANGED <<wgid, whold>>
    /\ wret' = [wret EXCEPT ![w] = "idle"]

MarkCheck(w) ==
    /\ wpc[w] = "mc_check"
    /\ IF close_flag[whold[w][2]] THEN MarkReturns(w)
       ELSE Goto(w, "mc_set") /\ UNCHANGED <<shard_lock, wgid, whold, wret>>
    /\ UNCHANGED <<epollVars, mainOnly, ssl_accepted, connVars, mapVars, wait_remove,
                   queue, wout, wto>>

MarkSet(w) ==
    /\ wpc[w] = "mc_set"
    /\ close_flag' = [close_flag EXCEPT ![whold[w][2]] = TRUE]
    /\ Goto(w, "mc_task")
    /\ UNCHANGED <<epollVars, mainOnly, ssl_accepted, free_conn, connected, wating, mapVars,
                   shard_lock, wait_remove, queue, wgid, whold, wret, wout, wto>>

(* Mutant: on_mark_close clears the buffers and submits no task. *)
MarkSilently(w) ==
    /\ wpc[w] = "mc_task"
    /\ wating' = [wating EXCEPT ![whold[w][2]] = FALSE]
    /\ MarkReturns(w)
    /\ UNCHANGED <<epollVars, mainOnly, ssl_accepted, free_conn, close_flag, connected, mapVars,
                   wait_remove, queue, wout, wto>>

MarkTask(w) ==
    /\ wpc[w] = "mc_task"
    /\ wating' = [wating EXCEPT ![whold[w][2]] = FALSE]
    /\ do_task(wgid[w])
    /\ MarkReturns(w)
    /\ UNCHANGED <<epollVars, mainOnly, ssl_accepted, free_conn, close_flag, connected, mapVars,
                   wait_remove, wout, wto>>

(* The WebSocket handshake: the response is sent like any other output. *)
Upgrade(w) ==
    /\ wpc[w] = "upgrade"
    /\ connected' = [connected EXCEPT ![whold[w][2]] = TRUE]
    /\ wating' = [wating EXCEPT ![whold[w][2]] = TRUE]
    /\ do_task(wgid[w])
    /\ Goto(w, "recv")
    /\ UNCHANGED <<epollVars, mainOnly, ssl_accepted, free_conn, close_flag, mapVars, shard_lock,
                   wait_remove, wgid, whold, wret, wout, wto>>

(* sock2buf reads until EAGAIN, or until the buffer is full: then it asks  *)
(* for another task and what has been read is processed all the same.      *)
Recv(w) ==
    /\ wpc[w] = "recv" /\ TaskType # "HTTP_TASK"
    /\ \/ UNCHANGED queue
       \/ do_task(wgid[w])
    /\ Goto(w, "process")
    /\ UNCHANGED <<epollVars, mainOnly, ssl_accepted, connVars, mapVars, shard_lock,
                   wait_remove, wgid, whold, wret, wout, wto>>

(* process_connection sends: stream_app to the connection itself, both to  *)
(* any connection by gid, with that gid's shard held from lookup to        *)
(* do_task.  A WebSocket not yet upgraded, or a gid that is gone, gets     *)
(* nothing.                                                                *)
Send(w, g) ==
    /\ wpc[w] = "process"
    /\ IF g = wgid[w] /\ TaskType = "STREAM_TASK"
       THEN UNCHANGED shard_lock
       ELSE /\ ShardFree(g) /\ Mapped(g)
            /\ TaskType = "WEBSOCKET_TASK" => connected[ConnOf(g)]
            /\ shard_lock' = [shard_lock EXCEPT ![WorkerOf(g)] = w]
    /\ wating' = [wating EXCEPT ![ConnOf(g)] = TRUE]
    /\ wto' = [wto EXCEPT ![w] = g]
    /\ Goto(w, "sending")
    /\ UNCHANGED <<epollVars, mainOnly, ssl_accepted, free_conn, close_flag, connected, mapVars,
                   wait_remove, queue, wgid, whold, wret, wout>>

(* The second half of send(): a task for the receiver. *)
SendTask(w) ==
    /\ wpc[w] = "sending"
    /\ do_task(wto[w])
    /\ shard_lock' = [i \in Worker |-> IF shard_lock[i] = w THEN NoOne ELSE shard_lock[i]]
    /\ wto' = [wto EXCEPT ![w] = 0]
    /\ Goto(w, "process")
    /\ UNCHANGED <<epollVars, mainOnly, ssl_accepted, connVars, mapVars, wait_remove,
                   wgid, whold, wret, wout>>

(* process_connection returns, throws (mark_close and return), or finds a  *)
(* protocol error (mark_close, and the task goes on).                      *)
Processed(w) ==
    /\ wpc[w] = "process"
    /\ \/ Goto(w, "send") /\ UNCHANGED wret
       \/ \E then \in {"idle", "send"} : CallMarkClose(w, then)
    /\ UNCHANGED <<epollVars, mainOnly, ssl_accepted, connVars, mapVars, shard_lock, wait_remove,
                   queue, wgid, whold, wout, wto>>

(* Mutant: buf2sock does not ask for EPOLLOUT when the kernel is full. *)
Buf2sockForgets(w) ==
    /\ wpc[w] = "send"
    /\ wout' = [wout EXCEPT ![w] = FALSE]
    /\ Goto(w, "attach")
    /\ UNCHANGED <<epollVars, mainOnly, ssl_accepted, connVars, mapVars, shard_lock, wait_remove,
                   queue, wgid, whold, wret, wto>>

(* buf2sock: everything is sent; the kernel takes no more (EAGAIN); or the *)
(* connection is broken, and the task still re-arms the socket.            *)
Buf2sock(w) ==
    LET c == whold[w][2]
        Out(b) == wout' = [wout EXCEPT ![w] = b]
    IN  /\ wpc[w] = "send"
        /\ \/ /\ wating' = [wating EXCEPT ![c] = FALSE]
              /\ Out(FALSE) /\ Goto(w, "attach") /\ UNCHANGED wret
           \/ /\ wating[c] /\ UNCHANGED wating
              /\ Out(TRUE) /\ Goto(w, "attach") /\ UNCHANGED wret
           \/ /\ wating[c] /\ UNCHANGED wating
              /\ \E b \in {FALSE, TaskType = "STREAM_TASK"} : Out(b)
              /\ CallMarkClose(w, "attach")
        /\ UNCHANGED <<epollVars, mainOnly, ssl_accepted, free_conn, close_flag, connected,
                       mapVars, shard_lock, wait_remove, queue, wgid, whold, wto>>

(* Mutant: the socket is re-armed only when output is left. *)
AttachToSend(w) ==
    /\ wpc[w] = "attach"
    /\ IF wout[w] THEN attach(whold[w][1], TRUE) ELSE UNCHANGED epollVars
    /\ wout' = [wout EXCEPT ![w] = FALSE]
    /\ Return(w)
    /\ UNCHANGED <<mainOnly, ssl_accepted, connVars, mapVars, shard_lock, wait_remove,
                   queue, wret, wto>>

(* The end of run(): the socket goes back to epoll. *)
Attach(w) ==
    /\ wpc[w] = "attach"
    /\ attach(whold[w][1], wout[w])
    /\ wout' = [wout EXCEPT ![w] = FALSE]
    /\ Return(w)
    /\ UNCHANGED <<mainOnly, ssl_accepted, connVars, mapVars, shard_lock, wait_remove,
                   queue, wret, wto>>

WorkerStep(w) ==
    \/ Pop(w) \/ Lookup(w) \/ Check(w) \/ RemoveClosed(w) \/ SslAccepted(w) \/ Rearm(w)
    \/ GiveUp(w) \/ MarkCheck(w) \/ MarkSet(w) \/ MarkTask(w) \/ Upgrade(w) \/ Recv(w)
    \/ SendTask(w) \/ Processed(w) \/ Buf2sock(w) \/ Attach(w)

Next ==
    \/ MainStep
    \/ \E w \in Worker : WorkerStep(w) \/ \E g \in Gid : Send(w, g)

Spec == Init /\ [][Next]_vars

(* The operating system keeps running the main thread and the workers.     *)
(* How often a task sends (Send) is the application's choice, not a step   *)
(* the scheduler owes anyone.                                              *)
FairSpec ==
    /\ Spec
    /\ WF_vars(MainStep)
    /\ \A w \in Worker : WF_vars(WorkerStep(w))

-----------------------------------------------------------------------------
(* Properties. *)

(* Every socket object is free, the socket of one connection, or listed    *)
(* once for removal; every connection object is free or belongs to one     *)
(* gid: "make sure closing connection and socket once".                    *)
CloseOnce ==
    /\ \A s \in Socket :
          LET gids == {g \in Gid : Mapped(g) /\ SocketOf(g) = s}
              listed == {i \in 1 .. Len(wait_remove) : wait_remove[i] = s}
          IN  Cardinality(gids) + Cardinality(listed) + (IF s \in free_socket THEN 1 ELSE 0) = 1
    /\ \A c \in Conn :
          LET gids == {g \in Gid : Mapped(g) /\ ConnOf(g) = c}
          IN  Cardinality(gids) + (IF c \in free_conn THEN 1 ELSE 0) = 1

(* A task works on its socket and connection without any lock: both stay   *)
(* the ones its gid is mapped to until the task itself removes them.       *)
TaskHoldsLive ==
    \A w \in Worker : whold[w] # Null => gid2pair[wgid[w]] = whold[w]

(* The event the main loop acts on is for the connection it was delivered  *)
(* for, though sockets listed for removal are recycled between epoll_wait  *)
(* and the handling of its events.                                         *)
EventIsFresh == mpc = "act" => sock_gid[mev.ptr] = mev.gid

(* event_poller's map agrees with the kernel, and the pointer registered   *)
(* for an fd is the socket that owns the fd: attach's shortcut reads the   *)
(* map, and fds are reused.                                                *)
PollerMapExact ==
    \A fd \in Fd :
        IF reg[fd] = Null
        THEN m_map_fd_envets[fd] = "0"
        ELSE /\ m_map_fd_envets[fd] = IF reg[fd].out THEN "INOUT" ELSE "IN"
             /\ m_sockfd[reg[fd].ptr] = fd

(* epoll will report socket s. *)
Armed(s) == reg[m_sockfd[s]] # Null /\ reg[m_sockfd[s]].armed

(* An event of s is in the batch, or the main loop is on it. *)
EventDue(s) ==
    \/ \E ev \in batch : ev.ptr = s /\ (mpc = "update" \/ s \notin removed_socket)
    \/ mpc = "act" /\ mev.ptr = s

TaskDue(g) ==
    \/ g \in ToSet(queue[WorkerOf(g)])
    \/ mpc \in {"new", "first", "mc_set", "mc_task"} /\ mgid = g
    \/ \E w \in Worker : wpc[w] = "sending" /\ wto[w] = g

Runs(g, at) == wgid[WorkerOf(g)] = g /\ wpc[WorkerOf(g)] \in at

(* No connection is forgotten: one that is mapped is always armed in       *)
(* epoll, or has an event, a task queued or submitted, or a running task.  *)
NoOrphan ==
    \A g \in Gid : Mapped(g) =>
        Armed(SocketOf(g)) \/ EventDue(SocketOf(g)) \/ TaskDue(g) \/ Runs(g, WorkerAt)

(* No closed connection is forgotten: once close_flag is set a task that   *)
(* will see it is queued, about to be queued, or running before the test.  *)
ClosedHasTask ==
    \A g \in Gid : Mapped(g) /\ close_flag[ConnOf(g)] =>
        TaskDue(g) \/ Runs(g, {"lookup", "check", "remove", "mc_task"})

(* No output is forgotten: what send() accepted for an established         *)
(* connection is ahead of a run of buf2sock, or EPOLLOUT is asked for.     *)
NoLostOutput ==
    \A g \in Gid :
        /\ Mapped(g)
        /\ wating[ConnOf(g)] /\ ~ close_flag[ConnOf(g)]
        /\ UseSSL => ssl_accepted[SocketOf(g)]
        /\ TaskType = "WEBSOCKET_TASK" => connected[ConnOf(g)]
        => \/ TaskDue(g)
           \/ Runs(g, WorkerAt \ {"attach"}) \/ (Runs(g, {"attach"}) /\ wout[WorkerOf(g)])
           \/ EventDue(SocketOf(g))
           \/ Armed(SocketOf(g)) /\ reg[m_sockfd[SocketOf(g)]].out

(* The application's set of players (websocket_app broadcasts to it) holds *)
(* exactly the connections whose handshake is over, from the hook that     *)
(* reports a new connection to the removal of the connection.              *)
PlayersExact ==
    HasPlayers =>
        \A g \in Gid : g \in players <=>
            /\ Mapped(g)
            /\ UseSSL => ssl_accepted[SocketOf(g)]
            /\ ~ (mpc = "new" /\ mgid = g)

(* The two pools have one size and a connection goes back to its pool      *)
(* before its socket, so accept never finds a socket and no connection.    *)
ConnectionAvailable ==
    Cardinality(Conn) >= Cardinality(Socket) => (free_socket # {} => free_conn # {})

(* While a task works on its connection no other thread clears the         *)
(* buffers: on_mark_close in the main thread would free what the task      *)
(* reads through force_get_read_ptr.                                       *)
BuffersExclusive ==
    mpc = "mc_task" => ~ Runs(mgid, {"upgrade", "recv", "process", "sending", "send"})

(* The socket of a connection that has hung up is back in the pool in the  *)
(* end: mark_close, closing task, removal list and update follow.          *)
HangupFrees ==
    \A s \in Socket : (\E ev \in batch : ev.ptr = s /\ ev.hup) ~> s \in free_socket

(* A connection closed by anyone is back in its pool in the end. *)
CloseFrees ==
    \A c \in Conn : (close_flag[c] /\ c \notin free_conn) ~> c \in free_conn
=============================================================================
