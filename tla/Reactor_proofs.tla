--------------------------- MODULE Reactor_proofs ---------------------------
(***************************************************************************)
(* Machine-checked proofs about Reactor, for any number of workers,        *)
(* objects, descriptors and gids, every kind of task, with and without     *)
(* TLS: who owns which object, and what a task or an event refers to.      *)
(***************************************************************************)
EXTENDS Reactor, SequenceTheorems, FiniteSetTheorems, WellFoundedInduction, TLAPS

-----------------------------------------------------------------------------
(* The inductive invariant.                                                *)

(* A socket object is in its pool exactly when it has no descriptor and no *)
(* gid; no two sockets have the same descriptor.                           *)
SocketInv ==
    \A s \in Socket :
        /\ s \in free_socket <=> m_sockfd[s] = 0
        /\ s \in free_socket <=> sock_gid[s] = 0
        /\ s \in free_socket => ~ ssl_accepted[s]
        /\ \A t \in Socket : m_sockfd[s] = m_sockfd[t] /\ m_sockfd[s] # 0 => s = t

(* The socket of a mapping carries the gid it is mapped to, its connection *)
(* is out of the pool and belongs to no other gid.                         *)
PairInv ==
    \A g \in Gid : Mapped(g) =>
        /\ sock_gid[SocketOf(g)] = g
        /\ ConnOf(g) \notin free_conn
        /\ \A h \in Gid : Mapped(h) /\ ConnOf(h) = ConnOf(g) => h = g

(* A socket is listed for removal once, after its mapping is gone and      *)
(* before it is free.                                                      *)
ListInv ==
    \A i \in 1 .. Len(wait_remove) :
        /\ wait_remove[i] \notin free_socket
        /\ \A j \in 1 .. Len(wait_remove) : wait_remove[j] = wait_remove[i] => j = i
        /\ \A g \in Gid : Mapped(g) => SocketOf(g) # wait_remove[i]

(* No object is lost. *)
SocketKept ==
    \A s \in Socket : \/ s \in free_socket
                      \/ \E i \in 1 .. Len(wait_remove) : wait_remove[i] = s
                      \/ \E g \in Gid : Mapped(g) /\ SocketOf(g) = s

ConnKept == \A c \in Conn : c \in free_conn \/ \E g \in Gid : Mapped(g) /\ ConnOf(g) = c

(* Every gid queued at a worker selects it. *)
QueueInv == \A w \in Worker : \A g \in ToSet(queue[w]) : WorkerOf(g) = w

(* What the place a task has reached says of its gid and its objects. *)
TaskInv ==
    \A w \in Worker :
        /\ wpc[w] = "idle" => wgid[w] = 0
        /\ wpc[w] # "idle" => wgid[w] \in Gid /\ WorkerOf(wgid[w]) = w
        /\ wpc[w] \in {"idle", "lookup"} <=> whold[w] = Null
        /\ wpc[w] = "sending" => wto[w] \in Gid
        /\ wret[w] \in {"idle", "send", "attach"}

(* What the place the main loop has reached says of its gid; in mark_close *)
(* it holds the shard, so that the mapping stays.                          *)
MainInv ==
    /\ mpc = "wait" => batch = {}
    /\ mpc \in {"new", "first", "mc_set", "mc_task"} => mgid \in Gid
    /\ mpc \in {"mc_set", "mc_task"} => Mapped(mgid) /\ shard_lock[WorkerOf(mgid)] = Main

(* An event refers to the socket as it was delivered for, unless the       *)
(* socket was removed in this turn of the loop.                            *)
Fresh(ev) == ev.ptr \notin free_socket /\ sock_gid[ev.ptr] = ev.gid

EventInv ==
    /\ \A ev \in batch \ {Listener} : Fresh(ev) \/ (mpc # "update" /\ ev.ptr \in removed_socket)
    /\ mpc = "act" => mev # Listener /\ Fresh(mev)

Inv ==
    /\ TypeOK
    /\ SocketInv /\ PairInv /\ ListInv /\ SocketKept /\ ConnKept
    /\ QueueInv /\ TaskInv /\ TaskHoldsLive /\ MainInv /\ EventInv
    /\ PollerMapExact

-----------------------------------------------------------------------------
(* Facts about the constants. *)

(* The null values are none of the objects, and 0 is no gid and no descriptor. *)
LEMMA Constants ==
    /\ 0 \notin Gid /\ 0 \notin Fd
    /\ Main \notin Worker /\ NoOne \notin Worker /\ Main # NoOne
    /\ Null \notin Socket /\ Null \notin Conn
    /\ Listener \notin Event
  <1>1. ASSUME NEW second \in Seconds, NEW seq \in 1 .. MaxSeq  PROVE GidOf(second, seq) \in Nat \ {0}
    <2>1. second \in Nat /\ Shift \in Nat /\ seq \in Nat \ {0}
      BY ClockAssumption, SizeAssumption
    <2>2. second * Shift \in Nat
      BY <2>1
    <2>3. QED  BY <2>1, <2>2 DEF GidOf
  <1>2. 0 \notin Gid
    BY <1>1 DEF Gid
  <1>3. QED
    BY <1>2, NWAssumption, SizeAssumption, NullAssumption
       DEF Fd, Main, Worker, NoOne, Listener, Event

(* assign chooses a worker. *)
LEMMA WorkerOfGid == \A g \in Gid : WorkerOf(g) \in Worker
  <1>1. ASSUME NEW second \in Seconds, NEW seq \in 1 .. MaxSeq
        PROVE  WorkerOf(GidOf(second, seq)) \in Worker
    <2>1. second \in Nat /\ Shift \in Nat /\ seq \in Nat
      BY ClockAssumption, SizeAssumption
    <2>2. second * Shift \in Nat
      BY <2>1
    <2>3. GidOf(second, seq) \in Nat
      BY <2>1, <2>2 DEF GidOf
    <2>4. QED  BY <2>3, NWAssumption DEF WorkerOf, Worker
  <1>2. QED  BY <1>1 DEF Gid

(* accept finds a lowest descriptor whenever one is free. *)
LEMMA LowestFd ==
    FreeFd # {} => (CHOOSE x \in FreeFd : \A y \in FreeFd : x <= y) \in FreeFd
  <1> SUFFICES ASSUME FreeFd # {}  PROVE \E x \in FreeFd : \A y \in FreeFd : x <= y
    OBVIOUS
  <1> DEFINE F == FreeFd
  <1>0. F \subseteq Nat /\ F # {}
    BY SizeAssumption DEF FreeFd, Fd
  <1> HIDE DEF F
  <1>1. PICK x \in F : \A y \in F : ~ (<<y, x>> \in OpToRel(<, Nat))
    BY <1>0, NatLessThanWellFounded, WFMin
  <1>2. OpToRel(<, Nat) = {ss \in Nat \X Nat : ss[1] < ss[2]}
    BY Zenon DEF OpToRel
  <1>3. \A y \in F : ~ (y < x)
    BY <1>0, <1>1, <1>2
  <1>4. QED  BY <1>0, <1>3 DEF F

-----------------------------------------------------------------------------
(* The queues and the removal list as sets of elements. *)

(* The elements of a queue. *)
LEMMA Elements ==
    ASSUME NEW S, NEW q \in Seq(S)
    PROVE  /\ ToSet(q) = {q[i] : i \in 1 .. Len(q)}
           /\ ToSet(q) \subseteq S
  BY DEF ToSet

(* push adds one element. *)
LEMMA AppendElements ==
    ASSUME NEW S, NEW q \in Seq(S), NEW x \in S
    PROVE  /\ Append(q, x) \in Seq(S)
           /\ ToSet(Append(q, x)) = ToSet(q) \cup {x}
  <1>1. /\ Append(q, x) \in Seq(S) /\ Len(Append(q, x)) = Len(q) + 1 /\ Len(q) \in Nat
        /\ \A i \in 1 .. Len(q) : Append(q, x)[i] = q[i]
        /\ Append(q, x)[Len(q) + 1] = x
    BY AppendProperties
  <1>2. ToSet(Append(q, x)) = {Append(q, x)[i] : i \in 1 .. Len(q) + 1}
    BY <1>1, Elements
  <1>3. ToSet(q) = {q[i] : i \in 1 .. Len(q)}
    BY Elements
  <1>4. ToSet(Append(q, x)) \subseteq ToSet(q) \cup {x}
    BY <1>1, <1>2, <1>3
  <1>5. ToSet(q) \cup {x} \subseteq ToSet(Append(q, x))
    BY <1>1, <1>2, <1>3
  <1>6. QED  BY <1>1, <1>4, <1>5

(* pop takes one element. *)
LEMMA TailElements ==
    ASSUME NEW S, NEW q \in Seq(S), q # <<>>
    PROVE  /\ Head(q) \in S /\ Tail(q) \in Seq(S)
           /\ ToSet(q) = ToSet(Tail(q)) \cup {Head(q)}
  <1>1. /\ Head(q) \in S /\ Tail(q) \in Seq(S) /\ Len(Tail(q)) = Len(q) - 1
        /\ Len(q) \in Nat \ {0} /\ Head(q) = q[1]
        /\ \A i \in 1 .. Len(Tail(q)) : Tail(q)[i] = q[i + 1]
    BY HeadTailProperties, EmptySeq
  <1>2. /\ ToSet(q) = {q[i] : i \in 1 .. Len(q)}
        /\ ToSet(Tail(q)) = {Tail(q)[i] : i \in 1 .. Len(q) - 1}
    BY <1>1, Elements
  <1>3. ToSet(Tail(q)) \cup {Head(q)} \subseteq ToSet(q)
    BY <1>1, <1>2
  <1>4. ASSUME NEW i \in 1 .. Len(q)  PROVE q[i] \in ToSet(Tail(q)) \cup {Head(q)}
    <2>1. CASE i = 1
      BY <1>1, <2>1
    <2>2. CASE i # 1
      <3>1. i - 1 \in 1 .. Len(q) - 1 /\ (i - 1) + 1 = i
        BY <1>1, <2>2
      <3>2. Tail(q)[i - 1] = q[i]
        BY <1>1, <3>1
      <3>3. QED  BY <1>2, <3>1, <3>2
    <2>3. QED  BY <2>1, <2>2
  <1>5. QED  BY <1>1, <1>2, <1>3, <1>4

(* do_task queues g at the worker it selects, if it is not there yet. *)
LEMMA DoTaskQueues ==
    ASSUME queue \in [Worker -> Seq(Gid)], NEW g \in Gid, do_task(g)
    PROVE  /\ queue' \in [Worker -> Seq(Gid)]
           /\ \A w \in Worker : ToSet(queue'[w]) = IF w = WorkerOf(g) THEN ToSet(queue[w]) \cup {g}
                                                   ELSE ToSet(queue[w])
  <1> DEFINE v == WorkerOf(g)
             q == queue[v]
             r == IF g \in ToSet(q) THEN q ELSE Append(q, g)
  <1>1. v \in Worker /\ q \in Seq(Gid)
    BY WorkerOfGid
  <1>2. r \in Seq(Gid) /\ ToSet(r) = ToSet(q) \cup {g}
    BY <1>1, AppendElements
  <1>3. queue' = [queue EXCEPT ![v] = r]
    BY DEF do_task
  <1> HIDE DEF v, q, r
  <1>4. QED  BY <1>1, <1>2, <1>3 DEF v, q

(* pop, for the queues of all workers. *)
LEMMA PopTakes ==
    ASSUME queue \in [Worker -> Seq(Gid)], NEW w \in Worker, Pop(w)
    PROVE  /\ queue' \in [Worker -> Seq(Gid)] /\ Head(queue[w]) \in Gid
           /\ ToSet(queue[w]) = ToSet(queue'[w]) \cup {Head(queue[w])}
           /\ \A v \in Worker \ {w} : queue'[v] = queue[v]
  <1> DEFINE q == queue[w]
  <1>1. q \in Seq(Gid) /\ q # <<>> /\ queue' = [queue EXCEPT ![w] = Tail(q)]
    BY DEF Pop
  <1>2. Head(q) \in Gid /\ Tail(q) \in Seq(Gid) /\ ToSet(q) = ToSet(Tail(q)) \cup {Head(q)}
    BY <1>1, TailElements
  <1>3. queue'[w] = Tail(q) /\ queue' \in [Worker -> Seq(Gid)]
    BY <1>1, <1>2
  <1>4. QED  BY <1>1, <1>2, <1>3

-----------------------------------------------------------------------------
(* Who writes what. *)

USE DEF vars, epollVars, socketVars, connVars, mapVars, removeVars, mainVars, mainOnly, workVars

(* Only the removal of listed sockets, accept and the TLS handshake change *)
(* a socket object.                                                        *)
LEMMA SocketWriters ==
    ASSUME [Next]_vars
    PROVE  \/ Update \/ Accept \/ \E w \in Worker : SslAccepted(w)
           \/ UNCHANGED <<socketVars, ssl_accepted>>
  <1>1. CASE MainStep
    BY <1>1 DEF MainStep, Wait, NextEvent, Act, ActHup, MainSetsClose, MainClosed, AcceptNone,
                AcceptHook, AcceptTask
  <1>2. ASSUME NEW w \in Worker, WorkerStep(w)  PROVE SslAccepted(w) \/ UNCHANGED <<socketVars, ssl_accepted>>
    BY <1>2 DEF WorkerStep, Pop, Lookup, Check, RemoveClosed, Rearm, GiveUp, MarkCheck, MarkSet,
                MarkTask, Upgrade, Recv, SendTask, Processed, Buf2sock, Attach
  <1>3. ASSUME NEW w \in Worker, NEW g \in Gid, Send(w, g)  PROVE UNCHANGED <<socketVars, ssl_accepted>>
    BY <1>3 DEF Send
  <1>4. QED  BY <1>1, <1>2, <1>3 DEF Next

(* Only accept and remove change the mapping or the pool of connections. *)
LEMMA MapWriters ==
    ASSUME [Next]_vars
    PROVE  \/ Accept \/ \E w \in Worker : RemoveClosed(w)
           \/ UNCHANGED <<gid2pair, free_conn>>
  <1>1. CASE MainStep
    BY <1>1 DEF MainStep, Wait, Update, NextEvent, Act, ActHup, MainSetsClose, MainClosed, AcceptNone,
                AcceptHook, AcceptTask
  <1>2. ASSUME NEW w \in Worker, WorkerStep(w)  PROVE RemoveClosed(w) \/ UNCHANGED <<gid2pair, free_conn>>
    BY <1>2 DEF WorkerStep, Pop, Lookup, Check, SslAccepted, Rearm, GiveUp, MarkCheck, MarkSet,
                MarkTask, Upgrade, Recv, SendTask, Processed, Buf2sock, Attach
  <1>3. ASSUME NEW w \in Worker, NEW g \in Gid, Send(w, g)  PROVE UNCHANGED <<gid2pair, free_conn>>
    BY <1>3 DEF Send
  <1>4. QED  BY <1>1, <1>2, <1>3 DEF Next

(* Only update, accept and remove change the removal list. *)
LEMMA ListWriters ==
    ASSUME [Next]_vars
    PROVE  \/ Update \/ Accept \/ \E w \in Worker : RemoveClosed(w)
           \/ UNCHANGED wait_remove
  <1>1. CASE MainStep
    BY <1>1 DEF MainStep, Wait, NextEvent, Act, ActHup, MainSetsClose, MainClosed, AcceptNone,
                AcceptHook, AcceptTask
  <1>2. ASSUME NEW w \in Worker, WorkerStep(w)  PROVE RemoveClosed(w) \/ UNCHANGED wait_remove
    BY <1>2 DEF WorkerStep, Pop, Lookup, Check, SslAccepted, Rearm, GiveUp, MarkCheck, MarkSet,
                MarkTask, Upgrade, Recv, SendTask, Processed, Buf2sock, Attach
  <1>3. ASSUME NEW w \in Worker, NEW g \in Gid, Send(w, g)  PROVE UNCHANGED wait_remove
    BY <1>3 DEF Send
  <1>4. QED  BY <1>1, <1>2, <1>3 DEF Next

(* The threads that change what epoll is asked for. *)
LEMMA EpollWriters ==
    ASSUME [Next]_vars
    PROVE  \/ Wait \/ Update \/ NextEvent \/ \E w \in Worker : Rearm(w) \/ Attach(w)
           \/ UNCHANGED epollVars
  <1>1. CASE MainStep
    BY <1>1 DEF MainStep, Act, ActHup, MainSetsClose, MainClosed, AcceptNone, Accept,
                AcceptHook, AcceptTask
  <1>2. ASSUME NEW w \in Worker, WorkerStep(w)  PROVE Rearm(w) \/ Attach(w) \/ UNCHANGED epollVars
    BY <1>2 DEF WorkerStep, Pop, Lookup, Check, RemoveClosed, SslAccepted, GiveUp, MarkCheck, MarkSet,
                MarkTask, Upgrade, Recv, SendTask, Processed, Buf2sock
  <1>3. ASSUME NEW w \in Worker, NEW g \in Gid, Send(w, g)  PROVE UNCHANGED epollVars
    BY <1>3 DEF Send
  <1>4. QED  BY <1>1, <1>2, <1>3 DEF Next

(* The main loop's own variables change in its steps only, and a worker's  *)
(* in its own.                                                             *)
LEMMA LocalsOfMain ==
    ASSUME NEW w \in Worker, WorkerStep(w) \/ \E g \in Gid : Send(w, g)
    PROVE  UNCHANGED mainOnly
  <1>1. CASE WorkerStep(w)
    BY <1>1 DEF WorkerStep, Pop, Lookup, Check, RemoveClosed, SslAccepted, Rearm, GiveUp, MarkCheck,
                MarkSet, MarkTask, Upgrade, Recv, SendTask, Processed, Buf2sock, Attach
  <1>2. ASSUME NEW g \in Gid, Send(w, g)  PROVE UNCHANGED mainOnly
    BY <1>2 DEF Send
  <1>3. QED  BY <1>1, <1>2

(* Only a worker's own steps change its locals. *)
LEMMA LocalsOfWorker ==
    ASSUME [Next]_vars
    PROVE  \/ \E w \in Worker : WorkerStep(w) \/ \E g \in Gid : Send(w, g)
           \/ UNCHANGED workVars
  BY DEF Next, MainStep, Wait, Update, NextEvent, Act, ActHup, MainSetsClose, MainClosed, AcceptNone,
         Accept, AcceptHook, AcceptTask

-----------------------------------------------------------------------------
(* What a task, and an event, refer to. *)

(* What a task holds is mapped to its gid and in use. *)
LEMMA Holds ==
    ASSUME TypeOK, SocketInv, PairInv, TaskInv, TaskHoldsLive, NEW w \in Worker, whold[w] # Null
    PROVE  /\ wgid[w] \in Gid /\ WorkerOf(wgid[w]) = w
           /\ whold[w] \in Socket \X Conn /\ gid2pair[wgid[w]] = whold[w]
           /\ whold[w][1] \in Socket /\ whold[w][2] \in Conn
           /\ Mapped(wgid[w]) /\ SocketOf(wgid[w]) = whold[w][1] /\ ConnOf(wgid[w]) = whold[w][2]
           /\ whold[w][1] \notin free_socket /\ m_sockfd[whold[w][1]] \in Fd
           /\ sock_gid[whold[w][1]] = wgid[w]
           /\ whold[w][2] \notin free_conn
  BY Constants DEF TypeOK, SocketInv, PairInv, TaskInv, TaskHoldsLive, Mapped, SocketOf, ConnOf

(* A mapped gid has a socket and a connection in use. *)
LEMMA MappedPair ==
    ASSUME TypeOK, SocketInv, PairInv, NEW g \in Gid, Mapped(g)
    PROVE  /\ gid2pair[g] \in Socket \X Conn /\ SocketOf(g) \in Socket /\ ConnOf(g) \in Conn
           /\ gid2pair[g] = <<SocketOf(g), ConnOf(g)>>
           /\ SocketOf(g) \notin free_socket /\ m_sockfd[SocketOf(g)] \in Fd
           /\ sock_gid[SocketOf(g)] = g /\ ConnOf(g) \notin free_conn
  BY Constants DEF TypeOK, SocketInv, PairInv, Mapped, SocketOf, ConnOf

(* The socket of an event that is about to be handled is in use. *)
LEMMA EventSocket ==
    ASSUME TypeOK, SocketInv, NEW ev \in Event, Fresh(ev)
    PROVE  ev.ptr \in Socket /\ m_sockfd[ev.ptr] \in Fd /\ sock_gid[ev.ptr] \in Gid
  BY Constants DEF TypeOK, SocketInv, Fresh, Event

(* epoll watches sockets that are in use. *)
LEMMA WatchedSocket ==
    ASSUME TypeOK, SocketInv, PollerMapExact, NEW fd \in Fd, reg[fd] # Null
    PROVE  /\ reg[fd].ptr \in Socket \ free_socket /\ m_sockfd[reg[fd].ptr] = fd
           /\ sock_gid[reg[fd].ptr] \in Gid
  BY Constants DEF TypeOK, SocketInv, PollerMapExact

-----------------------------------------------------------------------------
(* The invariant holds at the start. *)

(* The invariant holds after start(). *)
LEMMA InitInv == Init => Inv
  <1> SUFFICES ASSUME Init  PROVE Inv
    OBVIOUS
  <1>1. TypeOK
    <2>1. wait_remove \in Seq(Socket) /\ queue \in [Worker -> Seq(Gid)]
      BY EmptySeq DEF Init
    <2>2. sec \in Seconds /\ gid_seq \in 0 .. MaxSeq /\ accept_idx \in 0 .. AcceptPerTick
      BY SizeAssumption DEF Init
    <2>3. QED  BY <2>1, <2>2 DEF Init, TypeOK, MainAt, WorkerAt
  <1>2. SocketInv /\ PairInv /\ SocketKept /\ ConnKept
    BY DEF Init, SocketInv, PairInv, SocketKept, ConnKept, Mapped
  <1>3. ListInv
    BY EmptySeq DEF Init, ListInv
  <1>4. QueueInv
    BY EmptySeq DEF Init, QueueInv, ToSet
  <1>5. TaskInv /\ TaskHoldsLive /\ MainInv
    BY DEF Init, TaskInv, TaskHoldsLive, MainInv
  <1>6. EventInv /\ PollerMapExact
    BY DEF Init, EventInv, PollerMapExact
  <1>7. QED  BY <1>1, <1>2, <1>3, <1>4, <1>5, <1>6 DEF Inv

-----------------------------------------------------------------------------
(* epoll_wait delivers the fds `ready`, hung up those of `hup`. *)

Armable == {fd \in Fd : reg[fd] # Null /\ reg[fd].armed}

WaitDelivers(ready, hup, l) ==
    /\ batch' = l \cup {[ptr |-> reg[fd].ptr, hup |-> fd \in hup,
                         gid |-> sock_gid[reg[fd].ptr]] : fd \in ready}
    /\ reg' = [fd \in Fd |-> IF fd \in ready THEN [reg[fd] EXCEPT !.armed = FALSE] ELSE reg[fd]]

(* ONESHOT clears one field of an entry. *)
LEMMA Disarmed ==
    ASSUME NEW r \in [ptr : Socket, out : BOOLEAN, armed : BOOLEAN]
    PROVE  /\ [r EXCEPT !.armed = FALSE] \in [ptr : Socket, out : BOOLEAN, armed : BOOLEAN]
           /\ [r EXCEPT !.armed = FALSE].ptr = r.ptr
           /\ [r EXCEPT !.armed = FALSE].out = r.out
           /\ ~ [r EXCEPT !.armed = FALSE].armed
  OBVIOUS

(* epoll_wait delivers a batch of armed descriptors. *)
LEMMA WaitBatch ==
    ASSUME Wait
    PROVE  \E ready \in SUBSET Armable, hup \in SUBSET Fd, l \in SUBSET {Listener} :
              WaitDelivers(ready, hup, l)
  <1>1. PICK ready \in SUBSET Armable :
           \E hup \in SUBSET ready, l \in SUBSET {Listener} : WaitDelivers(ready, hup, l)
    BY DEF Wait, Armable, WaitDelivers
  <1>2. ready \subseteq Fd
    BY DEF Armable
  <1>3. QED  BY <1>1, <1>2

-----------------------------------------------------------------------------
(* A round of the accept loop opens a socket, and either refuses it or     *)
(* maps it.                                                                *)

AcceptOpens(s, fd, g) ==
    /\ mpc = "accept" /\ accept_idx' \in 0 .. AcceptPerTick
    /\ free_socket' = free_socket \ {s}
    /\ m_sockfd' = [m_sockfd EXCEPT ![s] = fd]
    /\ sock_gid' = [sock_gid EXCEPT ![s] = g]
    /\ gid_seq' \in 0 .. MaxSeq
    /\ UNCHANGED <<epollVars, ssl_accepted, players, shard_lock, removed_socket, batch, mev,
                   sec, queue, workVars>>

AcceptRefuses(s) ==
    /\ wait_remove' = Append(wait_remove, s) /\ mpc' \in {"accept", "events"}
    /\ UNCHANGED <<close_flag, connected, wating>> \/ \E c \in free_conn : reuse(c)
    /\ UNCHANGED <<gid2pair, free_conn, mgid>>

AcceptMaps(s, c, g) ==
    /\ ShardFree(g) /\ ~ Mapped(g) /\ reuse(c)
    /\ gid2pair' = [gid2pair EXCEPT ![g] = <<s, c>>]
    /\ free_conn' = free_conn \ {c}
    /\ mgid' = g
    /\ mpc' = IF UseSSL THEN "first" ELSE "new"
    /\ UNCHANGED wait_remove

(* An accept takes a socket, a descriptor and a gid, and maps them or gives up. *)
LEMMA AcceptRound ==
    ASSUME TypeOK, Accept
    PROVE  \E s \in free_socket, fd \in FreeFd, g \in Gid :
              /\ AcceptOpens(s, fd, g)
              /\ AcceptRefuses(s) \/ \E c \in free_conn : AcceptMaps(s, c, g)
  <1> DEFINE fd == CHOOSE x \in FreeFd : \A y \in FreeFd : x <= y
             g == GidOf(sec, gid_seq + 1)
  <1>1. fd \in FreeFd
    BY LowestFd DEF Accept
  <1>2. /\ gid_seq + 1 \in 1 .. MaxSeq /\ gid_seq + 1 \in 0 .. MaxSeq
        /\ accept_idx + 1 \in 0 .. AcceptPerTick /\ 0 \in 0 .. AcceptPerTick
    BY SizeAssumption DEF TypeOK, Accept, MoreRounds
  <1>3. g \in Gid
    BY <1>2 DEF TypeOK, Gid
  <1> HIDE DEF fd, g
  <1>4. PICK s \in free_socket, ssl_err \in {FALSE, UseSSL} :
           /\ AcceptOpens(s, fd, g)
           /\ AcceptRefuses(s) \/ \E c \in free_conn : AcceptMaps(s, c, g)
    BY <1>2 DEF Accept, AcceptOpens, AcceptRefuses, AcceptMaps, fd, g
  <1>5. QED  BY <1>1, <1>3, <1>4

-----------------------------------------------------------------------------
(* Types: one step per action. *)

(* The main thread's steps keep the types. *)
LEMMA MainTypes ==
    ASSUME Inv, MainStep
    PROVE  TypeOK'
  <1> USE DEF Inv, TypeOK, MainAt
  <1>1. CASE Wait
    <2>1. PICK ready \in SUBSET Armable, hup \in SUBSET Fd, l \in SUBSET {Listener} :
             WaitDelivers(ready, hup, l)
      BY <1>1, WaitBatch
    <2>2. ASSUME NEW fd \in ready
          PROVE  [ptr |-> reg[fd].ptr, hup |-> fd \in hup, gid |-> sock_gid[reg[fd].ptr]] \in Event
      BY <2>2, WatchedSocket DEF Event, Armable
    <2>3. batch' \subseteq Event \cup {Listener}
      BY <2>1, <2>2 DEF WaitDelivers
    <2>4. ASSUME NEW fd \in ready
          PROVE  [reg[fd] EXCEPT !.armed = FALSE] \in [ptr : Socket, out : BOOLEAN, armed : BOOLEAN]
      BY Disarmed DEF Armable
    <2>5. reg' \in [Fd -> [ptr : Socket, out : BOOLEAN, armed : BOOLEAN] \cup {Null}]
      BY <2>1, <2>4 DEF WaitDelivers
    <2>6. QED  BY <1>1, <2>3, <2>5 DEF Wait
  <1>2. CASE Update
    <2>1. ToSet(wait_remove) \subseteq Socket
      BY Elements
    <2>2. wait_remove' \in Seq(Socket)
      BY <1>2, EmptySeq DEF Update
    <2>3. /\ reg' \in [Fd -> [ptr : Socket, out : BOOLEAN, armed : BOOLEAN] \cup {Null}]
          /\ m_map_fd_envets' \in [Fd -> {"0", "IN", "INOUT"}]
      BY <1>2 DEF Update
    <2>4. /\ m_sockfd' \in [Socket -> Fd \cup {0}] /\ sock_gid' \in [Socket -> Gid \cup {0}]
          /\ free_socket' \subseteq Socket /\ removed_socket' \subseteq Socket
      BY <1>2, <2>1 DEF Update
    <2>5. ssl_accepted' \in [Socket -> BOOLEAN]
      BY <1>2, Zenon DEF Update
    <2>6. sec' \in Seconds /\ gid_seq' \in 0 .. MaxSeq /\ mpc' \in MainAt
      BY <1>2, SizeAssumption DEF Update
    <2>7. QED  BY <1>2, <2>2, <2>3, <2>4, <2>5, <2>6 DEF Update
  <1>3. CASE NextEvent
    BY ZenonT(30), <1>3 DEF NextEvent, detach
  <1>4. CASE Act
    <2>1. sock_gid[mev.ptr] \in Gid
      BY <1>4, EventSocket DEF Act, EventInv
    <2>2. queue' \in [Worker -> Seq(Gid)]
      BY <1>4, <2>1, DoTaskQueues DEF Act
    <2>3. QED  BY <1>4, <2>2 DEF Act
  <1>5. CASE ActHup
    <2>1. sock_gid[mev.ptr] \in Gid
      BY <1>5, EventSocket DEF ActHup, EventInv
    <2>2. QED  BY <1>5, <2>1 DEF ActHup
  <1>6. CASE MainSetsClose
    BY <1>6 DEF MainSetsClose
  <1>7. CASE MainClosed
    <2>1. queue' \in [Worker -> Seq(Gid)]
      BY <1>7, DoTaskQueues DEF MainClosed, MainInv
    <2>2. QED  BY <1>7, <2>1 DEF MainClosed
  <1>8. CASE AcceptNone
    BY <1>8, SizeAssumption DEF AcceptNone
  <1>9. CASE Accept
    <2>1. PICK s \in free_socket, fd \in FreeFd, g \in Gid :
             /\ AcceptOpens(s, fd, g)
             /\ AcceptRefuses(s) \/ \E c \in free_conn : AcceptMaps(s, c, g)
      BY <1>9, AcceptRound
    <2>2. /\ free_socket' \subseteq Socket /\ m_sockfd' \in [Socket -> Fd \cup {0}]
          /\ sock_gid' \in [Socket -> Gid \cup {0}]
      BY <2>1 DEF AcceptOpens, FreeFd
    <2>3. CASE AcceptRefuses(s)
      <3>1. wait_remove' \in Seq(Socket)
        BY <2>3, AppendElements DEF AcceptRefuses
      <3>2. /\ close_flag' \in [Conn -> BOOLEAN] /\ connected' \in [Conn -> BOOLEAN]
            /\ wating' \in [Conn -> BOOLEAN]
        BY <2>3 DEF AcceptRefuses, reuse
      <3>3. QED  BY <2>1, <2>2, <2>3, <3>1, <3>2 DEF AcceptOpens, AcceptRefuses
    <2>4. ASSUME NEW c \in free_conn, AcceptMaps(s, c, g)  PROVE TypeOK'
      BY <2>1, <2>2, <2>4 DEF AcceptOpens, AcceptMaps, reuse
    <2>5. QED  BY <2>1, <2>3, <2>4
  <1>10. CASE AcceptHook
    BY <1>10 DEF AcceptHook, MainInv
  <1>11. CASE AcceptTask
    <2>1. queue' \in [Worker -> Seq(Gid)]
      BY <1>11, DoTaskQueues DEF AcceptTask, MainInv
    <2>2. QED  BY <1>11, <2>1 DEF AcceptTask
  <1>12. QED
    BY <1>1, <1>2, <1>3, <1>4, <1>5, <1>6, <1>7, <1>8, <1>9, <1>10, <1>11 DEF MainStep

(* attach keeps the types of epoll's tables. *)
LEMMA AttachTypes ==
    ASSUME TypeOK, NEW s \in Socket, NEW listen_send \in BOOLEAN, attach(s, listen_send)
    PROVE  /\ reg' \in [Fd -> [ptr : Socket, out : BOOLEAN, armed : BOOLEAN] \cup {Null}]
           /\ m_map_fd_envets' \in [Fd -> {"0", "IN", "INOUT"}]
  <1> DEFINE fd == m_sockfd[s]
             e == [ptr |-> s, out |-> listen_send, armed |-> TRUE]
             m == IF listen_send THEN "INOUT" ELSE "IN"
  <1>1. e \in [ptr : Socket, out : BOOLEAN, armed : BOOLEAN] /\ m \in {"0", "IN", "INOUT"}
    OBVIOUS
  <1>2. \/ UNCHANGED epollVars
        \/ reg' = [reg EXCEPT ![fd] = e] /\ m_map_fd_envets' = [m_map_fd_envets EXCEPT ![fd] = m]
    BY DEF attach
  <1> HIDE DEF fd, e, m
  <1>3. m_map_fd_envets' \in [Fd -> {"0", "IN", "INOUT"}]
    BY <1>1, <1>2 DEF TypeOK
  <1>4. reg' \in [Fd -> [ptr : Socket, out : BOOLEAN, armed : BOOLEAN] \cup {Null}]
    BY <1>1, <1>2 DEF TypeOK
  <1>5. QED  BY <1>3, <1>4

(* A worker's steps keep the types. *)
LEMMA WorkerTypes ==
    ASSUME Inv, NEW w \in Worker, WorkerStep(w)
    PROVE  TypeOK'
  <1> USE DEF Inv, TypeOK, WorkerAt, Goto, Return, CallMarkClose
  <1>0. whold[w] # Null => /\ whold[w][1] \in Socket /\ whold[w][2] \in Conn
                           /\ wgid[w] \in Gid /\ m_sockfd[whold[w][1]] \in Fd
    BY Holds
  <1>1. CASE Pop(w)
    BY <1>1, PopTakes DEF Pop
  <1>2. CASE Lookup(w)
    <2>1. wgid[w] \in Gid
      BY <1>2 DEF Lookup, TaskInv
    <2>2. /\ wpc' \in [Worker -> WorkerAt] /\ wgid' \in [Worker -> Gid \cup {0}]
          /\ whold' \in [Worker -> (Socket \X Conn) \cup {Null}]
      <3>1. CASE Mapped(wgid[w])
        <4>1. gid2pair[wgid[w]] \in Socket \X Conn
          BY <2>1, <3>1 DEF Mapped
        <4>2. QED  BY ZenonT(30), <1>2, <3>1, <4>1 DEF Lookup
      <3>2. CASE ~ Mapped(wgid[w])
        BY <1>2, <3>2 DEF Lookup
      <3>3. QED  BY <3>1, <3>2
    <2>3. QED  BY <1>2, <2>2 DEF Lookup
  <1>3. CASE Check(w)
    BY <1>3 DEF Check
  <1>4. CASE RemoveClosed(w)
    <2>1. CASE Mapped(wgid[w])
      <3>1. wgid[w] \in Gid /\ SocketOf(wgid[w]) \in Socket /\ ConnOf(wgid[w]) \in Conn
        BY <1>4, <2>1, MappedPair DEF RemoveClosed, TaskInv
      <3>2. wait_remove' \in Seq(Socket)
        <4>1. wait_remove' = Append(wait_remove, SocketOf(wgid[w]))
          BY <1>4, <2>1 DEF RemoveClosed
        <4>2. QED  BY <3>1, <4>1, AppendElements
      <3>3. QED  BY ZenonT(30), <1>4, <2>1, <3>1, <3>2 DEF RemoveClosed
    <2>2. CASE ~ Mapped(wgid[w])
      BY <1>4, <2>2 DEF RemoveClosed
    <2>3. QED  BY <2>1, <2>2
  <1>5. CASE SslAccepted(w)
    BY <1>5, <1>0 DEF SslAccepted, TaskInv
  <1>6. CASE Rearm(w)
    <2>1. whold[w][1] \in Socket
      BY <1>6, <1>0 DEF Rearm, TaskInv
    <2>2. /\ reg' \in [Fd -> [ptr : Socket, out : BOOLEAN, armed : BOOLEAN] \cup {Null}]
          /\ m_map_fd_envets' \in [Fd -> {"0", "IN", "INOUT"}]
      BY <1>6, <2>1, AttachTypes DEF Rearm
    <2>3. QED  BY <1>6, <2>2 DEF Rearm
  <1>7. CASE GiveUp(w)
    BY <1>7 DEF GiveUp
  <1>8. CASE MarkCheck(w)
    <2>1. shard_lock' \in [Worker -> Worker \cup {Main, NoOne}]
      BY <1>8 DEF MarkCheck, MarkReturns
    <2>2. /\ wpc' \in [Worker -> WorkerAt] /\ wret' \in [Worker -> WorkerAt]
          /\ wgid' \in [Worker -> Gid \cup {0}]
          /\ whold' \in [Worker -> (Socket \X Conn) \cup {Null}]
      <3>1. CASE MarkReturns(w) /\ wret[w] = "idle"
        BY ZenonT(30), <3>1 DEF MarkReturns
      <3>2. CASE MarkReturns(w) /\ wret[w] # "idle"
        BY <3>2 DEF MarkReturns
      <3>3. CASE ~ MarkReturns(w)
        BY <1>8, <3>3 DEF MarkCheck
      <3>4. QED  BY <3>1, <3>2, <3>3
    <2>3. QED  BY <1>8, <2>1, <2>2 DEF MarkCheck
  <1>9. CASE MarkSet(w)
    BY <1>9 DEF MarkSet
  <1>10. CASE MarkTask(w)
    <2>1. queue' \in [Worker -> Seq(Gid)]
      BY <1>10, DoTaskQueues DEF MarkTask, TaskInv
    <2>2. QED  BY ZenonT(30), <1>10, <2>1 DEF MarkTask, MarkReturns
  <1>11. CASE Upgrade(w)
    <2>1. queue' \in [Worker -> Seq(Gid)]
      BY <1>11, DoTaskQueues DEF Upgrade, TaskInv
    <2>2. QED  BY <1>11, <2>1 DEF Upgrade
  <1>12. CASE Recv(w)
    <2>1. queue' \in [Worker -> Seq(Gid)]
      BY <1>12, DoTaskQueues DEF Recv, TaskInv
    <2>2. QED  BY <1>12, <2>1 DEF Recv
  <1>13. CASE SendTask(w)
    <2>1. queue' \in [Worker -> Seq(Gid)]
      BY <1>13, DoTaskQueues DEF SendTask, TaskInv
    <2>2. QED  BY <1>13, <2>1 DEF SendTask
  <1>14. CASE Processed(w)
    <2>1. wpc' \in [Worker -> WorkerAt] /\ wret' \in [Worker -> WorkerAt]
      <3>1. ASSUME NEW then \in {"idle", "send"}, CallMarkClose(w, then)
            PROVE  wpc' \in [Worker -> WorkerAt] /\ wret' \in [Worker -> WorkerAt]
        BY <3>1
      <3>2. CASE Goto(w, "send") /\ UNCHANGED wret
        BY <3>2
      <3>3. QED  BY <1>14, <3>1, <3>2 DEF Processed
    <2>2. QED  BY <1>14, <2>1 DEF Processed
  <1>15. CASE Buf2sock(w)
    <2>1. wpc' \in [Worker -> WorkerAt] /\ wret' \in [Worker -> WorkerAt]
      BY <1>15 DEF Buf2sock
    <2>2. wating' \in [Conn -> BOOLEAN]
      BY <1>15 DEF Buf2sock
    <2>3. wout' \in [Worker -> BOOLEAN]
      BY <1>15 DEF Buf2sock
    <2>4. QED  BY <1>15, <2>1, <2>2, <2>3 DEF Buf2sock
  <1>16. CASE Attach(w)
    <2>1. whold[w][1] \in Socket /\ wout[w] \in BOOLEAN
      BY <1>16, <1>0 DEF Attach, TaskInv
    <2>2. /\ reg' \in [Fd -> [ptr : Socket, out : BOOLEAN, armed : BOOLEAN] \cup {Null}]
          /\ m_map_fd_envets' \in [Fd -> {"0", "IN", "INOUT"}]
      BY <1>16, <2>1, AttachTypes DEF Attach
    <2>3. QED  BY <1>16, <2>2 DEF Attach
  <1>17. QED
    BY <1>1, <1>2, <1>3, <1>4, <1>5, <1>6, <1>7, <1>8, <1>9, <1>10, <1>11, <1>12, <1>13, <1>14,
       <1>15, <1>16 DEF WorkerStep

(* Every step keeps the types. *)
LEMMA TypeStep ==
    ASSUME Inv, [Next]_vars
    PROVE  TypeOK'
  <1>1. ASSUME NEW w \in Worker, NEW g \in Gid, Send(w, g)  PROVE TypeOK'
    BY <1>1 DEF Inv, TypeOK, Send, Goto, WorkerAt
  <1>2. CASE UNCHANGED vars
    BY <1>2 DEF Inv, TypeOK
  <1>3. QED  BY <1>1, <1>2, MainTypes, WorkerTypes DEF Next

-----------------------------------------------------------------------------
(* The pools, the mapping and the removal list. *)

(* A socket has a descriptor and a gid exactly while it is in use. *)
LEMMA SocketStep ==
    ASSUME Inv, [Next]_vars
    PROVE  SocketInv'
  <1> USE DEF Inv
  <1>1. CASE Update
    <2>1. ToSet(wait_remove) \subseteq Socket
      BY Elements DEF TypeOK
    <2>2. \A s \in Socket :
             /\ s \in free_socket' <=> s \in free_socket \/ s \in ToSet(wait_remove)
             /\ m_sockfd'[s] = IF s \in ToSet(wait_remove) THEN 0 ELSE m_sockfd[s]
             /\ sock_gid'[s] = IF s \in ToSet(wait_remove) THEN 0 ELSE sock_gid[s]
             /\ ssl_accepted'[s] => s \notin ToSet(wait_remove) /\ ssl_accepted[s]
      BY <1>1 DEF Update
    <2>3. QED  BY <2>2 DEF SocketInv
  <1>2. CASE Accept
    <2>1. PICK s \in free_socket, fd \in FreeFd, g \in Gid : AcceptOpens(s, fd, g)
      BY <1>2, AcceptRound
    <2>2. fd \in Fd /\ fd # 0 /\ g # 0 /\ \A t \in Socket : m_sockfd[t] # fd
      BY Constants DEF FreeFd
    <2>3. QED  BY <2>1, <2>2 DEF AcceptOpens, SocketInv, TypeOK
  <1>3. ASSUME NEW w \in Worker, SslAccepted(w)  PROVE SocketInv'
    <2>1. whold[w] # Null
      BY <1>3 DEF SslAccepted, TaskInv
    <2>2. whold[w][1] \in Socket \ free_socket
      BY <2>1, Holds
    <2>3. QED  BY <1>3, <2>2 DEF SslAccepted, SocketInv, TypeOK
  <1>4. CASE UNCHANGED <<socketVars, ssl_accepted>>
    BY <1>4 DEF SocketInv
  <1>5. QED  BY <1>1, <1>2, <1>3, <1>4, SocketWriters

(* What remove does to the mapping. *)
LEMMA Removes ==
    ASSUME Inv, NEW w \in Worker, RemoveClosed(w)
    PROVE  /\ wgid[w] \in Gid /\ WorkerOf(wgid[w]) = w
           /\ Mapped(wgid[w]) /\ ShardFree(wgid[w])
           /\ gid2pair' = [gid2pair EXCEPT ![wgid[w]] = Null]
           /\ players' = players \ {wgid[w]}
           /\ free_conn' = free_conn \cup {ConnOf(wgid[w])}
           /\ wait_remove' = Append(wait_remove, SocketOf(wgid[w]))
           /\ UNCHANGED <<epollVars, mainOnly, ssl_accepted, close_flag, connected, wating,
                          shard_lock, queue, wret, wout, wto>>
           /\ wpc' = [wpc EXCEPT ![w] = "idle"]
           /\ wgid' = [wgid EXCEPT ![w] = 0]
           /\ whold' = [whold EXCEPT ![w] = Null]
  <1>1. whold[w] # Null
    BY DEF RemoveClosed, Inv, TaskInv
  <1>2. wgid[w] \in Gid /\ Mapped(wgid[w]) /\ WorkerOf(wgid[w]) = w
    BY <1>1, Holds DEF Inv
  <1>3. QED  BY <1>2 DEF RemoveClosed, Return, Goto

(* remove unmaps one gid. *)
LEMMA MappedAfterRemove ==
    ASSUME Inv, NEW w \in Worker, RemoveClosed(w), NEW g \in Gid
    PROVE  /\ Mapped(g)' <=> Mapped(g) /\ g # wgid[w]
           /\ g # wgid[w] => gid2pair'[g] = gid2pair[g]
           /\ g # wgid[w] => SocketOf(g)' = SocketOf(g) /\ ConnOf(g)' = ConnOf(g)
  BY Removes DEF Inv, TypeOK, Mapped, SocketOf, ConnOf

(* insert maps one gid. *)
LEMMA MappedAfterAccept ==
    ASSUME Inv, NEW s \in free_socket, NEW c \in free_conn, NEW h \in Gid, AcceptMaps(s, c, h), NEW g \in Gid
    PROVE  /\ Mapped(g)' <=> Mapped(g) \/ g = h
           /\ g # h => gid2pair'[g] = gid2pair[g] /\ SocketOf(g)' = SocketOf(g) /\ ConnOf(g)' = ConnOf(g)
           /\ g = h => SocketOf(g)' = s /\ ConnOf(g)' = c
  <1>1. <<s, c>> # Null
    BY NullAssumption DEF Inv, TypeOK
  <1>2. QED  BY <1>1 DEF AcceptMaps, Inv, TypeOK, Mapped, SocketOf, ConnOf

(* A socket that is mapped, or listed, is not touched by accept. *)
LEMMA PairStep ==
    ASSUME Inv, [Next]_vars
    PROVE  PairInv'
  <1> USE DEF Inv
  <1>1. CASE Accept
    <2>1. PICK s \in free_socket, fd \in FreeFd, h \in Gid :
             /\ AcceptOpens(s, fd, h)
             /\ AcceptRefuses(s) \/ \E c \in free_conn : AcceptMaps(s, c, h)
      BY <1>1, AcceptRound
    <2>2. \A g \in Gid : Mapped(g) => sock_gid'[SocketOf(g)] = g
      BY <2>1, MappedPair DEF AcceptOpens, TypeOK
    <2>3. sock_gid'[s] = h
      BY <2>1 DEF AcceptOpens, TypeOK
    <2>4. CASE AcceptRefuses(s)
      <3>1. UNCHANGED <<gid2pair, free_conn>>
        BY <2>4 DEF AcceptRefuses
      <3>2. QED  BY <2>2, <3>1 DEF PairInv, Mapped, SocketOf, ConnOf
    <2>5. ASSUME NEW c \in free_conn, AcceptMaps(s, c, h)  PROVE PairInv'
      <3>1. free_conn' = free_conn \ {c}
        BY <2>5 DEF AcceptMaps
      <3>2. \A g \in Gid : Mapped(g) => ConnOf(g) # c
        BY DEF PairInv
      <3>3. SUFFICES ASSUME NEW g \in Gid, Mapped(g)'
                     PROVE  /\ sock_gid'[SocketOf(g)'] = g
                            /\ ConnOf(g)' \notin free_conn'
                            /\ \A k \in Gid : Mapped(k)' /\ ConnOf(k)' = ConnOf(g)' => k = g
        BY DEF PairInv
      <3>4. sock_gid'[SocketOf(g)'] = g
        BY <2>2, <2>3, <2>5, <3>3, MappedAfterAccept
      <3>5. ConnOf(g)' \notin free_conn'
        BY <2>5, <3>1, <3>3, MappedAfterAccept DEF PairInv
      <3>6. ASSUME NEW k \in Gid, Mapped(k)', ConnOf(k)' = ConnOf(g)'  PROVE k = g
        BY <2>5, <3>2, <3>3, <3>6, MappedAfterAccept DEF PairInv
      <3>7. QED  BY <3>4, <3>5, <3>6
    <2>6. QED  BY <2>1, <2>4, <2>5
  <1>2. ASSUME NEW w \in Worker, RemoveClosed(w)  PROVE PairInv'
    <2>1. UNCHANGED sock_gid /\ wgid[w] \in Gid /\ Mapped(wgid[w])
             /\ free_conn' = free_conn \cup {ConnOf(wgid[w])}
      BY <1>2, Removes
    <2>2. SUFFICES ASSUME NEW g \in Gid, Mapped(g)'
                   PROVE  /\ sock_gid'[SocketOf(g)'] = g
                          /\ ConnOf(g)' \notin free_conn'
                          /\ \A k \in Gid : Mapped(k)' /\ ConnOf(k)' = ConnOf(g)' => k = g
      BY DEF PairInv
    <2>3. Mapped(g) /\ g # wgid[w] /\ SocketOf(g)' = SocketOf(g) /\ ConnOf(g)' = ConnOf(g)
      BY <1>2, <2>2, MappedAfterRemove
    <2>4. sock_gid'[SocketOf(g)'] = g /\ ConnOf(g)' \notin free_conn'
      BY <2>1, <2>3 DEF PairInv
    <2>5. ASSUME NEW k \in Gid, Mapped(k)', ConnOf(k)' = ConnOf(g)'  PROVE k = g
      <3>1. Mapped(k) /\ ConnOf(k)' = ConnOf(k)
        BY <1>2, <2>5, MappedAfterRemove
      <3>2. QED  BY <2>3, <2>5, <3>1 DEF PairInv
    <2>6. QED  BY <2>4, <2>5
  <1>3. CASE UNCHANGED <<gid2pair, free_conn>> /\ ~ Accept
    <2>1. \A g \in Gid : Mapped(g) => sock_gid'[SocketOf(g)] = sock_gid[SocketOf(g)]
      <3>1. CASE Update
        <4>1. ToSet(wait_remove) = {wait_remove[i] : i \in 1 .. Len(wait_remove)}
          BY Elements DEF TypeOK
        <4>2. \A g \in Gid : Mapped(g) => SocketOf(g) \notin ToSet(wait_remove)
          BY <4>1 DEF ListInv
        <4>3. QED  BY <3>1, <4>2, MappedPair DEF Update
      <3>2. CASE UNCHANGED sock_gid
        BY <3>2
      <3>3. QED  BY <1>3, <3>1, <3>2, SocketWriters DEF SslAccepted
    <2>2. QED  BY <1>3, <2>1 DEF PairInv, Mapped, SocketOf, ConnOf
  <1>4. QED  BY <1>1, <1>2, <1>3, MapWriters

(* The list grows by the socket of a mapping that is removed, or by one    *)
(* that accept has just opened.                                            *)
LEMMA Listed ==
    ASSUME NEW s \in Socket, wait_remove \in Seq(Socket), wait_remove' = Append(wait_remove, s)
    PROVE  /\ Len(wait_remove) \in Nat /\ Len(wait_remove') = Len(wait_remove) + 1
           /\ \A i \in 1 .. Len(wait_remove) : wait_remove'[i] = wait_remove[i]
           /\ wait_remove'[Len(wait_remove) + 1] = s
           /\ \A i \in 1 .. Len(wait_remove') : i \in 1 .. Len(wait_remove) \/ i = Len(wait_remove) + 1
  <1>1. /\ Len(wait_remove) \in Nat /\ Len(wait_remove') = Len(wait_remove) + 1
        /\ \A i \in 1 .. Len(wait_remove) : wait_remove'[i] = wait_remove[i]
        /\ wait_remove'[Len(wait_remove) + 1] = s
    BY AppendProperties
  <1>2. QED  BY <1>1

(* A socket is listed for removal after its mapping is gone. *)
LEMMA ListGrows ==
    ASSUME ListInv, wait_remove \in Seq(Socket), NEW s \in Socket, wait_remove' = Append(wait_remove, s),
           free_socket' \subseteq free_socket, s \notin free_socket',
           \A i \in 1 .. Len(wait_remove) : wait_remove[i] # s,
           \A g \in Gid : Mapped(g)' => Mapped(g) /\ SocketOf(g)' = SocketOf(g) /\ SocketOf(g) # s
    PROVE  ListInv'
  <1> DEFINE n == Len(wait_remove)
             old == wait_remove
             new == wait_remove'
  <1>1. /\ n \in Nat /\ Len(new) = n + 1
        /\ \A i \in 1 .. n : new[i] = old[i]
        /\ new[n + 1] = s
        /\ \A i \in 1 .. Len(new) : i \in 1 .. n \/ i = n + 1
    BY Listed
  <1>2. \A i \in 1 .. n : /\ old[i] \notin free_socket /\ old[i] # s
                         /\ \A j \in 1 .. n : old[j] = old[i] => j = i
                         /\ \A g \in Gid : Mapped(g) => SocketOf(g) # old[i]
    BY DEF ListInv
  <1> HIDE DEF n, old, new
  <1>3. ASSUME NEW i \in 1 .. Len(new)
        PROVE  /\ new[i] \notin free_socket'
               /\ \A g \in Gid : Mapped(g)' => SocketOf(g)' # new[i]
    <2>1. CASE i \in 1 .. n
      BY <1>1, <1>2, <2>1
    <2>2. CASE i = n + 1
      BY <1>1, <2>2
    <2>3. QED  BY <1>1, <2>1, <2>2
  <1>4. ASSUME NEW i \in 1 .. Len(new), NEW j \in 1 .. Len(new), new[j] = new[i]
        PROVE  j = i
    <2>1. (i \in 1 .. n \/ i = n + 1) /\ (j \in 1 .. n \/ j = n + 1)
      BY <1>1
    <2>2. CASE i \in 1 .. n /\ j \in 1 .. n
      BY <1>1, <1>2, <1>4, <2>2
    <2>3. CASE i = n + 1 /\ j \in 1 .. n
      BY <1>1, <1>2, <1>4, <2>3
    <2>4. CASE i \in 1 .. n /\ j = n + 1
      BY <1>1, <1>2, <1>4, <2>4
    <2>5. QED  BY <2>1, <2>2, <2>3, <2>4
  <1>5. QED  BY <1>3, <1>4 DEF ListInv, new

(* No socket is listed twice. *)
LEMMA ListStep ==
    ASSUME Inv, [Next]_vars
    PROVE  ListInv'
  <1> USE DEF Inv
  <1> DEFINE n == Len(wait_remove)
  <1>0. n \in Nat /\ \A i \in 1 .. n : wait_remove[i] \in Socket
    BY DEF TypeOK
  <1>1. CASE Update
    BY <1>1, EmptySeq DEF Update, ListInv
  <1>2. CASE Accept
    <2>1. PICK s \in free_socket, fd \in FreeFd, h \in Gid :
             /\ AcceptOpens(s, fd, h)
             /\ AcceptRefuses(s) \/ \E c \in free_conn : AcceptMaps(s, c, h)
      BY <1>2, AcceptRound
    <2>2. s \in Socket /\ free_socket' = free_socket \ {s}
      BY <2>1 DEF AcceptOpens, TypeOK
    <2>3. \A g \in Gid : Mapped(g) => SocketOf(g) # s
      BY MappedPair
    <2>4. \A i \in 1 .. n : wait_remove[i] # s
      BY DEF ListInv
    <2>5. CASE AcceptRefuses(s)
      <3>1. /\ wait_remove' = Append(wait_remove, s)
            /\ \A g \in Gid : Mapped(g)' => Mapped(g) /\ SocketOf(g)' = SocketOf(g)
        BY <2>5 DEF AcceptRefuses, Mapped, SocketOf
      <3>2. ListInv /\ wait_remove \in Seq(Socket)
        BY DEF TypeOK
      <3>3. QED  BY <2>2, <2>3, <2>4, <3>1, <3>2, ListGrows
    <2>6. ASSUME NEW c \in free_conn, AcceptMaps(s, c, h)  PROVE ListInv'
      <3>1. UNCHANGED wait_remove
        BY <2>6 DEF AcceptMaps
      <3>2. \A g \in Gid : Mapped(g)' => (Mapped(g) /\ SocketOf(g)' = SocketOf(g)) \/ SocketOf(g)' = s
        BY <2>6, MappedAfterAccept
      <3>3. QED  BY <2>2, <2>4, <3>1, <3>2 DEF ListInv
    <2>7. QED  BY <2>1, <2>5, <2>6
  <1>3. ASSUME NEW w \in Worker, RemoveClosed(w)  PROVE ListInv'
    <2> DEFINE s == SocketOf(wgid[w])
    <2>1. /\ wgid[w] \in Gid /\ Mapped(wgid[w]) /\ UNCHANGED free_socket
          /\ wait_remove' = Append(wait_remove, s)
      BY <1>3, Removes
    <2>2. s \in Socket \ free_socket
      BY <2>1, MappedPair
    <2>3. \A i \in 1 .. n : wait_remove[i] # s
      BY <2>1 DEF ListInv
    <2>4. \A g \in Gid : Mapped(g)' => Mapped(g) /\ SocketOf(g)' = SocketOf(g) /\ SocketOf(g) # s
      <3>1. \A g \in Gid : Mapped(g) /\ g # wgid[w] => SocketOf(g) # s
        BY <2>1 DEF PairInv
      <3>2. QED  BY <1>3, <3>1, MappedAfterRemove
    <2> HIDE DEF s
    <2>5. ListInv /\ wait_remove \in Seq(Socket)
      BY DEF TypeOK
    <2>6. QED  BY <2>1, <2>2, <2>3, <2>4, <2>5, ListGrows
  <1>4. CASE UNCHANGED wait_remove /\ UNCHANGED <<gid2pair, free_socket>>
    BY <1>4 DEF ListInv, Mapped, SocketOf
  <1>5. QED  BY <1>1, <1>2, <1>3, <1>4, ListWriters, MapWriters, SocketWriters DEF SslAccepted

(* No object is lost. *)
LEMMA KeptStep ==
    ASSUME Inv, [Next]_vars
    PROVE  SocketKept' /\ ConnKept'
  <1> USE DEF Inv
  <1> DEFINE n == Len(wait_remove)
  <1>1. CASE Update
    <2>1. ToSet(wait_remove) = {wait_remove[i] : i \in 1 .. n}
      BY Elements DEF TypeOK
    <2>2. free_socket' = free_socket \cup ToSet(wait_remove) /\ UNCHANGED <<gid2pair, free_conn>>
      BY <1>1 DEF Update
    <2>3. QED  BY <2>1, <2>2 DEF SocketKept, ConnKept, Mapped, SocketOf, ConnOf
  <1>2. CASE Accept
    <2>1. PICK s \in free_socket, fd \in FreeFd, h \in Gid :
             /\ AcceptOpens(s, fd, h)
             /\ AcceptRefuses(s) \/ \E c \in free_conn : AcceptMaps(s, c, h)
      BY <1>2, AcceptRound
    <2>2. s \in Socket /\ free_socket' = free_socket \ {s}
      BY <2>1 DEF AcceptOpens, TypeOK
    <2>3. CASE AcceptRefuses(s)
      <3>1. wait_remove' = Append(wait_remove, s) /\ UNCHANGED <<gid2pair, free_conn>>
        BY <2>3 DEF AcceptRefuses
      <3>2. ConnKept'
        BY <3>1 DEF ConnKept, Mapped, ConnOf
      <3>3. /\ n + 1 \in 1 .. Len(wait_remove') /\ wait_remove'[n + 1] = s
            /\ \A i \in 1 .. n : i \in 1 .. Len(wait_remove') /\ wait_remove'[i] = wait_remove[i]
        BY <2>2, <3>1, Listed DEF TypeOK
      <3> HIDE DEF n
      <3>4. SocketKept'
        BY <2>2, <3>1, <3>3 DEF SocketKept, Mapped, SocketOf, n
      <3>5. QED  BY <3>2, <3>4
    <2>4. ASSUME NEW c \in free_conn, AcceptMaps(s, c, h)  PROVE SocketKept' /\ ConnKept'
      <3>1. UNCHANGED wait_remove /\ free_conn' = free_conn \ {c} /\ ~ Mapped(h)
        BY <2>4 DEF AcceptMaps
      <3>2. Mapped(h)' /\ SocketOf(h)' = s /\ ConnOf(h)' = c
        BY <2>4, MappedAfterAccept
      <3>3. \A g \in Gid : Mapped(g) => Mapped(g)' /\ SocketOf(g)' = SocketOf(g) /\ ConnOf(g)' = ConnOf(g)
        BY <2>4, <3>1, MappedAfterAccept
      <3>4. SocketKept'
        BY <2>2, <3>1, <3>2, <3>3 DEF SocketKept
      <3>5. ConnKept'
        BY <3>1, <3>2, <3>3 DEF ConnKept
      <3>6. QED  BY <3>4, <3>5
    <2>5. QED  BY <2>1, <2>3, <2>4
  <1>3. ASSUME NEW w \in Worker, RemoveClosed(w)  PROVE SocketKept' /\ ConnKept'
    <2> DEFINE s == SocketOf(wgid[w])
    <2>1. /\ wgid[w] \in Gid /\ Mapped(wgid[w]) /\ UNCHANGED free_socket
          /\ wait_remove' = Append(wait_remove, s)
          /\ free_conn' = free_conn \cup {ConnOf(wgid[w])}
      BY <1>3, Removes
    <2>2. s \in Socket
      BY <2>1, MappedPair
    <2>3. \A g \in Gid : Mapped(g) =>
             g = wgid[w] \/ (Mapped(g)' /\ SocketOf(g)' = SocketOf(g) /\ ConnOf(g)' = ConnOf(g))
      BY <1>3, MappedAfterRemove
    <2>4. /\ n + 1 \in 1 .. Len(wait_remove') /\ wait_remove'[n + 1] = s
          /\ \A i \in 1 .. n : i \in 1 .. Len(wait_remove') /\ wait_remove'[i] = wait_remove[i]
      BY <2>1, <2>2, Listed DEF TypeOK
    <2> HIDE DEF n
    <2>5. SocketKept'
      BY <2>1, <2>3, <2>4 DEF SocketKept, n
    <2>6. ConnKept'
      BY <2>1, <2>3 DEF ConnKept
    <2>7. QED  BY <2>5, <2>6
  <1>4. CASE UNCHANGED <<wait_remove, gid2pair, free_socket, free_conn>>
    BY <1>4 DEF SocketKept, ConnKept, Mapped, SocketOf, ConnOf
  <1>5. QED  BY <1>1, <1>2, <1>3, <1>4, ListWriters, MapWriters, SocketWriters DEF SslAccepted

-----------------------------------------------------------------------------
(* The queues and the tasks. *)

(* A step queues at most one gid, with do_task, or pops one. *)
LEMMA QueueWriters ==
    ASSUME Inv, [Next]_vars
    PROVE  \/ \E g \in Gid : do_task(g)
           \/ \E w \in Worker : Pop(w)
           \/ UNCHANGED queue
  <1> USE DEF Inv
  <1>1. CASE MainStep
    <2>1. CASE Act
      <3>1. sock_gid[mev.ptr] \in Gid
        BY <2>1, EventSocket DEF Act, EventInv, TypeOK
      <3>2. QED  BY <2>1, <3>1 DEF Act
    <2>2. CASE MainClosed \/ AcceptTask
      BY <2>2 DEF MainClosed, AcceptTask, MainInv
    <2>3. CASE UNCHANGED queue
      BY <2>3
    <2>4. QED
      BY <1>1, <2>1, <2>2, <2>3 DEF MainStep, Wait, Update, NextEvent, ActHup, MainSetsClose, AcceptNone,
         Accept, AcceptHook
  <1>2. ASSUME NEW w \in Worker, WorkerStep(w)
        PROVE  (\E g \in Gid : do_task(g)) \/ Pop(w) \/ UNCHANGED queue
    <2>1. CASE MarkTask(w) \/ Upgrade(w) \/ Recv(w)
      BY <2>1 DEF MarkTask, Upgrade, Recv, TaskInv
    <2>2. CASE SendTask(w)
      BY <2>2 DEF SendTask, TaskInv
    <2>3. CASE UNCHANGED queue
      BY <2>3
    <2>4. QED
      BY <1>2, <2>1, <2>2, <2>3 DEF WorkerStep, Lookup, Check, RemoveClosed, SslAccepted, Rearm, GiveUp,
         MarkCheck, MarkSet, Processed, Buf2sock, Attach
  <1>3. ASSUME NEW w \in Worker, NEW g \in Gid, Send(w, g)  PROVE UNCHANGED queue
    BY <1>3 DEF Send
  <1>4. QED  BY <1>1, <1>2, <1>3 DEF Next

(* What is queued is a gid of its worker. *)
LEMMA QueueStep ==
    ASSUME Inv, [Next]_vars
    PROVE  QueueInv'
  <1> USE DEF Inv
  <1>1. ASSUME NEW g \in Gid, do_task(g)  PROVE QueueInv'
    <2>1. \A w \in Worker : \A h \in ToSet(queue'[w]) :
             h \in ToSet(queue[w]) \/ (h = g /\ w = WorkerOf(g))
      <3>1. queue \in [Worker -> Seq(Gid)]
        BY DEF TypeOK
      <3>2. \A w \in Worker : ToSet(queue'[w]) = IF w = WorkerOf(g) THEN ToSet(queue[w]) \cup {g}
                                                 ELSE ToSet(queue[w])
        BY <1>1, <3>1, DoTaskQueues
      <3>3. QED  BY <3>2
    <2>2. QED  BY <2>1 DEF QueueInv
  <1>2. ASSUME NEW v \in Worker, Pop(v)  PROVE QueueInv'
    <2>1. \A w \in Worker : \A h \in ToSet(queue'[w]) : h \in ToSet(queue[w])
      BY <1>2, PopTakes DEF TypeOK
    <2>2. QED  BY <2>1 DEF QueueInv
  <1>3. CASE UNCHANGED queue
    BY <1>3 DEF QueueInv
  <1>4. QED  BY <1>1, <1>2, <1>3, QueueWriters

(* A worker leaves the locals of the others alone. *)
LEMMA WorkerKeepsOthers ==
    ASSUME TypeOK, NEW w \in Worker, WorkerStep(w) \/ \E g \in Gid : Send(w, g),
           NEW v \in Worker, v # w
    PROVE  /\ wpc'[v] = wpc[v] /\ wgid'[v] = wgid[v] /\ whold'[v] = whold[v]
           /\ wret'[v] = wret[v] /\ wout'[v] = wout[v] /\ wto'[v] = wto[v]
  <1> USE DEF TypeOK, Goto, Return, CallMarkClose
  <1>1. CASE Pop(w) \/ Lookup(w) \/ Check(w) \/ RemoveClosed(w) \/ SslAccepted(w)
    BY <1>1 DEF Pop, Lookup, Check, RemoveClosed, SslAccepted
  <1>2. CASE Rearm(w) \/ GiveUp(w) \/ Attach(w)
    BY <1>2 DEF Rearm, GiveUp, Attach
  <1>3. CASE MarkCheck(w) \/ MarkSet(w) \/ MarkTask(w)
    BY <1>3 DEF MarkCheck, MarkSet, MarkTask, MarkReturns
  <1>4. CASE Upgrade(w) \/ Recv(w) \/ SendTask(w)
    BY <1>4 DEF Upgrade, Recv, SendTask
  <1>5. CASE Processed(w)
    BY <1>5 DEF Processed
  <1>6. CASE Buf2sock(w)
    BY <1>6 DEF Buf2sock
  <1>7. ASSUME NEW g \in Gid, Send(w, g)
        PROVE  /\ wpc'[v] = wpc[v] /\ wgid'[v] = wgid[v] /\ whold'[v] = whold[v]
               /\ wret'[v] = wret[v] /\ wout'[v] = wout[v] /\ wto'[v] = wto[v]
    BY <1>7 DEF Send
  <1>8. QED  BY <1>1, <1>2, <1>3, <1>4, <1>5, <1>6, <1>7 DEF WorkerStep

(* A task's program counter says what it holds. *)
LEMMA TaskStep ==
    ASSUME Inv, [Next]_vars
    PROVE  TaskInv'
  <1> USE DEF Inv
  <1>1. CASE UNCHANGED workVars
    BY <1>1 DEF TaskInv
  <1>2. ASSUME NEW w \in Worker, WorkerStep(w) \/ \E g \in Gid : Send(w, g)  PROVE TaskInv'
    <2>1. \A v \in Worker \ {w} : /\ wpc'[v] = wpc[v] /\ wgid'[v] = wgid[v] /\ whold'[v] = whold[v]
                                  /\ wret'[v] = wret[v] /\ wto'[v] = wto[v]
      BY <1>2, WorkerKeepsOthers
    <2>2. /\ wpc'[w] = "idle" => wgid'[w] = 0
          /\ wpc'[w] # "idle" => wgid'[w] \in Gid /\ WorkerOf(wgid'[w]) = w
          /\ wpc'[w] \in {"idle", "lookup"} <=> whold'[w] = Null
          /\ wpc'[w] = "sending" => wto'[w] \in Gid
          /\ wret'[w] \in {"idle", "send", "attach"}
      <3> USE DEF TypeOK, TaskInv, Goto, Return, CallMarkClose
      <3>1. CASE Pop(w)
        <4>1. Head(queue[w]) \in Gid /\ Head(queue[w]) \in ToSet(queue[w])
          BY <3>1, PopTakes
        <4>2. WorkerOf(Head(queue[w])) = w
          BY <4>1 DEF QueueInv
        <4>3. QED  BY <3>1, <4>1, <4>2 DEF Pop
      <3>2. CASE Lookup(w)
        BY <3>2 DEF Lookup, Mapped
      <3>3. CASE Check(w) \/ SslAccepted(w) \/ MarkSet(w) \/ Upgrade(w) \/ Recv(w) \/ SendTask(w)
        BY ZenonT(30), <3>3 DEF Check, SslAccepted, MarkSet, Upgrade, Recv, SendTask
      <3>4. CASE RemoveClosed(w) \/ Rearm(w) \/ Attach(w)
        BY <3>4 DEF RemoveClosed, Rearm, Attach
      <3>5. CASE GiveUp(w)
        BY <3>5 DEF GiveUp
      <3>6. CASE MarkCheck(w)
        <4>1. CASE close_flag[whold[w][2]]
          <5>1. CASE wret[w] = "idle"
            BY <3>6, <4>1, <5>1 DEF MarkCheck, MarkReturns
          <5>2. CASE wret[w] # "idle"
            BY ZenonT(30), <3>6, <4>1, <5>2 DEF MarkCheck, MarkReturns
          <5>3. QED  BY <5>1, <5>2
        <4>2. CASE ~ close_flag[whold[w][2]]
          BY <3>6, <4>2 DEF MarkCheck
        <4>3. QED  BY <4>1, <4>2
      <3>7. CASE MarkTask(w)
        BY <3>7 DEF MarkTask, MarkReturns
      <3>8. CASE Processed(w)
        BY <3>8 DEF Processed
      <3>9. CASE Buf2sock(w)
        BY <3>9 DEF Buf2sock
      <3>10. ASSUME NEW g \in Gid, Send(w, g)
             PROVE  /\ wpc'[w] = "sending" /\ wto'[w] = g
                    /\ UNCHANGED <<wgid, whold, wret>> /\ wpc[w] = "process"
        BY <3>10 DEF Send
      <3>11. QED  BY <1>2, <3>1, <3>2, <3>3, <3>4, <3>5, <3>6, <3>7, <3>8, <3>9, <3>10 DEF WorkerStep
    <2>3. QED  BY <2>1, <2>2 DEF TaskInv
  <1>3. QED  BY <1>1, <1>2, LocalsOfWorker

(* A task keeps what it holds, drops it, or is at its lookup. *)
LEMMA TaskKeepsHold ==
    ASSUME Inv, NEW w \in Worker, WorkerStep(w) \/ \E g \in Gid : Send(w, g)
    PROVE  \/ whold'[w] = Null
           \/ wgid'[w] = wgid[w] /\ whold'[w] = whold[w] /\ ~ RemoveClosed(w)
           \/ wgid'[w] = wgid[w] /\ whold'[w] = gid2pair[wgid[w]] /\ UNCHANGED gid2pair
  <1> USE DEF Inv, TypeOK, TaskInv, Goto, Return, CallMarkClose
  <1>1. CASE Pop(w)
    BY <1>1 DEF Pop
  <1>2. CASE Lookup(w)
    BY <1>2 DEF Lookup
  <1>3. CASE RemoveClosed(w) \/ Rearm(w) \/ Attach(w)
    BY <1>3 DEF RemoveClosed, Rearm, Attach
  <1>4. CASE MarkCheck(w) \/ MarkTask(w)
    <2>1. whold'[w] = Null \/ UNCHANGED <<wgid, whold>>
      BY <1>4 DEF MarkCheck, MarkTask, MarkReturns
    <2>2. wpc[w] # "remove"
      BY <1>4 DEF MarkCheck, MarkTask
    <2>3. QED  BY <2>1, <2>2 DEF RemoveClosed
  <1>5. CASE wpc[w] # "remove" /\ UNCHANGED <<wgid, whold>>
    BY <1>5 DEF RemoveClosed
  <1>6. ASSUME NEW g \in Gid, Send(w, g)  PROVE wpc[w] # "remove" /\ UNCHANGED <<wgid, whold>>
    BY <1>6 DEF Send
  <1>7. QED
    BY <1>1, <1>2, <1>3, <1>4, <1>5, <1>6
       DEF WorkerStep, Check, SslAccepted, GiveUp, MarkSet, Upgrade, Recv, SendTask, Processed, Buf2sock

(* The gid of a task is mapped and its worker is the only one that removes *)
(* it, so that what the task holds stays mapped.                           *)
LEMMA HoldStep ==
    ASSUME Inv, [Next]_vars
    PROVE  TaskHoldsLive'
  <1> USE DEF Inv
  <1>1. ASSUME NEW v \in Worker, wgid'[v] = wgid[v], whold'[v] = whold[v], whold[v] # Null,
               ~ RemoveClosed(v)
        PROVE  gid2pair'[wgid[v]] = whold[v]
    <2>1. /\ wgid[v] \in Gid /\ WorkerOf(wgid[v]) = v /\ Mapped(wgid[v]) /\ gid2pair[wgid[v]] = whold[v]
      BY <1>1, Holds
    <2>2. CASE Accept
      <3>1. PICK s \in free_socket, fd \in FreeFd, h \in Gid :
               /\ AcceptOpens(s, fd, h)
               /\ AcceptRefuses(s) \/ \E c \in free_conn : AcceptMaps(s, c, h)
        BY <2>2, AcceptRound
      <3>2. CASE AcceptRefuses(s)
        BY <2>1, <3>2 DEF AcceptRefuses
      <3>3. ASSUME NEW c \in free_conn, AcceptMaps(s, c, h)  PROVE gid2pair'[wgid[v]] = whold[v]
        BY <2>1, <3>3, MappedAfterAccept DEF AcceptMaps
      <3>4. QED  BY <3>1, <3>2, <3>3
    <2>3. ASSUME NEW w \in Worker, RemoveClosed(w)  PROVE gid2pair'[wgid[v]] = whold[v]
      <3>1. WorkerOf(wgid[w]) = w
        BY <2>3, Removes
      <3>2. wgid[w] # wgid[v]
        BY <1>1, <2>1, <2>3, <3>1
      <3>3. QED  BY <2>1, <2>3, <3>2, MappedAfterRemove
    <2>4. CASE UNCHANGED gid2pair
      BY <2>1, <2>4
    <2>5. QED  BY <2>2, <2>3, <2>4, MapWriters
  <1>2. CASE UNCHANGED workVars
    <2>1. ASSUME NEW v \in Worker, whold[v] # Null  PROVE ~ RemoveClosed(v)
      BY <1>2, <2>1, Removes, Constants DEF TypeOK
    <2>2. QED  BY <1>1, <1>2, <2>1 DEF TaskHoldsLive
  <1>3. ASSUME NEW w \in Worker, WorkerStep(w) \/ \E g \in Gid : Send(w, g)  PROVE TaskHoldsLive'
    <2>1. ASSUME NEW v \in Worker, v # w  PROVE whold'[v] # Null => gid2pair'[wgid'[v]] = whold'[v]
      <3>1. wgid'[v] = wgid[v] /\ whold'[v] = whold[v] /\ wpc'[v] = wpc[v]
        BY <1>3, <2>1, WorkerKeepsOthers
      <3>2. whold[v] # Null => ~ RemoveClosed(v)
        BY <3>1, Removes DEF TypeOK
      <3>3. QED  BY <1>1, <3>1, <3>2
    <2>2. whold'[w] # Null => gid2pair'[wgid'[w]] = whold'[w]
      BY <1>1, <1>3, TaskKeepsHold
    <2>3. QED  BY <2>1, <2>2 DEF TaskHoldsLive
  <1>4. QED  BY <1>2, <1>3, LocalsOfWorker

-----------------------------------------------------------------------------
(* The main loop. *)

(* A worker takes a shard's mutex only if it is free, and gives back only  *)
(* its own.                                                                *)
LEMMA LockKept ==
    ASSUME Inv, NEW w \in Worker, WorkerStep(w) \/ \E g \in Gid : Send(w, g),
           NEW i \in Worker, shard_lock[i] = Main
    PROVE  shard_lock'[i] = Main
  <1> USE DEF Inv, TypeOK
  <1>0. Main # w /\ Main # NoOne
    BY Constants
  <1>1. CASE MarkCheck(w) \/ MarkTask(w)
    BY <1>0, <1>1 DEF MarkCheck, MarkTask, MarkReturns
  <1>2. CASE SendTask(w)
    BY <1>0, <1>2 DEF SendTask
  <1>3. CASE GiveUp(w)
    <2>1. wgid[w] \in Gid /\ WorkerOf(wgid[w]) \in Worker
      BY <1>3, WorkerOfGid DEF GiveUp, TaskInv
    <2>2. QED  BY <1>0, <1>3, <2>1 DEF GiveUp, ShardFree
  <1>4. ASSUME NEW g \in Gid, Send(w, g)  PROVE shard_lock'[i] = Main
    <2>1. WorkerOf(g) \in Worker
      BY WorkerOfGid
    <2>2. QED  BY <1>0, <1>4, <2>1 DEF Send, ShardFree
  <1>5. CASE UNCHANGED shard_lock
    BY <1>5
  <1>6. QED
    BY <1>1, <1>2, <1>3, <1>4, <1>5
       DEF WorkerStep, Pop, Lookup, Check, RemoveClosed, SslAccepted, Rearm, MarkSet, Upgrade, Recv,
           Processed, Buf2sock, Attach

(* mark_close in the main thread holds its connection's shard, and remove  *)
(* waits for it.                                                           *)
LEMMA MainInvStep ==
    ASSUME Inv, [Next]_vars
    PROVE  MainInv'
  <1> USE DEF Inv
  <1>1. ASSUME NEW w \in Worker, WorkerStep(w) \/ \E g \in Gid : Send(w, g)  PROVE MainInv'
    <2>1. UNCHANGED <<mpc, mgid, batch>>
      BY <1>1, LocalsOfMain
    <2>2. ASSUME mpc \in {"mc_set", "mc_task"}
          PROVE  Mapped(mgid)' /\ shard_lock'[WorkerOf(mgid)] = Main
      <3>1. mgid \in Gid /\ Mapped(mgid) /\ shard_lock[WorkerOf(mgid)] = Main /\ WorkerOf(mgid) \in Worker
        BY <2>2, WorkerOfGid DEF MainInv
      <3>2. shard_lock'[WorkerOf(mgid)] = Main
        BY <1>1, <3>1, LockKept
      <3>3. CASE RemoveClosed(w)
        <4>1. mgid # wgid[w]
          BY <3>1, <3>3, Removes, Constants DEF ShardFree
        <4>2. gid2pair'[mgid] = gid2pair[mgid]
          BY <3>1, <3>3, <4>1, MappedAfterRemove
        <4>3. QED  BY <2>1, <3>1, <3>2, <4>2 DEF Mapped
      <3>4. CASE UNCHANGED gid2pair
        BY <2>1, <3>1, <3>2, <3>4 DEF Mapped
      <3>5. CASE \E v \in Worker \ {w} : RemoveClosed(v)
        <4>1. PICK v \in Worker : v # w /\ RemoveClosed(v)
          BY <3>5
        <4>2. mgid # wgid[v]
          BY <3>1, <4>1, Removes, Constants DEF ShardFree
        <4>3. gid2pair'[mgid] = gid2pair[mgid]
          BY <3>1, <4>1, <4>2, MappedAfterRemove
        <4>4. QED  BY <2>1, <3>1, <3>2, <4>3 DEF Mapped
      <3>6. ~ Accept
        BY <2>2 DEF Accept
      <3>7. QED  BY <3>3, <3>4, <3>5, <3>6, MapWriters
    <2>3. QED  BY <2>1, <2>2 DEF MainInv
  <1>2. CASE MainStep
    <2>1. CASE Wait
      BY <2>1 DEF Wait, MainInv
    <2>2. CASE Update
      BY <2>2 DEF Update, MainInv
    <2>3. CASE NextEvent
      BY <2>3 DEF NextEvent, MainInv
    <2>4. CASE Act \/ AcceptNone \/ AcceptTask
      BY <2>4 DEF Act, AcceptNone, AcceptTask, MainInv
    <2>5. CASE ActHup
      <3>1. sock_gid[mev.ptr] \in Gid
        BY <2>5, EventSocket DEF ActHup, EventInv, TypeOK
      <3>2. WorkerOf(sock_gid[mev.ptr]) \in Worker
        BY <3>1, WorkerOfGid
      <3>3. QED  BY <2>5, <3>1, <3>2 DEF ActHup, MainInv, Mapped, TypeOK
    <2>6. CASE MainSetsClose
      BY <2>6 DEF MainSetsClose, MainInv, Mapped
    <2>7. CASE MainClosed
      BY <2>7 DEF MainClosed, MainInv
    <2>8. CASE Accept
      BY <2>8, AcceptRound DEF AcceptOpens, AcceptRefuses, AcceptMaps, MainInv
    <2>9. CASE AcceptHook
      BY <2>9 DEF AcceptHook, MainInv
    <2>10. QED
      BY <1>2, <2>1, <2>2, <2>3, <2>4, <2>5, <2>6, <2>7, <2>8, <2>9 DEF MainStep
  <1>3. CASE UNCHANGED vars
    BY <1>3 DEF MainInv, Mapped
  <1>4. QED  BY <1>1, <1>2, <1>3 DEF Next

(* A socket is freed only while the events of this turn are at hand, and   *)
(* then it is in removed_socket.                                           *)
LEMMA EventStep ==
    ASSUME Inv, [Next]_vars
    PROVE  EventInv'
  <1> USE DEF Inv
  <1>1. CASE Wait
    <2>1. PICK ready \in SUBSET Armable, hup \in SUBSET Fd, l \in SUBSET {Listener} :
             WaitDelivers(ready, hup, l)
      BY <1>1, WaitBatch
    <2>2. UNCHANGED <<free_socket, sock_gid, mev>> /\ mpc' = "update"
      BY <1>1 DEF Wait
    <2>3. ASSUME NEW ev \in batch', ev # Listener  PROVE Fresh(ev)'
      <3>1. PICK fd \in ready : /\ ev.ptr = reg[fd].ptr /\ ev.gid = sock_gid[reg[fd].ptr]
        BY <2>1, <2>3 DEF WaitDelivers
      <3>2. fd \in Fd /\ reg[fd] # Null
        BY DEF Armable
      <3>3. reg[fd].ptr \notin free_socket
        BY <3>2, WatchedSocket
      <3>4. QED  BY <2>2, <3>1, <3>3 DEF Fresh
    <2>4. QED  BY <2>2, <2>3 DEF EventInv
  <1>2. CASE Update
    <2>1. CASE batch = {}
      BY <1>2, <2>1 DEF Update, EventInv
    <2>2. CASE batch # {}
      <3>1. /\ removed_socket' = ToSet(wait_remove) /\ free_socket' = free_socket \cup ToSet(wait_remove)
            /\ mpc' = "events" /\ UNCHANGED batch
            /\ \A s \in Socket \ ToSet(wait_remove) : sock_gid'[s] = sock_gid[s]
        BY <1>2, <2>2 DEF Update
      <3>2. ASSUME NEW ev \in batch \ {Listener}  PROVE Fresh(ev)' \/ ev.ptr \in removed_socket'
        <4>1. Fresh(ev) /\ ev.ptr \in Socket
          BY <1>2, <3>2 DEF Update, EventInv, TypeOK, Event
        <4>2. QED  BY <3>1, <4>1 DEF Fresh
      <3>3. QED  BY <3>1, <3>2 DEF EventInv
    <2>3. QED  BY <2>1, <2>2
  <1>3. CASE NextEvent
    <2>1. UNCHANGED <<free_socket, sock_gid>> /\ mpc = "events"
      BY <1>3 DEF NextEvent
    <2>2. CASE batch = {}
      BY <1>3, <2>2 DEF NextEvent, EventInv
    <2>3. CASE batch # {}
      <3>1. PICK ev \in batch :
               /\ batch' = batch \ {ev} /\ UNCHANGED removed_socket
               /\ \/ mpc' \in {"accept", "events"} /\ UNCHANGED mev
                  \/ mpc' = "act" /\ mev' = ev /\ ev.ptr \notin removed_socket /\ ev # Listener
        BY <1>3, <2>1, <2>3 DEF NextEvent
      <3>2. QED  BY <2>1, <3>1 DEF EventInv, Fresh
    <2>4. QED  BY <2>2, <2>3
  <1>4. CASE Accept
    <2>1. PICK s \in free_socket, fd \in FreeFd, g \in Gid :
             /\ AcceptOpens(s, fd, g)
             /\ AcceptRefuses(s) \/ \E c \in free_conn : AcceptMaps(s, c, g)
      BY <1>4, AcceptRound
    <2>2. /\ UNCHANGED <<batch, removed_socket>> /\ free_socket' \subseteq free_socket
          /\ mpc = "accept" /\ mpc' \in {"accept", "events", "first", "new"}
      BY <2>1 DEF AcceptOpens, AcceptRefuses, AcceptMaps
    <2>3. ASSUME NEW ev \in batch \ {Listener}, Fresh(ev)  PROVE Fresh(ev)'
      <3>1. ev.ptr \in Socket /\ ev.ptr # s
        BY <2>3 DEF TypeOK, Event, Fresh
      <3>2. QED  BY <2>1, <2>3, <3>1 DEF Fresh, AcceptOpens, TypeOK
    <2>4. QED  BY <2>2, <2>3 DEF EventInv
  <1>5. CASE UNCHANGED <<batch, removed_socket, free_socket, sock_gid>> /\ mpc # "update"
             /\ mpc' # "act" /\ mpc' # "update"
    BY <1>5 DEF EventInv, Fresh
  <1>6. CASE UNCHANGED <<batch, removed_socket, free_socket, sock_gid, mpc, mev>>
    BY <1>6 DEF EventInv, Fresh
  <1>7. CASE MainStep
    <2>1. CASE Act \/ ActHup \/ MainSetsClose \/ MainClosed
      BY <1>5, <2>1 DEF Act, ActHup, MainSetsClose, MainClosed
    <2>2. CASE AcceptNone \/ AcceptHook \/ AcceptTask
      BY <1>5, <2>2 DEF AcceptNone, AcceptHook, AcceptTask
    <2>3. QED  BY <1>1, <1>2, <1>3, <1>4, <1>7, <2>1, <2>2 DEF MainStep
  <1>8. ASSUME NEW w \in Worker, WorkerStep(w) \/ \E g \in Gid : Send(w, g)  PROVE EventInv'
    BY <1>6, <1>8, LocalsOfMain
  <1>9. QED  BY <1>6, <1>7, <1>8 DEF Next

(* attach and detach keep the map and the kernel in step, and no two       *)
(* sockets have one descriptor.                                            *)
LEMMA AttachExact ==
    ASSUME Inv, NEW s \in Socket \ free_socket, NEW listen_send \in BOOLEAN, attach(s, listen_send),
           UNCHANGED m_sockfd
    PROVE  PollerMapExact'
  <1> USE DEF Inv, TypeOK
  <1> DEFINE d == m_sockfd[s]
             e == [ptr |-> s, out |-> listen_send, armed |-> TRUE]
             m == IF listen_send THEN "INOUT" ELSE "IN"
  <1>1. CASE UNCHANGED epollVars
    BY <1>1 DEF PollerMapExact
  <1>2. CASE reg' = [reg EXCEPT ![d] = e] /\ m_map_fd_envets' = [m_map_fd_envets EXCEPT ![d] = m]
    <2>1. e # Null /\ e.ptr = s /\ m = IF e.out THEN "INOUT" ELSE "IN"
      <3>1. e \in [ptr : Socket, out : BOOLEAN, armed : BOOLEAN]
        OBVIOUS
      <3>2. e.ptr = s /\ e.out = listen_send
        OBVIOUS
      <3> HIDE DEF e
      <3>3. QED  BY <3>1, <3>2, NullAssumption
    <2> HIDE DEF d, e, m
    <2>2. ASSUME NEW fd \in Fd, fd # d  PROVE reg'[fd] = reg[fd] /\ m_map_fd_envets'[fd] = m_map_fd_envets[fd]
      BY <1>2, <2>2
    <2>3. d \in Fd => reg'[d] = e /\ m_map_fd_envets'[d] = m
      BY <1>2
    <2>4. SUFFICES ASSUME NEW fd \in Fd
                   PROVE  IF reg'[fd] = Null
                          THEN m_map_fd_envets'[fd] = "0"
                          ELSE /\ m_map_fd_envets'[fd] = IF reg'[fd].out THEN "INOUT" ELSE "IN"
                               /\ m_sockfd'[reg'[fd].ptr] = fd
      BY DEF PollerMapExact
    <2>5. CASE fd = d
      BY <2>1, <2>3, <2>5 DEF d
    <2>6. CASE fd # d
      BY <2>2, <2>6 DEF PollerMapExact
    <2>7. QED  BY <2>5, <2>6
  <1>3. QED  BY <1>1, <1>2 DEF attach

(* m_map_fd_envets follows the kernel. *)
LEMMA PollerStep ==
    ASSUME Inv, [Next]_vars
    PROVE  PollerMapExact'
  <1> USE DEF Inv
  <1>1. CASE Wait
    <2>1. PICK ready \in SUBSET Armable, hup \in SUBSET Fd, l \in SUBSET {Listener} :
             WaitDelivers(ready, hup, l)
      BY <1>1, WaitBatch
    <2>2. UNCHANGED <<m_map_fd_envets, m_sockfd>>
      BY <1>1 DEF Wait
    <2>3. ASSUME NEW fd \in Fd
          PROVE  /\ reg'[fd] = Null <=> reg[fd] = Null
                 /\ reg[fd] # Null => reg'[fd].ptr = reg[fd].ptr /\ reg'[fd].out = reg[fd].out
      <3>1. CASE fd \in ready
        <4>1. reg[fd] \in [ptr : Socket, out : BOOLEAN, armed : BOOLEAN]
          BY <3>1 DEF Armable, TypeOK
        <4>2. reg'[fd] = [reg[fd] EXCEPT !.armed = FALSE]
          BY <2>1, <3>1 DEF WaitDelivers
        <4>3. QED  BY <4>1, <4>2, Disarmed, NullAssumption
      <3>2. CASE fd \notin ready
        BY <2>1, <3>2 DEF WaitDelivers
      <3>3. QED  BY <3>1, <3>2
    <2>4. QED  BY <2>2, <2>3 DEF PollerMapExact
  <1>2. CASE Update
    <2> DEFINE gone == ToSet(wait_remove)
               fds == {m_sockfd[s] : s \in gone}
    <2>1. gone \subseteq Socket /\ \A s \in gone : s \notin free_socket
      <3>1. gone \subseteq Socket /\ gone = {wait_remove[i] : i \in 1 .. Len(wait_remove)}
        BY Elements DEF TypeOK
      <3>2. QED  BY <3>1 DEF ListInv
    <2>2. \A fd \in Fd : /\ reg'[fd] = IF fd \in fds THEN Null ELSE reg[fd]
                         /\ m_map_fd_envets'[fd] = IF fd \in fds /\ reg[fd] # Null THEN "0"
                                                   ELSE m_map_fd_envets[fd]
      BY <1>2 DEF Update
    <2>3. \A s \in Socket : m_sockfd'[s] = IF s \in gone THEN 0 ELSE m_sockfd[s]
      BY <1>2 DEF Update
    <2>4. ASSUME NEW fd \in Fd, fd \notin fds, reg[fd] # Null
          PROVE  m_sockfd'[reg[fd].ptr] = fd
      <3>1. reg[fd].ptr \in Socket /\ m_sockfd[reg[fd].ptr] = fd
        BY <2>4, WatchedSocket
      <3>2. reg[fd].ptr \notin gone
        BY <2>4, <3>1
      <3>3. QED  BY <2>3, <3>1, <3>2
    <2> HIDE DEF gone, fds
    <2>5. QED  BY <2>2, <2>4 DEF PollerMapExact
  <1>3. CASE NextEvent
    <2>1. UNCHANGED m_sockfd
      BY <1>3 DEF NextEvent
    <2>2. ASSUME NEW s, detach(s)  PROVE PollerMapExact'
      <3>1. \A fd \in Fd : /\ reg'[fd] = IF fd = m_sockfd[s] THEN Null ELSE reg[fd]
                           /\ m_map_fd_envets'[fd] = IF fd = m_sockfd[s] /\ reg[fd] # Null THEN "0"
                                                     ELSE m_map_fd_envets[fd]
        BY <2>2 DEF detach, TypeOK
      <3>2. QED  BY <2>1, <3>1 DEF PollerMapExact
    <2>3. CASE UNCHANGED epollVars
      BY <2>1, <2>3 DEF PollerMapExact
    <2>4. QED  BY <1>3, <2>2, <2>3 DEF NextEvent
  <1>4. ASSUME NEW w \in Worker, Rearm(w) \/ Attach(w)  PROVE PollerMapExact'
    <2>1. whold[w] # Null /\ UNCHANGED m_sockfd
      BY <1>4 DEF Rearm, Attach, TaskInv
    <2>2. whold[w][1] \in Socket \ free_socket
      BY <2>1, Holds
    <2>3. \E b \in BOOLEAN : attach(whold[w][1], b)
      BY <1>4 DEF Rearm, Attach, TypeOK
    <2>4. QED  BY <2>1, <2>2, <2>3, AttachExact
  <1>5. CASE Accept
    <2>1. PICK s \in free_socket, fd \in FreeFd, g \in Gid : AcceptOpens(s, fd, g)
      BY <1>5, AcceptRound
    <2>2. UNCHANGED epollVars /\ \A t \in Socket \ {s} : m_sockfd'[t] = m_sockfd[t]
      BY <2>1 DEF AcceptOpens, TypeOK
    <2>3. \A d \in Fd : reg[d] # Null => reg[d].ptr \in Socket \ {s}
      BY WatchedSocket
    <2>4. QED  BY <2>2, <2>3 DEF PollerMapExact
  <1>6. CASE UNCHANGED <<reg, m_map_fd_envets, m_sockfd>>
    BY <1>6 DEF PollerMapExact
  <1>7. QED  BY <1>1, <1>2, <1>3, <1>4, <1>5, <1>6, EpollWriters, SocketWriters DEF SslAccepted

-----------------------------------------------------------------------------
(* The theorems. *)

(* Every step keeps the invariant. *)
LEMMA InvStep == Inv /\ [Next]_vars => Inv'
  BY TypeStep, SocketStep, PairStep, ListStep, KeptStep, QueueStep, TaskStep, HoldStep, MainInvStep,
     EventStep, PollerStep DEF Inv

(* The invariant holds in every state. *)
LEMMA InvHolds == Spec => []Inv
  BY InitInv, InvStep, PTL DEF Spec

(* Every step of the main loop and of every worker stays within the types  *)
(* of the variables: gids that reach a queue are gids of accepted          *)
(* connections, a descriptor is never handed out when none is left.        *)
THEOREM TypeCorrect == Spec => []TypeOK
  BY InvHolds, PTL DEF Inv

(* task::run works without a lock on the socket and connection its gid is  *)
(* mapped to: nobody else can remove or recycle them under it.             *)
THEOREM HoldsStayLive == Spec => []TaskHoldsLive
  BY InvHolds, PTL DEF Inv

(* The main loop never acts on an event of a socket that was recycled      *)
(* since epoll_wait delivered it: removed_socket is enough.                *)
THEOREM EventsStayFresh == Spec => []EventIsFresh
  <1>1. Inv => EventIsFresh
    BY DEF Inv, EventInv, EventIsFresh, Fresh
  <1>2. QED  BY <1>1, InvHolds, PTL

(* m_map_fd_envets always says what the kernel was asked for, under the    *)
(* socket that owns the descriptor.                                        *)
THEOREM PollerMapStaysExact == Spec => []PollerMapExact
  BY InvHolds, PTL DEF Inv

(* The size of a set of at most one element. *)
LEMMA AtMostOne ==
    ASSUME NEW S, \A x, y \in S : x = y
    PROVE  Cardinality(S) = IF S = {} THEN 0 ELSE 1
  <1>1. CASE S = {}
    BY <1>1, FS_EmptySet
  <1>2. CASE S # {}
    <2>1. PICK x : x \in S
      BY <1>2
    <2>2. S = {x}
      BY <2>1
    <2>3. QED  BY <1>2, <2>2, FS_Singleton
  <1>3. QED  BY <1>1, <1>2

(* Sockets and connections are closed and given back exactly once. *)
THEOREM ClosesOnce == Spec => []CloseOnce
  <1>1. ASSUME Inv  PROVE CloseOnce
    <2> USE <1>1 DEF Inv
    <2>1. ASSUME NEW s \in Socket
          PROVE  LET gids == {g \in Gid : Mapped(g) /\ SocketOf(g) = s}
                     listed == {i \in 1 .. Len(wait_remove) : wait_remove[i] = s}
                 IN  Cardinality(gids) + Cardinality(listed) + (IF s \in free_socket THEN 1 ELSE 0) = 1
      <3> DEFINE gids == {g \in Gid : Mapped(g) /\ SocketOf(g) = s}
                 listed == {i \in 1 .. Len(wait_remove) : wait_remove[i] = s}
      <3>1. \A g, h \in gids : g = h
        BY DEF PairInv
      <3>2. \A i, j \in listed : i = j
        BY DEF ListInv
      <3>3. gids # {} => listed = {}
        BY DEF ListInv
      <3>4. s \in free_socket => gids = {} /\ listed = {}
        BY MappedPair DEF ListInv
      <3>5. s \in free_socket \/ gids # {} \/ listed # {}
        BY DEF SocketKept
      <3> HIDE DEF gids, listed
      <3>6. /\ Cardinality(gids) = IF gids = {} THEN 0 ELSE 1
            /\ Cardinality(listed) = IF listed = {} THEN 0 ELSE 1
        BY <3>1, <3>2, AtMostOne
      <3>7. Cardinality(gids) + Cardinality(listed) + (IF s \in free_socket THEN 1 ELSE 0) = 1
        BY <3>3, <3>4, <3>5, <3>6
      <3>8. QED  BY <3>7 DEF gids, listed
    <2>2. ASSUME NEW c \in Conn
          PROVE  LET gids == {g \in Gid : Mapped(g) /\ ConnOf(g) = c}
                 IN  Cardinality(gids) + (IF c \in free_conn THEN 1 ELSE 0) = 1
      <3> DEFINE gids == {g \in Gid : Mapped(g) /\ ConnOf(g) = c}
      <3>1. \A g, h \in gids : g = h
        BY DEF PairInv
      <3>2. c \in free_conn => gids = {}
        BY DEF PairInv
      <3>3. c \in free_conn \/ gids # {}
        BY DEF ConnKept
      <3> HIDE DEF gids
      <3>4. Cardinality(gids) = IF gids = {} THEN 0 ELSE 1
        BY <3>1, AtMostOne
      <3>5. Cardinality(gids) + (IF c \in free_conn THEN 1 ELSE 0) = 1
        BY <3>2, <3>3, <3>4
      <3>6. QED  BY <3>5 DEF gids
    <2>3. QED  BY <2>1, <2>2 DEF CloseOnce
  <1>2. QED  BY <1>1, InvHolds, PTL

(* The accept loop that found a free socket object finds a free connection *)
(* object: every connection in use has a socket of its own, and that       *)
(* socket is in use too.                                                   *)
THEOREM ConnectionStaysAvailable == Spec => []ConnectionAvailable
  <1>1. ASSUME Inv  PROVE ConnectionAvailable
    <2> USE <1>1 DEF Inv
    <2>1. SUFFICES ASSUME Cardinality(Conn) >= Cardinality(Socket), NEW s \in free_socket, free_conn = {}
                   PROVE  FALSE
      BY DEF ConnectionAvailable
    <2> DEFINE gidOf(c) == CHOOSE g \in Gid : Mapped(g) /\ ConnOf(g) = c
               f == [c \in Conn |-> SocketOf(gidOf(c))]
    <2>2. ASSUME NEW c \in Conn
          PROVE  gidOf(c) \in Gid /\ Mapped(gidOf(c)) /\ ConnOf(gidOf(c)) = c
      BY <2>1 DEF ConnKept
    <2>3. ASSUME NEW c \in Conn  PROVE f[c] \in Socket \ {s} /\ sock_gid[f[c]] = gidOf(c)
      BY <2>2, MappedPair
    <2>4. \A c, d \in Conn : f[c] = f[d] => c = d
      BY <2>2, <2>3
    <2>5. f \in Injection(Conn, Socket \ {s})
      <3>1. f \in [Conn -> Socket \ {s}]
        BY <2>3
      <3> HIDE DEF f
      <3>2. QED  BY <2>4, <3>1 DEF Injection, IsInjective
    <2>6. /\ IsFiniteSet(Socket) /\ IsFiniteSet(Socket \ {s}) /\ s \in Socket
          /\ Cardinality(Socket \ {s}) = Cardinality(Socket) - 1
          /\ Cardinality(Socket) \in Nat
      BY PoolAssumption, FS_RemoveElement, FS_CardinalityType DEF TypeOK
    <2> HIDE DEF f
    <2>7. Cardinality(Conn) <= Cardinality(Socket \ {s}) /\ Cardinality(Conn) \in Nat
      BY <2>5, <2>6, PoolAssumption, FS_Injection, FS_CardinalityType DEF ExistsInjection
    <2>8. QED  BY <2>1, <2>6, <2>7
  <1>2. QED  BY <1>1, InvHolds, PTL
=============================================================================
