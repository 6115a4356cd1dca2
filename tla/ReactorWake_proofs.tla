------------------------- MODULE ReactorWake_proofs -------------------------
(***************************************************************************)
(* Machine-checked proofs that the reactor forgets nothing: for any number *)
(* of workers, objects, descriptors and gids, every kind of task, with and *)
(* without TLS, a connection, a close and accepted output always have      *)
(* someone who will come back to them, and with HTTP one at a time.        *)
(***************************************************************************)
EXTENDS Reactor_proofs

-----------------------------------------------------------------------------
(* What the inductive invariant says beyond Inv. *)

(* An event for s is still to be handled. *)
Pending(s) == \E ev \in batch : ev.ptr = s /\ (mpc = "update" \/ s \notin removed_socket)

(* epoll watches a disarmed fd only until its event is handled: attach's   *)
(* early return is taken for an fd that will be reported.                  *)
DisarmedInv == \A fd \in Fd : reg[fd] # Null /\ ~ reg[fd].armed => Pending(reg[fd].ptr)

(* What the place a task has reached says of its connection. *)
StageAt(w) ==
    /\ wpc[w] = "ssl" => UseSSL /\ ~ ssl_accepted[whold[w][1]]
    /\ wpc[w] = "upgrade" => /\ TaskType = "WEBSOCKET_TASK" /\ ~ connected[whold[w][2]]
                             /\ UseSSL => ssl_accepted[whold[w][1]]
    /\ wpc[w] = "mc_task" => close_flag[whold[w][2]]
    /\ wpc[w] \in {"process", "sending", "send", "attach"} => TaskType # "HTTP_TASK"
    /\ wret[w] \in {"send", "attach"} => TaskType # "HTTP_TASK"

TaskStage == \A w \in Worker : StageAt(w)

MainStage ==
    /\ mpc = "mc_task" => close_flag[ConnOf(mgid)]
    /\ mpc = "new" => ~ UseSSL

(* Only the tasks that use connection::send have output waiting, and the   *)
(* upgrade follows the TLS handshake.                                      *)
ConnStage ==
    \A g \in Gid : Mapped(g) =>
        /\ wating[ConnOf(g)] => TaskType # "HTTP_TASK"
        /\ UseSSL /\ connected[ConnOf(g)] => ssl_accepted[SocketOf(g)]

WakeInv ==
    /\ Inv
    /\ DisarmedInv /\ TaskStage /\ MainStage /\ ConnStage
    /\ ClosedHasTask

-----------------------------------------------------------------------------
(* What becomes of the objects of one gid while it stays mapped. *)

USE DEF vars, epollVars, socketVars, connVars, mapVars, removeVars, mainVars, mainOnly, workVars

(* A gid that stays mapped keeps its socket and its connection. *)
LEMMA PairKept ==
    ASSUME Inv, [Next]_vars, NEW g \in Gid, Mapped(g), Mapped(g)'
    PROVE  /\ gid2pair'[g] = gid2pair[g]
           /\ SocketOf(g)' = SocketOf(g) /\ ConnOf(g)' = ConnOf(g)
  <1> USE DEF Inv
  <1>1. CASE Accept
    <2>1. PICK s \in free_socket, fd \in FreeFd, h \in Gid :
             /\ AcceptOpens(s, fd, h)
             /\ AcceptRefuses(s) \/ \E c \in free_conn : AcceptMaps(s, c, h)
      BY <1>1, AcceptRound
    <2>2. CASE AcceptRefuses(s)
      BY <2>2 DEF AcceptRefuses, SocketOf, ConnOf
    <2>3. ASSUME NEW c \in free_conn, AcceptMaps(s, c, h)  PROVE gid2pair'[g] = gid2pair[g]
      BY <2>3, MappedAfterAccept DEF AcceptMaps
    <2>4. QED  BY <2>1, <2>2, <2>3 DEF SocketOf, ConnOf
  <1>2. ASSUME NEW w \in Worker, RemoveClosed(w)  PROVE gid2pair'[g] = gid2pair[g]
    BY <1>2, MappedAfterRemove
  <1>3. CASE UNCHANGED gid2pair
    BY <1>3 DEF SocketOf, ConnOf
  <1>4. QED  BY <1>1, <1>2, <1>3, MapWriters DEF SocketOf, ConnOf

(* A gid is newly mapped only by accept, for a socket and a connection     *)
(* that were free.                                                         *)
LEMMA NewPair ==
    ASSUME Inv, [Next]_vars, NEW g \in Gid, ~ Mapped(g), Mapped(g)'
    PROVE  \E s \in free_socket, fd \in FreeFd, c \in free_conn :
              AcceptOpens(s, fd, g) /\ AcceptMaps(s, c, g) /\ SocketOf(g)' = s /\ ConnOf(g)' = c
  <1> USE DEF Inv
  <1>1. Accept
    <2>1. ASSUME NEW w \in Worker, RemoveClosed(w)  PROVE FALSE
      BY <2>1, MappedAfterRemove
    <2>2. QED  BY <2>1, MapWriters DEF Mapped
  <1>2. PICK s \in free_socket, fd \in FreeFd, h \in Gid :
           /\ AcceptOpens(s, fd, h)
           /\ AcceptRefuses(s) \/ \E c \in free_conn : AcceptMaps(s, c, h)
    BY <1>1, AcceptRound
  <1>3. ~ AcceptRefuses(s)
    BY DEF AcceptRefuses, Mapped
  <1>4. PICK c \in free_conn : AcceptMaps(s, c, h)
    BY <1>2, <1>3
  <1>5. g = h /\ SocketOf(g)' = s /\ ConnOf(g)' = c
    BY <1>4, MappedAfterAccept
  <1>6. QED  BY <1>2, <1>4, <1>5

(* The socket of a mapping keeps its descriptor and gid; only its own task *)
(* finishes its TLS handshake.                                             *)
LEMMA SocketKeptBy ==
    ASSUME Inv, [Next]_vars, NEW g \in Gid, Mapped(g)
    PROVE  /\ m_sockfd'[SocketOf(g)] = m_sockfd[SocketOf(g)]
           /\ sock_gid'[SocketOf(g)] = g
           /\ ssl_accepted[SocketOf(g)] => ssl_accepted'[SocketOf(g)]
           /\ ssl_accepted'[SocketOf(g)] =>
                 ssl_accepted[SocketOf(g)] \/ (SslAccepted(WorkerOf(g)) /\ wgid[WorkerOf(g)] = g)
  <1> USE DEF Inv
  <1>0. SocketOf(g) \in Socket \ free_socket /\ sock_gid[SocketOf(g)] = g
    BY MappedPair
  <1>1. CASE Update
    <2>1. SocketOf(g) \notin ToSet(wait_remove)
      <3>1. ToSet(wait_remove) = {wait_remove[i] : i \in 1 .. Len(wait_remove)}
        BY Elements DEF TypeOK
      <3>2. QED  BY <3>1 DEF ListInv
    <2>2. QED  BY <1>0, <1>1, <2>1 DEF Update
  <1>2. CASE Accept
    <2>1. PICK s \in free_socket, fd \in FreeFd, h \in Gid : AcceptOpens(s, fd, h)
      BY <1>2, AcceptRound
    <2>2. QED  BY <1>0, <2>1 DEF AcceptOpens, TypeOK
  <1>3. ASSUME NEW w \in Worker, SslAccepted(w)
        PROVE  /\ UNCHANGED <<m_sockfd, sock_gid>>
               /\ ssl_accepted[SocketOf(g)] => ssl_accepted'[SocketOf(g)]
               /\ ssl_accepted'[SocketOf(g)] => ssl_accepted[SocketOf(g)] \/ (w = WorkerOf(g) /\ wgid[w] = g)
    <2>1. /\ whold[w][1] \in Socket /\ sock_gid[whold[w][1]] = wgid[w] /\ WorkerOf(wgid[w]) = w
      BY <1>3, Holds DEF SslAccepted, TaskInv
    <2>2. ssl_accepted' = [ssl_accepted EXCEPT ![whold[w][1]] = TRUE] /\ UNCHANGED <<m_sockfd, sock_gid>>
      BY <1>3 DEF SslAccepted
    <2>3. CASE whold[w][1] = SocketOf(g)
      BY <1>0, <2>1, <2>2, <2>3 DEF TypeOK
    <2>4. CASE whold[w][1] # SocketOf(g)
      BY <1>0, <2>1, <2>2, <2>4 DEF TypeOK
    <2>5. QED  BY <2>3, <2>4
  <1>4. CASE UNCHANGED <<socketVars, ssl_accepted>>
    BY <1>0, <1>4
  <1>5. QED  BY <1>0, <1>1, <1>2, <1>3, <1>4, SocketWriters

(* Who sets the flags of the connection of a mapping. *)
LEMMA FlagWriters ==
    ASSUME [Next]_vars
    PROVE  \/ Accept \/ MainSetsClose \/ MainClosed
           \/ \E w \in Worker : MarkSet(w) \/ MarkTask(w) \/ Upgrade(w) \/ Buf2sock(w)
           \/ \E w \in Worker, g \in Gid : Send(w, g)
           \/ UNCHANGED <<close_flag, connected, wating>>
  <1>1. CASE MainStep
    BY <1>1 DEF MainStep, Wait, Update, NextEvent, Act, ActHup, AcceptNone, AcceptHook, AcceptTask
  <1>2. ASSUME NEW w \in Worker, WorkerStep(w)
        PROVE  \/ MarkSet(w) \/ MarkTask(w) \/ Upgrade(w) \/ Buf2sock(w)
               \/ UNCHANGED <<close_flag, connected, wating>>
    BY <1>2 DEF WorkerStep, Pop, Lookup, Check, RemoveClosed, SslAccepted, Rearm, GiveUp, MarkCheck,
                Recv, SendTask, Processed, Attach
  <1>3. QED  BY <1>1, <1>2 DEF Next

(* Who can change the flags of a mapped connection. *)
LEMMA FlagsKeptBy ==
    ASSUME Inv, [Next]_vars, NEW g \in Gid, Mapped(g)
    PROVE  LET c == ConnOf(g)
               w == WorkerOf(g)
           IN  /\ close_flag[c] => close_flag'[c]
               /\ close_flag'[c] => \/ close_flag[c] \/ (MainSetsClose /\ mgid = g)
                                    \/ (MarkSet(w) /\ wgid[w] = g)
               /\ connected[c] => connected'[c]
               /\ connected'[c] => connected[c] \/ (Upgrade(w) /\ wgid[w] = g)
               /\ wating'[c] => \/ wating[c] \/ (Upgrade(w) /\ wgid[w] = g)
                                \/ \E v \in Worker : Send(v, g)
  <1> USE DEF Inv
  <1> DEFINE c == ConnOf(g)
  <1>0. c \in Conn \ free_conn
    BY MappedPair DEF TypeOK
  <1>1. CASE Accept
    <2>1. \/ UNCHANGED <<close_flag, connected, wating>> \/ \E d \in free_conn : reuse(d)
      BY <1>1, AcceptRound DEF AcceptRefuses, AcceptMaps
    <2>2. QED  BY ZenonT(30), <1>0, <2>1 DEF reuse, TypeOK
  <1>2. CASE MainSetsClose
    <2>1. mgid \in Gid /\ Mapped(mgid) /\ ConnOf(mgid) \in Conn
      BY <1>2, MappedPair DEF MainSetsClose, MainInv
    <2>2. ConnOf(mgid) = c => mgid = g
      BY <2>1 DEF PairInv
    <2>3. QED  BY <1>0, <1>2, <2>1, <2>2 DEF MainSetsClose, TypeOK
  <1>3. CASE MainClosed
    <2>1. mgid \in Gid /\ Mapped(mgid) /\ ConnOf(mgid) \in Conn
      BY <1>3, MappedPair DEF MainClosed, MainInv
    <2>2. QED  BY <1>0, <1>3, <2>1 DEF MainClosed, TypeOK
  <1>4. ASSUME NEW w \in Worker, MarkSet(w) \/ MarkTask(w) \/ Upgrade(w) \/ Buf2sock(w)
        PROVE  /\ close_flag[c] => close_flag'[c]
               /\ close_flag'[c] => close_flag[c] \/ (MarkSet(w) /\ w = WorkerOf(g) /\ wgid[w] = g)
               /\ connected[c] => connected'[c]
               /\ connected'[c] => connected[c] \/ (Upgrade(w) /\ w = WorkerOf(g) /\ wgid[w] = g)
               /\ wating'[c] => wating[c] \/ (Upgrade(w) /\ w = WorkerOf(g) /\ wgid[w] = g)
    <2>1. whold[w] # Null
      BY <1>4 DEF MarkSet, MarkTask, Upgrade, Buf2sock, TaskInv
    <2>2. /\ wgid[w] \in Gid /\ WorkerOf(wgid[w]) = w /\ Mapped(wgid[w])
          /\ whold[w][2] = ConnOf(wgid[w]) /\ whold[w][2] \in Conn
      BY <2>1, Holds
    <2>3. whold[w][2] = c => wgid[w] = g
      BY <2>2 DEF PairInv
    <2> HIDE DEF c
    <2>4. CASE MarkSet(w)
      BY <1>0, <2>2, <2>3, <2>4 DEF MarkSet, TypeOK
    <2>5. CASE MarkTask(w)
      BY <1>0, <2>2, <2>5 DEF MarkTask, TypeOK
    <2>6. CASE Upgrade(w)
      BY <1>0, <2>2, <2>3, <2>6 DEF Upgrade, TypeOK
    <2>7. CASE Buf2sock(w)
      BY <1>0, <2>2, <2>7 DEF Buf2sock, TypeOK
    <2>8. QED  BY <1>4, <2>4, <2>5, <2>6, <2>7
  <1>5. ASSUME NEW w \in Worker, NEW h \in Gid, Send(w, h)
        PROVE  UNCHANGED <<close_flag, connected>> /\ (wating'[c] => wating[c] \/ h = g)
    <2>1. Mapped(h)
      BY <1>5, Holds DEF Send, TaskInv
    <2>2. ConnOf(h) = c => h = g
      BY <2>1 DEF PairInv
    <2>3. QED  BY <1>0, <1>5, <2>1, <2>2, MappedPair DEF Send, TypeOK
  <1>6. CASE UNCHANGED <<close_flag, connected, wating>>
    BY <1>6
  <1>7. QED  BY <1>1, <1>2, <1>3, <1>4, <1>5, <1>6, FlagWriters

-----------------------------------------------------------------------------
(* The stages. *)

(* A task that does not move keeps its stage. *)
LEMMA StageKept ==
    ASSUME WakeInv, [Next]_vars, NEW w \in Worker,
           wpc'[w] = wpc[w], whold'[w] = whold[w], wret'[w] = wret[w]
    PROVE  StageAt(w)'
  <1> USE DEF WakeInv, Inv
  <1>1. CASE whold[w] = Null
    BY <1>1 DEF TaskStage, StageAt, TaskInv
  <1>2. CASE whold[w] # Null
    <2> DEFINE g == wgid[w]
    <2>1. /\ g \in Gid /\ Mapped(g) /\ WorkerOf(g) = w
          /\ whold[w][1] = SocketOf(g) /\ whold[w][2] = ConnOf(g)
      BY <1>2, Holds
    <2>2. ~ SslAccepted(w) /\ ~ Upgrade(w)
      BY DEF SslAccepted, Upgrade, Goto, TypeOK
    <2>3. /\ ssl_accepted'[whold[w][1]] <=> ssl_accepted[whold[w][1]]
          /\ connected'[whold[w][2]] <=> connected[whold[w][2]]
          /\ close_flag[whold[w][2]] => close_flag'[whold[w][2]]
      BY <2>1, <2>2, SocketKeptBy, FlagsKeptBy
    <2>4. QED  BY <2>3 DEF TaskStage, StageAt
  <1>3. QED  BY <1>1, <1>2

(* How a task comes to the places StageAt speaks of. *)
LEMMA StageReached ==
    ASSUME WakeInv, NEW w \in Worker, WorkerStep(w) \/ \E g \in Gid : Send(w, g)
    PROVE  StageAt(w)'
  <1> USE DEF WakeInv, Inv, TypeOK, Goto, Return, CallMarkClose
  <1>0. StageAt(w)
    BY DEF TaskStage
  <1>1. whold[w] # Null => /\ wgid[w] \in Gid /\ Mapped(wgid[w]) /\ whold[w][1] \in Socket /\ whold[w][2] \in Conn
                           /\ whold[w][1] = SocketOf(wgid[w]) /\ whold[w][2] = ConnOf(wgid[w])
    BY Holds
  <1>2. CASE Pop(w) \/ Lookup(w)
    BY <1>0, <1>2 DEF Pop, Lookup, StageAt
  <1>3. CASE Check(w)
    BY <1>0, <1>3 DEF Check, StageAt
  <1>4. CASE RemoveClosed(w) \/ Rearm(w) \/ Attach(w)
    BY <1>0, <1>4 DEF RemoveClosed, Rearm, Attach, StageAt
  <1>5. CASE SslAccepted(w)
    <2>1. whold[w] # Null /\ UseSSL /\ ~ ssl_accepted[whold[w][1]]
      BY <1>0, <1>5 DEF SslAccepted, StageAt, TaskInv
    <2>2. ~ connected[whold[w][2]]
      BY <1>1, <2>1 DEF ConnStage
    <2>3. ssl_accepted'[whold[w][1]] /\ UNCHANGED <<connected, whold, wret>>
      BY <1>1, <1>5, <2>1 DEF SslAccepted
    <2>4. wpc'[w] = IF TaskType = "WEBSOCKET_TASK" THEN "upgrade" ELSE "recv"
      BY <1>5 DEF SslAccepted
    <2>5. QED  BY <1>0, <2>2, <2>3, <2>4 DEF StageAt
  <1>6. CASE GiveUp(w)
    BY <1>0, <1>6 DEF GiveUp, StageAt
  <1>7. CASE MarkCheck(w) \/ MarkTask(w)
    <2>1. \/ wpc'[w] = "mc_set" /\ wret'[w] = wret[w]
          \/ wpc'[w] = wret[w] /\ wret'[w] = "idle"
      BY <1>7 DEF MarkCheck, MarkTask, MarkReturns
    <2>2. QED  BY <1>0, <2>1 DEF StageAt, TaskInv
  <1>8. CASE MarkSet(w)
    <2>1. close_flag'[whold'[w][2]] /\ wpc'[w] = "mc_task" /\ wret'[w] = wret[w]
      BY <1>1, <1>8 DEF MarkSet, TaskInv
    <2>2. QED  BY <1>0, <2>1 DEF StageAt
  <1>9. CASE Upgrade(w)
    BY <1>0, <1>9 DEF Upgrade, StageAt
  <1>10. CASE Recv(w)
    BY <1>0, <1>10 DEF Recv, StageAt
  <1>11. CASE SendTask(w)
    BY <1>0, <1>11 DEF SendTask, StageAt
  <1>12. CASE Processed(w)
    BY <1>0, <1>12 DEF Processed, StageAt
  <1>13. CASE Buf2sock(w)
    BY <1>0, <1>13 DEF Buf2sock, StageAt
  <1>14. ASSUME NEW g \in Gid, Send(w, g)  PROVE StageAt(w)'
    BY <1>0, <1>14 DEF Send, StageAt
  <1>15. QED
    BY <1>2, <1>3, <1>4, <1>5, <1>6, <1>7, <1>8, <1>9, <1>10, <1>11, <1>12, <1>13, <1>14 DEF WorkerStep

(* What a step of a task says of TLS, handshake and output. *)
LEMMA TaskStageStep ==
    ASSUME WakeInv, [Next]_vars
    PROVE  TaskStage'
  <1>1. ASSUME NEW w \in Worker, WorkerStep(w) \/ \E g \in Gid : Send(w, g)  PROVE TaskStage'
    <2>1. ASSUME NEW v \in Worker, v # w  PROVE StageAt(v)'
      BY <1>1, <2>1, WorkerKeepsOthers, StageKept DEF WakeInv, Inv
    <2>2. QED  BY <1>1, <2>1, StageReached DEF TaskStage
  <1>2. CASE UNCHANGED workVars
    BY <1>2, StageKept DEF TaskStage
  <1>3. QED  BY <1>1, <1>2, LocalsOfWorker

(* What a step of the main thread says of its connection. *)
LEMMA MainStageStep ==
    ASSUME WakeInv, [Next]_vars
    PROVE  MainStage'
  <1> USE DEF WakeInv, Inv
  <1>1. ASSUME mpc = "mc_task", UNCHANGED <<mpc, mgid>>  PROVE close_flag'[ConnOf(mgid)']
    <2>1. mgid \in Gid /\ Mapped(mgid) /\ close_flag[ConnOf(mgid)]
      BY <1>1 DEF MainInv, MainStage
    <2>2. Mapped(mgid)'
      BY <1>1, MainInvStep DEF MainInv
    <2>3. ConnOf(mgid)' = ConnOf(mgid)
      <3>1. (gid2pair[mgid])' = gid2pair'[mgid]
        BY <1>1
      <3>2. gid2pair'[mgid] = gid2pair[mgid]
        BY <1>1, <2>1, <2>2, PairKept DEF Mapped
      <3>3. QED  BY <3>1, <3>2 DEF ConnOf
    <2>4. QED  BY <2>1, <2>3, FlagsKeptBy
  <1>2. CASE MainSetsClose
    <2>1. mgid \in Gid /\ Mapped(mgid) /\ ConnOf(mgid) \in Conn
      BY <1>2, MappedPair DEF MainSetsClose, MainInv
    <2>2. QED  BY <1>2, <2>1 DEF MainSetsClose, MainStage, ConnOf, TypeOK
  <1>3. CASE Accept
    BY <1>3, AcceptRound DEF AcceptRefuses, AcceptMaps, MainStage
  <1>4. CASE mpc' \notin {"mc_task", "new"}
    BY <1>4 DEF MainStage
  <1>5. CASE UNCHANGED <<mpc, mgid>>
    BY <1>1, <1>5 DEF MainStage
  <1>6. CASE MainStep
    BY <1>2, <1>3, <1>4, <1>6 DEF MainStep, Wait, Update, NextEvent, Act, ActHup, MainClosed, AcceptNone,
       AcceptHook, AcceptTask
  <1>7. ASSUME NEW w \in Worker, WorkerStep(w) \/ \E g \in Gid : Send(w, g)  PROVE UNCHANGED <<mpc, mgid>>
    BY <1>7, LocalsOfMain
  <1>8. QED  BY <1>5, <1>6, <1>7 DEF Next

(* What a mapped connection has gone through. *)
LEMMA ConnStageStep ==
    ASSUME WakeInv, [Next]_vars
    PROVE  ConnStage'
  <1> USE DEF WakeInv, Inv
  <1>1. ASSUME NEW g \in Gid, Mapped(g)'
        PROVE  /\ wating'[ConnOf(g)'] => TaskType # "HTTP_TASK"
               /\ UseSSL /\ connected'[ConnOf(g)'] => ssl_accepted'[SocketOf(g)']
    <2>1. CASE ~ Mapped(g)
      <3>1. PICK s \in free_socket, fd \in FreeFd, c \in free_conn :
               AcceptMaps(s, c, g) /\ SocketOf(g)' = s /\ ConnOf(g)' = c
        BY <1>1, <2>1, NewPair
      <3>2. ~ wating'[c] /\ ~ connected'[c]
        BY <3>1 DEF AcceptMaps, reuse, TypeOK
      <3>3. QED  BY <3>1, <3>2
    <2>2. CASE Mapped(g)
      <3>1. SocketOf(g)' = SocketOf(g) /\ ConnOf(g)' = ConnOf(g)
        BY <1>1, <2>2, PairKept
      <3>2. ASSUME Upgrade(WorkerOf(g)), wgid[WorkerOf(g)] = g
            PROVE  TaskType = "WEBSOCKET_TASK" /\ (UseSSL => ssl_accepted[SocketOf(g)])
        <4>1. WorkerOf(g) \in Worker /\ whold[WorkerOf(g)] # Null /\ StageAt(WorkerOf(g))
          BY <3>2, WorkerOfGid DEF Upgrade, TaskInv, TaskStage
        <4>2. whold[WorkerOf(g)][1] = SocketOf(g)
          BY <3>2, <4>1, Holds
        <4>3. QED  BY <3>2, <4>1, <4>2 DEF StageAt, Upgrade
      <3>3. ASSUME NEW v \in Worker, Send(v, g)  PROVE TaskType # "HTTP_TASK"
        BY <3>3 DEF Send, TaskStage, StageAt
      <3>4. wating'[ConnOf(g)] => TaskType # "HTTP_TASK"
        BY <2>2, <3>2, <3>3, FlagsKeptBy DEF ConnStage
      <3>5. UseSSL /\ connected'[ConnOf(g)] => ssl_accepted'[SocketOf(g)]
        BY <2>2, <3>2, FlagsKeptBy, SocketKeptBy DEF ConnStage
      <3>6. QED  BY <3>1, <3>4, <3>5
    <2>3. QED  BY <2>1, <2>2
  <1>2. QED  BY <1>1 DEF ConnStage

-----------------------------------------------------------------------------
(* Tasks that are due, running tasks, events and armed sockets: how each   *)
(* passes on to the next.                                                  *)

(* A task that is due stays due until its worker pops it. *)
LEMMA TaskDueKept ==
    ASSUME WakeInv, [Next]_vars, NEW g \in Gid, TaskDue(g)
    PROVE  TaskDue(g)' \/ Runs(g, {"lookup"})'
  <1> USE DEF WakeInv, Inv
  <1>0. WorkerOf(g) \in Worker
    BY WorkerOfGid
  <1>1. ASSUME g \in ToSet(queue[WorkerOf(g)])  PROVE TaskDue(g)' \/ Runs(g, {"lookup"})'
    <2>1. ASSUME NEW h \in Gid, do_task(h)  PROVE TaskDue(g)'
      BY <1>0, <1>1, <2>1, DoTaskQueues DEF TaskDue, TypeOK
    <2>2. ASSUME NEW w \in Worker, Pop(w)  PROVE TaskDue(g)' \/ Runs(g, {"lookup"})'
      <3>1. CASE w = WorkerOf(g)
        <4>1. g \in ToSet(queue'[w]) \/ g = Head(queue[w])
          BY <1>1, <2>2, <3>1, PopTakes DEF TypeOK
        <4>2. wgid'[w] = Head(queue[w]) /\ wpc'[w] = "lookup"
          BY <2>2 DEF Pop, Goto, TypeOK
        <4>3. QED  BY <3>1, <4>1, <4>2 DEF TaskDue, Runs
      <3>2. CASE w # WorkerOf(g)
        <4>1. queue'[WorkerOf(g)] = queue[WorkerOf(g)]
          BY <1>0, <2>2, <3>2, PopTakes DEF TypeOK
        <4>2. QED  BY <1>1, <4>1 DEF TaskDue
      <3>3. QED  BY <3>1, <3>2
    <2>3. CASE UNCHANGED queue
      BY <1>1, <2>3 DEF TaskDue
    <2>4. QED  BY <2>1, <2>2, <2>3, QueueWriters
  <1>2. ASSUME do_task(g)  PROVE TaskDue(g)'
    BY <1>0, <1>2, DoTaskQueues DEF TaskDue, TypeOK
  <1>3. ASSUME mpc \in {"new", "first", "mc_set", "mc_task"}, mgid = g  PROVE TaskDue(g)'
    <2>1. CASE MainStep
      <3>1. CASE MainSetsClose \/ AcceptHook
        BY <1>3, <3>1 DEF MainSetsClose, AcceptHook, TaskDue
      <3>2. CASE MainClosed \/ AcceptTask
        BY <1>2, <1>3, <3>2 DEF MainClosed, AcceptTask
      <3>3. QED
        BY <1>3, <2>1, <3>1, <3>2 DEF MainStep, Wait, Update, NextEvent, Act, ActHup, AcceptNone, Accept
    <2>2. CASE UNCHANGED <<mpc, mgid>>
      BY <1>3, <2>2 DEF TaskDue
    <2>3. ASSUME NEW w \in Worker, WorkerStep(w) \/ \E h \in Gid : Send(w, h)  PROVE UNCHANGED <<mpc, mgid>>
      BY <2>3, LocalsOfMain
    <2>4. QED  BY <2>1, <2>2, <2>3 DEF Next
  <1>4. ASSUME NEW v \in Worker, wpc[v] = "sending", wto[v] = g  PROVE TaskDue(g)'
    <2>1. CASE SendTask(v)
      BY <1>2, <1>4, <2>1 DEF SendTask
    <2>2. CASE wpc'[v] = wpc[v] /\ wto'[v] = wto[v]
      BY <1>4, <2>2 DEF TaskDue
    <2>3. CASE WorkerStep(v)
      BY <1>4, <2>1, <2>3 DEF WorkerStep, Pop, Lookup, Check, RemoveClosed, SslAccepted, Rearm, GiveUp,
         MarkCheck, MarkSet, MarkTask, Upgrade, Recv, Processed, Buf2sock, Attach
    <2>4. ASSUME NEW h \in Gid, Send(v, h)  PROVE FALSE
      BY <1>4, <2>4 DEF Send
    <2>5. ASSUME NEW w \in Worker, w # v, WorkerStep(w) \/ \E h \in Gid : Send(w, h)
          PROVE  wpc'[v] = wpc[v] /\ wto'[v] = wto[v]
      BY <2>5, WorkerKeepsOthers
    <2>6. QED  BY <2>2, <2>3, <2>4, <2>5, LocalsOfWorker
  <1>5. QED  BY <1>1, <1>3, <1>4 DEF TaskDue

(* A running task ends only by re-arming its socket, by finding its        *)
(* connection closed already, by submitting a task, or by removing it.     *)
LEMMA RunKept ==
    ASSUME WakeInv, [Next]_vars, NEW g \in Gid, Runs(g, WorkerAt), Mapped(g), Mapped(g)'
    PROVE  LET w == WorkerOf(g)
           IN  \/ Runs(g, WorkerAt)'
               \/ Rearm(w) \/ Attach(w)
               \/ MarkCheck(w) /\ close_flag[ConnOf(g)]
               \/ TaskDue(g)'
  <1> USE DEF WakeInv, Inv
  <1> DEFINE w == WorkerOf(g)
  <1>0. w \in Worker /\ wgid[w] = g /\ wpc'[w] \in WorkerAt
    BY WorkerOfGid, TypeStep DEF Runs, TypeOK
  <1>1. CASE wgid'[w] = wgid[w]
    BY <1>0, <1>1 DEF Runs
  <1>2. CASE Pop(w)
    BY <1>0, <1>2, Constants DEF Pop, TaskInv
  <1>3. CASE Lookup(w)
    BY <1>0, <1>1, <1>3 DEF Lookup
  <1>4. CASE RemoveClosed(w)
    BY <1>0, <1>4, MappedAfterRemove
  <1>5. CASE MarkCheck(w)
    <2>1. whold[w] # Null
      BY <1>0, <1>5 DEF MarkCheck, TaskInv
    <2>2. whold[w][2] = ConnOf(g)
      BY <1>0, <2>1, Holds
    <2>3. QED  BY <1>1, <1>5, <2>2 DEF MarkCheck
  <1>6. CASE MarkTask(w)
    <2>1. do_task(g)
      BY <1>0, <1>6 DEF MarkTask
    <2>2. QED  BY <1>0, <2>1, DoTaskQueues DEF TaskDue, TypeOK
  <1>7. CASE WorkerStep(w)
    BY <1>1, <1>2, <1>3, <1>4, <1>5, <1>6, <1>7 DEF WorkerStep, Check, SslAccepted, GiveUp, MarkSet,
       Upgrade, Recv, SendTask, Processed, Buf2sock
  <1>8. ASSUME NEW h \in Gid, Send(w, h)  PROVE wgid'[w] = wgid[w]
    BY <1>8 DEF Send
  <1>9. ASSUME NEW v \in Worker, v # w, WorkerStep(v) \/ \E h \in Gid : Send(v, h)  PROVE wgid'[w] = wgid[w]
    BY <1>0, <1>9, WorkerKeepsOthers
  <1>10. QED  BY <1>1, <1>7, <1>8, <1>9, LocalsOfWorker

(* A closed connection keeps a task that will find it. *)
LEMMA ClosedStep ==
    ASSUME WakeInv, [Next]_vars
    PROVE  ClosedHasTask'
  <1> USE DEF WakeInv, Inv
  <1> DEFINE at == {"lookup", "check", "remove", "mc_task"}
  <1>1. ASSUME NEW g \in Gid, Mapped(g)', close_flag'[ConnOf(g)']  PROVE TaskDue(g)' \/ Runs(g, at)'
    <2> DEFINE w == WorkerOf(g)
    <2>0. w \in Worker
      BY WorkerOfGid
    <2>1. Mapped(g)
      <3>1. SUFFICES ASSUME ~ Mapped(g)  PROVE FALSE
        OBVIOUS
      <3>2. PICK s \in free_socket, fd \in FreeFd, c \in free_conn : AcceptMaps(s, c, g) /\ ConnOf(g)' = c
        BY <1>1, <3>1, NewPair
      <3>3. QED  BY <1>1, <3>2 DEF AcceptMaps, reuse, TypeOK
    <2>2. ConnOf(g)' = ConnOf(g)
      BY <1>1, <2>1, PairKept
    <2>3. ASSUME MainSetsClose, mgid = g  PROVE TaskDue(g)'
      BY <2>3 DEF MainSetsClose, TaskDue
    <2>4. ASSUME MarkSet(w), wgid[w] = g  PROVE Runs(g, at)'
      BY <2>0, <2>4 DEF MarkSet, Goto, Runs, TypeOK
    <2>5. ASSUME close_flag[ConnOf(g)]  PROVE TaskDue(g)' \/ Runs(g, at)'
      <3>1. CASE TaskDue(g)
        BY <3>1, TaskDueKept DEF Runs
      <3>2. CASE Runs(g, at)
        <4>1. wgid[w] = g /\ wpc[w] \in at
          BY <3>2 DEF Runs
        <4>2. CASE Lookup(w)
          BY <2>0, <2>1, <4>1, <4>2 DEF Lookup, Goto, Runs, TypeOK
        <4>3. CASE Check(w)
          <5>1. whold[w] # Null
            BY <2>0, <4>3 DEF Check, TaskInv
          <5>2. whold[w][2] = ConnOf(g)
            BY <2>0, <4>1, <5>1, Holds
          <5>3. wpc'[w] = "remove" /\ wgid'[w] = g
            BY <2>0, <2>5, <4>1, <4>3, <5>2 DEF Check, Goto, TypeOK
          <5>4. QED  BY <5>3 DEF Runs
        <4>4. CASE RemoveClosed(w)
          BY <1>1, <2>0, <4>1, <4>4, MappedAfterRemove
        <4>5. CASE MarkTask(w)
          <5>1. do_task(g)
            BY <4>1, <4>5 DEF MarkTask
          <5>2. QED  BY <2>0, <5>1, DoTaskQueues DEF TaskDue, TypeOK
        <4>6. CASE wgid'[w] = wgid[w] /\ wpc'[w] = wpc[w]
          BY <4>1, <4>6 DEF Runs
        <4>7. CASE WorkerStep(w)
          BY <4>1, <4>2, <4>3, <4>4, <4>5, <4>7 DEF WorkerStep, Pop, SslAccepted, Rearm, GiveUp,
             MarkCheck, MarkSet, Upgrade, Recv, SendTask, Processed, Buf2sock, Attach
        <4>8. ASSUME NEW h \in Gid, Send(w, h)  PROVE FALSE
          BY <4>1, <4>8 DEF Send
        <4>9. ASSUME NEW v \in Worker, v # w, WorkerStep(v) \/ \E h \in Gid : Send(v, h)
              PROVE  wgid'[w] = wgid[w] /\ wpc'[w] = wpc[w]
          BY <2>0, <4>9, WorkerKeepsOthers
        <4>10. QED  BY <4>6, <4>7, <4>8, <4>9, LocalsOfWorker
      <3>3. QED  BY <2>1, <2>5, <3>1, <3>2 DEF ClosedHasTask
    <2>6. QED  BY <1>1, <2>1, <2>2, <2>3, <2>4, <2>5, FlagsKeptBy
  <1>2. QED  BY <1>1 DEF ClosedHasTask

(* The next event of the batch, and what is done with it. *)
LEMMA NextEventCases ==
    ASSUME Inv, NextEvent
    PROVE  \/ batch = {} /\ batch' = {} /\ mpc' = "wait" /\ UNCHANGED <<reg, m_map_fd_envets, mev>>
           \/ \E ev \in batch :
                 /\ batch' = batch \ {ev} /\ UNCHANGED removed_socket
                 /\ \/ /\ ev = Listener \/ ev.ptr \in removed_socket
                       /\ mpc' \in {"accept", "events"} /\ UNCHANGED <<reg, m_map_fd_envets, mev>>
                    \/ /\ ev \in Event /\ ev.ptr \notin removed_socket
                       /\ mpc' = "act" /\ mev' = ev /\ detach(ev.ptr)
  <1>1. CASE batch = {}
    BY <1>1 DEF NextEvent
  <1>2. CASE batch # {}
    <2>1. PICK ev \in batch :
             /\ batch' = batch \ {ev} /\ UNCHANGED removed_socket
             /\ \/ /\ ev = Listener \/ ev.ptr \in removed_socket
                   /\ mpc' \in {"accept", "events"} /\ UNCHANGED <<reg, m_map_fd_envets, mev>>
                \/ /\ ev # Listener /\ ev.ptr \notin removed_socket
                   /\ mpc' = "act" /\ mev' = ev /\ detach(ev.ptr)
      BY <1>2 DEF NextEvent
    <2>2. ev = Listener \/ ev \in Event
      BY DEF Inv, TypeOK
    <2>3. QED  BY <2>1, <2>2
  <1>3. QED  BY <1>1, <1>2

(* A descriptor known and not armed has its event still to come. *)
LEMMA DisarmedStep ==
    ASSUME WakeInv, [Next]_vars
    PROVE  DisarmedInv'
  <1> USE DEF WakeInv, Inv
  <1>1. CASE Wait
    <2>1. PICK ready \in SUBSET Armable, hup \in SUBSET Fd, l \in SUBSET {Listener} :
             WaitDelivers(ready, hup, l)
      BY <1>1, WaitBatch
    <2>2. mpc = "wait" /\ mpc' = "update" /\ batch = {}
      BY <1>1 DEF Wait, MainInv
    <2>3. ASSUME NEW fd \in Fd, reg'[fd] # Null, ~ reg'[fd].armed  PROVE Pending(reg[fd].ptr)'
      <3>1. CASE fd \in ready
        <4>1. reg[fd] \in [ptr : Socket, out : BOOLEAN, armed : BOOLEAN]
          BY <3>1 DEF Armable, TypeOK
        <4>2. reg'[fd].ptr = reg[fd].ptr
          BY <2>1, <3>1, <4>1, Disarmed DEF WaitDelivers
        <4>3. \E ev \in batch' : ev.ptr = reg[fd].ptr
          <5> DEFINE e == [ptr |-> reg[fd].ptr, hup |-> fd \in hup, gid |-> sock_gid[reg[fd].ptr]]
          <5>1. e \in batch' /\ e.ptr = reg[fd].ptr
            BY <2>1, <3>1 DEF WaitDelivers
          <5>2. QED  BY <5>1
        <4>4. QED  BY <2>2, <4>2, <4>3 DEF Pending
      <3>2. CASE fd \notin ready
        <4>1. reg'[fd] = reg[fd]
          BY <2>1, <3>2 DEF WaitDelivers
        <4>2. QED  BY <2>2, <2>3, <4>1 DEF DisarmedInv, Pending
      <3>3. QED  BY <3>1, <3>2
    <2>4. QED  BY <2>3 DEF DisarmedInv
  <1>2. CASE Update
    <2> DEFINE gone == ToSet(wait_remove)
    <2>1. ASSUME NEW fd \in Fd, reg'[fd] # Null, ~ reg'[fd].armed  PROVE Pending(reg[fd].ptr)'
      <3>1. reg'[fd] = reg[fd] /\ \A s \in gone : m_sockfd[s] # fd
        BY <1>2, <2>1 DEF Update
      <3>2. reg[fd].ptr \notin gone
        BY <2>1, <3>1, WatchedSocket
      <3>3. PICK ev \in batch : ev.ptr = reg[fd].ptr
        BY <2>1, <3>1 DEF DisarmedInv, Pending
      <3>4. UNCHANGED batch /\ removed_socket' = gone
        BY <1>2, <3>3 DEF Update
      <3>5. QED  BY <3>1, <3>2, <3>3, <3>4 DEF Pending
    <2>2. QED  BY <2>1 DEF DisarmedInv
  <1>3. CASE NextEvent
    <2>0. mpc = "events"
      BY <1>3 DEF NextEvent
    <2>1. CASE batch = {} /\ UNCHANGED reg
      BY <2>1 DEF DisarmedInv, Pending
    <2>2. ASSUME NEW ev \in batch, batch' = batch \ {ev}, UNCHANGED <<removed_socket, reg>>,
                 ev = Listener \/ ev.ptr \in removed_socket
          PROVE  DisarmedInv'
      <3>1. ASSUME NEW fd \in Fd, reg[fd] # Null, ~ reg[fd].armed  PROVE Pending(reg[fd].ptr)'
        <4>1. PICK e \in batch : e.ptr = reg[fd].ptr /\ reg[fd].ptr \notin removed_socket
          BY <2>0, <3>1 DEF DisarmedInv, Pending
        <4>2. reg[fd].ptr # Null
          BY <3>1, WatchedSocket, Constants
        <4>3. e # ev
          BY <2>2, <4>1, <4>2 DEF Listener
        <4>4. QED  BY <2>2, <4>1, <4>3 DEF Pending
      <3>2. QED  BY <2>2, <3>1 DEF DisarmedInv
    <2>3. ASSUME NEW ev \in batch, batch' = batch \ {ev}, UNCHANGED removed_socket, detach(ev.ptr)
          PROVE  DisarmedInv'
      <3>1. \A fd \in Fd : reg'[fd] = IF fd = m_sockfd[ev.ptr] THEN Null ELSE reg[fd]
        BY <2>3 DEF detach, TypeOK
      <3>2. ASSUME NEW fd \in Fd, reg'[fd] # Null, ~ reg'[fd].armed  PROVE Pending(reg[fd].ptr)'
        <4>1. reg'[fd] = reg[fd] /\ fd # m_sockfd[ev.ptr]
          BY <3>1, <3>2
        <4>2. PICK e \in batch : e.ptr = reg[fd].ptr /\ reg[fd].ptr \notin removed_socket
          BY <2>0, <3>2, <4>1 DEF DisarmedInv, Pending
        <4>3. e # ev
          BY <3>2, <4>1, <4>2, WatchedSocket
        <4>4. QED  BY <2>3, <4>1, <4>2, <4>3 DEF Pending
      <3>3. QED  BY <3>2 DEF DisarmedInv
    <2>4. QED  BY <1>3, <2>1, <2>2, <2>3, NextEventCases
  <1>4. ASSUME NEW w \in Worker, Rearm(w) \/ Attach(w)  PROVE DisarmedInv'
    <2>1. UNCHANGED <<batch, mpc, removed_socket>>
      BY <1>4 DEF Rearm, Attach
    <2>2. \A fd \in Fd : reg'[fd] = reg[fd] \/ reg'[fd].armed
      <3>1. PICK b : attach(whold[w][1], b)
        BY <1>4 DEF Rearm, Attach
      <3>2. QED  BY <3>1 DEF attach, TypeOK
    <2>3. QED  BY <2>1, <2>2 DEF DisarmedInv, Pending
  <1>5. CASE UNCHANGED <<reg, batch, removed_socket>> /\ (mpc # "update" \/ UNCHANGED mpc)
    BY <1>5 DEF DisarmedInv, Pending
  <1>6. CASE MainStep
    BY <1>1, <1>2, <1>3, <1>5, <1>6 DEF MainStep, Act, ActHup, MainSetsClose, MainClosed, AcceptNone,
       Accept, AcceptHook, AcceptTask
  <1>7. ASSUME NEW w \in Worker, WorkerStep(w) \/ \E h \in Gid : Send(w, h)
        PROVE  UNCHANGED <<batch, removed_socket, mpc>> /\ mpc' = mpc
    BY <1>7, LocalsOfMain
  <1>8. ASSUME NEW w \in Worker, WorkerStep(w) \/ \E h \in Gid : Send(w, h)  PROVE DisarmedInv'
    <2>1. CASE MainStep
      BY <1>6, <2>1
    <2>2. CASE UNCHANGED reg
      BY <1>5, <1>7, <1>8, <2>2
    <2>3. (~ Wait /\ ~ Update /\ ~ NextEvent) \/ MainStep
      BY DEF MainStep
    <2>4. QED  BY <1>4, <2>1, <2>2, <2>3, EpollWriters
  <1>9. QED  BY <1>5, <1>6, <1>8 DEF Next

(* An event that is due is acted on: the socket's connection gets a task,  *)
(* unless it is closed already.                                            *)
LEMMA EventDueKept ==
    ASSUME WakeInv, [Next]_vars, NEW g \in Gid, Mapped(g), NEW s \in Socket, s = SocketOf(g), EventDue(s)
    PROVE  EventDue(s)' \/ TaskDue(g)' \/ close_flag[ConnOf(g)]
  <1> USE DEF WakeInv, Inv
  <1>0. sock_gid[s] = g /\ s # Null /\ WorkerOf(g) \in Worker
    BY MappedPair, Constants, WorkerOfGid
  <1>1. CASE Act
    <2>1. CASE mev.ptr = s
      BY ZenonT(30), <1>0, <1>1, <2>1, DoTaskQueues DEF Act, TaskDue, TypeOK
    <2>2. CASE mev.ptr # s
      BY <1>1, <2>2 DEF Act, EventDue
    <2>3. QED  BY <2>1, <2>2
  <1>2. CASE ActHup
    <2>1. CASE mev.ptr = s
      BY <1>0, <1>2, <2>1 DEF ActHup, TaskDue
    <2>2. CASE mev.ptr # s
      BY <1>2, <2>2 DEF ActHup, EventDue
    <2>3. QED  BY <2>1, <2>2
  <1>3. CASE Wait
    BY <1>3 DEF Wait, EventDue, MainInv
  <1>4. CASE Update
    <2>1. s \notin ToSet(wait_remove)
      <3>1. ToSet(wait_remove) = {wait_remove[i] : i \in 1 .. Len(wait_remove)}
        BY Elements DEF TypeOK
      <3>2. QED  BY <3>1 DEF ListInv
    <2>2. PICK ev \in batch : ev.ptr = s
      BY <1>4 DEF Update, EventDue
    <2>3. UNCHANGED batch /\ removed_socket' = ToSet(wait_remove)
      BY <1>4, <2>2 DEF Update
    <2>4. QED  BY <2>1, <2>2, <2>3 DEF EventDue
  <1>5. CASE NextEvent
    <2>1. mpc = "events"
      BY <1>5 DEF NextEvent
    <2>2. PICK e \in batch : e.ptr = s /\ s \notin removed_socket
      BY <2>1 DEF EventDue
    <2>3. PICK ev \in batch :
             /\ batch' = batch \ {ev} /\ UNCHANGED removed_socket
             /\ \/ ev = Listener \/ ev.ptr \in removed_socket
                \/ mpc' = "act" /\ mev' = ev
      BY <1>5, <2>2, NextEventCases
    <2>4. CASE e = ev
      BY <1>0, <2>2, <2>3, <2>4 DEF EventDue, Listener
    <2>5. CASE e # ev
      BY <2>2, <2>3, <2>5 DEF EventDue
    <2>6. QED  BY <2>4, <2>5
  <1>6. CASE UNCHANGED <<batch, removed_socket, mpc, mev>>
    BY <1>6 DEF EventDue
  <1>7. CASE mpc \notin {"update", "act"} /\ UNCHANGED <<batch, removed_socket>>
    BY <1>7 DEF EventDue
  <1>8. CASE MainStep
    BY <1>1, <1>2, <1>3, <1>4, <1>5, <1>7, <1>8 DEF MainStep, MainSetsClose, MainClosed, AcceptNone,
       Accept, AcceptHook, AcceptTask
  <1>9. ASSUME NEW w \in Worker, WorkerStep(w) \/ \E h \in Gid : Send(w, h)
        PROVE  UNCHANGED <<batch, removed_socket, mpc, mev>>
    BY <1>9, LocalsOfMain
  <1>10. QED  BY <1>6, <1>8, <1>9 DEF Next

(* attach arms the socket, unless the event that disarmed it is pending. *)
LEMMA AttachArms ==
    ASSUME WakeInv, NEW s \in Socket \ free_socket, NEW b \in BOOLEAN, attach(s, b),
           UNCHANGED <<m_sockfd, batch, mpc, removed_socket>>
    PROVE  EventDue(s)' \/ (Armed(s)' /\ (b => reg'[m_sockfd[s]].out))
  <1> USE DEF WakeInv, Inv
  <1> DEFINE fd == m_sockfd[s]
  <1>0. fd \in Fd
    BY DEF SocketInv, TypeOK
  <1>1. CASE m_map_fd_envets[fd] = "INOUT"
    <2>1. UNCHANGED reg
      BY <1>1 DEF attach
    <2>2. reg[fd] # Null /\ reg[fd].out
      BY <1>0, <1>1 DEF PollerMapExact
    <2>3. reg[fd].ptr = s
      BY <1>0, <2>2, WatchedSocket DEF SocketInv
    <2>4. CASE reg[fd].armed
      BY <2>1, <2>2, <2>4 DEF Armed
    <2>5. CASE ~ reg[fd].armed
      BY <1>0, <2>2, <2>3, <2>5 DEF DisarmedInv, Pending, EventDue
    <2>6. QED  BY <2>4, <2>5
  <1>2. CASE m_map_fd_envets[fd] # "INOUT"
    <2> DEFINE e == [ptr |-> s, out |-> b, armed |-> TRUE]
    <2>1. e \in [ptr : Socket, out : BOOLEAN, armed : BOOLEAN] /\ e.armed /\ e.out = b
      OBVIOUS
    <2>2. reg' = [reg EXCEPT ![fd] = e]
      BY <1>2 DEF attach
    <2> HIDE DEF e
    <2>3. reg'[fd] = e /\ e # Null
      BY <1>0, <2>1, <2>2, NullAssumption DEF TypeOK
    <2>4. QED  BY <2>1, <2>3 DEF Armed
  <1>3. QED  BY <1>1, <1>2

(* An armed socket stays armed, for output too if it was, or its event is  *)
(* delivered; only handling that event takes it out of epoll.              *)
LEMMA ArmedKept ==
    ASSUME WakeInv, [Next]_vars, NEW g \in Gid, Mapped(g), NEW s \in Socket, s = SocketOf(g), Armed(s)
    PROVE  \/ EventDue(s)'
           \/ Armed(s)' /\ (reg[m_sockfd[s]].out => reg'[m_sockfd[s]].out)
  <1> USE DEF WakeInv, Inv
  <1> DEFINE fd == m_sockfd[s]
  <1>0. /\ fd \in Fd /\ m_sockfd'[s] = fd /\ s \notin free_socket
        /\ reg[fd] # Null /\ reg[fd].armed /\ reg[fd].ptr = s
    BY MappedPair, SocketKeptBy, WatchedSocket DEF Armed, SocketInv
  <1>1. CASE reg'[fd] = reg[fd]
    BY <1>0, <1>1 DEF Armed
  <1>2. CASE Wait
    <2>1. PICK ready \in SUBSET Armable, hup \in SUBSET Fd, l \in SUBSET {Listener} :
             WaitDelivers(ready, hup, l)
      BY <1>2, WaitBatch
    <2>2. CASE fd \in ready
      <3> DEFINE e == [ptr |-> reg[fd].ptr, hup |-> fd \in hup, gid |-> sock_gid[reg[fd].ptr]]
      <3>1. e \in batch' /\ e.ptr = s
        BY <1>0, <2>1, <2>2 DEF WaitDelivers
      <3>2. mpc' = "update"
        BY <1>2 DEF Wait
      <3>3. QED  BY <3>1, <3>2 DEF EventDue
    <2>3. CASE fd \notin ready
      BY <1>0, <1>1, <2>1, <2>3 DEF WaitDelivers
    <2>4. QED  BY <2>2, <2>3
  <1>3. CASE Update
    <2>1. \A t \in ToSet(wait_remove) : t \in Socket /\ t # s
      <3>1. /\ ToSet(wait_remove) = {wait_remove[i] : i \in 1 .. Len(wait_remove)}
            /\ ToSet(wait_remove) \subseteq Socket
        BY Elements DEF TypeOK
      <3>2. QED  BY <3>1 DEF ListInv
    <2>2. fd \notin {m_sockfd[t] : t \in ToSet(wait_remove)}
      BY <1>0, <2>1, Constants DEF SocketInv
    <2>3. QED  BY <1>0, <1>1, <1>3, <2>2 DEF Update
  <1>4. CASE NextEvent
    <2>1. ASSUME NEW ev \in batch, ev \in Event, ev.ptr \notin removed_socket, mpc' = "act", mev' = ev,
                 detach(ev.ptr)
          PROVE  EventDue(s)' \/ reg'[fd] = reg[fd]
      <3>1. CASE ev.ptr = s
        BY <2>1, <3>1 DEF EventDue
      <3>2. CASE ev.ptr # s
        <4>1. m_sockfd[ev.ptr] # fd
          BY <1>0, <2>1, <3>2, Constants DEF SocketInv, Event
        <4>2. QED  BY <1>0, <2>1, <4>1 DEF detach, TypeOK
      <3>3. QED  BY <3>1, <3>2
    <2>2. QED  BY <1>1, <1>4, <2>1, NextEventCases
  <1>5. ASSUME NEW w \in Worker, Rearm(w) \/ Attach(w)
        PROVE  \/ EventDue(s)'
               \/ Armed(s)' /\ (reg[fd].out => reg'[fd].out)
    <2>1. PICK b \in BOOLEAN : attach(whold[w][1], b)
      BY <1>5 DEF Rearm, Attach, TypeOK
    <2>2. CASE m_map_fd_envets[m_sockfd[whold[w][1]]] = "INOUT"
      BY <1>1, <2>1, <2>2 DEF attach
    <2>3. CASE m_map_fd_envets[m_sockfd[whold[w][1]]] # "INOUT"
      <3>1. UNCHANGED <<m_sockfd, batch, mpc, removed_socket>>
        BY <1>5 DEF Rearm, Attach
      <3>2. CASE whold[w][1] = s
        <4>1. ~ reg[fd].out
          BY <1>0, <2>3, <3>2 DEF PollerMapExact
        <4>2. QED  BY <1>0, <2>1, <3>1, <3>2, <4>1, AttachArms
      <3>3. CASE whold[w][1] # s
        <4>1. whold[w][1] \in Socket
          BY <1>5, Holds DEF Rearm, Attach, TaskInv
        <4>2. m_sockfd[whold[w][1]] # fd
          BY <1>0, <3>3, <4>1, Constants DEF SocketInv
        <4>3. QED  BY <1>0, <1>1, <2>1, <4>2 DEF attach, TypeOK
      <3>4. QED  BY <3>2, <3>3
    <2>4. QED  BY <2>2, <2>3
  <1>6. QED  BY <1>1, <1>2, <1>3, <1>4, <1>5, EpollWriters

-----------------------------------------------------------------------------
(* The theorems. *)

(* Nothing is mapped yet. *)
LEMMA WakeInit == Init => WakeInv /\ NoOrphan /\ NoLostOutput /\ PlayersExact
  <1> SUFFICES ASSUME Init  PROVE WakeInv /\ NoOrphan /\ NoLostOutput /\ PlayersExact
    OBVIOUS
  <1>1. \A g \in Gid : ~ Mapped(g)
    BY DEF Init, Mapped
  <1>2. DisarmedInv /\ TaskStage /\ MainStage
    BY DEF Init, DisarmedInv, TaskStage, StageAt, MainStage
  <1>3. ConnStage /\ ClosedHasTask /\ NoOrphan /\ NoLostOutput
    BY <1>1 DEF ConnStage, ClosedHasTask, NoOrphan, NoLostOutput
  <1>4. PlayersExact
    BY <1>1 DEF PlayersExact, Init
  <1>5. QED  BY <1>2, <1>3, <1>4, InitInv DEF WakeInv

(* Every step keeps WakeInv. *)
LEMMA WakeStep == WakeInv /\ [Next]_vars => WakeInv'
  BY InvStep, DisarmedStep, TaskStageStep, MainStageStep, ConnStageStep, ClosedStep DEF WakeInv

(* WakeInv holds in every state. *)
LEMMA WakeHolds == Spec => []WakeInv
  BY WakeInit, WakeStep, PTL DEF Spec

(* Once close_flag is set somebody will find it: mark_close in the main    *)
(* thread or in a task ends with a task that is queued after the flag.     *)
THEOREM ClosedIsNotForgotten == Spec => []ClosedHasTask
  BY WakeHolds, PTL DEF WakeInv

(* Every step leaves a mapped connection someone who comes back to it. *)
LEMMA OrphanStep ==
    ASSUME WakeInv, NoOrphan, [Next]_vars
    PROVE  NoOrphan'
  <1> USE DEF WakeInv, Inv
  <1>1. ASSUME NEW g \in Gid, Mapped(g)', ~ Mapped(g)  PROVE TaskDue(g)'
    BY <1>1, NewPair DEF AcceptMaps, TaskDue
  <1>2. ASSUME NEW g \in Gid, Mapped(g)', Mapped(g), NEW s \in Socket, s = SocketOf(g)
        PROVE  Armed(s)' \/ EventDue(s)' \/ TaskDue(g)' \/ Runs(g, WorkerAt)'
    <2> DEFINE w == WorkerOf(g)
    <2>0. w \in Worker
      BY WorkerOfGid
    <2>1. CASE Armed(s)
      BY <1>2, <2>1, ArmedKept
    <2>2. CASE TaskDue(g)
      BY <2>2, TaskDueKept DEF Runs, WorkerAt
    <2>3. ASSUME close_flag[ConnOf(g)], ~ Runs(g, {"lookup", "check", "remove", "mc_task"})
          PROVE  TaskDue(g)' \/ Runs(g, WorkerAt)'
      <3>1. TaskDue(g)
        BY <1>2, <2>3 DEF ClosedHasTask
      <3>2. QED  BY <3>1, TaskDueKept DEF Runs, WorkerAt
    <2>4. CASE Runs(g, WorkerAt)
      <3>1. wgid[w] = g
        BY <2>4 DEF Runs
      <3>2. CASE Rearm(w) \/ Attach(w)
        <4>1. PICK b \in BOOLEAN : attach(whold[w][1], b)
          BY <2>0, <3>2 DEF Rearm, Attach, TypeOK
        <4>2. whold[w][1] = s /\ s \in Socket \ free_socket
          BY <1>2, <2>0, <3>1, <3>2, Holds DEF Rearm, Attach, TaskInv
        <4>3. UNCHANGED <<m_sockfd, batch, mpc, removed_socket>>
          BY <3>2 DEF Rearm, Attach
        <4>4. QED  BY <4>1, <4>2, <4>3, AttachArms
      <3>3. CASE MarkCheck(w) /\ close_flag[ConnOf(g)]
        BY <2>3, <3>3 DEF MarkCheck, Runs
      <3>4. QED  BY <1>2, <2>4, <3>2, <3>3, RunKept
    <2>5. CASE EventDue(s) /\ ~ Runs(g, WorkerAt)
      BY <1>2, <2>3, <2>5, EventDueKept DEF Runs, WorkerAt
    <2>6. QED  BY <1>2, <2>1, <2>2, <2>4, <2>5 DEF NoOrphan
  <1>3. ASSUME NEW g \in Gid, Mapped(g)'
        PROVE  (Armed(SocketOf(g)) \/ EventDue(SocketOf(g)) \/ TaskDue(g) \/ Runs(g, WorkerAt))'
    <2>1. CASE ~ Mapped(g)
      BY <1>1, <1>3, <2>1
    <2>2. CASE Mapped(g)
      <3>1. PICK s \in Socket : s = SocketOf(g)
        BY <2>2, MappedPair
      <3>2. SocketOf(g)' = s
        BY <1>3, <2>2, <3>1, PairKept
      <3>3. Armed(s)' \/ EventDue(s)' \/ TaskDue(g)' \/ Runs(g, WorkerAt)'
        BY <1>2, <1>3, <2>2, <3>1
      <3>4. QED  BY <3>2, <3>3 DEF Armed, EventDue
    <2>3. QED  BY <2>1, <2>2
  <1>4. QED  BY <1>3 DEF NoOrphan

(* No interleaving of the main loop, the tasks and their events leaves a   *)
(* connection mapped with nobody to come back to it.                       *)
THEOREM NothingIsOrphaned == Spec => []NoOrphan
  <1>1. Init => NoOrphan
    BY WakeInit
  <1>2. WakeInv /\ NoOrphan /\ [Next]_vars => NoOrphan'
    BY OrphanStep
  <1>3. QED  BY <1>1, <1>2, WakeHolds, PTL DEF Spec

(* The hypothesis of NoLostOutput for one connection, and its conclusion. *)
OutputWaits(g) ==
    /\ Mapped(g)
    /\ wating[ConnOf(g)] /\ ~ close_flag[ConnOf(g)]
    /\ UseSSL => ssl_accepted[SocketOf(g)]
    /\ TaskType = "WEBSOCKET_TASK" => connected[ConnOf(g)]

OutputDue(g, s) ==
    \/ TaskDue(g)
    \/ Runs(g, WorkerAt \ {"attach"}) \/ (Runs(g, {"attach"}) /\ wout[WorkerOf(g)])
    \/ EventDue(s)
    \/ Armed(s) /\ reg[m_sockfd[s]].out

(* Output becomes deliverable when it is accepted, by the end of the TLS   *)
(* handshake or by the upgrade.                                            *)
LEMMA OutputArises ==
    ASSUME WakeInv, [Next]_vars, NEW g \in Gid, OutputWaits(g)'
    PROVE  LET w == WorkerOf(g)
           IN  /\ Mapped(g)
               /\ \/ OutputWaits(g) \/ \E v \in Worker : Send(v, g)
                  \/ wgid[w] = g /\ (Upgrade(w) \/ SslAccepted(w))
  <1> USE DEF WakeInv, Inv
  <1>1. Mapped(g)
    <2>1. SUFFICES ASSUME ~ Mapped(g)  PROVE FALSE
      OBVIOUS
    <2>2. Mapped(g)' /\ wating'[ConnOf(g)']
      BY DEF OutputWaits
    <2>3. PICK s \in free_socket, fd \in FreeFd, c \in free_conn : AcceptMaps(s, c, g) /\ ConnOf(g)' = c
      BY <2>1, <2>2, NewPair
    <2>4. QED  BY <2>2, <2>3 DEF AcceptMaps, reuse, TypeOK
  <1>2. SocketOf(g)' = SocketOf(g) /\ ConnOf(g)' = ConnOf(g)
    BY <1>1, PairKept DEF OutputWaits
  <1>3. /\ wating'[ConnOf(g)] /\ ~ close_flag'[ConnOf(g)]
        /\ UseSSL => ssl_accepted'[SocketOf(g)]
        /\ TaskType = "WEBSOCKET_TASK" => connected'[ConnOf(g)]
    BY <1>2 DEF OutputWaits
  <1>4. QED  BY <1>1, <1>3, FlagsKeptBy, SocketKeptBy DEF OutputWaits

(* Every step leaves pending output someone who takes it. *)
LEMMA OutputStep ==
    ASSUME WakeInv, NoLostOutput, [Next]_vars
    PROVE  NoLostOutput'
  <1> USE DEF WakeInv, Inv
  <1>1. ASSUME NEW g \in Gid, OutputWaits(g)', NEW s \in Socket, s = SocketOf(g)
        PROVE  OutputDue(g, s)'
    <2> DEFINE w == WorkerOf(g)
    <2>0. w \in Worker /\ Mapped(g) /\ Mapped(g)' /\ m_sockfd'[s] = m_sockfd[s] /\ s \notin free_socket
      BY <1>1, WorkerOfGid, OutputArises, SocketKeptBy, MappedPair DEF OutputWaits
    <2>1. ASSUME NEW v \in Worker, Send(v, g)  PROVE OutputDue(g, s)'
      BY <2>1 DEF Send, Goto, OutputDue, TaskDue, TypeOK
    <2>2. ASSUME wgid[w] = g, Upgrade(w) \/ SslAccepted(w)  PROVE OutputDue(g, s)'
      BY <2>0, <2>2 DEF Upgrade, SslAccepted, Goto, OutputDue, Runs, WorkerAt, TypeOK
    <2>3. ASSUME OutputWaits(g)  PROVE OutputDue(g, s)'
      <3>0. OutputDue(g, s) /\ ~ close_flag[ConnOf(g)]
        BY <1>1, <2>3 DEF NoLostOutput, OutputWaits, OutputDue
      <3>1. CASE TaskDue(g)
        BY <3>1, TaskDueKept DEF OutputDue, Runs, WorkerAt
      <3>2. CASE EventDue(s)
        BY <1>1, <2>0, <3>0, <3>2, EventDueKept DEF OutputDue
      <3>3. CASE Armed(s) /\ reg[m_sockfd[s]].out
        BY <1>1, <2>0, <3>3, ArmedKept DEF OutputDue
      <3>4. ASSUME wgid[w] = g, wpc[w] \in WorkerAt \ {"idle", "lookup"}
            PROVE  /\ whold[w] # Null /\ whold[w][1] = s /\ whold[w][2] = ConnOf(g) /\ StageAt(w)
        BY <1>1, <2>0, <3>4, Holds DEF TaskInv, TaskStage
      <3>5. CASE Runs(g, {"attach"}) /\ wout[w]
        <4>1. wgid[w] = g /\ wpc[w] = "attach"
          BY <3>5 DEF Runs
        <4>2. CASE Attach(w)
          <5>1. attach(s, TRUE) /\ UNCHANGED <<m_sockfd, batch, mpc, removed_socket>>
            BY <3>4, <3>5, <4>1, <4>2 DEF Attach, WorkerAt, TypeOK
          <5>2. EventDue(s)' \/ (Armed(s)' /\ reg'[m_sockfd[s]].out)
            BY <2>0, <5>1, AttachArms
          <5>3. QED  BY <2>0, <5>2 DEF OutputDue
        <4>3. CASE wgid'[w] = wgid[w] /\ wpc'[w] = wpc[w] /\ wout'[w] = wout[w]
          BY <3>5, <4>3 DEF OutputDue, Runs
        <4>4. CASE WorkerStep(w)
          BY <4>1, <4>2, <4>4 DEF WorkerStep, Pop, Lookup, Check, RemoveClosed, SslAccepted, Rearm,
             GiveUp, MarkCheck, MarkSet, MarkTask, Upgrade, Recv, SendTask, Processed, Buf2sock
        <4>5. ASSUME NEW h \in Gid, Send(w, h)  PROVE FALSE
          BY <4>1, <4>5 DEF Send
        <4>6. ASSUME NEW v \in Worker, v # w, WorkerStep(v) \/ \E h \in Gid : Send(v, h)
              PROVE  wgid'[w] = wgid[w] /\ wpc'[w] = wpc[w] /\ wout'[w] = wout[w]
          BY <2>0, <4>6, WorkerKeepsOthers
        <4>7. QED  BY <4>3, <4>4, <4>5, <4>6, LocalsOfWorker
      <3>6. CASE Runs(g, WorkerAt \ {"attach"})
        <4>1. wgid[w] = g /\ wpc[w] \in WorkerAt /\ wpc[w] # "attach"
          BY <3>6 DEF Runs
        <4>2. ~ Rearm(w) /\ ~ Attach(w)
          <5>1. ~ Attach(w)
            BY <4>1 DEF Attach
          <5>2. ASSUME Rearm(w)  PROVE FALSE
            <6>1. wpc[w] \in {"ssl", "upgrade"} \/ (wpc[w] = "recv" /\ TaskType = "HTTP_TASK")
              BY <5>2 DEF Rearm
            <6>2. whold[w][1] = s /\ whold[w][2] = ConnOf(g) /\ StageAt(w)
              BY <3>4, <4>1, <6>1 DEF WorkerAt
            <6>3. TaskType # "HTTP_TASK"
              BY <2>0, <2>3 DEF ConnStage, OutputWaits
            <6>4. QED  BY <1>1, <2>3, <6>1, <6>2, <6>3 DEF StageAt, OutputWaits
          <5>3. QED  BY <5>1, <5>2
        <4>3. CASE wpc'[w] = "attach" /\ wgid'[w] = g
          <5>1. WorkerStep(w)
            <6>1. ASSUME NEW h \in Gid, Send(w, h)  PROVE FALSE
              BY <2>0, <4>3, <6>1 DEF Send, Goto, TypeOK
            <6>2. ASSUME NEW v \in Worker, v # w, WorkerStep(v) \/ \E h \in Gid : Send(v, h)
                  PROVE  wpc'[w] = wpc[w]
              BY <2>0, <6>2, WorkerKeepsOthers
            <6>3. QED  BY <4>1, <4>3, <6>1, <6>2, LocalsOfWorker
          <5>2. CASE Buf2sock(w)
            <6>1. whold[w][2] = ConnOf(g) /\ ConnOf(g) \in Conn
              BY <2>0, <3>4, <4>1, <5>2, MappedPair DEF Buf2sock, WorkerAt
            <6>2. wating'[ConnOf(g)]
              BY <2>0, <1>1, PairKept DEF OutputWaits
            <6>3. wout'[w]
              BY <2>0, <4>3, <5>2, <6>1, <6>2 DEF Buf2sock, Goto, CallMarkClose, TypeOK
            <6>4. QED  BY <4>3, <6>3 DEF OutputDue, Runs
          <5>3. CASE MarkCheck(w)
            <6>1. whold[w][2] = ConnOf(g)
              BY <3>4, <4>1, <5>3 DEF MarkCheck, WorkerAt
            <6>2. QED  BY <2>0, <3>0, <4>3, <5>3, <6>1 DEF MarkCheck, Goto, TypeOK
          <5>4. CASE MarkTask(w)
            <6>1. whold[w][2] = ConnOf(g) /\ StageAt(w)
              BY <3>4, <4>1, <5>4 DEF MarkTask, WorkerAt
            <6>2. QED  BY <3>0, <5>4, <6>1 DEF StageAt, MarkTask
          <5>5. wpc'[w] # "attach" \/ Buf2sock(w) \/ MarkCheck(w) \/ MarkTask(w)
            BY <2>0, <4>2, <5>1 DEF WorkerStep, Pop, Lookup, Check, RemoveClosed, SslAccepted,
               GiveUp, MarkSet, Upgrade, Recv, SendTask, Processed, Goto, Return, CallMarkClose, TypeOK
          <5>6. QED  BY <4>3, <5>2, <5>3, <5>4, <5>5
        <4>4. CASE Runs(g, WorkerAt)' /\ ~ (wpc'[w] = "attach" /\ wgid'[w] = g)
          BY <4>4 DEF OutputDue, Runs
        <4>5. CASE TaskDue(g)'
          BY <4>5 DEF OutputDue
        <4>6. Runs(g, WorkerAt)
          BY <4>1 DEF Runs
        <4>7. Runs(g, WorkerAt)' \/ TaskDue(g)'
          BY <2>0, <3>0, <4>2, <4>6, RunKept
        <4>8. QED  BY <4>3, <4>4, <4>5, <4>7
      <3>7. QED  BY <3>0, <3>1, <3>2, <3>3, <3>5, <3>6 DEF OutputDue
    <2>4. QED  BY <1>1, <2>1, <2>2, <2>3, OutputArises
  <1>2. ASSUME NEW g \in Gid, OutputWaits(g)'  PROVE OutputDue(g, SocketOf(g))'
    <2>1. Mapped(g) /\ Mapped(g)'
      BY <1>2, OutputArises DEF OutputWaits
    <2>2. PICK s \in Socket : s = SocketOf(g)
      BY <2>1, MappedPair
    <2>3. SocketOf(g)' = s
      BY <2>1, <2>2, PairKept
    <2>4. OutputDue(g, s)'
      BY <1>1, <1>2, <2>2
    <2>5. QED  BY <2>3, <2>4 DEF OutputDue, EventDue, Armed
  <1>3. QED  BY <1>2 DEF NoLostOutput, OutputWaits, OutputDue

(* What send() accepted is not forgotten: whoever ends a task with output  *)
(* left has asked for EPOLLOUT, or its event is on the way.                *)
THEOREM OutputIsNotLost == Spec => []NoLostOutput
  <1>1. Init => NoLostOutput
    BY WakeInit
  <1>2. WakeInv /\ NoLostOutput /\ [Next]_vars => NoLostOutput'
    BY OutputStep
  <1>3. QED  BY <1>1, <1>2, WakeHolds, PTL DEF Spec

(* Who writes the application's set of players, and when the main loop is  *)
(* between mapping a connection and reporting it.                          *)
LEMMA PlayerWriters ==
    ASSUME [Next]_vars
    PROVE  \/ AcceptHook \/ \E w \in Worker : SslAccepted(w) \/ RemoveClosed(w)
           \/ UNCHANGED players
  <1>1. CASE MainStep
    BY <1>1 DEF MainStep, Wait, Update, NextEvent, Act, ActHup, MainSetsClose, MainClosed, AcceptNone,
                Accept, AcceptTask
  <1>2. ASSUME NEW w \in Worker, WorkerStep(w)  PROVE SslAccepted(w) \/ RemoveClosed(w) \/ UNCHANGED players
    BY <1>2 DEF WorkerStep, Pop, Lookup, Check, Rearm, GiveUp, MarkCheck, MarkSet, MarkTask, Upgrade,
                Recv, SendTask, Processed, Buf2sock, Attach
  <1>3. ASSUME NEW w \in Worker, NEW g \in Gid, Send(w, g)  PROVE UNCHANGED players
    BY <1>3 DEF Send
  <1>4. QED  BY <1>1, <1>2, <1>3 DEF Next

(* Only an accept reports a new connection. *)
LEMMA ReportingKept ==
    ASSUME [Next]_vars
    PROVE  \/ Accept \/ AcceptHook
           \/ UNCHANGED <<mpc, mgid>>
           \/ mpc # "new" /\ mpc' # "new"
  <1>1. CASE MainStep
    BY <1>1 DEF MainStep, Wait, Update, NextEvent, Act, ActHup, MainSetsClose, MainClosed, AcceptNone,
                AcceptTask
  <1>2. ASSUME NEW w \in Worker, WorkerStep(w) \/ \E h \in Gid : Send(w, h)  PROVE UNCHANGED <<mpc, mgid>>
    BY <1>2, LocalsOfMain
  <1>3. QED  BY <1>1, <1>2 DEF Next

(* Every step keeps the set of players exact. *)
LEMMA PlayersStep ==
    ASSUME WakeInv, PlayersExact, [Next]_vars
    PROVE  PlayersExact'
  <1> USE DEF WakeInv, Inv
  <1> SUFFICES ASSUME HasPlayers, NEW g \in Gid
               PROVE  g \in players' <=> /\ Mapped(g)'
                                         /\ UseSSL => ssl_accepted'[SocketOf(g)']
                                         /\ ~ (mpc' = "new" /\ mgid' = g)
    BY DEF PlayersExact, HasPlayers
  <1>0. g \in players <=> /\ Mapped(g)
                          /\ UseSSL => ssl_accepted[SocketOf(g)]
                          /\ ~ (mpc = "new" /\ mgid = g)
    BY DEF PlayersExact
  <1>1. CASE ~ Mapped(g) /\ Mapped(g)'
    <2>1. PICK s \in free_socket, fd \in FreeFd, c \in free_conn :
             AcceptOpens(s, fd, g) /\ AcceptMaps(s, c, g) /\ SocketOf(g)' = s
      BY <1>1, NewPair
    <2>2. ~ ssl_accepted'[s] /\ players' = players
      BY <2>1 DEF AcceptOpens, SocketInv, TypeOK
    <2>3. ~ UseSSL => mpc' = "new" /\ mgid' = g
      BY <2>1 DEF AcceptMaps
    <2>4. QED  BY <1>0, <1>1, <2>1, <2>2, <2>3
  <1>2. CASE ~ Mapped(g)'
    <2>1. CASE AcceptHook
      <3>1. Mapped(g)' <=> Mapped(g)
        BY <2>1 DEF AcceptHook, Mapped
      <3>2. QED  BY <1>0, <1>2, <2>1, <3>1 DEF AcceptHook
    <2>2. ASSUME NEW w \in Worker, SslAccepted(w)  PROVE g \notin players'
      <3>1. Mapped(wgid[w])
        BY <2>2, Holds DEF SslAccepted, TaskInv
      <3>2. UNCHANGED gid2pair /\ players' \subseteq players \cup {wgid[w]}
        BY <2>2 DEF SslAccepted
      <3>3. ~ Mapped(g)
        BY <1>2, <3>2 DEF Mapped
      <3>4. QED  BY <1>0, <3>1, <3>2, <3>3
    <2>3. ASSUME NEW w \in Worker, RemoveClosed(w)  PROVE g \notin players'
      BY <1>0, <1>2, <2>3, Removes, MappedAfterRemove
    <2>4. CASE UNCHANGED players /\ (Accept \/ UNCHANGED gid2pair)
      <3>1. ~ Mapped(g)
        <4>1. CASE Accept
          <5>1. PICK s \in free_socket, fd \in FreeFd, h \in Gid :
                   AcceptRefuses(s) \/ \E c \in free_conn : AcceptMaps(s, c, h)
            BY <4>1, AcceptRound
          <5>2. CASE AcceptRefuses(s)
            BY <1>2, <5>2 DEF AcceptRefuses, Mapped
          <5>3. ASSUME NEW c \in free_conn, AcceptMaps(s, c, h)  PROVE ~ Mapped(g)
            BY <1>2, <5>3, MappedAfterAccept
          <5>4. QED  BY <5>1, <5>2, <5>3
        <4>2. CASE UNCHANGED gid2pair
          BY <1>2, <4>2 DEF Mapped
        <4>3. QED  BY <2>4, <4>1, <4>2
      <3>2. QED  BY <1>0, <1>2, <2>4, <3>1
    <2>5. QED  BY <1>2, <2>1, <2>2, <2>3, <2>4, PlayerWriters, MapWriters
  <1>3. CASE Mapped(g) /\ Mapped(g)'
    <2>0. SocketOf(g)' = SocketOf(g)
      BY <1>3, PairKept
    <2>1. CASE AcceptHook
      <3>1. mpc = "new" /\ mpc' = "first" /\ ~ UseSSL
        BY <2>1 DEF AcceptHook, MainStage
      <3>2. players' = IF Mapped(mgid) THEN players \cup {mgid} ELSE players
        BY <2>1 DEF AcceptHook
      <3>3. QED  BY <1>0, <1>3, <3>1, <3>2
    <2>2. ASSUME NEW w \in Worker, SslAccepted(w)
          PROVE  g \in players' <=> /\ UseSSL => ssl_accepted'[SocketOf(g)]
                                    /\ ~ (mpc' = "new" /\ mgid' = g)
      <3>1. UseSSL /\ StageAt(w) /\ wgid[w] \in Gid /\ WorkerOf(wgid[w]) = w
        BY <2>2, Holds DEF SslAccepted, TaskInv, TaskStage, StageAt
      <3>2. mpc # "new" /\ UNCHANGED mpc
        BY <2>2, <3>1 DEF SslAccepted, MainStage
      <3>3. players' = players \cup {wgid[w]} /\ whold[w][1] \in Socket
            /\ whold[w][1] = SocketOf(wgid[w])
            /\ ssl_accepted' = [ssl_accepted EXCEPT ![whold[w][1]] = TRUE]
        BY <2>2, Holds DEF SslAccepted, TaskInv
      <3>4. CASE wgid[w] = g
        BY <3>2, <3>3, <3>4 DEF TypeOK
      <3>5. CASE wgid[w] # g
        <4>1. ~ (SslAccepted(WorkerOf(g)) /\ wgid[WorkerOf(g)] = g)
          <5>1. SUFFICES ASSUME SslAccepted(WorkerOf(g)), wgid[WorkerOf(g)] = g  PROVE FALSE
            OBVIOUS
          <5>2. WorkerOf(g) \in Worker /\ WorkerOf(g) # w
            BY <3>1, <3>5, <5>1, WorkerOfGid
          <5>3. wpc'[WorkerOf(g)] = wpc[WorkerOf(g)]
            BY <2>2, <5>2, WorkerKeepsOthers DEF WorkerStep
          <5>4. QED  BY <5>1, <5>2, <5>3 DEF SslAccepted, Goto, TypeOK
        <4>2. ssl_accepted'[SocketOf(g)] <=> ssl_accepted[SocketOf(g)]
          BY <1>3, <4>1, SocketKeptBy
        <4>3. QED  BY <1>0, <1>3, <3>2, <3>3, <3>5, <4>2
      <3>6. QED  BY <3>4, <3>5
    <2>3. ASSUME ~ AcceptHook, ~ \E w \in Worker : SslAccepted(w)
          PROVE  g \in players' <=> /\ UseSSL => ssl_accepted'[SocketOf(g)]
                                    /\ ~ (mpc' = "new" /\ mgid' = g)
      <3>1. ssl_accepted'[SocketOf(g)] <=> ssl_accepted[SocketOf(g)]
        BY <1>3, <2>3, WorkerOfGid, SocketKeptBy
      <3>2. g \in players' <=> g \in players
        <4>1. ASSUME NEW w \in Worker, RemoveClosed(w)  PROVE g \in players' <=> g \in players
          BY <1>3, <4>1, Removes, MappedAfterRemove
        <4>2. QED  BY <2>3, <4>1, PlayerWriters
      <3>3. (mpc' = "new" /\ mgid' = g) <=> (mpc = "new" /\ mgid = g)
        <4>1. CASE Accept
          <5>1. PICK s \in free_socket, fd \in FreeFd, h \in Gid :
                   AcceptRefuses(s) \/ \E c \in free_conn : AcceptMaps(s, c, h)
            BY <4>1, AcceptRound
          <5>2. mpc = "accept"
            BY <4>1 DEF Accept
          <5>3. CASE AcceptRefuses(s)
            BY <5>2, <5>3 DEF AcceptRefuses
          <5>4. ASSUME NEW c \in free_conn, AcceptMaps(s, c, h)  PROVE mgid' # g
            BY <1>3, <5>4 DEF AcceptMaps
          <5>5. QED  BY <5>1, <5>2, <5>3, <5>4
        <4>2. QED  BY <2>3, <4>1, ReportingKept
      <3>4. QED  BY <1>0, <1>3, <3>1, <3>2, <3>3
    <2>4. QED  BY <1>3, <2>0, <2>1, <2>2, <2>3
  <1>4. QED  BY <1>1, <1>2, <1>3

(* on_new_connection and on_close_connection bracket every connection: the *)
(* players websocket_app broadcasts to are the established connections.    *)
THEOREM PlayersStayExact == Spec => []PlayersExact
  <1>1. Init => PlayersExact
    BY WakeInit
  <1>2. WakeInv /\ PlayersExact /\ [Next]_vars => PlayersExact'
    BY PlayersStep
  <1>3. QED  BY <1>1, <1>2, WakeHolds, PTL DEF Spec

-----------------------------------------------------------------------------
(* http_task has its connection to itself: with HTTP_TASK a connection is  *)
(* at any moment in at most one place (watched by epoll or about to be     *)
(* handled by the main loop, in the main loop's hands, queued, or in a     *)
(* running task), so the main loop never clears the buffers a task is      *)
(* working on.  stream_task and websocket_task have no such argument:      *)
(* other connections' tasks send to them at any time.                      *)

(* The places a connection can be in, by its gid. *)

Queued(g) == g \in ToSet(queue[WorkerOf(g)])
InMain(g) == mpc \in {"new", "first", "mc_set", "mc_task"} /\ mgid = g
Running(g) == wgid[WorkerOf(g)] = g

(* s is in use and epoll, or an event that was delivered, will wake it. *)
Watched(s) == s \notin free_socket /\ (Armed(s) \/ EventDue(s))

(* No gid is queued twice. *)
QueuedOnce == \A w \in Worker : \A i, j \in 1 .. Len(queue[w]) : queue[w][i] = queue[w][j] => i = j

(* One event a socket. *)
BatchInv ==
    /\ \A e, f \in batch : e.ptr = f.ptr => e = f
    /\ mpc = "act" => \A e \in batch : e.ptr # mev.ptr

TokenInv ==
    \A g \in Gid :
        /\ Queued(g) \/ InMain(g) \/ Running(g) => Mapped(g)
        /\ ~ (Queued(g) /\ InMain(g)) /\ ~ (Queued(g) /\ Running(g)) /\ ~ (InMain(g) /\ Running(g))

WatchedAt(s, g) ==
    /\ Mapped(g) /\ SocketOf(g) = s
    /\ ~ Queued(g) /\ ~ InMain(g) /\ ~ Running(g)
    /\ ~ (Armed(s) /\ EventDue(s))

WatchedInv == \A s \in Socket : Watched(s) => WatchedAt(s, sock_gid[s])

HttpInv == WakeInv /\ QueuedOnce /\ BatchInv /\ TokenInv /\ WatchedInv

-----------------------------------------------------------------------------
USE DEF vars, epollVars, socketVars, connVars, mapVars, removeVars, mainVars, mainOnly, workVars

(* The steps http_task has. *)
HttpStep(w) ==
    \/ Pop(w) \/ Lookup(w) \/ Check(w) \/ RemoveClosed(w) \/ SslAccepted(w) \/ Rearm(w)
    \/ GiveUp(w) \/ MarkCheck(w) \/ MarkSet(w) \/ MarkTask(w)

(* In HTTP mode no task comes from send. *)
LEMMA HttpSteps ==
    ASSUME TaskType = "HTTP_TASK", WakeInv, [Next]_vars
    PROVE  MainStep \/ (\E w \in Worker : HttpStep(w)) \/ UNCHANGED vars
  <1>1. ASSUME NEW w \in Worker, NEW g \in Gid, Send(w, g)  PROVE FALSE
    BY <1>1 DEF WakeInv, TaskStage, StageAt, Send
  <1>2. ASSUME NEW w \in Worker, WorkerStep(w)  PROVE HttpStep(w)
    BY <1>2 DEF WakeInv, TaskStage, StageAt, WorkerStep, HttpStep, Upgrade, Recv, SendTask, Processed,
       Buf2sock, Attach
  <1>3. QED  BY <1>1, <1>2 DEF Next

(* A task leaves the main thread's locals alone. *)
LEMMA HttpLocals ==
    ASSUME NEW w \in Worker, HttpStep(w)
    PROVE  WorkerStep(w) /\ UNCHANGED mainOnly
  <1>1. WorkerStep(w)
    BY DEF HttpStep, WorkerStep
  <1>2. QED  BY <1>1, LocalsOfMain

(* push refuses what is queued, so a gid is queued once and popping it     *)
(* takes it out.                                                           *)
LEMMA OnceStep ==
    ASSUME Inv, QueuedOnce, [Next]_vars
    PROVE  QueuedOnce'
  <1> USE DEF Inv, TypeOK
  <1>1. ASSUME NEW g \in Gid, do_task(g)  PROVE QueuedOnce'
    <2> DEFINE v == WorkerOf(g)
               q == queue[v]
    <2>1. v \in Worker /\ q \in Seq(Gid) /\ Len(q) \in Nat
      BY WorkerOfGid
    <2>2. CASE g \in ToSet(q)
      BY <1>1, <2>1, <2>2 DEF do_task, QueuedOnce
    <2>3. CASE g \notin ToSet(q)
      <3>1. queue' = [queue EXCEPT ![v] = Append(q, g)]
        BY <1>1, <2>3 DEF do_task
      <3>2. \A i \in 1 .. Len(q) : q[i] # g
        BY <2>1, <2>3, Elements
      <3>3. /\ Len(Append(q, g)) = Len(q) + 1
            /\ \A i \in 1 .. Len(q) : Append(q, g)[i] = q[i]
            /\ Append(q, g)[Len(q) + 1] = g
        BY <2>1, AppendProperties
      <3>4. \A i, j \in 1 .. Len(Append(q, g)) : Append(q, g)[i] = Append(q, g)[j] => i = j
        <4>1. \A i \in 1 .. Len(q) + 1 : i \in 1 .. Len(q) \/ i = Len(q) + 1
          BY <2>1
        <4>2. \A i, j \in 1 .. Len(q) : q[i] = q[j] => i = j
          BY <2>1 DEF QueuedOnce
        <4> HIDE DEF q
        <4>3. QED  BY <3>2, <3>3, <4>1, <4>2
      <3> DEFINE r == Append(q, g)
      <3> HIDE DEF r, q, v
      <3>5. QED  BY <2>1, <3>1, <3>4 DEF QueuedOnce, r
    <2>4. QED  BY <2>2, <2>3
  <1>2. ASSUME NEW w \in Worker, Pop(w)  PROVE QueuedOnce'
    <2> DEFINE q == queue[w]
    <2>1. q \in Seq(Gid) /\ q # <<>> /\ queue' = [queue EXCEPT ![w] = Tail(q)]
      BY <1>2 DEF Pop
    <2>2. /\ Len(Tail(q)) = Len(q) - 1 /\ Len(q) \in Nat \ {0}
          /\ \A i \in 1 .. Len(Tail(q)) : Tail(q)[i] = q[i + 1]
      BY <2>1, HeadTailProperties, EmptySeq
    <2>3. \A i, j \in 1 .. Len(Tail(q)) : Tail(q)[i] = Tail(q)[j] => i = j
      BY <2>2 DEF QueuedOnce
    <2> HIDE DEF q
    <2>4. QED  BY <2>1, <2>3 DEF QueuedOnce
  <1>3. CASE UNCHANGED queue
    BY <1>3 DEF QueuedOnce
  <1>4. QED  BY <1>1, <1>2, <1>3, QueueWriters

(* A gid popped is not queued any more. *)
LEMMA PopTakesIt ==
    ASSUME Inv, QueuedOnce, NEW w \in Worker, Pop(w)
    PROVE  Head(queue[w]) \notin ToSet(queue'[w])
  <1> DEFINE q == queue[w]
  <1>1. q \in Seq(Gid) /\ q # <<>> /\ queue'[w] = Tail(q)
    BY DEF Pop, Inv, TypeOK
  <1>2. /\ Tail(q) \in Seq(Gid) /\ Len(Tail(q)) = Len(q) - 1 /\ Len(q) \in Nat \ {0} /\ Head(q) = q[1]
        /\ \A i \in 1 .. Len(Tail(q)) : Tail(q)[i] = q[i + 1]
    BY <1>1, HeadTailProperties, EmptySeq
  <1>3. ToSet(Tail(q)) = {Tail(q)[i] : i \in 1 .. Len(Tail(q))}
    BY <1>2, Elements
  <1>4. \A i \in 1 .. Len(Tail(q)) : Tail(q)[i] # q[1]
    BY <1>2 DEF QueuedOnce
  <1>5. QED  BY <1>1, <1>2, <1>3, <1>4

(* A socket has one event in a batch, and none left once it is handled. *)
LEMMA BatchStep ==
    ASSUME Inv, BatchInv, [Next]_vars
    PROVE  BatchInv'
  <1> USE DEF Inv
  <1>1. CASE Wait
    <2>1. PICK ready \in SUBSET Armable, hup \in SUBSET Fd, l \in SUBSET {Listener} :
             WaitDelivers(ready, hup, l)
      BY <1>1, WaitBatch
    <2>2. \A fd \in ready : fd \in Fd /\ reg[fd].ptr \in Socket /\ m_sockfd[reg[fd].ptr] = fd
      BY WatchedSocket DEF Armable
    <2>3. ASSUME NEW e \in batch'
          PROVE  \/ e = Listener
                 \/ \E fd \in ready : /\ e = [ptr |-> reg[fd].ptr, hup |-> fd \in hup,
                                              gid |-> sock_gid[reg[fd].ptr]]
                                      /\ e.ptr = reg[fd].ptr
      BY <2>1, <2>3 DEF WaitDelivers
    <2>4. ASSUME NEW e \in batch', NEW f \in batch', e.ptr = f.ptr  PROVE e = f
      <3>1. CASE e = Listener
        BY <2>2, <2>3, <2>4, <3>1, Constants DEF Listener
      <3>2. CASE f = Listener
        BY <2>2, <2>3, <2>4, <3>2, Constants DEF Listener
      <3>3. CASE e # Listener /\ f # Listener
        <4>1. PICK d1 \in ready : /\ e = [ptr |-> reg[d1].ptr, hup |-> d1 \in hup,
                                          gid |-> sock_gid[reg[d1].ptr]]
                                  /\ e.ptr = reg[d1].ptr
          BY <2>3, <3>3
        <4>2. PICK d2 \in ready : /\ f = [ptr |-> reg[d2].ptr, hup |-> d2 \in hup,
                                          gid |-> sock_gid[reg[d2].ptr]]
                                  /\ f.ptr = reg[d2].ptr
          BY <2>3, <3>3
        <4>3. d1 = d2
          BY <2>2, <2>4, <4>1, <4>2
        <4>4. QED  BY <4>1, <4>2, <4>3
      <3>4. QED  BY <3>1, <3>2, <3>3
    <2>5. mpc' = "update"
      BY <1>1 DEF Wait
    <2>6. QED  BY <2>4, <2>5 DEF BatchInv
  <1>2. CASE NextEvent
    BY <1>2, NextEventCases DEF BatchInv
  <1>3. CASE UNCHANGED batch /\ (mpc' # "act" \/ UNCHANGED <<mpc, mev>>)
    BY <1>3 DEF BatchInv
  <1>4. CASE MainStep
    <2>1. CASE Accept
      BY <1>3, <2>1, AcceptRound DEF AcceptOpens, AcceptRefuses, AcceptMaps
    <2>2. QED
      BY <1>1, <1>2, <1>3, <1>4, <2>1 DEF MainStep, Update, Act, ActHup, MainSetsClose, MainClosed,
         AcceptNone, AcceptHook, AcceptTask
  <1>5. ASSUME NEW w \in Worker, WorkerStep(w) \/ \E h \in Gid : Send(w, h)
        PROVE  UNCHANGED <<batch, mpc, mev>>
    BY <1>5, LocalsOfMain
  <1>6. QED  BY <1>3, <1>4, <1>5 DEF Next

-----------------------------------------------------------------------------
(* The places, one by one. *)

(* do_task queues its gid and no other. *)
LEMMA QueuedAfter ==
    ASSUME Inv, NEW h \in Gid, do_task(h), NEW g \in Gid
    PROVE  Queued(g)' <=> Queued(g) \/ g = h
  <1>1. ToSet(queue'[WorkerOf(g)]) = IF WorkerOf(g) = WorkerOf(h) THEN ToSet(queue[WorkerOf(g)]) \cup {h}
                                     ELSE ToSet(queue[WorkerOf(g)])
    BY DoTaskQueues, WorkerOfGid DEF Inv, TypeOK
  <1>2. QED  BY <1>1 DEF Queued

(* pop turns a queued gid into a running one. *)
LEMMA PoppedAfter ==
    ASSUME Inv, QueuedOnce, NEW w \in Worker, Pop(w), NEW g \in Gid
    PROVE  LET h == Head(queue[w])
           IN  /\ h \in Gid /\ Queued(h) /\ WorkerOf(h) = w
               /\ Queued(g)' <=> Queued(g) /\ g # h
               /\ Running(g)' => Running(g) \/ g = h
  <1> USE DEF Inv
  <1> DEFINE h == Head(queue[w])
  <1>1. /\ h \in Gid /\ h \in ToSet(queue[w]) /\ ToSet(queue[w]) = ToSet(queue'[w]) \cup {h}
        /\ \A v \in Worker \ {w} : queue'[v] = queue[v]
    BY PopTakes DEF TypeOK
  <1>2. WorkerOf(h) = w /\ h \notin ToSet(queue'[w]) /\ WorkerOf(g) \in Worker
    BY <1>1, PopTakesIt, WorkerOfGid DEF QueueInv
  <1>3. wgid' = [wgid EXCEPT ![w] = h]
    BY DEF Pop
  <1> HIDE DEF h
  <1>4. Queued(g)' <=> Queued(g) /\ g # h
    BY <1>1, <1>2 DEF Queued
  <1>5. Running(g)' => Running(g) \/ g = h
    BY <1>2, <1>3 DEF Running, TypeOK
  <1>6. QED  BY <1>1, <1>2, <1>4, <1>5 DEF Queued, h

(* A task that ends is no longer running. *)
LEMMA ReturnedAfter ==
    ASSUME Inv, NEW w \in Worker, wgid' = [wgid EXCEPT ![w] = 0], NEW g \in Gid
    PROVE  Running(g)' <=> Running(g) /\ WorkerOf(g) # w
  BY Constants, WorkerOfGid DEF Running, Inv, TypeOK

(* The event the main loop acts on is for a connection that is nowhere     *)
(* else.                                                                   *)
LEMMA ActedOn ==
    ASSUME HttpInv, mpc = "act"
    PROVE  LET s == mev.ptr
               h == sock_gid[mev.ptr]
           IN  /\ s \in Socket /\ h \in Gid /\ WatchedAt(s, h)
               /\ ~ Armed(s) /\ \A e \in batch : e.ptr # s
  <1> USE DEF HttpInv, WakeInv, Inv
  <1>1. mev \in Event /\ Fresh(mev)
    BY DEF EventInv, TypeOK
  <1>2. mev.ptr \in Socket /\ sock_gid[mev.ptr] \in Gid /\ mev.ptr \notin free_socket
    BY <1>1, EventSocket DEF Fresh
  <1>3. EventDue(mev.ptr)
    BY DEF EventDue
  <1>4. QED  BY <1>2, <1>3 DEF WatchedInv, Watched, WatchedAt, BatchInv

TokenAt(g) ==
    /\ Queued(g) \/ InMain(g) \/ Running(g) => Mapped(g)
    /\ ~ (Queued(g) /\ InMain(g)) /\ ~ (Queued(g) /\ Running(g)) /\ ~ (InMain(g) /\ Running(g))

(* A mapped HTTP connection is queued, running or in the main thread's hands, or none. *)
LEMMA TokenStep ==
    ASSUME TaskType = "HTTP_TASK", HttpInv, [Next]_vars
    PROVE  TokenInv'
  <1> USE DEF HttpInv, WakeInv, Inv
  <1> SUFFICES ASSUME NEW g \in Gid  PROVE TokenAt(g)'
    BY DEF TokenInv, TokenAt
  <1>0. TokenAt(g)
    BY DEF TokenInv, TokenAt
  <1>1. ASSUME Queued(g)' => Queued(g), InMain(g)' => InMain(g), Running(g)' => Running(g),
               Mapped(g) => Mapped(g)'
        PROVE  TokenAt(g)'
    BY <1>0, <1>1 DEF TokenAt
  <1>2. CASE Act
    <2> DEFINE h == sock_gid[mev.ptr]
    <2>1. h \in Gid /\ do_task(h) /\ Mapped(h) /\ ~ Running(h)
      BY <1>2, ActedOn DEF Act, WatchedAt
    <2>2. /\ UNCHANGED <<gid2pair, wgid>> /\ mpc' = "events"
      BY <1>2 DEF Act
    <2> HIDE DEF h
    <2>3. Queued(g)' <=> Queued(g) \/ g = h
      BY <2>1, QueuedAfter
    <2>4. /\ ~ InMain(g)' /\ (Running(g)' <=> Running(g)) /\ (Mapped(g)' <=> Mapped(g))
      BY <2>2 DEF InMain, Running, Mapped
    <2>5. QED  BY <1>0, <2>1, <2>3, <2>4 DEF TokenAt
  <1>3. CASE MainClosed \/ AcceptTask
    <2>1. /\ mgid \in Gid /\ do_task(mgid) /\ InMain(mgid)
      BY <1>3 DEF MainClosed, AcceptTask, MainInv, InMain
    <2>2. Mapped(mgid) /\ ~ Running(mgid)
      BY <2>1 DEF TokenInv
    <2>3. UNCHANGED <<gid2pair, wgid>> /\ mpc' \in {"events", "accept"}
      BY <1>3 DEF MainClosed, AcceptTask
    <2>4. Queued(g)' <=> Queued(g) \/ g = mgid
      BY <2>1, QueuedAfter
    <2>5. /\ ~ InMain(g)' /\ (Running(g)' <=> Running(g)) /\ (Mapped(g)' <=> Mapped(g))
      BY <2>3 DEF InMain, Running, Mapped
    <2>6. QED  BY <1>0, <2>2, <2>4, <2>5 DEF TokenAt
  <1>4. CASE ActHup
    <2> DEFINE h == sock_gid[mev.ptr]
    <2>1. h \in Gid /\ Mapped(h) /\ ~ Running(h) /\ ~ Queued(h)
      BY <1>4, ActedOn DEF ActHup, WatchedAt
    <2>2. /\ UNCHANGED <<gid2pair, wgid, queue>>
          /\ mpc' = "events" \/ mgid' = h
      BY <1>4 DEF ActHup
    <2> HIDE DEF h
    <2>3. /\ InMain(g)' => g = h
          /\ (Running(g)' <=> Running(g)) /\ (Mapped(g)' <=> Mapped(g)) /\ (Queued(g)' <=> Queued(g))
      BY <2>2 DEF InMain, Running, Mapped, Queued
    <2>4. QED  BY <1>0, <2>1, <2>3 DEF TokenAt
  <1>5. CASE Accept
    <2>1. PICK s \in free_socket, fd \in FreeFd, h \in Gid :
             /\ AcceptOpens(s, fd, h)
             /\ AcceptRefuses(s) \/ \E c \in free_conn : AcceptMaps(s, c, h)
      BY <1>5, AcceptRound
    <2>2. (Queued(g)' <=> Queued(g)) /\ (Running(g)' <=> Running(g))
      BY <2>1 DEF AcceptOpens, Queued, Running
    <2>3. CASE AcceptRefuses(s)
      BY <1>1, <2>2, <2>3 DEF AcceptRefuses, InMain, Mapped
    <2>4. ASSUME NEW c \in free_conn, AcceptMaps(s, c, h)  PROVE TokenAt(g)'
      <3>1. ~ Mapped(h) /\ (InMain(g)' => g = h) /\ (Mapped(g)' <=> Mapped(g) \/ g = h)
        BY <2>4, MappedAfterAccept DEF AcceptMaps, InMain
      <3>2. QED  BY <1>0, <2>2, <3>1 DEF TokenAt
    <2>5. QED  BY <2>1, <2>3, <2>4
  <1>6. CASE MainStep
    <2>1. CASE Wait \/ Update \/ NextEvent \/ AcceptNone
      BY <1>1, <2>1 DEF Wait, Update, NextEvent, AcceptNone, Queued, Running, InMain, Mapped
    <2>2. CASE MainSetsClose \/ AcceptHook
      BY <1>1, <2>2 DEF MainSetsClose, AcceptHook, Queued, Running, InMain, Mapped
    <2>3. QED  BY <1>2, <1>3, <1>4, <1>5, <1>6, <2>1, <2>2 DEF MainStep
  <1>7. ASSUME NEW w \in Worker, HttpStep(w)  PROVE TokenAt(g)'
    <2>0. InMain(g)' <=> InMain(g)
      BY <1>7, HttpLocals DEF InMain
    <2>1. CASE Pop(w)
      <3> DEFINE h == Head(queue[w])
      <3>1. /\ h \in Gid /\ Queued(h) /\ (Queued(g)' <=> Queued(g) /\ g # h)
            /\ Running(g)' => Running(g) \/ g = h
        BY <2>1, PoppedAfter
      <3>2. Mapped(g)' <=> Mapped(g)
        BY <2>1 DEF Pop, Mapped
      <3> HIDE DEF h
      <3>3. QED  BY <1>0, <2>0, <3>1, <3>2 DEF TokenAt
    <2>2. CASE MarkTask(w)
      <3> DEFINE h == wgid[w]
      <3>1. h \in Gid /\ WorkerOf(h) = w /\ do_task(h) /\ UNCHANGED gid2pair
        BY <2>2 DEF MarkTask, TaskInv
      <3>2. wgid' = [wgid EXCEPT ![w] = 0]
        BY <2>2 DEF MarkTask, MarkReturns, Return, TaskStage, StageAt, TaskInv
      <3>3. Running(g)' <=> Running(g) /\ WorkerOf(g) # w
        BY <3>2, ReturnedAfter
      <3>4. Queued(g)' <=> Queued(g) \/ g = h
        BY <3>1, QueuedAfter
      <3>5. Running(h) /\ TokenAt(h)
        BY <3>1 DEF Running, TokenInv, TokenAt
      <3>6. Mapped(g)' <=> Mapped(g)
        BY <3>1 DEF Mapped
      <3> HIDE DEF h
      <3>7. QED  BY <1>0, <2>0, <3>1, <3>3, <3>4, <3>5, <3>6 DEF TokenAt
    <2>3. CASE RemoveClosed(w)
      <3> DEFINE h == wgid[w]
      <3>1. h \in Gid /\ WorkerOf(h) = w /\ UNCHANGED queue /\ wgid' = [wgid EXCEPT ![w] = 0]
        BY <2>3, Removes
      <3>2. Running(h)
        BY <3>1 DEF Running
      <3>3. Running(g)' <=> Running(g) /\ WorkerOf(g) # w
        BY <3>1, ReturnedAfter
      <3>4. Queued(g)' <=> Queued(g)
        BY <3>1 DEF Queued
      <3>5. Mapped(g)' <=> Mapped(g) /\ g # h
        BY <2>3, MappedAfterRemove
      <3> HIDE DEF h
      <3>6. QED  BY <1>0, <2>0, <3>1, <3>2, <3>3, <3>4, <3>5 DEF TokenAt
    <2>4. CASE UNCHANGED <<queue, gid2pair>> /\ (UNCHANGED wgid \/ wgid' = [wgid EXCEPT ![w] = 0])
      <3>1. Running(g)' => Running(g)
        BY <2>4, ReturnedAfter DEF Running
      <3>2. QED  BY <1>1, <2>0, <2>4, <3>1 DEF Queued, Mapped
    <2>5. QED
      BY <1>7, <2>1, <2>2, <2>3, <2>4 DEF HttpStep, Lookup, Check, SslAccepted, Rearm, GiveUp, MarkCheck,
         MarkSet, MarkReturns, Return
  <1>8. CASE UNCHANGED vars
    BY <1>1, <1>8 DEF Queued, InMain, Running, Mapped
  <1>9. QED  BY <1>6, <1>7, <1>8, HttpSteps

(* While it is one of these, epoll does not watch it. *)
LEMMA WatchedStep ==
    ASSUME TaskType = "HTTP_TASK", HttpInv, [Next]_vars
    PROVE  WatchedInv'
  <1> USE DEF HttpInv, WakeInv, Inv
  <1> SUFFICES ASSUME NEW s \in Socket, NEW g, g = sock_gid[s], NEW fd, fd = m_sockfd[s], Watched(s)'
               PROVE  WatchedAt(s, sock_gid[s])'
    BY DEF WatchedInv
  <1>1. ASSUME Watched(s)
        PROVE  /\ WatchedAt(s, g) /\ g \in Gid /\ fd \in Fd /\ s \notin free_socket
               /\ WorkerOf(g) \in Worker
    BY <1>1, Constants, WorkerOfGid DEF WatchedInv, Watched, SocketInv, TypeOK
  <1>2. ASSUME Watched(s), sock_gid'[s] = g, Mapped(g)', SocketOf(g)' = SocketOf(g),
               Queued(g)' => Queued(g), InMain(g)' => InMain(g), Running(g)' => Running(g),
               ~ (Armed(s)' /\ EventDue(s)')
        PROVE  WatchedAt(s, sock_gid[s])'
    BY <1>1, <1>2 DEF WatchedAt, Mapped, SocketOf, Queued, InMain, Running
  <1>3. CASE Wait
    <2>1. PICK ready \in SUBSET Armable, hup \in SUBSET Fd, l \in SUBSET {Listener} :
             WaitDelivers(ready, hup, l)
      BY <1>3, WaitBatch
    <2>2. /\ UNCHANGED <<socketVars, gid2pair, queue, wgid>>
          /\ mpc' = "update" /\ mpc = "wait" /\ batch = {}
      BY <1>3 DEF Wait, MainInv
    <2>3. s \notin free_socket /\ fd \in Fd
      BY <2>2 DEF Watched, SocketInv, TypeOK
    <2>4. ASSUME EventDue(s)'  PROVE fd \in ready /\ ~ Armed(s)'
      <3>1. PICK ev \in batch' : ev.ptr = s
        BY <2>2, <2>4 DEF EventDue
      <3>2. ev # Listener
        BY <3>1, Constants DEF Listener
      <3>3. PICK d \in ready : ev.ptr = reg[d].ptr
        BY <2>1, <3>2 DEF WaitDelivers
      <3>4. d \in Fd /\ reg[d] # Null /\ m_sockfd[reg[d].ptr] = d
        BY WatchedSocket DEF Armable
      <3>5. d = fd /\ reg[fd] \in [ptr : Socket, out : BOOLEAN, armed : BOOLEAN]
        BY <3>1, <3>3, <3>4 DEF TypeOK
      <3>6. ~ reg'[fd].armed
        BY <2>1, <2>3, <3>5, Disarmed DEF WaitDelivers
      <3>7. QED  BY <2>2, <3>5, <3>6 DEF Armed
    <2>5. ASSUME Armed(s)', fd \notin ready  PROVE Armed(s)
      BY <2>1, <2>2, <2>3, <2>5 DEF WaitDelivers, Armed
    <2>6. fd \in ready => Armed(s)
      BY <2>1 DEF Armable, Armed
    <2>7. Watched(s)
      BY <2>3, <2>4, <2>5, <2>6 DEF Watched
    <2>8. QED  BY <1>1, <1>2, <2>2, <2>4, <2>7 DEF WatchedAt, Mapped, SocketOf, Queued, InMain, Running
  <1>4. CASE Update
    <2>1. /\ UNCHANGED <<gid2pair, queue, wgid, batch, mgid>> /\ mpc = "update" /\ mpc' \in {"wait", "events"}
          /\ s \notin free_socket /\ s \notin ToSet(wait_remove)
      BY <1>4 DEF Update, Watched
    <2>2. sock_gid'[s] = g /\ m_sockfd'[s] = fd
      BY <1>4, <2>1 DEF Update
    <2>3. fd \in Fd
      BY <2>1 DEF SocketInv, TypeOK
    <2>4. Armed(s)' => Armed(s)
      BY <1>4, <2>2, <2>3 DEF Armed, Update
    <2>5. EventDue(s)' => EventDue(s)
      BY <2>1 DEF EventDue
    <2>6. Watched(s)
      BY <2>1, <2>4, <2>5 DEF Watched
    <2>7. QED
      BY <1>1, <1>2, <2>1, <2>2, <2>4, <2>5, <2>6 DEF WatchedAt, Mapped, SocketOf, Queued, InMain, Running
  <1>5. CASE NextEvent
    <2>1. /\ UNCHANGED <<socketVars, gid2pair, queue, wgid>> /\ mpc = "events"
      BY <1>5 DEF NextEvent
    <2>2. s \notin free_socket /\ fd \in Fd
      BY <2>1 DEF Watched, SocketInv, TypeOK
    <2>3. (Armed(s)' => Armed(s)) /\ (EventDue(s)' => EventDue(s))
      <3>1. CASE batch = {} /\ batch' = {} /\ mpc' = "wait" /\ UNCHANGED reg
        BY <2>1, <3>1 DEF Armed, EventDue
      <3>2. ASSUME NEW ev \in batch, batch' = batch \ {ev}, UNCHANGED removed_socket, UNCHANGED reg,
                   mpc' \in {"accept", "events"}
            PROVE  (Armed(s)' => Armed(s)) /\ (EventDue(s)' => EventDue(s))
        BY <2>1, <3>2 DEF Armed, EventDue
      <3>3. ASSUME NEW ev \in batch, batch' = batch \ {ev}, UNCHANGED removed_socket,
                   ev.ptr \notin removed_socket, mpc' = "act", mev' = ev, detach(ev.ptr)
            PROVE  (Armed(s)' => Armed(s)) /\ (EventDue(s)' => EventDue(s))
        <4>1. reg'[fd] = reg[fd] \/ reg'[fd] = Null
          BY <2>2, <3>3 DEF detach, TypeOK
        <4>2. Armed(s)' => Armed(s)
          BY <2>1, <4>1 DEF Armed
        <4>3. EventDue(s)' => EventDue(s)
          BY <3>3 DEF EventDue
        <4>4. QED  BY <4>2, <4>3
      <3>4. QED  BY <1>5, <3>1, <3>2, <3>3, NextEventCases
    <2>4. Watched(s)
      BY <2>2, <2>3 DEF Watched
    <2>5. mpc' \in {"wait", "accept", "events", "act"}
      BY <1>5, NextEventCases
    <2>6. QED
      BY <1>1, <1>2, <2>1, <2>3, <2>4, <2>5 DEF WatchedAt, Mapped, SocketOf, Queued, InMain, Running
  <1>6. CASE Act \/ ActHup
    <2> DEFINE t == mev.ptr
               h == sock_gid[mev.ptr]
    <2>1. /\ mpc = "act" /\ UNCHANGED <<reg, socketVars, gid2pair, batch, removed_socket, wgid>>
          /\ mpc' \in {"events", "mc_set"}
      BY <1>6 DEF Act, ActHup
    <2>2. /\ h \in Gid /\ WatchedAt(t, h) /\ ~ Armed(t) /\ \A e \in batch : e.ptr # t
      BY <2>1, ActedOn
    <2>3. (Armed(s)' => Armed(s)) /\ (EventDue(s)' => EventDue(s) /\ s # t)
      BY <2>1, <2>2 DEF Armed, EventDue
    <2>4. Watched(s) /\ s # t
      BY <2>1, <2>2, <2>3 DEF Watched
    <2>5. g # h /\ g \in Gid
      BY <1>1, <2>2, <2>4 DEF WatchedAt
    <2>6. Queued(g)' => Queued(g)
      <3>1. CASE Act
        <4>1. do_task(h)
          BY <3>1 DEF Act
        <4>2. QED  BY <2>2, <2>5, <4>1, QueuedAfter
      <3>2. CASE ActHup
        BY <3>2 DEF ActHup, Queued
      <3>3. QED  BY <1>6, <3>1, <3>2
    <2>7. ~ InMain(g)'
      BY <1>6, <2>5 DEF Act, ActHup, InMain
    <2>8. QED
      BY <1>1, <1>2, <2>1, <2>3, <2>4, <2>6, <2>7 DEF WatchedAt, Mapped, SocketOf, Running
  <1>7. ASSUME UNCHANGED <<reg, socketVars, batch, removed_socket>>, mpc \notin {"update", "act"},
               mpc' \notin {"update", "act"}
        PROVE  /\ Watched(s) /\ sock_gid'[s] = g /\ ~ (Armed(s)' /\ EventDue(s)')
    <2>1. (Armed(s)' <=> Armed(s)) /\ (EventDue(s)' <=> EventDue(s)) /\ (Watched(s)' <=> Watched(s))
      BY <1>7 DEF Armed, EventDue, Watched
    <2>2. QED  BY <1>1, <1>7, <2>1 DEF WatchedAt
  <1>8. CASE MainClosed \/ AcceptTask
    <2>1. Watched(s) /\ sock_gid'[s] = g /\ ~ (Armed(s)' /\ EventDue(s)')
      BY <1>7, <1>8 DEF MainClosed, AcceptTask
    <2>2. mgid \in Gid /\ InMain(mgid) /\ do_task(mgid) /\ UNCHANGED <<gid2pair, wgid>>
          /\ mpc' \in {"events", "accept"}
      BY <1>8 DEF MainClosed, AcceptTask, MainInv, InMain
    <2>3. g # mgid
      BY <1>1, <2>1, <2>2 DEF WatchedAt
    <2>4. Queued(g)' => Queued(g)
      BY <1>1, <2>1, <2>2, <2>3, QueuedAfter
    <2>5. QED
      BY <1>1, <1>2, <2>1, <2>2, <2>4 DEF WatchedAt, Mapped, SocketOf, Running, InMain
  <1>9. CASE MainSetsClose \/ AcceptHook \/ AcceptNone
    <2>1. Watched(s) /\ sock_gid'[s] = g /\ ~ (Armed(s)' /\ EventDue(s)')
      BY <1>7, <1>9 DEF MainSetsClose, AcceptHook, AcceptNone
    <2>2. UNCHANGED <<gid2pair, queue, wgid>> /\ (InMain(g)' => InMain(g))
      BY <1>9 DEF MainSetsClose, AcceptHook, AcceptNone, InMain
    <2>3. QED
      BY <1>1, <1>2, <2>1, <2>2 DEF WatchedAt, Mapped, SocketOf, Running, Queued
  <1>10. CASE Accept
    <2>1. PICK t \in free_socket, d \in FreeFd, h \in Gid :
             /\ AcceptOpens(t, d, h)
             /\ AcceptRefuses(t) \/ \E c \in free_conn : AcceptMaps(t, c, h)
      BY <1>10, AcceptRound
    <2>2. /\ mpc = "accept" /\ UNCHANGED <<reg, batch, removed_socket, queue, wgid>>
          /\ mpc' \in {"accept", "events", "first", "new"}
      BY <2>1 DEF AcceptOpens, AcceptRefuses, AcceptMaps
    <2>3. s # t
      <3>1. SUFFICES ASSUME s = t  PROVE FALSE
        OBVIOUS
      <3>2. m_sockfd'[s] = d /\ d \in Fd
        BY <2>1, <3>1 DEF AcceptOpens, FreeFd, TypeOK
      <3>3. reg[d] = Null
        BY <3>2, WatchedSocket DEF FreeFd
      <3>4. ~ Armed(s)'
        BY <2>2, <3>2, <3>3 DEF Armed
      <3>5. ~ EventDue(s)'
        <4>1. SUFFICES ASSUME NEW ev \in batch, ev.ptr = s, s \notin removed_socket  PROVE FALSE
          BY <2>2 DEF EventDue
        <4>2. ev # Listener
          BY <4>1, Constants DEF Listener
        <4>3. QED  BY <3>1, <4>1, <4>2 DEF EventInv, Fresh
      <3>6. QED  BY <3>4, <3>5 DEF Watched
    <2>4. /\ sock_gid'[s] = g /\ m_sockfd'[s] = fd /\ (s \in free_socket' <=> s \in free_socket)
      BY <2>1, <2>3 DEF AcceptOpens, TypeOK
    <2>5. (Armed(s)' <=> Armed(s)) /\ (EventDue(s)' <=> EventDue(s)) /\ (Watched(s)' <=> Watched(s))
      BY <2>2, <2>4 DEF Armed, EventDue, Watched
    <2>6. Watched(s) /\ WatchedAt(s, g) /\ g \in Gid
      BY <1>1, <2>5
    <2>7. Mapped(g)' /\ SocketOf(g)' = SocketOf(g) /\ ~ InMain(g)'
      <3>1. CASE AcceptRefuses(t)
        BY <2>6, <3>1 DEF AcceptRefuses, WatchedAt, Mapped, SocketOf, InMain
      <3>2. ASSUME NEW c \in free_conn, AcceptMaps(t, c, h)
            PROVE  Mapped(g)' /\ SocketOf(g)' = SocketOf(g) /\ ~ InMain(g)'
        <4>1. g # h /\ mgid' = h
          BY <2>6, <3>2 DEF AcceptMaps, WatchedAt
        <4>2. gid2pair'[g] = gid2pair[g]
          BY <2>6, <3>2, <4>1, MappedAfterAccept
        <4>3. QED  BY <2>6, <4>1, <4>2 DEF WatchedAt, Mapped, SocketOf, InMain
      <3>3. QED  BY <2>1, <3>1, <3>2
    <2>8. QED  BY <1>2, <2>2, <2>4, <2>5, <2>6, <2>7 DEF WatchedAt, Queued, Running
  <1>11. CASE MainStep
    BY <1>3, <1>4, <1>5, <1>6, <1>8, <1>9, <1>10, <1>11 DEF MainStep
  <1>12. ASSUME NEW w \in Worker, HttpStep(w)  PROVE WatchedAt(s, sock_gid[s])'
    <2>0. UNCHANGED <<socketVars, removed_socket, batch, mpc, mev, mgid>>
      BY <1>12, HttpLocals
    <2>1. (EventDue(s)' <=> EventDue(s)) /\ (InMain(g)' <=> InMain(g)) /\ s \notin free_socket
      BY <2>0 DEF EventDue, InMain, Watched
    <2>2. CASE Rearm(w)
      <3> DEFINE t == whold[w][1]
      <3>1. /\ UNCHANGED <<gid2pair, queue>> /\ wgid' = [wgid EXCEPT ![w] = 0] /\ whold[w] # Null
            /\ \E b \in BOOLEAN : attach(t, b)
        BY <2>2 DEF Rearm, Return, TaskInv
      <3>2. PICK b \in BOOLEAN : attach(t, b)
        BY <3>1
      <3>3. /\ t \in Socket \ free_socket /\ m_sockfd[t] \in Fd /\ sock_gid[t] = wgid[w]
            /\ wgid[w] \in Gid /\ WorkerOf(wgid[w]) = w /\ Mapped(wgid[w]) /\ SocketOf(wgid[w]) = t
        BY <3>1, Holds
      <3>4. Running(wgid[w])
        BY <3>3 DEF Running
      <3> HIDE DEF t
      <3>5. CASE s = t
        <4>1. g = wgid[w] /\ Running(g) /\ TokenAt(g) /\ WorkerOf(g) = w /\ g \in Gid
          BY <3>3, <3>4, <3>5 DEF TokenInv, TokenAt
        <4>2. ~ Watched(s)
          BY <1>1, <4>1 DEF WatchedAt
        <4>3. ~ EventDue(s)'
          BY <2>1, <4>2 DEF Watched
        <4>4. ~ Running(g)'
          BY <3>1, <4>1, ReturnedAfter
        <4>5. QED
          BY <2>0, <2>1, <3>1, <3>3, <3>5, <4>1, <4>3, <4>4 DEF WatchedAt, TokenAt, Mapped, SocketOf, Queued,
             InMain, Running
      <3>6. CASE s # t
        <4>1. fd \in Fd /\ fd # m_sockfd[t]
          BY <2>1, <3>3, <3>6, Constants DEF SocketInv, TypeOK
        <4>2. reg'[fd] = reg[fd]
          BY <3>2, <4>1 DEF attach, TypeOK
        <4>3. Armed(s)' <=> Armed(s)
          BY <2>0, <4>2 DEF Armed
        <4>4. Watched(s)
          BY <2>0, <2>1, <4>3 DEF Watched
        <4>5. Running(g)' => Running(g)
          BY <1>1, <3>1, <4>4, ReturnedAfter
        <4>6. QED
          BY <1>1, <1>2, <2>0, <2>1, <3>1, <4>3, <4>4, <4>5 DEF WatchedAt, Mapped, SocketOf, Queued
      <3>7. QED  BY <3>5, <3>6
    <2>3. ASSUME UNCHANGED reg  PROVE Watched(s) /\ sock_gid'[s] = g /\ ~ (Armed(s)' /\ EventDue(s)')
      <3>1. Armed(s)' <=> Armed(s)
        BY <2>0, <2>3 DEF Armed
      <3>2. Watched(s)
        BY <2>0, <2>1, <3>1 DEF Watched
      <3>3. QED  BY <1>1, <2>0, <2>1, <3>1, <3>2 DEF WatchedAt
    <2>4. CASE Pop(w)
      <3>1. Watched(s) /\ sock_gid'[s] = g /\ ~ (Armed(s)' /\ EventDue(s)') /\ UNCHANGED gid2pair
        BY <2>3, <2>4 DEF Pop
      <3> DEFINE h == Head(queue[w])
      <3>2. /\ h \in Gid /\ Queued(h) /\ (Queued(g)' <=> Queued(g) /\ g # h)
            /\ Running(g)' => Running(g) \/ g = h
        BY <1>1, <2>4, <3>1, PoppedAfter
      <3> HIDE DEF h
      <3>3. g # h
        BY <1>1, <3>1, <3>2 DEF WatchedAt
      <3>4. QED  BY <1>1, <1>2, <2>1, <3>1, <3>2, <3>3 DEF WatchedAt, Mapped, SocketOf
    <2>5. CASE RemoveClosed(w)
      <3>1. /\ wgid[w] \in Gid /\ WorkerOf(wgid[w]) = w /\ UNCHANGED <<reg, queue>>
            /\ wgid' = [wgid EXCEPT ![w] = 0]
        BY <2>5, Removes
      <3>2. Watched(s) /\ sock_gid'[s] = g /\ ~ (Armed(s)' /\ EventDue(s)')
        BY <2>3, <3>1
      <3>3. g # wgid[w] /\ g \in Gid
        BY <1>1, <3>1, <3>2 DEF WatchedAt, Running
      <3>4. Mapped(g)' /\ SocketOf(g)' = SocketOf(g)
        BY <1>1, <2>5, <3>2, <3>3, MappedAfterRemove DEF WatchedAt
      <3>5. Running(g)' => Running(g)
        BY <3>1, <3>3, ReturnedAfter
      <3>6. QED  BY <1>2, <2>1, <3>1, <3>2, <3>4, <3>5 DEF Queued
    <2>6. CASE MarkTask(w)
      <3> DEFINE h == wgid[w]
      <3>1. h \in Gid /\ WorkerOf(h) = w /\ do_task(h) /\ UNCHANGED <<gid2pair, reg>>
        BY <2>6 DEF MarkTask, TaskInv
      <3>2. wgid' = [wgid EXCEPT ![w] = 0]
        BY <2>6 DEF MarkTask, MarkReturns, Return, TaskStage, StageAt, TaskInv
      <3>3. Watched(s) /\ sock_gid'[s] = g /\ ~ (Armed(s)' /\ EventDue(s)')
        BY <2>3, <3>1
      <3>4. g # h /\ g \in Gid
        BY <1>1, <3>1, <3>3 DEF WatchedAt, Running
      <3>5. Running(g)' => Running(g)
        BY <3>2, <3>4, ReturnedAfter
      <3>6. Queued(g)' => Queued(g)
        BY <3>1, <3>4, QueuedAfter
      <3> HIDE DEF h
      <3>7. QED  BY <1>1, <1>2, <2>1, <3>1, <3>3, <3>5, <3>6 DEF WatchedAt, Mapped, SocketOf
    <2>7. CASE UNCHANGED <<reg, queue, gid2pair>> /\ (UNCHANGED wgid \/ wgid' = [wgid EXCEPT ![w] = 0])
      <3>1. Watched(s) /\ sock_gid'[s] = g /\ ~ (Armed(s)' /\ EventDue(s)')
        BY <2>3, <2>7
      <3>2. Running(g)' => Running(g)
        BY <1>1, <2>7, <3>1, ReturnedAfter DEF Running
      <3>3. QED  BY <1>1, <1>2, <2>1, <2>7, <3>1, <3>2 DEF WatchedAt, Mapped, SocketOf, Queued
    <2>8. QED
      BY <1>12, <2>2, <2>4, <2>5, <2>6, <2>7 DEF HttpStep, Lookup, Check, SslAccepted, GiveUp, MarkCheck,
         MarkSet, MarkReturns, Return
  <1>13. CASE UNCHANGED vars
    <2>1. Watched(s) /\ WatchedAt(s, g) /\ sock_gid' = sock_gid
      BY <1>1, <1>13 DEF Watched, Armed, EventDue
    <2>2. QED
      BY <1>13, <2>1 DEF WatchedAt, Mapped, SocketOf, Queued, InMain, Running, Armed, EventDue
  <1>14. QED  BY <1>11, <1>12, <1>13, HttpSteps

-----------------------------------------------------------------------------
(* The theorem. *)

(* No connection has a token yet. *)
LEMMA HttpInit == Init => HttpInv
  <1> SUFFICES ASSUME Init  PROVE HttpInv
    OBVIOUS
  <1>1. \A g \in Gid : ~ Queued(g) /\ ~ InMain(g) /\ ~ Running(g)
    BY Constants, WorkerOfGid DEF Init, Queued, InMain, Running, ToSet
  <1>2. QueuedOnce /\ BatchInv
    BY DEF Init, QueuedOnce, BatchInv
  <1>3. TokenInv /\ WatchedInv
    BY <1>1 DEF Init, TokenInv, WatchedInv, Watched
  <1>4. QED  BY <1>2, <1>3, WakeInit DEF HttpInv

(* http_task has its connection to itself: when the main loop's mark_close *)
(* clears a connection's buffers no task is working on them.  on_mark_close*)
(* runs in the main thread only for a socket whose event was delivered,    *)
(* epoll delivers a ONESHOT event once per attach, and http_task attaches  *)
(* as the last thing it does with the connection.                          *)
THEOREM HttpBuffersAreExclusive ==
    ASSUME TaskType = "HTTP_TASK"
    PROVE  Spec => []BuffersExclusive
  <1>1. HttpInv /\ [Next]_vars => HttpInv'
    BY WakeStep, OnceStep, BatchStep, TokenStep, WatchedStep DEF HttpInv, WakeInv
  <1>2. HttpInv => BuffersExclusive
    <2> SUFFICES ASSUME HttpInv, mpc = "mc_task"
                 PROVE  ~ Runs(mgid, {"upgrade", "recv", "process", "sending", "send"})
      BY DEF BuffersExclusive
    <2>1. mgid \in Gid /\ InMain(mgid)
      BY DEF HttpInv, WakeInv, Inv, MainInv, InMain
    <2>2. QED  BY <2>1 DEF HttpInv, TokenInv, Running, Runs
  <1>3. QED  BY <1>1, <1>2, HttpInit, PTL DEF Spec
=============================================================================
