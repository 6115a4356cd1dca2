---------------------------- MODULE TaskDispatch ----------------------------
(***************************************************************************)
(* How a wake-up of a connection becomes one run of its task:              *)
(*   socket_handler::do_task  takes a task object from the blocking pool,  *)
(*   worker_pool::assign      picks the worker gid % size,                 *)
(*   worker::push             drops the task if the worker is stopping,    *)
(*   task_queue::push         drops it if the gid is already queued,       *)
(*   worker::run              pops, runs and destroys tasks one at a time, *)
(*   worker_pool::stop        ends the workers one after the other.        *)
(*                                                                         *)
(* The callers of do_task are the main thread (an accepted connection, an  *)
(* epoll event, a mark_close) and the worker threads while they run a task *)
(* (send(), on_mark_close(), an unfinished read): each may call it for any *)
(* gid.  A step is one critical section of a mutex, or one access to a     *)
(* flag that the code shares without a mutex (stop_flag, m_stoped).        *)
(***************************************************************************)
EXTENDS Naturals, Sequences, FiniteSets

CONSTANTS
    NW,         \* worker threads, worker_pool::create's size
    Gid,        \* the connection ids in use
    Task,       \* the objects of the task pool
    nullptr,    \* the stop sentinel of worker::stop
    MaxSends    \* bound: do_task calls made during one run of a task

ASSUME NWAssumption == NW \in Nat \ {0}
ASSUME GidAssumption == Gid \subseteq Nat \ {0} /\ IsFiniteSet(Gid)
ASSUME TaskAssumption == nullptr \notin Task
ASSUME MaxSendsAssumption == MaxSends \in Nat

Worker == 0 .. NW - 1
Main == NW
Thread == 0 .. NW

VARIABLES
    m_set,      \* object_pool<task>: the free objects
    task_gid,   \* task::m_gid of every object in use (0: free, its gid is dead)
    m_task,     \* task_queue::m_task of every worker
    m_in_task,  \* task_queue::m_in_task: the gids queued
    stop_flag,  \* thread::stop_flag of every worker
    m_stoped,   \* worker::m_stoped
    wpc,        \* where worker::run is
    cur,        \* will_run_task
    sends,      \* do_task calls made by the current run
    cpc,        \* where a thread is inside do_task
    cgid,       \* do_task's argument until set_gid has stored it
    ctask,      \* do_task's new_task
    mpc,        \* where the main thread is
    stopping,   \* worker_pool::stop: the worker being stopped
    to_stop     \* worker_pool::stop: workers its loop has not reached

poolVars == <<m_set, task_gid>>
queueVars == <<m_task, m_in_task>>
runVars == <<wpc, cur, sends>>
callVars == <<cpc, cgid, ctask>>
stopVars == <<mpc, stopping, to_stop>>
vars == <<poolVars, queueVars, stop_flag, m_stoped, runVars, callVars, stopVars>>

WorkerOf(g) == g % NW

Queued(w) == {i \in 1 .. Len(m_task[w]) : m_task[w][i] # nullptr}

TypeOK ==
    /\ m_set \subseteq Task
    /\ task_gid \in [Task -> Gid \cup {0}]
    /\ m_task \in [Worker -> Seq(Task \cup {nullptr})]
    /\ m_in_task \in [Worker -> SUBSET Gid]
    /\ stop_flag \in [Worker -> BOOLEAN]
    /\ m_stoped \in [Worker -> BOOLEAN]
    /\ wpc \in [Worker -> {"start", "pop", "check", "run", "destory", "exited"}]
    /\ cur \in [Worker -> Task \cup {nullptr}]
    /\ sends \in [Worker -> 0 .. MaxSends]
    /\ cpc \in [Thread -> {"none", "allocate", "flag", "push", "release"}]
    /\ cgid \in [Thread -> Gid \cup {0}]
    /\ ctask \in [Thread -> Task \cup {nullptr}]
    /\ mpc \in {"loop", "stop_push", "stop_flag", "stop_wait", "done"}
    /\ stopping \in Worker
    /\ to_stop \subseteq Worker

(* The pools are filled and worker_pool::create has started the threads,   *)
(* none of which has reached the first line of worker::run yet.            *)
Init ==
    /\ m_set = Task
    /\ task_gid = [t \in Task |-> 0]
    /\ m_task = [w \in Worker |-> <<>>]
    /\ m_in_task = [w \in Worker |-> {}]
    /\ stop_flag = [w \in Worker |-> FALSE]
    /\ m_stoped = [w \in Worker |-> TRUE]
    /\ wpc = [w \in Worker |-> "start"]
    /\ cur = [w \in Worker |-> nullptr]
    /\ sends = [w \in Worker |-> 0]
    /\ cpc = [th \in Thread |-> "none"]
    /\ cgid = [th \in Thread |-> 0]
    /\ ctask = [th \in Thread |-> nullptr]
    /\ mpc = "loop"
    /\ stopping = 0
    /\ to_stop = Worker

-----------------------------------------------------------------------------
(* do_task, step by step, in thread th. *)

(* The main loop handles an event, or a running task sends or closes.      *)
MainCalls(g) ==
    /\ mpc = "loop"
    /\ cpc[Main] = "none"
    /\ cpc' = [cpc EXCEPT ![Main] = "allocate"]
    /\ cgid' = [cgid EXCEPT ![Main] = g]
    /\ UNCHANGED <<poolVars, queueVars, stop_flag, m_stoped, runVars, ctask, stopVars>>

TaskCalls(w, g) ==
    /\ wpc[w] = "run"
    /\ cpc[w] = "none"
    /\ sends[w] < MaxSends
    /\ sends' = [sends EXCEPT ![w] = @ + 1]
    /\ cpc' = [cpc EXCEPT ![w] = "allocate"]
    /\ cgid' = [cgid EXCEPT ![w] = g]
    /\ UNCHANGED <<poolVars, queueVars, stop_flag, m_stoped, wpc, cur, ctask, stopVars>>

(* task_mgr::create: object_pool::allocate waits while the pool is empty,  *)
(* takes any object (m_set is an unordered_set), then set_gid.             *)
Allocate(th) ==
    /\ cpc[th] = "allocate"
    /\ \E t \in m_set :
          /\ m_set' = m_set \ {t}
          /\ task_gid' = [task_gid EXCEPT ![t] = cgid[th]]
          /\ ctask' = [ctask EXCEPT ![th] = t]
    /\ cpc' = [cpc EXCEPT ![th] = "flag"]
    /\ cgid' = [cgid EXCEPT ![th] = 0]
    /\ UNCHANGED <<queueVars, stop_flag, m_stoped, runVars, stopVars>>

(* worker::push reads stop_flag of the worker assign chose, without a lock. *)
TestStopFlag(th) ==
    /\ cpc[th] = "flag"
    /\ cpc' = [cpc EXCEPT ![th] = IF stop_flag[WorkerOf(task_gid[ctask[th]])]
                                  THEN "release" ELSE "push"]
    /\ UNCHANGED <<poolVars, queueVars, stop_flag, m_stoped, runVars, cgid, ctask, stopVars>>

(* Mutants of PushTask: a refused task is not given back; no refusal of a  *)
(* gid already queued; the worker with the shortest queue, not gid % size. *)
PushTaskLeaks(th) ==
    LET t == ctask[th]
        g == task_gid[t]
        w == WorkerOf(g)
    IN  /\ cpc[th] = "push"
        /\ IF g \in m_in_task[w]
           THEN UNCHANGED queueVars
           ELSE /\ m_task' = [m_task EXCEPT ![w] = Append(@, t)]
                /\ m_in_task' = [m_in_task EXCEPT ![w] = @ \cup {g}]
        /\ cpc' = [cpc EXCEPT ![th] = "none"]
        /\ ctask' = [ctask EXCEPT ![th] = nullptr]
        /\ UNCHANGED <<poolVars, stop_flag, m_stoped, runVars, cgid, stopVars>>

PushTaskTo(th, w) ==
    /\ cpc[th] = "push"
    /\ m_task' = [m_task EXCEPT ![w] = Append(@, ctask[th])]
    /\ m_in_task' = [m_in_task EXCEPT ![w] = @ \cup {task_gid[ctask[th]]}]
    /\ cpc' = [cpc EXCEPT ![th] = "none"]
    /\ ctask' = [ctask EXCEPT ![th] = nullptr]
    /\ UNCHANGED <<poolVars, stop_flag, m_stoped, runVars, cgid, stopVars>>

PushTaskAlways(th) == PushTaskTo(th, WorkerOf(task_gid[ctask[th]]))

PushTaskShortest(th) ==
    cpc[th] = "push" /\ \E w \in Worker :
        /\ \A v \in Worker : Len(m_task[w]) <= Len(m_task[v])
        /\ task_gid[ctask[th]] \notin m_in_task[w]
        /\ PushTaskTo(th, w)

(* task_queue::push of a task, under the queue's mutex. *)
PushTask(th) ==
    LET t == ctask[th]
        g == task_gid[t]
        w == WorkerOf(g)
    IN  /\ cpc[th] = "push"
        /\ IF g \in m_in_task[w]
           THEN /\ cpc' = [cpc EXCEPT ![th] = "release"]
                /\ UNCHANGED <<queueVars, ctask>>
           ELSE /\ m_task' = [m_task EXCEPT ![w] = Append(@, t)]
                /\ m_in_task' = [m_in_task EXCEPT ![w] = @ \cup {g}]
                /\ cpc' = [cpc EXCEPT ![th] = "none"]
                /\ ctask' = [ctask EXCEPT ![th] = nullptr]
        /\ UNCHANGED <<poolVars, stop_flag, m_stoped, runVars, cgid, stopVars>>

(* Mutant of ReleaseUnqueued: a task that was refused is pushed again. *)
PushAgain(th) ==
    /\ cpc[th] = "release"
    /\ cpc' = [cpc EXCEPT ![th] = "flag"]
    /\ UNCHANGED <<poolVars, queueVars, stop_flag, m_stoped, runVars, cgid, ctask, stopVars>>

(* task_destory_impl::execute of a task that was not queued. *)
ReleaseUnqueued(th) ==
    /\ cpc[th] = "release"
    /\ m_set' = m_set \cup {ctask[th]}
    /\ task_gid' = [task_gid EXCEPT ![ctask[th]] = 0]
    /\ cpc' = [cpc EXCEPT ![th] = "none"]
    /\ ctask' = [ctask EXCEPT ![th] = nullptr]
    /\ UNCHANGED <<queueVars, stop_flag, m_stoped, runVars, cgid, stopVars>>

DoTask(th) == Allocate(th) \/ TestStopFlag(th) \/ PushTask(th) \/ ReleaseUnqueued(th)

-----------------------------------------------------------------------------
(* worker::run. *)

RunBegin(w) ==
    /\ wpc[w] = "start"
    /\ wpc' = [wpc EXCEPT ![w] = "pop"]
    /\ m_stoped' = [m_stoped EXCEPT ![w] = FALSE]
    /\ UNCHANGED <<poolVars, queueVars, stop_flag, cur, sends, callVars, stopVars>>

(* Mutants of Pop: the gid stays in m_in_task; the last task is taken. *)
PopKeepsGid(w) ==
    /\ wpc[w] = "pop"
    /\ m_task[w] # <<>>
    /\ m_task' = [m_task EXCEPT ![w] = Tail(@)]
    /\ cur' = [cur EXCEPT ![w] = Head(m_task[w])]
    /\ wpc' = [wpc EXCEPT ![w] = "check"]
    /\ UNCHANGED <<poolVars, m_in_task, stop_flag, m_stoped, sends, callVars, stopVars>>

PopBack(w) ==
    /\ wpc[w] = "pop"
    /\ m_task[w] # <<>>
    /\ LET t == m_task[w][Len(m_task[w])]
       IN  /\ m_task' = [m_task EXCEPT ![w] = SubSeq(@, 1, Len(@) - 1)]
           /\ cur' = [cur EXCEPT ![w] = t]
           /\ m_in_task' = IF t = nullptr THEN m_in_task
                           ELSE [m_in_task EXCEPT ![w] = @ \ {task_gid[t]}]
    /\ wpc' = [wpc EXCEPT ![w] = "check"]
    /\ UNCHANGED <<poolVars, stop_flag, m_stoped, sends, callVars, stopVars>>

(* task_queue::pop waits while the queue is empty. *)
Pop(w) ==
    /\ wpc[w] = "pop"
    /\ m_task[w] # <<>>
    /\ LET t == Head(m_task[w])
       IN  /\ m_task' = [m_task EXCEPT ![w] = Tail(@)]
           /\ cur' = [cur EXCEPT ![w] = t]
           /\ m_in_task' = IF t = nullptr THEN m_in_task
                           ELSE [m_in_task EXCEPT ![w] = @ \ {task_gid[t]}]
    /\ wpc' = [wpc EXCEPT ![w] = "check"]
    /\ UNCHANGED <<poolVars, stop_flag, m_stoped, sends, callVars, stopVars>>

(* Mutant of CheckStop: the sentinel is run like a task. *)
CheckStopFlagOnly(w) ==
    /\ wpc[w] = "check"
    /\ IF stop_flag[w]
       THEN /\ m_stoped' = [m_stoped EXCEPT ![w] = TRUE]
            /\ wpc' = [wpc EXCEPT ![w] = "exited"]
       ELSE /\ wpc' = [wpc EXCEPT ![w] = "run"]
            /\ UNCHANGED m_stoped
    /\ sends' = [sends EXCEPT ![w] = 0]
    /\ UNCHANGED <<poolVars, queueVars, stop_flag, cur, callVars, stopVars>>

(* The sentinel, or stop_flag, ends the thread.  A task popped after       *)
(* stop_flag was set stays in cur: it is neither run nor destroyed.        *)
CheckStop(w) ==
    /\ wpc[w] = "check"
    /\ IF cur[w] = nullptr \/ stop_flag[w]
       THEN /\ m_stoped' = [m_stoped EXCEPT ![w] = TRUE]
            /\ wpc' = [wpc EXCEPT ![w] = "exited"]
       ELSE /\ wpc' = [wpc EXCEPT ![w] = "run"]
            /\ UNCHANGED m_stoped
    /\ sends' = [sends EXCEPT ![w] = 0]
    /\ UNCHANGED <<poolVars, queueVars, stop_flag, cur, callVars, stopVars>>

(* task::run returns; between CheckStop and here it may call do_task. *)
RunReturns(w) ==
    /\ wpc[w] = "run"
    /\ cpc[w] = "none"
    /\ wpc' = [wpc EXCEPT ![w] = "destory"]
    /\ UNCHANGED <<poolVars, queueVars, stop_flag, m_stoped, cur, sends, callVars, stopVars>>

(* m_destory_ptr->execute: back to the pool. *)
Destory(w) ==
    /\ wpc[w] = "destory"
    /\ m_set' = m_set \cup {cur[w]}
    /\ task_gid' = [task_gid EXCEPT ![cur[w]] = 0]
    /\ cur' = [cur EXCEPT ![w] = nullptr]
    /\ wpc' = [wpc EXCEPT ![w] = "pop"]
    /\ UNCHANGED <<queueVars, stop_flag, m_stoped, sends, callVars, stopVars>>

WorkerStep(w) ==
    \/ RunBegin(w) \/ Pop(w) \/ CheckStop(w) \/ RunReturns(w) \/ Destory(w)

-----------------------------------------------------------------------------
(* worker_pool::stop, called by the main thread between two events.  The   *)
(* map of workers is unordered, so its loop may visit them in any order.   *)

StopNext ==
    /\ mpc = "loop" \/ (mpc = "stop_wait" /\ m_stoped[stopping])
    /\ cpc[Main] = "none"
    /\ IF to_stop = {}
       THEN mpc' = "done" /\ UNCHANGED <<stopping, to_stop>>
       ELSE \E w \in to_stop :
              /\ stopping' = w
              /\ to_stop' = to_stop \ {w}
              /\ mpc' = "stop_push"
    /\ UNCHANGED <<poolVars, queueVars, stop_flag, m_stoped, runVars, callVars>>

(* Mutant of StopPush: nothing wakes a worker that waits in pop. *)
StopPushNothing ==
    /\ mpc = "stop_push"
    /\ mpc' = "stop_flag"
    /\ UNCHANGED <<poolVars, queueVars, stop_flag, m_stoped, runVars, callVars, stopping, to_stop>>

(* worker::stop: push(nullptr); the sentinel is never refused. *)
StopPush ==
    /\ mpc = "stop_push"
    /\ m_task' = [m_task EXCEPT ![stopping] = Append(@, nullptr)]
    /\ mpc' = "stop_flag"
    /\ UNCHANGED <<poolVars, m_in_task, stop_flag, m_stoped, runVars, callVars, stopping, to_stop>>

StopFlag ==
    /\ mpc = "stop_flag"
    /\ stop_flag' = [stop_flag EXCEPT ![stopping] = TRUE]
    /\ mpc' = "stop_wait"
    /\ UNCHANGED <<poolVars, queueVars, m_stoped, runVars, callVars, stopping, to_stop>>

(* The loop that polls m_stoped every 100 ms. *)
StopWait ==
    /\ mpc = "stop_wait"
    /\ ~ m_stoped[stopping]
    /\ UNCHANGED vars

StopStep == StopNext \/ StopPush \/ StopFlag \/ StopWait

(* handle() has returned and the process ends. *)
Terminated ==
    /\ mpc = "done"
    /\ UNCHANGED vars

Next ==
    \/ \E g \in Gid : MainCalls(g)
    \/ \E w \in Worker, g \in Gid : TaskCalls(w, g)
    \/ \E th \in Thread : DoTask(th)
    \/ \E w \in Worker : WorkerStep(w)
    \/ StopStep
    \/ Terminated

Spec == Init /\ [][Next]_vars

(* The scheduler runs every thread that can run; events need not arrive    *)
(* and a stop need not be requested, but a stop once begun goes on.        *)
FairSpec ==
    /\ Spec
    /\ \A th \in Thread : WF_vars(DoTask(th))
    /\ \A w \in Worker : WF_vars(WorkerStep(w))
    /\ WF_vars(mpc # "loop" /\ StopStep)

-----------------------------------------------------------------------------
(* Properties. *)

(* Where a task object can be: free, in the hands of a do_task call, held  *)
(* by worker::run, or at a position of a queue.                            *)
Places(t) ==
    {<<"free", 0, 0>> : x \in m_set \cap {t}}
    \cup {<<"call", th, 0>> : th \in {x \in Thread : ctask[x] = t}}
    \cup {<<"cur", w, 0>> : w \in {x \in Worker : cur[x] = t}}
    \cup UNION {{<<"queue", w, i>> : i \in {j \in Queued(w) : m_task[w][j] = t}} :
                w \in Worker}

(* A task object is in exactly one place: whatever the interleaving of     *)
(* do_task, the queue's refusals, worker::run and stop, no object is       *)
(* queued twice, run by two workers, released while it is queued or run,   *)
(* or lost.                                                                *)
OneOwner == \A t \in Task : \E p \in Places(t) : Places(t) = {p}

(* m_in_task is exactly the set of gids of the queued tasks, each queued   *)
(* once: so a push that task_queue::push refuses always leaves a task of   *)
(* that gid in the queue, not yet started, and the wake-up is not lost.    *)
InTaskExact ==
    \A w \in Worker :
        /\ m_in_task[w] = {task_gid[m_task[w][i]] : i \in Queued(w)}
        /\ \A i, j \in Queued(w) :
              task_gid[m_task[w][i]] = task_gid[m_task[w][j]] => i = j

(* The connections whose tasks are queued at, or in the hands of, w. *)
GidsAt(w) ==
    {task_gid[m_task[w][i]] : i \in Queued(w)}
    \cup {task_gid[cur[x]] : x \in {v \in {w} : cur[v] # nullptr}}

(* All tasks of a connection are queued at and run by one worker: two      *)
(* tasks of a connection never run at the same time, which is the only     *)
(* mutual exclusion the task bodies have.                                  *)
GidSerial == \A w, v \in Worker : w # v => GidsAt(w) \cap GidsAt(v) = {}

(* The pool blocks its callers, and do_task is called by the very threads   *)
(* that give objects back.  With more objects than gids and workers        *)
(* together, an empty pool always means that some thread is inside         *)
(* do_task with an object in hand: one that does not wait, and that either *)
(* releases the object or queues it.  So never is everyone waiting.        *)
PoolProgress ==
    Cardinality(Task) > Cardinality(Gid) + NW /\ m_set = {}
        => \E th \in Thread : ctask[th] # nullptr

(* A task of connection g is running. *)
Runs(g) ==
    LET w == WorkerOf(g) IN wpc[w] = "run" /\ task_gid[cur[w]] = g

(* A wake-up is not lost: a connection that task_queue::push has queued,   *)
(* or found queued already, has its task run by worker::run in the end,    *)
(* unless the worker is stopped.                                           *)
QueuedRuns ==
    \A g \in Gid :
        (g \in m_in_task[WorkerOf(g)]) ~> (Runs(g) \/ stop_flag[WorkerOf(g)])

(* The main thread and the workers that have connections call do_task. *)
Caller == {Main} \cup {WorkerOf(g) : g \in Gid}

(* Every do_task call returns: no caller is left waiting for a task object. *)
CallsReturn == \A th \in Caller : (cpc[th] # "none") ~> (cpc[th] = "none")

(* worker_pool::stop returns: every worker it waits for reports m_stoped.  *)
StopCompletes == (mpc # "loop") ~> (mpc = "done")

(* What the callers of do_task see of the pool, the queues and the stop:   *)
(* the gids queued, the calls under way and what each worker has taken.    *)
GidOf(t) == IF t = nullptr THEN 0 ELSE task_gid[t]

QueueSeen == [w \in Worker |-> [i \in 1 .. Len(m_task[w]) |-> GidOf(m_task[w][i])]]

CallSeen ==
    [th \in Thread |-> IF cpc[th] = "allocate" THEN cgid[th]
                       ELSE IF cpc[th] \in {"flag", "push"} THEN task_gid[ctask[th]]
                       ELSE 0]

TakenSeen ==
    [w \in Worker |-> IF wpc[w] = "exited" THEN <<0>>
                      ELSE IF wpc[w] \in {"check", "run"} THEN <<GidOf(cur[w])>>
                      ELSE <<>>]

StageSeen ==
    [w \in Worker |-> IF stop_flag[w] THEN "ended"
                      ELSE IF mpc = "stop_flag" /\ stopping = w THEN "asked"
                      ELSE "up"]

Seen == INSTANCE WakeUps WITH
            queue <- QueueSeen, call <- CallSeen, taken <- TakenSeen, stage <- StageSeen

(* A call of do_task, with its wait for an object, its unlocked test of    *)
(* stop_flag, its push and its release, has the effect of one step, and    *)
(* the workers answer the wake-ups one by one and in order, from many      *)
(* threads at once and while the workers are being stopped.                *)
IsWakeUps == Seen!Spec

(* worker::stop sets stop_flag and waits, with the comment                 *)
(* "wait task_queue empty": the queue of a worker that has stopped holds   *)
(* no task.                                                                *)
StopDrains == \A w \in Worker : wpc[w] = "exited" => Queued(w) = {}
=============================================================================
