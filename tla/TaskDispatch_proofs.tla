------------------------ MODULE TaskDispatch_proofs ------------------------
(***************************************************************************)
(* Machine-checked proofs about TaskDispatch, for any number of workers,   *)
(* gids and task objects.                                                  *)
(***************************************************************************)
EXTENDS TaskDispatch, FiniteSetTheorems, TLAPS

-----------------------------------------------------------------------------
(* The inductive invariant: TypeOK, and facts that the steps need of      *)
(* each other.                                                             *)

(* A do_task call has an object exactly between allocate and the moment it *)
(* has queued or released it, and that object carries the call's gid.      *)
CallInv ==
    \A th \in Thread :
        /\ (ctask[th] # nullptr) <=> (cpc[th] \in {"flag", "push", "release"})
        /\ cpc[th] = "allocate" => cgid[th] \in Gid
        /\ ctask[th] # nullptr => task_gid[ctask[th]] \in Gid

(* worker::run holds an object exactly from pop to destory, or for ever    *)
(* when it left the loop with one; it calls do_task only while it runs one. *)
RunInv ==
    \A w \in Worker :
        /\ wpc[w] \in {"start", "pop"} => cur[w] = nullptr
        /\ wpc[w] \in {"run", "destory"} => cur[w] # nullptr
        /\ cpc[w] # "none" => wpc[w] = "run"

(* Every task a worker has queued or holds carries a gid that selects it.  *)
AffinityAt(w) ==
    /\ cur[w] # nullptr =>
          task_gid[cur[w]] \in Gid /\ WorkerOf(task_gid[cur[w]]) = w
    /\ \A i \in 1 .. Len(m_task[w]) : m_task[w][i] # nullptr =>
          task_gid[m_task[w][i]] \in Gid /\ WorkerOf(task_gid[m_task[w][i]]) = w

Affinity == \A w \in Worker : AffinityAt(w)

(* No two places hold the same object ... *)
FreeExcl ==
    \A t \in m_set :
        /\ \A th \in Thread : ctask[th] # t
        /\ \A w \in Worker : cur[w] # t
        /\ \A w \in Worker : \A i \in 1 .. Len(m_task[w]) : m_task[w][i] # t

CallExcl ==
    \A th \in Thread : ctask[th] # nullptr =>
        /\ \A u \in Thread : ctask[u] = ctask[th] => u = th
        /\ \A w \in Worker : cur[w] # ctask[th]
        /\ \A w \in Worker : \A i \in 1 .. Len(m_task[w]) : m_task[w][i] # ctask[th]

CurExcl ==
    \A w \in Worker : cur[w] # nullptr =>
        /\ \A v \in Worker : cur[v] = cur[w] => v = w
        /\ \A v \in Worker : \A i \in 1 .. Len(m_task[v]) : m_task[v][i] # cur[w]

QueueExcl ==
    \A w, v \in Worker : \A i \in 1 .. Len(m_task[w]), j \in 1 .. Len(m_task[v]) :
        m_task[w][i] # nullptr /\ m_task[w][i] = m_task[v][j] => w = v /\ i = j

(* ... and every object is somewhere. *)
NoLossOf(t) ==
    \/ t \in m_set
    \/ \E th \in Thread : ctask[th] = t
    \/ \E w \in Worker : cur[w] = t
    \/ \E w \in Worker : \E i \in 1 .. Len(m_task[w]) : m_task[w][i] = t

NoLoss == \A t \in Task : NoLossOf(t)

(* InTaskExact, position by position. *)
InTaskAt(w) ==
    /\ \A i \in 1 .. Len(m_task[w]) :
          m_task[w][i] # nullptr => task_gid[m_task[w][i]] \in m_in_task[w]
    /\ \A g \in m_in_task[w] : \E i \in 1 .. Len(m_task[w]) :
          m_task[w][i] # nullptr /\ task_gid[m_task[w][i]] = g
    /\ \A i, j \in 1 .. Len(m_task[w]) :
          /\ m_task[w][i] # nullptr /\ m_task[w][j] # nullptr
          /\ task_gid[m_task[w][i]] = task_gid[m_task[w][j]]
          => i = j

InTaskInv == \A w \in Worker : InTaskAt(w)

Inv ==
    /\ TypeOK /\ CallInv /\ RunInv /\ Affinity
    /\ FreeExcl /\ CallExcl /\ CurExcl /\ QueueExcl /\ NoLoss
    /\ InTaskInv

-----------------------------------------------------------------------------
(* The workers and the main thread are the threads. *)
LEMMA Threads == /\ Worker \subseteq Thread /\ 0 \in Worker
                 /\ Main \in Thread /\ Main \notin Worker
  BY NWAssumption DEF Worker, Thread, Main

(* assign's index is a worker's: gid % size is below size. *)
LEMMA WorkerOfType == ASSUME NEW g \in Nat PROVE WorkerOf(g) \in Worker
  BY NWAssumption DEF WorkerOf, Worker

(* task_queue::push appends: the old positions keep their tasks. *)
LEMMA AppendTo ==
  ASSUME m_task \in [Worker -> Seq(Task \cup {nullptr})],
         NEW w \in Worker, NEW x \in Task \cup {nullptr},
         m_task' = [m_task EXCEPT ![w] = Append(@, x)]
  PROVE  /\ m_task' \in [Worker -> Seq(Task \cup {nullptr})]
         /\ Len(m_task[w]) \in Nat
         /\ Len(m_task'[w]) = Len(m_task[w]) + 1
         /\ m_task'[w][Len(m_task[w]) + 1] = x
         /\ \A i \in 1 .. Len(m_task[w]) : m_task'[w][i] = m_task[w][i]
         /\ \A v \in Worker \ {w} : m_task'[v] = m_task[v]
<1>1. m_task[w] \in Seq(Task \cup {nullptr}) /\ m_task'[w] = Append(m_task[w], x)
  OBVIOUS
<1>2. m_task'[w] \in Seq(Task \cup {nullptr})
  BY <1>1
<1> QED
  BY <1>1, <1>2

(* task_queue::pop takes the head: every other task moves up by one. *)
LEMMA PopFrom ==
  ASSUME m_task \in [Worker -> Seq(Task \cup {nullptr})],
         NEW w \in Worker, m_task[w] # <<>>,
         m_task' = [m_task EXCEPT ![w] = Tail(@)]
  PROVE  /\ m_task' \in [Worker -> Seq(Task \cup {nullptr})]
         /\ Len(m_task[w]) \in Nat \ {0}
         /\ Head(m_task[w]) = m_task[w][1]
         /\ m_task[w][1] \in Task \cup {nullptr}
         /\ Len(m_task'[w]) = Len(m_task[w]) - 1
         /\ \A i \in 1 .. Len(m_task'[w]) : m_task'[w][i] = m_task[w][i + 1]
         /\ \A v \in Worker \ {w} : m_task'[v] = m_task[v]
<1>1. m_task[w] \in Seq(Task \cup {nullptr}) /\ m_task'[w] = Tail(m_task[w])
  OBVIOUS
<1>2. m_task'[w] \in Seq(Task \cup {nullptr})
  BY <1>1
<1> QED
  BY <1>1, <1>2

(* The invariant holds once the pools and the workers are created. *)
LEMMA InitInv == Init => Inv
<1> SUFFICES ASSUME Init PROVE Inv
  OBVIOUS
<1> USE NWAssumption, TaskAssumption, GidAssumption, MaxSendsAssumption
<1>1. TypeOK
  BY DEF Init, TypeOK, Worker, Thread
<1>2. CallInv /\ RunInv /\ Affinity
  BY DEF Init, CallInv, RunInv, Affinity, AffinityAt, Worker, Thread
<1>3. FreeExcl /\ CallExcl /\ CurExcl /\ QueueExcl /\ NoLoss
  BY DEF Init, FreeExcl, CallExcl, CurExcl, QueueExcl, NoLoss, NoLossOf, Worker, Thread
<1>4. InTaskInv
  BY DEF Init, InTaskInv, InTaskAt, Worker
<1> QED
  BY <1>1, <1>2, <1>3, <1>4 DEF Inv

(* Each step keeps the types. *)
LEMMA TypeStep == Inv /\ [Next]_vars => TypeOK'
<1> SUFFICES ASSUME Inv, [Next]_vars PROVE TypeOK'
  OBVIOUS
<1> USE Threads, TaskAssumption, GidAssumption, MaxSendsAssumption
<1> USE DEF Inv, TypeOK, vars, poolVars, queueVars, runVars, callVars, stopVars
<1>1. ASSUME NEW g \in Gid, MainCalls(g) PROVE TypeOK'
  BY <1>1 DEF MainCalls
<1>2. ASSUME NEW w \in Worker, NEW g \in Gid, TaskCalls(w, g) PROVE TypeOK'
  BY <1>2 DEF TaskCalls
<1>3. ASSUME NEW th \in Thread, Allocate(th) PROVE TypeOK'
  BY <1>3 DEF Allocate
<1>4. ASSUME NEW th \in Thread, TestStopFlag(th) PROVE TypeOK'
  BY <1>4 DEF TestStopFlag
<1>5. ASSUME NEW th \in Thread, PushTask(th) PROVE TypeOK'
  <2>1. ctask[th] \in Task /\ task_gid[ctask[th]] \in Gid
    BY <1>5 DEF PushTask, CallInv
  <2>2. WorkerOf(task_gid[ctask[th]]) \in Worker
    BY <2>1, WorkerOfType
  <2>3. m_task' \in [Worker -> Seq(Task \cup {nullptr})]
    BY <1>5, <2>1, <2>2, AppendTo DEF PushTask
  <2>4. m_in_task' \in [Worker -> SUBSET Gid]
    <3> DEFINE g == task_gid[ctask[th]]
    <3>1. \/ m_in_task' = m_in_task
          \/ m_in_task' = [m_in_task EXCEPT ![WorkerOf(g)] = @ \cup {g}]
      BY <1>5 DEF PushTask
    <3>2. m_in_task[WorkerOf(g)] \cup {g} \in SUBSET Gid
      BY <2>1, <2>2
    <3>3. [m_in_task EXCEPT ![WorkerOf(g)] = @ \cup {g}] \in [Worker -> SUBSET Gid]
      <4> DEFINE w == WorkerOf(g)
                 G == m_in_task[w] \cup {g}
      <4>1. w \in Worker /\ G \in SUBSET Gid
        BY <2>2, <3>2
      <4> HIDE DEF g, w, G
      <4>2. [m_in_task EXCEPT ![w] = G] \in [Worker -> SUBSET Gid]
        BY <4>1
      <4> QED
        BY <4>2 DEF w, G
    <3> QED
      BY <3>1, <3>3
  <2>5. /\ cpc' \in [Thread -> {"none", "allocate", "flag", "push", "release"}]
        /\ ctask' \in [Thread -> Task \cup {nullptr}]
    <3>1. \/ cpc' = [cpc EXCEPT ![th] = "release"] /\ ctask' = ctask
          \/ cpc' = [cpc EXCEPT ![th] = "none"] /\ ctask' = [ctask EXCEPT ![th] = nullptr]
      BY <1>5 DEF PushTask
    <3>2. cpc' \in [Thread -> {"none", "allocate", "flag", "push", "release"}]
      BY <3>1
    <3>3. ctask' \in [Thread -> Task \cup {nullptr}]
      BY <3>1
    <3> QED
      BY <3>2, <3>3
  <2>6. UNCHANGED <<m_set, task_gid, stop_flag, m_stoped, wpc, cur, sends, cgid,
                    mpc, stopping, to_stop>>
    BY <1>5 DEF PushTask
  <2> QED
    BY <2>3, <2>4, <2>5, <2>6
<1>6. ASSUME NEW th \in Thread, ReleaseUnqueued(th) PROVE TypeOK'
  BY <1>6 DEF ReleaseUnqueued, CallInv
<1>7. ASSUME NEW w \in Worker, RunBegin(w) PROVE TypeOK'
  BY <1>7 DEF RunBegin
<1>8. ASSUME NEW w \in Worker, Pop(w) PROVE TypeOK'
  <2>1. m_task' \in [Worker -> Seq(Task \cup {nullptr})] /\ Head(m_task[w]) \in Task \cup {nullptr}
    BY <1>8, PopFrom DEF Pop
  <2> QED
    BY <1>8, <2>1 DEF Pop
<1>9. ASSUME NEW w \in Worker, CheckStop(w) PROVE TypeOK'
  <2>1. m_stoped' \in [Worker -> BOOLEAN]
    BY <1>9, Zenon DEF CheckStop
  <2>2. wpc' = [wpc EXCEPT ![w] = "exited"] \/ wpc' = [wpc EXCEPT ![w] = "run"]
    BY <1>9, Zenon DEF CheckStop
  <2>3. /\ sends' = [sends EXCEPT ![w] = 0]
        /\ UNCHANGED <<m_set, task_gid, m_task, m_in_task, stop_flag, cur, cpc, cgid, ctask,
                       mpc, stopping, to_stop>>
    BY <1>9, Zenon DEF CheckStop
  <2>4. wpc' \in [Worker -> {"start", "pop", "check", "run", "destory", "exited"}]
    BY <2>2
  <2>5. sends' \in [Worker -> 0 .. MaxSends]
    BY <2>3
  <2> QED
    BY <2>1, <2>3, <2>4, <2>5
<1>10. ASSUME NEW w \in Worker, RunReturns(w) PROVE TypeOK'
  BY <1>10 DEF RunReturns
<1>11. ASSUME NEW w \in Worker, Destory(w) PROVE TypeOK'
  BY <1>11 DEF Destory, RunInv
<1>12. CASE StopNext
  BY <1>12 DEF StopNext
<1>13. CASE StopPush
  <2>1. m_task' \in [Worker -> Seq(Task \cup {nullptr})]
    BY <1>13, AppendTo DEF StopPush
  <2> QED
    BY <1>13, <2>1 DEF StopPush
<1>14. CASE StopFlag
  BY <1>14 DEF StopFlag
<1>15. CASE UNCHANGED vars
  BY <1>15
<1> QED
  BY <1>1, <1>2, <1>3, <1>4, <1>5, <1>6, <1>7, <1>8, <1>9, <1>10, <1>11,
     <1>12, <1>13, <1>14, <1>15
     DEF Next, DoTask, WorkerStep, StopStep, StopWait, Terminated

(* What the calls and the run loops know of their own objects. *)
LEMMA CallRunStep == Inv /\ [Next]_vars => CallInv' /\ RunInv'
<1> SUFFICES ASSUME Inv, [Next]_vars PROVE CallInv' /\ RunInv'
  OBVIOUS
<1> USE Threads, TaskAssumption
<1> USE DEF Inv, TypeOK, vars, poolVars, queueVars, runVars, callVars, stopVars,
            CallInv, RunInv
<1>1. ASSUME NEW g \in Gid, MainCalls(g) PROVE CallInv' /\ RunInv'
  BY <1>1 DEF MainCalls
<1>2. ASSUME NEW w \in Worker, NEW g \in Gid, TaskCalls(w, g) PROVE CallInv' /\ RunInv'
  BY <1>2 DEF TaskCalls
<1>3. ASSUME NEW th \in Thread, Allocate(th) PROVE CallInv' /\ RunInv'
  <2>1. PICK t \in m_set : task_gid' = [task_gid EXCEPT ![t] = cgid[th]]
                           /\ ctask' = [ctask EXCEPT ![th] = t]
    BY <1>3 DEF Allocate
  <2>2. \A u \in Thread : ctask[u] # t
    BY DEF FreeExcl
  <2> QED
    BY <1>3, <2>1, <2>2 DEF Allocate
<1>4. ASSUME NEW th \in Thread, TestStopFlag(th) PROVE CallInv' /\ RunInv'
  <2>1. \/ cpc' = [cpc EXCEPT ![th] = "release"]
        \/ cpc' = [cpc EXCEPT ![th] = "push"]
    BY <1>4, Zenon DEF TestStopFlag
  <2>2. cpc[th] = "flag" /\ UNCHANGED <<task_gid, cgid, ctask, wpc, cur>>
    BY <1>4, Zenon DEF TestStopFlag
  <2> QED
    BY <2>1, <2>2
<1>5. ASSUME NEW th \in Thread, PushTask(th) PROVE CallInv' /\ RunInv'
  BY <1>5 DEF PushTask
<1>6. ASSUME NEW th \in Thread, ReleaseUnqueued(th) PROVE CallInv' /\ RunInv'
  BY <1>6 DEF ReleaseUnqueued, CallExcl
<1>7. ASSUME NEW w \in Worker, RunBegin(w) PROVE CallInv' /\ RunInv'
  BY <1>7 DEF RunBegin
<1>8. ASSUME NEW w \in Worker, Pop(w) PROVE CallInv' /\ RunInv'
  BY <1>8 DEF Pop
<1>9. ASSUME NEW w \in Worker, CheckStop(w) PROVE CallInv' /\ RunInv'
  <2>1. \/ wpc' = [wpc EXCEPT ![w] = "exited"]
        \/ wpc' = [wpc EXCEPT ![w] = "run"] /\ cur[w] # nullptr
    BY <1>9, Zenon DEF CheckStop
  <2>2. wpc[w] = "check" /\ UNCHANGED <<task_gid, cpc, cgid, ctask, cur>>
    BY <1>9, Zenon DEF CheckStop
  <2> QED
    BY <2>1, <2>2
<1>10. ASSUME NEW w \in Worker, RunReturns(w) PROVE CallInv' /\ RunInv'
  BY <1>10 DEF RunReturns
<1>11. ASSUME NEW w \in Worker, Destory(w) PROVE CallInv' /\ RunInv'
  <2>1. cur[w] \in Task /\ \A th \in Thread : ctask[th] # nullptr => cur[w] # ctask[th]
    BY <1>11 DEF Destory, CallExcl
  <2> QED
    BY <1>11, <2>1 DEF Destory
<1>12. CASE StopNext
  BY <1>12 DEF StopNext
<1>13. CASE StopPush
  BY <1>13 DEF StopPush
<1>14. CASE StopFlag
  BY <1>14 DEF StopFlag
<1>15. CASE UNCHANGED vars
  BY <1>15
<1> QED
  BY <1>1, <1>2, <1>3, <1>4, <1>5, <1>6, <1>7, <1>8, <1>9, <1>10, <1>11,
     <1>12, <1>13, <1>14, <1>15
     DEF Next, DoTask, WorkerStep, StopStep, StopWait, Terminated

-----------------------------------------------------------------------------
(* Most steps move no object and touch no queue; those that do move one    *)
(* object from one place to the next.                                      *)
objectVars == <<m_set, task_gid, m_task, m_in_task, cur, ctask>>

ObjectInv ==
    /\ Affinity /\ FreeExcl /\ CallExcl /\ CurExcl /\ QueueExcl /\ NoLoss
    /\ InTaskInv

(* A step that moves no task object keeps the invariant on objects. *)
LEMMA QuietStep == ObjectInv /\ UNCHANGED objectVars => ObjectInv'
  BY DEF ObjectInv, objectVars, Affinity, AffinityAt, FreeExcl, CallExcl, CurExcl, QueueExcl, NoLoss, NoLossOf,
         InTaskInv, InTaskAt

(* From the pool to a do_task call. *)
LEMMA AllocateStep ==
  ASSUME Inv, NEW th \in Thread, Allocate(th) PROVE ObjectInv'
<1> USE Threads, TaskAssumption DEF Inv
<1>0. /\ m_set \subseteq Task /\ task_gid \in [Task -> Gid \cup {0}]
      /\ ctask \in [Thread -> Task \cup {nullptr}] /\ cur \in [Worker -> Task \cup {nullptr}]
      /\ \A w \in Worker : \A i \in 1 .. Len(m_task[w]) : m_task[w][i] \in Task \cup {nullptr}
  BY DEF TypeOK
<1>1. PICK t \in m_set : /\ m_set' = m_set \ {t}
                         /\ task_gid' = [task_gid EXCEPT ![t] = cgid[th]]
                         /\ ctask' = [ctask EXCEPT ![th] = t]
  BY DEF Allocate
<1>2. ctask[th] = nullptr /\ UNCHANGED <<m_task, m_in_task, cur>>
  BY DEF Allocate, CallInv, runVars, queueVars
<1>3. /\ \A w \in Worker : cur[w] # t
      /\ \A w \in Worker : \A i \in 1 .. Len(m_task[w]) : m_task[w][i] # t
      /\ \A u \in Thread : ctask[u] # t
  BY DEF FreeExcl
<1>4. Affinity'
  BY <1>0, <1>1, <1>2, <1>3 DEF Affinity, AffinityAt
<1>5. FreeExcl' /\ CallExcl' /\ CurExcl' /\ QueueExcl'
  BY <1>0, <1>1, <1>2, <1>3 DEF FreeExcl, CallExcl, CurExcl, QueueExcl
<1>6. NoLoss'
  <2> SUFFICES ASSUME NEW s \in Task PROVE NoLossOf(s)'
    BY DEF NoLoss
  <2>1. CASE s = t
    BY <1>0, <1>1, <1>2, <2>1 DEF NoLossOf
  <2>2. CASE s # t
    <3>1. CASE s \in m_set
      BY <1>1, <1>2, <2>2, <3>1 DEF NoLossOf
    <3>2. ASSUME NEW u \in Thread, ctask[u] = s PROVE NoLossOf(s)'
      BY <1>0, <1>1, <1>2, <2>2, <3>2 DEF NoLossOf
    <3>3. ASSUME NEW w \in Worker, cur[w] = s PROVE NoLossOf(s)'
      BY <1>0, <1>1, <1>2, <2>2, <3>3 DEF NoLossOf
    <3>4. ASSUME NEW w \in Worker, NEW i \in 1 .. Len(m_task[w]), m_task[w][i] = s
          PROVE  NoLossOf(s)'
      BY <1>2, <3>4 DEF NoLossOf
    <3> QED
      BY <3>1, <3>2, <3>3, <3>4 DEF NoLoss, NoLossOf
  <2> QED
    BY <2>1, <2>2
<1>7. InTaskInv'
  <2>1. \A w \in Worker : \A i \in 1 .. Len(m_task[w]) :
           m_task[w][i] # nullptr => task_gid'[m_task[w][i]] = task_gid[m_task[w][i]]
    BY <1>0, <1>1, <1>2, <1>3
  <2> QED
    BY <1>2, <2>1, SMTT(30) DEF InTaskInv, InTaskAt
<1> QED
  BY <1>4, <1>5, <1>6, <1>7 DEF ObjectInv

(* From a do_task call back to the pool. *)
LEMMA ReleaseStep ==
  ASSUME Inv, NEW th \in Thread, ReleaseUnqueued(th) PROVE ObjectInv'
<1> USE Threads, TaskAssumption DEF Inv
<1>0. /\ m_set \subseteq Task /\ task_gid \in [Task -> Gid \cup {0}]
      /\ ctask \in [Thread -> Task \cup {nullptr}] /\ cur \in [Worker -> Task \cup {nullptr}]
      /\ \A w \in Worker : \A i \in 1 .. Len(m_task[w]) : m_task[w][i] \in Task \cup {nullptr}
  BY DEF TypeOK
<1> DEFINE t == ctask[th]
<1>1. t \in Task /\ t # nullptr
  BY <1>0 DEF ReleaseUnqueued, CallInv
<1>2. /\ m_set' = m_set \cup {t}
      /\ task_gid' = [task_gid EXCEPT ![t] = 0]
      /\ ctask' = [ctask EXCEPT ![th] = nullptr]
      /\ UNCHANGED <<m_task, m_in_task, cur>>
  BY DEF ReleaseUnqueued, runVars, queueVars
<1>3. /\ \A w \in Worker : cur[w] # t
      /\ \A w \in Worker : \A i \in 1 .. Len(m_task[w]) : m_task[w][i] # t
      /\ \A u \in Thread : ctask[u] = t => u = th
  BY <1>1 DEF CallExcl
<1>4. Affinity'
  BY <1>0, <1>1, <1>2, <1>3 DEF Affinity, AffinityAt
<1>5. FreeExcl' /\ CallExcl' /\ CurExcl' /\ QueueExcl'
  BY <1>0, <1>1, <1>2, <1>3 DEF FreeExcl, CallExcl, CurExcl, QueueExcl
<1>6. NoLoss'
  <2> SUFFICES ASSUME NEW s \in Task PROVE NoLossOf(s)'
    BY DEF NoLoss
  <2>1. CASE s = t
    BY <1>0, <1>1, <1>2, <2>1 DEF NoLossOf
  <2>2. CASE s # t
    <3>1. CASE s \in m_set
      BY <1>1, <1>2, <2>2, <3>1 DEF NoLossOf
    <3>2. ASSUME NEW u \in Thread, ctask[u] = s PROVE NoLossOf(s)'
      BY <1>0, <1>1, <1>2, <2>2, <3>2 DEF NoLossOf
    <3>3. ASSUME NEW w \in Worker, cur[w] = s PROVE NoLossOf(s)'
      BY <1>0, <1>1, <1>2, <2>2, <3>3 DEF NoLossOf
    <3>4. ASSUME NEW w \in Worker, NEW i \in 1 .. Len(m_task[w]), m_task[w][i] = s
          PROVE  NoLossOf(s)'
      BY <1>2, <3>4 DEF NoLossOf
    <3> QED
      BY <3>1, <3>2, <3>3, <3>4 DEF NoLoss, NoLossOf
  <2> QED
    BY <2>1, <2>2
<1>7. InTaskInv'
  <2>1. \A w \in Worker : \A i \in 1 .. Len(m_task[w]) :
           m_task[w][i] # nullptr => task_gid'[m_task[w][i]] = task_gid[m_task[w][i]]
    BY <1>0, <1>1, <1>2, <1>3
  <2> QED
    BY <1>2, <2>1, SMTT(30) DEF InTaskInv, InTaskAt
<1> QED
  BY <1>4, <1>5, <1>6, <1>7 DEF ObjectInv

(* From worker::run back to the pool. *)
LEMMA DestoryStep ==
  ASSUME Inv, NEW z \in Worker, Destory(z) PROVE ObjectInv'
<1> USE Threads, TaskAssumption DEF Inv
<1>0. /\ m_set \subseteq Task /\ task_gid \in [Task -> Gid \cup {0}]
      /\ ctask \in [Thread -> Task \cup {nullptr}] /\ cur \in [Worker -> Task \cup {nullptr}]
      /\ \A w \in Worker : \A i \in 1 .. Len(m_task[w]) : m_task[w][i] \in Task \cup {nullptr}
  BY DEF TypeOK
<1> DEFINE t == cur[z]
<1>1. t \in Task /\ t # nullptr
  BY <1>0 DEF Destory, RunInv
<1>2. /\ m_set' = m_set \cup {t}
      /\ task_gid' = [task_gid EXCEPT ![t] = 0]
      /\ cur' = [cur EXCEPT ![z] = nullptr]
      /\ UNCHANGED <<m_task, m_in_task, ctask>>
  BY DEF Destory, callVars, queueVars
<1>3. /\ \A v \in Worker : cur[v] = t => v = z
      /\ \A v \in Worker : \A i \in 1 .. Len(m_task[v]) : m_task[v][i] # t
      /\ \A u \in Thread : ctask[u] # t
  BY <1>1 DEF CurExcl, CallExcl
<1>4. Affinity'
  BY <1>0, <1>1, <1>2, <1>3 DEF Affinity, AffinityAt
<1>5. FreeExcl' /\ CallExcl' /\ CurExcl' /\ QueueExcl'
  BY <1>0, <1>1, <1>2, <1>3 DEF FreeExcl, CallExcl, CurExcl, QueueExcl
<1>6. NoLoss'
  <2> SUFFICES ASSUME NEW s \in Task PROVE NoLossOf(s)'
    BY DEF NoLoss
  <2>1. CASE s = t
    BY <1>0, <1>1, <1>2, <2>1 DEF NoLossOf
  <2>2. CASE s # t
    <3>1. CASE s \in m_set
      BY <1>1, <1>2, <2>2, <3>1 DEF NoLossOf
    <3>2. ASSUME NEW u \in Thread, ctask[u] = s PROVE NoLossOf(s)'
      BY <1>0, <1>1, <1>2, <2>2, <3>2 DEF NoLossOf
    <3>3. ASSUME NEW w \in Worker, cur[w] = s PROVE NoLossOf(s)'
      BY <1>0, <1>1, <1>2, <2>2, <3>3 DEF NoLossOf
    <3>4. ASSUME NEW w \in Worker, NEW i \in 1 .. Len(m_task[w]), m_task[w][i] = s
          PROVE  NoLossOf(s)'
      BY <1>2, <3>4 DEF NoLossOf
    <3> QED
      BY <3>1, <3>2, <3>3, <3>4 DEF NoLoss, NoLossOf
  <2> QED
    BY <2>1, <2>2
<1>7. InTaskInv'
  <2>1. \A w \in Worker : \A i \in 1 .. Len(m_task[w]) :
           m_task[w][i] # nullptr => task_gid'[m_task[w][i]] = task_gid[m_task[w][i]]
    BY <1>0, <1>1, <1>2, <1>3
  <2> QED
    BY <1>2, <2>1, SMTT(30) DEF InTaskInv, InTaskAt
<1> QED
  BY <1>4, <1>5, <1>6, <1>7 DEF ObjectInv

(* From a do_task call to the end of a queue, or nowhere if the gid is     *)
(* queued already.                                                         *)
LEMMA PushStep ==
  ASSUME Inv, NEW th \in Thread, PushTask(th) PROVE ObjectInv'
<1> USE Threads, TaskAssumption DEF Inv
<1> DEFINE t == ctask[th]
           g == task_gid[t]
           z == WorkerOf(g)
           n == Len(m_task[z])
<1>0. /\ m_set \subseteq Task /\ task_gid \in [Task -> Gid \cup {0}]
      /\ ctask \in [Thread -> Task \cup {nullptr}] /\ cur \in [Worker -> Task \cup {nullptr}]
      /\ m_task \in [Worker -> Seq(Task \cup {nullptr})]
      /\ m_in_task \in [Worker -> SUBSET Gid]
  BY DEF TypeOK
<1>1. t \in Task /\ t # nullptr /\ g \in Gid
  BY <1>0 DEF PushTask, CallInv
<1>2. z \in Worker
  BY <1>1, GidAssumption, WorkerOfType
<1>3. CASE g \in m_in_task[z]
  <2>1. UNCHANGED objectVars
    BY <1>3 DEF PushTask, objectVars, poolVars, queueVars, runVars
  <2> QED
    BY <2>1, QuietStep DEF ObjectInv
<1>4. CASE g \notin m_in_task[z]
  <2>1. /\ m_task' = [m_task EXCEPT ![z] = Append(@, t)]
        /\ m_in_task' = [m_in_task EXCEPT ![z] = @ \cup {g}]
        /\ ctask' = [ctask EXCEPT ![th] = nullptr]
        /\ UNCHANGED <<m_set, task_gid, cur>>
    BY <1>4 DEF PushTask, poolVars, runVars
  <2>2. /\ n \in Nat /\ Len(m_task'[z]) = n + 1 /\ m_task'[z][n + 1] = t
        /\ \A i \in 1 .. n : m_task'[z][i] = m_task[z][i]
        /\ \A v \in Worker \ {z} : m_task'[v] = m_task[v]
    BY <1>0, <1>1, <1>2, <2>1, AppendTo
  <2>3. /\ \A w \in Worker : cur[w] # t
        /\ \A w \in Worker : \A i \in 1 .. Len(m_task[w]) : m_task[w][i] # t
        /\ \A u \in Thread : ctask[u] = t => u = th
        /\ t \notin m_set
    BY <1>1 DEF CallExcl, FreeExcl
  <2>4. \A u \in Thread : ctask'[u] = IF u = th THEN nullptr ELSE ctask[u]
    BY <1>0, <2>1
  <2>5. /\ g \in m_in_task'[z]
        /\ \A h \in m_in_task'[z] : h = g \/ h \in m_in_task[z]
        /\ m_in_task[z] \subseteq m_in_task'[z]
        /\ \A v \in Worker \ {z} : m_in_task'[v] = m_in_task[v]
    BY <1>0, <1>2, <2>1
  <2>6. \A w \in Worker : \A i \in 1 .. Len(m_task'[w]) :
           \/ w = z /\ i = n + 1 /\ m_task'[w][i] = t
           \/ i \in 1 .. Len(m_task[w]) /\ m_task'[w][i] = m_task[w][i]
    BY <1>2, <2>2
  <2>7. \A w \in Worker : \A i \in 1 .. Len(m_task[w]) :
           i \in 1 .. Len(m_task'[w]) /\ m_task'[w][i] = m_task[w][i]
    BY <1>2, <2>2
  <2> HIDE DEF t, g, z, n
  <2>8. Affinity'
    BY <1>1, <2>1, <2>6 DEF Affinity, AffinityAt, z, g
  <2>9. FreeExcl'
    BY <1>0, <2>1, <2>3, <2>4, <2>6 DEF FreeExcl
  <2>10. CallExcl'
    BY <2>1, <2>3, <2>4, <2>6 DEF CallExcl, t
  <2>11. CurExcl'
    BY <2>1, <2>3, <2>6 DEF CurExcl
  <2>12. QueueExcl'
    BY <2>3, <2>6 DEF QueueExcl
  <2>13. NoLoss'
    <3> SUFFICES ASSUME NEW s \in Task PROVE NoLossOf(s)'
      BY DEF NoLoss
    <3>1. CASE s = t
      BY <1>2, <2>2, <3>1 DEF NoLossOf
    <3>2. CASE s \in m_set \/ \E w \in Worker : cur[w] = s
      BY <2>1, <3>2 DEF NoLossOf
    <3>3. ASSUME NEW u \in Thread, ctask[u] = s, s # t PROVE NoLossOf(s)'
      BY <2>4, <3>3 DEF NoLossOf, t
    <3>4. ASSUME NEW w \in Worker, NEW i \in 1 .. Len(m_task[w]), m_task[w][i] = s
          PROVE  NoLossOf(s)'
      BY <2>7, <3>4 DEF NoLossOf
    <3> QED
      BY <3>1, <3>2, <3>3, <3>4 DEF NoLoss, NoLossOf
  <2>14. InTaskInv'
    <3> SUFFICES ASSUME NEW w \in Worker
                 PROVE  InTaskAt(w)'
      BY DEF InTaskInv
    <3>1. InTaskAt(w) /\ InTaskAt(z)
      BY <1>2 DEF InTaskInv
    <3>2. CASE w # z
      BY <2>1, <2>2, <2>5, <3>1, <3>2 DEF InTaskAt
    <3>3. \A i \in 1 .. n : m_task[z][i] # nullptr => task_gid[m_task[z][i]] # g
      BY <1>4, <3>1 DEF InTaskAt, n
    <3>4. CASE w = z
      <4>1. \A i \in 1 .. Len(m_task'[z]) :
              m_task'[z][i] # nullptr => task_gid'[m_task'[z][i]] \in m_in_task'[z]
        BY <1>2, <2>1, <2>5, <2>6, <3>1 DEF InTaskAt, g
      <4>2. \A h \in m_in_task'[z] : \E i \in 1 .. Len(m_task'[z]) :
              m_task'[z][i] # nullptr /\ task_gid'[m_task'[z][i]] = h
        <5> SUFFICES ASSUME NEW h \in m_in_task'[z]
                     PROVE  \E i \in 1 .. Len(m_task'[z]) :
                              m_task'[z][i] # nullptr /\ task_gid'[m_task'[z][i]] = h
          OBVIOUS
        <5>1. CASE h = g
          BY <1>1, <2>1, <2>2, <5>1 DEF g
        <5>2. CASE h \in m_in_task[z]
          BY <1>2, <2>1, <2>7, <3>1, <5>2 DEF InTaskAt
        <5> QED
          BY <2>5, <5>1, <5>2
      <4>3. \A i, j \in 1 .. Len(m_task'[z]) :
              /\ m_task'[z][i] # nullptr /\ m_task'[z][j] # nullptr
              /\ task_gid'[m_task'[z][i]] = task_gid'[m_task'[z][j]]
              => i = j
        BY <1>2, <2>1, <2>6, <3>1, <3>3 DEF InTaskAt, g, n
      <4> QED
        BY <3>4, <4>1, <4>2, <4>3 DEF InTaskAt
    <3> QED
      BY <3>2, <3>4
  <2> QED
    BY <2>8, <2>9, <2>10, <2>11, <2>12, <2>13, <2>14 DEF ObjectInv
<1> QED
  BY <1>3, <1>4

(* From the head of a queue to worker::run; the sentinel is no object.     *)
LEMMA PopStep ==
  ASSUME Inv, NEW z \in Worker, Pop(z) PROVE ObjectInv'
<1> USE Threads, TaskAssumption DEF Inv
<1> DEFINE t == m_task[z][1]
           n == Len(m_task[z])
<1>0. /\ m_set \subseteq Task /\ task_gid \in [Task -> Gid \cup {0}]
      /\ ctask \in [Thread -> Task \cup {nullptr}] /\ cur \in [Worker -> Task \cup {nullptr}]
      /\ m_task \in [Worker -> Seq(Task \cup {nullptr})]
      /\ m_in_task \in [Worker -> SUBSET Gid]
  BY DEF TypeOK
<1>1. m_task[z] # <<>> /\ m_task' = [m_task EXCEPT ![z] = Tail(@)]
  BY DEF Pop
<1>2. /\ n \in Nat \ {0} /\ Len(m_task'[z]) = n - 1 /\ Head(m_task[z]) = t
      /\ t \in Task \cup {nullptr}
      /\ \A i \in 1 .. Len(m_task'[z]) : m_task'[z][i] = m_task[z][i + 1]
      /\ \A v \in Worker \ {z} : m_task'[v] = m_task[v]
  BY <1>0, <1>1, PopFrom
<1>3. /\ cur' = [cur EXCEPT ![z] = t]
      /\ m_in_task' = IF t = nullptr THEN m_in_task
                      ELSE [m_in_task EXCEPT ![z] = @ \ {task_gid[t]}]
      /\ UNCHANGED <<m_set, task_gid, ctask>>
  BY <1>2 DEF Pop, poolVars, callVars
<1>4. cur[z] = nullptr
  BY DEF Pop, RunInv
<1>5. \A w \in Worker : cur'[w] = IF w = z THEN t ELSE cur[w]
  BY <1>0, <1>3
<1>6. \A w \in Worker : \A i \in 1 .. Len(m_task'[w]) :
         \/ w = z /\ i + 1 \in 2 .. n /\ m_task'[w][i] = m_task[w][i + 1]
         \/ w # z /\ i \in 1 .. Len(m_task[w]) /\ m_task'[w][i] = m_task[w][i]
  BY <1>2
<1>7. 1 \in 1 .. n /\ \A i \in 2 .. n : i \in 1 .. n /\ i # 1
  BY <1>2
<1>8. /\ t \notin m_set
      /\ t # nullptr => \A u \in Thread : ctask[u] # t
      /\ t # nullptr => \A w \in Worker : cur[w] # t
      /\ t # nullptr => \A w \in Worker : \A i \in 1 .. Len(m_task'[w]) : m_task'[w][i] # t
  <2>1. t \notin m_set
    BY <1>0, <1>7 DEF FreeExcl
  <2>2. ASSUME t # nullptr, NEW u \in Thread, ctask[u] = t PROVE FALSE
    BY <1>7, <2>2 DEF CallExcl
  <2>3. ASSUME t # nullptr, NEW w \in Worker, cur[w] = t PROVE FALSE
    BY <1>7, <2>3 DEF CurExcl
  <2>4. ASSUME t # nullptr, NEW w \in Worker, NEW i \in 1 .. Len(m_task'[w]), m_task'[w][i] = t
        PROVE  FALSE
    <3>1. \A v \in Worker : \A j \in 1 .. Len(m_task[v]) : t = m_task[v][j] => v = z /\ j = 1
      BY <1>7, <2>4 DEF QueueExcl
    <3>2. CASE w = z /\ i + 1 \in 2 .. n /\ m_task'[w][i] = m_task[w][i + 1]
      BY <1>7, <2>4, <3>1, <3>2
    <3>3. CASE w # z /\ i \in 1 .. Len(m_task[w]) /\ m_task'[w][i] = m_task[w][i]
      BY <2>4, <3>1, <3>3
    <3> QED
      BY <1>6, <3>2, <3>3
  <2> QED
    BY <2>1, <2>2, <2>3, <2>4
<1>9. Affinity'
  <2> SUFFICES ASSUME NEW w \in Worker PROVE AffinityAt(w)'
    BY DEF Affinity
  <2>1. AffinityAt(w)
    BY DEF Affinity
  <2>2. CASE w # z
    BY <1>2, <1>3, <1>5, <2>1, <2>2 DEF AffinityAt
  <2>3. CASE w = z
    <3>1. t # nullptr => task_gid[t] \in Gid /\ WorkerOf(task_gid[t]) = z
      BY <1>7, <2>1, <2>3 DEF AffinityAt
    <3>2. \A i \in 1 .. Len(m_task'[z]) : i + 1 \in 1 .. n /\ m_task'[z][i] = m_task[z][i + 1]
      BY <1>2
    <3> QED
      BY <1>3, <1>5, <2>1, <2>3, <3>1, <3>2 DEF AffinityAt
  <2> QED
    BY <2>2, <2>3
<1>10. FreeExcl'
  BY <1>3, <1>5, <1>6, <1>7, <1>8, SMTT(30) DEF FreeExcl
<1>11. CallExcl'
  BY <1>3, <1>5, <1>6, <1>7, <1>8, SMTT(30) DEF CallExcl
<1>12. CurExcl'
  BY <1>3, <1>5, <1>6, <1>7, <1>8, SMTT(30) DEF CurExcl
<1>13. QueueExcl'
  <2> SUFFICES ASSUME NEW w \in Worker, NEW v \in Worker,
                      NEW i \in 1 .. Len(m_task'[w]), NEW j \in 1 .. Len(m_task'[v]),
                      m_task'[w][i] # nullptr, m_task'[w][i] = m_task'[v][j]
               PROVE  w = v /\ i = j
    BY DEF QueueExcl
  <2> DEFINE a == IF w = z THEN i + 1 ELSE i
             b == IF v = z THEN j + 1 ELSE j
  <2>1. /\ a \in 1 .. Len(m_task[w]) /\ m_task'[w][i] = m_task[w][a]
        /\ b \in 1 .. Len(m_task[v]) /\ m_task'[v][j] = m_task[v][b]
    BY <1>6, <1>7
  <2>2. m_task[w][a] # nullptr /\ m_task[w][a] = m_task[v][b]
    BY <2>1
  <2>3. w = v /\ a = b
    <3> QueueExcl
      OBVIOUS
    <3> HIDE DEF a, b, Inv
    <3> QED
      BY <2>1, <2>2 DEF QueueExcl
  <2> QED
    BY <2>3
<1>14. NoLoss'
  <2> SUFFICES ASSUME NEW s \in Task PROVE NoLossOf(s)'
    BY DEF NoLoss
  <2>1. CASE s \in m_set \/ \E u \in Thread : ctask[u] = s
    BY <1>3, <2>1 DEF NoLossOf
  <2>2. ASSUME NEW w \in Worker, cur[w] = s PROVE NoLossOf(s)'
    BY <1>4, <1>5, <2>2 DEF NoLossOf
  <2>3. ASSUME NEW w \in Worker, NEW i \in 1 .. Len(m_task[w]), m_task[w][i] = s
        PROVE  NoLossOf(s)'
    <3>1. CASE w = z /\ i = 1
      BY <1>5, <2>3, <3>1 DEF NoLossOf
    <3>2. CASE w = z /\ i # 1
      <4>1. i - 1 \in 1 .. Len(m_task'[z]) /\ m_task'[z][i - 1] = m_task[z][i]
        BY <1>2, <2>3, <3>2
      <4> QED
        BY <2>3, <3>2, <4>1 DEF NoLossOf
    <3>3. CASE w # z
      BY <1>2, <2>3, <3>3 DEF NoLossOf
    <3> QED
      BY <3>1, <3>2, <3>3
  <2> QED
    BY <2>1, <2>2, <2>3 DEF NoLoss, NoLossOf
<1>15. InTaskInv'
  <2> SUFFICES ASSUME NEW w \in Worker PROVE InTaskAt(w)'
    BY DEF InTaskInv
  <2>1. InTaskAt(w) /\ InTaskAt(z)
    BY DEF InTaskInv
  <2>2. CASE w # z
    <3>1. m_in_task'[w] = m_in_task[w] /\ m_task'[w] = m_task[w]
      BY <1>0, <1>2, <1>3, <2>2
    <3> QED
      BY <1>3, <2>1, <3>1 DEF InTaskAt
  <2>3. CASE w = z
    <3>1. \A h : h \in m_in_task'[z] <=>
                   h \in m_in_task[z] /\ (t # nullptr => h # task_gid[t])
      BY <1>0, <1>3
    <3>2. \A i \in 1 .. Len(m_task'[z]) : i + 1 \in 1 .. n /\ i + 1 # 1
      BY <1>2
    <3>3. ASSUME NEW i \in 1 .. Len(m_task'[z]), m_task'[z][i] # nullptr
          PROVE  task_gid'[m_task'[z][i]] \in m_in_task'[z]
      <4> DEFINE a == i + 1
      <4>1. a \in 1 .. n /\ a # 1 /\ m_task'[z][i] = m_task[z][a]
        BY <1>2
      <4> HIDE DEF a
      <4>2. task_gid[m_task[z][a]] \in m_in_task[z]
        BY <2>1, <3>3, <4>1 DEF InTaskAt
      <4>3. t # nullptr => task_gid[m_task[z][a]] # task_gid[t]
        BY <1>7, <2>1, <3>3, <4>1 DEF InTaskAt
      <4> QED
        BY <1>3, <3>1, <4>1, <4>2, <4>3
    <3>4. ASSUME NEW h \in m_in_task'[z]
          PROVE  \E i \in 1 .. Len(m_task'[z]) :
                   m_task'[z][i] # nullptr /\ task_gid'[m_task'[z][i]] = h
      <4>1. PICK i \in 1 .. n : m_task[z][i] # nullptr /\ task_gid[m_task[z][i]] = h
        BY <2>1, <3>1, <3>4 DEF InTaskAt
      <4>2. i # 1
        BY <3>1, <3>4, <4>1
      <4>3. i - 1 \in 1 .. Len(m_task'[z]) /\ m_task'[z][i - 1] = m_task[z][i]
        BY <1>2, <4>2
      <4> QED
        BY <1>3, <4>1, <4>3
    <3>5. ASSUME NEW i \in 1 .. Len(m_task'[z]), NEW j \in 1 .. Len(m_task'[z]),
                 m_task'[z][i] # nullptr, m_task'[z][j] # nullptr,
                 task_gid'[m_task'[z][i]] = task_gid'[m_task'[z][j]]
          PROVE  i = j
      <4> DEFINE a == i + 1
                 b == j + 1
      <4>1. /\ a \in 1 .. n /\ m_task'[z][i] = m_task[z][a]
            /\ b \in 1 .. n /\ m_task'[z][j] = m_task[z][b]
        BY <1>2
      <4>2. a = b
        <5> HIDE DEF a, b
        <5> QED
          BY <1>3, <2>1, <3>5, <4>1 DEF InTaskAt
      <4> QED
        BY <4>2
    <3> QED
      BY <2>3, <3>3, <3>4, <3>5 DEF InTaskAt
  <2> QED
    BY <2>2, <2>3
<1> QED
  BY <1>9, <1>10, <1>11, <1>12, <1>13, <1>14, <1>15 DEF ObjectInv

(* The sentinel goes to the end of a queue. *)
LEMMA StopPushStep ==
  ASSUME Inv, StopPush PROVE ObjectInv'
<1> USE Threads, TaskAssumption DEF Inv
<1> DEFINE z == stopping
           n == Len(m_task[z])
<1>0. z \in Worker /\ m_task \in [Worker -> Seq(Task \cup {nullptr})]
      /\ m_set \subseteq Task
  BY DEF TypeOK
<1>1. /\ m_task' = [m_task EXCEPT ![z] = Append(@, nullptr)]
      /\ UNCHANGED <<m_set, task_gid, m_in_task, cur, ctask>>
  BY DEF StopPush, poolVars, runVars, callVars
<1>2. /\ n \in Nat /\ Len(m_task'[z]) = n + 1 /\ m_task'[z][n + 1] = nullptr
      /\ \A i \in 1 .. n : m_task'[z][i] = m_task[z][i]
      /\ \A v \in Worker \ {z} : m_task'[v] = m_task[v]
  BY <1>0, <1>1, AppendTo
<1>3. \A w \in Worker : \A i \in 1 .. Len(m_task'[w]) :
         \/ m_task'[w][i] = nullptr
         \/ i \in 1 .. Len(m_task[w]) /\ m_task'[w][i] = m_task[w][i]
  <2> TAKE w \in Worker
  <2>1. CASE w = z
    BY <1>2, <2>1
  <2>2. CASE w # z
    BY <1>2, <2>2
  <2> QED
    BY <2>1, <2>2
<1>4. \A w \in Worker : \A i \in 1 .. Len(m_task[w]) :
         i \in 1 .. Len(m_task'[w]) /\ m_task'[w][i] = m_task[w][i]
  <2> TAKE w \in Worker
  <2>1. CASE w = z
    BY <1>2, <2>1
  <2>2. CASE w # z
    BY <1>2, <2>2
  <2> QED
    BY <2>1, <2>2
<1>5. Affinity' /\ FreeExcl' /\ CallExcl' /\ CurExcl' /\ QueueExcl'
  <2>1. Affinity'
    BY <1>1, <1>3 DEF Affinity, AffinityAt
  <2>2. FreeExcl'
    <3> SUFFICES ASSUME NEW t \in m_set, NEW w \in Worker, NEW i \in 1 .. Len(m_task'[w])
                 PROVE  m_task'[w][i] # t
      BY <1>1 DEF FreeExcl
    <3>1. t # nullptr /\ \A j \in 1 .. Len(m_task[w]) : m_task[w][j] # t
      BY <1>0 DEF FreeExcl
    <3> QED
      BY <1>3, <3>1
  <2>3. CallExcl'
    BY <1>1, <1>3 DEF CallExcl
  <2>4. CurExcl'
    BY <1>1, <1>3 DEF CurExcl
  <2>5. QueueExcl'
    BY <1>3 DEF QueueExcl
  <2> QED
    BY <2>1, <2>2, <2>3, <2>4, <2>5
<1>6. NoLoss'
  BY <1>1, <1>4 DEF NoLoss, NoLossOf
<1>7. InTaskInv'
  <2> SUFFICES ASSUME NEW w \in Worker PROVE InTaskAt(w)'
    BY DEF InTaskInv
  <2>1. InTaskAt(w)
    BY DEF InTaskInv
  <2>2. \A i \in 1 .. Len(m_task'[w]) : m_task'[w][i] # nullptr =>
           i \in 1 .. Len(m_task[w]) /\ m_task'[w][i] = m_task[w][i]
    BY <1>3
  <2>3. \A i \in 1 .. Len(m_task[w]) :
           i \in 1 .. Len(m_task'[w]) /\ m_task'[w][i] = m_task[w][i]
    BY <1>4
  <2>4. \A i \in 1 .. Len(m_task'[w]) : m_task'[w][i] # nullptr =>
           task_gid[m_task'[w][i]] \in m_in_task[w]
    BY <2>1, <2>2 DEF InTaskAt
  <2>5. \A g \in m_in_task[w] : \E i \in 1 .. Len(m_task'[w]) :
           m_task'[w][i] # nullptr /\ task_gid[m_task'[w][i]] = g
    BY <2>1, <2>3 DEF InTaskAt
  <2>6. \A i, j \in 1 .. Len(m_task'[w]) :
           /\ m_task'[w][i] # nullptr /\ m_task'[w][j] # nullptr
           /\ task_gid[m_task'[w][i]] = task_gid[m_task'[w][j]]
           => i = j
    BY <2>1, <2>2 DEF InTaskAt
  <2> QED
    BY <1>1, <2>4, <2>5, <2>6, SMTT(30) DEF InTaskAt
<1> QED
  BY <1>5, <1>6, <1>7 DEF ObjectInv

(* Every step keeps the invariant on objects. *)
LEMMA ObjectStep == Inv /\ [Next]_vars => ObjectInv'
<1> SUFFICES ASSUME Inv, [Next]_vars PROVE ObjectInv'
  OBVIOUS
<1>0. ObjectInv
  BY DEF Inv, ObjectInv
<1>1. ASSUME NEW th \in Thread, DoTask(th) PROVE ObjectInv'
  <2>1. CASE TestStopFlag(th)
    BY <1>0, <2>1, QuietStep
       DEF TestStopFlag, objectVars, poolVars, queueVars, runVars
  <2> QED
    BY <1>1, <2>1, AllocateStep, PushStep, ReleaseStep DEF DoTask
<1>2. ASSUME NEW w \in Worker, WorkerStep(w) PROVE ObjectInv'
  <2>1. CASE RunBegin(w) \/ RunReturns(w)
    BY <1>0, <2>1, QuietStep
       DEF RunBegin, RunReturns, objectVars, poolVars, queueVars, callVars
  <2>2. CASE CheckStop(w)
    <3>1. UNCHANGED objectVars
      BY <2>2, Zenon DEF CheckStop, objectVars, poolVars, queueVars, callVars
    <3> QED
      BY <1>0, <3>1, QuietStep
  <2> QED
    BY <1>2, <2>1, <2>2, PopStep, DestoryStep DEF WorkerStep
<1>3. CASE (\E g \in Gid : MainCalls(g)) \/ (\E w \in Worker, g \in Gid : TaskCalls(w, g))
  BY <1>0, <1>3, QuietStep
     DEF MainCalls, TaskCalls, objectVars, poolVars, queueVars, runVars
<1>4. CASE StopNext \/ StopFlag
  BY <1>0, <1>4, QuietStep
     DEF StopNext, StopFlag, objectVars, poolVars, queueVars, runVars, callVars
<1>5. CASE UNCHANGED vars
  BY <1>0, <1>5, QuietStep DEF vars, objectVars, poolVars, queueVars, runVars, callVars
<1> QED
  BY <1>1, <1>2, <1>3, <1>4, <1>5, StopPushStep DEF Next, StopStep, StopWait, Terminated

(* The invariant is inductive: it holds in every state of do_task, the     *)
(* queues, worker::run and worker_pool::stop.                              *)
THEOREM InvInductive == Spec => []Inv
<1>1. Init => Inv
  BY InitInv
<1>2. Inv /\ [Next]_vars => Inv'
  BY TypeStep, CallRunStep, ObjectStep DEF Inv, ObjectInv
<1> QED
  BY <1>1, <1>2, PTL DEF Spec

(* Every variable keeps its type; in particular worker::run never runs the *)
(* sentinel that worker::stop queues.                                      *)
THEOREM TypeCorrect == Spec => []TypeOK
<1>1. Inv => TypeOK
  BY DEF Inv
<1> QED
  BY <1>1, InvInductive, PTL

(* A task object is always in exactly one place: the pool, a do_task call, *)
(* a queue position or a worker; none is lost, shared or released twice.   *)
THEOREM TaskObjectsHaveOneOwner == Spec => []OneOwner
<1>1. Inv => OneOwner
  <2> SUFFICES ASSUME Inv, NEW t \in Task PROVE \E p \in Places(t) : Places(t) = {p}
    BY DEF OneOwner
  <2> USE TaskAssumption DEF Inv
  <2>0. t # nullptr
    OBVIOUS
  <2>1. CASE t \in m_set
    <3>1. Places(t) = {<<"free", 0, 0>>}
      BY <2>1 DEF Places, FreeExcl, Queued
    <3> QED
      BY <3>1
  <2>2. ASSUME NEW th \in Thread, ctask[th] = t PROVE \E p \in Places(t) : Places(t) = {p}
    <3>1. Places(t) = {<<"call", th, 0>>}
      BY <2>0, <2>2 DEF Places, CallExcl, FreeExcl, Queued
    <3> QED
      BY <3>1
  <2>3. ASSUME NEW w \in Worker, cur[w] = t PROVE \E p \in Places(t) : Places(t) = {p}
    <3>1. Places(t) = {<<"cur", w, 0>>}
      BY <2>0, <2>3 DEF Places, CurExcl, CallExcl, FreeExcl, Queued
    <3> QED
      BY <3>1
  <2>4. ASSUME NEW w \in Worker, NEW i \in 1 .. Len(m_task[w]), m_task[w][i] = t
        PROVE  \E p \in Places(t) : Places(t) = {p}
    <3>1. Places(t) = {<<"queue", w, i>>}
      BY <2>0, <2>4 DEF Places, QueueExcl, CurExcl, CallExcl, FreeExcl, Queued
    <3> QED
      BY <3>1
  <2> QED
    BY <2>1, <2>2, <2>3, <2>4 DEF NoLoss, NoLossOf
<1> QED
  BY <1>1, InvInductive, PTL

(* task_queue::m_in_task holds exactly the gids queued, each queued once:  *)
(* a refused push never loses a wake-up.                                   *)
THEOREM InTaskIsExact == Spec => []InTaskExact
<1>1. Inv => InTaskExact
  <2> SUFFICES ASSUME Inv, NEW w \in Worker
               PROVE  /\ m_in_task[w] = {task_gid[m_task[w][i]] : i \in Queued(w)}
                      /\ \A i, j \in Queued(w) :
                            task_gid[m_task[w][i]] = task_gid[m_task[w][j]] => i = j
    BY DEF InTaskExact
  <2>1. InTaskAt(w)
    BY DEF Inv, InTaskInv
  <2>2. m_in_task[w] \subseteq {task_gid[m_task[w][i]] : i \in Queued(w)}
    BY <2>1 DEF InTaskAt, Queued
  <2>3. {task_gid[m_task[w][i]] : i \in Queued(w)} \subseteq m_in_task[w]
    BY <2>1 DEF InTaskAt, Queued
  <2>4. \A i, j \in Queued(w) : task_gid[m_task[w][i]] = task_gid[m_task[w][j]] => i = j
    BY <2>1 DEF InTaskAt, Queued
  <2> QED
    BY <2>2, <2>3, <2>4
<1> QED
  BY <1>1, InvInductive, PTL

(* Two workers never have tasks of one connection, for any number of       *)
(* workers, connections and tasks: gid % size serialises a connection.     *)
THEOREM ConnectionsAreSerial == Spec => []GidSerial
<1>1. Inv => GidSerial
  <2> SUFFICES ASSUME Inv, NEW w \in Worker, NEW h \in GidsAt(w) PROVE WorkerOf(h) = w
    BY DEF GidSerial
  <2> QED
    BY DEF Inv, Affinity, AffinityAt, GidsAt, Queued
<1> QED
  BY <1>1, InvInductive, PTL

(* The task pool never has every thread waiting on it: with more objects   *)
(* than gids and workers together, an empty pool means that some do_task   *)
(* call has an object in hand.  Otherwise every object would be held by a  *)
(* worker, at most one each, or queued, and a queue holds a gid once.      *)
THEOREM PoolNeverWedges == Spec => []PoolProgress
<1>1. ASSUME Inv PROVE PoolProgress
  <2> USE <1>1 DEF Inv
  <2> SUFFICES ASSUME Cardinality(Task) > Cardinality(Gid) + NW, m_set = {},
                      \A th \in Thread : ctask[th] = nullptr
               PROVE  FALSE
    BY DEF PoolProgress
  <2> DEFINE Held == {t \in Task : \E w \in Worker : cur[w] = t}
             Waiting == Task \ Held
             holder(t) == CHOOSE w \in Worker : cur[w] = t
             h == [t \in Held |-> holder(t)]
             q == [t \in Waiting |-> task_gid[t]]
  <2>1. h \in Injection(Held, Worker)
    <3>1. \A t \in Held : holder(t) \in Worker /\ cur[holder(t)] = t
      OBVIOUS
    <3>2. h \in [Held -> Worker] /\ \A t, u \in Held : h[t] = h[u] => t = u
      BY <3>1
    <3> QED
      BY <3>2, Zenon DEF Injection, IsInjective
  <2>2. ASSUME NEW t \in Waiting
        PROVE  \E w \in Worker : \E i \in 1 .. Len(m_task[w]) : m_task[w][i] = t
    BY <2>2, TaskAssumption DEF NoLoss, NoLossOf
  <2>3. q \in Injection(Waiting, Gid)
    <3>1. ASSUME NEW t \in Waiting PROVE task_gid[t] \in Gid
      BY <2>2, TaskAssumption DEF Affinity, AffinityAt
    <3>2. ASSUME NEW t \in Waiting, NEW u \in Waiting, task_gid[t] = task_gid[u] PROVE t = u
      <4>1. PICK w \in Worker : \E i \in 1 .. Len(m_task[w]) : m_task[w][i] = t
        BY <2>2
      <4>2. PICK v \in Worker : \E j \in 1 .. Len(m_task[v]) : m_task[v][j] = u
        BY <2>2
      <4>3. w = v
        BY <3>2, <4>1, <4>2, TaskAssumption DEF Affinity, AffinityAt
      <4> QED
        BY <3>2, <4>1, <4>2, <4>3, TaskAssumption DEF InTaskInv, InTaskAt
    <3>3. q \in [Waiting -> Gid] /\ \A t, u \in Waiting : q[t] = q[u] => t = u
      BY <3>1, <3>2
    <3> QED
      BY <3>3, Zenon DEF Injection, IsInjective
  <2>4. IsFiniteSet(Worker) /\ Cardinality(Worker) = NW
    BY NWAssumption, FS_Interval DEF Worker
  <2> HIDE DEF h, q, Held
  <2>5. /\ IsFiniteSet(Held) /\ Cardinality(Held) <= NW
        /\ IsFiniteSet(Waiting) /\ Cardinality(Waiting) <= Cardinality(Gid)
    <3>1. IsFiniteSet(Held) /\ Cardinality(Held) <= NW
      BY <2>1, <2>4, FS_Injection
    <3>2. IsFiniteSet(Waiting) /\ Cardinality(Waiting) <= Cardinality(Gid)
      BY <2>3, GidAssumption, FS_Injection
    <3> QED
      BY <3>1, <3>2
  <2>6. Task = Held \cup Waiting /\ Held \cap Waiting = {}
    BY DEF Held
  <2>7. Cardinality(Task) = Cardinality(Held) + Cardinality(Waiting)
    <3>1. Cardinality(Held \cup Waiting) = Cardinality(Held) + Cardinality(Waiting)
                                           - Cardinality(Held \cap Waiting)
      BY <2>5, FS_Union
    <3>2. Cardinality(Held \cap Waiting) = 0
      BY <2>6, FS_EmptySet
    <3>3. Cardinality(Held) \in Nat /\ Cardinality(Waiting) \in Nat
      BY <2>5, FS_CardinalityType
    <3> HIDE DEF Waiting
    <3> QED
      BY <2>6, <3>1, <3>2, <3>3
  <2>8. Cardinality(Held) \in Nat /\ Cardinality(Waiting) \in Nat /\ Cardinality(Gid) \in Nat
    BY <2>5, GidAssumption, FS_CardinalityType
  <2> HIDE DEF Waiting
  <2> QED
    BY <2>5, <2>7, <2>8, NWAssumption
<1> QED
  BY <1>1, InvInductive, PTL

-----------------------------------------------------------------------------
(* The refinement of WakeUps.  Besides Inv it needs to know of the stop    *)
(* that a worker not yet visited has its flag down, so that each worker is *)
(* asked once.                                                             *)
StopInv ==
    /\ \A w \in to_stop : ~ stop_flag[w]
    /\ mpc \in {"stop_push", "stop_flag"} =>
          ~ stop_flag[stopping] /\ stopping \notin to_stop

(* worker_pool::stop reaches every worker once. *)
LEMMA StopInvariant == Spec => []StopInv
<1>1. Init => StopInv
  BY DEF Init, StopInv
<1>2. TypeOK /\ StopInv /\ [Next]_vars => StopInv'
  <2> SUFFICES ASSUME TypeOK, StopInv, [Next]_vars PROVE StopInv'
    OBVIOUS
  <2>0. stop_flag \in [Worker -> BOOLEAN] /\ stopping \in Worker /\ to_stop \subseteq Worker
    BY DEF TypeOK
  <2>1. CASE UNCHANGED <<stop_flag, mpc, stopping, to_stop>>
    BY <2>1, Zenon DEF StopInv
  <2>2. CASE StopNext
    <3>1. UNCHANGED stop_flag
      BY <2>2 DEF StopNext
    <3>2. CASE to_stop = {}
      BY <2>2, <3>1, <3>2 DEF StopNext, StopInv
    <3>3. CASE to_stop # {}
      <4>1. PICK w \in to_stop : stopping' = w /\ to_stop' = to_stop \ {w}
        BY <2>2, <3>3 DEF StopNext
      <4>2. ~ stop_flag[w] /\ w \notin to_stop \ {w}
        BY DEF StopInv
      <4>3. \A v \in to_stop \ {w} : ~ stop_flag[v]
        BY DEF StopInv
      <4> QED
        BY <3>1, <4>1, <4>2, <4>3, Zenon DEF StopInv
    <3> QED
      BY <3>2, <3>3
  <2>3. CASE StopPush
    BY <2>3, Zenon DEF StopPush, StopInv
  <2>4. CASE StopFlag
    <3>1. /\ stop_flag' = [stop_flag EXCEPT ![stopping] = TRUE] /\ mpc' = "stop_wait"
          /\ to_stop' = to_stop /\ stopping \notin to_stop
      BY <2>4 DEF StopFlag, StopInv
    <3>2. \A v \in to_stop : stop_flag'[v] = stop_flag[v]
      BY <2>0, <3>1
    <3> QED
      BY <3>1, <3>2 DEF StopInv
  <2> QED
    BY <2>1, <2>2, <2>3, <2>4
       DEF Next, DoTask, WorkerStep, StopStep, StopWait, Terminated, vars, stopVars,
           MainCalls, TaskCalls, Allocate, TestStopFlag, PushTask, ReleaseUnqueued,
           RunBegin, Pop, CheckStop, RunReturns, Destory
<1> QED
  BY <1>1, <1>2, TypeCorrect, PTL DEF Spec

(* The two modules name the same threads and the same workers. *)
LEMMA SameNames ==
  /\ Seen!Worker = Worker /\ Seen!Thread = Thread
  /\ \A g : Seen!WorkerOf(g) = WorkerOf(g)
  BY DEF Seen!Worker, Seen!Thread, Seen!WorkerOf, Worker, Thread, WorkerOf

(* What a worker has taken is seen as nothing, as 0 or as a gid. *)
LEMMA Singles == \A x : <<x>> # <<>> /\ (x # 0 => <<x>> # <<0>>)
  OBVIOUS

(* A step that moves no task and changes no queued task's gid is not seen  *)
(* in the queues ...                                                       *)
LEMMA QueueQuiet ==
  ASSUME m_task' = m_task,
         \A w \in Worker : \A i \in 1 .. Len(m_task[w]) :
            m_task[w][i] # nullptr => task_gid'[m_task[w][i]] = task_gid[m_task[w][i]]
  PROVE  QueueSeen' = QueueSeen
<1>1. \A w \in Worker : \A i \in 1 .. Len(m_task[w]) : GidOf(m_task[w][i])' = GidOf(m_task[w][i])
  BY DEF GidOf
<1>2. \A w \in Worker : [i \in 1 .. Len(m_task[w]) |-> GidOf(m_task[w][i])]'
                        = [i \in 1 .. Len(m_task[w]) |-> GidOf(m_task[w][i])]
  BY <1>1
<1> QED
  BY <1>2 DEF QueueSeen

(* ... nor one that changes no call in the calls ... *)
LEMMA CallQuiet ==
  ASSUME cpc' = cpc, cgid' = cgid, ctask' = ctask,
         \A th \in Thread : cpc[th] \in {"flag", "push"} =>
            task_gid'[ctask[th]] = task_gid[ctask[th]]
  PROVE  CallSeen' = CallSeen
  BY DEF CallSeen

(* ... nor one that leaves worker::run alone in what the workers have. *)
LEMMA TakenQuiet ==
  ASSUME wpc' = wpc, cur' = cur,
         \A w \in Worker : wpc[w] \in {"check", "run"} /\ cur[w] # nullptr =>
            task_gid'[cur[w]] = task_gid[cur[w]]
  PROVE  TakenSeen' = TakenSeen
  BY DEF TakenSeen, GidOf

(* Only worker_pool::stop moves the stages. *)
LEMMA StageQuiet ==
  ASSUME stop_flag' = stop_flag, mpc' = mpc, stopping' = stopping
  PROVE  StageSeen' = StageSeen
  BY DEF StageSeen

(* A do_task call begins. *)
LEMMA CallSeenStep ==
  ASSUME Inv, NEW th \in Thread, NEW g \in Gid,
         cpc[th] = "none", th \in Worker => wpc[th] = "run",
         cpc' = [cpc EXCEPT ![th] = "allocate"], cgid' = [cgid EXCEPT ![th] = g],
         UNCHANGED <<m_task, task_gid, ctask, wpc, cur, stop_flag, mpc, stopping>>
  PROVE  Seen!Call(th, g)
<1> USE GidAssumption
<1>1. QueueSeen' = QueueSeen /\ TakenSeen' = TakenSeen /\ StageSeen' = StageSeen
  BY QueueQuiet, TakenQuiet, StageQuiet
<1>2. cpc \in [Thread -> {"none", "allocate", "flag", "push", "release"}]
      /\ cgid \in [Thread -> Gid \cup {0}]
  BY DEF Inv, TypeOK
<1>3. CallSeen[th] = 0 /\ CallSeen' = [CallSeen EXCEPT ![th] = g]
  BY <1>2 DEF CallSeen
<1>4. ASSUME th \in Worker PROVE TakenSeen[th] \notin {<<>>, <<0>>}
  <2>1. wpc[th] = "run" /\ cur[th] # nullptr
    BY <1>4 DEF Inv, RunInv
  <2>2. GidOf(cur[th]) \in Gid
    BY <1>4, <2>1 DEF Inv, Affinity, AffinityAt, GidOf
  <2>3. TakenSeen[th] = <<GidOf(cur[th])>>
    BY <1>4, <2>1 DEF TakenSeen
  <2> QED
    BY <2>2, <2>3, Singles
<1> QED
  BY <1>1, <1>3, <1>4, SameNames DEF Seen!Call

(* An object is found for the call: not seen. *)
LEMMA AllocateUnseen ==
  ASSUME Inv, NEW th \in Thread, Allocate(th) PROVE UNCHANGED Seen!vars
<1> USE TaskAssumption DEF Inv
<1>0. /\ m_set \subseteq Task /\ task_gid \in [Task -> Gid \cup {0}]
      /\ ctask \in [Thread -> Task \cup {nullptr}] /\ cur \in [Worker -> Task \cup {nullptr}]
      /\ cpc \in [Thread -> {"none", "allocate", "flag", "push", "release"}]
      /\ cgid \in [Thread -> Gid \cup {0}]
      /\ \A w \in Worker : \A i \in 1 .. Len(m_task[w]) : m_task[w][i] \in Task \cup {nullptr}
  BY DEF TypeOK
<1>1. PICK t \in m_set : /\ task_gid' = [task_gid EXCEPT ![t] = cgid[th]]
                         /\ ctask' = [ctask EXCEPT ![th] = t]
  BY DEF Allocate
<1>2. /\ cpc[th] = "allocate"
      /\ cpc' = [cpc EXCEPT ![th] = "flag"] /\ cgid' = [cgid EXCEPT ![th] = 0]
      /\ UNCHANGED <<m_task, wpc, cur, stop_flag, mpc, stopping>>
  BY DEF Allocate, queueVars, runVars, stopVars
<1>3. /\ \A w \in Worker : cur[w] # t
      /\ \A w \in Worker : \A i \in 1 .. Len(m_task[w]) : m_task[w][i] # t
      /\ \A u \in Thread : ctask[u] # t
  BY DEF FreeExcl
<1>4. QueueSeen' = QueueSeen
  BY <1>0, <1>1, <1>2, <1>3, QueueQuiet
<1>5. TakenSeen' = TakenSeen /\ StageSeen' = StageSeen
  BY <1>0, <1>1, <1>2, <1>3, TakenQuiet, StageQuiet
<1>6. CallSeen' = CallSeen
  <2>1. \A u \in Thread \ {th} : cpc[u] \in {"flag", "push"} =>
           task_gid'[ctask'[u]] = task_gid[ctask[u]]
    BY <1>0, <1>1, <1>3 DEF CallInv
  <2>2. task_gid'[ctask'[th]] = cgid[th]
    BY <1>0, <1>1
  <2> QED
    BY <1>0, <1>2, <2>1, <2>2 DEF CallSeen
<1> QED
  BY <1>4, <1>5, <1>6 DEF Seen!vars

(* worker::push's test of stop_flag is not seen, or drops the call. *)
LEMMA TestSeen ==
  ASSUME Inv, NEW th \in Thread, TestStopFlag(th)
  PROVE  Seen!Drop(th) \/ UNCHANGED Seen!vars
<1> USE TaskAssumption, GidAssumption
<1> DEFINE g == task_gid[ctask[th]]
<1>0. cpc \in [Thread -> {"none", "allocate", "flag", "push", "release"}]
  BY DEF Inv, TypeOK
<1>1. /\ cpc[th] = "flag"
      /\ UNCHANGED <<task_gid, m_task, stop_flag, wpc, cur, cgid, ctask, mpc, stopping>>
  BY Zenon DEF TestStopFlag, poolVars, queueVars, runVars, stopVars
<1>2. QueueSeen' = QueueSeen /\ TakenSeen' = TakenSeen /\ StageSeen' = StageSeen
  BY <1>1, QueueQuiet, TakenQuiet, StageQuiet
<1>3. g \in Gid /\ WorkerOf(g) \in Worker
  BY <1>1, WorkerOfType DEF Inv, CallInv
<1>4. CASE stop_flag[WorkerOf(g)]
  <2>1. cpc' = [cpc EXCEPT ![th] = "release"]
    BY <1>4, Zenon DEF TestStopFlag
  <2>2. CallSeen[th] = g /\ CallSeen' = [CallSeen EXCEPT ![th] = 0]
    BY <1>0, <1>1, <2>1 DEF CallSeen
  <2>3. StageSeen[WorkerOf(g)] = "ended"
    BY <1>3, <1>4 DEF StageSeen
  <2>4. g # 0
    BY <1>3
  <2> QED
    BY <1>2, <2>2, <2>3, <2>4, SameNames DEF Seen!Drop
<1>5. CASE ~ stop_flag[WorkerOf(g)]
  <2>1. cpc' = [cpc EXCEPT ![th] = "push"]
    BY <1>5, Zenon DEF TestStopFlag
  <2>2. CallSeen' = CallSeen
    BY <1>0, <1>1, <2>1 DEF CallSeen
  <2> QED
    BY <1>2, <2>2 DEF Seen!vars
<1> QED
  BY <1>4, <1>5

(* A queue grows at its end, and so do the gids seen. *)
LEMMA AppendSeen ==
  ASSUME m_task \in [Worker -> Seq(Task \cup {nullptr})],
         NEW z \in Worker, NEW x \in Task \cup {nullptr},
         m_task' = [m_task EXCEPT ![z] = Append(@, x)], task_gid' = task_gid
  PROVE  QueueSeen' = [QueueSeen EXCEPT ![z] = Append(@, GidOf(x))]
<1> DEFINE n == Len(m_task[z])
           G == QueueSeen[z]
<1>1. /\ n \in Nat /\ Len(m_task'[z]) = n + 1 /\ m_task'[z][n + 1] = x
      /\ \A i \in 1 .. n : m_task'[z][i] = m_task[z][i]
      /\ \A v \in Worker \ {z} : m_task'[v] = m_task[v]
  BY AppendTo
<1>2. \A y : GidOf(y)' = GidOf(y)
  BY DEF GidOf
<1>3. G = [i \in 1 .. n |-> GidOf(m_task[z][i])]
  BY DEF QueueSeen
<1>4. QueueSeen'[z] = [i \in 1 .. n + 1 |-> GidOf(m_task'[z][i])]
  BY <1>1, <1>2 DEF QueueSeen
<1>5. Append(G, GidOf(x)) = [i \in 1 .. n + 1 |-> GidOf(m_task'[z][i])]
  <2> DEFINE S == {GidOf(m_task[z][i]) : i \in 1 .. n} \cup {GidOf(x)}
  <2>1. G \in Seq(S) /\ Len(G) = n /\ GidOf(x) \in S
    <3> HIDE DEF n
    <3>1. n \in Nat /\ \A i \in 1 .. n : GidOf(m_task[z][i]) \in S
      BY <1>1
    <3>2. GidOf(x) \in S
      OBVIOUS
    <3> HIDE DEF S
    <3>3. G \in [1 .. n -> S]
      BY <1>3, <3>1
    <3> HIDE DEF G
    <3> QED
      BY <3>1, <3>2, <3>3
  <2>2. \A i \in 1 .. n : G[i] = GidOf(m_task'[z][i])
    BY <1>1, <1>3
  <2>3. GidOf(m_task'[z][n + 1]) = GidOf(x)
    BY <1>1
  <2> HIDE DEF S, G, n
  <2>4. Append(G, GidOf(x)) \in Seq(S) /\ Len(Append(G, GidOf(x))) = n + 1
    BY <1>1, <2>1
  <2>5. \A i \in 1 .. n + 1 : Append(G, GidOf(x))[i] = GidOf(m_task'[z][i])
    BY <1>1, <2>1, <2>2, <2>3
  <2>6. Append(G, GidOf(x)) = [i \in 1 .. n + 1 |-> Append(G, GidOf(x))[i]]
    <3> DEFINE A == Append(G, GidOf(x))
    <3>1. A \in Seq(S) /\ Len(A) = n + 1
      BY <2>4
    <3> HIDE DEF A
    <3>2. A \in [1 .. n + 1 -> S]
      BY <3>1
    <3>3. A = [i \in 1 .. n + 1 |-> A[i]]
      BY <3>2
    <3> QED
      BY <3>3 DEF A
  <2> QED
    BY <2>5, <2>6
<1>6. \A v \in Worker \ {z} : QueueSeen'[v] = QueueSeen[v]
  BY <1>1, <1>2 DEF QueueSeen
<1>7. /\ QueueSeen' = [v \in Worker |-> QueueSeen'[v]]
      /\ QueueSeen = [v \in Worker |-> QueueSeen[v]]
  BY DEF QueueSeen
<1> QED
  <2>1. QueueSeen'[z] = Append(QueueSeen[z], GidOf(x))
    BY <1>4, <1>5
  <2> HIDE DEF G, n
  <2> QED
    BY <1>6, <1>7, <2>1

(* task_queue::push is the moment do_task takes effect: it refuses a gid   *)
(* exactly when the gid is seen in the queue.                              *)
LEMMA PushSeen ==
  ASSUME Inv, NEW th \in Thread, PushTask(th) PROVE Seen!Submit(th)
<1> USE TaskAssumption, GidAssumption DEF Inv
<1> DEFINE t == ctask[th]
           g == task_gid[t]
           z == WorkerOf(g)
           Q == QueueSeen[z]
<1>0. /\ cpc \in [Thread -> {"none", "allocate", "flag", "push", "release"}]
      /\ m_task \in [Worker -> Seq(Task \cup {nullptr})]
      /\ ctask \in [Thread -> Task \cup {nullptr}]
  BY DEF TypeOK
<1>1. /\ cpc[th] = "push"
      /\ UNCHANGED <<task_gid, stop_flag, wpc, cur, cgid, mpc, stopping>>
  BY DEF PushTask, poolVars, runVars, stopVars
<1>2. t \in Task /\ t # nullptr /\ g \in Gid /\ g # 0
  BY <1>0, <1>1 DEF CallInv
<1>3. z \in Worker
  BY <1>2, WorkerOfType
<1>4. TakenSeen' = TakenSeen /\ StageSeen' = StageSeen
  BY <1>1, TakenQuiet, StageQuiet
<1>5. CallSeen[th] = g /\ CallSeen' = [CallSeen EXCEPT ![th] = 0]
  <2>1. \/ cpc' = [cpc EXCEPT ![th] = "release"] /\ ctask' = ctask
        \/ cpc' = [cpc EXCEPT ![th] = "none"] /\ ctask' = [ctask EXCEPT ![th] = nullptr]
    BY DEF PushTask
  <2> QED
    BY <1>0, <1>1, <2>1 DEF CallSeen
<1>6. (g \in m_in_task[z]) <=> \E i \in 1 .. Len(Q) : Q[i] = g
  <2>1. InTaskAt(z)
    BY <1>3 DEF InTaskInv
  <2>2. Len(m_task[z]) \in Nat /\ Q = [i \in 1 .. Len(m_task[z]) |-> GidOf(m_task[z][i])]
    BY <1>0, <1>3 DEF QueueSeen
  <2>3. Len(Q) = Len(m_task[z]) /\ \A i \in 1 .. Len(m_task[z]) : Q[i] = GidOf(m_task[z][i])
    <3> HIDE DEF Q, z
    <3> QED
      BY <2>2
  <2> HIDE DEF Q, z, g
  <2>4. ASSUME g \in m_in_task[z] PROVE \E i \in 1 .. Len(Q) : Q[i] = g
    BY <2>1, <2>3, <2>4 DEF InTaskAt, GidOf
  <2>5. ASSUME NEW i \in 1 .. Len(Q), Q[i] = g PROVE g \in m_in_task[z]
    BY <1>2, <2>1, <2>3, <2>5 DEF InTaskAt, GidOf
  <2> QED
    BY <2>4, <2>5
<1>7. QueueSeen' = [QueueSeen EXCEPT ![z] =
                       IF \E i \in 1 .. Len(Q) : Q[i] = g THEN Q ELSE Append(Q, g)]
  <2>1. CASE g \in m_in_task[z]
    <3>1. m_task' = m_task
      BY <2>1 DEF PushTask, queueVars
    <3>2. QueueSeen' = QueueSeen
      BY <1>1, <3>1, QueueQuiet
    <3>3. QueueSeen = [QueueSeen EXCEPT ![z] = QueueSeen[z]]
      BY <1>3 DEF QueueSeen
    <3> QED
      BY <1>6, <2>1, <3>2, <3>3
  <2>2. CASE g \notin m_in_task[z]
    <3>1. m_task' = [m_task EXCEPT ![z] = Append(@, t)]
      BY <2>2 DEF PushTask
    <3>2. QueueSeen' = [QueueSeen EXCEPT ![z] = Append(@, GidOf(t))]
      BY <1>0, <1>1, <1>2, <1>3, <3>1, AppendSeen
    <3>3. GidOf(t) = g
      BY <1>2 DEF GidOf
    <3> QED
      BY <1>6, <2>2, <3>2, <3>3
  <2> QED
    BY <2>1, <2>2
<1> HIDE DEF g, z, t
<1> QED
  BY <1>2, <1>4, <1>5, <1>7, SameNames DEF Seen!Submit, Seen!do_task, z

(* A refused object goes back to the pool: not seen. *)
LEMMA ReleaseUnseen ==
  ASSUME Inv, NEW th \in Thread, ReleaseUnqueued(th) PROVE UNCHANGED Seen!vars
<1> USE TaskAssumption DEF Inv
<1>0. /\ task_gid \in [Task -> Gid \cup {0}]
      /\ ctask \in [Thread -> Task \cup {nullptr}] /\ cur \in [Worker -> Task \cup {nullptr}]
      /\ cpc \in [Thread -> {"none", "allocate", "flag", "push", "release"}]
      /\ \A w \in Worker : \A i \in 1 .. Len(m_task[w]) : m_task[w][i] \in Task \cup {nullptr}
  BY DEF TypeOK
<1> DEFINE t == ctask[th]
<1>1. t \in Task /\ t # nullptr
  BY <1>0 DEF ReleaseUnqueued, CallInv
<1>2. /\ cpc[th] = "release"
      /\ task_gid' = [task_gid EXCEPT ![t] = 0]
      /\ cpc' = [cpc EXCEPT ![th] = "none"]
      /\ ctask' = [ctask EXCEPT ![th] = nullptr]
      /\ UNCHANGED <<m_task, stop_flag, wpc, cur, cgid, mpc, stopping>>
  BY DEF ReleaseUnqueued, queueVars, runVars, stopVars
<1>3. /\ \A w \in Worker : cur[w] # t
      /\ \A w \in Worker : \A i \in 1 .. Len(m_task[w]) : m_task[w][i] # t
      /\ \A u \in Thread : ctask[u] = t => u = th
  BY <1>1 DEF CallExcl
<1>4. QueueSeen' = QueueSeen
  BY <1>0, <1>1, <1>2, <1>3, QueueQuiet
<1>5. TakenSeen' = TakenSeen /\ StageSeen' = StageSeen
  BY <1>0, <1>1, <1>2, <1>3, TakenQuiet, StageQuiet
<1>6. CallSeen' = CallSeen
  <2>1. \A u \in Thread \ {th} : cpc[u] \in {"flag", "push"} =>
           task_gid'[ctask'[u]] = task_gid[ctask[u]]
    BY <1>0, <1>1, <1>2, <1>3 DEF CallInv
  <2> QED
    BY <1>0, <1>2, <2>1 DEF CallSeen
<1> QED
  BY <1>4, <1>5, <1>6 DEF Seen!vars

(* task_queue::pop takes what is seen first. *)
LEMMA PopSeen ==
  ASSUME Inv, NEW z \in Worker, Pop(z) PROVE Seen!Take(z)
<1> DEFINE n == Len(m_task[z])
           Q == QueueSeen[z]
<1>0. /\ m_task \in [Worker -> Seq(Task \cup {nullptr})]
      /\ wpc \in [Worker -> {"start", "pop", "check", "run", "destory", "exited"}]
      /\ cur \in [Worker -> Task \cup {nullptr}]
  BY DEF Inv, TypeOK
<1>1. /\ wpc[z] = "pop" /\ m_task[z] # <<>>
      /\ m_task' = [m_task EXCEPT ![z] = Tail(@)]
      /\ cur' = [cur EXCEPT ![z] = Head(m_task[z])]
      /\ wpc' = [wpc EXCEPT ![z] = "check"]
      /\ UNCHANGED <<task_gid, stop_flag, cpc, cgid, ctask, mpc, stopping>>
  BY DEF Pop, poolVars, callVars, stopVars
<1>2. /\ n \in Nat \ {0} /\ Head(m_task[z]) = m_task[z][1]
      /\ Len(m_task'[z]) = n - 1
      /\ \A i \in 1 .. Len(m_task'[z]) : m_task'[z][i] = m_task[z][i + 1]
      /\ \A v \in Worker \ {z} : m_task'[v] = m_task[v]
  BY <1>0, <1>1, PopFrom
<1>3. CallSeen' = CallSeen /\ StageSeen' = StageSeen
  BY <1>1, CallQuiet, StageQuiet
<1>4. \A y : GidOf(y)' = GidOf(y)
  BY <1>1 DEF GidOf
<1>5. Q = [i \in 1 .. n |-> GidOf(m_task[z][i])]
  BY DEF QueueSeen
<1>6. QueueSeen'[z] = [i \in 1 .. n - 1 |-> GidOf(m_task[z][i + 1])]
  <2>1. QueueSeen'[z] = [i \in 1 .. n - 1 |-> GidOf(m_task'[z][i])]
    BY <1>2, <1>4 DEF QueueSeen
  <2>2. \A i \in 1 .. n - 1 : m_task'[z][i] = m_task[z][i + 1]
    BY <1>2
  <2> QED
    BY <2>1, <2>2
<1>7. Q # <<>> /\ Head(Q) = GidOf(m_task[z][1]) /\ Tail(Q) = QueueSeen'[z]
  <2> DEFINE S == {GidOf(m_task[z][i]) : i \in 1 .. n}
             T == [i \in 1 .. n - 1 |-> GidOf(m_task[z][i + 1])]
  <2>1. Q \in Seq(S) /\ Len(Q) = n
    <3> HIDE DEF n
    <3>1. n \in Nat /\ \A i \in 1 .. n : GidOf(m_task[z][i]) \in S
      BY <1>2
    <3> HIDE DEF S
    <3>2. Q \in [1 .. n -> S]
      BY <1>5, <3>1
    <3> HIDE DEF Q
    <3> QED
      BY <3>1, <3>2
  <2>2. \A i \in 1 .. n : Q[i] = GidOf(m_task[z][i])
    BY <1>5
  <2> HIDE DEF S, Q, n
  <2>3. Q # <<>> /\ Head(Q) = Q[1] /\ 1 \in 1 .. n
    BY <1>2, <2>1
  <2>4. Tail(Q) = T
    <3> DEFINE A == Tail(Q)
    <3>1. A \in Seq(S) /\ Len(A) = n - 1 /\ \A i \in 1 .. n - 1 : A[i] = Q[i + 1]
      BY <1>2, <2>1, <2>3
    <3>2. \A i \in 1 .. n - 1 : Q[i + 1] = GidOf(m_task[z][i + 1])
      BY <1>2, <2>2
    <3> HIDE DEF A
    <3>3. A \in [1 .. n - 1 -> S]
      BY <1>2, <3>1
    <3>4. A = [i \in 1 .. n - 1 |-> A[i]]
      BY <3>3
    <3>5. A = T
      BY <3>1, <3>2, <3>4
    <3> QED
      BY <3>5 DEF A
  <2> QED
    BY <1>6, <2>2, <2>3, <2>4
<1>8. QueueSeen' = [QueueSeen EXCEPT ![z] = Tail(@)]
  <2>1. \A v \in Worker \ {z} : QueueSeen'[v] = QueueSeen[v]
    BY <1>2, <1>4 DEF QueueSeen
  <2>2. /\ QueueSeen' = [v \in Worker |-> QueueSeen'[v]]
        /\ QueueSeen = [v \in Worker |-> QueueSeen[v]]
    BY DEF QueueSeen
  <2>3. QueueSeen'[z] = Tail(QueueSeen[z])
    BY <1>7
  <2> HIDE DEF Q, n
  <2> QED
    BY <2>1, <2>2, <2>3
<1>9. TakenSeen[z] = <<>> /\ TakenSeen' = [TakenSeen EXCEPT ![z] = <<Head(QueueSeen[z])>>]
  <2>1. TakenSeen[z] = <<>>
    BY <1>1 DEF TakenSeen
  <2>2. TakenSeen'[z] = <<Head(QueueSeen[z])>>
    <3>1. wpc'[z] = "check" /\ cur'[z] = m_task[z][1]
      BY <1>0, <1>1, <1>2
    <3> QED
      BY <1>4, <1>7, <3>1 DEF TakenSeen
  <2>3. \A v \in Worker \ {z} : TakenSeen'[v] = TakenSeen[v]
    BY <1>0, <1>1, <1>4 DEF TakenSeen
  <2>4. /\ TakenSeen' = [v \in Worker |-> TakenSeen'[v]]
        /\ TakenSeen = [v \in Worker |-> TakenSeen[v]]
    BY DEF TakenSeen
  <2> HIDE DEF Q, n
  <2> QED
    BY <2>1, <2>2, <2>3, <2>4
<1> QED
  BY <1>3, <1>7, <1>8, <1>9 DEF Seen!Take

(* A worker that has popped runs the task, or ends. *)
LEMMA CheckSeen ==
  ASSUME Inv, NEW z \in Worker, CheckStop(z)
  PROVE  Seen!Quit(z) \/ UNCHANGED Seen!vars
<1>0. /\ wpc \in [Worker -> {"start", "pop", "check", "run", "destory", "exited"}]
      /\ z \in Thread
  BY Threads DEF Inv, TypeOK
<1>1. /\ wpc[z] = "check"
      /\ UNCHANGED <<task_gid, m_task, stop_flag, cur, cpc, cgid, ctask, mpc, stopping>>
  BY Zenon DEF CheckStop, poolVars, queueVars, callVars, stopVars
<1>2. QueueSeen' = QueueSeen /\ CallSeen' = CallSeen /\ StageSeen' = StageSeen
  BY <1>1, QueueQuiet, CallQuiet, StageQuiet
<1>3. \A y : GidOf(y)' = GidOf(y)
  BY <1>1 DEF GidOf
<1>4. TakenSeen[z] = <<GidOf(cur[z])>>
  BY <1>1 DEF TakenSeen
<1>5. CallSeen[z] = 0
  <2>1. cpc[z] = "none"
    BY <1>1 DEF Inv, RunInv
  <2> QED
    BY <1>0, <2>1 DEF CallSeen
<1>6. CASE stop_flag[z]
  <2>1. wpc' = [wpc EXCEPT ![z] = "exited"]
    BY <1>6, Zenon DEF CheckStop
  <2>2. TakenSeen' = [TakenSeen EXCEPT ![z] = <<0>>]
    BY <1>0, <1>1, <1>3, <2>1 DEF TakenSeen
  <2>3. StageSeen[z] = "ended"
    BY <1>6 DEF StageSeen
  <2> QED
    BY <1>2, <1>4, <1>5, <2>2, <2>3, Singles DEF Seen!Quit
<1>7. CASE ~ stop_flag[z]
  <2>1. \/ wpc' = [wpc EXCEPT ![z] = "exited"] /\ cur[z] = nullptr
        \/ wpc' = [wpc EXCEPT ![z] = "run"]
    BY <1>7, Zenon DEF CheckStop
  <2>2. cur[z] = nullptr => GidOf(cur[z]) = 0
    BY DEF GidOf
  <2>3. TakenSeen' = TakenSeen
    BY <1>0, <1>1, <1>3, <2>1, <2>2 DEF TakenSeen
  <2> QED
    BY <1>2, <2>3 DEF Seen!vars
<1> QED
  BY <1>6, <1>7

(* task::run returns to worker::run. *)
LEMMA ReturnSeen ==
  ASSUME Inv, NEW z \in Worker, RunReturns(z) PROVE Seen!Return(z)
<1> USE GidAssumption
<1>0. /\ wpc \in [Worker -> {"start", "pop", "check", "run", "destory", "exited"}]
      /\ z \in Thread
  BY Threads DEF Inv, TypeOK
<1>1. /\ wpc[z] = "run" /\ cpc[z] = "none" /\ wpc' = [wpc EXCEPT ![z] = "destory"]
      /\ UNCHANGED <<task_gid, m_task, stop_flag, cur, cpc, cgid, ctask, mpc, stopping>>
  BY DEF RunReturns, poolVars, queueVars, callVars, stopVars
<1>2. QueueSeen' = QueueSeen /\ CallSeen' = CallSeen /\ StageSeen' = StageSeen
  BY <1>1, QueueQuiet, CallQuiet, StageQuiet
<1>3. \A y : GidOf(y)' = GidOf(y)
  BY <1>1 DEF GidOf
<1>4. TakenSeen[z] = <<GidOf(cur[z])>> /\ GidOf(cur[z]) # 0
  <2>1. cur[z] # nullptr
    BY <1>1 DEF Inv, RunInv
  <2>2. GidOf(cur[z]) \in Gid
    BY <2>1 DEF Inv, Affinity, AffinityAt, GidOf
  <2> QED
    BY <1>1, <2>2 DEF TakenSeen
<1>5. CallSeen[z] = 0
  BY <1>0, <1>1 DEF CallSeen
<1>6. TakenSeen' = [TakenSeen EXCEPT ![z] = <<>>]
  BY <1>0, <1>1, <1>3 DEF TakenSeen
<1> QED
  BY <1>2, <1>4, <1>5, <1>6, Singles DEF Seen!Return

(* The task that was run goes back to the pool: not seen. *)
LEMMA DestoryUnseen ==
  ASSUME Inv, NEW z \in Worker, Destory(z) PROVE UNCHANGED Seen!vars
<1> USE TaskAssumption DEF Inv
<1>0. /\ task_gid \in [Task -> Gid \cup {0}]
      /\ ctask \in [Thread -> Task \cup {nullptr}] /\ cur \in [Worker -> Task \cup {nullptr}]
      /\ wpc \in [Worker -> {"start", "pop", "check", "run", "destory", "exited"}]
      /\ \A w \in Worker : \A i \in 1 .. Len(m_task[w]) : m_task[w][i] \in Task \cup {nullptr}
  BY DEF TypeOK
<1> DEFINE t == cur[z]
<1>1. t \in Task /\ t # nullptr
  BY <1>0 DEF Destory, RunInv
<1>2. /\ wpc[z] = "destory"
      /\ task_gid' = [task_gid EXCEPT ![t] = 0]
      /\ cur' = [cur EXCEPT ![z] = nullptr]
      /\ wpc' = [wpc EXCEPT ![z] = "pop"]
      /\ UNCHANGED <<m_task, stop_flag, cpc, cgid, ctask, mpc, stopping>>
  BY DEF Destory, queueVars, callVars, stopVars
<1>3. /\ \A v \in Worker : cur[v] = t => v = z
      /\ \A v \in Worker : \A i \in 1 .. Len(m_task[v]) : m_task[v][i] # t
      /\ \A u \in Thread : ctask[u] # t
  BY <1>1 DEF CurExcl, CallExcl
<1>4. QueueSeen' = QueueSeen
  BY <1>0, <1>1, <1>2, <1>3, QueueQuiet
<1>5. CallSeen' = CallSeen
  <2>1. \A u \in Thread : cpc[u] \in {"flag", "push"} => ctask[u] \in Task /\ ctask[u] # t
    BY <1>0, <1>3 DEF CallInv
  <2>2. \A u \in Thread : cpc[u] \in {"flag", "push"} => task_gid'[ctask[u]] = task_gid[ctask[u]]
    BY <1>0, <1>2, <2>1
  <2> QED
    BY <1>2, <2>2, CallQuiet
<1>6. StageSeen' = StageSeen
  BY <1>2, StageQuiet
<1>7. TakenSeen' = TakenSeen
  <2>1. \A v \in Worker \ {z} : wpc'[v] = wpc[v] /\ cur'[v] = cur[v] /\ GidOf(cur[v])' = GidOf(cur[v])
    BY <1>0, <1>1, <1>2, <1>3 DEF GidOf
  <2>2. wpc'[z] = "pop"
    BY <1>0, <1>2
  <2> QED
    BY <1>2, <2>1, <2>2 DEF TakenSeen
<1> QED
  BY <1>4, <1>5, <1>6, <1>7 DEF Seen!vars

(* A thread that reaches worker::run's loop: not seen. *)
LEMMA BeginUnseen ==
  ASSUME Inv, NEW z \in Worker, RunBegin(z) PROVE UNCHANGED Seen!vars
<1>0. wpc \in [Worker -> {"start", "pop", "check", "run", "destory", "exited"}]
  BY DEF Inv, TypeOK
<1>1. /\ wpc[z] = "start" /\ wpc' = [wpc EXCEPT ![z] = "pop"]
      /\ UNCHANGED <<task_gid, m_task, stop_flag, cur, cpc, cgid, ctask, mpc, stopping>>
  BY DEF RunBegin, poolVars, queueVars, callVars, stopVars
<1>2. QueueSeen' = QueueSeen /\ CallSeen' = CallSeen /\ StageSeen' = StageSeen
  BY <1>1, QueueQuiet, CallQuiet, StageQuiet
<1>3. \A y : GidOf(y)' = GidOf(y)
  BY <1>1 DEF GidOf
<1>4. TakenSeen' = TakenSeen
  BY <1>0, <1>1, <1>3 DEF TakenSeen
<1> QED
  BY <1>2, <1>4 DEF Seen!vars

(* The steps of worker_pool::stop: going to the next worker is not seen,   *)
(* the sentinel asks the worker to end, the flag insists.                  *)
LEMMA StopSeen ==
  ASSUME Inv, StopInv, StopNext \/ StopPush \/ StopFlag
  PROVE  Seen!Ask(stopping) \/ Seen!Insist(stopping) \/ UNCHANGED Seen!vars
<1>0. /\ m_task \in [Worker -> Seq(Task \cup {nullptr})]
      /\ stopping \in Worker /\ stop_flag \in [Worker -> BOOLEAN]
  BY DEF Inv, TypeOK
<1>1. UNCHANGED <<task_gid, wpc, cur, cpc, cgid, ctask>>
  BY DEF StopNext, StopPush, StopFlag, poolVars, runVars, callVars
<1>2. CallSeen' = CallSeen /\ TakenSeen' = TakenSeen
  BY <1>1, CallQuiet, TakenQuiet
<1>3. CASE StopNext
  <2>1. /\ m_task' = m_task /\ stop_flag' = stop_flag
        /\ mpc # "stop_flag" /\ mpc' # "stop_flag"
    BY <1>3 DEF StopNext, queueVars
  <2>2. QueueSeen' = QueueSeen
    BY <1>1, <2>1, QueueQuiet
  <2>3. StageSeen' = StageSeen
    BY <2>1, Zenon DEF StageSeen
  <2> QED
    BY <1>2, <2>2, <2>3 DEF Seen!vars
<1>4. CASE StopPush
  <2>1. /\ m_task' = [m_task EXCEPT ![stopping] = Append(@, nullptr)]
        /\ mpc = "stop_push" /\ mpc' = "stop_flag"
        /\ UNCHANGED <<stop_flag, stopping>>
    BY <1>4 DEF StopPush
  <2>2. ~ stop_flag[stopping]
    BY <2>1 DEF StopInv
  <2>3. QueueSeen' = [QueueSeen EXCEPT ![stopping] = Append(@, 0)]
    <3>1. GidOf(nullptr) = 0
      BY DEF GidOf
    <3>2. QueueSeen' = [QueueSeen EXCEPT ![stopping] = Append(@, GidOf(nullptr))]
      BY <1>0, <1>1, <2>1, AppendSeen
    <3> QED
      BY <3>1, <3>2
  <2>4. StageSeen[stopping] = "up" /\ StageSeen' = [StageSeen EXCEPT ![stopping] = "asked"]
    <3>1. StageSeen[stopping] = "up" /\ StageSeen'[stopping] = "asked"
      BY <1>0, <2>1, <2>2, Zenon DEF StageSeen
    <3>2. \A v \in Worker \ {stopping} : StageSeen'[v] = StageSeen[v]
      BY <2>1 DEF StageSeen
    <3>3. /\ StageSeen' = [v \in Worker |-> StageSeen'[v]]
          /\ StageSeen = [v \in Worker |-> StageSeen[v]]
      BY DEF StageSeen
    <3> QED
      BY <1>0, <3>1, <3>2, <3>3
  <2> QED
    BY <1>2, <2>3, <2>4 DEF Seen!Ask
<1>5. CASE StopFlag
  <2>1. /\ stop_flag' = [stop_flag EXCEPT ![stopping] = TRUE]
        /\ mpc = "stop_flag" /\ mpc' = "stop_wait"
        /\ UNCHANGED <<m_task, stopping>>
    BY <1>5 DEF StopFlag, queueVars
  <2>2. ~ stop_flag[stopping]
    BY <2>1 DEF StopInv
  <2>3. QueueSeen' = QueueSeen
    BY <1>1, <2>1, QueueQuiet
  <2>4. StageSeen[stopping] = "asked" /\ StageSeen' = [StageSeen EXCEPT ![stopping] = "ended"]
    <3>0. stop_flag'[stopping] /\ \A v \in Worker \ {stopping} : stop_flag'[v] = stop_flag[v]
      BY <1>0, <2>1
    <3>1. StageSeen[stopping] = "asked" /\ StageSeen'[stopping] = "ended"
      BY <1>0, <2>1, <2>2, <3>0 DEF StageSeen
    <3>2. \A v \in Worker \ {stopping} : StageSeen'[v] = StageSeen[v]
      BY <2>1, <3>0 DEF StageSeen
    <3>3. /\ StageSeen' = [v \in Worker |-> StageSeen'[v]]
          /\ StageSeen = [v \in Worker |-> StageSeen[v]]
      BY DEF StageSeen
    <3> QED
      BY <1>0, <3>1, <3>2, <3>3
  <2> QED
    BY <1>2, <2>3, <2>4 DEF Seen!Insist
<1> QED
  BY <1>3, <1>4, <1>5

(* do_task, whose wait for an object, unlocked test of stop_flag, push and *)
(* release are steps of their own, is seen by its callers as one step that *)
(* queues the connection at its worker unless it is queued there, and      *)
(* worker::run answers in order, for any number of threads, connections    *)
(* and task objects and while worker_pool::stop ends the workers.          *)
THEOREM DispatchIsWakeUps == Spec => IsWakeUps
<1>1. Init => Seen!Init
  <2> SUFFICES ASSUME Init PROVE Seen!Init
    OBVIOUS
  <2>1. QueueSeen = [w \in Worker |-> <<>>]
    BY DEF Init, QueueSeen
  <2>2. CallSeen = [th \in Thread |-> 0]
    BY DEF Init, CallSeen
  <2>3. TakenSeen = [w \in Worker |-> <<>>]
    BY DEF Init, TakenSeen
  <2>4. StageSeen = [w \in Worker |-> "up"]
    BY DEF Init, StageSeen
  <2> QED
    BY <2>1, <2>2, <2>3, <2>4, SameNames DEF Seen!Init
<1>2. Inv /\ StopInv /\ [Next]_vars => [Seen!Next]_(Seen!vars)
  <2> SUFFICES ASSUME Inv, StopInv, [Next]_vars PROVE Seen!Next \/ UNCHANGED Seen!vars
    OBVIOUS
  <2> USE SameNames, Threads
  <2>1. ASSUME NEW g \in Gid, MainCalls(g) PROVE Seen!Next
    <3>1. Seen!Call(Main, g)
      BY <2>1, CallSeenStep DEF MainCalls, poolVars, queueVars, runVars, stopVars
    <3> QED
      BY <3>1 DEF Seen!Next
  <2>2. ASSUME NEW w \in Worker, NEW g \in Gid, TaskCalls(w, g) PROVE Seen!Next
    <3>1. Seen!Call(w, g)
      BY <2>2, CallSeenStep DEF TaskCalls, poolVars, queueVars, stopVars
    <3> QED
      BY <3>1 DEF Seen!Next
  <2>3. ASSUME NEW th \in Thread, DoTask(th) PROVE Seen!Next \/ UNCHANGED Seen!vars
    <3>1. Seen!Submit(th) \/ Seen!Drop(th) \/ UNCHANGED Seen!vars
      BY <2>3, AllocateUnseen, TestSeen, PushSeen, ReleaseUnseen DEF DoTask
    <3> QED
      BY <3>1 DEF Seen!Next
  <2>4. ASSUME NEW w \in Worker, WorkerStep(w) PROVE Seen!Next \/ UNCHANGED Seen!vars
    <3>1. Seen!Take(w) \/ Seen!Quit(w) \/ Seen!Return(w) \/ UNCHANGED Seen!vars
      BY <2>4, BeginUnseen, PopSeen, CheckSeen, ReturnSeen, DestoryUnseen DEF WorkerStep
    <3> QED
      BY <3>1 DEF Seen!Next
  <2>5. CASE StopNext \/ StopPush \/ StopFlag
    <3>1. stopping \in Worker
      BY DEF Inv, TypeOK
    <3>2. Seen!Ask(stopping) \/ Seen!Insist(stopping) \/ UNCHANGED Seen!vars
      BY <2>5, StopSeen
    <3> QED
      BY <3>1, <3>2 DEF Seen!Next
  <2>6. CASE UNCHANGED vars
    <3>1. UNCHANGED <<task_gid, m_task, stop_flag, wpc, cur, cpc, cgid, ctask, mpc, stopping>>
      BY <2>6 DEF vars, poolVars, queueVars, runVars, callVars, stopVars
    <3> QED
      BY <3>1, QueueQuiet, CallQuiet, TakenQuiet, StageQuiet DEF Seen!vars
  <2> QED
    BY <2>1, <2>2, <2>3, <2>4, <2>5, <2>6 DEF Next, StopStep, StopWait, Terminated
<1> QED
  BY <1>1, <1>2, InvInductive, StopInvariant, PTL DEF Spec, IsWakeUps, Seen!Spec
=============================================================================
