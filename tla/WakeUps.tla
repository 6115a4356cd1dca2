------------------------------ MODULE WakeUps ------------------------------
(***************************************************************************)
(* What do_task promises its callers, and what Reactor takes it for: a     *)
(* call puts the connection at the end of its worker's queue in one step,  *)
(* unless it is there already, and the worker answers what is queued one   *)
(* by one, in order.  The pool of task objects, the sets of queued gids    *)
(* and the waits do not show.  A call is dropped only after its worker has *)
(* been told to end, and 0 is what tells it.                               *)
(***************************************************************************)
EXTENDS Naturals, Sequences

CONSTANTS
    NW,         \* worker threads
    Gid         \* the connection ids in use

Worker == 0 .. NW - 1
Thread == 0 .. NW

VARIABLES
    queue,      \* the gids each worker has yet to answer
    call,       \* the gid that a thread is calling do_task for, or 0
    taken,      \* what a worker has taken, <<>> when it waits
    stage       \* how far a worker's end is: "up", "asked" or "ended"

vars == <<queue, call, taken, stage>>

WorkerOf(g) == g % NW

Init ==
    /\ queue = [w \in Worker |-> <<>>]
    /\ call = [th \in Thread |-> 0]
    /\ taken = [w \in Worker |-> <<>>]
    /\ stage = [w \in Worker |-> "up"]

(* Any thread may call, a worker only from the task it runs. *)
Call(th, g) ==
    /\ call[th] = 0 /\ (th \in Worker => taken[th] \notin {<<>>, <<0>>})
    /\ call' = [call EXCEPT ![th] = g]
    /\ UNCHANGED <<queue, taken, stage>>

do_task(g) ==
    queue' = [queue EXCEPT ![WorkerOf(g)] =
                  IF \E i \in 1 .. Len(@) : @[i] = g THEN @ ELSE Append(@, g)]

Submit(th) ==
    /\ call[th] # 0
    /\ do_task(call[th])
    /\ call' = [call EXCEPT ![th] = 0]
    /\ UNCHANGED <<taken, stage>>

Drop(th) ==
    /\ call[th] # 0 /\ stage[WorkerOf(call[th])] = "ended"
    /\ call' = [call EXCEPT ![th] = 0]
    /\ UNCHANGED <<queue, taken, stage>>

Take(w) ==
    /\ taken[w] = <<>> /\ queue[w] # <<>>
    /\ taken' = [taken EXCEPT ![w] = <<Head(queue[w])>>]
    /\ queue' = [queue EXCEPT ![w] = Tail(@)]
    /\ UNCHANGED <<call, stage>>

Return(w) ==
    /\ taken[w] \notin {<<>>, <<0>>} /\ call[w] = 0
    /\ taken' = [taken EXCEPT ![w] = <<>>]
    /\ UNCHANGED <<queue, call, stage>>

(* A worker is told to end behind all that is queued, once; from then on   *)
(* it may end without running what it has taken.                           *)
Ask(w) ==
    /\ stage[w] = "up"
    /\ queue' = [queue EXCEPT ![w] = Append(@, 0)]
    /\ stage' = [stage EXCEPT ![w] = "asked"]
    /\ UNCHANGED <<call, taken>>

Insist(w) ==
    /\ stage[w] = "asked"
    /\ stage' = [stage EXCEPT ![w] = "ended"]
    /\ UNCHANGED <<queue, call, taken>>

Quit(w) ==
    /\ stage[w] = "ended" /\ taken[w] # <<>> /\ call[w] = 0
    /\ taken' = [taken EXCEPT ![w] = <<0>>]
    /\ UNCHANGED <<queue, call, stage>>

Next ==
    \/ \E th \in Thread : Submit(th) \/ Drop(th) \/ \E g \in Gid : Call(th, g)
    \/ \E w \in Worker : Take(w) \/ Return(w) \/ Ask(w) \/ Insist(w) \/ Quit(w)

Spec == Init /\ [][Next]_vars
=============================================================================
