------------------------------ MODULE FifoLock ------------------------------
(***************************************************************************)
(* What nc_mutex promises, without workers, run queues or signals: every   *)
(* mutex is a queue of threads whose head owns it.  A request joins the    *)
(* queue once, the owner leaves it, and so the mutex passes to the threads *)
(* in the order in which they asked for it, with no gap in which a         *)
(* newcomer could overtake.                                                *)
(***************************************************************************)
EXTENDS Sequences

CONSTANTS Thread, Mutex

VARIABLE queue

Init == queue = [m \in Mutex |-> <<>>]

(* __nc_mutex_lock was entered.  A thread that owns m may ask again: it    *)
(* then waits behind itself.                                               *)
Request(t, m) == queue' = [queue EXCEPT ![m] = Append(@, t)]

(* __nc_mutex_unlock by the owner.                                         *)
HandOver(m) ==
    /\ queue[m] # <<>>
    /\ queue' = [queue EXCEPT ![m] = Tail(@)]

Next ==
    \E m \in Mutex : HandOver(m) \/ \E t \in Thread : Request(t, m)

Spec == Init /\ [][Next]_queue

=============================================================================
