----------------------------- MODULE WorkerPool -----------------------------
(***************************************************************************)
(* The M:N scheduler of runtime/ncrt.c as a compiled program runs it:      *)
(* __nc_scheduler_init starts NumWorkers OS threads in worker_loop, the    *)
(* user's main runs on the OS main thread and spawns green threads, and    *)
(* __nc_scheduler_shutdown drains them.                                    *)
(*                                                                         *)
(* Every critical section under sched.cs is one action.  A mutex's own     *)
(* critical section is one action too: nc_mutex_park_and_unlock touches    *)
(* only the mutex and the calling green thread, and __nc_mutex_unlock      *)
(* takes sched.cs inside it, never the other way round.  What happens      *)
(* OUTSIDE the locks is a separate action: between the push of a green     *)
(* thread on a queue and __nc_g_switch saving its context, and between     *)
(* that save and the worker reading g->state again.                        *)
(*                                                                         *)
(* The list of all green threads, all_g_head, is edited without any lock:  *)
(* __nc_g_alloc loads the head and later stores a new one, __nc_g_free     *)
(* walks the list and stores into the link it stops at.  Each edit lasts,  *)
(* so two may overlap, which is a data race: an insertion or a removal is  *)
(* lost, or a freed green thread stays linked.  From then on the model     *)
(* does not say what is in the list, and a walk may or may not read freed  *)
(* memory.                                                                 *)
(*                                                                         *)
(* `fatal' records why the process died or which undefined behaviour was   *)
(* reached; nothing is said of what happens after it.                      *)
(***************************************************************************)
EXTENDS SchedCore, Integers, FiniteSets

CONSTANTS
    GT,          \* nc_green_thread objects (each is allocated at most once)
    Mutex,       \* nc_mutex objects
    Main,        \* the OS main thread
    NoG,         \* NULL
    NumWorkers,  \* argument of __nc_scheduler_init
    MaxSleep,    \* bound: longest __nc_sleep, in clock units
    PollTicks,   \* shutdown's poll interval (1 s), in clock units
    DrainTicks   \* units until shutdown's 5 s deadline lies in the past

ASSUME PoolAssumption ==
    /\ NumWorkers \in Nat \ {0}
    /\ MaxSleep \in Nat /\ PollTicks \in Nat /\ DrainTicks \in Nat
    /\ Main \notin GT /\ NoG \notin GT /\ NoG \notin Mutex
    /\ Main # NoG
    /\ Main \notin 0..(NumWorkers - 1) /\ NoG \notin 0..(NumWorkers - 1)

Workers == 0..(NumWorkers - 1)
Thread  == GT \cup {Main}

VARIABLES
    gstate,      \* g->state, with "unborn" before __nc_g_alloc, "freed" after __nc_g_free
    saved,       \* g->rsp holds a context that may be switched to
    runq,        \* run_head .. run_tail
    timers,      \* timer_head ..
    locked,      \* m->locked
    waitq,       \* m->head .. m->tail
    holds,       \* ghost: mutexes whose __nc_mutex_lock returned to the thread
    parkedOn,    \* ghost: the mutex in whose __nc_mutex_lock the thread is parked
    liveCount,   \* sched.live_g_count
    accepting,   \* sched.accepting
    liveWorkers, \* sched.live_workers
    allG,        \* what the list from all_g_head holds; {} once it is not known
    fresh,       \* the green thread a thread is inserting there, from load to store
    overlapped,  \* ghost: two edits of that list have been under way at once
    overtaken,   \* ghost: a green thread was dispatched before its last worker left it
    wpc,         \* where each worker is
    wcur,        \* the local g of worker_loop, NoG outside its scope
    wleft,       \* what is left of a worker's timed wait
    mpc,         \* where main is
    mleft,       \* what is left of main's timed wait
    drainLeft,   \* 0 once shutdown's deadline has passed
    joinN,       \* how many handles shutdown joins
    fatal

gvars == <<gstate, saved>>
qvars == <<runq, timers>>
mutexVars == <<locked, waitq, holds, parkedOn>>
raceVars == <<allG, fresh, overlapped, overtaken>>
schedVars == <<liveCount, accepting, liveWorkers, allG, fresh, overlapped,
               overtaken>>
clockVars == <<wleft, mleft, drainLeft>>
vars == <<gstate, saved, runq, timers, locked, waitq, holds, parkedOn,
          liveCount, accepting, liveWorkers, allG, fresh, overlapped, overtaken,
          wpc, wcur, wleft, mpc, mleft, drainLeft, joinN, fatal>>

GState   == {"unborn", "runnable", "running", "wait_mutex", "wait_timer",
             "dead", "freed"}
WorkerPC == {"loop", "wait", "timedwait", "run", "switch", "after", "finish",
             "free", "exited"}
MainPC   == {"user", "drain", "drainwait", "join", "done"}
Fatal    == {"none", "abort", "deadlock", "resume_unsaved", "use_after_free",
             "double_free", "null_worker"}

Init ==
    /\ gstate = [g \in GT |-> "unborn"]
    /\ saved = [g \in GT |-> FALSE]
    /\ runq = <<>>
    /\ timers = <<>>
    /\ locked = [m \in Mutex |-> 0]
    /\ waitq = [m \in Mutex |-> <<>>]
    /\ holds = [t \in Thread |-> {}]
    /\ parkedOn = [t \in Thread |-> NoG]
    /\ liveCount = 0
    /\ accepting = TRUE
    /\ liveWorkers = NumWorkers
    /\ allG = {}
    /\ fresh = [t \in Thread |-> NoG]
    /\ overlapped = FALSE
    /\ overtaken = FALSE
    /\ wpc = [w \in Workers |-> "loop"]
    /\ wcur = [w \in Workers |-> NoG]
    /\ wleft = [w \in Workers |-> 0]
    /\ mpc = "user"
    /\ mleft = 0
    /\ drainLeft = 0
    /\ joinN = 0
    /\ fatal = "none"

-----------------------------------------------------------------------------
(* The condition variable sched.cv.  Workers wait on it in worker_loop and *)
(* main waits on it while it drains.                                       *)

Asleep  == {w \in Workers : wpc[w] \in {"wait", "timedwait"}}
Waiters == Asleep \cup (IF mpc = "drainwait" THEN {Main} ELSE {})

(* SCHED_SIGNAL wakes one waiter, any one, and does nothing without one.   *)
SignalledNone == {NoG}   \* mutant: nobody is signalled
Signalled == IF Waiters = {} THEN {NoG} ELSE Waiters

WakeWorker(x) == [w \in Workers |-> IF w = x THEN "loop" ELSE wpc[w]]
WakeMain(x)   == IF x = Main THEN "drain" ELSE mpc

(* SCHED_BROADCAST wakes them all.                                         *)
WakeAllWorkers == [w \in Workers |-> IF w \in Asleep THEN "loop" ELSE wpc[w]]
WakeAllMain    == IF mpc = "drainwait" THEN "drain" ELSE mpc

Alive == fatal = "none" /\ mpc # "done"

-----------------------------------------------------------------------------
(* The list of all green threads.                                          *)

(* Who is between the load and the store of an insertion, and which green  *)
(* threads are being unlinked: from g_finish_dead to the end of            *)
(* __nc_g_free.                                                            *)
Inserting == {t \in Thread : fresh[t] # NoG}
Removing  == {w \in Workers : wpc[w] = "free"}

(* Another edit begins.                                                    *)
BeginEdit ==
    /\ overlapped' = (overlapped \/ Inserting # {} \/ Removing # {})
    /\ allG' = IF overlapped' THEN {} ELSE allG

(* An edit ends, and the list holds S unless it was overlapped.            *)
EndEdit(S) ==
    /\ allG' = IF overlapped THEN {} ELSE S
    /\ UNCHANGED overlapped

-----------------------------------------------------------------------------
(* worker_loop.  The worker takes sched.cs, moves the expired timers to    *)
(* the run queue, and then dispatches, waits or returns.  It does the same *)
(* when a wait returns, so both points are "loop".                         *)

Ready == runq \o Expired(timers)

(* The workers that switch away from g, which is on a queue already, or    *)
(* have yet to read g->state after it.                                     *)
Leaving(g) == {w \in Workers : wpc[w] \in {"switch", "after"} /\ wcur[w] = g}

(* runq_pop_locked succeeded: g becomes G_RUNNING and is switched to.      *)
Dispatch(w) ==
    /\ Alive
    /\ wpc[w] = "loop"
    /\ Ready # <<>>
    /\ LET g == Head(Ready) IN
        /\ runq' = Tail(Ready)
        /\ timers' = Unexpired(timers)
        /\ gstate' = [x \in GT |->
                        IF x = g THEN "running"
                        ELSE IF x \in Elements(Expired(timers)) THEN "runnable"
                        ELSE gstate[x]]
        /\ wcur' = [wcur EXCEPT ![w] = g]
        /\ wpc' = [wpc EXCEPT ![w] = "run"]
        /\ fatal' = IF saved[g] THEN fatal ELSE "resume_unsaved"
        /\ saved' = [saved EXCEPT ![g] = FALSE]
        /\ holds' = [holds EXCEPT ![g] = @ \cup ({parkedOn[g]} \ {NoG})]
        /\ parkedOn' = [parkedOn EXCEPT ![g] = NoG]
        /\ overtaken' = (overtaken \/ Leaving(g) # {})
    /\ UNCHANGED <<locked, waitq, liveCount, accepting, liveWorkers, allG, fresh,
                   overlapped, clockVars, mpc, joinN>>

(* Nothing to run: wait for a signal, with the time to the next deadline   *)
(* as the limit.  timer_next_deadline_ms reads the clock a second time, so *)
(* the clock may have advanced (d) since wake_expired_timers read it; a    *)
(* result of 0 makes the wait an untimed one.                              *)
Wait(w) ==
    /\ Alive
    /\ wpc[w] = "loop"
    /\ Ready = <<>>
    /\ accepting \/ timers # <<>>
    /\ \E d \in 0..1 :
        LET left == NextDeadline(Elapse(timers, d)) IN
        /\ timers' = Elapse(timers, d)
        /\ mleft' = IF d = 1 THEN Countdown(mleft) ELSE mleft
        /\ drainLeft' = IF d = 1 THEN Countdown(drainLeft) ELSE drainLeft
        /\ wleft' = [v \in Workers |->
                        IF v = w THEN left
                        ELSE IF d = 1 THEN Countdown(wleft[v]) ELSE wleft[v]]
        /\ wpc' = [wpc EXCEPT ![w] = IF left > 0 THEN "timedwait" ELSE "wait"]
    /\ UNCHANGED <<gvars, runq, mutexVars, schedVars, wcur, mpc, joinN, fatal>>

(* SleepConditionVariableCS timed out.                                     *)
WaitTimeout(w) ==
    /\ Alive
    /\ wpc[w] = "timedwait"
    /\ wleft[w] = 0
    /\ wpc' = [wpc EXCEPT ![w] = "loop"]
    /\ UNCHANGED <<gvars, qvars, mutexVars, schedVars, wcur, clockVars, mpc,
                   joinN, fatal>>

(* A condition variable may wake a thread for no reason.                   *)
SpuriousWake(w) ==
    /\ Alive
    /\ w \in Asleep
    /\ wpc' = [wpc EXCEPT ![w] = "loop"]
    /\ UNCHANGED <<gvars, qvars, mutexVars, schedVars, wcur, clockVars, mpc,
                   joinN, fatal>>

RetireEarly(w) ==   \* mutant: sleepers do not count
    /\ Alive
    /\ wpc[w] = "loop"
    /\ Ready = <<>>
    /\ ~accepting
    /\ liveWorkers' = liveWorkers - 1
    /\ wpc' = [wpc EXCEPT ![w] = "exited"]
    /\ UNCHANGED <<gvars, qvars, mutexVars, liveCount, accepting, raceVars, wcur,
                   clockVars, mpc, joinN, fatal>>

(* Draining, nothing to run and no timer: the worker thread ends.          *)
Retire(w) ==
    /\ Alive
    /\ wpc[w] = "loop"
    /\ Ready = <<>>
    /\ ~accepting
    /\ timers = <<>>
    /\ liveWorkers' = liveWorkers - 1
    /\ wpc' = [wpc EXCEPT ![w] = "exited"]
    /\ UNCHANGED <<gvars, qvars, mutexVars, liveCount, accepting, raceVars, wcur,
                   clockVars, mpc, joinN, fatal>>

(* __nc_g_switch(g, &w->sched_g): g's context is saved and the worker's    *)
(* own context resumes after its call of __nc_g_switch.                    *)
SwitchOut(w) ==
    /\ Alive
    /\ wpc[w] = "switch"
    /\ saved' = [saved EXCEPT ![wcur[w]] = TRUE]
    /\ wpc' = [wpc EXCEPT ![w] = "after"]
    /\ UNCHANGED <<gstate, qvars, mutexVars, schedVars, wcur, clockVars, mpc,
                   joinN, fatal>>

AfterSwitchFinishes(w) ==   \* mutant: whatever g's state is
    /\ Alive
    /\ wpc[w] = "after"
    /\ LET s == gstate[wcur[w]] IN
        /\ fatal' = IF s = "freed" THEN "use_after_free" ELSE fatal
        /\ wpc' = [wpc EXCEPT ![w] = "finish"]
    /\ UNCHANGED <<gvars, qvars, mutexVars, schedVars, wcur, clockVars, mpc,
                   joinN>>

(* The worker reads g->state, without a lock, whoever runs g by now.       *)
AfterSwitch(w) ==
    /\ Alive
    /\ wpc[w] = "after"
    /\ LET s == gstate[wcur[w]] IN
        /\ fatal' = IF s = "freed" THEN "use_after_free" ELSE fatal
        /\ wpc' = [wpc EXCEPT ![w] = IF s = "dead" THEN "finish" ELSE "loop"]
        /\ wcur' = [wcur EXCEPT ![w] = IF s = "dead" THEN @ ELSE NoG]
    /\ UNCHANGED <<gvars, qvars, mutexVars, schedVars, clockVars, mpc, joinN>>

(* g_finish_dead.                                                          *)
FinishDead(w) ==
    /\ Alive
    /\ wpc[w] = "finish"
    /\ IF liveCount <= 0
       THEN /\ fatal' = "abort"
            /\ UNCHANGED <<liveCount, wpc, mpc, allG, overlapped>>
       ELSE /\ liveCount' = liveCount - 1
            /\ IF liveCount = 1
               THEN wpc' = [WakeAllWorkers EXCEPT ![w] = "free"] /\ mpc' = WakeAllMain
               ELSE wpc' = [wpc EXCEPT ![w] = "free"] /\ mpc' = mpc
            /\ fatal' = fatal
            /\ BeginEdit
    /\ UNCHANGED <<gvars, qvars, mutexVars, accepting, liveWorkers, fresh,
                   overtaken, wcur, clockVars, joinN>>

(* __nc_g_free, the last use of g in this iteration: walk all_g_head to g, *)
(* unlink it and free it.  The walk reads the links of the green threads   *)
(* that stand before g.                                                    *)
FreeG(w) ==
    /\ Alive
    /\ wpc[w] = "free"
    /\ LET g == wcur[w]
           stale == overlapped \/ \E x \in allG : gstate[x] = "freed"
       IN
        /\ fatal' \in
            IF gstate[g] = "freed" THEN {"double_free"}
            ELSE {fatal} \cup (IF stale THEN {"use_after_free"} ELSE {})
        /\ EndEdit(allG \ {g})
        /\ gstate' = [gstate EXCEPT ![g] = "freed"]
    /\ wpc' = [wpc EXCEPT ![w] = "loop"]
    /\ wcur' = [wcur EXCEPT ![w] = NoG]
    /\ UNCHANGED <<saved, qvars, mutexVars, liveCount, accepting, liveWorkers,
                   fresh, overtaken, clockVars, mpc, joinN>>

-----------------------------------------------------------------------------
(* What a green thread does while worker w runs it.                        *)

YieldFront(w) ==   \* mutant: back to the head of the run queue
    /\ Alive
    /\ wpc[w] = "run"
    /\ gstate' = [gstate EXCEPT ![wcur[w]] = "runnable"]
    /\ runq' = <<wcur[w]>> \o runq
    /\ \E x \in Signalled :
        /\ wpc' = [WakeWorker(x) EXCEPT ![w] = "switch"]
        /\ mpc' = WakeMain(x)
    /\ UNCHANGED <<saved, timers, mutexVars, schedVars, wcur, clockVars, joinN,
                   fatal>>

(* __nc_g_yield, called by __nc_g_check_yield at every function entry once *)
(* the time slice is used up.                                              *)
Yield(w) ==
    /\ Alive
    /\ wpc[w] = "run"
    /\ gstate' = [gstate EXCEPT ![wcur[w]] = "runnable"]
    /\ runq' = Append(runq, wcur[w])
    /\ \E x \in Signalled :
        /\ wpc' = [WakeWorker(x) EXCEPT ![w] = "switch"]
        /\ mpc' = WakeMain(x)
    /\ UNCHANGED <<saved, timers, mutexVars, schedVars, wcur, clockVars, joinN,
                   fatal>>

(* __nc_sleep: insert a timer; signal only when it became the head.        *)
Sleep(w) ==
    /\ Alive
    /\ wpc[w] = "run"
    /\ gstate' = [gstate EXCEPT ![wcur[w]] = "wait_timer"]
    /\ \E ms \in 0..MaxSleep :
        /\ timers' = InsertTimer(timers, wcur[w], ms)
        /\ IF InsertPos(timers, ms) = 0
           THEN \E x \in Signalled :
                    /\ wpc' = [WakeWorker(x) EXCEPT ![w] = "switch"]
                    /\ mpc' = WakeMain(x)
           ELSE /\ wpc' = [wpc EXCEPT ![w] = "switch"]
                /\ mpc' = mpc
    /\ UNCHANGED <<saved, runq, mutexVars, schedVars, wcur, clockVars, joinN,
                   fatal>>

AcquireAny(t, m) ==   \* mutant: without looking at m->locked
    /\ locked' = [locked EXCEPT ![m] = 1]
    /\ holds' = [holds EXCEPT ![t] = @ \cup {m}]
    /\ UNCHANGED <<gvars, qvars, waitq, parkedOn, schedVars, wpc, wcur,
                   clockVars, mpc, joinN, fatal>>

(* __nc_mutex_lock on a free mutex, by a green thread or by main.          *)
Acquire(t, m) ==
    /\ locked[m] = 0
    /\ locked' = [locked EXCEPT ![m] = 1]
    /\ holds' = [holds EXCEPT ![t] = @ \cup {m}]
    /\ UNCHANGED <<gvars, qvars, waitq, parkedOn, schedVars, wpc, wcur,
                   clockVars, mpc, joinN, fatal>>

LockFree(w, m) ==
    /\ Alive
    /\ wpc[w] = "run"
    /\ Acquire(wcur[w], m)

LockParkUnchecked(w, m) ==   \* mutant: the lock may have become free
    /\ Alive
    /\ wpc[w] = "run"
    /\ waitq' = [waitq EXCEPT ![m] = Append(@, wcur[w])]
    /\ gstate' = [gstate EXCEPT ![wcur[w]] = "wait_mutex"]
    /\ parkedOn' = [parkedOn EXCEPT ![wcur[w]] = m]
    /\ wpc' = [wpc EXCEPT ![w] = "switch"]
    /\ UNCHANGED <<saved, qvars, locked, holds, schedVars, wcur, clockVars,
                   mpc, joinN, fatal>>

LockParkFront(w, m) ==   \* mutant: last come, first served
    /\ Alive
    /\ wpc[w] = "run"
    /\ locked[m] = 1
    /\ waitq' = [waitq EXCEPT ![m] = <<wcur[w]>> \o @]
    /\ gstate' = [gstate EXCEPT ![wcur[w]] = "wait_mutex"]
    /\ parkedOn' = [parkedOn EXCEPT ![wcur[w]] = m]
    /\ wpc' = [wpc EXCEPT ![w] = "switch"]
    /\ UNCHANGED <<saved, qvars, locked, holds, schedVars, wcur, clockVars,
                   mpc, joinN, fatal>>

(* __nc_mutex_lock on a held one: nc_mutex_park_and_unlock appends g to    *)
(* the wait queue and releases the internal lock before it switches.       *)
LockPark(w, m) ==
    /\ Alive
    /\ wpc[w] = "run"
    /\ locked[m] = 1
    /\ waitq' = [waitq EXCEPT ![m] = Append(@, wcur[w])]
    /\ gstate' = [gstate EXCEPT ![wcur[w]] = "wait_mutex"]
    /\ parkedOn' = [parkedOn EXCEPT ![wcur[w]] = m]
    /\ wpc' = [wpc EXCEPT ![w] = "switch"]
    /\ UNCHANGED <<saved, qvars, locked, holds, schedVars, wcur, clockVars,
                   mpc, joinN, fatal>>

(* __nc_mutex_unlock: hand the mutex to the first waiter, which becomes    *)
(* runnable, or mark it free.  Clients unlock what they hold.              *)
Release(t, m) ==
    /\ m \in holds[t]
    /\ holds' = [holds EXCEPT ![t] = @ \ {m}]
    /\ IF waitq[m] # <<>>
       THEN /\ waitq' = [waitq EXCEPT ![m] = Tail(@)]
            /\ gstate' = [gstate EXCEPT ![Head(waitq[m])] = "runnable"]
            /\ runq' = Append(runq, Head(waitq[m]))
            /\ \E x \in Signalled :
                /\ wpc' = WakeWorker(x)
                /\ mpc' = WakeMain(x)
            /\ UNCHANGED locked
       ELSE /\ locked' = [locked EXCEPT ![m] = 0]
            /\ UNCHANGED <<waitq, gstate, runq, wpc, mpc>>
    /\ UNCHANGED <<saved, timers, parkedOn, schedVars, wcur, clockVars, joinN,
                   fatal>>

Unlock(w, m) ==
    /\ Alive
    /\ wpc[w] = "run"
    /\ Release(wcur[w], m)

(* __nc_spawn, first half: __nc_g_alloc makes g and loads all_g_head into  *)
(* g->all_next.  Until t has stored the new head it calls nothing else.    *)
AllocG(t) ==
    /\ fresh[t] = NoG
    /\ \E g \in GT :
        /\ gstate[g] = "unborn" /\ \A u \in Thread : fresh[u] # g
        /\ fresh' = [fresh EXCEPT ![t] = g]
    /\ BeginEdit
    /\ UNCHANGED <<gvars, qvars, mutexVars, liveCount, accepting, liveWorkers,
                   overtaken, wpc, wcur, clockVars, mpc, joinN, fatal>>

Alloc(w) ==
    /\ Alive
    /\ wpc[w] = "run"
    /\ AllocG(wcur[w])

SpawnGUncounted(t) ==   \* mutant: live_g_count is not raised
    /\ fresh[t] # NoG
    /\ fresh' = [fresh EXCEPT ![t] = NoG]
    /\ EndEdit(allG \cup {fresh[t]})
    /\ gstate' = [gstate EXCEPT ![fresh[t]] = "runnable"]
    /\ saved' = [saved EXCEPT ![fresh[t]] = TRUE]
    /\ runq' = Append(runq, fresh[t])
    /\ \E x \in Signalled :
        /\ wpc' = WakeWorker(x)
        /\ mpc' = WakeMain(x)
    /\ UNCHANGED <<timers, mutexVars, liveCount, accepting, liveWorkers, overtaken,
                   wcur, clockVars, joinN, fatal>>

(* Second half: store the new head, build the first context, submit.       *)
SpawnG(t) ==
    /\ fresh[t] # NoG
    /\ fresh' = [fresh EXCEPT ![t] = NoG]
    /\ EndEdit(allG \cup {fresh[t]})
    /\ gstate' = [gstate EXCEPT ![fresh[t]] = "runnable"]
    /\ saved' = [saved EXCEPT ![fresh[t]] = TRUE]
    /\ runq' = Append(runq, fresh[t])
    /\ liveCount' = liveCount + 1
    /\ \E x \in Signalled :
        /\ wpc' = WakeWorker(x)
        /\ mpc' = WakeMain(x)
    /\ UNCHANGED <<timers, mutexVars, accepting, liveWorkers, overtaken, wcur,
                   clockVars, joinN, fatal>>

Spawn(w) ==
    /\ Alive
    /\ wpc[w] = "run"
    /\ SpawnG(wcur[w])

(* __nc_g_exit: the entry function returned to its trampoline.             *)
Exit(w) ==
    /\ Alive
    /\ wpc[w] = "run"
    /\ gstate' = [gstate EXCEPT ![wcur[w]] = "dead"]
    /\ wpc' = [wpc EXCEPT ![w] = "switch"]
    /\ UNCHANGED <<saved, qvars, mutexVars, schedVars, wcur, clockVars, mpc,
                   joinN, fatal>>

-----------------------------------------------------------------------------
(* The OS main thread: the user's main, then __nc_scheduler_shutdown.      *)

MainAlloc ==
    /\ Alive
    /\ mpc = "user"
    /\ AllocG(Main)

MainSpawn ==
    /\ Alive
    /\ mpc = "user"
    /\ SpawnG(Main)

MainLockFree(m) ==
    /\ Alive
    /\ mpc = "user"
    /\ Acquire(Main, m)

(* main has no worker: nc_mutex_park_and_unlock dereferences a NULL        *)
(* current_worker.                                                         *)
MainLockHeld(m) ==
    /\ Alive
    /\ mpc = "user"
    /\ locked[m] = 1
    /\ fatal' = "null_worker"
    /\ UNCHANGED <<gvars, qvars, mutexVars, schedVars, wpc, wcur, clockVars,
                   mpc, joinN>>

MainUnlock(m) ==
    /\ Alive
    /\ mpc = "user"
    /\ Release(Main, m)

DrainLoopQuiet ==   \* mutant: no broadcast before the join
    IF liveCount > 0
    THEN /\ mpc' = "drainwait"
         /\ mleft' = PollTicks
         /\ wpc' = WakeAllWorkers
         /\ UNCHANGED joinN
    ELSE /\ mpc' = "join"
         /\ joinN' = liveWorkers
         /\ UNCHANGED <<wpc, mleft>>

(* The head of the drain loop and what follows it.  sched.cs is held.      *)
DrainLoop ==
    IF liveCount > 0
    THEN /\ mpc' = "drainwait"
         /\ mleft' = PollTicks
         /\ wpc' = WakeAllWorkers
         /\ UNCHANGED joinN
    ELSE /\ mpc' = "join"
         /\ joinN' = liveWorkers
         /\ wpc' = WakeAllWorkers
         /\ UNCHANGED mleft

BeginShutdown ==
    /\ Alive
    /\ mpc = "user"
    /\ accepting' = FALSE
    /\ drainLeft' = DrainTicks
    /\ DrainLoop
    /\ UNCHANGED <<gvars, qvars, mutexVars, liveCount, liveWorkers, raceVars, wcur,
                   wleft, fatal>>

(* The poll interval of the drain loop is over.                            *)
DrainTimeout ==
    /\ Alive
    /\ mpc = "drainwait"
    /\ mleft = 0
    /\ mpc' = "drain"
    /\ UNCHANGED <<gvars, qvars, mutexVars, schedVars, wpc, wcur, clockVars,
                   joinN, fatal>>

DrainDeadlockOfTwo ==   \* mutant: it takes two to deadlock
    /\ Alive
    /\ mpc = "drain"
    /\ liveCount > 1 /\ drainLeft = 0
    /\ runq = <<>> /\ timers = <<>>
    /\ fatal' = "deadlock"
    /\ UNCHANGED <<gvars, qvars, mutexVars, schedVars, wpc, wcur, clockVars,
                   mpc, joinN>>

(* The wait returned with sched.cs held: after the deadline, an empty run  *)
(* queue and no timer are taken for a deadlock.                            *)
DrainDeadlock ==
    /\ Alive
    /\ mpc = "drain"
    /\ liveCount > 0 /\ drainLeft = 0
    /\ runq = <<>> /\ timers = <<>>
    /\ fatal' = "deadlock"
    /\ UNCHANGED <<gvars, qvars, mutexVars, schedVars, wpc, wcur, clockVars,
                   mpc, joinN>>

DrainAgain ==
    /\ Alive
    /\ mpc = "drain"
    /\ ~(liveCount > 0 /\ drainLeft = 0 /\ runq = <<>> /\ timers = <<>>)
    /\ drainLeft' = IF liveCount > 0 /\ drainLeft = 0 THEN DrainTicks ELSE drainLeft
    /\ DrainLoop
    /\ UNCHANGED <<gvars, qvars, mutexVars, schedVars, wcur, wleft, fatal>>

(* Join handles 0..joinN-1; then the process returns from main.            *)
Join ==
    /\ Alive
    /\ mpc = "join"
    /\ \A w \in Workers : w < joinN => wpc[w] = "exited"
    /\ mpc' = "done"
    /\ UNCHANGED <<gvars, qvars, mutexVars, schedVars, wpc, wcur, clockVars,
                   joinN, fatal>>

-----------------------------------------------------------------------------
(* One unit of nc_tick_ms passes; nothing to count is no step.             *)
Tick ==
    /\ Alive
    /\ timers' = Elapse(timers, 1)
    /\ wleft' = [w \in Workers |-> Countdown(wleft[w])]
    /\ mleft' = Countdown(mleft)
    /\ drainLeft' = Countdown(drainLeft)
    /\ <<timers, wleft, mleft, drainLeft>>' # <<timers, wleft, mleft, drainLeft>>
    /\ UNCHANGED <<gvars, runq, mutexVars, schedVars, wpc, wcur, mpc, joinN,
                   fatal>>

(* The process is gone.                                                    *)
Terminated == ~Alive /\ UNCHANGED vars

WorkerStep(w) ==
    \/ Dispatch(w) \/ Wait(w) \/ WaitTimeout(w) \/ Retire(w)
    \/ SwitchOut(w) \/ AfterSwitch(w) \/ FinishDead(w) \/ FreeG(w)

(* The user's code in a green thread: any sequence of runtime calls, one   *)
(* after the other.                                                        *)
InCode(w) == wpc[w] = "run" /\ fresh[wcur[w]] = NoG

GreenStep(w) ==
    /\ InCode(w)
    /\ \/ Yield(w) \/ Sleep(w) \/ Alloc(w) \/ Exit(w)
       \/ \E m \in Mutex : LockFree(w, m) \/ LockPark(w, m) \/ Unlock(w, m)

UserMainStep ==
    /\ fresh[Main] = NoG
    /\ \/ MainAlloc \/ BeginShutdown
       \/ \E m \in Mutex : MainLockFree(m) \/ MainLockHeld(m) \/ MainUnlock(m)

ShutdownStep == DrainTimeout \/ DrainDeadlock \/ DrainAgain \/ Join

Next ==
    \/ \E w \in Workers :
        WorkerStep(w) \/ SpuriousWake(w) \/ GreenStep(w) \/ Spawn(w)
    \/ UserMainStep \/ MainSpawn \/ ShutdownStep
    \/ Tick \/ Terminated

Spec == Init /\ [][Next]_vars

-----------------------------------------------------------------------------
(* Properties.                                                             *)

(* Every variable ranges over what its C type and the code's assignments   *)
(* allow; live_g_count never goes below 0.                                 *)
TypeOK ==
    /\ gstate \in [GT -> GState]
    /\ saved \in [GT -> BOOLEAN]
    /\ runq \in Seq(GT)
    /\ timers \in Seq([g : GT, left : Nat])
    /\ locked \in [Mutex -> {0, 1}]
    /\ waitq \in [Mutex -> Seq(GT)]
    /\ holds \in [Thread -> SUBSET Mutex]
    /\ parkedOn \in [Thread -> Mutex \cup {NoG}]
    /\ liveCount \in Nat
    /\ accepting \in BOOLEAN
    /\ liveWorkers \in Int
    /\ allG \subseteq GT
    /\ fresh \in [Thread -> GT \cup {NoG}]
    /\ overlapped \in BOOLEAN /\ overtaken \in BOOLEAN
    /\ wpc \in [Workers -> WorkerPC]
    /\ wcur \in [Workers -> GT \cup {NoG}]
    /\ wleft \in [Workers -> Nat]
    /\ mpc \in MainPC
    /\ mleft \in Nat /\ drainLeft \in Nat
    /\ joinN \in Int
    /\ fatal \in Fatal

(* Two threads are never both inside __nc_mutex_lock .. __nc_mutex_unlock  *)
(* of one mutex, whichever of the fast path and the handoff let them in.   *)
MutualExclusion ==
    \A m \in Mutex : \A t, u \in Thread :
        m \in holds[t] /\ m \in holds[u] => t = u

(* t owns m: its lock returned, or the handoff of __nc_mutex_unlock chose  *)
(* it and it has not been dispatched yet.                                  *)
Owns(t, m) ==
    \/ m \in holds[t]
    \/ parkedOn[t] = m /\ t \notin Elements(waitq[m])

(* m->locked is 1 exactly while one thread owns m, and nobody waits for a  *)
(* free mutex: no handoff is lost between unlock and the waiter's resume.  *)
HandoffExact ==
    \A m \in Mutex :
        IF locked[m] = 0
        THEN waitq[m] = <<>> /\ \A t \in Thread : ~Owns(t, m)
        ELSE \E t \in Thread : Owns(t, m) /\ \A u \in Thread : Owns(u, m) => u = t

(* The places a green thread can be found in, counted with multiplicity.   *)
InSeq(g, s) == {i \in DOMAIN s : s[i] = g}
Places(g) ==
    (({"runq"} \X InSeq(g, runq))
        \cup {<<"timer", i>> : i \in {j \in DOMAIN timers : timers[j].g = g}}
        \cup {<<"worker", w>> : w \in {v \in Workers : wpc[v] = "run" /\ wcur[v] = g}})
    \cup UNION {{<<m, i>> : i \in InSeq(g, waitq[m])} : m \in Mutex}

(* A live green thread is in exactly one place: the run queue, one wait    *)
(* queue, the timer list or a worker; its intrusive links run_next and     *)
(* wait_next never tie two lists together, and it is never forgotten.      *)
OnePlace ==
    \A g \in GT :
        Cardinality(Places(g)) =
            IF gstate[g] \in {"unborn", "dead", "freed"} THEN 0 ELSE 1

(* While something is runnable, somebody is awake who will look at the run *)
(* queue again: a wakeup may go to the draining main instead of a worker,  *)
(* but is never lost.                                                      *)
NoLostWakeup ==
    Alive /\ runq # <<>> =>
        \/ \E w \in Workers : wpc[w] \notin {"wait", "timedwait", "exited"}
        \/ mpc = "drain"

(* The workers never all return while there is something left to run or    *)
(* to wake.                                                                *)
NoStrandedWork ==
    (\A w \in Workers : wpc[w] = "exited") => runq = <<>> /\ timers = <<>>

(* Until a green thread is dispatched that its last worker has not left    *)
(* yet, sched.live_g_count may lag behind a death but never runs ahead of  *)
(* one, on however many workers, so shutdown does not join while a green   *)
(* thread lives.                                                           *)
Live == {g \in GT : gstate[g] \notin {"unborn", "dead", "freed"}}

LiveCountCovers ==
    ~overtaken =>
        /\ Cardinality(Live) <= liveCount
        /\ mpc \in {"join", "done"} => Live = {}

(* The scheduler's undefined outcomes (a context resumed before it is      *)
(* saved, a green thread finished twice, read after it was freed or freed  *)
(* twice, an abort for a count that is 0) have two causes: that one, which *)
(* takes two workers, and two edits of all_g_head that overlapped, which   *)
(* happens with one worker too, when main spawns while it frees.           *)
Undefined == fatal \notin {"none", "deadlock", "null_worker"}
RacesExplained == Undefined => overtaken \/ overlapped

-----------------------------------------------------------------------------
(* What the repository's documents say of the scheduler and the code does  *)
(* not do; a run refutes it.                                               *)

(* docs/concurrency.md: parking and releasing the lock are one indivisible *)
(* primitive, so no worker can resume a context that is not saved yet.     *)
ResumesSavedContext == fatal # "resume_unsaved"

-----------------------------------------------------------------------------
(* Fairness.  Workers and main are OS threads, the clock advances.  The    *)
(* code of a green thread enters functions, and so reaches                 *)
(* __nc_g_check_yield, or blocks, or ends: it gives its worker up.         *)
GiveUp(w) ==
    /\ InCode(w)
    /\ Yield(w) \/ Sleep(w) \/ Exit(w) \/ \E m \in Mutex : LockPark(w, m)

Fairness ==
    /\ \A w \in Workers : WF_vars(WorkerStep(w) \/ Spawn(w)) /\ WF_vars(GiveUp(w))
    /\ WF_vars(ShutdownStep)
    /\ WF_vars(Tick)

FairSpec == Spec /\ Fairness

(* No green thread starves: one on the run queue is dispatched, however    *)
(* often the others yield, and whoever the signals wake.                   *)
RunnableRuns ==
    \A g \in GT : (gstate[g] = "runnable") ~> (gstate[g] = "running" \/ ~Alive)

(* Once main drains, a sleeping green thread is woken by its timer.  Before*)
(* that an idle worker may have missed the deadline: see Wait.             *)
SleeperWakes ==
    \A g \in GT : (gstate[g] = "wait_timer" /\ ~accepting)
                    ~> (gstate[g] # "wait_timer" \/ ~Alive)

(* When the last green thread has ended during shutdown, the broadcasts    *)
(* bring every worker it joins to return, and main returns.                *)
ShutdownReturns == (~accepting /\ Live = {} /\ mpc # "user") ~> ~Alive

(* Green threads that wait for each other and nobody else are reported     *)
(* once main drains: nothing hangs silently.                               *)
StuckOnMutex == ~accepting /\ Live # {} /\ \A g \in Live : gstate[g] = "wait_mutex"
DeadlockReported == StuckOnMutex ~> ~Alive

-----------------------------------------------------------------------------
(* Refinement: the owner, then the waiters.                                *)
Owner(m) == CHOOSE t \in Thread : Owns(t, m)

LockQueue ==
    [m \in Mutex |-> IF locked[m] = 0 THEN <<>> ELSE <<Owner(m)>> \o waitq[m]]

FifoMutex == INSTANCE FifoLock WITH queue <- LockQueue

(* Parking, handing off, dispatching and resuming on any worker together   *)
(* implement the first-come-first-served lock.                             *)
ImplementsFifoLock == FifoMutex!Spec

-----------------------------------------------------------------------------
(* The inductive invariant.  LockInv stands on its own and gives           *)
(* MutualExclusion, HandoffExact and ImplementsFifoLock; PlacesInv,        *)
(* AwakeInv and RaceInv are each inductive beside it.                      *)

(* A worker past its dispatch has a green thread; one that runs user code  *)
(* runs it alone; only dead ones are finished and freed.                   *)
RunnersInv ==
    /\ \A w \in Workers :
        /\ wpc[w] \in {"run", "switch", "after", "finish", "free"} => wcur[w] \in GT
        /\ wpc[w] = "run" => gstate[wcur[w]] = "running"
        /\ wpc[w] \in {"finish", "free"} => gstate[wcur[w]] \in {"dead", "freed"}
    /\ \A v, w \in Workers :
        wpc[v] = "run" /\ wpc[w] = "run" /\ wcur[v] = wcur[w] => v = w

(* Each list holds green threads in the state that belongs to it, none of  *)
(* them twice.                                                             *)
ListsInv ==
    /\ \A i \in DOMAIN runq : gstate[runq[i]] = "runnable"
    /\ Injective(runq)
    /\ \A i \in DOMAIN timers : gstate[timers[i].g] = "wait_timer"
    /\ \A i, j \in DOMAIN timers : timers[i].g = timers[j].g => i = j
    /\ \A m \in Mutex :
        /\ \A i \in DOMAIN waitq[m] :
            gstate[waitq[m][i]] = "wait_mutex" /\ parkedOn[waitq[m][i]] = m
        /\ Injective(waitq[m])

(* A thread inside __nc_mutex_lock waits or has been handed the mutex; it  *)
(* does not run, and main never gets there.                                *)
ParkedInv ==
    /\ parkedOn[Main] = NoG
    /\ \A g \in GT : parkedOn[g] # NoG => gstate[g] \in {"wait_mutex", "runnable"}

(* A green thread that is being inserted in all_g_head is nowhere else     *)
(* yet, and one thread inserts it.                                         *)
FreshInv ==
    /\ \A t \in Thread : fresh[t] # NoG => gstate[fresh[t]] = "unborn"
    /\ \A t, u \in Thread : fresh[t] # NoG /\ fresh[t] = fresh[u] => t = u

LockInv == TypeOK /\ RunnersInv /\ ListsInv /\ ParkedInv /\ FreshInv /\ HandoffExact

(* What OnePlace needs besides: nobody is forgotten.  Whoever is runnable, *)
(* sleeps, waits or runs is also found where that state says.              *)
PlacesInv ==
    \A g \in GT :
        /\ gstate[g] = "runnable" => g \in Elements(runq)
        /\ gstate[g] = "wait_timer" => \E i \in DOMAIN timers : timers[i].g = g
        /\ gstate[g] = "wait_mutex" =>
                parkedOn[g] # NoG /\ g \in Elements(waitq[parkedOn[g]])
        /\ gstate[g] = "running" =>
                \E w \in Workers : wpc[w] = "run" /\ wcur[w] = g

(* What NoLostWakeup and NoStrandedWork need: no worker returns before     *)
(* main has cleared sched.accepting, and main spawns and unlocks before    *)
(* that only, so there is a worker for what main makes runnable.           *)
AwakeInv ==
    /\ mpc = "user" => accepting
    /\ accepting => \A w \in Workers : wpc[w] # "exited"
    /\ NoLostWakeup
    /\ NoStrandedWork

(* What LiveCountCovers and RacesExplained need: a green thread that has   *)
(* not been overtaken is in the hands of one worker from its dispatch to   *)
(* its end there, and live_g_count counts those that live or have ended    *)
(* under a worker that has not called g_finish_dead for them yet.          *)
Holding == {w \in Workers : wpc[w] \in {"run", "switch", "after", "finish", "free"}}
Counted ==
    Live \cup {g \in GT :
        /\ gstate[g] = "dead"
        /\ \E w \in Workers : wcur[w] = g /\ wpc[w] \in {"switch", "after", "finish"}}

Held ==
    /\ \A v, w \in Holding : wcur[v] = wcur[w] => v = w
    /\ \A w \in Holding : gstate[wcur[w]] # "freed"
    /\ IsFiniteSet(Counted) /\ liveCount = Cardinality(Counted)
    /\ mpc \in {"join", "done"} => Live = {}
    /\ \A g \in GT : gstate[g] \in {"runnable", "wait_timer", "wait_mutex"} =>
            saved[g] \/ \E w \in Workers : wpc[w] = "switch" /\ wcur[w] = g

HeldInv ==
    /\ NumWorkers = 1 => ~overtaken
    /\ ~overtaken => Held

(* And besides: as long as no two edits have overlapped, one is under way  *)
(* at most, and the list holds the green threads submitted and not freed.  *)
Listed == {g \in GT : gstate[g] \notin {"unborn", "freed"}}
EditsInv ==
    ~overlapped =>
        /\ allG = Listed
        /\ Inserting = {} \/ Removing = {}
        /\ \A t, u \in Inserting : t = u
        /\ \A v, w \in Removing : v = w

RaceInv == EditsInv /\ HeldInv /\ RacesExplained

IInv == LockInv /\ PlacesInv /\ AwakeInv /\ RaceInv

=============================================================================
