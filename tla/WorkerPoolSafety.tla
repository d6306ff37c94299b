-------------------------- MODULE WorkerPoolSafety --------------------------
(***************************************************************************)
(* The rest of the inductive invariant of the worker pool: no green thread *)
(* is forgotten or found twice, no wakeup is lost, no work is left behind  *)
(* when the workers return, live_g_count is exact until a green thread is  *)
(* dispatched too early, and every undefined outcome has its cause there   *)
(* or in two edits of all_g_head that overlap.                             *)
(***************************************************************************)
EXTENDS WorkerPoolProofs, FiniteSetTheorems

(* A signal wakes a worker that sleeps or main; nobody who returned.       *)
LEMMA SignalFacts ==
    ASSUME TypeOK, NEW x \in Signalled
    PROVE  /\ \A v \in Workers :
                \/ WakeWorker(x)[v] = wpc[v]
                \/ wpc[v] \in {"wait", "timedwait"} /\ WakeWorker(x)[v] = "loop"
           /\ WakeMain(x) = mpc \/ (mpc = "drainwait" /\ WakeMain(x) = "drain")
           /\ mpc = "user" /\ (\A v \in Workers : wpc[v] # "exited") =>
                \E v \in Workers : WakeWorker(x)[v] \notin {"wait", "timedwait", "exited"}
<1>1. wpc \in [Workers -> WorkerPC] /\ mpc \in MainPC
    BY DEF TypeOK
<1>2. /\ x \in Asleep \/ x = Main \/ x = NoG
      /\ x = Main => mpc = "drainwait"
      /\ Main \notin Workers /\ NoG \notin Workers /\ NoG # Main
      /\ x = NoG => Asleep = {}
    BY PoolAssumption DEF Signalled, Waiters, Asleep, Workers
<1>3. \A v \in Workers :
        \/ WakeWorker(x)[v] = wpc[v]
        \/ wpc[v] \in {"wait", "timedwait"} /\ WakeWorker(x)[v] = "loop"
    BY <1>2 DEF WakeWorker, Asleep
<1>4. WakeMain(x) = mpc \/ (mpc = "drainwait" /\ WakeMain(x) = "drain")
    BY <1>2 DEF WakeMain
<1>5. ASSUME mpc = "user", \A v \in Workers : wpc[v] # "exited"
      PROVE  \E v \in Workers : WakeWorker(x)[v] \notin {"wait", "timedwait", "exited"}
    <2>1. CASE x \in Asleep
        <3>1. x \in Workers /\ WakeWorker(x)[x] = "loop"
            BY <2>1 DEF WakeWorker, Asleep
        <3> QED BY <3>1
    <2>2. CASE x = NoG
        <3>1. 0 \in Workers
            BY PoolAssumption DEF Workers
        <3>2. WakeWorker(x)[0] = wpc[0] /\ wpc[0] \notin {"wait", "timedwait", "exited"}
            BY <1>2, <1>5, <2>2, <3>1 DEF WakeWorker, Asleep
        <3> QED BY <3>1, <3>2
    <2> QED BY <1>2, <1>5, <2>1, <2>2
<1> QED BY <1>3, <1>4, <1>5

(* A broadcast wakes who sleeps and moves nobody else.                     *)
LEMMA BroadcastFacts ==
    /\ \A v \in Workers :
        \/ WakeAllWorkers[v] = wpc[v] /\ wpc[v] \notin {"wait", "timedwait"}
        \/ wpc[v] \in {"wait", "timedwait"} /\ WakeAllWorkers[v] = "loop"
    /\ WakeAllMain = mpc \/ (mpc = "drainwait" /\ WakeAllMain = "drain")
<1>1. \A v \in Workers :
        \/ WakeAllWorkers[v] = wpc[v] /\ wpc[v] \notin {"wait", "timedwait"}
        \/ wpc[v] \in {"wait", "timedwait"} /\ WakeAllWorkers[v] = "loop"
    BY DEF WakeAllWorkers, Asleep
<1>2. WakeAllMain = mpc \/ (mpc = "drainwait" /\ WakeAllMain = "drain")
    BY DEF WakeAllMain
<1> QED BY <1>1, <1>2

-----------------------------------------------------------------------------
(* Nobody is forgotten.                                                    *)

(* At first no green thread exists.                                        *)
LEMMA PlacesInit == Init => PlacesInv
BY DEF Init, PlacesInv

(* A step that moves no green thread.                                      *)
LEMMA PlacesQuiet ==
    ASSUME LockInv, PlacesInv, UNCHANGED <<gstate, runq, waitq, parkedOn>>,
           timers' = timers \/ \E d \in Nat : timers' = Elapse(timers, d),
           \A v \in Workers :
                wpc[v] = "run" => wpc'[v] = "run" /\ wcur'[v] = wcur[v]
    PROVE  PlacesInv'
<1>1. timers \in TimerList(GT)
    BY DEF LockInv, TypeOK, TimerList
<1>2. /\ DOMAIN timers' = DOMAIN timers
      /\ \A i \in DOMAIN timers : timers'[i].g = timers[i].g
    <2>1. ASSUME NEW d \in Nat, timers' = Elapse(timers, d)
          PROVE  /\ DOMAIN timers' = DOMAIN timers
                 /\ \A i \in DOMAIN timers : timers'[i].g = timers[i].g
        <3>1. timers' \in TimerList(GT) /\ Len(timers') = Len(timers)
              /\ \A i \in 1..Len(timers) : timers'[i].g = timers[i].g
            BY <1>1, <2>1, ElapseFacts
        <3>2. DOMAIN timers = 1..Len(timers) /\ DOMAIN timers' = 1..Len(timers')
            BY <1>1, <3>1, TimerListFacts
        <3> QED BY <3>1, <3>2
    <2> QED BY <2>1
<1> QED BY <1>2 DEF PlacesInv

(* g leaves the worker that runs it; it is now in state s, found where s   *)
(* says.  Nobody else moves.                                               *)
LEMMA PlacesLeave ==
    ASSUME LockInv, PlacesInv, NEW w \in Workers, wpc[w] = "run", NEW s,
           gstate' = [gstate EXCEPT ![wcur[w]] = s],
           s # "running",
           \A v \in Workers \ {w} : wpc[v] = "run" => wpc'[v] = "run",
           UNCHANGED wcur,
           \A x \in Elements(runq) : x \in Elements(runq'),
           \A i \in DOMAIN timers : \E j \in DOMAIN timers' : timers'[j].g = timers[i].g,
           \A x \in GT \ {wcur[w]} : parkedOn'[x] = parkedOn[x],
           \A m \in Mutex : \A x \in Elements(waitq[m]) : x \in Elements(waitq'[m]),
           s = "runnable" => wcur[w] \in Elements(runq'),
           s = "wait_timer" => \E i \in DOMAIN timers' : timers'[i].g = wcur[w],
           s = "wait_mutex" => /\ parkedOn'[wcur[w]] # NoG
                               /\ wcur[w] \in Elements(waitq'[parkedOn'[wcur[w]]])
    PROVE  PlacesInv'
<1> DEFINE g == wcur[w]
<1>1. /\ gstate \in [GT -> GState] /\ g \in GT
      /\ parkedOn \in [Thread -> Mutex \cup {NoG}]
    BY DEF LockInv, TypeOK, RunnersInv
<1>2. gstate'[g] = s /\ \A x \in GT \ {g} : gstate'[x] = gstate[x]
    BY <1>1
<1> SUFFICES ASSUME NEW x \in GT
             PROVE  /\ gstate'[x] = "runnable" => x \in Elements(runq')
                    /\ gstate'[x] = "wait_timer" => \E i \in DOMAIN timers' : timers'[i].g = x
                    /\ gstate'[x] = "wait_mutex" =>
                            parkedOn'[x] # NoG /\ x \in Elements(waitq'[parkedOn'[x]])
                    /\ gstate'[x] = "running" =>
                            \E v \in Workers : wpc'[v] = "run" /\ wcur'[v] = x
    BY DEF PlacesInv, Elements
<1>3. CASE x = g
    BY <1>2, <1>3
<1>4. CASE x # g
    <2>1. gstate'[x] = gstate[x]
        BY <1>2, <1>4
    <2>2. gstate[x] = "runnable" => x \in Elements(runq')
        BY DEF PlacesInv
    <2>3. gstate[x] = "wait_timer" => \E i \in DOMAIN timers' : timers'[i].g = x
        BY DEF PlacesInv
    <2>4. gstate[x] = "wait_mutex" =>
            parkedOn'[x] # NoG /\ x \in Elements(waitq'[parkedOn'[x]])
        <3>1. parkedOn'[x] = parkedOn[x] /\ parkedOn[x] \in Mutex \cup {NoG}
            BY <1>1, <1>4 DEF Thread
        <3> QED BY <3>1 DEF PlacesInv
    <2>5. gstate[x] = "running" => \E v \in Workers : wpc'[v] = "run" /\ wcur'[v] = x
        <3> SUFFICES ASSUME gstate[x] = "running"
                     PROVE  \E v \in Workers : wpc'[v] = "run" /\ wcur'[v] = x
            OBVIOUS
        <3>1. PICK v \in Workers : wpc[v] = "run" /\ wcur[v] = x
            BY DEF PlacesInv
        <3>2. v # w
            BY <1>4, <3>1
        <3> QED BY <3>1, <3>2
    <2> QED BY <2>1, <2>2, <2>3, <2>4, <2>5
<1> QED BY <1>3, <1>4

(* __nc_g_yield, __nc_sleep, __nc_g_exit and the slow path of              *)
(* __nc_mutex_lock each put the running green thread where it belongs.     *)
LEMMA PlacesGiveUp ==
    ASSUME LockInv, PlacesInv, NEW w \in Workers,
           Yield(w) \/ Sleep(w) \/ Exit(w) \/ \E m \in Mutex : LockPark(w, m)
    PROVE  PlacesInv'
<1> DEFINE g == wcur[w]
<1>1. wpc[w] = "run"
    BY DEF Yield, Sleep, Exit, LockPark
<1>2. /\ g \in GT /\ TypeOK
      /\ runq \in Seq(GT) /\ timers \in TimerList(GT)
      /\ waitq \in [Mutex -> Seq(GT)] /\ wpc \in [Workers -> WorkerPC]
      /\ parkedOn \in [Thread -> Mutex \cup {NoG}]
    BY <1>1 DEF LockInv, TypeOK, RunnersInv, TimerList
<1>3. CASE Yield(w)
    <2>1. PICK x \in Signalled : wpc' = [WakeWorker(x) EXCEPT ![w] = "switch"]
        BY <1>3 DEF Yield
    <2>2. \A v \in Workers \ {w} : wpc[v] = "run" => wpc'[v] = "run"
        BY <1>2, <2>1, SignalFacts, WakeFacts
    <2>3. \A y \in Elements(runq) \cup {g} : y \in Elements(runq')
        BY <1>2, <1>3, AppendFacts DEF Yield
    <2> QED BY <1>1, <1>3, <2>2, <2>3, PlacesLeave DEF Yield, mutexVars
<1>4. CASE Sleep(w)
    <2>1. PICK ms \in 0..MaxSleep :
            /\ timers' = InsertTimer(timers, g, ms)
            /\ \/ \E x \in Signalled : wpc' = [WakeWorker(x) EXCEPT ![w] = "switch"]
               \/ wpc' = [wpc EXCEPT ![w] = "switch"]
        BY <1>4 DEF Sleep
    <2>2. \A v \in Workers \ {w} : wpc[v] = "run" => wpc'[v] = "run"
        BY <1>2, <2>1, SignalFacts, WakeFacts
    <2>3. /\ \E j \in DOMAIN timers' : timers'[j].g = g
          /\ \A i \in DOMAIN timers : \E j \in DOMAIN timers' : timers'[j].g = timers[i].g
        <3>1. ms \in Nat
            BY <2>1, PoolAssumption
        <3>2. g \in GT /\ timers \in TimerList(GT)
              /\ timers' = InsertTimer(timers, g, ms)
            BY <1>2, <2>1
        <3> HIDE DEF g
        <3>3. \E j \in DOMAIN timers' : timers'[j].g = g
            BY <3>1, <3>2, InsertTimerKeeps
        <3>4. \A i \in DOMAIN timers : \E j \in DOMAIN timers' : timers'[j] = timers[i]
            BY <3>1, <3>2, InsertTimerKeeps
        <3> QED BY <3>3, <3>4
    <2> QED BY <1>1, <1>4, <2>2, <2>3, PlacesLeave DEF Sleep, mutexVars
<1>5. CASE Exit(w)
    <2>1. \A v \in Workers \ {w} : wpc[v] = "run" => wpc'[v] = "run"
        BY <1>2, <1>5 DEF Exit
    <2> QED BY <1>1, <1>5, <2>1, PlacesLeave DEF Exit, qvars, mutexVars
<1>6. CASE \E m \in Mutex : LockPark(w, m)
    <2>1. PICK m \in Mutex : LockPark(w, m)
        BY <1>6
    <2>2. /\ \A v \in Workers \ {w} : wpc[v] = "run" => wpc'[v] = "run"
          /\ parkedOn' = [parkedOn EXCEPT ![g] = m]
          /\ UNCHANGED <<runq, timers, wcur>>
          /\ gstate' = [gstate EXCEPT ![g] = "wait_mutex"]
        BY <1>2, <2>1 DEF LockPark, qvars
    <2>3. /\ Elements(waitq'[m]) = Elements(waitq[m]) \cup {g}
          /\ \A k \in Mutex \ {m} : waitq'[k] = waitq[k]
        <3>1. waitq'[m] = Append(waitq[m], g) /\ \A k \in Mutex \ {m} : waitq'[k] = waitq[k]
            BY <1>2, <2>1 DEF LockPark
        <3> QED BY <1>2, <3>1, AppendFacts
    <2>4. parkedOn'[g] = m /\ \A x \in GT \ {g} : parkedOn'[x] = parkedOn[x]
        BY <1>2, <2>2 DEF Thread
    <2>5. /\ \A k \in Mutex : \A x \in Elements(waitq[k]) : x \in Elements(waitq'[k])
          /\ parkedOn'[g] # NoG /\ g \in Elements(waitq'[parkedOn'[g]])
        BY <2>3, <2>4, PoolAssumption
    <2> HIDE DEF g
    <2> QED BY <1>1, <2>2, <2>4, <2>5, PlacesLeave DEF g
<1> QED BY <1>3, <1>4, <1>5, <1>6

(* __nc_spawn puts the new green thread on the run queue.                  *)
LEMMA PlacesSpawn ==
    ASSUME LockInv, PlacesInv, NEW t \in Thread, SpawnG(t)
    PROVE  PlacesInv'
<1> DEFINE g == fresh[t]
<1>1. /\ gstate' = [gstate EXCEPT ![g] = "runnable"]
      /\ runq' = Append(runq, g)
      /\ \E x \in Signalled : wpc' = WakeWorker(x)
      /\ UNCHANGED <<timers, waitq, parkedOn, wcur>>
    BY DEF SpawnG, mutexVars
<1>2. /\ TypeOK /\ runq \in Seq(GT) /\ gstate \in [GT -> GState]
      /\ g \in GT
    BY DEF LockInv, TypeOK, SpawnG
<1> HIDE DEF g
<1>3. Elements(runq') = Elements(runq) \cup {g}
    BY <1>1, <1>2, AppendFacts
<1>4. \A v \in Workers : wpc[v] = "run" => wpc'[v] = "run"
    BY <1>1, <1>2, SignalFacts
<1> QED BY <1>1, <1>2, <1>3, <1>4 DEF PlacesInv

(* __nc_g_free is called for a green thread that is found nowhere.         *)
LEMMA PlacesFreeG ==
    ASSUME LockInv, PlacesInv, NEW w \in Workers, FreeG(w)
    PROVE  PlacesInv'
<1>1. /\ gstate' = [gstate EXCEPT ![wcur[w]] = "freed"]
      /\ wpc' = [wpc EXCEPT ![w] = "loop"] /\ wpc[w] = "free"
      /\ wcur' = [wcur EXCEPT ![w] = NoG]
      /\ UNCHANGED <<runq, timers, waitq, parkedOn>>
      /\ gstate \in [GT -> GState] /\ wpc \in [Workers -> WorkerPC]
      /\ wcur \in [Workers -> GT \cup {NoG}]
    BY DEF FreeG, qvars, mutexVars, LockInv, TypeOK
<1> QED BY <1>1 DEF PlacesInv

(* __nc_mutex_unlock moves the first waiter from its wait queue to the run *)
(* queue.                                                                  *)
LEMMA PlacesRelease ==
    ASSUME LockInv, PlacesInv, NEW t \in Thread, NEW m \in Mutex, Release(t, m)
    PROVE  PlacesInv'
<1>1. /\ gstate \in [GT -> GState] /\ waitq \in [Mutex -> Seq(GT)]
      /\ runq \in Seq(GT) /\ TypeOK
      /\ parkedOn \in [Thread -> Mutex \cup {NoG}]
    BY DEF LockInv, TypeOK
<1>2. UNCHANGED <<timers, parkedOn, wcur>>
    BY DEF Release
<1>3. CASE waitq[m] = <<>>
    <2>1. UNCHANGED <<waitq, gstate, runq, wpc>>
        BY <1>3 DEF Release
    <2> QED BY <1>2, <2>1 DEF PlacesInv
<1>4. CASE waitq[m] # <<>>
    <2> DEFINE h == Head(waitq[m])
    <2>1. /\ waitq'[m] = Tail(waitq[m]) /\ \A k \in Mutex \ {m} : waitq'[k] = waitq[k]
          /\ gstate' = [gstate EXCEPT ![h] = "runnable"]
          /\ runq' = Append(runq, h)
          /\ \E x \in Signalled : wpc' = WakeWorker(x)
        BY <1>1, <1>4 DEF Release
    <2>2. /\ h \in GT /\ h \in Elements(waitq[m])
          /\ Elements(waitq[m]) = Elements(waitq'[m]) \cup {h}
        BY <1>1, <1>4, <2>1, TailFacts
    <2>3. gstate[h] = "wait_mutex"
        BY <2>2 DEF LockInv, ListsInv, Elements
    <2> HIDE DEF h
    <2>4. Elements(runq') = Elements(runq) \cup {h}
        BY <1>1, <2>1, <2>2, AppendFacts
    <2>5. \A v \in Workers : wpc[v] = "run" => wpc'[v] = "run"
        BY <1>1, <2>1, SignalFacts
    <2>6. gstate'[h] = "runnable" /\ \A x \in GT \ {h} : gstate'[x] = gstate[x]
        BY <1>1, <2>1, <2>2
    <2>7. \A x \in GT \ {h} : gstate[x] = "wait_mutex" =>
                parkedOn[x] # NoG /\ x \in Elements(waitq'[parkedOn[x]])
        <3> SUFFICES ASSUME NEW x \in GT \ {h}, gstate[x] = "wait_mutex"
                     PROVE  parkedOn[x] # NoG /\ x \in Elements(waitq'[parkedOn[x]])
            OBVIOUS
        <3>1. parkedOn[x] \in Mutex /\ x \in Elements(waitq[parkedOn[x]])
            BY <1>1 DEF PlacesInv, Thread
        <3> QED BY <2>1, <2>2, <3>1, PoolAssumption
    <2> QED BY <1>2, <2>4, <2>5, <2>6, <2>7 DEF PlacesInv, Elements
<1> QED BY <1>3, <1>4

(* The head of worker_loop: an expired timer's owner is on the run queue   *)
(* now, unless it runs.                                                    *)
LEMMA PlacesDispatch ==
    ASSUME LockInv, PlacesInv, NEW w \in Workers, Dispatch(w)
    PROVE  PlacesInv'
<1> DEFINE g == Head(Ready)
           E == Expired(timers)
<1>1. /\ timers \in TimerList(GT) /\ gstate \in [GT -> GState]
      /\ wpc \in [Workers -> WorkerPC] /\ wcur \in [Workers -> GT \cup {NoG}]
      /\ parkedOn \in [Thread -> Mutex \cup {NoG}]
    BY DEF LockInv, TypeOK, TimerList
<1>2. /\ g \in GT /\ g \in Elements(Ready)
      /\ gstate[g] \in {"runnable", "wait_timer"}
      /\ Elements(Ready) = Elements(Tail(Ready)) \cup {g}
      /\ Elements(Ready) = Elements(runq) \cup Elements(E)
      /\ \A x \in Elements(E) : gstate[x] = "wait_timer"
    BY ReadyFacts DEF Dispatch
<1>3. /\ wpc[w] = "loop"
      /\ runq' = Tail(Ready)
      /\ timers' = Unexpired(timers)
      /\ gstate' = [x \in GT |-> IF x = g THEN "running"
                                 ELSE IF x \in Elements(E) THEN "runnable"
                                 ELSE gstate[x]]
      /\ wcur' = [wcur EXCEPT ![w] = g]
      /\ wpc' = [wpc EXCEPT ![w] = "run"]
      /\ parkedOn' = [parkedOn EXCEPT ![g] = NoG]
      /\ UNCHANGED waitq
    BY DEF Dispatch
<1>4. \A i \in DOMAIN timers :
        timers[i].g \in Elements(E) \/ \E j \in DOMAIN timers' : timers'[j] = timers[i]
    BY <1>1, <1>3, ExpiredOrKept
<1> HIDE DEF g, E
<1> SUFFICES ASSUME NEW x \in GT
             PROVE  /\ gstate'[x] = "runnable" => x \in Elements(runq')
                    /\ gstate'[x] = "wait_timer" => \E i \in DOMAIN timers' : timers'[i].g = x
                    /\ gstate'[x] = "wait_mutex" =>
                            parkedOn'[x] # NoG /\ x \in Elements(waitq'[parkedOn'[x]])
                    /\ gstate'[x] = "running" =>
                            \E v \in Workers : wpc'[v] = "run" /\ wcur'[v] = x
    BY DEF PlacesInv, Elements
<1>5. CASE x = g
    BY <1>1, <1>2, <1>3, <1>5
<1>6. CASE x # g /\ x \in Elements(E)
    BY <1>1, <1>2, <1>3, <1>6
<1>7. CASE x # g /\ x \notin Elements(E)
    <2>1. gstate'[x] = gstate[x] /\ parkedOn'[x] = parkedOn[x]
        BY <1>1, <1>2, <1>3, <1>7 DEF Thread
    <2>2. gstate[x] = "runnable" => x \in Elements(runq')
        BY <1>2, <1>3, <1>7 DEF PlacesInv
    <2>3. gstate[x] = "wait_timer" => \E i \in DOMAIN timers' : timers'[i].g = x
        BY <1>4, <1>7 DEF PlacesInv
    <2>4. gstate[x] = "wait_mutex" =>
            parkedOn'[x] # NoG /\ x \in Elements(waitq'[parkedOn'[x]])
        BY <1>3, <2>1 DEF PlacesInv
    <2>5. gstate[x] = "running" => \E v \in Workers : wpc'[v] = "run" /\ wcur'[v] = x
        BY <1>1, <1>3 DEF PlacesInv
    <2> QED BY <2>1, <2>2, <2>3, <2>4, <2>5
<1> QED BY <1>5, <1>6, <1>7

(* Every step leaves each green thread where its state says.               *)
LEMMA PlacesStep ==
    ASSUME LockInv, PlacesInv, [Next]_vars
    PROVE  PlacesInv'
<1>0. /\ TypeOK /\ wpc \in [Workers -> WorkerPC]
      /\ wcur \in [Workers -> GT \cup {NoG}]
    BY DEF LockInv, TypeOK
<1>1. ASSUME NEW w \in Workers, WorkerStep(w) \/ SpuriousWake(w)
      PROVE  PlacesInv'
    <2>1. CASE Dispatch(w)
        BY <2>1, PlacesDispatch
    <2>2. CASE FreeG(w)
        BY <2>2, PlacesFreeG
    <2>3. CASE Wait(w)
        <3>1. \E d \in Nat : timers' = Elapse(timers, d)
            BY <2>3 DEF Wait
        <3>2. \A v \in Workers : wpc[v] = "run" => wpc'[v] = "run"
            BY <1>0, <2>3 DEF Wait
        <3> QED BY <2>3, <3>1, <3>2, PlacesQuiet DEF Wait, gvars, mutexVars
    <2>4. CASE WaitTimeout(w) \/ SpuriousWake(w) \/ Retire(w) \/ SwitchOut(w) \/ AfterSwitch(w)
        <3>1. \A v \in Workers : wpc[v] = "run" => wpc'[v] = "run" /\ wcur'[v] = wcur[v]
            BY <1>0, <2>4 DEF WaitTimeout, SpuriousWake, Retire, SwitchOut, AfterSwitch,
               Asleep
        <3>2. UNCHANGED <<gstate, runq, timers, waitq, parkedOn>>
            BY <2>4 DEF WaitTimeout, SpuriousWake, Retire, SwitchOut, AfterSwitch,
               gvars, qvars, mutexVars
        <3> QED BY <3>1, <3>2, PlacesQuiet
    <2>5. CASE FinishDead(w)
        <3>1. \A v \in Workers : wpc[v] = "run" => wpc'[v] = "run"
            BY <1>0, <2>5, BroadcastFacts, WakeFacts DEF FinishDead
        <3>2. UNCHANGED <<gstate, runq, timers, waitq, parkedOn, wcur>>
            BY <2>5 DEF FinishDead, gvars, qvars, mutexVars
        <3> QED BY <3>1, <3>2, PlacesQuiet
    <2> QED BY <1>1, <2>1, <2>2, <2>3, <2>4, <2>5 DEF WorkerStep
<1>2. ASSUME NEW w \in Workers, GreenStep(w) \/ Spawn(w)
      PROVE  PlacesInv'
    <2>0. wpc[w] = "run" => wcur[w] \in Thread
        BY DEF LockInv, RunnersInv, Thread
    <2>1. CASE Yield(w) \/ Sleep(w) \/ Exit(w) \/ \E m \in Mutex : LockPark(w, m)
        BY <2>1, PlacesGiveUp
    <2>2. CASE Spawn(w)
        BY <2>0, <2>2, PlacesSpawn DEF Spawn
    <2>3. CASE \E m \in Mutex : LockFree(w, m)
        BY <2>3, PlacesQuiet DEF LockFree, Acquire, gvars, qvars
    <2>4. CASE \E m \in Mutex : Unlock(w, m)
        BY <2>0, <2>4, PlacesRelease DEF Unlock
    <2>5. CASE Alloc(w)
        BY <2>5, PlacesQuiet DEF Alloc, AllocG, gvars, qvars, mutexVars
    <2> QED BY <1>2, <2>1, <2>2, <2>3, <2>4, <2>5 DEF GreenStep
<1>3. CASE UserMainStep \/ MainSpawn
    <2>1. CASE MainSpawn
        BY <2>1, PlacesSpawn DEF MainSpawn, Thread
    <2>2. CASE BeginShutdown
        <3>1. \A v \in Workers : wpc[v] = "run" => wpc'[v] = "run"
            BY <2>2, BroadcastFacts DEF BeginShutdown, DrainLoop
        <3> QED BY <2>2, <3>1, PlacesQuiet DEF BeginShutdown, gvars, qvars, mutexVars
    <2>3. CASE \E m \in Mutex : MainLockFree(m)
        BY <2>3, PlacesQuiet DEF MainLockFree, Acquire, gvars, qvars
    <2>4. CASE \E m \in Mutex : MainLockHeld(m)
        BY <2>4, PlacesQuiet DEF MainLockHeld, gvars, qvars, mutexVars
    <2>5. CASE \E m \in Mutex : MainUnlock(m)
        BY <2>5, PlacesRelease DEF MainUnlock, Thread
    <2>6. CASE MainAlloc
        BY <2>6, PlacesQuiet DEF MainAlloc, AllocG, gvars, qvars, mutexVars
    <2> QED BY <1>3, <2>1, <2>2, <2>3, <2>4, <2>5, <2>6 DEF UserMainStep
<1>4. CASE ShutdownStep
    <2>1. \A v \in Workers : wpc[v] = "run" => wpc'[v] = "run"
        BY <1>4, BroadcastFacts DEF ShutdownStep, DrainTimeout, DrainDeadlock, DrainAgain,
           DrainLoop, Join
    <2>2. UNCHANGED <<gstate, runq, timers, waitq, parkedOn, wcur>>
        BY <1>4 DEF ShutdownStep, DrainTimeout, DrainDeadlock, DrainAgain, Join,
           gvars, qvars, mutexVars
    <2> QED BY <2>1, <2>2, PlacesQuiet
<1>5. CASE Tick
    BY <1>5, PlacesQuiet DEF Tick, gvars, mutexVars
<1>6. CASE Terminated \/ UNCHANGED vars
    BY <1>6, PlacesQuiet DEF Terminated, vars
<1> QED BY <1>1, <1>2, <1>3, <1>4, <1>5, <1>6 DEF Next

(* Whoever is nowhere forgotten and nowhere in the wrong state is in one   *)
(* place: the four parts of Places exclude each other by g->state, and     *)
(* none of them holds g twice.                                             *)
LEMMA PlacesExact ==
    ASSUME LockInv, PlacesInv
    PROVE  OnePlace
<1> SUFFICES ASSUME NEW g \in GT
             PROVE  Cardinality(Places(g)) =
                        IF gstate[g] \in {"unborn", "dead", "freed"} THEN 0 ELSE 1
    BY DEF OnePlace
<1> DEFINE R == {"runq"} \X InSeq(g, runq)
           T == {<<"timer", i>> : i \in {j \in DOMAIN timers : timers[j].g = g}}
           W == {<<"worker", w>> : w \in {v \in Workers : wpc[v] = "run" /\ wcur[v] = g}}
           M == UNION {{<<m, i>> : i \in InSeq(g, waitq[m])} : m \in Mutex}
<1>1. Places(g) = R \cup T \cup W \cup M
    BY DEF Places
<1>2. gstate[g] # "runnable" => R = {}
    BY DEF LockInv, ListsInv, InSeq
<1>3. gstate[g] # "wait_timer" => T = {}
    BY DEF LockInv, ListsInv
<1>4. gstate[g] # "running" => W = {}
    BY DEF LockInv, RunnersInv
<1>5. gstate[g] # "wait_mutex" => M = {}
    <2>1. ASSUME gstate[g] # "wait_mutex", NEW m \in Mutex
          PROVE  InSeq(g, waitq[m]) = {}
        BY <2>1 DEF LockInv, ListsInv, InSeq
    <2> QED BY <2>1
<1>6. gstate[g] = "runnable" => \E p : R = {p}
    <2> SUFFICES ASSUME gstate[g] = "runnable" PROVE \E p : R = {p}
        OBVIOUS
    <2>1. PICK i \in DOMAIN runq : runq[i] = g
        BY DEF PlacesInv, Elements
    <2>2. InSeq(g, runq) = {i}
        BY <2>1 DEF LockInv, ListsInv, Injective, InSeq
    <2>3. R = {<<"runq", i>>}
        BY <2>2
    <2> QED BY <2>3
<1>7. gstate[g] = "wait_timer" => \E p : T = {p}
    <2> SUFFICES ASSUME gstate[g] = "wait_timer" PROVE \E p : T = {p}
        OBVIOUS
    <2>1. PICK i \in DOMAIN timers : timers[i].g = g
        BY DEF PlacesInv
    <2>2. {j \in DOMAIN timers : timers[j].g = g} = {i}
        BY <2>1 DEF LockInv, ListsInv
    <2>3. T = {<<"timer", i>>}
        BY <2>2
    <2> QED BY <2>3
<1>8. gstate[g] = "running" => \E p : W = {p}
    <2> SUFFICES ASSUME gstate[g] = "running" PROVE \E p : W = {p}
        OBVIOUS
    <2>1. PICK w \in Workers : wpc[w] = "run" /\ wcur[w] = g
        BY DEF PlacesInv
    <2>2. {v \in Workers : wpc[v] = "run" /\ wcur[v] = g} = {w}
        BY <2>1 DEF LockInv, RunnersInv
    <2>3. W = {<<"worker", w>>}
        BY <2>2
    <2> QED BY <2>3
<1>9. gstate[g] = "wait_mutex" => \E p : M = {p}
    <2> SUFFICES ASSUME gstate[g] = "wait_mutex" PROVE \E p : M = {p}
        OBVIOUS
    <2> DEFINE k == parkedOn[g]
    <2>1. k \in Mutex /\ g \in Elements(waitq[k])
        BY DEF PlacesInv, LockInv, TypeOK, Thread
    <2>2. PICK i \in DOMAIN waitq[k] : waitq[k][i] = g
        BY <2>1 DEF Elements
    <2>3. InSeq(g, waitq[k]) = {i}
        BY <2>1, <2>2 DEF LockInv, ListsInv, Injective, InSeq
    <2>4. \A m \in Mutex \ {k} : InSeq(g, waitq[m]) = {}
        BY DEF LockInv, ListsInv, InSeq
    <2> HIDE DEF k
    <2>5. M = {<<k, i>>}
        BY <2>1, <2>3, <2>4
    <2> QED BY <2>5
<1> HIDE DEF R, T, W, M
<1>10. CASE gstate[g] \in {"unborn", "dead", "freed"}
    <2>1. Places(g) = {}
        BY <1>1, <1>2, <1>3, <1>4, <1>5, <1>10
    <2> QED BY <1>10, <2>1, FS_EmptySet
<1>11. CASE gstate[g] \in {"runnable", "wait_timer", "running", "wait_mutex"}
    <2>1. \E p : Places(g) = {p}
        BY <1>1, <1>2, <1>3, <1>4, <1>5, <1>6, <1>7, <1>8, <1>9, <1>11
    <2> QED BY <1>11, <2>1, FS_Singleton
<1>12. gstate[g] \in GState
    BY DEF LockInv, TypeOK
<1> QED BY <1>10, <1>11, <1>12 DEF GState

-----------------------------------------------------------------------------
(* No wakeup is lost and no work is stranded.                              *)

(* At first every worker is awake.                                         *)
LEMMA AwakeInit == Init => AwakeInv
<1> SUFFICES ASSUME Init PROVE AwakeInv
    OBVIOUS
<1>1. 0 \in Workers
    BY PoolAssumption DEF Workers
<1> QED BY <1>1 DEF Init, AwakeInv, NoLostWakeup, NoStrandedWork

(* A worker that is awake after the step will look at the run queue again. *)
LEMMA AwakeBusy ==
    ASSUME AwakeInv, UNCHANGED accepting,
           mpc' = "user" => mpc = "user",
           \A v \in Workers : wpc'[v] = "exited" => wpc[v] = "exited",
           NEW w \in Workers, wpc'[w] \notin {"wait", "timedwait", "exited"}
    PROVE  AwakeInv'
BY DEF AwakeInv, NoLostWakeup, NoStrandedWork

(* Nobody moves and nothing becomes runnable.                              *)
LEMMA AwakeQuiet ==
    ASSUME LockInv, AwakeInv, UNCHANGED <<accepting, mpc, runq>>,
           UNCHANGED wpc,
           timers' = timers \/ \E d \in Nat : timers' = Elapse(timers, d),
           fatal' = "none" => fatal = "none"
    PROVE  AwakeInv'
<1>1. timers = <<>> => timers' = <<>>
    BY DEF Elapse
<1>2. Alive' => Alive
    BY DEF Alive
<1> QED BY <1>1, <1>2 DEF AwakeInv, NoLostWakeup, NoStrandedWork

(* Each step of a worker or of the green thread it runs leaves that worker *)
(* awake; only Wait and Retire do not, with an empty run queue.            *)
LEMMA AwakeWorker ==
    ASSUME LockInv, AwakeInv, NEW w \in Workers,
           WorkerStep(w) \/ SpuriousWake(w) \/ GreenStep(w) \/ Spawn(w)
    PROVE  AwakeInv'
<1>1. /\ TypeOK /\ wpc \in [Workers -> WorkerPC]
      /\ timers \in TimerList(GT) /\ runq \in Seq(GT)
    BY DEF LockInv, TypeOK, TimerList
<1>2. Ready = <<>> => runq = <<>>
    <2>1. /\ Ready = runq \o Expired(timers)
          /\ Expired(timers) \in Seq(GT)
        BY <1>1, ExpiredSplit DEF Ready
    <2>2. Len(Ready) = Len(runq) + Len(Expired(timers))
          /\ Len(runq) \in Nat /\ Len(Expired(timers)) \in Nat
        BY <1>1, <2>1, ConcatProperties, LenProperties
    <2> QED BY <1>1, <2>2, EmptySeq
<1>3. CASE Wait(w)
    <2>1. wpc' \in [Workers -> WorkerPC] /\ wpc'[w] \in {"wait", "timedwait"}
          /\ \A v \in Workers \ {w} : wpc'[v] = wpc[v]
        BY <1>1, <1>3 DEF Wait, WorkerPC
    <2>2. runq' = <<>> /\ UNCHANGED <<accepting, mpc>> /\ wpc[w] = "loop"
        BY <1>2, <1>3 DEF Wait, schedVars
    <2> QED BY <2>1, <2>2 DEF AwakeInv, NoLostWakeup, NoStrandedWork
<1>4. CASE Retire(w)
    <2>1. runq' = <<>> /\ timers' = <<>> /\ UNCHANGED <<mpc, accepting>> /\ ~accepting
        BY <1>2, <1>4 DEF Retire, qvars
    <2> QED BY <2>1 DEF AwakeInv, NoLostWakeup, NoStrandedWork
<1>5. CASE \/ Dispatch(w) \/ WaitTimeout(w) \/ SpuriousWake(w) \/ SwitchOut(w)
           \/ AfterSwitch(w) \/ FreeG(w) \/ Alloc(w) \/ Exit(w)
           \/ \E m \in Mutex : LockFree(w, m) \/ LockPark(w, m)
    <2>1. \/ wpc' = wpc /\ wpc[w] = "run"
          \/ \E pc \in WorkerPC \ {"wait", "timedwait", "exited"} :
                wpc' = [wpc EXCEPT ![w] = pc]
        BY <1>5 DEF Dispatch, WaitTimeout, SpuriousWake, SwitchOut, AfterSwitch,
           FreeG, Alloc, AllocG, Exit, LockFree, Acquire, LockPark, WorkerPC
    <2>3. /\ wpc'[w] \notin {"wait", "timedwait", "exited"}
          /\ \A v \in Workers : wpc'[v] = "exited" => wpc[v] = "exited"
        BY <1>1, <2>1
    <2>2. UNCHANGED <<accepting, mpc>>
        BY <1>5 DEF Dispatch, WaitTimeout, SpuriousWake, SwitchOut, AfterSwitch,
           FreeG, Alloc, AllocG, Exit, LockFree, Acquire, LockPark, schedVars
    <2> QED BY <2>3, <2>2, AwakeBusy
<1>6. CASE FinishDead(w)
    <2>1. /\ wpc'[w] \notin {"wait", "timedwait", "exited"}
          /\ \A v \in Workers : wpc'[v] = "exited" => wpc[v] = "exited"
        BY <1>1, <1>6, BroadcastFacts, WakeFacts DEF FinishDead
    <2>2. UNCHANGED accepting /\ (mpc' = "user" => mpc = "user")
        BY <1>6, BroadcastFacts DEF FinishDead
    <2> QED BY <2>1, <2>2, AwakeBusy
<1>7. CASE Yield(w) \/ Sleep(w)
    <2>1. \/ \E x \in Signalled :
                wpc' = [WakeWorker(x) EXCEPT ![w] = "switch"] /\ mpc' = WakeMain(x)
          \/ wpc' = [wpc EXCEPT ![w] = "switch"] /\ mpc' = mpc
        BY <1>7 DEF Yield, Sleep
    <2>2. /\ wpc'[w] \notin {"wait", "timedwait", "exited"}
          /\ \A v \in Workers : wpc'[v] = "exited" => wpc[v] = "exited"
          /\ mpc' = "user" => mpc = "user"
        BY <1>1, <2>1, SignalFacts, WakeFacts
    <2>3. UNCHANGED accepting
        BY <1>7 DEF Yield, Sleep, schedVars
    <2> QED BY <2>2, <2>3, AwakeBusy
<1>8. CASE Spawn(w) \/ \E m \in Mutex : Unlock(w, m)
    <2>1. /\ wpc[w] = "run"
          /\ \/ \E x \in Signalled : wpc' = WakeWorker(x) /\ mpc' = WakeMain(x)
             \/ wpc' = wpc /\ mpc' = mpc
        BY <1>8 DEF Spawn, SpawnG, Unlock, Release
    <2>2. /\ wpc'[w] \notin {"wait", "timedwait", "exited"}
          /\ \A v \in Workers : wpc'[v] = "exited" => wpc[v] = "exited"
          /\ mpc' = "user" => mpc = "user"
        BY <1>1, <2>1, SignalFacts
    <2>3. UNCHANGED accepting
        BY <1>8 DEF Spawn, SpawnG, Unlock, Release, schedVars
    <2> QED BY <2>2, <2>3, AwakeBusy
<1> QED BY <1>3, <1>4, <1>5, <1>6, <1>7, <1>8 DEF WorkerStep, GreenStep

(* main signals before it has cleared sched.accepting, when no worker has  *)
(* returned, and broadcasts afterwards.                                    *)
LEMMA AwakeMain ==
    ASSUME LockInv, AwakeInv, UserMainStep \/ MainSpawn \/ ShutdownStep
    PROVE  AwakeInv'
<1>1. TypeOK /\ wpc \in [Workers -> WorkerPC]
    BY DEF LockInv, TypeOK
<1>2. CASE MainSpawn \/ \E m \in Mutex : MainUnlock(m)
    <2>1. /\ mpc = "user" /\ accepting /\ UNCHANGED accepting
          /\ \A v \in Workers : wpc[v] # "exited"
        BY <1>2 DEF MainSpawn, SpawnG, MainUnlock, Release, schedVars, AwakeInv
    <2>2. CASE \E x \in Signalled : wpc' = WakeWorker(x) /\ mpc' = WakeMain(x)
        <3>1. PICK x \in Signalled : wpc' = WakeWorker(x) /\ mpc' = WakeMain(x)
            BY <2>2
        <3>2. /\ \E v \in Workers : wpc'[v] \notin {"wait", "timedwait", "exited"}
              /\ \A v \in Workers : wpc'[v] = "exited" => wpc[v] = "exited"
            BY <1>1, <2>1, <3>1, SignalFacts
        <3> QED BY <2>1, <3>2, AwakeBusy
    <2>3. CASE UNCHANGED <<runq, timers, wpc, mpc, fatal>>
        BY <2>1, <2>3, AwakeQuiet
    <2> QED BY <1>2, <2>2, <2>3 DEF MainSpawn, SpawnG, MainUnlock, Release
<1>3. CASE BeginShutdown \/ DrainAgain
    <2>1. /\ wpc' = WakeAllWorkers /\ mpc' \in {"drainwait", "join"}
          /\ UNCHANGED <<runq, timers>>
          /\ accepting' = FALSE \/ accepting' = accepting
        BY <1>3 DEF BeginShutdown, DrainAgain, DrainLoop, qvars, schedVars
    <2>2. /\ \A v \in Workers : wpc'[v] = "exited" <=> wpc[v] = "exited"
          /\ \A v \in Workers : wpc'[v] \notin {"wait", "timedwait"}
        BY <1>1, <2>1, BroadcastFacts, WakeFacts
    <2>3. NoStrandedWork'
        BY <2>1, <2>2 DEF AwakeInv, NoStrandedWork
    <2>4. NoLostWakeup'
        BY <2>2, <2>3 DEF NoLostWakeup, NoStrandedWork
    <2> QED BY <2>1, <2>2, <2>3, <2>4 DEF AwakeInv
<1>4. CASE DrainTimeout \/ Join
    <2>1. /\ mpc' = "drain" \/ mpc' = "done"
          /\ UNCHANGED <<accepting, runq, timers, wpc>>
        BY <1>4 DEF DrainTimeout, Join, qvars, schedVars
    <2> QED BY <2>1 DEF AwakeInv, NoLostWakeup, NoStrandedWork, Alive
<1>5. CASE MainAlloc \/ DrainDeadlock \/ \E m \in Mutex : MainLockFree(m) \/ MainLockHeld(m)
    <2>1. /\ UNCHANGED <<accepting, mpc, runq, timers, wpc>>
          /\ fatal' = "none" => fatal = "none"
        BY <1>5 DEF MainAlloc, AllocG, DrainDeadlock, MainLockFree, Acquire,
           MainLockHeld, Alive, qvars, schedVars
    <2> QED BY <2>1, AwakeQuiet
<1> QED BY <1>2, <1>3, <1>4, <1>5 DEF UserMainStep, ShutdownStep

(* Every step leaves somebody awake for what is runnable.                  *)
LEMMA AwakeStep ==
    ASSUME LockInv, AwakeInv, [Next]_vars
    PROVE  AwakeInv'
<1>1. CASE \E w \in Workers :
            WorkerStep(w) \/ SpuriousWake(w) \/ GreenStep(w) \/ Spawn(w)
    BY <1>1, AwakeWorker
<1>2. CASE UserMainStep \/ MainSpawn \/ ShutdownStep
    BY <1>2, AwakeMain
<1>3. CASE Tick
    BY <1>3, AwakeQuiet DEF Tick, schedVars
<1>4. CASE Terminated \/ UNCHANGED vars
    BY <1>4, AwakeQuiet DEF Terminated, vars
<1> QED BY <1>1, <1>2, <1>3, <1>4 DEF Next

-----------------------------------------------------------------------------
(* A green thread that has not been overtaken is in one worker's hands,    *)
(* live_g_count is exact, and every undefined outcome has its cause.       *)

(* A worker at one of these has no green thread in its hands.              *)
Idle == {"loop", "wait", "timedwait", "exited"}

(* Who holds a green thread, by where each worker is.                      *)
LEMMA HoldingIs ==
    ASSUME LockInv
    PROVE  /\ \A v \in Workers : v \in Holding <=> wpc[v] \notin Idle
           /\ \A v \in Holding : v \in Workers /\ wcur[v] \in GT
BY DEF LockInv, TypeOK, RunnersInv, WorkerPC, Holding, Idle

(* At first no worker holds anything.                                      *)
LEMMA HeldInit == Init => Held
<1> SUFFICES ASSUME Init PROVE Held
    OBVIOUS
<1>1. Counted = {}
    BY DEF Init, Counted, Live
<1>2. IsFiniteSet(Counted) /\ Cardinality(Counted) = 0
    BY <1>1, FS_EmptySet
<1>3. Holding = {}
    BY DEF Init, Holding
<1> QED BY <1>2, <1>3 DEF Init, Held

(* While green threads live, shutdown has not come to its join.            *)
LEMMA NotJoining ==
    ASSUME Held, NEW g \in GT, gstate[g] \notin {"unborn", "dead", "freed"}
    PROVE  mpc \notin {"join", "done"}
BY DEF Held, Live

(* What Held says of the workers, when the green threads in hand and their *)
(* holders stay the same.                                                  *)
LEMMA HeldQuiet ==
    ASSUME LockInv, Held, UNCHANGED <<gstate, saved, liveCount>>,
           \A v \in Workers :
                \/ wpc'[v] = wpc[v] /\ wcur'[v] = wcur[v]
                \/ wpc[v] \in Idle /\ wpc'[v] \in Idle,
           mpc' \in {"join", "done"} => mpc \in {"join", "done"} \/ liveCount = 0
    PROVE  Held'
<1>1. /\ Holding' = Holding
      /\ \A v \in Holding : wpc'[v] = wpc[v] /\ wcur'[v] = wcur[v]
    BY DEF Holding, Idle
<1>2. Live' = Live
    BY DEF Live
<1>3. Counted' = Counted
    <2>1. \A g \in GT :
            (\E v \in Workers : wcur'[v] = g /\ wpc'[v] \in {"switch", "after", "finish"})
              <=> \E v \in Workers : wcur[v] = g /\ wpc[v] \in {"switch", "after", "finish"}
        BY DEF Idle
    <2> QED BY <1>2, <2>1 DEF Counted
<1>4. liveCount = 0 => Live = {}
    <2>1. liveCount = 0 => Counted = {}
        BY FS_EmptySet DEF Held
    <2> QED BY <2>1 DEF Counted
<1>5. \A v \in Workers : wpc[v] = "switch" => wpc'[v] = "switch" /\ wcur'[v] = wcur[v]
    BY DEF Idle
<1> QED BY <1>1, <1>2, <1>3, <1>4, <1>5 DEF Held

(* The running green thread gives its worker up: it still counts, dead or  *)
(* alive, and its context is not saved until the worker has switched.      *)
LEMMA HeldLeave ==
    ASSUME LockInv, Held, NEW w \in Workers, wpc[w] = "run",
           NEW s \in {"runnable", "wait_timer", "wait_mutex", "dead"},
           gstate' = [gstate EXCEPT ![wcur[w]] = s],
           wpc'[w] = "switch",
           \A v \in Workers \ {w} :
                wpc'[v] = wpc[v] \/ (wpc[v] \in Idle /\ wpc'[v] \in Idle),
           mpc' \in {"join", "done"} => mpc' = mpc,
           UNCHANGED <<saved, wcur, liveCount>>
    PROVE  Held'
<1> DEFINE g == wcur[w]
<1>1. /\ g \in GT /\ gstate[g] = "running"
      /\ gstate \in [GT -> GState]
    BY DEF LockInv, RunnersInv, TypeOK
<1>2. gstate'[g] = s /\ \A x \in GT \ {g} : gstate'[x] = gstate[x]
    BY <1>1
<1>3. mpc' \notin {"join", "done"}
    BY <1>1, NotJoining
<1>4. Holding' = Holding /\ w \in Holding
    BY DEF Holding, Idle
<1>5. \A v \in Holding \ {w} : wcur[v] # g
    BY <1>4 DEF Held
<1> HIDE DEF g
<1>6. Counted' = Counted
    <2>1. g \in Counted /\ g \in Counted'
        BY <1>1, <1>2 DEF Counted, Live, g
    <2>2. \A x \in GT \ {g} : x \in Counted' <=> x \in Counted
        BY <1>2 DEF Counted, Live, Idle, g
    <2>3. Counted \subseteq GT /\ Counted' \subseteq GT
        BY DEF Counted, Live
    <2> QED BY <2>1, <2>2, <2>3
<1>7. \A v \in Holding' : gstate'[wcur'[v]] # "freed"
    <2>1. \A v \in Holding : wcur[v] \in GT
        BY HoldingIs
    <2> QED BY <1>2, <1>4, <2>1 DEF Held
<1>8. \A x \in GT : gstate'[x] \in {"runnable", "wait_timer", "wait_mutex"} =>
            saved'[x] \/ \E v \in Workers : wpc'[v] = "switch" /\ wcur'[v] = x
    <2> SUFFICES ASSUME NEW x \in GT, ~saved[x],
                        gstate'[x] \in {"runnable", "wait_timer", "wait_mutex"}
                 PROVE  \E v \in Workers : wpc'[v] = "switch" /\ wcur[v] = x
        OBVIOUS
    <2>1. CASE x = g
        BY <2>1 DEF g
    <2>2. CASE x # g
        <3>1. PICK v \in Workers : wpc[v] = "switch" /\ wcur[v] = x
            BY <1>2, <2>2 DEF Held
        <3>2. wpc'[v] = "switch"
            BY <3>1 DEF Idle
        <3> QED BY <3>1, <3>2
    <2> QED BY <2>1, <2>2
<1> QED BY <1>3, <1>4, <1>5, <1>6, <1>7, <1>8 DEF Held

(* __nc_spawn raises live_g_count by the green thread it adds.             *)
LEMMA HeldSpawn ==
    ASSUME LockInv, Held, NEW t \in Thread, SpawnG(t), mpc \notin {"join", "done"}
    PROVE  Held'
<1> DEFINE g == fresh[t]
<1>1. /\ gstate' = [gstate EXCEPT ![g] = "runnable"]
      /\ saved' = [saved EXCEPT ![g] = TRUE]
      /\ liveCount' = liveCount + 1
      /\ \E x \in Signalled : wpc' = WakeWorker(x) /\ mpc' = WakeMain(x)
      /\ UNCHANGED wcur
    BY DEF SpawnG
<1>2. /\ TypeOK /\ gstate \in [GT -> GState] /\ saved \in [GT -> BOOLEAN]
      /\ g \in GT /\ gstate[g] = "unborn"
    BY DEF LockInv, TypeOK, FreshInv, SpawnG
<1> HIDE DEF g
<1>3. /\ gstate'[g] = "runnable" /\ saved'[g]
      /\ \A x \in GT \ {g} : gstate'[x] = gstate[x] /\ saved'[x] = saved[x]
    BY <1>1, <1>2
<1>4. \A v \in Workers : wpc'[v] = wpc[v] \/ (wpc[v] \in Idle /\ wpc'[v] \in Idle)
    BY <1>1, <1>2, SignalFacts DEF Idle
<1>5. mpc' \notin {"join", "done"}
    BY <1>1, <1>2, SignalFacts
<1>6. Holding' = Holding
    BY <1>4 DEF Holding, Idle
<1>7. Counted' = Counted \cup {g} /\ g \notin Counted
    <2>1. g \notin Counted /\ g \in Counted'
        BY <1>2, <1>3 DEF Counted, Live
    <2>2. \A x \in GT \ {g} : x \in Counted' <=> x \in Counted
        BY <1>1, <1>3, <1>4 DEF Counted, Live, Idle
    <2>3. Counted \subseteq GT /\ Counted' \subseteq GT
        BY DEF Counted, Live
    <2> QED BY <1>2, <2>1, <2>2, <2>3
<1>8. IsFiniteSet(Counted)' /\ (liveCount = Cardinality(Counted))'
    BY <1>1, <1>7, FS_AddElement DEF Held
<1>9. \A v \in Holding' : gstate'[wcur'[v]] # "freed"
    <2>1. \A v \in Holding : wcur[v] \in GT
        BY HoldingIs
    <2> QED BY <1>1, <1>3, <1>6, <2>1 DEF Held
<1>10. \A x \in GT : gstate'[x] \in {"runnable", "wait_timer", "wait_mutex"} =>
            saved'[x] \/ \E v \in Workers : wpc'[v] = "switch" /\ wcur'[v] = x
    <2>1. \A v \in Workers : wpc[v] = "switch" => wpc'[v] = "switch"
        BY <1>4 DEF Idle
    <2> QED BY <1>1, <1>3, <2>1 DEF Held
<1> QED BY <1>1, <1>5, <1>6, <1>8, <1>9, <1>10 DEF Held

(* __nc_mutex_unlock makes a waiter runnable: it lived before and lives.   *)
LEMMA HeldRelease ==
    ASSUME LockInv, Held, NEW t \in Thread, NEW m \in Mutex, Release(t, m)
    PROVE  Held'
<1>1. CASE waitq[m] = <<>>
    BY <1>1, HeldQuiet DEF Release, schedVars
<1>2. CASE waitq[m] # <<>>
    <2> DEFINE h == Head(waitq[m])
    <2>1. /\ gstate' = [gstate EXCEPT ![h] = "runnable"]
          /\ UNCHANGED <<saved, wcur, liveCount>>
          /\ \E x \in Signalled : wpc' = WakeWorker(x) /\ mpc' = WakeMain(x)
        BY <1>2 DEF Release, schedVars
    <2>2. TypeOK /\ gstate \in [GT -> GState] /\ waitq \in [Mutex -> Seq(GT)]
        BY DEF LockInv, TypeOK
    <2>3. h \in GT /\ gstate[h] = "wait_mutex"
        BY <1>2, <2>2, TailFacts DEF LockInv, ListsInv, Elements
    <2> HIDE DEF h
    <2>4. gstate'[h] = "runnable" /\ \A x \in GT \ {h} : gstate'[x] = gstate[x]
        BY <2>1, <2>2, <2>3
    <2>5. \A v \in Workers : wpc'[v] = wpc[v] \/ (wpc[v] \in Idle /\ wpc'[v] \in Idle)
        BY <2>1, <2>2, SignalFacts DEF Idle
    <2>6. mpc' \notin {"join", "done"}
        BY <2>1, <2>2, <2>3, SignalFacts, NotJoining
    <2>7. Holding' = Holding
        BY <2>5 DEF Holding, Idle
    <2>8. Counted' = Counted
        <3>1. h \in Counted /\ h \in Counted'
            BY <2>3, <2>4 DEF Counted, Live
        <3>2. \A x \in GT \ {h} : x \in Counted' <=> x \in Counted
            BY <2>1, <2>4, <2>5 DEF Counted, Live, Idle
        <3>3. Counted \subseteq GT /\ Counted' \subseteq GT
            BY DEF Counted, Live
        <3> QED BY <3>1, <3>2, <3>3
    <2>9. \A v \in Holding' : gstate'[wcur'[v]] # "freed"
        <3>1. \A v \in Holding : wcur[v] \in GT
            BY HoldingIs
        <3> QED BY <2>1, <2>4, <2>7, <3>1 DEF Held
    <2>10. \A x \in GT : gstate'[x] \in {"runnable", "wait_timer", "wait_mutex"} =>
                saved'[x] \/ \E v \in Workers : wpc'[v] = "switch" /\ wcur'[v] = x
        <3>1. \A v \in Workers : wpc[v] = "switch" => wpc'[v] = "switch"
            BY <2>5 DEF Idle
        <3> QED BY <2>1, <2>3, <2>4, <3>1 DEF Held
    <2> QED BY <2>1, <2>6, <2>7, <2>8, <2>9, <2>10 DEF Held
<1> QED BY <1>1, <1>2

(* __nc_g_switch saves the context of the green thread the worker leaves.  *)
LEMMA HeldSwitchOut ==
    ASSUME LockInv, Held, NEW w \in Workers, SwitchOut(w)
    PROVE  Held'
<1>1. /\ wpc[w] = "switch" /\ wpc' = [wpc EXCEPT ![w] = "after"]
      /\ saved' = [saved EXCEPT ![wcur[w]] = TRUE]
      /\ UNCHANGED <<gstate, wcur, liveCount, mpc>>
      /\ wpc \in [Workers -> WorkerPC] /\ saved \in [GT -> BOOLEAN]
    BY DEF SwitchOut, schedVars, LockInv, TypeOK
<1>2. wpc'[w] = "after" /\ \A v \in Workers \ {w} : wpc'[v] = wpc[v]
    BY <1>1
<1>3. Holding' = Holding /\ Live' = Live
    BY <1>1, <1>2 DEF Holding, Live
<1>4. Counted' = Counted
    <2>1. \A g \in GT :
            (\E v \in Workers : wcur'[v] = g /\ wpc'[v] \in {"switch", "after", "finish"})
              <=> \E v \in Workers : wcur[v] = g /\ wpc[v] \in {"switch", "after", "finish"}
        BY <1>1, <1>2
    <2> QED BY <1>1, <1>3, <2>1 DEF Counted
<1>5. \A x \in GT : gstate[x] \in {"runnable", "wait_timer", "wait_mutex"} =>
            saved'[x] \/ \E v \in Workers : wpc'[v] = "switch" /\ wcur[v] = x
    <2> SUFFICES ASSUME NEW x \in GT, ~saved'[x],
                        gstate[x] \in {"runnable", "wait_timer", "wait_mutex"}
                 PROVE  \E v \in Workers : wpc'[v] = "switch" /\ wcur[v] = x
        OBVIOUS
    <2>1. ~saved[x] /\ x # wcur[w]
        BY <1>1
    <2>2. PICK v \in Workers : wpc[v] = "switch" /\ wcur[v] = x
        BY <2>1 DEF Held
    <2> QED BY <1>2, <2>1, <2>2
<1> QED BY <1>1, <1>3, <1>4, <1>5 DEF Held

(* The worker reads g->state and finishes g, or has nothing more to do     *)
(* with it.                                                                *)
LEMMA HeldAfter ==
    ASSUME LockInv, Held, NEW w \in Workers, AfterSwitch(w)
    PROVE  Held'
<1> DEFINE g == wcur[w]
<1>1. /\ wpc[w] = "after" /\ UNCHANGED <<gstate, saved, liveCount, mpc>>
      /\ wpc' = [wpc EXCEPT ![w] = IF gstate[g] = "dead" THEN "finish" ELSE "loop"]
      /\ wcur' = [wcur EXCEPT ![w] = IF gstate[g] = "dead" THEN @ ELSE NoG]
      /\ wpc \in [Workers -> WorkerPC] /\ wcur \in [Workers -> GT \cup {NoG}]
    BY DEF AfterSwitch, gvars, schedVars, LockInv, TypeOK
<1> HIDE DEF g
<1>2. \A v \in Workers \ {w} : wpc'[v] = wpc[v] /\ wcur'[v] = wcur[v]
    BY <1>1
<1>3. \/ gstate[g] = "dead" /\ wpc'[w] = "finish" /\ wcur'[w] = g /\ wcur[w] = g
      \/ gstate[g] # "dead" /\ wpc'[w] = "loop" /\ wcur[w] = g
    BY <1>1 DEF g
<1>4. Live' = Live
    BY <1>1 DEF Live
<1>5. \A v \in Holding' : v \in Holding /\ wcur'[v] = wcur[v]
    BY <1>1, <1>2, <1>3 DEF Holding
<1>6. Counted' = Counted
    <2>1. \A x \in GT : gstate[x] = "dead" =>
            ((\E v \in Workers : wcur'[v] = x /\ wpc'[v] \in {"switch", "after", "finish"})
              <=> \E v \in Workers : wcur[v] = x /\ wpc[v] \in {"switch", "after", "finish"})
        BY <1>1, <1>2, <1>3
    <2> QED BY <1>1, <1>4, <2>1 DEF Counted
<1>7. \A v \in Workers : wpc[v] = "switch" => wpc'[v] = "switch" /\ wcur'[v] = wcur[v]
    BY <1>1, <1>2
<1> QED BY <1>1, <1>4, <1>5, <1>6, <1>7 DEF Held

(* g_finish_dead lowers live_g_count by the green thread it is called for, *)
(* which was counted: it cannot find a count of 0.                         *)
LEMMA HeldFinish ==
    ASSUME LockInv, Held, NEW w \in Workers, FinishDead(w)
    PROVE  Held' /\ fatal' = fatal
<1> DEFINE g == wcur[w]
<1>1. /\ wpc[w] = "finish" /\ UNCHANGED <<gstate, saved, wcur>>
      /\ wpc \in [Workers -> WorkerPC] /\ TypeOK
    BY DEF FinishDead, gvars, LockInv, TypeOK
<1>2. g \in GT /\ gstate[g] = "dead" /\ w \in Holding
    BY <1>1 DEF Held, Holding, LockInv, RunnersInv
<1>3. g \in Counted
    BY <1>1, <1>2 DEF Counted
<1>4. liveCount \in Nat \ {0}
    <2>1. Cardinality(Counted) # 0 /\ Cardinality(Counted) \in Nat
        BY <1>3, FS_EmptySet, FS_CardinalityType DEF Held
    <2> QED BY <2>1 DEF Held
<1>5. /\ liveCount' = liveCount - 1 /\ UNCHANGED fatal
      /\ \/ wpc' = [WakeAllWorkers EXCEPT ![w] = "free"] /\ mpc' = WakeAllMain
         \/ wpc' = [wpc EXCEPT ![w] = "free"] /\ mpc' = mpc
    BY <1>4 DEF FinishDead
<1>6. /\ wpc'[w] = "free"
      /\ \A v \in Workers \ {w} : wpc'[v] = wpc[v] \/ (wpc[v] \in Idle /\ wpc'[v] \in Idle)
    BY <1>1, <1>5, BroadcastFacts, WakeFacts DEF Idle
<1>7. Holding' = Holding
    BY <1>1, <1>6 DEF Holding, Idle
<1>8. \A v \in Holding \ {w} : wcur[v] # g
    BY <1>2 DEF Held
<1> HIDE DEF g
<1>9. Counted' = Counted \ {g}
    <2>1. g \notin Counted'
        BY <1>1, <1>2, <1>6, <1>7, <1>8 DEF Counted, Live, Holding
    <2>2. \A x \in GT \ {g} : x \in Counted' <=> x \in Counted
        BY <1>1, <1>6 DEF Counted, Live, Idle, g
    <2>3. Counted \subseteq GT /\ Counted' \subseteq GT
        BY DEF Counted, Live
    <2> QED BY <2>1, <2>2, <2>3
<1>10. IsFiniteSet(Counted)' /\ (liveCount = Cardinality(Counted))'
    BY <1>3, <1>5, <1>9, FS_RemoveElement DEF Held
<1>11. mpc' \in {"join", "done"} => Live' = {}
    BY <1>1, <1>5, BroadcastFacts DEF Held, Live
<1>12. \A v \in Workers : wpc[v] = "switch" => wpc'[v] = "switch"
    BY <1>1, <1>6 DEF Idle
<1>13. Held'
    BY <1>1, <1>7, <1>10, <1>11, <1>12 DEF Held
<1> QED BY <1>5, <1>13

(* __nc_g_free: the green thread was finished, and is freed once.          *)
LEMMA HeldFree ==
    ASSUME LockInv, Held, NEW w \in Workers, FreeG(w)
    PROVE  Held'
<1> DEFINE g == wcur[w]
<1>1. /\ wpc[w] = "free" /\ wpc' = [wpc EXCEPT ![w] = "loop"]
      /\ wcur' = [wcur EXCEPT ![w] = NoG]
      /\ gstate' = [gstate EXCEPT ![g] = "freed"]
      /\ UNCHANGED <<saved, liveCount, mpc>>
      /\ wpc \in [Workers -> WorkerPC] /\ gstate \in [GT -> GState]
      /\ wcur \in [Workers -> GT \cup {NoG}]
    BY DEF FreeG, LockInv, TypeOK
<1>2. g \in GT /\ gstate[g] = "dead" /\ w \in Holding
    BY <1>1 DEF Held, Holding, LockInv, RunnersInv
<1>3. \A v \in Holding \ {w} : wcur[v] # g /\ wcur[v] \in GT
    BY <1>2, HoldingIs DEF Held
<1> HIDE DEF g
<1>4. gstate'[g] = "freed" /\ \A x \in GT \ {g} : gstate'[x] = gstate[x]
    BY <1>1, <1>2
<1>5. /\ wpc'[w] = "loop"
      /\ \A v \in Workers \ {w} : wpc'[v] = wpc[v] /\ wcur'[v] = wcur[v]
    BY <1>1
<1>6. Live' = Live
    BY <1>2, <1>4 DEF Live
<1>7. Holding' = Holding \ {w}
    BY <1>5 DEF Holding
<1>8. Counted' = Counted
    <2>1. g \notin Counted
        BY <1>1, <1>2, <1>3 DEF Counted, Live, Holding
    <2>2. g \notin Counted'
        BY <1>4 DEF Counted, Live
    <2>3. \A x \in GT \ {g} : x \in Counted' <=> x \in Counted
        BY <1>1, <1>4, <1>5, <1>6 DEF Counted
    <2>4. Counted \subseteq GT /\ Counted' \subseteq GT
        BY DEF Counted, Live
    <2> QED BY <2>1, <2>2, <2>3, <2>4
<1>9. \A v \in Holding' : wcur'[v] = wcur[v] /\ gstate'[wcur'[v]] = gstate[wcur[v]]
    BY <1>3, <1>4, <1>5, <1>7 DEF Holding
<1>10. \A x \in GT : gstate'[x] \in {"runnable", "wait_timer", "wait_mutex"} =>
            saved'[x] \/ \E v \in Workers : wpc'[v] = "switch" /\ wcur'[v] = x
    BY <1>1, <1>4, <1>5 DEF Held
<1> QED BY <1>1, <1>6, <1>7, <1>8, <1>9, <1>10 DEF Held

(* worker_loop dispatches a green thread that its last worker has left: no *)
(* worker has it in its hands any more, and its context is saved.          *)
LEMMA HeldDispatch ==
    ASSUME LockInv, Held, NEW w \in Workers, Dispatch(w), Leaving(Head(Ready)) = {}
    PROVE  Held' /\ fatal' = fatal
<1> DEFINE g == Head(Ready)
           E == Expired(timers)
<1>1. /\ wpc[w] = "loop" /\ wpc' = [wpc EXCEPT ![w] = "run"]
      /\ wcur' = [wcur EXCEPT ![w] = g]
      /\ gstate' = [x \in GT |-> IF x = g THEN "running"
                                 ELSE IF x \in Elements(E) THEN "runnable"
                                 ELSE gstate[x]]
      /\ fatal' = IF saved[g] THEN fatal ELSE "resume_unsaved"
      /\ saved' = [saved EXCEPT ![g] = FALSE]
      /\ UNCHANGED <<liveCount, mpc>>
      /\ wpc \in [Workers -> WorkerPC] /\ wcur \in [Workers -> GT \cup {NoG}]
      /\ gstate \in [GT -> GState] /\ saved \in [GT -> BOOLEAN]
    BY DEF Dispatch, LockInv, TypeOK
<1>2. /\ g \in GT /\ gstate[g] \in {"runnable", "wait_timer"}
      /\ \A x \in Elements(E) : gstate[x] = "wait_timer"
    BY ReadyFacts DEF Dispatch
<1>3. \A v \in Workers : wpc[v] \in {"switch", "after"} => wcur[v] # g
    BY DEF Leaving
<1> HIDE DEF g, E
<1>4. \A v \in Holding : wcur[v] # g /\ wcur[v] \in GT
    BY <1>2, <1>3, HoldingIs DEF Holding, LockInv, RunnersInv
<1>5. /\ wpc'[w] = "run" /\ wcur'[w] = g
      /\ \A v \in Workers \ {w} : wpc'[v] = wpc[v] /\ wcur'[v] = wcur[v]
    BY <1>1
<1>6. /\ gstate'[g] = "running"
      /\ \A x \in GT \ {g} : \/ gstate'[x] = gstate[x]
                             \/ gstate[x] = "wait_timer" /\ gstate'[x] = "runnable"
    BY <1>1, <1>2
<1>7. Holding' = Holding \cup {w} /\ w \notin Holding
    BY <1>1, <1>5 DEF Holding
<1>8. Counted' = Counted
    <2>1. Live' = Live
        BY <1>2, <1>6 DEF Live
    <2>2. \A x \in GT : gstate'[x] = "dead" <=> gstate[x] = "dead"
        BY <1>2, <1>6
    <2>3. \A x \in GT :
            (\E v \in Workers : wcur'[v] = x /\ wpc'[v] \in {"switch", "after", "finish"})
              <=> \E v \in Workers : wcur[v] = x /\ wpc[v] \in {"switch", "after", "finish"}
        BY <1>1, <1>5
    <2> QED BY <2>1, <2>2, <2>3 DEF Counted
<1>9. mpc' \notin {"join", "done"}
    BY <1>1, <1>2, NotJoining
<1>10. \A u, v \in Holding' : wcur'[u] = wcur'[v] => u = v
    BY <1>4, <1>5, <1>7 DEF Held, Holding
<1>11. \A v \in Holding' : gstate'[wcur'[v]] # "freed"
    BY <1>4, <1>5, <1>6, <1>7 DEF Held, Holding
<1>12. saved[g]
    BY <1>2, <1>3 DEF Held
<1>13. \A x \in GT : gstate'[x] \in {"runnable", "wait_timer", "wait_mutex"} =>
            saved'[x] \/ \E v \in Workers : wpc'[v] = "switch" /\ wcur'[v] = x
    <2> SUFFICES ASSUME NEW x \in GT, ~saved'[x],
                        gstate'[x] \in {"runnable", "wait_timer", "wait_mutex"}
                 PROVE  \E v \in Workers : wpc'[v] = "switch" /\ wcur'[v] = x
        OBVIOUS
    <2>1. x # g /\ ~saved[x] /\ gstate[x] \in {"runnable", "wait_timer", "wait_mutex"}
        BY <1>1, <1>6
    <2>2. PICK v \in Workers : wpc[v] = "switch" /\ wcur[v] = x
        BY <2>1 DEF Held
    <2> QED BY <1>1, <1>5, <2>2
<1>14. Held'
    BY <1>1, <1>8, <1>9, <1>10, <1>11, <1>13 DEF Held
<1> QED BY <1>1, <1>12, <1>14

(* Only a dispatch overtakes, and the one worker that is at the head of    *)
(* its loop has left every green thread.                                   *)
LEMMA OvertakenStep ==
    ASSUME LockInv, [Next]_vars
    PROVE  /\ overtaken => overtaken'
           /\ NumWorkers = 1 /\ ~overtaken => ~overtaken'
<1>1. ASSUME NEW w \in Workers, Dispatch(w)
      PROVE  /\ overtaken => overtaken'
             /\ NumWorkers = 1 /\ ~overtaken => ~overtaken'
    <2>1. overtaken' = (overtaken \/ Leaving(Head(Ready)) # {}) /\ wpc[w] = "loop"
        BY <1>1 DEF Dispatch
    <2>2. NumWorkers = 1 => \A v \in Workers : v = w
        BY PoolAssumption DEF Workers
    <2>3. NumWorkers = 1 => Leaving(Head(Ready)) = {}
        BY <2>1, <2>2 DEF Leaving
    <2> QED BY <2>1, <2>3
<1>2. ASSUME NEW w \in Workers, ~Dispatch(w),
             WorkerStep(w) \/ SpuriousWake(w) \/ GreenStep(w) \/ Spawn(w)
      PROVE  overtaken' = overtaken
    BY <1>2 DEF WorkerStep, Wait, WaitTimeout, SpuriousWake, Retire, SwitchOut, AfterSwitch,
       FinishDead, FreeG, GreenStep, Yield, Sleep, Alloc, AllocG, Exit, LockFree, Acquire,
       LockPark, Unlock, Release, Spawn, SpawnG, schedVars, raceVars
<1>3. ASSUME UserMainStep \/ MainSpawn \/ ShutdownStep \/ Tick \/ Terminated \/ UNCHANGED vars
      PROVE  overtaken' = overtaken
    BY <1>3 DEF UserMainStep, MainAlloc, AllocG, BeginShutdown, MainLockFree, Acquire,
       MainLockHeld, MainUnlock, Release, MainSpawn, SpawnG, ShutdownStep, DrainTimeout,
       DrainDeadlock, DrainAgain, Join, Tick, Terminated, schedVars, raceVars, vars
<1> QED BY <1>1, <1>2, <1>3 DEF Next

(* Held is kept by every step that overtakes nobody.                       *)
LEMMA HeldStep ==
    ASSUME LockInv, Held, [Next]_vars, ~overtaken'
    PROVE  Held'
<1>0. TypeOK /\ wpc \in [Workers -> WorkerPC]
    BY DEF LockInv, TypeOK
<1>1. ASSUME NEW w \in Workers, WorkerStep(w) \/ SpuriousWake(w)
      PROVE  Held'
    <2>1. CASE Dispatch(w)
        <3>1. Leaving(Head(Ready)) = {}
            BY <2>1 DEF Dispatch
        <3> QED BY <2>1, <3>1, HeldDispatch
    <2>2. CASE SwitchOut(w)
        BY <2>2, HeldSwitchOut
    <2>3. CASE AfterSwitch(w)
        BY <2>3, HeldAfter
    <2>4. CASE FinishDead(w)
        BY <2>4, HeldFinish
    <2>5. CASE FreeG(w)
        BY <2>5, HeldFree
    <2>6. CASE Wait(w) \/ WaitTimeout(w) \/ SpuriousWake(w) \/ Retire(w)
        <3>1. wpc[w] \in Idle /\ \E pc \in Idle : wpc' = [wpc EXCEPT ![w] = pc]
            BY <2>6 DEF Wait, WaitTimeout, SpuriousWake, Retire, Asleep, Idle
        <3>2. \A v \in Workers : wpc'[v] = wpc[v] \/ (wpc[v] \in Idle /\ wpc'[v] \in Idle)
            BY <1>0, <3>1
        <3>3. UNCHANGED <<gstate, saved, wcur, liveCount, mpc>>
            BY <2>6 DEF Wait, WaitTimeout, SpuriousWake, Retire, gvars, schedVars
        <3> QED BY <3>2, <3>3, HeldQuiet
    <2> QED BY <1>1, <2>1, <2>2, <2>3, <2>4, <2>5, <2>6 DEF WorkerStep
<1>2. ASSUME NEW w \in Workers, GreenStep(w) \/ Spawn(w)
      PROVE  Held'
    <2>0. wpc[w] = "run" => wcur[w] \in GT /\ wcur[w] \in Thread /\ gstate[wcur[w]] = "running"
        BY DEF LockInv, RunnersInv, Thread
    <2>1. CASE Yield(w) \/ Sleep(w)
        <3>1. \/ \E x \in Signalled :
                    wpc' = [WakeWorker(x) EXCEPT ![w] = "switch"] /\ mpc' = WakeMain(x)
              \/ wpc' = [wpc EXCEPT ![w] = "switch"] /\ mpc' = mpc
            BY <2>1 DEF Yield, Sleep
        <3>2. /\ wpc'[w] = "switch"
              /\ \A v \in Workers \ {w} :
                    wpc'[v] = wpc[v] \/ (wpc[v] \in Idle /\ wpc'[v] \in Idle)
              /\ mpc' \in {"join", "done"} => mpc' = mpc
            BY <1>0, <3>1, SignalFacts, WakeFacts DEF Idle
        <3>3. /\ wpc[w] = "run" /\ UNCHANGED <<saved, wcur, liveCount>>
              /\ \E s \in {"runnable", "wait_timer", "wait_mutex", "dead"} :
                    gstate' = [gstate EXCEPT ![wcur[w]] = s]
            BY <2>1 DEF Yield, Sleep, schedVars
        <3> QED BY <3>2, <3>3, HeldLeave
    <2>2. CASE Exit(w) \/ \E m \in Mutex : LockPark(w, m)
        <3>1. wpc[w] = "run" /\ wpc' = [wpc EXCEPT ![w] = "switch"]
            BY <2>2 DEF Exit, LockPark
        <3>2. wpc'[w] = "switch" /\ \A v \in Workers \ {w} : wpc'[v] = wpc[v]
            BY <1>0, <3>1
        <3>3. /\ UNCHANGED <<saved, wcur, liveCount, mpc>>
              /\ \E s \in {"runnable", "wait_timer", "wait_mutex", "dead"} :
                    gstate' = [gstate EXCEPT ![wcur[w]] = s]
            BY <2>2 DEF Exit, LockPark, schedVars
        <3> QED BY <3>1, <3>2, <3>3, HeldLeave
    <2>3. CASE Spawn(w)
        <3>1. mpc \notin {"join", "done"}
            BY <2>0, <2>3, NotJoining DEF Spawn
        <3> QED BY <2>0, <2>3, <3>1, HeldSpawn DEF Spawn
    <2>4. CASE \E m \in Mutex : LockFree(w, m)
        BY <2>4, HeldQuiet DEF LockFree, Acquire, gvars, schedVars
    <2>5. CASE \E m \in Mutex : Unlock(w, m)
        BY <2>0, <2>5, HeldRelease DEF Unlock
    <2>6. CASE Alloc(w)
        BY <2>6, HeldQuiet DEF Alloc, AllocG, gvars
    <2> QED BY <1>2, <2>1, <2>2, <2>3, <2>4, <2>5, <2>6 DEF GreenStep
<1>3. CASE UserMainStep \/ MainSpawn
    <2>1. CASE MainSpawn
        BY <2>1, HeldSpawn DEF MainSpawn, Thread
    <2>2. CASE BeginShutdown
        <3>1. \A v \in Workers : wpc'[v] = wpc[v] \/ (wpc[v] \in Idle /\ wpc'[v] \in Idle)
            BY <2>2, BroadcastFacts DEF BeginShutdown, DrainLoop, Idle
        <3>2. mpc' \in {"join", "done"} => liveCount = 0
            BY <2>2, <1>0 DEF BeginShutdown, DrainLoop, TypeOK
        <3>3. UNCHANGED <<gstate, saved, wcur, liveCount>>
            BY <2>2 DEF BeginShutdown, gvars
        <3> QED BY <3>1, <3>2, <3>3, HeldQuiet
    <2>3. CASE \E m \in Mutex : MainLockFree(m)
        BY <2>3, HeldQuiet DEF MainLockFree, Acquire, gvars, schedVars
    <2>4. CASE \E m \in Mutex : MainLockHeld(m)
        BY <2>4, HeldQuiet DEF MainLockHeld, gvars, schedVars
    <2>5. CASE \E m \in Mutex : MainUnlock(m)
        BY <2>5, HeldRelease DEF MainUnlock, Thread
    <2>6. CASE MainAlloc
        BY <2>6, HeldQuiet DEF MainAlloc, AllocG, gvars
    <2> QED BY <1>3, <2>1, <2>2, <2>3, <2>4, <2>5, <2>6 DEF UserMainStep
<1>4. CASE ShutdownStep
    <2>1. \A v \in Workers : wpc'[v] = wpc[v] \/ (wpc[v] \in Idle /\ wpc'[v] \in Idle)
        BY <1>4, BroadcastFacts DEF ShutdownStep, DrainTimeout, DrainDeadlock,
           DrainAgain, DrainLoop, Join, Idle
    <2>2. mpc' \in {"join", "done"} => mpc \in {"join", "done"} \/ liveCount = 0
        BY <1>0, <1>4 DEF ShutdownStep, DrainTimeout, DrainDeadlock, DrainAgain,
           DrainLoop, Join, TypeOK
    <2>3. UNCHANGED <<gstate, saved, wcur, liveCount>>
        BY <1>4 DEF ShutdownStep, DrainTimeout, DrainDeadlock, DrainAgain, Join,
           gvars, schedVars
    <2> QED BY <2>1, <2>2, <2>3, HeldQuiet
<1>5. CASE Tick
    BY <1>5, HeldQuiet DEF Tick, gvars, schedVars
<1>6. CASE Terminated \/ UNCHANGED vars
    BY <1>6, HeldQuiet DEF Terminated, vars
<1> QED BY <1>1, <1>2, <1>3, <1>4, <1>5, <1>6 DEF Next

(* Every step keeps green threads that are not overtaken in one hand.      *)
LEMMA HeldInvStep ==
    ASSUME LockInv, HeldInv, [Next]_vars
    PROVE  HeldInv'
BY OvertakenStep, HeldStep DEF HeldInv

-----------------------------------------------------------------------------
(* The edits of all_g_head, and the causes of the undefined outcomes.      *)

(* Steps that begin and end no edit.                                       *)
LEMMA EditsQuiet ==
    ASSUME LockInv, EditsInv, UNCHANGED <<allG, overlapped, fresh>>,
           \A g \in GT : gstate'[g] = gstate[g]
                         \/ (gstate[g] \notin {"unborn", "freed"}
                             /\ gstate'[g] \notin {"unborn", "freed"}),
           \A v \in Workers : wpc'[v] = "free" <=> wpc[v] = "free"
    PROVE  EditsInv'
<1>1. Listed' = Listed /\ Inserting' = Inserting /\ Removing' = Removing
    BY DEF Listed, Inserting, Removing
<1> QED BY <1>1 DEF EditsInv

(* __nc_g_alloc loads the head: the one edit under way, or an overlap.     *)
LEMMA EditsAlloc ==
    ASSUME LockInv, EditsInv, NEW t \in Thread, AllocG(t)
    PROVE  EditsInv' /\ (overlapped => overlapped')
<1>1. /\ overlapped' = (overlapped \/ Inserting # {} \/ Removing # {})
      /\ allG' = IF overlapped' THEN {} ELSE allG
      /\ UNCHANGED <<gstate, wpc>>
      /\ \E g \in GT : fresh' = [fresh EXCEPT ![t] = g]
      /\ fresh \in [Thread -> GT \cup {NoG}]
    BY DEF AllocG, BeginEdit, gvars, LockInv, TypeOK
<1>2. Listed' = Listed /\ Removing' = Removing
    BY <1>1 DEF Listed, Removing
<1>3. ASSUME ~overlapped'
      PROVE  /\ \A u \in Inserting' : u = t
             /\ Removing' = {} /\ allG' = allG /\ ~overlapped
    BY <1>1, <1>2, <1>3 DEF Inserting
<1> QED BY <1>1, <1>2, <1>3 DEF EditsInv

(* __nc_spawn stores the head: the edit ends.                              *)
LEMMA EditsSpawn ==
    ASSUME LockInv, EditsInv, NEW t \in Thread, SpawnG(t)
    PROVE  EditsInv' /\ overlapped' = overlapped
<1> DEFINE g == fresh[t]
<1>1. /\ overlapped' = overlapped
      /\ allG' = IF overlapped THEN {} ELSE allG \cup {g}
      /\ fresh' = [fresh EXCEPT ![t] = NoG] /\ fresh[t] # NoG
      /\ gstate' = [gstate EXCEPT ![g] = "runnable"]
      /\ \E x \in Signalled : wpc' = WakeWorker(x) /\ mpc' = WakeMain(x)
    BY DEF SpawnG, EndEdit
<1>2. /\ TypeOK /\ fresh \in [Thread -> GT \cup {NoG}] /\ gstate \in [GT -> GState]
      /\ g \in GT
    BY <1>1 DEF LockInv, TypeOK
<1>3. \A v \in Workers : wpc'[v] = "free" <=> wpc[v] = "free"
    BY <1>1, <1>2, SignalFacts
<1>4. Removing' = Removing
    BY <1>3 DEF Removing
<1>5. Listed' = Listed \cup {g}
    BY <1>1, <1>2 DEF Listed
<1>6. Inserting' = Inserting \ {t} /\ t \in Inserting
    BY <1>1, <1>2 DEF Inserting
<1> QED BY <1>1, <1>4, <1>5, <1>6 DEF EditsInv

(* g_finish_dead is followed by the removal.                               *)
LEMMA EditsFinish ==
    ASSUME LockInv, EditsInv, NEW w \in Workers, FinishDead(w)
    PROVE  EditsInv' /\ (overlapped => overlapped')
<1>1. UNCHANGED <<gstate, fresh>> /\ wpc[w] = "finish"
    BY DEF FinishDead, gvars
<1>2. CASE UNCHANGED <<wpc, allG, overlapped>>
    BY <1>1, <1>2, EditsQuiet
<1>3. CASE BeginEdit /\ ~UNCHANGED <<wpc, allG, overlapped>>
    <2>1. /\ overlapped' = (overlapped \/ Inserting # {} \/ Removing # {})
          /\ allG' = IF overlapped' THEN {} ELSE allG
        BY <1>3 DEF BeginEdit
    <2>2. \/ wpc' = [WakeAllWorkers EXCEPT ![w] = "free"]
          \/ wpc' = [wpc EXCEPT ![w] = "free"]
        BY <1>3 DEF FinishDead
    <2>3. \A v \in Workers \ {w} : wpc'[v] = "free" => wpc[v] = "free"
        BY <2>2, BroadcastFacts, WakeFacts DEF LockInv, TypeOK
    <2>4. Listed' = Listed /\ Inserting' = Inserting
        BY <1>1 DEF Listed, Inserting
    <2>5. ASSUME ~overlapped'
          PROVE  /\ \A v \in Removing' : v = w
                 /\ Inserting' = {} /\ allG' = allG /\ ~overlapped
        BY <2>1, <2>3, <2>4, <2>5 DEF Removing
    <2> QED BY <2>1, <2>4, <2>5 DEF EditsInv
<1> QED BY <1>2, <1>3 DEF FinishDead

(* __nc_g_free has unlinked its green thread; as long as no two edits have *)
(* overlapped, the list it walked held nobody who was freed before.        *)
LEMMA EditsFree ==
    ASSUME LockInv, EditsInv, NEW w \in Workers, FreeG(w)
    PROVE  /\ EditsInv' /\ overlapped' = overlapped
           /\ ~overlapped => \A x \in allG : gstate[x] # "freed"
<1> DEFINE g == wcur[w]
<1>1. /\ overlapped' = overlapped /\ UNCHANGED fresh
      /\ allG' = IF overlapped THEN {} ELSE allG \ {g}
      /\ gstate' = [gstate EXCEPT ![g] = "freed"]
      /\ wpc[w] = "free" /\ wpc' = [wpc EXCEPT ![w] = "loop"]
      /\ wpc \in [Workers -> WorkerPC] /\ gstate \in [GT -> GState]
    BY DEF FreeG, EndEdit, LockInv, TypeOK
<1>2. g \in GT
    BY <1>1 DEF LockInv, RunnersInv
<1>3. Listed' = Listed \ {g} /\ Inserting' = Inserting
    BY <1>1, <1>2 DEF Listed, Inserting
<1>4. Removing' = Removing \ {w} /\ w \in Removing
    BY <1>1 DEF Removing
<1>5. ~overlapped => \A x \in allG : gstate[x] # "freed"
    BY DEF EditsInv, Listed
<1> QED BY <1>1, <1>3, <1>4, <1>5 DEF EditsInv

(* __nc_mutex_unlock wakes a green thread that is listed already.          *)
LEMMA EditsRelease ==
    ASSUME LockInv, EditsInv, NEW t \in Thread, NEW m \in Mutex, Release(t, m)
    PROVE  EditsInv' /\ (overlapped => overlapped')
<1>1. UNCHANGED <<allG, overlapped, fresh>>
    BY DEF Release, schedVars
<1>2. CASE waitq[m] = <<>>
    BY <1>1, <1>2, EditsQuiet DEF Release
<1>3. CASE waitq[m] # <<>>
    <2>1. TypeOK /\ gstate \in [GT -> GState] /\ waitq \in [Mutex -> Seq(GT)]
        BY DEF LockInv, TypeOK
    <2>2. Head(waitq[m]) \in GT /\ gstate[Head(waitq[m])] = "wait_mutex"
        BY <1>3, <2>1, TailFacts DEF LockInv, ListsInv, Elements
    <2>3. /\ gstate' = [gstate EXCEPT ![Head(waitq[m])] = "runnable"]
          /\ \E x \in Signalled : wpc' = WakeWorker(x) /\ mpc' = WakeMain(x)
        BY <1>3 DEF Release
    <2>4. \A g \in GT : gstate'[g] = gstate[g]
                        \/ (gstate[g] \notin {"unborn", "freed"}
                            /\ gstate'[g] \notin {"unborn", "freed"})
        BY <2>1, <2>2, <2>3
    <2>5. \A v \in Workers : wpc'[v] = "free" <=> wpc[v] = "free"
        BY <2>1, <2>3, SignalFacts
    <2> QED BY <1>1, <2>4, <2>5, EditsQuiet
<1> QED BY <1>2, <1>3

(* Every step keeps what the list of all green threads holds.              *)
LEMMA EditsStep ==
    ASSUME LockInv, EditsInv, [Next]_vars
    PROVE  EditsInv' /\ (overlapped => overlapped')
<1>0. /\ TypeOK /\ wpc \in [Workers -> WorkerPC] /\ gstate \in [GT -> GState]
      /\ wcur \in [Workers -> GT \cup {NoG}]
    BY DEF LockInv, TypeOK
<1>1. ASSUME NEW w \in Workers, WorkerStep(w) \/ SpuriousWake(w)
      PROVE  EditsInv' /\ (overlapped => overlapped')
    <2>1. CASE Dispatch(w)
        <3>1. \A g \in GT : gstate'[g] = gstate[g]
                            \/ (gstate[g] \notin {"unborn", "freed"}
                                /\ gstate'[g] \notin {"unborn", "freed"})
            BY <2>1, ReadyFacts DEF Dispatch
        <3>2. UNCHANGED <<allG, overlapped, fresh>>
            BY <2>1 DEF Dispatch
        <3>3. \A v \in Workers : wpc'[v] = "free" <=> wpc[v] = "free"
            BY <1>0, <2>1 DEF Dispatch
        <3> QED BY <3>1, <3>2, <3>3, EditsQuiet
    <2>2. CASE FinishDead(w)
        BY <2>2, EditsFinish
    <2>3. CASE FreeG(w)
        BY <2>3, EditsFree
    <2>4. CASE \/ Wait(w) \/ WaitTimeout(w) \/ SpuriousWake(w) \/ Retire(w)
               \/ SwitchOut(w) \/ AfterSwitch(w)
        <3>1. wpc[w] # "free" /\ \E pc \in WorkerPC \ {"free"} : wpc' = [wpc EXCEPT ![w] = pc]
            BY <2>4 DEF Wait, WaitTimeout, SpuriousWake, Retire, SwitchOut, AfterSwitch,
               Asleep, WorkerPC
        <3>2. \A v \in Workers : wpc'[v] = "free" <=> wpc[v] = "free"
            BY <1>0, <3>1
        <3>3. UNCHANGED <<gstate, allG, overlapped, fresh>>
            BY <2>4 DEF Wait, WaitTimeout, SpuriousWake, Retire, SwitchOut, AfterSwitch,
               gvars, schedVars, raceVars
        <3> QED BY <3>2, <3>3, EditsQuiet
    <2> QED BY <1>1, <2>1, <2>2, <2>3, <2>4 DEF WorkerStep
<1>2. ASSUME NEW w \in Workers, GreenStep(w) \/ Spawn(w)
      PROVE  EditsInv' /\ (overlapped => overlapped')
    <2>0. wpc[w] = "run" => wcur[w] \in GT /\ wcur[w] \in Thread /\ gstate[wcur[w]] = "running"
        BY DEF LockInv, RunnersInv, Thread
    <2>1. CASE Yield(w) \/ Sleep(w) \/ Exit(w) \/ \E m \in Mutex : LockPark(w, m)
        <3>1. \/ \E x \in Signalled :
                    wpc' = [WakeWorker(x) EXCEPT ![w] = "switch"] /\ mpc' = WakeMain(x)
              \/ wpc' = [wpc EXCEPT ![w] = "switch"] /\ mpc' = mpc
            BY <2>1 DEF Yield, Sleep, Exit, LockPark
        <3>2. \A v \in Workers : wpc'[v] = "free" <=> wpc[v] = "free"
            <4>1. wpc[w] = "run"
                BY <2>1 DEF Yield, Sleep, Exit, LockPark
            <4> QED BY <1>0, <3>1, <4>1, SignalFacts, WakeFacts
        <3>3. /\ wpc[w] = "run" /\ UNCHANGED <<allG, overlapped, fresh>>
              /\ \E s \in {"runnable", "wait_timer", "wait_mutex", "dead"} :
                    gstate' = [gstate EXCEPT ![wcur[w]] = s]
            BY <2>1 DEF Yield, Sleep, Exit, LockPark, schedVars
        <3>4. \A g \in GT : gstate'[g] = gstate[g]
                            \/ (gstate[g] \notin {"unborn", "freed"}
                                /\ gstate'[g] \notin {"unborn", "freed"})
            BY <1>0, <2>0, <3>3
        <3> QED BY <3>2, <3>3, <3>4, EditsQuiet
    <2>2. CASE Spawn(w)
        BY <2>0, <2>2, EditsSpawn DEF Spawn
    <2>3. CASE Alloc(w)
        BY <2>0, <2>3, EditsAlloc DEF Alloc
    <2>4. CASE \E m \in Mutex : LockFree(w, m)
        BY <2>4, EditsQuiet DEF LockFree, Acquire, gvars, schedVars
    <2>5. CASE \E m \in Mutex : Unlock(w, m)
        BY <2>0, <2>5, EditsRelease DEF Unlock
    <2> QED BY <1>2, <2>1, <2>2, <2>3, <2>4, <2>5 DEF GreenStep
<1>3. CASE UserMainStep \/ MainSpawn
    <2>1. CASE MainSpawn
        BY <2>1, EditsSpawn DEF MainSpawn, Thread
    <2>2. CASE MainAlloc
        BY <2>2, EditsAlloc DEF MainAlloc, Thread
    <2>3. CASE BeginShutdown
        <3>1. \A v \in Workers : wpc'[v] = "free" <=> wpc[v] = "free"
            BY <2>3, BroadcastFacts DEF BeginShutdown, DrainLoop
        <3>2. UNCHANGED <<gstate, allG, overlapped, fresh>>
            BY <2>3 DEF BeginShutdown, gvars, raceVars
        <3> QED BY <3>1, <3>2, EditsQuiet
    <2>4. CASE \E m \in Mutex : MainLockFree(m)
        BY <2>4, EditsQuiet DEF MainLockFree, Acquire, gvars, schedVars
    <2>5. CASE \E m \in Mutex : MainLockHeld(m)
        BY <2>5, EditsQuiet DEF MainLockHeld, gvars, schedVars
    <2>6. CASE \E m \in Mutex : MainUnlock(m)
        BY <2>6, EditsRelease DEF MainUnlock, Thread
    <2> QED BY <1>3, <2>1, <2>2, <2>3, <2>4, <2>5, <2>6 DEF UserMainStep
<1>4. CASE ShutdownStep
    <2>1. \A v \in Workers : wpc'[v] = "free" <=> wpc[v] = "free"
        BY <1>4, BroadcastFacts DEF ShutdownStep, DrainTimeout, DrainDeadlock,
           DrainAgain, DrainLoop, Join
    <2>2. UNCHANGED <<gstate, allG, overlapped, fresh>>
        BY <1>4 DEF ShutdownStep, DrainTimeout, DrainDeadlock, DrainAgain, Join,
           gvars, schedVars
    <2> QED BY <2>1, <2>2, EditsQuiet
<1>5. CASE Tick \/ Terminated \/ UNCHANGED vars
    BY <1>5, EditsQuiet DEF Tick, Terminated, vars, gvars, schedVars
<1> QED BY <1>1, <1>2, <1>3, <1>4, <1>5 DEF Next

(* A step that finds an unsaved context, a freed green thread or a count   *)
(* of 0 comes after a dispatch that overtook, or after an overlap.         *)
LEMMA RacesStep ==
    ASSUME LockInv, EditsInv, HeldInv, RacesExplained, [Next]_vars
    PROVE  RacesExplained'
<1>0. (overtaken => overtaken') /\ (overlapped => overlapped')
    BY OvertakenStep, EditsStep
<1>1. ASSUME fatal' \in {fatal, "deadlock", "null_worker"}
      PROVE  RacesExplained'
    BY <1>0, <1>1 DEF RacesExplained, Undefined
<1>2. ASSUME NEW w \in Workers, Dispatch(w)
      PROVE  RacesExplained'
    <2>1. CASE overtaken'
        BY <2>1 DEF RacesExplained
    <2>2. CASE ~overtaken'
        <3>1. Held /\ Leaving(Head(Ready)) = {}
            BY <1>0, <1>2, <2>2 DEF HeldInv, Dispatch
        <3>2. fatal' = fatal
            BY <1>2, <3>1, HeldDispatch
        <3> QED BY <1>1, <3>2
    <2> QED BY <2>1, <2>2
<1>3. ASSUME NEW w \in Workers, AfterSwitch(w) \/ FinishDead(w) \/ FreeG(w)
      PROVE  RacesExplained'
    <2>1. CASE overtaken \/ overlapped
        BY <1>0, <2>1 DEF RacesExplained
    <2>2. CASE ~overtaken /\ ~overlapped
        <3>1. Held
            BY <2>2 DEF HeldInv
        <3>2. wpc[w] \in {"after", "free"} => gstate[wcur[w]] # "freed"
            BY <3>1 DEF Held, Holding
        <3>3. CASE AfterSwitch(w)
            <4>1. fatal' = fatal
                BY <3>2, <3>3 DEF AfterSwitch
            <4> QED BY <1>1, <4>1
        <3>4. CASE FinishDead(w)
            <4>1. fatal' = fatal
                BY <3>1, <3>4, HeldFinish
            <4> QED BY <1>1, <4>1
        <3>5. CASE FreeG(w)
            <4>1. \A x \in allG : gstate[x] # "freed"
                BY <2>2, <3>5, EditsFree
            <4>2. fatal' = fatal
                BY <2>2, <3>2, <3>5, <4>1 DEF FreeG
            <4> QED BY <1>1, <4>2
        <3> QED BY <1>3, <3>3, <3>4, <3>5
    <2> QED BY <2>1, <2>2
<1>4. ASSUME NEW w \in Workers, WorkerStep(w) \/ SpuriousWake(w) \/ GreenStep(w) \/ Spawn(w),
             ~Dispatch(w), ~(AfterSwitch(w) \/ FinishDead(w) \/ FreeG(w))
      PROVE  fatal' = fatal
    BY <1>4 DEF WorkerStep, Wait, WaitTimeout, SpuriousWake, Retire, SwitchOut, GreenStep,
       Yield, Sleep, Alloc, AllocG, Exit, LockFree, Acquire, LockPark, Unlock, Release,
       Spawn, SpawnG
<1>5. ASSUME UserMainStep \/ MainSpawn \/ ShutdownStep \/ Tick \/ Terminated \/ UNCHANGED vars
      PROVE  fatal' \in {fatal, "deadlock", "null_worker"}
    BY <1>5 DEF UserMainStep, MainAlloc, AllocG, BeginShutdown, MainLockFree, Acquire,
       MainLockHeld, MainUnlock, Release, MainSpawn, SpawnG, ShutdownStep, DrainTimeout,
       DrainDeadlock, DrainAgain, Join, Tick, Terminated, vars
<1> QED BY <1>1, <1>2, <1>3, <1>4, <1>5 DEF Next

(* At first nothing has raced.                                             *)
LEMMA RaceInit == Init => RaceInv
<1> SUFFICES ASSUME Init PROVE RaceInv
    OBVIOUS
<1>1. EditsInv
    BY DEF Init, EditsInv, Listed, Inserting, Removing
<1>2. HeldInv
    BY HeldInit DEF Init, HeldInv
<1>3. RacesExplained
    BY DEF Init, RacesExplained, Undefined
<1> QED BY <1>1, <1>2, <1>3 DEF RaceInv

(* Every step keeps what explains the races.                               *)
LEMMA RaceStep ==
    ASSUME LockInv, RaceInv, [Next]_vars
    PROVE  RaceInv'
<1>1. EditsInv /\ HeldInv /\ RacesExplained
    BY DEF RaceInv
<1>2. EditsInv'
    BY <1>1, EditsStep
<1>3. HeldInv'
    BY <1>1, HeldInvStep
<1>4. RacesExplained'
    BY <1>1, RacesStep
<1> QED BY <1>2, <1>3, <1>4 DEF RaceInv

-----------------------------------------------------------------------------
(* The inductive invariant of the whole pool.                              *)
THEOREM PoolInductive == Spec => []IInv
<1>1. Init => IInv
    BY InitInv, PlacesInit, AwakeInit, RaceInit DEF IInv
<1>2. IInv /\ [Next]_vars => IInv'
    BY NextInv, PlacesStep, AwakeStep, RaceStep DEF IInv
<1> QED BY <1>1, <1>2, PTL DEF Spec

(* A live green thread is in exactly one place, with any number of them    *)
(* and of workers: no list ties two together, none is forgotten.           *)
THEOREM InOnePlace == Spec => []OnePlace
<1>1. IInv => OnePlace
    BY PlacesExact DEF IInv
<1> QED BY <1>1, PoolInductive, PTL

(* While something is runnable, a worker or the draining main is awake.    *)
THEOREM WakeupsAreKept == Spec => []NoLostWakeup
<1>1. IInv => NoLostWakeup
    BY DEF IInv, AwakeInv
<1> QED BY <1>1, PoolInductive, PTL

(* The workers never all return with something left to run or to wake.     *)
THEOREM WorkIsNotStranded == Spec => []NoStrandedWork
<1>1. IInv => NoStrandedWork
    BY DEF IInv, AwakeInv
<1> QED BY <1>1, PoolInductive, PTL

(* With any number of workers: until a green thread is dispatched that its *)
(* last worker has not left, sched.live_g_count is at least the number of  *)
(* live green threads, and shutdown does not join while one lives.         *)
THEOREM CountCovers == Spec => []LiveCountCovers
<1>1. IInv => LiveCountCovers
    <2> SUFFICES ASSUME IInv, ~overtaken
                 PROVE  /\ Cardinality(Live) <= liveCount
                        /\ mpc \in {"join", "done"} => Live = {}
        BY DEF LiveCountCovers
    <2>1. /\ IsFiniteSet(Counted) /\ liveCount = Cardinality(Counted)
          /\ mpc \in {"join", "done"} => Live = {}
        BY DEF IInv, RaceInv, HeldInv, Held
    <2>2. Live \in SUBSET Counted
        BY DEF Counted
    <2> QED BY <2>1, <2>2, FS_Subset
<1> QED BY <1>1, PoolInductive, PTL

(* With any number of workers, the scheduler's undefined outcomes have two *)
(* causes: a green thread dispatched while its last worker still leaves    *)
(* it, and two unlocked edits of all_g_head that overlap.                  *)
THEOREM RacesAreExplained == Spec => []RacesExplained
<1>1. IInv => RacesExplained
    BY DEF IInv, RaceInv
<1> QED BY <1>1, PoolInductive, PTL

(* One worker never overtakes itself: with it, the list of all green       *)
(* threads is the one cause left, because main inserts in it while the     *)
(* worker removes.                                                         *)
THEOREM OneWorkerRacesOnTheList ==
    ASSUME NumWorkers = 1
    PROVE  Spec => [](~overlapped => ~Undefined)
<1>1. IInv => (~overlapped => ~Undefined)
    BY DEF IInv, RaceInv, HeldInv, RacesExplained
<1> QED BY <1>1, PoolInductive, PTL

=============================================================================
