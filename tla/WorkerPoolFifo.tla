--------------------------- MODULE WorkerPoolFifo ---------------------------
(***************************************************************************)
(* The mutex of the worker pool implements the first-come-first-served     *)
(* lock of FifoLock: a lock call joins the queue at its end, an unlock     *)
(* takes the owner off its head, and nothing else the scheduler does       *)
(* changes who owns or who waits.                                          *)
(***************************************************************************)
EXTENDS WorkerPoolProofs

(* The owner of a mutex is the one thread that owns it.                    *)
LEMMA OwnerIs ==
    ASSUME HandoffExact, NEW m \in Mutex, NEW t \in Thread, Owns(t, m)
    PROVE  locked[m] # 0 /\ Owner(m) = t
<1>1. locked[m] # 0 /\ \A u \in Thread : Owns(u, m) => u = t
    BY DEF HandoffExact
<1> QED BY <1>1 DEF Owner

(* The owner of a mutex is the one thread that owns it, after a step too.  *)
LEMMA OwnerIsNext ==
    ASSUME HandoffExact', NEW m \in Mutex, NEW t \in Thread, Owns(t, m)'
    PROVE  locked'[m] # 0 /\ Owner(m)' = t
<1>1. locked'[m] # 0 /\ \A u \in Thread : Owns(u, m)' => u = t
    BY DEF HandoffExact
<1> QED BY <1>1 DEF Owner

(* A step that changes neither the wait queue nor who owns it leaves the   *)
(* abstract queue of a mutex alone.                                        *)
LEMMA QueueKept ==
    ASSUME HandoffExact, HandoffExact', NEW m \in Mutex,
           UNCHANGED <<locked[m], waitq[m]>>,
           \A t \in Thread : Owns(t, m)' <=> Owns(t, m)
    PROVE  LockQueue'[m] = LockQueue[m]
<1>1. CASE locked[m] = 0
    BY <1>1 DEF LockQueue
<1>2. CASE locked[m] # 0
    <2>1. PICK t \in Thread : Owns(t, m)
        BY <1>2 DEF HandoffExact
    <2>2. Owner(m) = t /\ Owner(m)' = t
        BY <2>1, OwnerIs, OwnerIsNext
    <2> QED BY <1>2, <2>2 DEF LockQueue
<1> QED BY <1>1, <1>2

(* Nor does a step that changes neither the mutexes nor their owners       *)
(* change any queue.                                                       *)
LEMMA QueuesKept ==
    ASSUME HandoffExact, HandoffExact', UNCHANGED <<locked, waitq>>,
           \A t \in Thread, m \in Mutex : Owns(t, m)' <=> Owns(t, m)
    PROVE  UNCHANGED LockQueue
<1>1. \A m \in Mutex : LockQueue'[m] = LockQueue[m]
    BY QueueKept
<1> QED BY <1>1 DEF LockQueue

(* The abstract queue of a mutex is its owner and its waiters.             *)
LEMMA QueueIs ==
    ASSUME HandoffExact, NEW m \in Mutex, NEW t \in Thread, Owns(t, m)
    PROVE  LockQueue[m] = <<t>> \o waitq[m]
BY OwnerIs DEF LockQueue

(* The queue of an owned mutex after a step.                               *)
LEMMA QueueIsNext ==
    ASSUME HandoffExact', NEW m \in Mutex, NEW t \in Thread, Owns(t, m)'
    PROVE  LockQueue'[m] = <<t>> \o waitq'[m]
BY OwnerIsNext DEF LockQueue

(* Joining the end of the waiters is joining the end of the whole queue,   *)
(* and the waiters are what is left when the owner goes.                   *)
LEMMA HeadAndRest ==
    ASSUME NEW S, NEW s \in Seq(S), NEW o \in S, NEW e \in S
    PROVE  /\ <<o>> \o Append(s, e) = Append(<<o>> \o s, e)
           /\ Tail(<<o>> \o s) = s
           /\ <<o>> \o s # <<>>
           /\ <<e>> \o <<>> = Append(<<>>, e)
           /\ s # <<>> => <<Head(s)>> \o Tail(s) = s
<1>1. <<o>> \in Seq(S) /\ Len(<<o>>) = 1 /\ <<o>>[1] = o
    OBVIOUS
<1>2. /\ <<o>> \o s \in Seq(S) /\ Len(<<o>> \o s) = 1 + Len(s)
      /\ (<<o>> \o s)[1] = o
      /\ \A i \in 2..(Len(s) + 1) : (<<o>> \o s)[i] = s[i - 1]
    BY <1>1, ConcatProperties, SeqFacts
<1>3. /\ Append(s, e) \in Seq(S) /\ Len(Append(s, e)) = Len(s) + 1
      /\ \A i \in 1..Len(s) : Append(s, e)[i] = s[i]
      /\ Append(s, e)[Len(s) + 1] = e
    BY AppendProperties
<1>4. <<o>> \o Append(s, e) = Append(<<o>> \o s, e)
    <2>1. /\ <<o>> \o Append(s, e) \in Seq(S)
          /\ Len(<<o>> \o Append(s, e)) = 2 + Len(s)
          /\ (<<o>> \o Append(s, e))[1] = o
          /\ \A i \in 2..(Len(s) + 2) : (<<o>> \o Append(s, e))[i] = Append(s, e)[i - 1]
        BY <1>1, <1>3, ConcatProperties, SeqFacts
    <2>2. /\ Append(<<o>> \o s, e) \in Seq(S)
          /\ Len(Append(<<o>> \o s, e)) = Len(s) + 2
          /\ \A i \in 1..(Len(s) + 1) : Append(<<o>> \o s, e)[i] = (<<o>> \o s)[i]
          /\ Append(<<o>> \o s, e)[Len(s) + 2] = e
        BY <1>2, AppendProperties, SeqFacts
    <2>3. Len(s) \in Nat
        BY SeqFacts
    <2>4. \A i \in 1..(Len(s) + 2) :
            (<<o>> \o Append(s, e))[i] = Append(<<o>> \o s, e)[i]
        BY <1>2, <1>3, <2>1, <2>2, <2>3
    <2> QED BY <2>1, <2>2, <2>4, SeqEqual
<1>5. Tail(<<o>> \o s) = s /\ <<o>> \o s # <<>>
    <2>1. <<o>> \o s # <<>>
        BY <1>2, SeqFacts
    <2>2. /\ Tail(<<o>> \o s) \in Seq(S) /\ Len(Tail(<<o>> \o s)) = Len(s)
          /\ \A i \in 1..Len(s) : Tail(<<o>> \o s)[i] = (<<o>> \o s)[i + 1]
        BY <1>2, <2>1, HeadTailProperties, SeqFacts
    <2>3. \A i \in 1..Len(s) : Tail(<<o>> \o s)[i] = s[i]
        BY <1>2, <2>2, SeqFacts
    <2> QED BY <2>1, <2>2, <2>3, SeqEqual
<1>6. <<e>> \o <<>> = Append(<<>>, e)
    OBVIOUS
<1>7. s # <<>> => <<Head(s)>> \o Tail(s) = s
    BY HeadTailProperties, ConcatProperties, SeqEqual, SeqFacts
<1> QED BY <1>4, <1>5, <1>6, <1>7

-----------------------------------------------------------------------------
(* Every mutex is free when the process starts.                            *)
LEMMA InitFifo == Init => FifoMutex!Init
<1> SUFFICES ASSUME Init PROVE LockQueue = [m \in Mutex |-> <<>>]
    BY DEF FifoMutex!Init
<1>1. \A m \in Mutex : locked[m] = 0
    BY DEF Init
<1> QED BY <1>1 DEF LockQueue

(* __nc_mutex_lock on a free mutex is a request to an empty queue.         *)
LEMMA FifoAcquire ==
    ASSUME LockInv, LockInv', NEW t \in Thread, NEW m \in Mutex, Acquire(t, m)
    PROVE  FifoMutex!Request(t, m)
<1>1. HandoffExact /\ HandoffExact'
    BY DEF LockInv
<1>2. /\ locked[m] = 0
      /\ locked' = [locked EXCEPT ![m] = 1]
      /\ locked \in [Mutex -> {0, 1}]
      /\ UNCHANGED waitq
      /\ \A u \in Thread, k \in Mutex : Owns(u, k)' <=> Owns(u, k) \/ (u = t /\ k = m)
    BY AcquireOwns
<1>3. \A k \in Mutex \ {m} : LockQueue'[k] = LockQueue[k]
    BY <1>1, <1>2, QueueKept
<1>4. LockQueue[m] = <<>> /\ LockQueue'[m] = <<t>>
    <2>1. waitq'[m] = <<>>
        BY <1>1, <1>2 DEF HandoffExact
    <2>2. LockQueue'[m] = <<t>> \o waitq'[m]
        BY <1>1, <1>2, QueueIsNext
    <2> QED BY <1>2, <2>1, <2>2 DEF LockQueue
<1>5. LockQueue'[m] = Append(LockQueue[m], t)
    BY <1>4
<1>6. LockQueue' = [LockQueue EXCEPT ![m] = Append(@, t)]
    BY <1>3, <1>5 DEF LockQueue
<1> QED BY <1>6 DEF FifoMutex!Request

(* nc_mutex_park_and_unlock is a request to the end of the queue.          *)
LEMMA FifoPark ==
    ASSUME LockInv, LockInv', NEW w \in Workers, NEW m \in Mutex, LockPark(w, m)
    PROVE  wcur[w] \in Thread /\ FifoMutex!Request(wcur[w], m)
<1> DEFINE g == wcur[w]
<1>1. HandoffExact /\ HandoffExact'
    BY DEF LockInv
<1>2. g \in GT /\ g \in Thread
    BY DEF LockInv, RunnersInv, LockPark, Thread
<1>3. /\ waitq' = [waitq EXCEPT ![m] = Append(@, g)]
      /\ waitq \in [Mutex -> Seq(GT)]
      /\ locked[m] = 1
      /\ UNCHANGED locked
    BY DEF LockPark, LockInv, TypeOK
<1> HIDE DEF g
<1>4. \A t \in Thread, k \in Mutex : Owns(t, k)' <=> Owns(t, k)
    BY ParkOwns
<1>5. \A k \in Mutex \ {m} : LockQueue'[k] = LockQueue[k]
    BY <1>1, <1>3, <1>4, QueueKept
<1>6. PICK o \in Thread : Owns(o, m)
    BY <1>1, <1>3 DEF HandoffExact
<1>7. LockQueue[m] = <<o>> \o waitq[m] /\ LockQueue'[m] = <<o>> \o waitq'[m]
    BY <1>1, <1>4, <1>6, QueueIs, QueueIsNext
<1>8. LockQueue'[m] = Append(LockQueue[m], g)
    <2>1. waitq'[m] = Append(waitq[m], g) /\ waitq[m] \in Seq(Thread)
        BY <1>3, SeqMonotonic DEF Thread
    <2> QED BY <1>2, <1>6, <1>7, <2>1, HeadAndRest
<1>9. LockQueue' = [LockQueue EXCEPT ![m] = Append(@, g)]
    BY <1>5, <1>8 DEF LockQueue
<1> QED BY <1>2, <1>9 DEF FifoMutex!Request, g

(* __nc_mutex_unlock takes the owner off the head of the queue: the thread *)
(* behind it, the first waiter, is the next owner.                         *)
LEMMA FifoRelease ==
    ASSUME LockInv, LockInv', NEW t \in Thread, NEW m \in Mutex, Release(t, m),
           parkedOn[t] = NoG
    PROVE  FifoMutex!HandOver(m)
<1>1. HandoffExact /\ HandoffExact'
    BY DEF LockInv
<1>2. /\ Owns(t, m) /\ locked[m] = 1
      /\ \A u \in Thread, k \in Mutex \ {m} : Owns(u, k)' <=> Owns(u, k)
      /\ waitq[m] # <<>> => \A u \in Thread : Owns(u, m)' <=> u = Head(waitq[m])
    BY ReleaseOwns
<1>3. /\ locked \in [Mutex -> {0, 1}]
      /\ waitq \in [Mutex -> Seq(GT)] /\ waitq[m] \in Seq(Thread)
    BY SeqMonotonic DEF LockInv, TypeOK, Thread
<1>4. \A k \in Mutex \ {m} : UNCHANGED <<locked[k], waitq[k]>>
    BY <1>3 DEF Release
<1>5. \A k \in Mutex \ {m} : LockQueue'[k] = LockQueue[k]
    BY <1>1, <1>2, <1>4, QueueKept
<1>6. LockQueue[m] = <<t>> \o waitq[m]
    BY <1>1, <1>2, QueueIs
<1>7. LockQueue[m] # <<>> /\ Tail(LockQueue[m]) = waitq[m]
    BY <1>3, <1>6, HeadAndRest
<1>8. LockQueue'[m] = waitq[m]
    <2>1. CASE waitq[m] = <<>>
        BY <1>3, <2>1 DEF Release, LockQueue
    <2>2. CASE waitq[m] # <<>>
        <3>1. Head(waitq[m]) \in Thread
            BY <1>3, <2>2, TailFacts
        <3>2. LockQueue'[m] = <<Head(waitq[m])>> \o waitq'[m]
            BY <1>1, <1>2, <2>2, <3>1, QueueIsNext
        <3>3. waitq'[m] = Tail(waitq[m])
            BY <1>3, <2>2 DEF Release
        <3> QED BY <1>3, <2>2, <3>1, <3>2, <3>3, HeadAndRest
    <2> QED BY <2>1, <2>2
<1>9. LockQueue' = [LockQueue EXCEPT ![m] = Tail(@)]
    BY <1>5, <1>7, <1>8 DEF LockQueue
<1> QED BY <1>7, <1>9 DEF FifoMutex!HandOver

(* Every other step leaves the owners and the waiters alone.               *)
LEMMA FifoQuiet ==
    ASSUME LockInv, LockInv',
           UNCHANGED <<locked, waitq, holds, parkedOn>>
    PROVE  UNCHANGED LockQueue
<1>1. \A t \in Thread, m \in Mutex : Owns(t, m)' <=> Owns(t, m)
    BY DEF Owns
<1> QED BY <1>1, QueuesKept DEF LockInv

(* Every step of the pool is one of the abstract lock, or a stutter.       *)
LEMMA FifoStep ==
    ASSUME LockInv, LockInv', [Next]_vars
    PROVE  [FifoMutex!Next]_LockQueue
<1>1. CASE \E w \in Workers : Dispatch(w)
    <2>1. UNCHANGED <<locked, waitq>>
        BY <1>1 DEF Dispatch
    <2>2. \A t \in Thread, m \in Mutex : Owns(t, m)' <=> Owns(t, m)
        BY <1>1, DispatchOwns
    <2> QED BY <2>1, <2>2, QueuesKept DEF LockInv
<1>2. CASE \E w \in Workers : \E m \in Mutex : LockFree(w, m)
    <2> SUFFICES ASSUME NEW w \in Workers, NEW m \in Mutex, LockFree(w, m)
                 PROVE  \E t \in Thread : FifoMutex!Request(t, m)
        BY <1>2 DEF FifoMutex!Next
    <2>1. wcur[w] \in Thread
        BY DEF LockFree, LockInv, RunnersInv, Thread
    <2> QED BY <2>1, FifoAcquire DEF LockFree
<1>3. CASE \E w \in Workers : \E m \in Mutex : LockPark(w, m)
    BY <1>3, FifoPark DEF FifoMutex!Next
<1>4. CASE \E w \in Workers : \E m \in Mutex : Unlock(w, m)
    <2> SUFFICES ASSUME NEW w \in Workers, NEW m \in Mutex, Unlock(w, m)
                 PROVE  FifoMutex!HandOver(m)
        BY <1>4 DEF FifoMutex!Next
    <2>1. wcur[w] \in GT /\ gstate[wcur[w]] = "running"
        BY DEF Unlock, LockInv, RunnersInv
    <2>2. parkedOn[wcur[w]] = NoG
        BY <2>1, OffLists
    <2> QED BY <2>1, <2>2, FifoRelease DEF Unlock, Thread
<1>5. CASE \E m \in Mutex : MainLockFree(m)
    BY <1>5, FifoAcquire DEF MainLockFree, Thread, FifoMutex!Next
<1>6. CASE \E m \in Mutex : MainUnlock(m)
    BY <1>6, FifoRelease DEF MainUnlock, Thread, LockInv, ParkedInv, FifoMutex!Next
<1>7. CASE UNCHANGED <<locked, waitq, holds, parkedOn>>
    BY <1>7, FifoQuiet
<1>8. ASSUME NEW w \in Workers,
             WorkerStep(w) \/ SpuriousWake(w) \/ GreenStep(w) \/ Spawn(w)
      PROVE  \/ UNCHANGED <<locked, waitq, holds, parkedOn>>
             \/ Dispatch(w)
             \/ \E m \in Mutex : LockFree(w, m) \/ LockPark(w, m) \/ Unlock(w, m)
    <2>1. CASE WorkerStep(w) \/ SpuriousWake(w)
        BY <2>1 DEF WorkerStep, Wait, WaitTimeout, SpuriousWake, Retire, SwitchOut,
           AfterSwitch, FinishDead, FreeG, mutexVars
    <2>2. CASE Yield(w) \/ Sleep(w) \/ Alloc(w) \/ Spawn(w) \/ Exit(w)
        BY <2>2 DEF Yield, Sleep, Alloc, AllocG, Spawn, SpawnG, Exit, mutexVars
    <2> QED BY <1>8, <2>1, <2>2 DEF GreenStep
<1>9. ASSUME \/ UserMainStep \/ MainSpawn \/ ShutdownStep
             \/ Tick \/ Terminated \/ UNCHANGED vars
      PROVE  \/ UNCHANGED <<locked, waitq, holds, parkedOn>>
             \/ \E m \in Mutex : MainLockFree(m) \/ MainUnlock(m)
    <2>1. CASE UserMainStep \/ MainSpawn
        BY <2>1 DEF UserMainStep, MainAlloc, AllocG, MainSpawn, SpawnG, BeginShutdown,
           MainLockHeld, mutexVars
    <2>2. CASE ShutdownStep \/ Tick
        BY <2>2 DEF ShutdownStep, DrainTimeout, DrainDeadlock, DrainAgain, Join, Tick,
           mutexVars
    <2>3. CASE Terminated \/ UNCHANGED vars
        BY <2>3 DEF Terminated, vars
    <2> QED BY <1>9, <2>1, <2>2, <2>3
<1> QED BY <1>1, <1>2, <1>3, <1>4, <1>5, <1>6, <1>7, <1>8, <1>9 DEF Next

(* Parking, handing off, dispatching and resuming on any worker together   *)
(* implement the first-come-first-served lock, whatever the number of      *)
(* threads and mutexes and however they interleave.                        *)
THEOREM FifoLockImplemented == Spec => ImplementsFifoLock
<1>1. Init => FifoMutex!Init
    BY InitFifo
<1>2. LockInv /\ LockInv' /\ [Next]_vars => [FifoMutex!Next]_LockQueue
    BY FifoStep
<1> QED BY <1>1, <1>2, LockInductive, PTL DEF Spec, ImplementsFifoLock, FifoMutex!Spec

=============================================================================
