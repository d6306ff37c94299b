-------------------------- MODULE WorkerPoolProofs --------------------------
(***************************************************************************)
(* LockInv is an inductive invariant of the worker pool, for every number  *)
(* of workers, green threads and mutexes: it gives the type invariant,     *)
(* mutual exclusion and the exactness of the mutex handoff.                *)
(***************************************************************************)
EXTENDS WorkerPool, WellFoundedInduction, SequenceTheorems, TLAPS

-----------------------------------------------------------------------------
(* What the list operators of SchedCore return, for lists of any length.   *)

(* The walk along a list stops at a first place where it may stop.         *)
LEMMA FirstStop ==
    ASSUME NEW n \in Nat, NEW Stop \in SUBSET (0..n), n \in Stop
    PROVE  \E k \in Stop : \A i \in 0..(k - 1) : i \notin Stop
<1> DEFINE R == OpToRel(<, Nat)
<1>1. \A j, k \in Nat : j < k => <<j, k>> \in R
    BY DEF OpToRel
<1>2. IsWellFoundedOn(R, Nat)
    BY NatLessThanWellFounded
<1> HIDE DEF R
<1>3. PICK k \in Stop : \A j \in Stop : <<j, k>> \notin R
    <2>1. Stop \subseteq Nat /\ Stop # {}
        OBVIOUS
    <2>2. \E k \in Stop : \A j \in Stop : ~(<<j, k>> \in R)
        BY <1>2, <2>1, WFMin
    <2> QED BY <2>2
<1>4. \A i \in 0..(k - 1) : i \in Nat /\ k \in Nat /\ i < k
    OBVIOUS
<1> QED BY <1>1, <1>3, <1>4

TimerList(G) == Seq([g : G, left : Nat])

(* The length, indices and entries of a timer list.                        *)
LEMMA TimerListFacts ==
    ASSUME NEW G, NEW ts \in TimerList(G)
    PROVE  /\ Len(ts) \in Nat
           /\ DOMAIN ts = 1..Len(ts)
           /\ \A i \in 1..Len(ts) : ts[i] \in [g : G, left : Nat]
BY LenProperties, ElementOfSeq DEF TimerList

(* timer_next_deadline_ms returns a number of milliseconds.                *)
LEMMA NextDeadlineType ==
    ASSUME NEW G, NEW ts \in TimerList(G)
    PROVE  NextDeadline(ts) \in Nat
<1>1. ts = <<>> \/ Head(ts) \in [g : G, left : Nat]
    BY HeadTailProperties DEF TimerList
<1> QED BY <1>1 DEF NextDeadline

(* wake_expired_timers pops a prefix of the list, all of it expired.       *)
LEMMA ExpiredCountFacts ==
    ASSUME NEW G, NEW ts \in TimerList(G)
    PROVE  /\ ExpiredCount(ts) \in 0..Len(ts)
           /\ \A i \in 1..ExpiredCount(ts) : ts[i].left = 0
<1> DEFINE Stop == {n \in 0..Len(ts) : n < Len(ts) => ts[n + 1].left # 0}
<1>1. Len(ts) \in Nat /\ Len(ts) \in Stop
    BY TimerListFacts
<1>2. PICK k \in Stop : \A i \in 0..(k - 1) : i \notin Stop
    BY <1>1, FirstStop
<1>3. \A i \in 1..k : ts[i].left = 0
    <2> SUFFICES ASSUME NEW i \in 1..k PROVE ts[i].left = 0
        OBVIOUS
    <2>1. i - 1 \in 0..(k - 1) /\ i - 1 \in 0..Len(ts) /\ (i - 1) + 1 = i
        BY <1>1
    <2> QED BY <2>1, <1>2
<1> QED BY <1>2, <1>3, <1>1 DEF ExpiredCount

(* The woken green threads are the first ones of the timer list, in order, *)
(* and the timers kept are the rest of it.                                 *)
LEMMA ExpiredSplit ==
    ASSUME NEW G, NEW ts \in TimerList(G)
    PROVE  LET n == ExpiredCount(ts) IN
           /\ n \in 0..Len(ts)
           /\ Expired(ts) \in Seq(G)
           /\ Len(Expired(ts)) = n
           /\ \A i \in 1..n : Expired(ts)[i] = ts[i].g
           /\ Unexpired(ts) \in TimerList(G)
           /\ Len(Unexpired(ts)) = Len(ts) - n
           /\ \A i \in 1..(Len(ts) - n) : Unexpired(ts)[i] = ts[i + n]
<1> DEFINE n == ExpiredCount(ts)
<1>1. n \in 0..Len(ts) /\ Len(ts) \in Nat
    BY ExpiredCountFacts, TimerListFacts
<1>2. \A i \in 1..Len(ts) : ts[i] \in [g : G, left : Nat]
    BY TimerListFacts
<1>3. Expired(ts) \in Seq(G) /\ Len(Expired(ts)) = n
      /\ \A i \in 1..n : Expired(ts)[i] = ts[i].g
    BY <1>1, <1>2 DEF Expired
<1>4. \A i \in (n + 1)..Len(ts) : ts[i] \in [g : G, left : Nat]
    BY <1>1, <1>2
<1> HIDE DEF n
<1>5. /\ SubSeq(ts, n + 1, Len(ts)) \in Seq([g : G, left : Nat])
      /\ Len(SubSeq(ts, n + 1, Len(ts))) = Len(ts) - n
      /\ \A i \in 1..(Len(ts) - n) : SubSeq(ts, n + 1, Len(ts))[i] = ts[i + n]
    BY <1>1, <1>4, SubSeqProperties
<1> QED BY <1>1, <1>3, <1>5 DEF Unexpired, n, TimerList

(* No timer is lost: it is woken or it stays in the list.                  *)
LEMMA ExpiredOrKept ==
    ASSUME NEW G, NEW ts \in TimerList(G), NEW i \in DOMAIN ts
    PROVE  \/ ts[i].g \in Elements(Expired(ts))
           \/ \E j \in DOMAIN Unexpired(ts) : Unexpired(ts)[j] = ts[i]
<1> DEFINE n == ExpiredCount(ts)
           E == Expired(ts)
           U == Unexpired(ts)
<1>1. /\ n \in 0..Len(ts) /\ Len(ts) \in Nat /\ DOMAIN ts = 1..Len(ts)
      /\ E \in Seq(G) /\ Len(E) = n /\ \A k \in 1..n : E[k] = ts[k].g
      /\ U \in TimerList(G) /\ Len(U) = Len(ts) - n
      /\ \A k \in 1..(Len(ts) - n) : U[k] = ts[k + n]
    BY ExpiredSplit, TimerListFacts
<1>2. DOMAIN E = 1..Len(E) /\ DOMAIN U = 1..Len(U)
    BY <1>1, TimerListFacts, LenProperties
<1> HIDE DEF n, E, U
<1>3. CASE i <= n
    BY <1>1, <1>2, <1>3 DEF Elements, E
<1>4. CASE ~(i <= n)
    <2>1. i - n \in 1..(Len(ts) - n) /\ (i - n) + n = i
        BY <1>1, <1>4
    <2>2. i - n \in DOMAIN U /\ U[i - n] = ts[i]
        BY <1>1, <1>2, <2>1
    <2> QED BY <2>2 DEF U
<1> QED BY <1>3, <1>4

(* The clock changes neither the order nor the length of the list.         *)
LEMMA ElapseFacts ==
    ASSUME NEW G, NEW ts \in TimerList(G), NEW d \in Nat
    PROVE  /\ Elapse(ts, d) \in TimerList(G)
           /\ Len(Elapse(ts, d)) = Len(ts)
           /\ \A i \in 1..Len(ts) : Elapse(ts, d)[i].g = ts[i].g
<1>1. /\ \A i \in 1..Len(ts) : ts[i] \in [g : G, left : Nat]
      /\ DOMAIN ts = 1..Len(ts) /\ Len(ts) \in Nat
    BY TimerListFacts
<1>2. \A i \in 1..Len(ts) :
        /\ Elapse(ts, d)[i] \in [g : G, left : Nat]
        /\ Elapse(ts, d)[i].g = ts[i].g
    BY <1>1 DEF Elapse
<1>3. DOMAIN Elapse(ts, d) = 1..Len(ts) /\ Len(ts) \in Nat
      /\ Elapse(ts, d) = [i \in 1..Len(ts) |-> Elapse(ts, d)[i]]
    BY <1>1 DEF Elapse
<1>4. Elapse(ts, d) \in Seq([g : G, left : Nat])
    BY <1>2, <1>3
<1>5. Len(Elapse(ts, d)) = Len(ts)
    BY <1>3, <1>4
<1> QED BY <1>2, <1>4, <1>5 DEF TimerList

(* __nc_sleep puts the new timer in one place and keeps the others.        *)
LEMMA InsertTimerFacts ==
    ASSUME NEW G, NEW ts \in TimerList(G), NEW g \in G, NEW left \in Nat
    PROVE  LET n == InsertPos(ts, left)
               r == InsertTimer(ts, g, left)
           IN  /\ n \in 0..Len(ts)
               /\ r \in TimerList(G)
               /\ Len(r) = Len(ts) + 1
               /\ \A i \in 1..n : r[i] = ts[i]
               /\ r[n + 1] = [g |-> g, left |-> left]
               /\ \A i \in (n + 2)..(Len(ts) + 1) : r[i] = ts[i - 1]
<1> DEFINE n == InsertPos(ts, left)
           r == InsertTimer(ts, g, left)
           Stop == {k \in 0..Len(ts) : k < Len(ts) => ts[k + 1].left > left}
<1>0. \A i \in 1..Len(ts) : ts[i] \in [g : G, left : Nat]
    BY TimerListFacts
<1>1. Len(ts) \in Nat /\ Len(ts) \in Stop
    BY TimerListFacts
<1>2. PICK k \in Stop : \A i \in 0..(k - 1) : i \notin Stop
    BY <1>1, FirstStop
<1>3. \A i \in 1..k : ts[i].left <= left
    <2> SUFFICES ASSUME NEW i \in 1..k PROVE ts[i].left <= left
        OBVIOUS
    <2>1. i - 1 \in 0..(k - 1) /\ i - 1 \in 0..Len(ts) /\ (i - 1) + 1 = i
          /\ i \in 1..Len(ts)
        BY <1>1
    <2>2. ts[i].left \in Nat
        BY <2>1, <1>0
    <2>3. ~(ts[i].left > left)
        BY <2>1, <1>2
    <2> QED BY <2>2, <2>3
<1>4. n \in 0..Len(ts)
    BY <1>2, <1>3, <1>1 DEF InsertPos
<1> HIDE DEF n
<1>5. r = [i \in 1..Len(ts) + 1 |->
            IF i <= n THEN ts[i]
            ELSE IF i = n + 1 THEN [g |-> g, left |-> left]
            ELSE ts[i - 1]]
    BY DEF InsertTimer, n
<1> HIDE DEF r
<1>6. \A i \in 1..(Len(ts) + 1) : r[i] \in [g : G, left : Nat]
    BY <1>0, <1>1, <1>4, <1>5
<1>7. r \in Seq([g : G, left : Nat]) /\ Len(r) = Len(ts) + 1
    BY <1>1, <1>5, <1>6
<1>8. /\ \A i \in 1..n : r[i] = ts[i]
      /\ r[n + 1] = [g |-> g, left |-> left]
      /\ \A i \in (n + 2)..(Len(ts) + 1) : r[i] = ts[i - 1]
    BY <1>1, <1>4, <1>5
<1> QED BY <1>4, <1>7, <1>8 DEF n, r, TimerList

(* The list then holds the sleeper and everyone it held before.            *)
LEMMA InsertTimerKeeps ==
    ASSUME NEW G, NEW ts \in TimerList(G), NEW g \in G, NEW left \in Nat,
           NEW r, r = InsertTimer(ts, g, left)
    PROVE  /\ \E j \in DOMAIN r : r[j].g = g
           /\ \A i \in DOMAIN ts : \E j \in DOMAIN r : r[j] = ts[i]
<1> DEFINE n == InsertPos(ts, left)
<1>1. /\ n \in 0..Len(ts) /\ Len(ts) \in Nat /\ DOMAIN ts = 1..Len(ts)
      /\ r \in TimerList(G) /\ Len(r) = Len(ts) + 1
      /\ \A i \in 1..n : r[i] = ts[i]
      /\ r[n + 1] = [g |-> g, left |-> left]
      /\ \A i \in (n + 2)..(Len(ts) + 1) : r[i] = ts[i - 1]
    BY InsertTimerFacts, TimerListFacts
<1>2. DOMAIN r = 1..(Len(ts) + 1)
    BY <1>1, TimerListFacts
<1> HIDE DEF n
<1>3. n + 1 \in DOMAIN r /\ r[n + 1].g = g
    BY <1>1, <1>2
<1>4. ASSUME NEW i \in DOMAIN ts
      PROVE  \E j \in DOMAIN r : r[j] = ts[i]
    <2>1. CASE i <= n
        BY <1>1, <1>2, <2>1
    <2>2. CASE ~(i <= n)
        <3>1. i + 1 \in (n + 2)..(Len(ts) + 1) /\ (i + 1) - 1 = i
            BY <1>1, <2>2
        <3> QED BY <1>1, <1>2, <3>1
    <2> QED BY <2>1, <2>2
<1> QED BY <1>3, <1>4

-----------------------------------------------------------------------------
(* The length, indices and elements of a sequence.                         *)
LEMMA SeqFacts ==
    ASSUME NEW S, NEW s \in Seq(S)
    PROVE  Len(s) \in Nat /\ DOMAIN s = 1..Len(s)
           /\ \A i \in DOMAIN s : s[i] \in S
BY LenProperties, ElementOfSeq

(* A list without duplicates stays so when a new element joins its end ... *)
LEMMA AppendFacts ==
    ASSUME NEW S, NEW s \in Seq(S), NEW e \in S
    PROVE  /\ Append(s, e) \in Seq(S)
           /\ Elements(Append(s, e)) = Elements(s) \cup {e}
           /\ \A i \in DOMAIN Append(s, e) :
                \/ i \in DOMAIN s /\ Append(s, e)[i] = s[i]
                \/ i = Len(s) + 1 /\ Append(s, e)[i] = e
           /\ Injective(s) /\ e \notin Elements(s) => Injective(Append(s, e))
<1>1. /\ Append(s, e) \in Seq(S)
      /\ Len(s) \in Nat /\ DOMAIN s = 1..Len(s)
      /\ DOMAIN Append(s, e) = 1..(Len(s) + 1)
      /\ \A i \in 1..Len(s) : Append(s, e)[i] = s[i]
      /\ Append(s, e)[Len(s) + 1] = e
    BY SeqFacts
<1>2. \A i \in DOMAIN Append(s, e) :
        \/ i \in DOMAIN s /\ Append(s, e)[i] = s[i]
        \/ i = Len(s) + 1 /\ Append(s, e)[i] = e
    BY <1>1
<1>3. Elements(Append(s, e)) = Elements(s) \cup {e}
    BY <1>1 DEF Elements
<1>4. Injective(s) /\ e \notin Elements(s) => Injective(Append(s, e))
    BY <1>1, <1>2 DEF Injective, Elements
<1> QED BY <1>1, <1>2, <1>3, <1>4

(* ... and when its first element leaves.                                  *)
LEMMA TailFacts ==
    ASSUME NEW S, NEW s \in Seq(S), s # <<>>
    PROVE  /\ Head(s) \in S /\ Tail(s) \in Seq(S)
           /\ Head(s) \in Elements(s)
           /\ 1 \in DOMAIN s /\ s[1] = Head(s)
           /\ \A i \in DOMAIN Tail(s) : i + 1 \in DOMAIN s /\ Tail(s)[i] = s[i + 1]
           /\ Elements(s) = Elements(Tail(s)) \cup {Head(s)}
           /\ Injective(s) => Injective(Tail(s)) /\ Head(s) \notin Elements(Tail(s))
<1>1. /\ Head(s) \in S /\ Tail(s) \in Seq(S)
      /\ Len(s) \in Nat /\ DOMAIN s = 1..Len(s) /\ Len(s) > 0
      /\ Head(s) = s[1]
      /\ DOMAIN Tail(s) = 1..(Len(s) - 1)
      /\ \A i \in 1..(Len(s) - 1) : Tail(s)[i] = s[i + 1]
    BY HeadTailProperties, EmptySeq, LenProperties, SeqFacts
<1>2. \A i \in DOMAIN Tail(s) : i + 1 \in DOMAIN s /\ Tail(s)[i] = s[i + 1]
    BY <1>1
<1>3. 1 \in DOMAIN s /\ Head(s) \in Elements(s)
    BY <1>1 DEF Elements
<1>4. Elements(s) = Elements(Tail(s)) \cup {Head(s)}
    <2>1. \A i \in DOMAIN s : i = 1 \/ (i - 1 \in DOMAIN Tail(s) /\ Tail(s)[i - 1] = s[i])
        BY <1>1
    <2> QED BY <1>1, <1>2, <2>1 DEF Elements
<1>5. Injective(s) => Injective(Tail(s)) /\ Head(s) \notin Elements(Tail(s))
    BY <1>1, <1>2, <1>3 DEF Injective, Elements
<1> QED BY <1>1, <1>2, <1>3, <1>4, <1>5

(* Two lists without duplicates and without a common element.              *)
LEMMA ConcatFacts ==
    ASSUME NEW S, NEW s \in Seq(S), NEW t \in Seq(S)
    PROVE  /\ s \o t \in Seq(S)
           /\ Elements(s \o t) = Elements(s) \cup Elements(t)
           /\ Injective(s) /\ Injective(t) /\ Elements(s) \cap Elements(t) = {}
                => Injective(s \o t)
<1> DEFINE c == s \o t
<1>1. /\ c \in Seq(S)
      /\ Len(s) \in Nat /\ DOMAIN s = 1..Len(s)
      /\ Len(t) \in Nat /\ DOMAIN t = 1..Len(t)
      /\ DOMAIN c = 1..(Len(s) + Len(t))
      /\ \A i \in 1..(Len(s) + Len(t)) :
            c[i] = IF i <= Len(s) THEN s[i] ELSE t[i - Len(s)]
    BY ConcatProperties, SeqFacts
<1> HIDE DEF c
<1>2. \A i \in DOMAIN c :
        \/ i \in DOMAIN s /\ c[i] = s[i]
        \/ i - Len(s) \in DOMAIN t /\ c[i] = t[i - Len(s)]
    BY <1>1
<1>3. /\ \A i \in DOMAIN s : i \in DOMAIN c /\ c[i] = s[i]
      /\ \A i \in DOMAIN t : i + Len(s) \in DOMAIN c /\ c[i + Len(s)] = t[i]
    BY <1>1
<1>4. Elements(c) = Elements(s) \cup Elements(t)
    <2>1. \A x \in Elements(c) : x \in Elements(s) \cup Elements(t)
        BY <1>2 DEF Elements
    <2>2. \A x \in Elements(s) : x \in Elements(c)
        BY <1>3 DEF Elements
    <2>3. \A x \in Elements(t) : x \in Elements(c)
        BY <1>3 DEF Elements
    <2> QED BY <2>1, <2>2, <2>3
<1>5. ASSUME Injective(s), Injective(t), Elements(s) \cap Elements(t) = {}
      PROVE  Injective(c)
    <2>0. \A i \in DOMAIN s, j \in DOMAIN t : s[i] # t[j]
        BY <1>5 DEF Elements
    <2> SUFFICES ASSUME NEW i \in DOMAIN c, NEW j \in DOMAIN c, c[i] = c[j]
                 PROVE  i = j
        BY DEF Injective
    <2>1. CASE i \in DOMAIN s /\ c[i] = s[i]
        <3>1. j \in DOMAIN s /\ c[j] = s[j]
            BY <1>2, <2>0, <2>1
        <3> QED BY <1>5, <2>1, <3>1 DEF Injective
    <2>2. CASE i - Len(s) \in DOMAIN t /\ c[i] = t[i - Len(s)]
        <3>1. j - Len(s) \in DOMAIN t /\ c[j] = t[j - Len(s)]
            BY <1>2, <2>0, <2>2
        <3>2. i - Len(s) = j - Len(s)
            BY <1>5, <2>2, <3>1 DEF Injective
        <3> QED BY <1>1, <3>2
    <2> QED BY <1>2, <2>1, <2>2
<1> QED BY <1>1, <1>4, <1>5 DEF c

-----------------------------------------------------------------------------

(* __nc_scheduler_init leaves every list empty and every worker at the     *)
(* head of its loop.                                                       *)
LEMMA InitInv == Init => LockInv
<1> SUFFICES ASSUME Init PROVE LockInv
    OBVIOUS
<1> USE DEF Init
<1>1. TypeOK
    <2>1. overlapped \in BOOLEAN /\ overtaken \in BOOLEAN /\ accepting \in BOOLEAN
        BY Zenon
    <2> QED BY <2>1, PoolAssumption DEF TypeOK, GState, WorkerPC, MainPC, Fatal, Workers,
               Thread
<1>2. RunnersInv
    BY DEF RunnersInv
<1>3. ListsInv
    BY DEF ListsInv, Injective
<1>4. ParkedInv
    BY DEF ParkedInv, Thread
<1>5. HandoffExact
    BY PoolAssumption DEF HandoffExact, Owns
<1>6. FreshInv
    BY DEF FreshInv
<1> QED BY <1>1, <1>2, <1>3, <1>4, <1>5, <1>6 DEF LockInv

(* Waking a waiter only ever sends a worker back to the head of its loop.  *)
LEMMA WakeFacts ==
    ASSUME TypeOK, NEW x
    PROVE  /\ WakeWorker(x) \in [Workers -> WorkerPC]
           /\ \A v \in Workers : WakeWorker(x)[v] \in {wpc[v], "loop"}
           /\ WakeAllWorkers \in [Workers -> WorkerPC]
           /\ \A v \in Workers : WakeAllWorkers[v] \in {wpc[v], "loop"}
           /\ WakeMain(x) \in MainPC
           /\ WakeAllMain \in MainPC
           /\ \A w \in Workers : wpc[w] \notin {"wait", "timedwait"} /\ x \in Signalled
                => WakeWorker(x)[w] = wpc[w]
<1>1. wpc \in [Workers -> WorkerPC] /\ mpc \in MainPC
    BY DEF TypeOK
<1>2. /\ WakeWorker(x) \in [Workers -> WorkerPC]
      /\ \A v \in Workers : WakeWorker(x)[v] \in {wpc[v], "loop"}
    BY <1>1 DEF WakeWorker, WorkerPC
<1>3. /\ WakeAllWorkers \in [Workers -> WorkerPC]
      /\ \A v \in Workers : WakeAllWorkers[v] \in {wpc[v], "loop"}
    BY <1>1 DEF WakeAllWorkers, WorkerPC
<1>4. WakeMain(x) \in MainPC /\ WakeAllMain \in MainPC
    BY <1>1 DEF WakeMain, WakeAllMain, MainPC
<1>5. ASSUME NEW w \in Workers, wpc[w] \notin {"wait", "timedwait"}, x \in Signalled
      PROVE  WakeWorker(x)[w] = wpc[w]
    <2>1. w # x
        BY <1>5, PoolAssumption DEF Signalled, Waiters, Asleep, Workers
    <2> QED BY <2>1, <1>5 DEF WakeWorker
<1> QED BY <1>2, <1>3, <1>4, <1>5

(* What the mutexes and the lists are made of.                             *)
lockData == <<gstate, runq, locked, waitq, holds, parkedOn, fresh>>

(* A green thread stays unborn as long as it is being inserted.            *)
LEMMA FreshStable ==
    ASSUME LockInv, UNCHANGED fresh,
           \A x \in GT : gstate[x] = "unborn" => gstate'[x] = "unborn"
    PROVE  FreshInv'
BY DEF LockInv, TypeOK, FreshInv

(* Steps that move no green thread leave the lists alone.                  *)
LEMMA LockDataStable ==
    ASSUME LockInv, UNCHANGED lockData,
           timers' = timers \/ \E d \in Nat : timers' = Elapse(timers, d)
    PROVE  ListsInv' /\ ParkedInv' /\ FreshInv' /\ HandoffExact'
<1>1. ParkedInv' /\ FreshInv'
    BY FreshStable DEF LockInv, ParkedInv, lockData
<1>2. HandoffExact'
    BY DEF LockInv, HandoffExact, Owns, lockData
<1>3. /\ DOMAIN timers' = DOMAIN timers
      /\ \A i \in DOMAIN timers : timers'[i].g = timers[i].g
    <2>1. timers \in TimerList(GT)
        BY DEF LockInv, TypeOK, TimerList
    <2>2. ASSUME NEW d \in Nat, timers' = Elapse(timers, d)
          PROVE  /\ DOMAIN timers' = DOMAIN timers
                 /\ \A i \in DOMAIN timers : timers'[i].g = timers[i].g
        <3>1. timers' \in TimerList(GT) /\ Len(timers') = Len(timers)
              /\ \A i \in 1..Len(timers) : timers'[i].g = timers[i].g
            BY <2>1, <2>2, ElapseFacts
        <3>2. DOMAIN timers = 1..Len(timers) /\ DOMAIN timers' = 1..Len(timers')
            BY <2>1, <3>1, TimerListFacts
        <3> QED BY <3>1, <3>2
    <2> QED BY <2>2
<1>4. ListsInv'
    BY <1>3 DEF LockInv, ListsInv, lockData
<1> QED BY <1>1, <1>2, <1>4

(* Waits, clock ticks, context switches, the end of a worker and the whole *)
(* of shutdown leave the locks and the lists alone.                        *)
LEMMA RunnersStable ==
    ASSUME LockInv, UNCHANGED gstate,
           \A v \in Workers : wcur'[v] = wcur[v] \/ wpc'[v] = "loop",
           \A v \in Workers : wpc'[v] \in {wpc[v], "loop", "wait", "timedwait", "exited"}
                              \/ (wpc[v] = "switch" /\ wpc'[v] = "after")
                              \/ (wpc[v] = "finish" /\ wpc'[v] = "free")
                              \/ (wpc[v] = "after" /\ gstate[wcur[v]] = "dead"
                                                   /\ wpc'[v] = "finish")
    PROVE  RunnersInv'
BY DEF LockInv, RunnersInv

LEMMA StepWait ==
    ASSUME LockInv, NEW w \in Workers, Wait(w)
    PROVE  LockInv'
<1> USE DEF Wait
<1>1. PICK d \in 0..1 :
        /\ timers' = Elapse(timers, d)
        /\ mleft' = IF d = 1 THEN Countdown(mleft) ELSE mleft
        /\ drainLeft' = IF d = 1 THEN Countdown(drainLeft) ELSE drainLeft
        /\ wleft' = [v \in Workers |->
                        IF v = w THEN NextDeadline(Elapse(timers, d))
                        ELSE IF d = 1 THEN Countdown(wleft[v]) ELSE wleft[v]]
        /\ wpc' = [wpc EXCEPT ![w] = IF NextDeadline(Elapse(timers, d)) > 0
                                     THEN "timedwait" ELSE "wait"]
    OBVIOUS
<1>2. timers' \in TimerList(GT)
    <2>1. timers \in TimerList(GT)
        BY DEF LockInv, TypeOK, TimerList
    <2> QED BY <1>1, <2>1, ElapseFacts
<1>3. NextDeadline(timers') \in Nat
    BY <1>2, NextDeadlineType
<1>4. TypeOK'
    BY <1>1, <1>2, <1>3 DEF LockInv, TypeOK, TimerList, WorkerPC, Countdown,
       gvars, mutexVars, schedVars
<1>5. RunnersInv'
    BY <1>1, RunnersStable DEF gvars, LockInv, TypeOK
<1>6. ListsInv' /\ ParkedInv' /\ FreshInv' /\ HandoffExact'
    BY <1>1, LockDataStable DEF lockData, gvars, mutexVars, schedVars
<1> QED BY <1>4, <1>5, <1>6 DEF LockInv

LEMMA StepTick ==
    ASSUME LockInv, Tick
    PROVE  LockInv'
<1> USE DEF Tick
<1>1. timers' \in TimerList(GT)
    <2>1. timers \in TimerList(GT)
        BY DEF LockInv, TypeOK, TimerList
    <2> QED BY <2>1, ElapseFacts
<1>2. TypeOK'
    BY <1>1 DEF LockInv, TypeOK, TimerList, Countdown, gvars, mutexVars, schedVars
<1>3. RunnersInv'
    BY RunnersStable DEF gvars, LockInv, TypeOK
<1>4. ListsInv' /\ ParkedInv' /\ FreshInv' /\ HandoffExact'
    BY LockDataStable DEF lockData, gvars, mutexVars, schedVars
<1> QED BY <1>2, <1>3, <1>4 DEF LockInv

(* An edit of all_g_head begins: from then on its list is known or empty.  *)
LEMMA EditType ==
    ASSUME TypeOK, BeginEdit
    PROVE  allG' \subseteq GT /\ overlapped' \in BOOLEAN
<1>1. overlapped' = (overlapped \/ Inserting # {} \/ Removing # {})
    BY DEF BeginEdit
<1>2. overlapped' \in BOOLEAN
    BY <1>1, Zenon
<1>3. allG' = {} \/ allG' = allG
    BY DEF BeginEdit
<1> QED BY <1>2, <1>3 DEF TypeOK

LEMMA StepWorkerQuiet ==
    ASSUME LockInv, NEW w \in Workers,
           \/ WaitTimeout(w) \/ SpuriousWake(w) \/ Retire(w)
           \/ SwitchOut(w) \/ AfterSwitch(w) \/ FinishDead(w)
    PROVE  LockInv'
<1>1. TypeOK /\ wcur \in [Workers -> GT \cup {NoG}] /\ wpc \in [Workers -> WorkerPC]
    BY DEF LockInv, TypeOK
<1>2. /\ UNCHANGED lockData /\ UNCHANGED timers
      /\ UNCHANGED wcur \/ AfterSwitch(w)
    BY DEF WaitTimeout, SpuriousWake, Retire, SwitchOut, AfterSwitch, FinishDead,
       lockData, gvars, qvars, mutexVars, schedVars, raceVars
<1>3. RunnersInv'
    <2>1. CASE WaitTimeout(w) \/ SpuriousWake(w) \/ Retire(w) \/ SwitchOut(w)
        BY <1>1, <1>2, <2>1, RunnersStable
           DEF WaitTimeout, SpuriousWake, Retire, SwitchOut, lockData
    <2>2. CASE AfterSwitch(w)
        BY <1>1, <1>2, <2>2, RunnersStable DEF AfterSwitch, lockData
    <2>3. CASE FinishDead(w)
        BY <1>1, <1>2, <2>3, RunnersStable, WakeFacts DEF FinishDead, lockData
    <2> QED BY <2>1, <2>2, <2>3
<1>4. ListsInv' /\ ParkedInv' /\ FreshInv' /\ HandoffExact'
    BY <1>2, LockDataStable
<1>5. TypeOK'
    <2>1. CASE WaitTimeout(w) \/ SpuriousWake(w) \/ Retire(w) \/ SwitchOut(w)
        <3>1. CASE WaitTimeout(w) \/ SpuriousWake(w)
            BY <1>1, <3>1 DEF WaitTimeout, SpuriousWake, TypeOK, WorkerPC, gvars,
               qvars, mutexVars, schedVars, clockVars
        <3>2. CASE Retire(w)
            BY <1>1, <3>2 DEF Retire, TypeOK, WorkerPC, gvars, qvars, mutexVars,
               clockVars, raceVars
        <3>3. CASE SwitchOut(w)
            BY <1>1, <3>3 DEF SwitchOut, TypeOK, WorkerPC, qvars, mutexVars,
               schedVars, clockVars
        <3> QED BY <2>1, <3>1, <3>2, <3>3
    <2>2. CASE AfterSwitch(w)
        BY <1>1, <2>2 DEF AfterSwitch, TypeOK, WorkerPC, Fatal, gvars, qvars,
           mutexVars, schedVars, clockVars
    <2>3. CASE FinishDead(w)
        <3>1. /\ liveCount' \in Nat /\ fatal' \in Fatal
              /\ accepting' = accepting /\ liveWorkers' = liveWorkers
            BY <1>1, <2>3 DEF FinishDead, TypeOK, Fatal
        <3>3. allG' \subseteq GT /\ overlapped' \in BOOLEAN
            BY <1>1, <2>3, EditType DEF FinishDead, TypeOK
        <3>2. wpc' \in [Workers -> WorkerPC] /\ mpc' \in MainPC
            BY <1>1, <2>3, WakeFacts DEF FinishDead, TypeOK, WorkerPC
        <3> QED BY <1>1, <2>3, <3>1, <3>2, <3>3 DEF FinishDead, TypeOK, gvars, qvars,
                   mutexVars, clockVars
    <2> QED BY <2>1, <2>2, <2>3
<1> QED BY <1>3, <1>4, <1>5 DEF LockInv

LEMMA StepMainQuiet ==
    ASSUME LockInv,
           \/ BeginShutdown \/ ShutdownStep
           \/ \E m \in Mutex : MainLockHeld(m)
    PROVE  LockInv'
<1> USE DEF ShutdownStep
<1>1. TypeOK
    BY DEF LockInv
<1>2. UNCHANGED lockData /\ UNCHANGED <<timers, wcur>>
    BY DEF BeginShutdown, DrainTimeout, DrainDeadlock, DrainAgain, Join,
       MainLockHeld, lockData, gvars, qvars, mutexVars, schedVars, raceVars
<1>3. RunnersInv'
    <2>1. wpc' \in {wpc, WakeAllWorkers}
        BY DEF BeginShutdown, DrainLoop, DrainTimeout, DrainDeadlock, DrainAgain,
           Join, MainLockHeld
    <2> QED BY <1>1, <1>2, <2>1, WakeFacts, RunnersStable DEF lockData
<1>4. ListsInv' /\ ParkedInv' /\ FreshInv' /\ HandoffExact'
    BY <1>2, LockDataStable
<1>5. TypeOK'
    <2>1. CASE BeginShutdown \/ DrainAgain
        BY <1>1, <2>1, WakeFacts, PoolAssumption DEF BeginShutdown, DrainAgain,
           DrainLoop, TypeOK, MainPC, gvars, qvars, mutexVars, schedVars, raceVars
    <2>2. CASE DrainTimeout \/ DrainDeadlock \/ Join \/ \E m \in Mutex : MainLockHeld(m)
        BY <1>1, <2>2 DEF DrainTimeout, DrainDeadlock, Join, MainLockHeld, TypeOK,
           MainPC, Fatal, gvars, qvars, mutexVars, schedVars, clockVars
    <2> QED BY <2>1, <2>2
<1> QED BY <1>3, <1>4, <1>5 DEF LockInv

-----------------------------------------------------------------------------
(* A green thread that is neither runnable nor waiting is on no list.      *)
LEMMA OffLists ==
    ASSUME LockInv, NEW g \in GT,
           gstate[g] \notin {"runnable", "wait_mutex", "wait_timer"}
    PROVE  /\ g \notin Elements(runq)
           /\ \A i \in DOMAIN timers : timers[i].g # g
           /\ \A m \in Mutex : g \notin Elements(waitq[m])
           /\ parkedOn[g] = NoG
BY DEF LockInv, ListsInv, ParkedInv, Elements

(* __nc_g_free changes a green thread that is on no list and runs nowhere. *)
LEMMA StepFreeG ==
    ASSUME LockInv, NEW w \in Workers, FreeG(w)
    PROVE  LockInv'
<1> USE DEF FreeG
<1> DEFINE g == wcur[w]
<1>1. g \in GT /\ gstate[g] \in {"dead", "freed"}
    BY DEF LockInv, RunnersInv
<1>2. /\ gstate' = [gstate EXCEPT ![g] = "freed"]
      /\ wpc' = [wpc EXCEPT ![w] = "loop"]
      /\ wcur' = [wcur EXCEPT ![w] = NoG]
      /\ UNCHANGED <<runq, timers, locked, waitq, holds, parkedOn, fresh>>
    BY DEF qvars, mutexVars
<1>3. /\ gstate \in [GT -> GState]
      /\ wpc \in [Workers -> WorkerPC]
      /\ wcur \in [Workers -> GT \cup {NoG}]
    BY DEF LockInv, TypeOK
<1>4. TypeOK'
    <2>1. allG' \subseteq GT /\ fatal' \in Fatal
        BY DEF LockInv, TypeOK, EndEdit, Fatal
    <2> QED BY <1>1, <2>1 DEF LockInv, TypeOK, EndEdit, GState, WorkerPC, qvars,
               mutexVars, clockVars
<1> HIDE DEF FreeG, g
<1>5. RunnersInv'
    BY <1>1, <1>2, <1>3 DEF LockInv, RunnersInv
<1>6. ListsInv'
    <2>1. /\ g \notin Elements(runq)
          /\ \A i \in DOMAIN timers : timers[i].g # g
          /\ \A m \in Mutex : g \notin Elements(waitq[m])
        BY <1>1, OffLists
    <2>2. \A x : x # g => gstate'[x] = gstate[x]
        BY <1>2, <1>3
    <2> QED BY <1>2, <2>1, <2>2 DEF LockInv, ListsInv, Elements
<1>7. ParkedInv'
    <2>1. parkedOn[g] = NoG
        BY <1>1, OffLists
    <2> QED BY <1>2, <1>3, <2>1 DEF LockInv, ParkedInv
<1>8. HandoffExact'
    BY <1>2 DEF LockInv, HandoffExact, Owns
<1>9. FreshInv'
    BY <1>1, <1>2, <1>3, FreshStable
<1> QED BY <1>4, <1>5, <1>6, <1>7, <1>8, <1>9 DEF LockInv

(* The running green thread leaves its worker for no list: it ends.        *)
LEMMA StepExit ==
    ASSUME LockInv, NEW w \in Workers, Exit(w)
    PROVE  LockInv'
<1> USE DEF Exit
<1> DEFINE g == wcur[w]
<1>1. g \in GT /\ gstate[g] = "running" /\ wpc[w] = "run"
    BY DEF LockInv, RunnersInv
<1>2. /\ gstate' = [gstate EXCEPT ![g] = "dead"]
      /\ wpc' = [wpc EXCEPT ![w] = "switch"]
      /\ UNCHANGED <<runq, timers, locked, waitq, holds, parkedOn, wcur, fresh>>
    BY DEF qvars, mutexVars, schedVars
<1>3. /\ gstate \in [GT -> GState]
      /\ wpc \in [Workers -> WorkerPC]
    BY DEF LockInv, TypeOK
<1>4. TypeOK'
    BY <1>1 DEF LockInv, TypeOK, GState, WorkerPC, qvars, mutexVars, schedVars,
       clockVars
<1> HIDE DEF Exit
<1>5. RunnersInv'
    BY <1>1, <1>2, <1>3 DEF LockInv, RunnersInv
<1> HIDE DEF g
<1>6. ListsInv'
    <2>1. /\ g \notin Elements(runq)
          /\ \A i \in DOMAIN timers : timers[i].g # g
          /\ \A m \in Mutex : g \notin Elements(waitq[m])
        BY <1>1, OffLists
    <2>2. \A x : x # g => gstate'[x] = gstate[x]
        BY <1>2, <1>3
    <2> QED BY <1>2, <2>1, <2>2 DEF LockInv, ListsInv, Elements
<1>7. ParkedInv'
    <2>1. parkedOn[g] = NoG
        BY <1>1, OffLists
    <2> QED BY <1>2, <1>3, <2>1 DEF LockInv, ParkedInv
<1>8. HandoffExact'
    BY <1>2 DEF LockInv, HandoffExact, Owns
<1>9. FreshInv'
    BY <1>1, <1>2, <1>3, FreshStable
<1> QED BY <1>4, <1>5, <1>6, <1>7, <1>8, <1>9 DEF LockInv

(* g is appended to the run queue: by __nc_g_yield or by __nc_spawn.       *)
LEMMA EnqueueLists ==
    ASSUME LockInv, NEW g \in GT, gstate[g] \in {"running", "unborn"},
           gstate' = [gstate EXCEPT ![g] = "runnable"],
           runq' = Append(runq, g),
           UNCHANGED <<timers, locked, waitq, holds, parkedOn>>
    PROVE  ListsInv' /\ ParkedInv' /\ HandoffExact' /\ runq' \in Seq(GT)
<1>1. gstate \in [GT -> GState] /\ runq \in Seq(GT)
    BY DEF LockInv, TypeOK
<1>2. /\ g \notin Elements(runq)
      /\ \A i \in DOMAIN timers : timers[i].g # g
      /\ \A m \in Mutex : g \notin Elements(waitq[m])
      /\ parkedOn[g] = NoG
    BY OffLists
<1>3. \A x : x # g => gstate'[x] = gstate[x]
    BY <1>1
<1>4. ListsInv'
    <2>1. Injective(runq') /\ \A i \in DOMAIN runq' : gstate'[runq'[i]] = "runnable"
        BY <1>1, <1>2, <1>3, AppendFacts DEF LockInv, ListsInv, Elements
    <2>2. \A i \in DOMAIN timers' : gstate'[timers'[i].g] = "wait_timer"
        BY <1>2, <1>3 DEF LockInv, ListsInv
    <2>3. \A m \in Mutex : \A i \in DOMAIN waitq[m] :
            gstate'[waitq[m][i]] = "wait_mutex" /\ parkedOn[waitq[m][i]] = m
        BY <1>2, <1>3 DEF LockInv, ListsInv, Elements
    <2> QED BY <2>1, <2>2, <2>3 DEF LockInv, ListsInv
<1>5. ParkedInv'
    BY <1>1, <1>2 DEF LockInv, ParkedInv
<1>6. HandoffExact'
    BY DEF LockInv, HandoffExact, Owns
<1> QED BY <1>1, <1>4, <1>5, <1>6, AppendFacts

LEMMA StepYield ==
    ASSUME LockInv, NEW w \in Workers, Yield(w)
    PROVE  LockInv'
<1> DEFINE g == wcur[w]
<1>1. g \in GT /\ gstate[g] = "running" /\ wpc[w] = "run"
    BY DEF LockInv, RunnersInv, Yield
<1>2. PICK x \in Signalled :
        /\ wpc' = [WakeWorker(x) EXCEPT ![w] = "switch"]
        /\ mpc' = WakeMain(x)
    BY DEF Yield
<1>3. /\ gstate' = [gstate EXCEPT ![g] = "runnable"]
      /\ runq' = Append(runq, g)
      /\ UNCHANGED <<timers, locked, waitq, holds, parkedOn, wcur, fresh>>
    BY DEF Yield, mutexVars, schedVars
<1>4. TypeOK
    BY DEF LockInv
<1>5. ListsInv' /\ ParkedInv' /\ HandoffExact' /\ runq' \in Seq(GT)
    BY <1>1, <1>3, EnqueueLists
<1>6. /\ wpc' \in [Workers -> WorkerPC] /\ mpc' \in MainPC
      /\ wpc'[w] = "switch"
      /\ \A v \in Workers \ {w} : wpc'[v] \in {wpc[v], "loop"}
    BY <1>2, <1>4, WakeFacts DEF WorkerPC
<1>7. TypeOK'
    BY <1>1, <1>4, <1>5, <1>6 DEF Yield, TypeOK, GState, mutexVars, schedVars,
       clockVars
<1>8. RunnersInv'
    <2>1. gstate \in [GT -> GState]
        BY <1>4 DEF TypeOK
    <2> QED BY <1>1, <1>3, <1>6, <2>1 DEF LockInv, RunnersInv
<1>9. FreshInv'
    BY <1>1, <1>3, <1>4, FreshStable DEF TypeOK
<1> QED BY <1>5, <1>7, <1>8, <1>9 DEF LockInv

(* __nc_g_alloc begins to insert a new green thread in all_g_head; its     *)
(* memory is new, so nobody else inserts it.                               *)
LEMMA StepAlloc ==
    ASSUME LockInv, NEW t \in Thread, AllocG(t)
    PROVE  LockInv'
<1>1. PICK g \in GT :
        /\ gstate[g] = "unborn" /\ \A u \in Thread : fresh[u] # g
        /\ fresh' = [fresh EXCEPT ![t] = g]
    BY DEF AllocG
<1>2. /\ UNCHANGED <<gstate, saved, runq, timers, locked, waitq, holds, parkedOn,
                      liveCount, accepting, liveWorkers, overtaken, wpc, wcur,
                      wleft, mleft, drainLeft, mpc, joinN, fatal>>
    BY DEF AllocG, gvars, qvars, mutexVars, clockVars
<1>3. fresh \in [Thread -> GT \cup {NoG}]
    BY DEF LockInv, TypeOK
<1>4. TypeOK'
    <2>1. allG' \subseteq GT /\ overlapped' \in BOOLEAN
        BY EditType DEF AllocG, LockInv, TypeOK
    <2> QED BY <1>1, <1>2, <1>3, <2>1 DEF LockInv, TypeOK
<1>5. FreshInv'
    BY <1>1, <1>2, <1>3 DEF LockInv, FreshInv
<1>6. ListsInv' /\ ParkedInv' /\ RunnersInv' /\ HandoffExact'
    BY <1>2 DEF LockInv, ListsInv, ParkedInv, RunnersInv, HandoffExact, Owns
<1> QED BY <1>4, <1>5, <1>6 DEF LockInv

(* __nc_spawn submits the green thread it has inserted.                    *)
LEMMA StepSpawn ==
    ASSUME LockInv, NEW t \in Thread, SpawnG(t)
    PROVE  LockInv'
<1> DEFINE g == fresh[t]
<1>1. /\ gstate' = [gstate EXCEPT ![g] = "runnable"]
      /\ saved' = [saved EXCEPT ![g] = TRUE]
      /\ runq' = Append(runq, g)
      /\ liveCount' = liveCount + 1
      /\ fresh' = [fresh EXCEPT ![t] = NoG]
      /\ allG' \in {{}, allG \cup {g}}
      /\ \E x \in Signalled :
            /\ wpc' = WakeWorker(x)
            /\ mpc' = WakeMain(x)
      /\ UNCHANGED <<timers, locked, waitq, holds, parkedOn, accepting, liveWorkers,
                     overlapped, overtaken, wcur, wleft, mleft, drainLeft, joinN,
                     fatal>>
    BY DEF SpawnG, EndEdit, mutexVars, clockVars
<1>2. /\ TypeOK /\ gstate \in [GT -> GState]
      /\ fresh \in [Thread -> GT \cup {NoG}]
      /\ g \in GT /\ gstate[g] = "unborn"
      /\ \A u \in Thread \ {t} : fresh[u] # g
    BY DEF LockInv, TypeOK, FreshInv, SpawnG
<1> HIDE DEF g
<1>3. ListsInv' /\ ParkedInv' /\ HandoffExact' /\ runq' \in Seq(GT)
    BY <1>1, <1>2, EnqueueLists
<1>4. /\ wpc' \in [Workers -> WorkerPC] /\ mpc' \in MainPC
      /\ \A v \in Workers : wpc'[v] \in {wpc[v], "loop"}
    BY <1>1, <1>2, WakeFacts
<1>5. TypeOK'
    BY <1>1, <1>2, <1>3, <1>4 DEF TypeOK, GState
<1>6. RunnersInv'
    BY <1>1, <1>2, <1>4 DEF LockInv, RunnersInv
<1>7. FreshInv'
    <2>1. fresh'[t] = NoG /\ \A u \in Thread \ {t} : fresh'[u] = fresh[u]
        BY <1>1, <1>2
    <2> QED BY <1>1, <1>2, <2>1 DEF LockInv, FreshInv
<1> QED BY <1>3, <1>5, <1>6, <1>7 DEF LockInv

(* __nc_sleep: the running green thread moves to the timer list.           *)
LEMMA StepSleep ==
    ASSUME LockInv, NEW w \in Workers, Sleep(w)
    PROVE  LockInv'
<1> DEFINE g == wcur[w]
<1>1. g \in GT /\ gstate[g] = "running" /\ wpc[w] = "run"
    BY DEF LockInv, RunnersInv, Sleep
<1>2. PICK ms \in 0..MaxSleep :
        /\ timers' = InsertTimer(timers, g, ms)
        /\ \/ \E x \in Signalled :
                /\ wpc' = [WakeWorker(x) EXCEPT ![w] = "switch"]
                /\ mpc' = WakeMain(x)
           \/ /\ wpc' = [wpc EXCEPT ![w] = "switch"]
              /\ mpc' = mpc
    BY DEF Sleep
<1>3. /\ gstate' = [gstate EXCEPT ![g] = "wait_timer"]
      /\ UNCHANGED <<runq, locked, waitq, holds, parkedOn, wcur, fresh>>
    BY DEF Sleep, mutexVars, schedVars
<1>4. TypeOK /\ gstate \in [GT -> GState] /\ timers \in TimerList(GT)
    BY DEF LockInv, TypeOK, TimerList
<1>5. /\ wpc' \in [Workers -> WorkerPC] /\ mpc' \in MainPC
      /\ wpc'[w] = "switch"
      /\ \A v \in Workers \ {w} : wpc'[v] \in {wpc[v], "loop"}
    <2>1. wpc \in [Workers -> WorkerPC] /\ mpc \in MainPC
        BY <1>4 DEF TypeOK
    <2> QED BY <1>2, <1>4, <2>1, WakeFacts DEF WorkerPC
<1>6. /\ g \notin Elements(runq)
      /\ \A i \in DOMAIN timers : timers[i].g # g
      /\ \A m \in Mutex : g \notin Elements(waitq[m])
      /\ parkedOn[g] = NoG
    BY <1>1, OffLists
<1>7. PICK n \in 0..Len(timers) :
        /\ timers' \in TimerList(GT)
        /\ Len(timers') = Len(timers) + 1
        /\ \A i \in 1..n : timers'[i] = timers[i]
        /\ timers'[n + 1] = [g |-> g, left |-> ms]
        /\ \A i \in (n + 2)..(Len(timers) + 1) : timers'[i] = timers[i - 1]
    <2>1. ms \in Nat
        BY <1>2, PoolAssumption
    <2>2. g \in GT
        BY <1>1
    <2>3. timers \in TimerList(GT)
        BY <1>4
    <2> DEFINE r == InsertTimer(timers, g, ms)
               n == InsertPos(timers, ms)
    <2> HIDE DEF g
    <2>4. /\ n \in 0..Len(timers)
          /\ r \in TimerList(GT)
          /\ Len(r) = Len(timers) + 1
          /\ \A i \in 1..n : r[i] = timers[i]
          /\ r[n + 1] = [g |-> g, left |-> ms]
          /\ \A i \in (n + 2)..(Len(timers) + 1) : r[i] = timers[i - 1]
        BY <2>1, <2>2, <2>3, InsertTimerFacts
    <2> HIDE DEF n
    <2> QED BY <1>2, <2>4
<1>8. DOMAIN timers = 1..Len(timers) /\ DOMAIN timers' = 1..Len(timers')
      /\ Len(timers) \in Nat
    BY <1>4, <1>7, TimerListFacts
<1>9. ListsInv'
    <2>1. \A x : x # g => gstate'[x] = gstate[x]
        BY <1>3, <1>4
    <2>2. \A i \in DOMAIN timers' :
            \/ i \in DOMAIN timers /\ i <= n /\ timers'[i] = timers[i]
            \/ i = n + 1 /\ timers'[i].g = g
            \/ i - 1 \in DOMAIN timers /\ i - 1 > n /\ timers'[i] = timers[i - 1]
        BY <1>7, <1>8
    <2>3. \A i \in DOMAIN timers' : gstate'[timers'[i].g] = "wait_timer"
        BY <1>1, <1>3, <1>4, <1>6, <2>1, <2>2 DEF LockInv, ListsInv
    <2>4. \A i, j \in DOMAIN timers' : timers'[i].g = timers'[j].g => i = j
        <3> SUFFICES ASSUME NEW i \in DOMAIN timers', NEW j \in DOMAIN timers',
                            timers'[i].g = timers'[j].g
                     PROVE  i = j
            OBVIOUS
        <3>1. \A k, l \in DOMAIN timers : timers[k].g = timers[l].g => k = l
            BY DEF LockInv, ListsInv
        <3>2. CASE i = n + 1
            BY <1>6, <2>2, <3>2
        <3>3. CASE j = n + 1
            BY <1>6, <2>2, <3>3
        <3>4. CASE i # n + 1 /\ j # n + 1
            <4>1. CASE i \in DOMAIN timers /\ i <= n /\ timers'[i] = timers[i]
                BY <1>7, <1>8, <2>2, <3>1, <3>4, <4>1
            <4>2. CASE i - 1 \in DOMAIN timers /\ i - 1 > n /\ timers'[i] = timers[i - 1]
                BY <1>7, <1>8, <2>2, <3>1, <3>4, <4>2
            <4> QED BY <2>2, <3>4, <4>1, <4>2
        <3> QED BY <3>2, <3>3, <3>4
    <2>5. \A k \in DOMAIN runq : gstate'[runq[k]] = "runnable"
        BY <1>6, <2>1 DEF LockInv, ListsInv, Elements
    <2>6. \A m \in Mutex : \A k \in DOMAIN waitq[m] :
            gstate'[waitq[m][k]] = "wait_mutex" /\ parkedOn[waitq[m][k]] = m
        BY <1>6, <2>1 DEF LockInv, ListsInv, Elements
    <2> QED BY <1>3, <2>3, <2>4, <2>5, <2>6 DEF LockInv, ListsInv
<1>10. ParkedInv'
    BY <1>3, <1>4, <1>6 DEF LockInv, ParkedInv
<1>11. HandoffExact'
    BY <1>3 DEF LockInv, HandoffExact, Owns
<1>12. TypeOK'
    BY <1>1, <1>4, <1>5, <1>7 DEF Sleep, TypeOK, GState, TimerList, mutexVars,
       schedVars, clockVars
<1>13. RunnersInv'
    BY <1>1, <1>3, <1>4, <1>5 DEF LockInv, RunnersInv
<1>14. FreshInv'
    BY <1>1, <1>3, <1>4, FreshStable
<1> QED BY <1>9, <1>10, <1>11, <1>12, <1>13, <1>14 DEF LockInv

(* The fast path of __nc_mutex_lock: nobody owned the free mutex, t does.  *)
LEMMA AcquireOwns ==
    ASSUME LockInv, NEW t \in Thread, NEW m \in Mutex, Acquire(t, m)
    PROVE  /\ locked[m] = 0
           /\ locked' = [locked EXCEPT ![m] = 1]
           /\ locked \in [Mutex -> {0, 1}]
           /\ UNCHANGED waitq
           /\ \A u \in Thread, k \in Mutex :
                Owns(u, k)' <=> Owns(u, k) \/ (u = t /\ k = m)
<1>1. /\ locked \in [Mutex -> {0, 1}] /\ holds \in [Thread -> SUBSET Mutex]
      /\ locked' = [locked EXCEPT ![m] = 1]
      /\ holds' = [holds EXCEPT ![t] = @ \cup {m}]
      /\ locked[m] = 0
      /\ UNCHANGED <<waitq, parkedOn>>
    BY DEF LockInv, TypeOK, Acquire
<1> QED BY <1>1 DEF Owns

LEMMA StepAcquire ==
    ASSUME LockInv, NEW t \in Thread, NEW m \in Mutex, Acquire(t, m)
    PROVE  LockInv'
<1> USE DEF Acquire
<1>1. UNCHANGED <<gstate, runq, timers, waitq, parkedOn, wpc, wcur, fresh>>
    BY DEF gvars, qvars, schedVars
<1>2. TypeOK'
    BY DEF LockInv, TypeOK, gvars, qvars, schedVars, clockVars
<1>3. ListsInv' /\ ParkedInv' /\ FreshInv' /\ RunnersInv'
    BY <1>1, FreshStable DEF LockInv, ListsInv, ParkedInv, RunnersInv
<1>4. /\ locked[m] = 0
      /\ locked' = [locked EXCEPT ![m] = 1]
      /\ locked \in [Mutex -> {0, 1}]
      /\ \A u \in Thread, k \in Mutex : Owns(u, k)' <=> Owns(u, k) \/ (u = t /\ k = m)
    BY AcquireOwns
<1> HIDE DEF Acquire
<1>5. \A u \in Thread : ~Owns(u, m)
    BY <1>4 DEF LockInv, HandoffExact
<1>6. HandoffExact'
    BY <1>1, <1>4, <1>5 DEF LockInv, HandoffExact
<1> QED BY <1>2, <1>3, <1>6 DEF LockInv

(* The slow path: the running green thread joins the wait queue, so it     *)
(* owns nothing by that.                                                   *)
LEMMA ParkOwns ==
    ASSUME LockInv, NEW w \in Workers, NEW m \in Mutex, LockPark(w, m)
    PROVE  \A t \in Thread, k \in Mutex : Owns(t, k)' <=> Owns(t, k)
<1> DEFINE g == wcur[w]
<1>1. g \in GT /\ gstate[g] = "running"
    BY DEF LockInv, RunnersInv, LockPark
<1>2. /\ waitq' = [waitq EXCEPT ![m] = Append(@, g)]
      /\ parkedOn' = [parkedOn EXCEPT ![g] = m]
      /\ UNCHANGED holds
      /\ parkedOn \in [Thread -> Mutex \cup {NoG}]
      /\ waitq \in [Mutex -> Seq(GT)]
    BY DEF LockPark, LockInv, TypeOK
<1>3. parkedOn[g] = NoG
    BY <1>1, OffLists
<1> HIDE DEF g
<1>4. /\ Elements(waitq'[m]) = Elements(waitq[m]) \cup {g}
      /\ \A k \in Mutex \ {m} : waitq'[k] = waitq[k]
    BY <1>1, <1>2, AppendFacts
<1>5. parkedOn'[g] = m /\ \A x : x # g => parkedOn'[x] = parkedOn[x]
    BY <1>1, <1>2 DEF Thread
<1> SUFFICES ASSUME NEW t \in Thread, NEW k \in Mutex
             PROVE  Owns(t, k)' <=> Owns(t, k)
    OBVIOUS
<1>6. CASE t = g
    BY <1>2, <1>3, <1>4, <1>5, <1>6, PoolAssumption DEF Owns
<1>7. CASE t # g /\ k = m
    BY <1>2, <1>4, <1>5, <1>7 DEF Owns
<1>8. CASE t # g /\ k # m
    BY <1>2, <1>4, <1>5, <1>8 DEF Owns
<1> QED BY <1>6, <1>7, <1>8

LEMMA StepLockPark ==
    ASSUME LockInv, NEW w \in Workers, NEW m \in Mutex, LockPark(w, m)
    PROVE  LockInv'
<1> DEFINE g == wcur[w]
<1>1. g \in GT /\ gstate[g] = "running" /\ wpc[w] = "run"
    BY DEF LockInv, RunnersInv, LockPark
<1>2. /\ waitq' = [waitq EXCEPT ![m] = Append(@, g)]
      /\ gstate' = [gstate EXCEPT ![g] = "wait_mutex"]
      /\ parkedOn' = [parkedOn EXCEPT ![g] = m]
      /\ wpc' = [wpc EXCEPT ![w] = "switch"]
      /\ locked[m] = 1
      /\ UNCHANGED <<runq, timers, locked, holds, wcur, fresh>>
    BY DEF LockPark, qvars, schedVars
<1>3. /\ gstate \in [GT -> GState] /\ parkedOn \in [Thread -> Mutex \cup {NoG}]
      /\ waitq \in [Mutex -> Seq(GT)] /\ wpc \in [Workers -> WorkerPC]
    BY DEF LockInv, TypeOK
<1>4. /\ g \notin Elements(runq)
      /\ \A i \in DOMAIN timers : timers[i].g # g
      /\ \A k \in Mutex : g \notin Elements(waitq[k])
      /\ parkedOn[g] = NoG
    BY <1>1, OffLists
<1> HIDE DEF g
<1>5. /\ waitq'[m] = Append(waitq[m], g)
      /\ waitq'[m] \in Seq(GT)
      /\ Elements(waitq'[m]) = Elements(waitq[m]) \cup {g}
      /\ \A k \in Mutex \ {m} : waitq'[k] = waitq[k]
    BY <1>1, <1>2, <1>3, AppendFacts
<1>6. /\ \A x : x # g => gstate'[x] = gstate[x] /\ parkedOn'[x] = parkedOn[x]
      /\ gstate'[g] = "wait_mutex" /\ parkedOn'[g] = m
    BY <1>1, <1>2, <1>3 DEF Thread
<1>7. ListsInv'
    <2>1. \A k \in DOMAIN runq : gstate'[runq[k]] = "runnable"
        BY <1>4, <1>6 DEF LockInv, ListsInv, Elements
    <2>2. \A k \in DOMAIN timers : gstate'[timers[k].g] = "wait_timer"
        BY <1>4, <1>6 DEF LockInv, ListsInv
    <2>3. \A k \in Mutex \ {m} : \A i \in DOMAIN waitq'[k] :
            gstate'[waitq'[k][i]] = "wait_mutex" /\ parkedOn'[waitq'[k][i]] = k
        BY <1>4, <1>5, <1>6 DEF LockInv, ListsInv, Elements
    <2>4. \A i \in DOMAIN waitq'[m] :
            gstate'[waitq'[m][i]] = "wait_mutex" /\ parkedOn'[waitq'[m][i]] = m
        <3>1. waitq[m] \in Seq(GT)
            BY <1>3
        <3>2. \A i \in DOMAIN Append(waitq[m], g) :
                \/ i \in DOMAIN waitq[m] /\ Append(waitq[m], g)[i] = waitq[m][i]
                \/ Append(waitq[m], g)[i] = g
            BY <1>1, <3>1, AppendFacts
        <3> QED BY <1>4, <1>5, <1>6, <3>2 DEF LockInv, ListsInv, Elements
    <2>5. \A k \in Mutex : Injective(waitq'[k])
        <3>1. waitq[m] \in Seq(GT) /\ Injective(waitq[m]) /\ g \notin Elements(waitq[m])
            BY <1>3, <1>4 DEF LockInv, ListsInv
        <3>2. Injective(waitq'[m])
            BY <1>1, <1>5, <3>1, AppendFacts
        <3> QED BY <1>5, <3>2 DEF LockInv, ListsInv
    <2> QED BY <1>2, <2>1, <2>2, <2>3, <2>4, <2>5 DEF LockInv, ListsInv
<1>8. ParkedInv'
    BY <1>1, <1>6, PoolAssumption DEF LockInv, ParkedInv
<1>9. HandoffExact'
    <2>1. \A t \in Thread, k \in Mutex : Owns(t, k)' <=> Owns(t, k)
        BY ParkOwns
    <2> QED BY <1>2, <1>5, <2>1 DEF LockInv, HandoffExact
<1>10. TypeOK'
    BY <1>1, <1>2, <1>3, <1>5 DEF LockPark, LockInv, TypeOK, GState, WorkerPC,
       Thread, qvars, schedVars, clockVars, g
<1>11. RunnersInv'
    BY <1>1, <1>2, <1>3 DEF LockInv, RunnersInv, g
<1>12. FreshInv'
    BY <1>1, <1>2, <1>6, FreshStable
<1> QED BY <1>7, <1>8, <1>9, <1>10, <1>11, <1>12 DEF LockInv

(* __nc_mutex_unlock, by a green thread that runs or by main: the owner    *)
(* gives the mutex to the first waiter, or to nobody when there is none.   *)
LEMMA ReleaseOwns ==
    ASSUME LockInv, NEW t \in Thread, NEW m \in Mutex, Release(t, m),
           parkedOn[t] = NoG
    PROVE  /\ Owns(t, m) /\ locked[m] = 1
           /\ \A u \in Thread : Owns(u, m) => u = t
           /\ \A u \in Thread, k \in Mutex \ {m} : Owns(u, k)' <=> Owns(u, k)
           /\ waitq[m] = <<>> => \A u \in Thread : ~Owns(u, m)'
           /\ waitq[m] # <<>> => \A u \in Thread : Owns(u, m)' <=> u = Head(waitq[m])
<1>1. /\ parkedOn \in [Thread -> Mutex \cup {NoG}]
      /\ waitq \in [Mutex -> Seq(GT)] /\ locked \in [Mutex -> {0, 1}]
      /\ holds \in [Thread -> SUBSET Mutex]
      /\ m \in holds[t]
      /\ holds' = [holds EXCEPT ![t] = @ \ {m}]
      /\ UNCHANGED parkedOn
      /\ waitq' = IF waitq[m] # <<>> THEN [waitq EXCEPT ![m] = Tail(@)] ELSE waitq
    BY DEF LockInv, TypeOK, Release
<1>2. Owns(t, m)
    BY <1>1 DEF Owns
<1>3. locked[m] = 1 /\ \A u \in Thread : Owns(u, m) => u = t
    <2>1. locked[m] # 0
        BY <1>2 DEF LockInv, HandoffExact
    <2> QED BY <1>1, <1>2, <2>1 DEF LockInv, HandoffExact
<1>4. \A u \in Thread, k \in Mutex \ {m} : Owns(u, k)' <=> Owns(u, k)
    <2>1. \A k \in Mutex \ {m} : waitq'[k] = waitq[k]
        BY <1>1
    <2>2. \A u \in Thread, k \in Mutex \ {m} : k \in holds'[u] <=> k \in holds[u]
        BY <1>1
    <2> QED BY <1>1, <2>1, <2>2 DEF Owns
<1>5. \A u \in Thread : m \notin holds'[u]
    <2>1. \A u \in Thread \ {t} : m \notin holds[u]
        BY <1>3 DEF Owns
    <2> QED BY <1>1, <2>1
<1>6. ASSUME waitq[m] = <<>>
      PROVE  \A u \in Thread : ~Owns(u, m)'
    <2>1. \A u \in Thread \ {t} : parkedOn[u] # m
        BY <1>3, <1>6 DEF Owns, Elements
    <2>2. parkedOn[t] # m
        BY PoolAssumption
    <2> QED BY <1>1, <1>5, <2>1, <2>2 DEF Owns
<1>7. ASSUME waitq[m] # <<>>
      PROVE  \A u \in Thread : Owns(u, m)' <=> u = Head(waitq[m])
    <2> DEFINE h == Head(waitq[m])
    <2>1. Injective(waitq[m]) /\ waitq[m] \in Seq(GT)
        BY <1>1 DEF LockInv, ListsInv
    <2>2. /\ h \in Elements(waitq[m]) /\ h \notin Elements(waitq'[m])
          /\ Elements(waitq[m]) = Elements(waitq'[m]) \cup {h}
        <3>1. waitq'[m] = Tail(waitq[m])
            BY <1>1, <1>7
        <3> QED BY <1>7, <2>1, <3>1, TailFacts
    <2>3. parkedOn[h] = m
        BY <2>2 DEF LockInv, ListsInv, Elements
    <2> HIDE DEF h
    <2>4. \A u \in Thread : parkedOn[u] = m /\ u # h => u \in Elements(waitq'[m])
        <3>1. parkedOn[t] # m
            BY PoolAssumption
        <3> QED BY <1>3, <2>2, <3>1 DEF Owns
    <2> QED BY <1>1, <1>5, <2>2, <2>3, <2>4 DEF Owns, h
<1> QED BY <1>2, <1>3, <1>4, <1>6, <1>7

LEMMA StepRelease ==
    ASSUME LockInv, NEW t \in Thread, NEW m \in Mutex, Release(t, m),
           parkedOn[t] = NoG, t \in GT => gstate[t] = "running"
    PROVE  LockInv'
<1>1. /\ gstate \in [GT -> GState] /\ parkedOn \in [Thread -> Mutex \cup {NoG}]
      /\ waitq \in [Mutex -> Seq(GT)] /\ wpc \in [Workers -> WorkerPC]
      /\ holds \in [Thread -> SUBSET Mutex] /\ locked \in [Mutex -> {0, 1}]
      /\ runq \in Seq(GT) /\ mpc \in MainPC
    BY DEF LockInv, TypeOK
<1>2. /\ m \in holds[t]
      /\ holds' = [holds EXCEPT ![t] = @ \ {m}]
      /\ UNCHANGED <<timers, parkedOn, wcur, fresh>>
    BY DEF Release, schedVars
<1>3. locked[m] = 1
    BY ReleaseOwns
<1>4. CASE waitq[m] = <<>>
    <2>1. /\ locked' = [locked EXCEPT ![m] = 0]
          /\ UNCHANGED <<waitq, gstate, runq, wpc, mpc>>
        BY <1>4 DEF Release
    <2>2. TypeOK'
        BY <1>1, <1>2, <2>1 DEF Release, LockInv, TypeOK, schedVars, clockVars
    <2>3. ListsInv' /\ ParkedInv' /\ FreshInv' /\ RunnersInv'
        BY <1>2, <2>1, FreshStable DEF LockInv, ListsInv, ParkedInv, RunnersInv
    <2>4. /\ \A u \in Thread, k \in Mutex \ {m} : Owns(u, k)' <=> Owns(u, k)
          /\ \A u \in Thread : ~Owns(u, m)'
        BY <1>4, ReleaseOwns
    <2>5. HandoffExact'
        BY <1>1, <1>4, <2>1, <2>4 DEF LockInv, HandoffExact
    <2> QED BY <2>2, <2>3, <2>5 DEF LockInv
<1>5. CASE waitq[m] # <<>>
    <2> DEFINE h == Head(waitq[m])
    <2>1. /\ waitq' = [waitq EXCEPT ![m] = Tail(@)]
          /\ gstate' = [gstate EXCEPT ![h] = "runnable"]
          /\ runq' = Append(runq, h)
          /\ \E x \in Signalled :
                /\ wpc' = WakeWorker(x)
                /\ mpc' = WakeMain(x)
          /\ UNCHANGED locked
        BY <1>5 DEF Release
    <2>2. /\ h \in GT /\ h \in Elements(waitq[m])
          /\ Injective(waitq[m])
          /\ waitq'[m] = Tail(waitq[m]) /\ waitq'[m] \in Seq(GT)
          /\ \A i \in DOMAIN waitq'[m] :
                i + 1 \in DOMAIN waitq[m] /\ waitq'[m][i] = waitq[m][i + 1]
          /\ Elements(waitq[m]) = Elements(waitq'[m]) \cup {h}
          /\ Injective(waitq'[m]) /\ h \notin Elements(waitq'[m])
          /\ \A k \in Mutex \ {m} : waitq'[k] = waitq[k]
        <3>1. Injective(waitq[m])
            BY DEF LockInv, ListsInv
        <3>2. waitq'[m] = Tail(waitq[m])
              /\ \A k \in Mutex \ {m} : waitq'[k] = waitq[k]
            BY <1>1, <2>1
        <3> QED BY <1>1, <1>5, <3>1, <3>2, TailFacts
    <2>3. gstate[h] = "wait_mutex" /\ parkedOn[h] = m
        BY <2>2 DEF LockInv, ListsInv, Elements
    <2> HIDE DEF h
    <2>4. /\ \A x : x # h => gstate'[x] = gstate[x]
          /\ gstate'[h] = "runnable"
        BY <1>1, <2>1, <2>2
    <2>5. /\ h \notin Elements(runq)
          /\ \A i \in DOMAIN timers : timers[i].g # h
          /\ \A k \in Mutex \ {m} : h \notin Elements(waitq[k])
        BY <2>3 DEF LockInv, ListsInv, Elements
    <2>6. /\ wpc' \in [Workers -> WorkerPC] /\ mpc' \in MainPC
          /\ \A v \in Workers : wpc'[v] \in {wpc[v], "loop"}
        BY <2>1, WakeFacts DEF LockInv
    <2>7. runq' \in Seq(GT) /\ Injective(runq')
          /\ \A i \in DOMAIN runq' : gstate'[runq'[i]] = "runnable"
        BY <1>1, <2>1, <2>2, <2>4, <2>5, AppendFacts DEF LockInv, ListsInv, Elements
    <2>8. TypeOK'
        BY <1>1, <1>2, <2>1, <2>2, <2>6, <2>7 DEF Release, LockInv, TypeOK, GState,
           schedVars, clockVars
    <2>9. RunnersInv'
        <3>1. \A v \in Workers : wpc'[v] # "loop" => wpc'[v] = wpc[v]
            BY <2>6
        <3>2. \A v \in Workers :
                wpc[v] \in {"run", "finish", "free"} => gstate'[wcur[v]] = gstate[wcur[v]]
            BY <2>3, <2>4 DEF LockInv, RunnersInv
        <3> QED BY <1>2, <3>1, <3>2 DEF LockInv, RunnersInv
    <2>10. ListsInv'
        <3>1. \A i \in DOMAIN timers : gstate'[timers[i].g] = "wait_timer"
            BY <2>4, <2>5 DEF LockInv, ListsInv
        <3>2. \A k \in Mutex \ {m} : \A i \in DOMAIN waitq'[k] :
                gstate'[waitq'[k][i]] = "wait_mutex" /\ parkedOn[waitq'[k][i]] = k
            BY <2>2, <2>4, <2>5 DEF LockInv, ListsInv, Elements
        <3>3. \A i \in DOMAIN waitq'[m] :
                gstate'[waitq'[m][i]] = "wait_mutex" /\ parkedOn[waitq'[m][i]] = m
            BY <2>2, <2>4 DEF LockInv, ListsInv, Elements
        <3>4. \A k \in Mutex : Injective(waitq'[k])
            BY <2>2 DEF LockInv, ListsInv
        <3> QED BY <1>2, <2>7, <3>1, <3>2, <3>3, <3>4 DEF LockInv, ListsInv
    <2>11. ParkedInv'
        BY <1>1, <1>2, <2>1, <2>2, <2>4 DEF LockInv, ParkedInv
    <2>12. HandoffExact'
        <3>1. \A u \in Thread, k \in Mutex \ {m} : Owns(u, k)' <=> Owns(u, k)
            BY ReleaseOwns
        <3>2. \A u \in Thread : Owns(u, m)' <=> u = h
            BY <1>5, ReleaseOwns DEF h
        <3>3. /\ h \in Thread /\ locked' = locked /\ locked[m] # 0
              /\ \A k \in Mutex \ {m} : waitq'[k] = waitq[k]
            BY <1>3, <2>1, <2>2 DEF Thread
        <3>4. ASSUME NEW k \in Mutex \ {m}
              PROVE  IF locked'[k] = 0
                     THEN waitq'[k] = <<>> /\ \A u \in Thread : ~Owns(u, k)'
                     ELSE \E u \in Thread : Owns(u, k)'
                             /\ \A v \in Thread : Owns(v, k)' => v = u
            <4>1. IF locked[k] = 0
                  THEN waitq[k] = <<>> /\ \A u \in Thread : ~Owns(u, k)
                  ELSE \E u \in Thread : Owns(u, k)
                          /\ \A v \in Thread : Owns(v, k) => v = u
                BY DEF LockInv, HandoffExact
            <4> QED BY <3>1, <3>3, <4>1
        <3>5. locked'[m] # 0
              /\ \E u \in Thread : Owns(u, m)' /\ \A v \in Thread : Owns(v, m)' => v = u
            BY <3>2, <3>3
        <3> QED BY <3>4, <3>5 DEF HandoffExact
    <2>13. FreshInv'
        BY <1>2, <2>3, <2>4, FreshStable
    <2> QED BY <2>8, <2>9, <2>10, <2>11, <2>12, <2>13 DEF LockInv
<1> QED BY <1>4, <1>5

(* The expired timers are a prefix of the timer list; with them, the run   *)
(* queue still holds no green thread twice.                                *)
LEMMA ReadyFacts ==
    ASSUME LockInv
    PROVE  LET E == Expired(timers) IN
           /\ E \in Seq(GT) /\ Injective(E)
           /\ \A x \in Elements(E) : x \in GT /\ gstate[x] = "wait_timer"
           /\ \A x \in Elements(runq) : x \in GT /\ gstate[x] = "runnable"
           /\ Ready \in Seq(GT) /\ Injective(Ready)
           /\ Elements(Ready) = Elements(runq) \cup Elements(E)
           /\ Ready # <<>> =>
                /\ Head(Ready) \in GT /\ Head(Ready) \in Elements(Ready)
                /\ gstate[Head(Ready)] \in {"runnable", "wait_timer"}
                /\ Tail(Ready) \in Seq(GT) /\ Injective(Tail(Ready))
                /\ Head(Ready) \notin Elements(Tail(Ready))
                /\ Elements(Ready) = Elements(Tail(Ready)) \cup {Head(Ready)}
<1> DEFINE E == Expired(timers)
           n == ExpiredCount(timers)
<1>1. timers \in TimerList(GT) /\ runq \in Seq(GT)
    BY DEF LockInv, TypeOK, TimerList
<1>2. /\ n \in 0..Len(timers) /\ DOMAIN timers = 1..Len(timers) /\ Len(timers) \in Nat
      /\ E \in Seq(GT) /\ DOMAIN E = 1..n
      /\ \A i \in 1..n : E[i] = timers[i].g
    BY <1>1, ExpiredSplit, TimerListFacts, SeqFacts
<1> HIDE DEF E, n
<1>3. \A i \in DOMAIN E : i \in DOMAIN timers /\ E[i] = timers[i].g
    BY <1>2
<1>4. Injective(E)
    BY <1>3 DEF LockInv, ListsInv, Injective
<1>5. /\ \A x \in Elements(E) : x \in GT /\ gstate[x] = "wait_timer"
      /\ \A x \in Elements(runq) : x \in GT /\ gstate[x] = "runnable"
    BY <1>1, <1>2, <1>3, SeqFacts DEF LockInv, ListsInv, Elements
<1>6. /\ Ready \in Seq(GT) /\ Injective(Ready)
      /\ Elements(Ready) = Elements(runq) \cup Elements(E)
    <2>1. Ready = runq \o E
        BY DEF Ready, E
    <2>2. Elements(runq) \cap Elements(E) = {}
        BY <1>5
    <2> QED BY <1>1, <1>2, <1>4, <2>1, <2>2, ConcatFacts DEF LockInv, ListsInv
<1>7. Ready # <<>> =>
        /\ Head(Ready) \in GT /\ Head(Ready) \in Elements(Ready)
        /\ Tail(Ready) \in Seq(GT) /\ Injective(Tail(Ready))
        /\ Head(Ready) \notin Elements(Tail(Ready))
        /\ Elements(Ready) = Elements(Tail(Ready)) \cup {Head(Ready)}
    BY <1>6, TailFacts
<1> QED BY <1>2, <1>4, <1>5, <1>6, <1>7 DEF E

(* Dispatching a green thread that was handed a mutex only turns the       *)
(* handoff into a return of __nc_mutex_lock: the owners stay the same.     *)
LEMMA DispatchOwns ==
    ASSUME LockInv, NEW w \in Workers, Dispatch(w)
    PROVE  \A u \in Thread, k \in Mutex : Owns(u, k)' <=> Owns(u, k)
<1> DEFINE g == Head(Ready)
<1>1. g \in GT /\ gstate[g] \in {"runnable", "wait_timer"}
    BY ReadyFacts DEF Dispatch
<1>2. /\ holds' = [holds EXCEPT ![g] = @ \cup ({parkedOn[g]} \ {NoG})]
      /\ parkedOn' = [parkedOn EXCEPT ![g] = NoG]
      /\ UNCHANGED waitq
      /\ parkedOn \in [Thread -> Mutex \cup {NoG}] /\ holds \in [Thread -> SUBSET Mutex]
    BY DEF Dispatch, LockInv, TypeOK
<1> HIDE DEF g
<1>3. /\ holds'[g] = holds[g] \cup ({parkedOn[g]} \ {NoG}) /\ parkedOn'[g] = NoG
      /\ \A u \in Thread \ {g} : holds'[u] = holds[u] /\ parkedOn'[u] = parkedOn[u]
    BY <1>1, <1>2 DEF Thread
<1>4. \A k \in Mutex : g \notin Elements(waitq[k])
    BY <1>1 DEF LockInv, ListsInv, Elements
<1> SUFFICES ASSUME NEW u \in Thread, NEW k \in Mutex
             PROVE  Owns(u, k)' <=> Owns(u, k)
    OBVIOUS
<1>5. CASE u = g
    BY <1>2, <1>3, <1>4, <1>5, PoolAssumption DEF Owns
<1>6. CASE u # g
    BY <1>2, <1>3, <1>6 DEF Owns
<1> QED BY <1>5, <1>6

(* The head of worker_loop: expired timers join the run queue, the first   *)
(* green thread of it runs.  One that was handed a mutex now holds it.     *)
LEMMA StepDispatch ==
    ASSUME LockInv, NEW w \in Workers, Dispatch(w)
    PROVE  LockInv'
<1> DEFINE g == Head(Ready)
           E == Expired(timers)
<1>1. /\ gstate \in [GT -> GState] /\ parkedOn \in [Thread -> Mutex \cup {NoG}]
      /\ waitq \in [Mutex -> Seq(GT)] /\ wpc \in [Workers -> WorkerPC]
      /\ wcur \in [Workers -> GT \cup {NoG}] /\ saved \in [GT -> BOOLEAN]
      /\ holds \in [Thread -> SUBSET Mutex] /\ runq \in Seq(GT)
      /\ timers \in TimerList(GT)
    BY DEF LockInv, TypeOK, TimerList
<1>2. PICK n \in 0..Len(timers) :
        /\ E \in Seq(GT) /\ DOMAIN E = 1..n
        /\ \A i \in 1..n : E[i] = timers[i].g
        /\ Unexpired(timers) \in TimerList(GT)
        /\ DOMAIN Unexpired(timers) = 1..(Len(timers) - n)
        /\ \A i \in 1..(Len(timers) - n) : Unexpired(timers)[i] = timers[i + n]
        /\ DOMAIN timers = 1..Len(timers) /\ Len(timers) \in Nat
    <2>1. /\ ExpiredCount(timers) \in 0..Len(timers)
          /\ E \in Seq(GT) /\ Len(E) = ExpiredCount(timers)
          /\ \A i \in 1..ExpiredCount(timers) : E[i] = timers[i].g
          /\ Unexpired(timers) \in TimerList(GT)
          /\ Len(Unexpired(timers)) = Len(timers) - ExpiredCount(timers)
          /\ \A i \in 1..(Len(timers) - ExpiredCount(timers)) :
                Unexpired(timers)[i] = timers[i + ExpiredCount(timers)]
        BY <1>1, ExpiredSplit
    <2>2. /\ DOMAIN timers = 1..Len(timers) /\ Len(timers) \in Nat
          /\ DOMAIN E = 1..Len(E)
          /\ DOMAIN Unexpired(timers) = 1..Len(Unexpired(timers))
        BY <1>1, <2>1, TimerListFacts, SeqFacts
    <2> QED BY <2>1, <2>2
<1>3. /\ wpc[w] = "loop" /\ Ready # <<>>
      /\ runq' = Tail(Ready)
      /\ timers' = Unexpired(timers)
      /\ gstate' = [x \in GT |-> IF x = g THEN "running"
                                 ELSE IF x \in Elements(E) THEN "runnable"
                                 ELSE gstate[x]]
      /\ wcur' = [wcur EXCEPT ![w] = g]
      /\ wpc' = [wpc EXCEPT ![w] = "run"]
      /\ fatal' \in {fatal, "resume_unsaved"}
      /\ saved' = [saved EXCEPT ![g] = FALSE]
      /\ holds' = [holds EXCEPT ![g] = @ \cup ({parkedOn[g]} \ {NoG})]
      /\ parkedOn' = [parkedOn EXCEPT ![g] = NoG]
      /\ overtaken' \in BOOLEAN
      /\ UNCHANGED <<locked, waitq, fresh>>
    BY DEF Dispatch, LockInv, TypeOK
<1> HIDE DEF E
<1>4. /\ \A x \in Elements(E) : gstate[x] = "wait_timer"
      /\ \A x \in Elements(runq) : gstate[x] = "runnable"
      /\ Elements(E) \subseteq GT
      /\ \A m \in Mutex : \A x \in Elements(waitq[m]) : gstate[x] = "wait_mutex"
    BY ReadyFacts DEF LockInv, ListsInv, Elements, E
<1>5. Elements(Ready) = Elements(runq) \cup Elements(E)
    BY ReadyFacts DEF E
<1>6. /\ g \in GT /\ g \in Elements(Ready)
      /\ runq' \in Seq(GT) /\ Injective(runq')
      /\ g \notin Elements(runq')
      /\ Elements(Ready) = Elements(runq') \cup {g}
    BY <1>3, ReadyFacts
<1> HIDE DEF g
<1>7. /\ gstate' \in [GT -> GState]
      /\ gstate'[g] = "running"
      /\ \A x \in Elements(E) \ {g} : gstate'[x] = "runnable"
      /\ \A x \in GT : x # g /\ x \notin Elements(E) => gstate'[x] = gstate[x]
    BY <1>1, <1>3, <1>4, <1>6 DEF GState
<1>8. gstate[g] \in {"runnable", "wait_timer"}
    BY <1>3, ReadyFacts DEF g
<1>9. \A x \in Elements(runq') : gstate'[x] = "runnable"
    <2> SUFFICES ASSUME NEW x \in Elements(runq') PROVE gstate'[x] = "runnable"
        OBVIOUS
    <2>1. x # g /\ x \in Elements(runq) \cup Elements(E)
        BY <1>5, <1>6
    <2>2. Elements(runq) \subseteq GT
        BY <1>1, SeqFacts DEF Elements
    <2> QED BY <1>4, <1>7, <2>1, <2>2
<1>10. \A i \in DOMAIN timers' :
        /\ i + n \in DOMAIN timers
        /\ timers'[i] = timers[i + n]
        /\ timers'[i].g \in GT \ (Elements(E) \cup {g})
    <2> SUFFICES ASSUME NEW i \in DOMAIN timers'
                 PROVE  /\ i + n \in DOMAIN timers
                        /\ timers'[i] = timers[i + n]
                        /\ timers'[i].g \in GT \ (Elements(E) \cup {g})
        OBVIOUS
    <2>1. i + n \in DOMAIN timers /\ timers'[i] = timers[i + n]
        BY <1>2, <1>3
    <2>2. timers[i + n].g \in GT /\ gstate[timers[i + n].g] = "wait_timer"
        BY <1>1, <2>1, TimerListFacts DEF LockInv, ListsInv
    <2>3. timers[i + n].g \notin Elements(E)
        <3> SUFFICES ASSUME NEW j \in 1..n, timers[j].g = timers[i + n].g
                     PROVE  FALSE
            BY <1>2 DEF Elements
        <3>1. j \in DOMAIN timers /\ j # i + n
            BY <1>2, <1>3
        <3> QED BY <2>1, <3>1 DEF LockInv, ListsInv
    <2>4. timers[i + n].g \notin Elements(Ready)
        BY <1>4, <1>5, <2>2, <2>3
    <2> QED BY <1>6, <2>1, <2>2, <2>3, <2>4
<1>11. \A m \in Mutex : \A x \in Elements(waitq[m]) :
        x \in GT /\ x # g /\ x \notin Elements(E)
    <2>1. \A m \in Mutex : Elements(waitq[m]) \subseteq GT
        BY <1>1, SeqFacts DEF Elements
    <2> QED BY <1>4, <1>8, <2>1
<1>12. ListsInv'
    <2>1. \A i \in DOMAIN runq' : gstate'[runq'[i]] = "runnable"
        BY <1>9 DEF Elements
    <2>2. \A i \in DOMAIN timers' : gstate'[timers'[i].g] = "wait_timer"
        BY <1>7, <1>10 DEF LockInv, ListsInv
    <2>3. \A i, j \in DOMAIN timers' : timers'[i].g = timers'[j].g => i = j
        <3>1. DOMAIN timers' \subseteq Int
            BY <1>2, <1>3
        <3>2. ASSUME NEW i \in DOMAIN timers', NEW j \in DOMAIN timers',
                     timers'[i].g = timers'[j].g
              PROVE  i = j
            <4>1. i + n = j + n
                BY <1>10, <3>2 DEF LockInv, ListsInv
            <4> QED BY <3>1, <4>1
        <3> QED BY <3>2
    <2>4. \A m \in Mutex : \A i \in DOMAIN waitq[m] :
            gstate'[waitq[m][i]] = "wait_mutex" /\ parkedOn'[waitq[m][i]] = m
        <3> SUFFICES ASSUME NEW m \in Mutex, NEW i \in DOMAIN waitq[m]
                     PROVE  gstate'[waitq[m][i]] = "wait_mutex"
                            /\ parkedOn'[waitq[m][i]] = m
            OBVIOUS
        <3>1. waitq[m][i] \in Elements(waitq[m])
            BY DEF Elements
        <3>2. waitq[m][i] \in GT /\ waitq[m][i] # g /\ waitq[m][i] \notin Elements(E)
            BY <1>11, <3>1
        <3> QED BY <1>1, <1>3, <1>7, <3>2 DEF LockInv, ListsInv, Thread
    <2> QED BY <1>3, <1>6, <2>1, <2>2, <2>3, <2>4 DEF LockInv, ListsInv
<1>13. ParkedInv'
    <2>1. parkedOn'[Main] = NoG
        BY <1>1, <1>3, <1>6, PoolAssumption DEF LockInv, ParkedInv, Thread
    <2>2. \A x \in GT : parkedOn'[x] # NoG => gstate'[x] \in {"wait_mutex", "runnable"}
        <3> SUFFICES ASSUME NEW x \in GT, parkedOn'[x] # NoG
                     PROVE  gstate'[x] \in {"wait_mutex", "runnable"}
            OBVIOUS
        <3>1. x # g /\ parkedOn'[x] = parkedOn[x]
            BY <1>1, <1>3, <1>6 DEF Thread
        <3> QED BY <1>7, <3>1 DEF LockInv, ParkedInv
    <2> QED BY <2>1, <2>2 DEF ParkedInv
<1>14. RunnersInv'
    <2>1. \A v \in Workers \ {w} : wpc'[v] = wpc[v] /\ wcur'[v] = wcur[v]
        BY <1>1, <1>3
    <2>2. wpc'[w] = "run" /\ wcur'[w] = g
        BY <1>1, <1>3, <1>6
    <2>3. \A v \in Workers \ {w} :
            wpc[v] \in {"run", "finish", "free"} =>
                wcur[v] # g /\ gstate'[wcur[v]] = gstate[wcur[v]]
        <3> SUFFICES ASSUME NEW v \in Workers \ {w}, wpc[v] \in {"run", "finish", "free"}
                     PROVE  wcur[v] # g /\ gstate'[wcur[v]] = gstate[wcur[v]]
            OBVIOUS
        <3>1. wcur[v] \in GT /\ gstate[wcur[v]] \in {"running", "dead", "freed"}
            BY DEF LockInv, RunnersInv
        <3>2. wcur[v] # g /\ wcur[v] \notin Elements(E)
            BY <1>4, <1>8, <3>1
        <3> QED BY <1>7, <3>1, <3>2
    <2> QED BY <1>6, <1>7, <2>1, <2>2, <2>3 DEF LockInv, RunnersInv
<1>15. HandoffExact'
    <2>1. \A u \in Thread, k \in Mutex : Owns(u, k)' <=> Owns(u, k)
        BY DispatchOwns
    <2> QED BY <1>3, <2>1 DEF LockInv, HandoffExact
<1>16. TypeOK'
    BY <1>1, <1>2, <1>3, <1>6, <1>7 DEF Dispatch, LockInv, TypeOK, TimerList, WorkerPC,
       Fatal, Thread, clockVars
<1>17. FreshInv'
    <2>1. \A x \in GT : gstate[x] = "unborn" => x # g /\ x \notin Elements(E)
        BY <1>4, <1>8
    <2> QED BY <1>3, <1>7, <2>1, FreshStable
<1> QED BY <1>12, <1>13, <1>14, <1>15, <1>16, <1>17 DEF LockInv

-----------------------------------------------------------------------------
(* Every step keeps the invariant of the locks.                            *)
LEMMA NextInv ==
    ASSUME LockInv, [Next]_vars
    PROVE  LockInv'
<1>1. CASE \E w \in Workers : Dispatch(w)
    BY <1>1, StepDispatch
<1>2. CASE \E w \in Workers : Wait(w)
    BY <1>2, StepWait
<1>3. CASE \E w \in Workers :
            \/ WaitTimeout(w) \/ SpuriousWake(w) \/ Retire(w)
            \/ SwitchOut(w) \/ AfterSwitch(w) \/ FinishDead(w)
    BY <1>3, StepWorkerQuiet
<1>4. CASE \E w \in Workers : FreeG(w)
    BY <1>4, StepFreeG
<1>5. CASE \E w \in Workers : GreenStep(w) \/ Spawn(w)
    <2> SUFFICES ASSUME NEW w \in Workers, GreenStep(w) \/ Spawn(w) PROVE LockInv'
        BY <1>5
    <2>0. ASSUME wpc[w] = "run"
          PROVE  wcur[w] \in GT /\ gstate[wcur[w]] = "running" /\ parkedOn[wcur[w]] = NoG
        <3>1. wcur[w] \in GT /\ gstate[wcur[w]] = "running"
            BY <2>0 DEF LockInv, RunnersInv
        <3> QED BY <3>1, OffLists
    <2>1. CASE Yield(w)
        BY <2>1, StepYield
    <2>2. CASE Sleep(w)
        BY <2>2, StepSleep
    <2>3. CASE Spawn(w)
        BY <2>0, <2>3, StepSpawn DEF Spawn, Thread
    <2>4. CASE Exit(w)
        BY <2>4, StepExit
    <2>5. CASE \E m \in Mutex : LockFree(w, m)
        BY <2>0, <2>5, StepAcquire DEF LockFree, Thread
    <2>6. CASE \E m \in Mutex : LockPark(w, m)
        BY <2>6, StepLockPark
    <2>7. CASE \E m \in Mutex : Unlock(w, m)
        BY <2>0, <2>7, StepRelease DEF Unlock, Thread
    <2>8. CASE Alloc(w)
        BY <2>0, <2>8, StepAlloc DEF Alloc, Thread
    <2> QED BY <2>1, <2>2, <2>3, <2>4, <2>5, <2>6, <2>7, <2>8 DEF GreenStep
<1>6. CASE UserMainStep \/ MainSpawn
    <2>1. CASE MainAlloc \/ MainSpawn
        BY <2>1, StepAlloc, StepSpawn DEF MainAlloc, MainSpawn, Thread
    <2>2. CASE BeginShutdown \/ \E m \in Mutex : MainLockHeld(m)
        BY <2>2, StepMainQuiet
    <2>3. CASE \E m \in Mutex : MainLockFree(m)
        BY <2>3, StepAcquire DEF MainLockFree, Thread
    <2>4. CASE \E m \in Mutex : MainUnlock(m)
        BY <2>4, StepRelease, PoolAssumption DEF MainUnlock, Thread, LockInv, ParkedInv
    <2> QED BY <1>6, <2>1, <2>2, <2>3, <2>4 DEF UserMainStep
<1>7. CASE ShutdownStep
    BY <1>7, StepMainQuiet
<1>8. CASE Tick
    BY <1>8, StepTick
<1>9. CASE Terminated \/ UNCHANGED vars
    <2>1. UNCHANGED vars
        BY <1>9 DEF Terminated
    <2> QED BY <2>1 DEF vars, LockInv, TypeOK, RunnersInv, ListsInv, ParkedInv,
            FreshInv, HandoffExact, Owns
<1> QED BY <1>1, <1>2, <1>3, <1>4, <1>5, <1>6, <1>7, <1>8, <1>9 DEF Next, WorkerStep

(* The inductive invariant holds in every reachable state.                 *)
THEOREM LockInductive == Spec => []LockInv
<1>1. Init => LockInv
    BY InitInv
<1>2. LockInv /\ [Next]_vars => LockInv'
    BY NextInv
<1> QED BY <1>1, <1>2, PTL DEF Spec

(* Type correctness: among it, live_g_count is never negative and the run  *)
(* queue and the wait queues hold green threads only.                      *)
THEOREM TypeCorrect == Spec => []TypeOK
<1>1. LockInv => TypeOK
    BY DEF LockInv
<1> QED BY <1>1, LockInductive, PTL

(* No two threads are inside the critical section of one nc_mutex, with    *)
(* any number of workers: the races of the scheduler do not reach it       *)
(* before the process is lost to one of them.                              *)
THEOREM MutualExclusionHolds == Spec => []MutualExclusion
<1>1. LockInv => MutualExclusion
    <2> SUFFICES ASSUME LockInv, NEW m \in Mutex, NEW t \in Thread, NEW u \in Thread,
                        m \in holds[t], m \in holds[u]
                 PROVE  t = u
        BY DEF MutualExclusion
    <2>1. Owns(t, m) /\ Owns(u, m)
        BY DEF Owns
    <2>2. locked[m] # 0
        BY <2>1 DEF LockInv, HandoffExact
    <2> QED BY <2>1, <2>2 DEF LockInv, HandoffExact
<1> QED BY <1>1, LockInductive, PTL

(* A locked mutex has one owner and a free one has neither owner nor       *)
(* waiter: __nc_mutex_unlock loses no handoff.                             *)
THEOREM HandoffIsExact == Spec => []HandoffExact
<1>1. LockInv => HandoffExact
    BY DEF LockInv
<1> QED BY <1>1, LockInductive, PTL

=============================================================================
