--------------------------- MODULE GcRootsProofs ---------------------------
(***************************************************************************)
(* What holds of the collector for every number of blocks, variables and   *)
(* nested calls: types always, and with one thread that the root array is  *)
(* exactly the list of live variables and that no live variable leads to a *)
(* freed block.                                                            *)
(***************************************************************************)
EXTENDS GcRoots, SequenceTheorems, TLAPS

(* Marking reaches the rooted blocks, stays within the heap and leaves no  *)
(* field of a marked block behind.                                         *)
LEMMA ClosureFacts ==
    ASSUME NEW S
    PROVE  /\ Closure(S) \subseteq heap
           /\ S \cap heap \subseteq Closure(S)
           /\ \A b \in Closure(S) : field[b] \in heap => field[b] \in Closure(S)
BY DEF Closure, Closed

(* The compiled program starts with an empty heap and main's frame.        *)
LEMMA InitStack == Init => StackInv
<1> SUFFICES ASSUME Init PROVE StackInv
  OBVIOUS
<1> USE GcAssumption DEF Init, Thread
<1>1. TypeOK
  <2>1. frames \in [Thread -> Seq([mark : Nat, base : 0..MaxSlots])]
    <3>1. [mark |-> 0, base |-> 0] \in [mark : Nat, base : 0..MaxSlots]
      OBVIOUS
    <3>2. <<[mark |-> 0, base |-> 0]>> \in Seq([mark : Nat, base : 0..MaxSlots])
      BY <3>1
    <3>3. <<>> \in Seq([mark : Nat, base : 0..MaxSlots])
      OBVIOUS
    <3>4. \A t \in Thread : frames[t] \in Seq([mark : Nat, base : 0..MaxSlots])
      <4> HIDE DEF Thread
      <4> QED BY <3>2, <3>3
    <3> HIDE DEF Thread
    <3> QED BY <3>4, Zenon
  <2>2. \A t \in Thread : Main \in Thread /\ status[t] \in {"unborn", "ready", "started", "gone"}
    OBVIOUS
  <2>3. mem \in [Slot -> Block \cup {Null}] /\ unset \subseteq Slot
    OBVIOUS
  <2>4. temps \in [Thread -> Seq(Block \cup {Null})] /\ top \in [Thread -> 0..MaxSlots]
    OBVIOUS
  <2>5. roots \in Seq(Slot \cup {NoRoot}) /\ handle \in [GT -> Nat]
    OBVIOUS
  <2>6. spawner \in [GT -> (Thread \X Nat) \cup {NoCall}]
    OBVIOUS
  <2>7. status \in [Thread -> {"unborn", "ready", "started", "gone"}]
    BY <2>2
  <2>8. heap \subseteq Block /\ field \in [Block -> Block \cup {Null}] /\ since \in 0..Threshold
    OBVIOUS
  <2> QED BY <2>1, <2>3, <2>4, <2>5, <2>6, <2>7, <2>8 DEF TypeOK
<1>2. RootsExact
  BY DEF RootsExact
<1>3. MarksInv
  BY DEF MarksInv
<1>4. PointersInv
  BY DEF PointersInv, Locals, OneThread
<1> QED BY <1>1, <1>2, <1>3, <1>4 DEF StackInv

(* A collection keeps the blocks that a rooted variable points to and, of  *)
(* the blocks it keeps, the targets of their fields.                       *)
LEMMA MarkedFacts ==
    ASSUME TypeOK, RootsExact
    PROVE  /\ Marked \subseteq heap
           /\ \A b \in Marked : field[b] \in heap => field[b] \in Marked
           /\ NoneSpawned => \A s \in Locals(Main) : mem[s] \in heap => mem[s] \in Marked
<1>1. ASSUME NoneSpawned, NEW s \in Locals(Main) PROVE mem[s] \in RootValues
  <2>1. PICK i \in 1..top[Main] : s = <<Main, i>>
    BY <1>1 DEF Locals
  <2>2. roots = [j \in 1..top[Main] |-> <<Main, j>>]
    BY <1>1 DEF RootsExact
  <2>3. i \in DOMAIN roots /\ roots[i] = s
    BY <2>1, <2>2
  <2>4. s # NoRoot
    BY <2>1 DEF NoRoot
  <2> QED BY <2>3, <2>4 DEF RootValues
<1> QED BY <1>1, ClosureFacts DEF Marked

(* Until the first spawn, the thread that takes a step is main.            *)
LEMMA RunnerIsMain ==
    ASSUME NoneSpawned, NEW t \in Thread, Running(t)
    PROVE  t = Main
BY DEF NoneSpawned, Running, Thread

(* The first n entries of a sequence.                                      *)
LEMMA PrefixFacts ==
    ASSUME NEW S, NEW q \in Seq(S), NEW n \in 0..Len(q)
    PROVE  /\ SubSeq(q, 1, n) \in Seq(S)
           /\ Len(SubSeq(q, 1, n)) = n
           /\ \A i \in 1..n : SubSeq(q, 1, n)[i] = q[i]
<1>1. \A i \in 1..n : q[i] \in S
  OBVIOUS
<1> QED BY <1>1, SubSeqProperties

(* A sequence and one more element.                                        *)
LEMMA AppendOne ==
    ASSUME NEW S, NEW q \in Seq(S), NEW e \in S
    PROVE  /\ Append(q, e) \in Seq(S)
           /\ Len(Append(q, e)) = Len(q) + 1
           /\ \A i \in 1..Len(q) : Append(q, e)[i] = q[i]
           /\ Append(q, e)[Len(q) + 1] = e
OBVIOUS

(* What is left of a queue once its head is taken.                         *)
LEMMA TailOne ==
    ASSUME NEW S, NEW q \in Seq(S), q # <<>>
    PROVE  /\ Head(q) \in S /\ Head(q) = q[1]
           /\ Tail(q) \in Seq(S)
           /\ Len(Tail(q)) = Len(q) - 1
           /\ \A i \in 1..Len(Tail(q)) : Tail(q)[i] = q[i + 1]
OBVIOUS

(* An element of a sequence.                                               *)
LEMMA ElementFacts ==
    ASSUME NEW S, NEW q \in Seq(S)
    PROVE  DOMAIN q = 1..Len(q) /\ Len(q) \in Nat /\ \A i \in 1..Len(q) : q[i] \in S
OBVIOUS

(* The calls of a thread.                                                  *)
LEMMA FrameFacts ==
    ASSUME TypeOK, NEW t \in Thread
    PROVE  /\ frames[t] \in Seq([mark : Nat, base : 0..MaxSlots])
           /\ DOMAIN frames[t] = 1..Len(frames[t]) /\ Len(frames[t]) \in Nat
           /\ \A i \in 1..Len(frames[t]) :
                frames[t][i].mark \in Nat /\ frames[t][i].base \in 0..MaxSlots
                    /\ frames[t][i].base \in Nat
<1> DEFINE F == [mark : Nat, base : 0..MaxSlots]
<1>1. frames[t] \in Seq(F)
  BY DEF TypeOK
<1>2. \A f \in F : f.mark \in Nat /\ f.base \in 0..MaxSlots /\ f.base \in Nat
  BY GcAssumption
<1>3. DOMAIN frames[t] = 1..Len(frames[t]) /\ Len(frames[t]) \in Nat
      /\ \A i \in 1..Len(frames[t]) : frames[t][i] \in F
  <2> HIDE DEF F
  <2> QED BY <1>1, ElementFacts
<1> QED BY <1>1, <1>2, <1>3

(* Variables are stack slots.                                              *)
LEMMA LocalsFacts ==
    ASSUME TypeOK, NEW t \in Thread
    PROVE  top[t] \in Nat /\ top[t] <= MaxSlots /\ Locals(t) \subseteq Slot
<1>1. top[t] \in 0..MaxSlots /\ MaxSlots \in Nat
  BY GcAssumption DEF TypeOK
<1>2. \A i \in 1..top[t] : i \in 0..MaxSlots
  BY <1>1
<1> QED BY <1>1, <1>2 DEF Locals, Slot

(* __nc_gc_alloc, with or without a collection first.                      *)
LEMMA StepAlloc ==
    ASSUME StackInv, NEW t \in Thread, Alloc(t)
    PROVE  StackInv'
<1> DEFINE kept == IF Due THEN Marked ELSE heap
<1>1. PICK b \in Block \ kept :
        /\ heap' = kept \cup {b}
        /\ field' = [c \in Block |-> IF c \in kept THEN field[c] ELSE Null]
        /\ temps' = [temps EXCEPT ![t] = Append(@, b)]
  BY DEF Alloc
<1>2. UNCHANGED <<roots, mem, unset, frames, top, handle, status, spawner>>
  BY DEF Alloc
<1>3. TypeOK /\ RootsExact /\ MarksInv /\ PointersInv
  BY DEF StackInv
<1>4. kept \subseteq heap /\ heap \subseteq Block
  BY <1>3, MarkedFacts DEF TypeOK
<1>5. TypeOK'
  <2>1. temps' \in [Thread -> Seq(Block \cup {Null})]
    <3>1. temps[t] \in Seq(Block \cup {Null})
      BY <1>3 DEF TypeOK
    <3>2. Append(temps[t], b) \in Seq(Block \cup {Null})
      BY <3>1, AppendOne
    <3> QED BY <3>2, <1>1, <1>3 DEF TypeOK
  <2>2. since' \in 0..Threshold
    BY <1>3, GcAssumption DEF Alloc, TypeOK, Due
  <2>3. heap' \subseteq Block /\ field' \in [Block -> Block \cup {Null}]
    BY <1>1, <1>3, <1>4 DEF TypeOK
  <2> QED BY <2>1, <2>2, <2>3, <1>2, <1>3 DEF TypeOK
<1>6. RootsExact' /\ MarksInv'
  BY <1>2, <1>3 DEF RootsExact, MarksInv, NoneSpawned
<1>7. ASSUME OneThread PROVE PointersInv'
  <2>1. t = Main
    BY <1>7, RunnerIsMain DEF OneThread, Alloc
  <2>2. temps[Main] = <<>> /\ MaxTemps = 1
    <3>1. Len(temps[Main]) < MaxTemps /\ temps[Main] \in Seq(Block \cup {Null})
      BY <2>1, <1>3 DEF Alloc, Room, TypeOK
    <3> QED BY <3>1, <1>7, GcAssumption DEF OneThread
  <2>3. \A c \in heap' : field'[c] \in heap' \cup {Null}
    <3>1. \A c \in kept : field[c] \in kept \cup {Null}
      BY <1>3, <1>4, <1>7, MarkedFacts DEF PointersInv
    <3> QED BY <3>1, <1>1, <1>4
  <2>4. \A s \in Locals(Main) \ unset : mem[s] \in kept \cup {Null}
    BY <1>3, <1>7, MarkedFacts DEF PointersInv, OneThread, NoneSpawned
  <2>5. (Locals(Main) \ unset)' = Locals(Main) \ unset
    BY <1>2 DEF Locals
  <2>6. temps'[Main] = Append(<<>>, b)
    BY <1>1, <1>3, <2>1, <2>2 DEF TypeOK
  <2>7. Len(temps'[Main]) = 1 /\ temps'[Main][1] = b /\ DOMAIN temps'[Main] = 1..1
    BY <2>6
  <2> QED BY <2>2, <2>3, <2>4, <2>5, <2>7, <1>1, <1>2 DEF PointersInv
<1>8. PointersInv'
  BY <1>2, <1>7 DEF PointersInv, OneThread, NoneSpawned
<1> QED BY <1>5, <1>6, <1>8 DEF StackInv

(* runtime.gc_collect().                                                   *)
LEMMA StepCollect ==
    ASSUME StackInv, NEW t \in Thread, Collect(t)
    PROVE  StackInv'
<1>1. TypeOK /\ RootsExact /\ MarksInv /\ PointersInv
  BY DEF StackInv
<1>2. UNCHANGED <<roots, mem, unset, frames, top, temps, handle, status, spawner>>
  BY DEF Collect
<1>3. heap' = Marked /\ field' = [c \in Block |-> IF c \in Marked THEN field[c] ELSE Null]
  BY DEF Collect
<1>4. TypeOK'
  <2>1. heap' \subseteq Block /\ field' \in [Block -> Block \cup {Null}]
    BY <1>1, <1>3, MarkedFacts DEF TypeOK
  <2>2. since' \in 0..Threshold
    BY GcAssumption DEF Collect
  <2> QED BY <2>1, <2>2, <1>1, <1>2 DEF TypeOK
<1>5. RootsExact' /\ MarksInv'
  BY <1>1, <1>2 DEF RootsExact, MarksInv, NoneSpawned
<1>6. ASSUME OneThread PROVE PointersInv'
  <2>1. t = Main
    BY <1>6, RunnerIsMain DEF OneThread, Collect
  <2>2. temps[Main] = <<>>
    <3>1. Len(temps[Main]) < MaxTemps /\ temps[Main] \in Seq(Block \cup {Null})
      BY <2>1, <1>1 DEF Collect, Room, TypeOK
    <3> QED BY <3>1, <1>6, GcAssumption DEF OneThread
  <2>3. \A c \in heap' : field'[c] \in heap' \cup {Null}
    BY <1>1, <1>3, <1>6, MarkedFacts DEF PointersInv, TypeOK
  <2>4. \A s \in Locals(Main) \ unset : mem[s] \in Marked \cup {Null}
    BY <1>1, <1>6, MarkedFacts DEF PointersInv, OneThread, NoneSpawned
  <2>5. (Locals(Main) \ unset)' = Locals(Main) \ unset
    BY <1>2 DEF Locals
  <2>6. DOMAIN temps'[Main] = {} /\ Len(temps'[Main]) = 0
    BY <2>2, <1>2
  <2> QED BY <2>3, <2>4, <2>5, <2>6, <1>2, <1>3, GcAssumption DEF PointersInv
<1>7. PointersInv'
  BY <1>2, <1>6 DEF PointersInv, OneThread, NoneSpawned
<1> QED BY <1>4, <1>5, <1>7 DEF StackInv

(* A function is entered.                                                  *)
LEMMA StepCall ==
    ASSUME StackInv, NEW t \in Thread, Call(t)
    PROVE  StackInv'
<1> DEFINE f == [mark |-> Len(roots), base |-> top[t]]
<1>1. TypeOK /\ RootsExact /\ MarksInv /\ PointersInv
  BY DEF StackInv
<1>2. UNCHANGED <<heap, field, since, roots, mem, unset, top, temps, handle, status, spawner>>
  BY DEF Call
<1>3. frames' = [frames EXCEPT ![t] = Append(@, f)]
  BY DEF Call
<1>4. f \in [mark : Nat, base : 0..MaxSlots] /\ frames[t] \in Seq([mark : Nat, base : 0..MaxSlots])
  <2>1. roots \in Seq(Slot \cup {NoRoot}) /\ top[t] \in 0..MaxSlots
    BY <1>1 DEF TypeOK
  <2>2. Len(roots) \in Nat
    BY <2>1
  <2> QED BY <2>1, <2>2, <1>1 DEF TypeOK
<1>5. TypeOK'
  <2>1. frames' \in [Thread -> Seq([mark : Nat, base : 0..MaxSlots])]
    BY <1>1, <1>3, <1>4, AppendOne DEF TypeOK
  <2> QED BY <2>1, <1>1, <1>2 DEF TypeOK
<1>6. RootsExact'
  BY <1>1, <1>2 DEF RootsExact, NoneSpawned
<1>7. ASSUME NoneSpawned PROVE MarksInv'
  <2>1. t = Main /\ Main \in Thread
    BY <1>7, RunnerIsMain DEF Call
  <2>2. f.mark = f.base /\ f.base = top[Main] /\ top[Main] \in Nat
    BY <1>1, <1>7, <2>1 DEF RootsExact, TypeOK
  <2> DEFINE q == frames[Main]
  <2>3. q \in Seq([mark : Nat, base : 0..MaxSlots]) /\ frames'[Main] = Append(q, f)
    BY <1>1, <1>3, <1>4, <2>1 DEF TypeOK
  <2>4. /\ Len(frames'[Main]) = Len(q) + 1 /\ DOMAIN frames'[Main] = 1..Len(q) + 1
        /\ \A i \in 1..Len(q) : frames'[Main][i] = q[i]
        /\ frames'[Main][Len(q) + 1] = f
    BY <2>1, <2>3, <1>4, AppendOne
  <2>5. \A i \in 1..Len(q) : /\ q[i].mark = q[i].base /\ q[i].base <= top[Main]
                            /\ q[i].base \in Nat
                            /\ \A j \in i..Len(q) : q[i].base <= q[j].base
    <3>1. \A i \in 1..Len(q) : q[i].base \in Nat
      BY <1>1, <2>1, FrameFacts
    <3>2. DOMAIN q = 1..Len(q)
      BY <2>3
    <3> QED BY <1>1, <1>7, <3>1, <3>2 DEF MarksInv
  <2> HIDE DEF q, f
  <2> QED BY <1>1, <1>7, <2>2, <2>4, <2>5, <1>2, <2>3 DEF MarksInv
<1>8. PointersInv' /\ MarksInv'
  BY <1>1, <1>2, <1>7 DEF PointersInv, Locals, MarksInv, OneThread, NoneSpawned
<1> QED BY <1>5, <1>6, <1>8 DEF StackInv

(* A value is stored in a variable.                                        *)
LEMMA StoreFacts ==
    ASSUME TypeOK, PointersInv, NEW t \in Thread, NEW s \in Slot, Running(t), Store(t, s),
           UNCHANGED <<heap, field>>
    PROVE  /\ mem' \in [Slot -> Block \cup {Null}]
           /\ temps' \in [Thread -> Seq(Block \cup {Null})]
           /\ unset' = unset \ {s}
           /\ \A r \in Slot \ {s} : mem'[r] = mem[r]
           /\ OneThread => /\ mem'[s] \in heap \cup {Null}
                          /\ Len(temps'[Main]) <= MaxTemps
                          /\ \A i \in DOMAIN temps'[Main] :
                                temps'[Main][i] \in heap \cup {Null}
<1>1. temps[t] \in Seq(Block \cup {Null})
  BY DEF TypeOK
<1>2. unset' = unset \ {s}
  BY DEF Store
<1>3. CASE temps[t] # <<>> /\ mem' = [mem EXCEPT ![s] = Head(temps[t])]
           /\ temps' = [temps EXCEPT ![t] = Tail(@)]
  <2>1. /\ Head(temps[t]) \in Block \cup {Null} /\ Head(temps[t]) = temps[t][1]
        /\ Tail(temps[t]) \in Seq(Block \cup {Null})
        /\ Len(Tail(temps[t])) = Len(temps[t]) - 1
        /\ \A i \in 1..Len(Tail(temps[t])) : Tail(temps[t])[i] = temps[t][i + 1]
    BY <1>1, <1>3, TailOne
  <2>2. ASSUME OneThread PROVE /\ mem'[s] \in heap \cup {Null}
                               /\ Len(temps'[Main]) <= MaxTemps
                               /\ \A i \in DOMAIN temps'[Main] :
                                    temps'[Main][i] \in heap \cup {Null}
    <3>1. t = Main
      BY <2>2, RunnerIsMain DEF OneThread
    <3>2. /\ mem'[s] = temps[Main][1] /\ temps'[Main] = Tail(temps[Main])
          /\ DOMAIN temps[Main] = 1..Len(temps[Main]) /\ Len(temps[Main]) \in Nat \ {0}
          /\ DOMAIN temps'[Main] = 1..Len(temps[Main]) - 1
      BY <1>1, <1>3, <2>1, <3>1 DEF TypeOK
    <3>3. /\ Len(temps[Main]) <= MaxTemps
          /\ \A i \in 1..Len(temps[Main]) : temps[Main][i] \in heap \cup {Null}
      BY <2>2, <3>2 DEF PointersInv
    <3> QED BY <2>1, <3>1, <3>2, <3>3, GcAssumption
  <2> QED BY <1>2, <1>3, <2>1, <2>2 DEF TypeOK
<1>4. CASE (\E v \in Vars(t) \cup {Null} : mem' = [mem EXCEPT ![s] = v]) /\ temps' = temps
  <2>1. PICK v \in Vars(t) \cup {Null} : mem' = [mem EXCEPT ![s] = v]
    BY <1>4
  <2>2. Locals(t) \subseteq Slot
    BY LocalsFacts
  <2>3. v \in Block \cup {Null}
    BY <2>2 DEF Vars, TypeOK
  <2>4. OneThread => v \in heap \cup {Null}
    BY RunnerIsMain DEF OneThread, PointersInv, Vars
  <2> QED BY <1>2, <1>4, <2>1, <2>3, <2>4 DEF TypeOK, PointersInv
<1> QED BY <1>3, <1>4 DEF Store

(* An assignment.                                                          *)
LEMMA StepAssign ==
    ASSUME StackInv, NEW t \in Thread, Assign(t)
    PROVE  StackInv'
<1>1. TypeOK /\ RootsExact /\ MarksInv /\ PointersInv
  BY DEF StackInv
<1>2. PICK s \in Locals(t) : Running(t) /\ Store(t, s)
  BY DEF Assign
<1>3. UNCHANGED <<heap, field, since, roots, frames, top, handle, status, spawner>>
  BY DEF Assign
<1>4. s \in Slot
  BY <1>1, <1>2, LocalsFacts
<1>5. TypeOK'
  BY <1>1, <1>2, <1>3, <1>4, StoreFacts DEF TypeOK
<1>6. RootsExact' /\ MarksInv'
  BY <1>1, <1>3 DEF RootsExact, MarksInv, NoneSpawned
<1>7. PointersInv'
  <2>1. Locals(Main)' = Locals(Main) /\ Locals(Main) \subseteq Slot
    BY <1>1, <1>3, LocalsFacts DEF Locals, Thread
  <2> QED BY <1>1, <1>2, <1>3, <1>4, <2>1, StoreFacts DEF PointersInv, OneThread, NoneSpawned
<1> QED BY <1>5, <1>6, <1>7 DEF StackInv

(* A variable comes into being.                                            *)
LEMMA StepDeclare ==
    ASSUME StackInv, NEW t \in Thread, Declare(t)
    PROVE  StackInv'
<1> DEFINE s == <<t, top[t] + 1>>
<1>1. TypeOK /\ RootsExact /\ MarksInv /\ PointersInv
  BY DEF StackInv
<1>2. /\ Running(t) /\ top[t] < MaxSlots
      /\ top' = [top EXCEPT ![t] = @ + 1]
      /\ roots' = Append(roots, s)
      /\ \/ Store(t, s)
         \/ /\ \E v \in Block \cup {Null} : mem' = [mem EXCEPT ![s] = v]
            /\ unset' = unset \cup {s} /\ temps' = temps
      /\ UNCHANGED <<heap, field, since, frames, handle, status, spawner>>
  BY DEF Declare
<1>3. top[t] \in 0..MaxSlots /\ MaxSlots \in Nat
  BY <1>1, GcAssumption DEF TypeOK
<1>4. s \in Slot
  BY <1>2, <1>3 DEF Slot
<1>5. TypeOK'
  <2>1. roots' \in Seq(Slot \cup {NoRoot})
    BY <1>1, <1>2, <1>4, AppendOne DEF TypeOK
  <2>2. top' \in [Thread -> 0..MaxSlots]
    BY <1>1, <1>2, <1>3 DEF TypeOK
  <2>3. mem' \in [Slot -> Block \cup {Null}] /\ unset' \subseteq Slot
        /\ temps' \in [Thread -> Seq(Block \cup {Null})]
    <3>1. CASE Store(t, s)
      BY <1>1, <1>2, <1>4, <3>1, StoreFacts DEF TypeOK
    <3>2. CASE /\ \E v \in Block \cup {Null} : mem' = [mem EXCEPT ![s] = v]
               /\ unset' = unset \cup {s} /\ temps' = temps
      BY <1>1, <1>4, <3>2 DEF TypeOK
    <3> QED BY <1>2, <3>1, <3>2
  <2> QED BY <1>1, <1>2, <2>1, <2>2, <2>3 DEF TypeOK
<1>6. ASSUME NoneSpawned PROVE roots' = [i \in 1..top'[Main] |-> <<Main, i>>]
  <2>1. t = Main /\ top'[Main] = top[Main] + 1
    BY <1>1, <1>2, <1>6, RunnerIsMain DEF NoneSpawned, TypeOK
  <2>2. roots = [i \in 1..top[Main] |-> <<Main, i>>] /\ Len(roots) = top[Main]
    BY <1>1, <1>3, <1>6, <2>1 DEF RootsExact
  <2>3. roots \in Seq(Slot \cup {NoRoot})
    BY <1>1 DEF TypeOK
  <2> QED BY <1>2, <1>3, <2>1, <2>2, <2>3
<1>7. MarksInv'
  <2>1. ASSUME NoneSpawned PROVE \A i \in DOMAIN frames[Main] : frames[Main][i].base \in Nat
    BY <1>1, FrameFacts DEF Thread
  <2>2. NoneSpawned => /\ top[Main] \in Nat /\ top'[Main] = top[Main] + 1
                       /\ \A g \in GT : top'[g] = top[g]
    BY <1>1, <1>2, <1>3, RunnerIsMain, GcAssumption DEF TypeOK, Thread
  <2> QED BY <1>1, <1>2, <2>1, <2>2 DEF MarksInv, NoneSpawned
<1>8. ASSUME OneThread PROVE PointersInv'
  <2>1. t = Main /\ top'[Main] = top[Main] + 1 /\ top[Main] \in Nat
    BY <1>1, <1>2, <1>3, <1>8, RunnerIsMain DEF OneThread, TypeOK
  <2>2. Locals(Main)' = Locals(Main) \cup {s} /\ Locals(Main) \subseteq Slot
    <3>1. 1..top'[Main] = (1..top[Main]) \cup {top[Main] + 1}
      BY <2>1
    <3>2. 1..top[Main] \subseteq 0..MaxSlots
      BY <2>1, <1>3
    <3>3. Locals(Main)' = {<<Main, i>> : i \in 1..top'[Main]}
      BY DEF Locals
    <3> QED BY <2>1, <3>1, <3>2, <3>3 DEF Locals, Slot, Thread
  <2>3. CASE Store(t, s)
    BY <1>1, <1>2, <1>4, <1>8, <2>2, <2>3, StoreFacts DEF PointersInv
  <2>4. CASE /\ \E v \in Block \cup {Null} : mem' = [mem EXCEPT ![s] = v]
             /\ unset' = unset \cup {s} /\ temps' = temps
    <3>1. \A r \in Slot \ {s} : mem'[r] = mem[r]
      BY <1>1, <2>4 DEF TypeOK
    <3>2. \A r \in (Locals(Main) \ unset)' : r \in Locals(Main) \ unset /\ mem'[r] = mem[r]
      BY <2>2, <2>4, <3>1
    <3> QED BY <1>1, <1>2, <1>8, <2>4, <3>2 DEF PointersInv
  <2> QED BY <1>2, <2>3, <2>4
<1>9. PointersInv'
  BY <1>2, <1>8 DEF PointersInv, OneThread, NoneSpawned
<1> QED BY <1>2, <1>5, <1>6, <1>7, <1>9 DEF StackInv, RootsExact, NoneSpawned

(* An assignment through a pointer.                                        *)
LEMMA StepSetField ==
    ASSUME StackInv, NEW t \in Thread, SetField(t)
    PROVE  StackInv'
<1>1. TypeOK /\ RootsExact /\ MarksInv /\ PointersInv
  BY DEF StackInv
<1>2. PICK b \in Held(t) \cap heap, v \in Held(t) \cup {Null} : field' = [field EXCEPT ![b] = v]
  BY DEF SetField
<1>3. UNCHANGED <<heap, since, roots, mem, unset, frames, top, temps, handle, status, spawner>>
  BY DEF SetField
<1>4. b \in Block
  BY <1>1, <1>2 DEF TypeOK
<1>5. v \in Block \cup {Null}
  <2>1. temps[t] \in Seq(Block \cup {Null})
    BY <1>1 DEF TypeOK
  <2>2. \A i \in DOMAIN temps[t] : temps[t][i] \in Block \cup {Null}
    BY <2>1
  <2>3. \A r \in Locals(t) : mem[r] \in Block \cup {Null}
    BY <1>1, LocalsFacts DEF TypeOK
  <2> QED BY <1>2, <2>2, <2>3 DEF Held, Vars
<1>6. OneThread => v \in heap \cup {Null}
  BY <1>1, <1>2, RunnerIsMain DEF OneThread, PointersInv, Held, Vars, SetField
<1>7. TypeOK'
  BY <1>1, <1>2, <1>3, <1>4, <1>5 DEF TypeOK
<1>8. RootsExact' /\ MarksInv'
  BY <1>1, <1>3 DEF RootsExact, MarksInv, NoneSpawned
<1>9. PointersInv'
  BY <1>1, <1>2, <1>3, <1>4, <1>6 DEF PointersInv, Locals, TypeOK, OneThread, NoneSpawned
<1> QED BY <1>7, <1>8, <1>9 DEF StackInv

(* An expression's value is dropped.                                       *)
LEMMA StepDiscard ==
    ASSUME StackInv, NEW t \in Thread, Discard(t)
    PROVE  StackInv'
<1>1. TypeOK /\ RootsExact /\ MarksInv /\ PointersInv
  BY DEF StackInv
<1>2. temps[t] # <<>> /\ temps' = [temps EXCEPT ![t] = Tail(@)]
  BY DEF Discard
<1>3. UNCHANGED <<heap, field, since, roots, mem, unset, frames, top, handle, status, spawner>>
  BY DEF Discard
<1>4. temps[t] \in Seq(Block \cup {Null})
  BY <1>1 DEF TypeOK
<1>5. /\ Tail(temps[t]) \in Seq(Block \cup {Null})
      /\ Len(Tail(temps[t])) = Len(temps[t]) - 1
      /\ \A i \in 1..Len(Tail(temps[t])) : Tail(temps[t])[i] = temps[t][i + 1]
  BY <1>2, <1>4, TailOne
<1>6. TypeOK'
  BY <1>1, <1>2, <1>3, <1>5 DEF TypeOK
<1>7. RootsExact' /\ MarksInv'
  BY <1>1, <1>3 DEF RootsExact, MarksInv, NoneSpawned
<1>8. ASSUME OneThread PROVE PointersInv'
  <2>1. t = Main
    BY <1>8, RunnerIsMain DEF OneThread, Discard
  <2>2. /\ temps'[Main] = Tail(temps[Main])
        /\ DOMAIN temps'[Main] = 1..Len(temps[Main]) - 1
        /\ DOMAIN temps[Main] = 1..Len(temps[Main]) /\ Len(temps[Main]) \in Nat \ {0}
    BY <1>1, <1>2, <1>4, <1>5, <2>1 DEF TypeOK
  <2>3. Len(temps'[Main]) <= MaxTemps
    BY <1>1, <1>5, <1>8, <2>1, <2>2, GcAssumption DEF PointersInv
  <2>4. \A i \in DOMAIN temps'[Main] : temps'[Main][i] \in heap \cup {Null}
    BY <1>1, <1>5, <1>8, <2>1, <2>2 DEF PointersInv
  <2> QED BY <1>1, <1>3, <1>8, <2>3, <2>4 DEF PointersInv, Locals
<1>9. PointersInv'
  BY <1>3, <1>8 DEF PointersInv, OneThread, NoneSpawned
<1> QED BY <1>6, <1>7, <1>9 DEF StackInv

(* A function returns: the variables that are left are those below the     *)
(* base of its frame, and the rewind leaves just their slots.              *)
LEMMA StepReturn ==
    ASSUME StackInv, NEW t \in Thread, Return(t)
    PROVE  StackInv'
<1> DEFINE q == frames[t]
           n == Len(frames[t])
           f == q[n]
<1>1. TypeOK /\ RootsExact /\ MarksInv /\ PointersInv
  BY DEF StackInv
<1>2. /\ Running(t) /\ q # <<>>
      /\ roots' = Rewound(f.mark)
      /\ frames' = [frames EXCEPT ![t] = SubSeq(@, 1, Len(@) - 1)]
      /\ top' = [top EXCEPT ![t] = f.base]
      /\ unset' = {s \in unset : ~(s[1] = t /\ s[2] > f.base)}
      /\ \/ temps' = [temps EXCEPT ![t] = <<>>]
         \/ /\ Room(t)
            /\ \E i \in {j \in (f.base + 1)..top[t] : <<t, j>> \notin unset} :
                    temps' = [temps EXCEPT ![t] = Append(@, mem[<<t, i>>])]
      /\ spawner' = [g \in GT |-> IF spawner[g] = <<t, Len(frames[t])>> THEN NoCall ELSE spawner[g]]
      /\ mem' = [s \in Slot |-> IF s[1] = t /\ s[2] > f.base THEN Null ELSE mem[s]]
      /\ UNCHANGED <<heap, field, since, handle, status>>
  BY DEF Return, Running
<1>3. /\ q \in Seq([mark : Nat, base : 0..MaxSlots]) /\ DOMAIN q = 1..n
      /\ n \in Nat \ {0} /\ f.mark \in Nat /\ f.base \in 0..MaxSlots /\ f.base \in Nat
      /\ \A i \in 1..n : q[i].base \in Nat
  <2>1. q \in Seq([mark : Nat, base : 0..MaxSlots]) /\ DOMAIN q = 1..n /\ n \in Nat
    BY <1>1, FrameFacts
  <2>2. n # 0
    BY <1>2, <2>1
  <2> QED BY <1>1, <2>1, <2>2, FrameFacts
<1>4. /\ SubSeq(q, 1, n - 1) \in Seq([mark : Nat, base : 0..MaxSlots])
      /\ Len(SubSeq(q, 1, n - 1)) = n - 1
      /\ \A i \in 1..n - 1 : SubSeq(q, 1, n - 1)[i] = q[i]
  <2> DEFINE F == [mark : Nat, base : 0..MaxSlots]
  <2>1. q \in Seq(F) /\ n - 1 \in 0..Len(q)
    BY <1>3
  <2> HIDE DEF F
  <2>2. /\ SubSeq(q, 1, n - 1) \in Seq(F)
        /\ Len(SubSeq(q, 1, n - 1)) = n - 1
        /\ \A i \in 1..n - 1 : SubSeq(q, 1, n - 1)[i] = q[i]
    BY <2>1, PrefixFacts
  <2> QED BY <2>2 DEF F
<1>5. frames'[t] = SubSeq(q, 1, n - 1) /\ top'[t] = f.base
  BY <1>1, <1>2 DEF TypeOK
<1>6. Locals(t) \subseteq Slot /\ top[t] \in Nat /\ temps[t] \in Seq(Block \cup {Null})
  BY <1>1, LocalsFacts DEF TypeOK
<1>7. ASSUME NEW i \in {j \in (f.base + 1)..top[t] : <<t, j>> \notin unset}
      PROVE  <<t, i>> \in Locals(t) \ unset /\ mem[<<t, i>>] \in Block \cup {Null}
  <2>1. i \in 1..top[t]
    BY <1>3, <1>6
  <2> QED BY <1>1, <1>6, <2>1 DEF Locals, TypeOK
<1>8. TypeOK'
  <2>1. roots' \in Seq(Slot \cup {NoRoot})
    <3>1. roots \in Seq(Slot \cup {NoRoot})
      BY <1>1 DEF TypeOK
    <3>2. f.mark <= Len(roots) => f.mark \in 0..Len(roots)
      BY <1>3, <3>1
    <3> HIDE DEF f
    <3> QED BY <1>2, <3>1, <3>2, PrefixFacts DEF Rewound
  <2>2. frames' \in [Thread -> Seq([mark : Nat, base : 0..MaxSlots])]
    BY <1>1, <1>2, <1>4 DEF TypeOK
  <2>3. top' \in [Thread -> 0..MaxSlots]
    BY <1>1, <1>2, <1>3 DEF TypeOK
  <2>4. temps' \in [Thread -> Seq(Block \cup {Null})]
    <3>1. <<>> \in Seq(Block \cup {Null})
      OBVIOUS
    <3>2. \A e \in Block \cup {Null} : Append(temps[t], e) \in Seq(Block \cup {Null})
      BY <1>6, AppendOne
    <3>3. \E e \in Seq(Block \cup {Null}) : temps' = [temps EXCEPT ![t] = e]
      BY <1>2, <1>7, <3>1, <3>2
    <3> QED BY <1>1, <3>3 DEF TypeOK
  <2>6. mem' \in [Slot -> Block \cup {Null}]
    <3> HIDE DEF f
    <3> QED BY <1>1, <1>2 DEF TypeOK
  <2>5. unset' \subseteq Slot /\ spawner' \in [GT -> (Thread \X Nat) \cup {NoCall}]
    BY <1>1, <1>2 DEF TypeOK
  <2> QED BY <1>1, <1>2, <2>1, <2>2, <2>3, <2>4, <2>5, <2>6 DEF TypeOK
<1>9. ASSUME NoneSpawned
      PROVE  /\ t = Main /\ f.mark = f.base /\ f.base <= top[Main]
             /\ \A i \in 1..n - 1 : /\ q[i].mark = q[i].base
                                    /\ q[i].base <= f.base
                                    /\ \A j \in i..n - 1 : q[i].base <= q[j].base
  <2>1. t = Main
    BY <1>2, <1>9, RunnerIsMain
  <2>2. \A i \in 1..n : /\ q[i].mark = q[i].base /\ q[i].base <= top[Main]
                        /\ \A j \in i..n : q[i].base <= q[j].base
    BY <1>1, <1>3, <1>9, <2>1 DEF MarksInv
  <2> HIDE DEF q, n
  <2> QED BY <1>3, <2>1, <2>2 DEF f
<1>10. ASSUME NoneSpawned PROVE roots' = [i \in 1..top'[Main] |-> <<Main, i>>]
  <2>1. roots = [i \in 1..top[Main] |-> <<Main, i>>] /\ Len(roots) = top[Main]
    BY <1>1, <1>6, <1>9, <1>10 DEF RootsExact
  <2>2. f.base \in 0..Len(roots) /\ roots' = SubSeq(roots, 1, f.base)
    <3>1. f.mark = f.base /\ f.base <= top[Main] /\ f.base \in Nat /\ top[Main] \in Nat
      BY <1>3, <1>6, <1>9, <1>10
    <3> HIDE DEF f
    <3> QED BY <1>2, <2>1, <3>1 DEF Rewound
  <2>3. /\ roots' \in Seq(Slot \cup {NoRoot}) /\ Len(roots') = f.base
        /\ \A i \in 1..f.base : roots'[i] = roots[i]
    <3>1. roots \in Seq(Slot \cup {NoRoot})
      BY <1>1 DEF TypeOK
    <3> HIDE DEF f
    <3> QED BY <2>2, <3>1, PrefixFacts
  <2>4. roots' = [i \in 1..f.base |-> roots'[i]]
    BY <2>3
  <2>5. \A i \in 1..f.base : roots'[i] = <<Main, i>>
    <3> HIDE DEF f
    <3>1. \A i \in 1..f.base : i \in 1..top[Main]
      BY <1>6, <1>9, <1>10, <2>1, <2>2
    <3> QED BY <2>1, <2>3, <3>1
  <2> QED BY <1>5, <1>9, <1>10, <2>4, <2>5
<1>11. MarksInv'
  <2>1. NoneSpawned => DOMAIN frames'[Main] = 1..n - 1 /\ Len(frames'[Main]) = n - 1
                    /\ top'[Main] = f.base /\ \A i \in 1..n - 1 : frames'[Main][i] = q[i]
    BY <1>3, <1>4, <1>5, <1>9
  <2>2. NoneSpawned => \A i \in 1..n - 1 : \A j \in i..n - 1 : j \in 1..n - 1
    BY <1>3
  <2>3. NoneSpawned => \A g \in GT : top'[g] = 0
    BY <1>1, <1>2, <1>9, GcAssumption DEF MarksInv, TypeOK, Thread
  <2>4. NoneSpawned' => NoneSpawned
    BY <1>2 DEF NoneSpawned
  <2> HIDE DEF q, f, n
  <2> QED BY <1>9, <2>1, <2>2, <2>3, <2>4 DEF MarksInv
<1>12. ASSUME OneThread PROVE PointersInv'
  <2>1. t = Main /\ f.base <= top[Main] /\ top'[Main] = f.base
    BY <1>5, <1>9, <1>12 DEF OneThread
  <2>2. (Locals(Main) \ unset)' \subseteq Locals(Main) \ unset
    <3>1. ASSUME NEW i \in 1..f.base PROVE i \in 1..top[Main] /\ ~(i > f.base)
      BY <1>3, <1>6, <2>1
    <3>2. Locals(Main)' = {<<Main, i>> : i \in 1..f.base}
      BY <2>1 DEF Locals
    <3> HIDE DEF f
    <3> QED BY <1>2, <2>1, <3>1, <3>2 DEF Locals
  <2>4. \A s \in (Locals(Main) \ unset)' : mem'[s] = mem[s]
    <3>1. ASSUME NEW i \in 1..f.base PROVE ~(i > f.base) /\ <<Main, i>> \in Slot
      <4>1. i \in 0..MaxSlots
        BY <1>3, GcAssumption
      <4> QED BY <1>3, <2>1, <4>1 DEF Slot
    <3>2. Locals(Main)' = {<<Main, i>> : i \in 1..f.base}
      BY <2>1 DEF Locals
    <3> HIDE DEF f
    <3> QED BY <1>2, <2>1, <3>1, <3>2
  <2>3. Len(temps'[Main]) <= MaxTemps /\ \A i \in DOMAIN temps'[Main] : temps'[Main][i] \in heap \cup {Null}
    <3>1. CASE temps' = [temps EXCEPT ![t] = <<>>]
      <4>1. temps'[Main] = <<>>
        BY <1>1, <2>1, <3>1 DEF TypeOK
      <4> QED BY <4>1, GcAssumption
    <3>2. CASE Room(t) /\ \E i \in {j \in (f.base + 1)..top[t] : <<t, j>> \notin unset} :
                    temps' = [temps EXCEPT ![t] = Append(@, mem[<<t, i>>])]
      <4>1. PICK i \in {j \in (f.base + 1)..top[t] : <<t, j>> \notin unset} :
                    temps' = [temps EXCEPT ![t] = Append(@, mem[<<t, i>>])]
        BY <3>2
      <4>2. mem[<<t, i>>] \in heap \cup {Null} /\ mem[<<t, i>>] \in Block \cup {Null}
        BY <1>1, <1>7, <1>12, <2>1 DEF PointersInv
      <4>3. temps[Main] = <<>> /\ MaxTemps = 1
        BY <1>6, <1>12, <2>1, <3>2, GcAssumption DEF Room, OneThread
      <4>4. temps'[Main] = Append(<<>>, mem[<<t, i>>])
        BY <1>1, <2>1, <4>1, <4>3 DEF TypeOK
      <4>5. Len(temps'[Main]) = 1 /\ temps'[Main][1] = mem[<<t, i>>] /\ DOMAIN temps'[Main] = 1..1
        BY <4>4
      <4> QED BY <4>2, <4>3, <4>5
    <3> QED BY <1>2, <3>1, <3>2
  <2> QED BY <1>1, <1>2, <1>12, <2>2, <2>3, <2>4 DEF PointersInv
<1>13. PointersInv'
  BY <1>2, <1>12 DEF PointersInv, OneThread, NoneSpawned
<1> QED BY <1>2, <1>8, <1>10, <1>11, <1>13 DEF StackInv, RootsExact, NoneSpawned

(* The steps that only a program with green threads takes leave the        *)
(* conditional parts of the invariant alone.                               *)
LEMMA StepSpawn ==
    ASSUME StackInv, NEW t \in Thread, Spawn(t)
    PROVE  StackInv'
<1>1. TypeOK
  BY DEF StackInv
<1>2. PICK g \in GT :
        /\ status' = [status EXCEPT ![g] = "ready"]
        /\ \/ /\ temps[t] # <<>> /\ Head(temps[t]) # Null
              /\ mem' = [mem EXCEPT ![<<g, 0>>] = Head(temps[t])]
              /\ roots' = Append(roots, <<g, 0>>)
              /\ handle' = [handle EXCEPT ![g] = NewHandle]
              /\ spawner' = [spawner EXCEPT ![g] = <<t, Len(frames[t])>>]
              /\ temps' = [temps EXCEPT ![t] = Tail(@)]
           \/ UNCHANGED <<mem, roots, handle, spawner, temps>>
  BY DEF Spawn
<1>3. UNCHANGED <<heap, field, since, unset, frames, top>>
  BY DEF Spawn
<1>4. ASSUME UNCHANGED <<mem, roots, handle, spawner, temps>> PROVE TypeOK'
  BY <1>1, <1>2, <1>3, <1>4 DEF TypeOK
<1>5. ASSUME temps[t] # <<>>,
             mem' = [mem EXCEPT ![<<g, 0>>] = Head(temps[t])],
             roots' = Append(roots, <<g, 0>>),
             handle' = [handle EXCEPT ![g] = NewHandle],
             spawner' = [spawner EXCEPT ![g] = <<t, Len(frames[t])>>],
             temps' = [temps EXCEPT ![t] = Tail(@)]
      PROVE  TypeOK'
  <2>1. temps[t] \in Seq(Block \cup {Null}) /\ roots \in Seq(Slot \cup {NoRoot})
    BY <1>1 DEF TypeOK
  <2>2. Head(temps[t]) \in Block \cup {Null} /\ Tail(temps[t]) \in Seq(Block \cup {Null})
    BY <1>5, <2>1, TailOne
  <2>3. <<g, 0>> \in Slot
    BY GcAssumption DEF Slot, Thread
  <2>4. roots' \in Seq(Slot \cup {NoRoot})
    BY <1>5, <2>1, <2>3, AppendOne
  <2>5. handle' \in [GT -> Nat]
    <3>1. Len(roots) + 1 \in Nat
      BY <2>1
    <3> QED BY <1>1, <1>5, <3>1 DEF TypeOK, NewHandle
  <2>6. spawner' \in [GT -> (Thread \X Nat) \cup {NoCall}]
    <3>1. <<t, Len(frames[t])>> \in Thread \X Nat
      BY <1>1, FrameFacts
    <3> QED BY <1>1, <1>5, <3>1 DEF TypeOK
  <2>7. temps' \in [Thread -> Seq(Block \cup {Null})]
    BY <1>1, <1>5, <2>2 DEF TypeOK
  <2>8. mem' \in [Slot -> Block \cup {Null}]
    BY <1>1, <1>5, <2>2, <2>3 DEF TypeOK
  <2>9. status' \in [Thread -> {"unborn", "ready", "started", "gone"}]
    BY <1>1, <1>2 DEF TypeOK
  <2> QED BY <1>1, <1>3, <2>4, <2>5, <2>6, <2>7, <2>8, <2>9 DEF TypeOK
<1>6. TypeOK'
  BY <1>2, <1>4, <1>5
<1>7. ~NoneSpawned'
  <2>1. g \in Thread /\ status'[g] = "ready"
    BY <1>1, <1>2 DEF TypeOK, Thread
  <2> QED BY <2>1 DEF NoneSpawned
<1> QED BY <1>6, <1>7 DEF StackInv, RootsExact, MarksInv, PointersInv, OneThread

(* A green thread is dispatched for the first time.                        *)
LEMMA StepStart ==
    ASSUME StackInv, NEW g \in GT, Start(g)
    PROVE  StackInv'
<1>1. TypeOK /\ g \in Thread
  BY DEF StackInv, Thread
<1>2. roots \in Seq(Slot \cup {NoRoot}) /\ Len(roots) \in Nat
  <2>1. roots \in Seq(Slot \cup {NoRoot})
    BY <1>1 DEF TypeOK
  <2> QED BY <2>1
<1>3. <<g, 0>> \in Slot /\ <<g, 1>> \in Slot /\ 1 \in 0..MaxSlots
  BY <1>1, GcAssumption DEF Slot, Start
<1>4. roots' \in Seq(Slot \cup {NoRoot})
  BY <1>2, <1>3, AppendOne DEF Start
<1>5. frames' \in [Thread -> Seq([mark : Nat, base : 0..MaxSlots])]
  <2> DEFINE f == [mark |-> Len(roots), base |-> 0]
             F == [mark : Nat, base : 0..MaxSlots]
  <2>1. f \in F
    BY <1>2, GcAssumption
  <2>2. <<f>> \in Seq(F)
    <3> HIDE DEF f, F
    <3> QED BY <2>1
  <2> QED BY <1>1, <2>2 DEF TypeOK, Start
<1>6. top' \in [Thread -> 0..MaxSlots] /\ mem' \in [Slot -> Block \cup {Null}]
  BY <1>1, <1>3 DEF TypeOK, Start
<1>7. status' \in [Thread -> {"unborn", "ready", "started", "gone"}]
  BY <1>1 DEF TypeOK, Start
<1>8. TypeOK'
  BY <1>1, <1>4, <1>5, <1>6, <1>7 DEF TypeOK, Start
<1>9. ~NoneSpawned'
  <2>1. status'[g] = "started"
    BY <1>1 DEF TypeOK, Start
  <2> QED BY <2>1 DEF NoneSpawned
<1> QED BY <1>8, <1>9 DEF StackInv, RootsExact, MarksInv, PointersInv, OneThread

(* g_finish_dead.                                                          *)
LEMMA StepFinish ==
    ASSUME StackInv, NEW g \in GT, Finish(g)
    PROVE  StackInv'
<1>1. TypeOK /\ g \in Thread
  BY DEF StackInv, Thread
<1>2. roots' \in Seq(Slot \cup {NoRoot})
  <2> DEFINE S == Slot \cup {NoRoot}
  <2>1. roots \in Seq(S) /\ NoRoot \in S
    BY <1>1 DEF TypeOK
  <2>2. roots' = [i \in DOMAIN roots |-> IF i = handle[g] THEN NoRoot ELSE roots[i]]
    BY DEF Finish
  <2> HIDE DEF S
  <2>3. DOMAIN roots = 1..Len(roots) /\ Len(roots) \in Nat /\ \A i \in 1..Len(roots) : roots[i] \in S
    BY <2>1, ElementFacts
  <2>4. roots' \in Seq(S)
    BY <2>1, <2>2, <2>3
  <2> QED BY <2>4 DEF S
<1>3. handle' \in [GT -> Nat] /\ status' \in [Thread -> {"unborn", "ready", "started", "gone"}]
  BY <1>1 DEF TypeOK, Finish
<1>4. TypeOK'
  <2>1. UNCHANGED <<heap, field, since, unset, frames, top, temps, spawner>>
    BY DEF Finish
  <2>2. mem' \in [Slot -> Block \cup {Null}]
    BY <1>1 DEF Finish, TypeOK
  <2> QED BY <1>1, <1>2, <1>3, <2>1, <2>2 DEF TypeOK
<1>5. ~NoneSpawned'
  <2>1. status'[g] = "gone"
    BY <1>1 DEF TypeOK, Finish
  <2> QED BY <2>1 DEF NoneSpawned
<1> QED BY <1>4, <1>5 DEF StackInv, RootsExact, MarksInv, PointersInv, OneThread

(* Every step preserves the invariant.                                     *)
LEMMA NextStack == StackInv /\ [Next]_vars => StackInv'
<1> SUFFICES ASSUME StackInv, [Next]_vars PROVE StackInv'
  OBVIOUS
<1>1. CASE UNCHANGED vars
  <2>1. TypeOK'
    BY <1>1 DEF vars, StackInv, TypeOK
  <2>2. RootsExact' /\ MarksInv' /\ PointersInv'
    BY <1>1 DEF vars, StackInv, RootsExact, MarksInv, PointersInv, Locals, OneThread, NoneSpawned
  <2> QED BY <2>1, <2>2 DEF StackInv
<1>2. ASSUME NEW t \in Thread,
             \/ Alloc(t) \/ Collect(t) \/ Call(t) \/ Declare(t) \/ Assign(t)
             \/ SetField(t) \/ Discard(t) \/ Return(t) \/ Spawn(t)
      PROVE  StackInv'
  BY <1>2, StepAlloc, StepCollect, StepCall, StepDeclare, StepAssign,
     StepSetField, StepDiscard, StepReturn, StepSpawn
<1>3. ASSUME NEW g \in GT, Start(g) \/ Finish(g) PROVE StackInv'
  BY <1>3, StepStart, StepFinish
<1>4. CASE Done
  BY <1>1, <1>4 DEF Done
<1> QED BY <1>1, <1>2, <1>3, <1>4 DEF Next

(* The calls made before the first step are main's.                        *)
LEMMA InitRooted == Init => RootedInv
BY GcAssumption DEF Init, RootedInv, Thread

(* An entry stays where it is as long as nothing below it is cut off.      *)
LEMMA RootedKept ==
    ASSUME StackInv, RootedInv, UNCHANGED <<status, spawner, handle, frames>>,
           roots' = roots \/ \E s \in Slot : roots' = Append(roots, s)
    PROVE  RootedInv'
<1>1. roots \in Seq(Slot \cup {NoRoot})
  BY DEF StackInv, TypeOK
<1>2. \A i \in DOMAIN roots : i \in DOMAIN roots' /\ roots'[i] = roots[i]
  <2>1. CASE roots' = roots
    BY <2>1
  <2>2. ASSUME NEW s \in Slot, roots' = Append(roots, s)
        PROVE  \A i \in DOMAIN roots : i \in DOMAIN roots' /\ roots'[i] = roots[i]
    BY <1>1, <2>2
  <2> QED BY <2>1, <2>2
<1> QED BY <1>2 DEF RootedInv

(* A call takes its mark above every entry.                                *)
LEMMA RootedCall ==
    ASSUME StackInv, RootedInv, NEW t \in Thread, Call(t)
    PROVE  RootedInv'
<1> DEFINE f == [mark |-> Len(roots), base |-> top[t]]
           F == [mark : Nat, base : 0..MaxSlots]
<1>1. Running(t) /\ frames' = [frames EXCEPT ![t] = Append(@, f)]
      /\ UNCHANGED <<roots, status, spawner, handle>>
  BY DEF Call
<1>2. Len(roots) \in Nat /\ DOMAIN roots = 1..Len(roots) /\ roots \in Seq(Slot \cup {NoRoot})
  <2>1. roots \in Seq(Slot \cup {NoRoot})
    BY DEF StackInv, TypeOK
  <2> QED BY <2>1, ElementFacts
<1>3. f \in F /\ f.mark = Len(roots)
  BY <1>2 DEF StackInv, TypeOK
<1>4. frames \in [Thread -> Seq(F)] /\ frames[t] \in Seq(F)
  BY DEF StackInv, TypeOK
<1>5. ASSUME NEW r \in Thread
      PROVE  /\ DOMAIN frames[r] \subseteq DOMAIN frames'[r]
             /\ \A i \in DOMAIN frames'[r] :
                   \/ i \in DOMAIN frames[r] /\ frames'[r][i] = frames[r][i]
                   \/ frames'[r][i].mark = Len(roots)
             /\ r # t => frames'[r] = frames[r]
  <2>1. CASE r # t
    BY <1>1, <1>4, <2>1
  <2>2. CASE r = t
    <3>1. frames'[t] = Append(frames[t], f)
      BY <1>1, <1>4
    <3> HIDE DEF f, F
    <3>2. /\ DOMAIN frames[t] = 1..Len(frames[t]) /\ Len(frames[t]) \in Nat
          /\ DOMAIN Append(frames[t], f) = 1..(Len(frames[t]) + 1)
          /\ \A i \in 1..Len(frames[t]) : Append(frames[t], f)[i] = frames[t][i]
          /\ Append(frames[t], f)[Len(frames[t]) + 1] = f
      BY <1>3, <1>4
    <3>3. \A i \in 1..(Len(frames[t]) + 1) : i \in 1..Len(frames[t]) \/ i = Len(frames[t]) + 1
      BY <3>2
    <3> QED BY <1>3, <2>2, <3>1, <3>2, <3>3
  <2> QED BY <2>1, <2>2
<1>6. \A g \in GT : status[g] \in {"unborn", "ready"} => g # t
  BY <1>1 DEF Running
<1>7. \A g \in GT : handle[g] \in DOMAIN roots => Len(roots) >= handle[g]
  BY <1>2
<1>8. GT \subseteq Thread /\ Main \in Thread
  BY DEF Thread
<1> QED BY <1>1, <1>5, <1>6, <1>7, <1>8 DEF RootedInv

(* A return cuts off what its own call pushed: the entry is below its      *)
(* mark, unless the call is the one that spawned.                          *)
LEMMA RootedReturn ==
    ASSUME StackInv, RootedInv, NEW t \in Thread, Return(t)
    PROVE  RootedInv'
<1> DEFINE q == frames[t]
           n == Len(frames[t])
           f == q[n]
           F == [mark : Nat, base : 0..MaxSlots]
<1>1. /\ Running(t) /\ q # <<>> /\ roots' = Rewound(f.mark)
      /\ frames' = [frames EXCEPT ![t] = SubSeq(@, 1, Len(@) - 1)]
      /\ spawner' = [g \in GT |-> IF spawner[g] = <<t, n>> THEN NoCall ELSE spawner[g]]
      /\ UNCHANGED <<handle, status>>
  BY DEF Return, Running
<1>2. TypeOK
  BY DEF StackInv
<1>3. q \in Seq(F) /\ DOMAIN q = 1..n /\ n \in Nat \ {0} /\ f.mark \in Nat
  <2>1. q \in Seq(F) /\ DOMAIN q = 1..n /\ n \in Nat
    BY <1>2, FrameFacts
  <2>2. n # 0
    BY <1>1, <2>1
  <2> QED BY <1>2, <2>1, <2>2, FrameFacts
<1>4. /\ DOMAIN frames'[t] = 1..(n - 1)
      /\ \A i \in 1..(n - 1) : i \in 1..n /\ frames'[t][i] = q[i]
  <2>1. frames'[t] = SubSeq(q, 1, n - 1)
    BY <1>1, <1>2 DEF TypeOK
  <2>2. n - 1 \in 0..Len(q)
    BY <1>3
  <2> HIDE DEF F
  <2>3. /\ SubSeq(q, 1, n - 1) \in Seq(F) /\ Len(SubSeq(q, 1, n - 1)) = n - 1
        /\ \A i \in 1..(n - 1) : SubSeq(q, 1, n - 1)[i] = q[i]
    BY <1>3, <2>2, PrefixFacts
  <2>4. DOMAIN SubSeq(q, 1, n - 1) = 1..(n - 1)
    BY <2>3, ElementFacts
  <2> HIDE DEF q, n
  <2> QED BY <1>3, <2>1, <2>3, <2>4
<1>5. \A r \in Thread : r # t => frames'[r] = frames[r]
  BY <1>1, <1>2 DEF TypeOK
<1>6. \A i \in DOMAIN roots : f.mark >= i => i \in DOMAIN roots' /\ roots'[i] = roots[i]
  <2>1. roots \in Seq(Slot \cup {NoRoot}) /\ DOMAIN roots = 1..Len(roots) /\ Len(roots) \in Nat
    <3>1. roots \in Seq(Slot \cup {NoRoot})
      BY <1>2 DEF TypeOK
    <3> QED BY <3>1, ElementFacts
  <2> HIDE DEF f
  <2>2. CASE f.mark <= Len(roots)
    <3>1. roots' = SubSeq(roots, 1, f.mark) /\ f.mark \in 0..Len(roots)
      BY <1>1, <1>3, <2>1, <2>2 DEF Rewound
    <3>2. /\ roots' \in Seq(Slot \cup {NoRoot}) /\ Len(roots') = f.mark
          /\ \A i \in 1..f.mark : roots'[i] = roots[i]
      BY <2>1, <3>1, PrefixFacts
    <3>3. DOMAIN roots' = 1..f.mark
      BY <3>2, ElementFacts
    <3> QED BY <1>3, <2>1, <3>2, <3>3
  <2>3. CASE ~(f.mark <= Len(roots))
    BY <1>1, <2>3 DEF Rewound
  <2> QED BY <2>2, <2>3
<1>7. ASSUME NEW g \in GT, spawner'[g] # NoCall
      PROVE  spawner'[g] = spawner[g] /\ spawner[g] # NoCall /\ spawner[g] # <<t, n>>
  BY <1>1, <1>7
<1>8. ASSUME NEW g \in GT, GT = {g}, spawner'[g] # NoCall, status[g] \in {"ready", "started"}
      PROVE  /\ f.mark >= handle[g]
             /\ t = Main => spawner[g][2] \in 1..(n - 1)
  <2>1. /\ spawner[g] # NoCall /\ spawner[g] # <<t, n>> /\ spawner[g][1] = Main
        /\ spawner[g][2] \in DOMAIN frames[Main]
        /\ \A i \in DOMAIN frames[Main] :
              i > spawner[g][2] => frames[Main][i].mark >= handle[g]
        /\ \A i \in DOMAIN frames[g] : frames[g][i].mark >= handle[g]
    BY <1>7, <1>8 DEF RootedInv
  <2>2. spawner[g] \in Thread \X Nat
    BY <1>2, <2>1 DEF TypeOK
  <2>3. spawner[g] = <<Main, spawner[g][2]>>
    BY <2>1, <2>2
  <2>4. n \in DOMAIN q
    BY <1>3
  <2>5. CASE t = Main
    <3>1. spawner[g][2] # n /\ spawner[g][2] \in 1..n
      BY <1>3, <2>1, <2>3, <2>5
    <3>2. n > spawner[g][2] /\ spawner[g][2] \in 1..(n - 1)
      BY <1>3, <3>1
    <3> QED BY <2>1, <2>4, <2>5, <3>2
  <2>6. CASE t # Main
    <3>1. t = g
      BY <1>8, <2>6 DEF Thread
    <3> QED BY <2>1, <2>4, <2>6, <3>1
  <2> QED BY <2>5, <2>6
<1>9. ASSUME NEW g \in GT, status[g] \in {"unborn", "ready"} PROVE g # t /\ frames'[g] = <<>>
  <2>1. frames[g] = <<>> /\ g \in Thread
    BY <1>9 DEF RootedInv, Thread
  <2> QED BY <1>1, <1>5, <2>1
<1>10. ASSUME NEW r \in Thread, NEW i \in DOMAIN frames'[r]
       PROVE  i \in DOMAIN frames[r] /\ frames'[r][i] = frames[r][i]
  BY <1>3, <1>4, <1>5
<1>11. ASSUME NEW g \in GT, GT = {g}, spawner'[g] # NoCall, status'[g] \in {"ready", "started"}
       PROVE  /\ spawner'[g][1] = Main /\ spawner'[g][2] \in DOMAIN frames'[Main]
              /\ handle'[g] \in DOMAIN roots' /\ roots'[handle'[g]] = <<g, 0>>
              /\ \A i \in DOMAIN frames'[Main] :
                    i > spawner'[g][2] => frames'[Main][i].mark >= handle'[g]
              /\ \A i \in DOMAIN frames'[g] : frames'[g][i].mark >= handle'[g]
  <2>1. /\ spawner'[g] = spawner[g] /\ spawner[g] # NoCall /\ status[g] \in {"ready", "started"}
        /\ handle'[g] = handle[g] /\ Main \in Thread /\ g \in Thread
    BY <1>1, <1>7, <1>11 DEF Thread
  <2>2. /\ spawner[g][1] = Main /\ spawner[g][2] \in DOMAIN frames[Main]
        /\ handle[g] \in DOMAIN roots /\ roots[handle[g]] = <<g, 0>>
        /\ \A i \in DOMAIN frames[Main] :
              i > spawner[g][2] => frames[Main][i].mark >= handle[g]
        /\ \A i \in DOMAIN frames[g] : frames[g][i].mark >= handle[g]
    BY <1>11, <2>1 DEF RootedInv
  <2>3. f.mark >= handle[g] /\ (t = Main => spawner[g][2] \in 1..(n - 1))
    BY <1>8, <1>11, <2>1
  <2>4. handle'[g] \in DOMAIN roots' /\ roots'[handle'[g]] = <<g, 0>>
    BY <1>6, <2>1, <2>2, <2>3
  <2>5. spawner'[g][2] \in DOMAIN frames'[Main]
    BY <1>4, <1>5, <2>1, <2>2, <2>3
  <2> HIDE DEF f, q, n
  <2> QED BY <1>10, <2>1, <2>2, <2>4, <2>5
<1>12. \A g \in GT : status'[g] = "unborn" => spawner'[g] = NoCall
  BY <1>1, <1>7 DEF RootedInv
<1> QED BY <1>1, <1>9, <1>11, <1>12 DEF RootedInv

(* spawn pushes the entry on top and takes its index for the handle.       *)
LEMMA RootedSpawn ==
    ASSUME StackInv, RootedInv, NEW t \in Thread, Spawn(t)
    PROVE  RootedInv'
<1>1. TypeOK /\ Running(t) /\ UNCHANGED frames
  BY DEF StackInv, Spawn
<1>2. PICK g \in GT :
        /\ status[g] = "unborn" /\ status' = [status EXCEPT ![g] = "ready"]
        /\ \/ /\ roots' = Append(roots, <<g, 0>>)
              /\ handle' = [handle EXCEPT ![g] = NewHandle]
              /\ spawner' = [spawner EXCEPT ![g] = <<t, Len(frames[t])>>]
           \/ UNCHANGED <<roots, handle, spawner>>
  BY DEF Spawn
<1>3. frames[g] = <<>> /\ spawner[g] = NoCall /\ g # t
  BY <1>1, <1>2 DEF RootedInv, Running
<1>4. \A h \in GT : /\ h # g => status'[h] = status[h]
                    /\ h = g => status'[h] = "ready"
  BY <1>1, <1>2 DEF TypeOK, Thread
<1>5. CASE UNCHANGED <<roots, handle, spawner>>
  BY <1>1, <1>3, <1>4, <1>5 DEF RootedInv
<1>6. CASE /\ roots' = Append(roots, <<g, 0>>)
           /\ handle' = [handle EXCEPT ![g] = NewHandle]
           /\ spawner' = [spawner EXCEPT ![g] = <<t, Len(frames[t])>>]
  <2>1. /\ roots \in Seq(Slot \cup {NoRoot}) /\ handle'[g] = Len(roots) + 1
        /\ spawner'[g] = <<t, Len(frames[t])>>
        /\ \A h \in GT : h # g => spawner'[h] = spawner[h]
    BY <1>1, <1>6 DEF TypeOK, NewHandle
  <2>2. handle'[g] \in DOMAIN roots' /\ roots'[handle'[g]] = <<g, 0>>
    BY <1>6, <2>1
  <2>3. /\ DOMAIN frames[t] = 1..Len(frames[t]) /\ Len(frames[t]) \in Nat
        /\ Len(frames[t]) # 0
    <3>1. DOMAIN frames[t] = 1..Len(frames[t]) /\ Len(frames[t]) \in Nat /\ frames[t] # <<>>
          /\ frames[t] \in Seq([mark : Nat, base : 0..MaxSlots])
      BY <1>1, FrameFacts DEF Running
    <3> QED BY <3>1, EmptySeq
  <2>4. ASSUME GT = {g} PROVE /\ t = Main
                              /\ spawner'[g][2] \in DOMAIN frames'[Main]
                              /\ \A i \in DOMAIN frames'[Main] : ~(i > spawner'[g][2])
    <3>1. t = Main
      BY <1>3, <2>4 DEF Thread
    <3> QED BY <1>1, <2>1, <2>3, <3>1
  <2>5. \A h \in GT : GT = {h} => h = g
    OBVIOUS
  <2>6. spawner'[g][1] = t /\ DOMAIN frames'[g] = {}
    BY <1>1, <1>3, <2>1
  <2>7. \A h \in GT : /\ status'[h] = "unborn" => spawner'[h] = NoCall
                      /\ status'[h] \in {"unborn", "ready"} => frames'[h] = <<>>
    BY <1>1, <1>3, <1>4, <2>1 DEF RootedInv
  <2> QED BY <2>2, <2>4, <2>5, <2>6, <2>7 DEF RootedInv
<1> QED BY <1>2, <1>5, <1>6

(* A green thread's first call takes its mark above its environment.       *)
LEMMA RootedStart ==
    ASSUME StackInv, RootedInv, NEW g \in GT, Start(g)
    PROVE  RootedInv'
<1> DEFINE f == [mark |-> Len(roots), base |-> 0]
<1>1. TypeOK /\ g \in Thread /\ g # Main
  BY GcAssumption DEF StackInv, Thread
<1>2. /\ status[g] = "ready" /\ status' = [status EXCEPT ![g] = "started"]
      /\ frames' = [frames EXCEPT ![g] = <<f>>] /\ roots' = Append(roots, <<g, 1>>)
      /\ UNCHANGED <<handle, spawner>>
  BY DEF Start
<1>3. \A h \in GT : /\ h # g => status'[h] = status[h] /\ frames'[h] = frames[h]
                    /\ h = g => status'[h] = "started" /\ frames'[h] = <<f>>
  BY <1>1, <1>2 DEF TypeOK, Thread
<1>4. frames'[Main] = frames[Main]
  BY <1>1, <1>2 DEF TypeOK, Thread
<1>5. roots \in Seq(Slot \cup {NoRoot}) /\ DOMAIN roots = 1..Len(roots) /\ Len(roots) \in Nat
  <2>1. roots \in Seq(Slot \cup {NoRoot})
    BY <1>1 DEF TypeOK
  <2> QED BY <2>1, ElementFacts
<1>6. \A i \in DOMAIN roots : i \in DOMAIN roots' /\ roots'[i] = roots[i] /\ f.mark >= i
  BY <1>2, <1>5
<1>7. DOMAIN <<f>> = {1} /\ <<f>>[1] = f
  <2> HIDE DEF f
  <2> QED OBVIOUS
<1>8. \A h \in GT : GT = {h} => h = g
  OBVIOUS
<1> HIDE DEF f
<1> QED BY <1>2, <1>3, <1>4, <1>6, <1>7, <1>8 DEF RootedInv

(* g_finish_dead: the thread that ends is the only one with an entry.      *)
LEMMA RootedFinish ==
    ASSUME StackInv, RootedInv, NEW g \in GT, Finish(g)
    PROVE  RootedInv'
<1>1. /\ status[g] = "started" /\ status' = [status EXCEPT ![g] = "gone"]
      /\ UNCHANGED <<frames, spawner>>
  BY DEF Finish
<1>2. \A h \in GT : /\ h # g => status'[h] = status[h]
                    /\ h = g => status'[h] = "gone"
  BY <1>1 DEF StackInv, TypeOK, Thread
<1>3. \A h \in GT : GT = {h} => h = g
  OBVIOUS
<1> QED BY <1>1, <1>2, <1>3 DEF RootedInv

(* Every step keeps an environment's entry in place.                       *)
LEMMA NextRooted == StackInv /\ RootedInv /\ [Next]_vars => RootedInv'
<1> SUFFICES ASSUME StackInv, RootedInv, [Next]_vars PROVE RootedInv'
  OBVIOUS
<1>1. CASE UNCHANGED vars
  BY <1>1, RootedKept DEF vars
<1>2. ASSUME NEW t \in Thread, Alloc(t) \/ Collect(t) \/ Assign(t) \/ SetField(t) \/ Discard(t)
      PROVE  RootedInv'
  BY <1>2, RootedKept DEF Alloc, Collect, Assign, SetField, Discard
<1>3. ASSUME NEW t \in Thread, Declare(t) PROVE RootedInv'
  <2>1. <<t, top[t] + 1>> \in Slot
    BY <1>3, GcAssumption DEF Declare, StackInv, TypeOK, Slot
  <2> QED BY <1>3, <2>1, RootedKept DEF Declare
<1>4. ASSUME NEW t \in Thread, Call(t) \/ Return(t) \/ Spawn(t) PROVE RootedInv'
  BY <1>4, RootedCall, RootedReturn, RootedSpawn
<1>5. ASSUME NEW g \in GT, Start(g) \/ Finish(g) PROVE RootedInv'
  BY <1>5, RootedStart, RootedFinish
<1>6. CASE Done
  BY <1>1, <1>6 DEF Done
<1> QED BY <1>1, <1>2, <1>3, <1>4, <1>5, <1>6 DEF Next

(* Until the first spawn, what is alive is main's assigned variables.      *)
LEMMA LiveAlone ==
    ASSUME StackInv, NoneSpawned
    PROVE  LiveSlots = Locals(Main) \ unset
<1>1. \A g \in GT : Locals(g) = {} /\ status[g] \notin {"ready", "started"}
  BY DEF StackInv, MarksInv, NoneSpawned, Locals
<1> QED BY <1>1 DEF LiveSlots, Thread

(* Until then, the collector reads main's variables and nothing else.      *)
LEMMA RootsAlone ==
    ASSUME StackInv, NoneSpawned
    PROVE  RootValues = {mem[s] : s \in Locals(Main)}
<1>1. roots = [i \in 1..top[Main] |-> <<Main, i>>]
  BY DEF StackInv, RootsExact
<1>2. /\ DOMAIN roots = 1..top[Main]
      /\ \A i \in 1..top[Main] : roots[i] = <<Main, i>> /\ roots[i] # NoRoot
  BY <1>1 DEF NoRoot
<1> QED BY <1>2 DEF RootValues, Locals

(* With one thread, the variables and the blocks they lead to are sound.   *)
LEMMA InvSound == StackInv /\ OneThread => Sound
<1> SUFFICES ASSUME StackInv, OneThread PROVE Sound
  OBVIOUS
<1>1. LiveSlots = Locals(Main) \ unset
  BY LiveAlone DEF OneThread
<1>2. \A b \in heap : field[b] \in heap \cup {Null}
  BY DEF StackInv, PointersInv
<1>3. \A s \in LiveSlots : mem[s] \in heap \cup {Null}
  BY <1>1 DEF StackInv, PointersInv
<1> QED BY <1>2, <1>3, ClosureFacts DEF Sound

(* The inductive invariant holds in every reachable state.                 *)
THEOREM GcInductive == Spec => []IInv
<1>1. Init => IInv
  BY InitStack, InitRooted DEF IInv
<1>2. IInv /\ [Next]_vars => IInv'
  BY NextStack, NextRooted DEF IInv
<1> QED BY <1>1, <1>2, PTL DEF Spec

(* Every variable keeps its type, with any number of green threads.        *)
THEOREM GcTypeCorrect == Spec => []TypeOK
<1>1. IInv => TypeOK
  BY DEF IInv, StackInv
<1> QED BY <1>1, GcInductive, PTL

(* With one thread, the root array is the list of the live variables at    *)
(* every point of every program: the rewinds that the compiler emits at    *)
(* each return undo exactly what the function pushed.                      *)
THEOREM RootsAreExact == Spec => []RootsExact
<1>1. IInv => RootsExact
  BY DEF IInv, StackInv
<1> QED BY <1>1, GcInductive, PTL

(* With one thread, and as long as no expression holds a new block while   *)
(* it allocates another, no collection frees a block that a live variable  *)
(* leads to.                                                               *)
THEOREM CollectorSound == Spec => []SoundAlone
<1>1. IInv => SoundAlone
  BY InvSound DEF IInv, SoundAlone
<1> QED BY <1>1, GcInductive, PTL

(* With one thread whose variables are all assigned, runtime.gc_collect()  *)
(* keeps what a live variable leads to and nothing else.                   *)
THEOREM CollectorComplete == Spec => CollectsGarbage
<1>1. ASSUME IInv, NoneSpawned, unset = {}, NEW t \in Thread, Collect(t)
      PROVE  heap' = Closure({mem[s] : s \in LiveSlots})
  <2>1. LiveSlots = Locals(Main)
    BY <1>1, LiveAlone DEF IInv
  <2>2. RootValues = {mem[s] : s \in Locals(Main)}
    BY <1>1, RootsAlone DEF IInv
  <2> QED BY <1>1, <2>1, <2>2 DEF Collect, Marked
<1>2. IInv => [NoneSpawned /\ unset = {} => \A t \in Thread :
                  Collect(t) => heap' = Closure({mem[s] : s \in LiveSlots})]_vars
  BY <1>1
<1> QED BY <1>2, GcInductive, PTL DEF CollectsGarbage

(* With one green thread, its environment is rooted, under the handle that *)
(* g_finish_dead drops, until the call that spawned it returns: no rewind  *)
(* of either thread cuts it off before.                                    *)
THEOREM EnvironmentIsRooted == Spec => []EnvironmentRooted
<1>1. IInv => EnvironmentRooted
  BY DEF IInv, RootedInv, EnvironmentRooted
<1> QED BY <1>1, GcInductive, PTL
=============================================================================
