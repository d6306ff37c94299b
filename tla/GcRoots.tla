------------------------------- MODULE GcRoots -------------------------------
(***************************************************************************)
(* The mark-sweep collector of runtime/ncrt.c and the discipline by which  *)
(* compiled code tells it what is alive: one process-wide array of root    *)
(* slots, to which a function pushes the address of every variable it      *)
(* declares and which it rewinds, on return, to the length it found.       *)
(*                                                                         *)
(* A slot is an address: <<t, i>> is the i-th managed variable on the      *)
(* stack of thread t, <<g, 0>> is &g->entry_arg of a green thread.  A      *)
(* block has one pointer field; the conservative scan of all its words     *)
(* finds the blocks its pointers lead to, whatever words they are in.      *)
(* Values that live in registers only while an expression is evaluated     *)
(* are temporaries: no slot is pushed for them.                            *)
(***************************************************************************)
EXTENDS Naturals, Sequences, FiniteSets

CONSTANTS
    GT,         \* green threads, each spawned at most once
    Main,
    Block,      \* addresses malloc may return for a block
    Null,
    Threshold,  \* allocations after which __nc_gc_alloc collects (64 KiB)
    MaxTemps,   \* bound: temporaries of one expression that are alive together
    MaxSlots,   \* bound: variables on all stacks together
    MaxDepth    \* bound: calls on all stacks together when one more is made

ASSUME GcAssumption ==
    /\ Threshold \in Nat \ {0}
    /\ MaxTemps \in Nat /\ MaxSlots \in Nat /\ MaxDepth \in Nat
    /\ Main \notin GT /\ Null \notin Block

Thread == GT \cup {Main}
Slot   == Thread \X (0..MaxSlots)

VARIABLES
    heap,    \* __nc_gc_blocks
    field,   \* the pointer stored in each block
    since,   \* __nc_gc_alloc_since_collect
    roots,   \* __nc_gc_roots[0 .. root_count-1]; <<>> stands for a NULL entry
    mem,     \* what is stored at each slot, Null where there is no variable
    unset,   \* slots of variables that have not been assigned yet
    frames,  \* calls of each thread: [mark, base]
    top,     \* variables in use on each thread's stack
    temps,   \* unrooted values of the expression each thread evaluates
    handle,  \* g->gc_root_handle (an index of roots), 0 for none
    status,  \* "unborn", "ready", "started", "gone"
    spawner  \* ghost: the call, <<thread, depth>>, that spawned a green
             \* thread, as long as it has not returned; NoCall after that

vars == <<heap, field, since, roots, mem, unset, frames, top, temps,
          handle, status, spawner>>

NoRoot == <<>>
NoCall == <<>>

(* main was called: __nc_gc_init emptied the root array and main's frame   *)
(* has its mark.                                                           *)
Init ==
    /\ heap = {}
    /\ field = [b \in Block |-> Null]
    /\ since = 0
    /\ roots = <<>>
    /\ mem = [s \in Slot |-> Null]
    /\ unset = {}
    /\ frames = [t \in Thread |-> IF t = Main THEN <<[mark |-> 0, base |-> 0]>> ELSE <<>>]
    /\ top = [t \in Thread |-> 0]
    /\ temps = [t \in Thread |-> <<>>]
    /\ handle = [g \in GT |-> 0]
    /\ status = [t \in Thread |-> IF t = Main THEN "started" ELSE "unborn"]
    /\ spawner = [g \in GT |-> NoCall]

-----------------------------------------------------------------------------
(* __nc_gc_mark_ptr ignores what is not the address of a block and follows *)
(* the words of what is: the marked set is the least one that contains S   *)
(* and is closed under the fields of its blocks.                           *)
ClosedShallow(C) == TRUE   \* mutant: mark without scanning the block
Closed(C)  == \A b \in C : field[b] \in heap => field[b] \in C
Closure(S) ==
    {b \in heap : \A C \in SUBSET heap : S \cap heap \subseteq C /\ Closed(C) => b \in C}

RootValuesAndFields ==     \* mutant: garbage blocks are roots too
    {mem[roots[i]] : i \in {j \in DOMAIN roots : roots[j] # NoRoot}}
        \cup {field[b] : b \in heap}
RootValues == {mem[roots[i]] : i \in {j \in DOMAIN roots : roots[j] # NoRoot}}

MarkedUnchecked == RootValues   \* mutant: any word counts as a block

(* __nc_gc_do_collect: mark from the root slots, free the rest.  A slot    *)
(* whose frame is gone (one green thread's entry can survive its call when *)
(* another thread's rewind ran between) reads as null.                     *)
Marked == Closure(RootValues)

(* The values the code of t may copy or store: its variables and its       *)
(* temporaries.                                                            *)
Locals(t) == {<<t, i>> : i \in 1..top[t]}
InUse     == UNION {Locals(t) : t \in Thread}
Calls     == UNION {{t} \X (DOMAIN frames[t]) : t \in Thread}
Vars(t)   == {mem[s] : s \in Locals(t) \ unset}
Held(t)   == Vars(t) \cup {temps[t][i] : i \in DOMAIN temps[t]}

Running(t) == status[t] = "started" /\ frames[t] # <<>>

Room(t) == Len(temps[t]) < MaxTemps

(* __nc_gc_alloc counts the allocation, then compares.                     *)
Due     == since + 1 >= Threshold

(* __nc_gc_alloc: collect first once enough was allocated, then link a     *)
(* zeroed block; its address is a temporary of the caller.                 *)
Alloc(t) ==
    /\ Running(t) /\ Room(t)
    /\ LET kept == IF Due THEN Marked ELSE heap IN
        /\ \E b \in Block \ kept :
            /\ heap' = kept \cup {b}
            /\ field' = [c \in Block |-> IF c \in kept THEN field[c] ELSE Null]
            /\ temps' = [temps EXCEPT ![t] = Append(@, b)]
        /\ since' = IF Due THEN 1 ELSE since + 1
    /\ UNCHANGED <<roots, mem, unset, frames, top, handle, status, spawner>>

(* runtime.gc_collect().                                                   *)
Collect(t) ==
    /\ Running(t) /\ Room(t)
    /\ heap' = Marked
    /\ field' = [c \in Block |-> IF c \in Marked THEN field[c] ELSE Null]
    /\ since' = 0
    /\ UNCHANGED <<roots, mem, unset, frames, top, temps, handle, status, spawner>>

(* A function is entered: __nc_gc_root_mark.                               *)
Call(t) ==
    /\ Running(t) /\ Cardinality(Calls) < MaxDepth
    /\ frames' = [frames EXCEPT ![t] = Append(@, [mark |-> Len(roots), base |-> top[t]])]
    /\ UNCHANGED <<heap, field, since, roots, mem, unset, top, temps, handle, status, spawner>>

(* Store(t, s): the value that t stores at s is its oldest temporary, or a *)
(* copy of one of its variables, or null.                                  *)
Store(t, s) ==
    /\ \/ /\ temps[t] # <<>>
          /\ mem' = [mem EXCEPT ![s] = Head(temps[t])]
          /\ temps' = [temps EXCEPT ![t] = Tail(@)]
       \/ /\ \E v \in Vars(t) \cup {Null} : mem' = [mem EXCEPT ![s] = v]
          /\ temps' = temps
    /\ unset' = unset \ {s}

(* A variable comes into being and its slot is pushed.  A parameter has    *)
(* its value by then; a let, and the slot of the return value, are pushed  *)
(* with whatever earlier calls left on the stack, and assigned later.      *)
Declare(t) ==
    /\ Running(t) /\ top[t] < MaxSlots /\ Cardinality(InUse) < MaxSlots
    /\ LET s == <<t, top[t] + 1>> IN
        /\ top' = [top EXCEPT ![t] = @ + 1]
        /\ roots' = Append(roots, s)
        /\ \/ Store(t, s)
           \/ /\ \E v \in Block \cup {Null} : mem' = [mem EXCEPT ![s] = v]
              /\ unset' = unset \cup {s}
              /\ temps' = temps
    /\ UNCHANGED <<heap, field, since, frames, handle, status, spawner>>

(* An assignment to a variable, a let's first one included.                *)
Assign(t) ==
    /\ Running(t)
    /\ \E s \in Locals(t) : Store(t, s)
    /\ UNCHANGED <<heap, field, since, roots, frames, top, handle, status, spawner>>

(* An assignment through a pointer.  One to a block that is gone corrupts  *)
(* memory and is not modelled further: Sound is false by then.             *)
SetField(t) ==
    /\ Running(t)
    /\ \E b \in Held(t) \cap heap, v \in Held(t) \cup {Null} :
        field' = [field EXCEPT ![b] = v]
    /\ UNCHANGED <<heap, since, roots, mem, unset, frames, top, temps, handle, status, spawner>>

(* The value of an expression statement is dropped.                        *)
Discard(t) ==
    /\ Running(t) /\ temps[t] # <<>>
    /\ temps' = [temps EXCEPT ![t] = Tail(@)]
    /\ UNCHANGED <<heap, field, since, roots, mem, unset, frames, top, handle, status, spawner>>

(* __nc_gc_root_rewind at a return: never lengthens the array.             *)
RewoundShort(mark) == IF mark < Len(roots) THEN SubSeq(roots, 1, mark + 1) ELSE roots   \* mutant
Rewound(mark) == IF mark <= Len(roots) THEN SubSeq(roots, 1, mark) ELSE roots

(* A function returns, with a variable's value (it was loaded from the     *)
(* return slot before the rewind) or without one.                          *)
Return(t) ==
    /\ Running(t)
    /\ LET f == frames[t][Len(frames[t])] IN
        /\ roots' = Rewound(f.mark)
        /\ frames' = [frames EXCEPT ![t] = SubSeq(@, 1, Len(@) - 1)]
        /\ top' = [top EXCEPT ![t] = f.base]
        /\ \/ temps' = [temps EXCEPT ![t] = <<>>]
           \/ /\ Room(t) /\ Len(frames[t]) > 1
              /\ \E i \in {j \in (f.base + 1)..top[t] : <<t, j>> \notin unset} :
                    temps' = [temps EXCEPT ![t] = Append(@, mem[<<t, i>>])]
        /\ unset' = {s \in unset : ~(s[1] = t /\ s[2] > f.base)}
        /\ mem' = [s \in Slot |-> IF s[1] = t /\ s[2] > f.base THEN Null ELSE mem[s]]
        /\ spawner' = [g \in GT |->
                        IF spawner[g] = <<t, Len(frames[t])>> THEN NoCall ELSE spawner[g]]
    /\ UNCHANGED <<heap, field, since, handle, status>>

(* __nc_gc_push_root_slot returns the index of the new entry (from 0 in    *)
(* the code, where -1 is no handle).                                       *)
HandleBeforePush == Len(roots)   \* mutant: the index of the entry below
NewHandle == Len(roots) + 1

(* spawn: the closure's environment is a block, or null when it captures   *)
(* nothing; __nc_spawn stores it in g->entry_arg, roots that slot unless   *)
(* it is null and makes g runnable.                                        *)
Spawn(t) ==
    /\ Running(t)
    /\ \E g \in GT :
        /\ status[g] = "unborn"
        /\ status' = [status EXCEPT ![g] = "ready"]
        /\ \/ /\ temps[t] # <<>> /\ Head(temps[t]) # Null
              /\ mem' = [mem EXCEPT ![<<g, 0>>] = Head(temps[t])]
              /\ roots' = Append(roots, <<g, 0>>)
              /\ handle' = [handle EXCEPT ![g] = NewHandle]
              /\ spawner' = [spawner EXCEPT ![g] = <<t, Len(frames[t])>>]
              /\ temps' = [temps EXCEPT ![t] = Tail(@)]
           \/ UNCHANGED <<mem, roots, handle, spawner, temps>>
    /\ UNCHANGED <<heap, field, since, unset, frames, top>>

(* g is dispatched for the first time: its entry function takes the mark,  *)
(* stores the environment in a variable of its own and roots that.         *)
Start(g) ==
    /\ status[g] = "ready"
    /\ MaxSlots > 0 /\ Cardinality(InUse) < MaxSlots
    /\ status' = [status EXCEPT ![g] = "started"]
    /\ frames' = [frames EXCEPT ![g] = <<[mark |-> Len(roots), base |-> 0]>>]
    /\ top' = [top EXCEPT ![g] = 1]
    /\ mem' = [mem EXCEPT ![<<g, 1>>] = mem[<<g, 0>>]]
    /\ roots' = Append(roots, <<g, 1>>)
    /\ UNCHANGED <<heap, field, since, unset, temps, handle, spawner>>

(* g_finish_dead: __nc_gc_drop_root clears the entry the handle names,     *)
(* whatever is there by now; then g, entry_arg and all, and its stack are  *)
(* freed.                                                                  *)
Finish(g) ==
    /\ status[g] = "started" /\ frames[g] = <<>>
    /\ status' = [status EXCEPT ![g] = "gone"]
    /\ roots' = [i \in DOMAIN roots |-> IF i = handle[g] THEN NoRoot ELSE roots[i]]
    /\ handle' = [handle EXCEPT ![g] = 0]
    /\ mem' = [mem EXCEPT ![<<g, 0>>] = Null]
    /\ UNCHANGED <<heap, field, since, unset, frames, top, temps, spawner>>

(* Every thread has returned.                                              *)
Done ==
    /\ \A t \in Thread : frames[t] = <<>> /\ status[t] # "ready"
    /\ UNCHANGED vars

Next ==
    \/ \E t \in Thread :
        \/ Alloc(t) \/ Collect(t) \/ Call(t) \/ Declare(t) \/ Assign(t)
        \/ SetField(t) \/ Discard(t) \/ Return(t) \/ Spawn(t)
    \/ \E g \in GT : Start(g) \/ Finish(g)
    \/ Done

Spec == Init /\ [][Next]_vars

-----------------------------------------------------------------------------
(* Properties.                                                             *)

TypeOK ==
    /\ heap \subseteq Block
    /\ field \in [Block -> Block \cup {Null}]
    /\ since \in 0..Threshold
    /\ roots \in Seq(Slot \cup {NoRoot})
    /\ mem \in [Slot -> Block \cup {Null}]
    /\ unset \subseteq Slot
    /\ frames \in [Thread -> Seq([mark : Nat, base : 0..MaxSlots])]
    /\ top \in [Thread -> 0..MaxSlots]
    /\ temps \in [Thread -> Seq(Block \cup {Null})]
    /\ handle \in [GT -> Nat]
    /\ status \in [Thread -> {"unborn", "ready", "started", "gone"}]
    /\ spawner \in [GT -> (Thread \X Nat) \cup {NoCall}]

(* The slots the program may still read.                                   *)
LiveSlots ==
    UNION {Locals(t) \ unset : t \in Thread}
        \cup {<<g, 0>> : g \in {h \in GT : status[h] \in {"ready", "started"}}}

(* No live variable leads, over any chain of fields, to a freed block.     *)
Sound ==
    /\ \A s \in LiveSlots : mem[s] \in heap \cup {Null}
    /\ \A b \in Closure({mem[s] : s \in LiveSlots}) : field[b] \in heap \cup {Null}

(* Until the first spawn the program has one thread.                       *)
NoneSpawned == \A g \in GT : status[g] = "unborn"

(* Until then, mark and rewind keep the root array equal to the list of    *)
(* its live variables, in the order of their declaration: every            *)
(* slot the collector reads is in the frame of a function that has not     *)
(* returned, and no variable is missing.                                   *)
RootsExact ==
    NoneSpawned => roots = [i \in 1..top[Main] |-> <<Main, i>>]

(* runtime.gc_collect() frees everything no live variable leads to, when   *)
(* every variable has been assigned.                                       *)
CollectsGarbage ==
    [][NoneSpawned /\ unset = {} => \A t \in Thread :
            Collect(t) => heap' = Closure({mem[s] : s \in LiveSlots})]_vars

(* The environment of a green thread stays rooted, under the handle that   *)
(* g_finish_dead will drop, until the call that spawned it returns, with   *)
(* one green thread.  Afterwards, or with two, another thread's rewind may *)
(* have cut it off (see Sound).                                            *)
EnvironmentRooted ==
    \A g \in GT :
        GT = {g} /\ spawner[g] # NoCall /\ status[g] \in {"ready", "started"} =>
            /\ handle[g] \in DOMAIN roots
            /\ roots[handle[g]] = <<g, 0>>

-----------------------------------------------------------------------------
(* The inductive invariant behind RootsExact and Sound, for programs that  *)
(* have one thread and no expression that holds a block while it allocates *)
(* another.                                                                *)

OneThread == NoneSpawned /\ MaxTemps <= 1

SoundAlone == OneThread => Sound

(* The mark of a call counts the variables of its callers, and the calls   *)
(* nest.                                                                   *)
MarksInv ==
    NoneSpawned =>
      /\ \A g \in GT : top[g] = 0
      /\ \A i \in DOMAIN frames[Main] :
            /\ frames[Main][i].mark = frames[Main][i].base
            /\ frames[Main][i].base <= top[Main]
            /\ \A j \in i..Len(frames[Main]) : frames[Main][i].base <= frames[Main][j].base

(* No pointer the program holds, in a block, a variable or a temporary, is *)
(* dangling.                                                               *)
PointersInv ==
    OneThread =>
        /\ \A b \in heap : field[b] \in heap \cup {Null}
        /\ \A s \in Locals(Main) \ unset : mem[s] \in heap \cup {Null}
        /\ Len(temps[Main]) <= MaxTemps
        /\ \A i \in DOMAIN temps[Main] : temps[Main][i] \in heap \cup {Null}

StackInv == TypeOK /\ RootsExact /\ MarksInv /\ PointersInv

(* What keeps the entry of an environment in place, with one green thread: *)
(* it was spawned by a call of main that has not returned, and the calls   *)
(* main made since, as well as all of the green thread's own, took their   *)
(* marks above the entry.                                                  *)
RootedInv ==
    \A g \in GT :
        /\ status[g] = "unborn" => spawner[g] = NoCall
        /\ status[g] \in {"unborn", "ready"} => frames[g] = <<>>
        /\ GT = {g} /\ spawner[g] # NoCall /\ status[g] \in {"ready", "started"} =>
            /\ spawner[g][1] = Main /\ spawner[g][2] \in DOMAIN frames[Main]
            /\ handle[g] \in DOMAIN roots /\ roots[handle[g]] = <<g, 0>>
            /\ \A i \in DOMAIN frames[Main] :
                  i > spawner[g][2] => frames[Main][i].mark >= handle[g]
            /\ \A i \in DOMAIN frames[g] : frames[g][i].mark >= handle[g]

IInv == StackInv /\ RootedInv

=============================================================================
