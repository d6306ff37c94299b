-------------------------- MODULE ModuleLoaderProofs --------------------------
(***************************************************************************)
(* The walk over the imports gives the right verdict and the right order   *)
(* on every import graph, whatever the modules of the project, of the      *)
(* standard library and the entry are called.                              *)
(***************************************************************************)
EXTENDS ModuleLoader, SequenceTheorems, TLAPS

Frame == [module : DOMAIN imports, next : Nat \ {0}]

(* An element of a sequence.                                               *)
LEMMA SeqFacts ==
    ASSUME NEW S, NEW q \in Seq(S)
    PROVE  /\ DOMAIN q = 1..Len(q) /\ Len(q) \in Nat
           /\ \A i \in DOMAIN q : q[i] \in S
           /\ q # <<>> => Len(q) \in Nat \ {0} /\ Len(q) \in DOMAIN q /\ 1 \in DOMAIN q
OBVIOUS

(* A sequence and one more element.                                        *)
LEMMA AppendFacts ==
    ASSUME NEW S, NEW q \in Seq(S), NEW e \in S
    PROVE  /\ Append(q, e) \in Seq(S) /\ Append(q, e) # <<>>
           /\ Len(Append(q, e)) = Len(q) + 1
           /\ DOMAIN Append(q, e) = 1..(Len(q) + 1)
           /\ \A i \in DOMAIN q : i \in DOMAIN Append(q, e) /\ Append(q, e)[i] = q[i]
           /\ Append(q, e)[Len(q) + 1] = e
           /\ \A i \in DOMAIN Append(q, e) : i \in DOMAIN q \/ i = Len(q) + 1
           /\ ToSet(Append(q, e)) = ToSet(q) \cup {e}
<1>1. DOMAIN q = 1..Len(q) /\ Len(q) \in Nat
  OBVIOUS
<1>2. /\ Append(q, e) \in Seq(S) /\ Append(q, e) # <<>>
      /\ Len(Append(q, e)) = Len(q) + 1
      /\ DOMAIN Append(q, e) = 1..(Len(q) + 1)
      /\ \A i \in DOMAIN q : Append(q, e)[i] = q[i]
      /\ Append(q, e)[Len(q) + 1] = e
  OBVIOUS
<1>3. /\ \A i \in 1..(Len(q) + 1) : i \in 1..Len(q) \/ i = Len(q) + 1
      /\ \A i \in 1..Len(q) : i \in 1..(Len(q) + 1)
      /\ Len(q) + 1 \in 1..(Len(q) + 1)
  BY <1>1
<1>4. ToSet(Append(q, e)) = ToSet(q) \cup {e}
  <2> DEFINE a == Append(q, e)
  <2>1. /\ DOMAIN a = 1..(Len(q) + 1) /\ a[Len(q) + 1] = e
        /\ \A i \in DOMAIN q : i \in DOMAIN a /\ a[i] = q[i]
    BY <1>1, <1>2, <1>3
  <2> HIDE DEF a
  <2>2. ToSet(a) = ToSet(q) \cup {e}
    BY <1>1, <1>3, <2>1 DEF ToSet
  <2> QED BY <2>2 DEF a
<1> QED BY <1>1, <1>2, <1>3, <1>4

(* What is left of a sequence without its last element.                    *)
LEMMA FrontFacts ==
    ASSUME NEW S, NEW q \in Seq(S), q # <<>>
    PROVE  /\ Front(q) \in Seq(S) /\ Len(Front(q)) = Len(q) - 1
           /\ DOMAIN Front(q) = 1..(Len(q) - 1)
           /\ \A i \in DOMAIN Front(q) : i \in DOMAIN q /\ i # Len(q) /\ Front(q)[i] = q[i]
           /\ \A i \in DOMAIN q : i \in DOMAIN Front(q) \/ i = Len(q)
           /\ Len(q) = 1 => Front(q) = <<>>
           /\ Len(q) # 1 => Front(q) # <<>>
<1>1. Len(q) \in Nat \ {0} /\ DOMAIN q = 1..Len(q)
  OBVIOUS
<1>2. \A i \in 1..(Len(q) - 1) : q[i] \in S
  OBVIOUS
<1>3. /\ SubSeq(q, 1, Len(q) - 1) \in Seq(S)
      /\ Len(SubSeq(q, 1, Len(q) - 1)) = Len(q) - 1
      /\ \A i \in 1..(Len(q) - 1) : SubSeq(q, 1, Len(q) - 1)[i] = q[i]
  BY <1>1, <1>2, SubSeqProperties
<1>4. DOMAIN SubSeq(q, 1, Len(q) - 1) = 1..(Len(q) - 1)
  BY <1>3
<1>5. \A s \in Seq(S) : s = <<>> <=> Len(s) = 0
  BY EmptySeq
<1>6. ASSUME NEW n \in Nat \ {0}
      PROVE  /\ \A i \in 1..(n - 1) : i \in 1..n /\ i # n
             /\ \A i \in 1..n : i \in 1..(n - 1) \/ i = n
             /\ (n = 1) <=> (n - 1 = 0)
  OBVIOUS
<1> QED BY <1>1, <1>3, <1>4, <1>5, <1>6 DEF Front

-----------------------------------------------------------------------------
(* Reachability: it contains where it starts, is closed, and is the least. *)
LEMMA FromFacts ==
    ASSUME NEW S
    PROVE  /\ From(S) \subseteq DOMAIN imports
           /\ S \cap DOMAIN imports \subseteq From(S)
           /\ \A c \in From(S) : Children(c) \cap DOMAIN imports \subseteq From(S)
           /\ \A C \in SUBSET DOMAIN imports :
                 S \subseteq C /\ (\A c \in C : Children(c) \subseteq C) => From(S) \subseteq C
<1>1. From(S) \subseteq DOMAIN imports /\ S \cap DOMAIN imports \subseteq From(S)
  BY DEF From
<1>2. ASSUME NEW c \in From(S), NEW d \in Children(c) \cap DOMAIN imports PROVE d \in From(S)
  <2>1. ASSUME NEW C \in SUBSET (DOMAIN imports \ {d}), S \subseteq C
        PROVE  \E b \in C : ~(Children(b) \subseteq C)
    <3>1. CASE c \in C
      BY <1>2, <2>1, <3>1
    <3>2. CASE c \notin C
      <4>1. C \in SUBSET (DOMAIN imports \ {c})
        BY <2>1, <3>2
      <4> QED BY <1>2, <2>1, <4>1 DEF From
    <3> QED BY <3>1, <3>2
  <2> QED BY <2>1 DEF From
<1>3. ASSUME NEW C \in SUBSET DOMAIN imports, S \subseteq C, \A c \in C : Children(c) \subseteq C,
             NEW m \in From(S)
      PROVE  m \in C
  <2>1. SUFFICES ASSUME m \notin C PROVE FALSE
    OBVIOUS
  <2>2. C \in SUBSET (DOMAIN imports \ {m})
    BY <1>3, <2>1
  <2> QED BY <1>3, <2>2 DEF From
<1> QED BY <1>1, <1>2, <1>3

(* The graph is what it was when the walk began.                           *)
LEMMA GraphStays ==
    ASSUME UNCHANGED <<entry, imports>>
    PROVE  /\ Dirs' = Dirs /\ Program' = Program
           /\ Cyclic' = Cyclic /\ Homonym' = Homonym /\ Missing' = Missing
           /\ Uses(LinuxOnly)' = Uses(LinuxOnly)
           /\ Frame' = Frame
BY DEF Dirs, Program, Cyclic, Homonym, Missing, Uses, Frame, From, Children, NameOf

(* So is what a call's imports lead to.                                    *)
LEMMA FromStays ==
    ASSUME NEW i, UNCHANGED <<entry, imports>>, frames'[i].module = frames[i].module
    PROVE  From(Children(frames[i].module))' = From(Children(frames[i].module))
BY DEF From, Children, Dirs, NameOf

(* A name stands for one directory, which the graph has.                   *)
LEMMA TargetFacts ==
    ASSUME LoaderTypeOK, NEW name
    PROVE  /\ NameOf(Target(name)) = name
           /\ name \in Stdlib => Target(name) = Std(name)
           /\ name \notin Stdlib => Target(name) = User(name)
           /\ name \in Stdlib \cup (Dirs \ Builtin) => Target(name) \in DOMAIN imports
           /\ Std(name) # entry
           /\ entry = User(NameOf(entry)) /\ entry \in DOMAIN imports
<1>1. NameOf(Std(name)) = name /\ NameOf(User(name)) = name
  BY DEF NameOf, Std, User
<1>2. PICK e \in EntryName : entry = User(e)
  BY DEF LoaderTypeOK
<1>3. NameOf(entry) = e /\ e \in Dirs
  BY <1>2 DEF NameOf, User, Dirs
<1>4. Std(name) # entry
  BY <1>2 DEF Std, User
<1> QED BY <1>1, <1>2, <1>3, <1>4 DEF Target, LoaderTypeOK

(* The modules a module imports.                                           *)
LEMMA ChildrenFacts ==
    ASSUME LoaderTypeOK, NEW m
    PROVE  Children(m) \subseteq DOMAIN imports
BY TargetFacts DEF Children

(* Everything that is imported by the program is in it.                    *)
LEMMA ProgramFacts ==
    ASSUME LoaderTypeOK
    PROVE  /\ entry \in Program /\ Program \subseteq DOMAIN imports
           /\ \A m \in Program : Children(m) \subseteq Program
<1>1. entry \in DOMAIN imports
  BY TargetFacts
<1> QED BY <1>1, FromFacts, ChildrenFacts DEF Program

(* The call at work.                                                       *)
LEMMA TopFacts ==
    ASSUME LoaderTypeOK, frames # <<>>
    PROVE  /\ Len(frames) \in Nat \ {0} /\ DOMAIN frames = 1..Len(frames)
           /\ Len(frames) \in DOMAIN frames /\ 1 \in DOMAIN frames
           /\ Top = frames[Len(frames)]
           /\ \A i \in DOMAIN frames : /\ frames[i] \in Frame
                                       /\ frames[i].module \in DOMAIN imports
                                       /\ frames[i].next \in Nat \ {0}
<1>1. frames \in Seq(Frame)
  BY DEF LoaderTypeOK, Frame
<1>2. /\ Len(frames) \in Nat \ {0} /\ DOMAIN frames = 1..Len(frames)
      /\ Len(frames) \in DOMAIN frames /\ 1 \in DOMAIN frames
      /\ \A i \in DOMAIN frames : frames[i] \in Frame
  BY <1>1, SeqFacts
<1> QED BY <1>2 DEF Top, Frame

(* The import it looks at.                                                 *)
LEMMA ImportedFacts ==
    ASSUME LoaderTypeOK, Importing
    PROVE  /\ frames # <<>> /\ verdict = "running"
           /\ Top.next \in DOMAIN imports[Top.module]
           /\ Imported = imports[Top.module][Top.next]
           /\ Imported \in ToSet(imports[Top.module])
<1>1. frames # <<>> /\ verdict = "running" /\ Top.next <= Len(imports[Top.module])
  BY DEF Importing
<1>2. Top.module \in DOMAIN imports /\ Top.next \in Nat \ {0}
  BY <1>1, TopFacts
<1>3. imports[Top.module] \in Seq(ToSet(imports[Top.module]))
  BY <1>2 DEF LoaderTypeOK
<1>4. /\ DOMAIN imports[Top.module] = 1..Len(imports[Top.module])
      /\ Len(imports[Top.module]) \in Nat
  BY <1>3, SeqFacts
<1>5. Top.next \in DOMAIN imports[Top.module]
  BY <1>1, <1>2, <1>4
<1> QED BY <1>1, <1>5 DEF Imported, ToSet

(* The module it stands for is a child of the caller and is reached from   *)
(* every call on the stack.                                                *)
LEMMA ChildFacts ==
    ASSUME LoaderTypeOK, ReachInv, Importing, Imported \in Stdlib \cup (Dirs \ Builtin)
    PROVE  /\ Target(Imported) \in Children(Top.module)
           /\ Target(Imported) \in DOMAIN imports /\ Target(Imported) \in Program
           /\ \A i \in DOMAIN frames : Target(Imported) \in From(Children(frames[i].module))
<1>1. Target(Imported) \in Children(Top.module)
  BY ImportedFacts DEF Children
<1>2. Target(Imported) \in DOMAIN imports
  BY TargetFacts
<1>3. Top.module \in Visited
  BY ImportedFacts, TopFacts DEF Visited
<1>4. Target(Imported) \in Program
  BY <1>1, <1>3, ProgramFacts DEF ReachInv
<1>5. ASSUME NEW i \in DOMAIN frames PROVE Target(Imported) \in From(Children(frames[i].module))
  <2>1. Len(frames) \in Nat \ {0} /\ i \in 1..Len(frames) /\ Top = frames[Len(frames)]
    BY <1>5, ImportedFacts, TopFacts
  <2>2. CASE i = Len(frames)
    BY <1>1, <1>2, <2>1, <2>2, FromFacts
  <2>3. CASE i # Len(frames)
    <3>1. i \in 1..(Len(frames) - 1) /\ Len(frames) \in (i + 1)..Len(frames)
      BY <2>1, <2>3
    <3>2. Top.module \in From(Children(frames[i].module))
      BY <2>1, <3>1 DEF ReachInv
    <3> QED BY <1>1, <1>2, <3>2, FromFacts
  <2> QED BY <2>2, <2>3
<1> QED BY <1>1, <1>2, <1>4, <1>5

(* A name that is on the stack means a cycle of the graph, or the entry    *)
(* has the name of a standard library module.                              *)
LEMMA OnStack ==
    ASSUME LoaderTypeOK, ReachInv, Importing, Imported \in Stdlib \cup (Dirs \ Builtin),
           Imported \in StackNames
    PROVE  Cyclic \/ Homonym
<1>1. PICK i \in DOMAIN frames : NameOf(frames[i].module) = Imported
  BY DEF StackNames
<1>2. frames[i].module \in Visited
  BY DEF Visited
<1>3. /\ Target(Imported) \in Program
      /\ Target(Imported) \in From(Children(frames[i].module))
  BY ChildFacts
<1>4. CASE frames[i].module = Target(Imported)
  BY <1>3, <1>4 DEF Cyclic
<1>5. CASE frames[i].module = entry
  <2>1. entry = User(Imported) /\ NameOf(entry) = Imported
    BY <1>1, <1>5, TargetFacts
  <2>2. CASE Imported \in Stdlib
    BY <1>3, <2>1, <2>2, TargetFacts DEF Homonym
  <2>3. CASE Imported \notin Stdlib
    BY <1>4, <1>5, <2>1, <2>3, TargetFacts
  <2> QED BY <2>2, <2>3
<1>6. frames[i].module # entry => frames[i].module = Target(Imported)
  BY <1>1, <1>2 DEF ReachInv
<1> QED BY <1>4, <1>5, <1>6

(* A name that was loaded and is not on the stack is complete.             *)
LEMMA LoadedIsInOrder ==
    ASSUME LoaderTypeOK, StackInv, ReachInv, Importing,
           Imported \in loaded, Imported \notin StackNames
    PROVE  Target(Imported) \in ToSet(order)
<1>1. PICK m \in ToSet(order) : NameOf(m) = Imported
  BY DEF StackInv
<1>2. frames[1].module = entry /\ 1 \in DOMAIN frames
  BY ImportedFacts, TopFacts DEF StackInv
<1>3. m # entry
  BY <1>1, <1>2 DEF StackNames
<1> QED BY <1>1, <1>3 DEF ReachInv, Visited

(* The C file of an import is put on the list once.                        *)
Noted ==
    \/ support' = support
    \/ Imported \in WithC \ ToSet(support) /\ support' = Append(support, Imported)

(* The list stays without doubles, and one of files the program uses.      *)
LEMMA NotedFacts ==
    ASSUME LoaderTypeOK, ReachInv, Importing, Noted
    PROVE  /\ support' \in Seq(WithC) /\ ToSet(support) \subseteq ToSet(support')
           /\ IsInjective(support')
           /\ {Std(name) : name \in ToSet(support')} \subseteq Program
<1>1. support \in Seq(WithC) /\ IsInjective(support)
      /\ {Std(name) : name \in ToSet(support)} \subseteq Program
  BY DEF LoaderTypeOK, ReachInv
<1>2. CASE support' = support
  BY <1>1, <1>2
<1>3. CASE Imported \in WithC \ ToSet(support) /\ support' = Append(support, Imported)
  <2>1. /\ support' \in Seq(WithC) /\ ToSet(support') = ToSet(support) \cup {Imported}
        /\ support'[Len(support) + 1] = Imported
        /\ \A i \in DOMAIN support : support'[i] = support[i]
        /\ \A i \in DOMAIN support' : i \in DOMAIN support \/ i = Len(support) + 1
    BY <1>1, <1>3, AppendFacts
  <2>2. \A i \in DOMAIN support : support[i] # Imported
    BY <1>3 DEF ToSet
  <2>3. IsInjective(support')
    BY <1>1, <2>1, <2>2 DEF IsInjective
  <2>4. Imported \in Stdlib
    BY <1>3, LoaderAssumption
  <2>5. Std(Imported) \in Program
    BY <2>4, ChildFacts, TargetFacts
  <2> QED BY <1>1, <2>1, <2>3, <2>5
<1> QED BY <1>2, <1>3 DEF Noted

(* Handled, with the list of C files named.                                *)
HandledIn(name, S, noted) ==
    /\ name \in (Dirs \cup Stdlib \cup Builtin) \ LinuxOnly
    /\ name \in WithC => name \in noted
    /\ name \in Stdlib \cup (Dirs \ Builtin) => Target(name) \in S

(* What was handled stays so.                                              *)
LEMMA HandledStays ==
    ASSUME NEW name, NEW S, NEW T, NEW noted, NEW more,
           HandledIn(name, S, noted), S \subseteq T, noted \subseteq more
    PROVE  HandledIn(name, T, more)
BY DEF HandledIn

(* The module that the i-th call is loading.                               *)
NextOf(i) == {frames[j].module : j \in {i + 1} \cap DOMAIN frames}

(* The invariant in these terms, before a step.                            *)
LEMMA HandledNow ==
    ASSUME HandledInv
    PROVE  /\ \A i \in DOMAIN frames : \A k \in DOMAIN imports[frames[i].module] :
                k < frames[i].next =>
                    HandledIn(imports[frames[i].module][k], ToSet(order) \cup NextOf(i), ToSet(support))
           /\ \A i \in DOMAIN order : \A name \in ToSet(imports[order[i]]) :
                HandledIn(name, {order[j] : j \in 1..(i - 1)}, ToSet(support))
BY DEF HandledInv, Handled, HandledIn, NextOf

(* The same after a step.                                                  *)
LEMMA HandledNext ==
    ASSUME UNCHANGED <<entry, imports>>,
           \A i \in DOMAIN frames' : \A k \in DOMAIN imports[frames'[i].module] :
                k < frames'[i].next =>
                    HandledIn(imports[frames'[i].module][k],
                              ToSet(order') \cup NextOf(i)', ToSet(support')),
           \A i \in DOMAIN order' : \A name \in ToSet(imports[order'[i]]) :
                HandledIn(name, {order'[j] : j \in 1..(i - 1)}, ToSet(support'))
    PROVE  HandledInv'
<1>1. Dirs' = Dirs
  BY GraphStays
<1> QED BY <1>1 DEF HandledInv, Handled, HandledIn, NextOf

-----------------------------------------------------------------------------
(* The walk begins at the entry, with every list of imports a sequence.    *)
LEMMA InitLoader == LoaderInit => LoaderInv
<1> SUFFICES ASSUME LoaderInit PROVE LoaderInv
  OBVIOUS
<1> DEFINE f == [module |-> entry, next |-> 1]
<1>1. /\ entry \in {User(name) : name \in EntryName} /\ frames = <<f>>
      /\ loaded = {NameOf(entry)} /\ order = <<>> /\ support = <<>> /\ verdict = "running"
  BY DEF LoaderInit
<1>2. PICK lists \in [{User(name) : name \in Dirs} -> ImportLists] :
         imports = [m \in DOMAIN lists \cup {Std(name) : name \in Stdlib} |->
                       IF m \in DOMAIN lists THEN lists[m] ELSE StdImports[NameOf(m)]]
  BY DEF LoaderInit
<1>3. DOMAIN imports = {User(name) : name \in Dirs} \cup {Std(name) : name \in Stdlib}
  BY <1>2
<1>4. ASSUME NEW m \in DOMAIN imports PROVE imports[m] \in Seq(ToSet(imports[m]))
  <2>1. CASE m \in DOMAIN lists
    <3>1. imports[m] = lists[m] /\ lists[m] \in ImportLists
      BY <1>2, <2>1
    <3> QED BY <3>1, LoaderAssumption
  <2>2. CASE m \notin DOMAIN lists
    <3>1. PICK name \in Stdlib : m = Std(name)
      BY <1>2, <1>3, <2>2
    <3>2. imports[m] = StdImports[name] /\ StdImports[name] \in Seq(Stdlib)
      BY <1>2, <1>3, <2>2, <3>1, LoaderAssumption DEF NameOf, Std
    <3>3. DOMAIN imports[m] = 1..Len(imports[m]) /\ Len(imports[m]) \in Nat
      BY <3>2, SeqFacts
    <3>4. imports[m] = [i \in 1..Len(imports[m]) |-> imports[m][i]]
      BY <3>2, <3>3
    <3>5. \A i \in 1..Len(imports[m]) : imports[m][i] \in ToSet(imports[m])
      BY <3>3 DEF ToSet
    <3> QED BY <3>3, <3>4, <3>5, SeqDef
  <2> QED BY <2>1, <2>2
<1>5. entry \in DOMAIN imports
  BY <1>1, <1>3 DEF Dirs, User, NameOf
<1>6. f \in [module : DOMAIN imports, next : Nat \ {0}]
  BY <1>5
<1>7. /\ frames \in Seq([module : DOMAIN imports, next : Nat \ {0}])
      /\ Len(frames) = 1 /\ DOMAIN frames = {1} /\ frames[1] = f /\ frames # <<>>
  <2> HIDE DEF f
  <2> QED BY <1>1, <1>6
<1>8. /\ DOMAIN order = {} /\ DOMAIN support = {} /\ ToSet(order) = {} /\ ToSet(support) = {}
      /\ order \in Seq(DOMAIN imports) /\ support \in Seq(WithC)
  BY <1>1 DEF ToSet
<1>9. LoaderTypeOK
  BY <1>1, <1>3, <1>4, <1>7, <1>8 DEF LoaderTypeOK
<1>10. StackInv
  BY <1>1, <1>7, <1>8 DEF StackInv, StackNames
<1>11. ReachInv
  <2>1. Visited = {entry}
    BY <1>7, <1>8 DEF Visited
  <2>2. \A i \in 1..(Len(frames) - 1) : FALSE
    BY <1>7
  <2> QED BY <1>8, <1>9, <2>1, <2>2, ProgramFacts DEF ReachInv, IsInjective
<1>12. HandledInv
  <2>1. \A k \in DOMAIN imports[entry] : ~(k < 1)
    <3>1. imports[entry] \in Seq(ToSet(imports[entry]))
      BY <1>4, <1>5
    <3>2. DOMAIN imports[entry] = 1..Len(imports[entry])
      BY <3>1, SeqFacts
    <3> QED BY <3>2
  <2> QED BY <1>7, <1>8, <2>1 DEF HandledInv
<1>13. ReasonInv
  BY <1>1 DEF ReasonInv
<1> QED BY <1>9, <1>10, <1>11, <1>12, <1>13 DEF LoaderInv

(* A step that loads nothing: every call stays where it is on the stack.   *)
LEMMA StayKeeps ==
    ASSUME LoaderTypeOK, StackInv, ReachInv, Importing, Noted,
           UNCHANGED <<entry, imports, loaded, order>>,
           frames' \in Seq(Frame), Len(frames') = Len(frames),
           \A i \in DOMAIN frames : frames'[i].module = frames[i].module,
           verdict' \in {"running", "cycle", "missing", "target"}
    PROVE  /\ LoaderTypeOK' /\ StackInv' /\ ReachInv'
           /\ DOMAIN frames' = DOMAIN frames
<1>1. DOMAIN frames' = 1..Len(frames') /\ DOMAIN frames = 1..Len(frames) /\ Len(frames) \in Nat \ {0}
      /\ 1 \in DOMAIN frames
  BY ImportedFacts, TopFacts, SeqFacts
<1>2. DOMAIN frames' = DOMAIN frames /\ frames' # <<>>
  BY <1>1
<1>3. LoaderTypeOK'
  BY NotedFacts, GraphStays DEF LoaderTypeOK, Frame
<1>4. StackNames' = StackNames
  BY <1>2 DEF StackNames
<1>5. StackInv'
  <2>1. frames # <<>>
    BY ImportedFacts
  <2> QED BY <1>1, <1>2, <1>4, <2>1 DEF StackInv, NameOf
<1>6. Visited' = Visited
  BY <1>2 DEF Visited
<1>7. ReachInv'
  <2>1. Program' = Program
    BY GraphStays
  <2>2. \A m : Target(NameOf(m))' = Target(NameOf(m)) /\ NameOf(m)' = NameOf(m)
    BY DEF Target, NameOf, Std, User
  <2>3. Visited' \cup {Std(name) : name \in ToSet(support')} \subseteq Program'
    BY <1>6, <2>1, NotedFacts DEF ReachInv
  <2>4. \A m \in Visited' \ {entry'} :
          m = Target(NameOf(m)) /\ (NameOf(m) \in WithC => NameOf(m) \in ToSet(support'))
    BY <1>6, NotedFacts DEF ReachInv
  <2>5. ASSUME NEW i \in 1..(Len(frames') - 1), NEW j \in (i + 1)..Len(frames')
        PROVE  (frames[j].module \in From(Children(frames[i].module)))'
    <3>1. i \in DOMAIN frames /\ j \in DOMAIN frames
      BY <1>1
    <3>2. frames[j].module \in From(Children(frames[i].module))
      BY <1>1 DEF ReachInv
    <3>3. frames'[i].module = frames[i].module /\ frames'[j].module = frames[j].module
      BY <3>1
    <3>4. From(Children(frames[i].module))' = From(Children(frames[i].module))
      BY <3>3, FromStays
    <3> QED BY <3>2, <3>3, <3>4
  <2> QED BY <2>3, <2>4, <2>5, NotedFacts DEF ReachInv
<1> QED BY <1>2, <1>3, <1>5, <1>7

(* The calls after one of them has gone past an import.                    *)
LEMMA CallerFacts ==
    ASSUME LoaderTypeOK, Importing
    PROVE  /\ Caller \in Seq(Frame) /\ Len(Caller) = Len(frames) /\ DOMAIN Caller = DOMAIN frames
           /\ \A i \in DOMAIN frames : Caller[i].module = frames[i].module
           /\ \A i \in DOMAIN frames : i # Len(frames) => Caller[i] = frames[i]
           /\ Caller[Len(frames)].next = Top.next + 1
<1> DEFINE n == Len(frames)
           f == [frames[n] EXCEPT !.next = @ + 1]
<1>1. frames \in Seq(Frame) /\ frames # <<>>
  BY ImportedFacts DEF LoaderTypeOK, Frame
<1>2. n \in DOMAIN frames /\ DOMAIN frames = 1..n /\ n \in Nat /\ frames[n] \in Frame /\ Top = frames[n]
  BY <1>1, TopFacts
<1>3. f \in Frame /\ f.module = frames[n].module /\ f.next = Top.next + 1
  BY <1>2 DEF Frame
<1>4. Caller = [frames EXCEPT ![n] = f]
  BY <1>2 DEF Caller
<1> HIDE DEF f
<1>5. \A i \in DOMAIN frames : frames[i] \in Frame
  BY <1>1, SeqFacts
<1>6. Caller = [i \in 1..n |-> IF i = n THEN f ELSE frames[i]]
  BY <1>1, <1>2, <1>4
<1>7. Caller \in Seq(Frame)
  <2>1. Caller \in [1..n -> Frame]
    <3> HIDE DEF n
    <3> QED BY <1>2, <1>3, <1>5, <1>6
  <2> QED BY <1>2, <2>1, SeqDef
<1>8. DOMAIN Caller = 1..n
  BY <1>6
<1>9. Len(Caller) = n
  BY <1>2, <1>7, <1>8
<1> QED BY <1>2, <1>3, <1>6, <1>7, <1>8, <1>9

(* The walk gives up, for a reason the program has.                        *)
LEMMA StepGiveUp ==
    ASSUME LoaderInv, Importing, Noted, NEW why, GiveUp(why), why \in {"cycle", "missing", "target"},
           /\ why = "cycle" => Cyclic \/ Homonym
           /\ why = "missing" => Missing
           /\ why = "target" => Uses(LinuxOnly)
    PROVE  LoaderInv'
<1>1. LoaderTypeOK /\ StackInv /\ ReachInv /\ HandledInv /\ ReasonInv
  BY DEF LoaderInv
<1>2. verdict' = why /\ UNCHANGED <<entry, imports, frames, loaded, order>>
  BY DEF GiveUp
<1>3. frames' \in Seq(Frame)
  BY <1>1, <1>2 DEF LoaderTypeOK, Frame
<1>4. LoaderTypeOK' /\ StackInv' /\ ReachInv'
  BY <1>1, <1>2, <1>3, StayKeeps
<1>5. HandledInv'
  <2>1. ToSet(support) \subseteq ToSet(support')
    BY <1>1, NotedFacts
  <2>2. \A i : NextOf(i)' = NextOf(i)
    BY <1>2 DEF NextOf
  <2>3. \A name, S : HandledIn(name, S, ToSet(support)) => HandledIn(name, S, ToSet(support'))
    BY <2>1, HandledStays
  <2> QED BY <1>1, <1>2, <2>2, <2>3, HandledNow, HandledNext
<1>6. ReasonInv'
  BY <1>2, GraphStays DEF ReasonInv
<1> QED BY <1>4, <1>5, <1>6 DEF LoaderInv

(* An import that needs no visit: it is no module with sources, or the     *)
(* module is complete.                                                     *)
LEMMA StepPast ==
    ASSUME LoaderInv, Importing, Noted, frames' = Caller,
           UNCHANGED <<entry, imports, loaded, order, verdict>>,
           Imported \in (Dirs \cup Stdlib \cup Builtin) \ LinuxOnly,
           Imported \in WithC => Imported \in ToSet(support'),
           Imported \in Stdlib \cup (Dirs \ Builtin) => Target(Imported) \in ToSet(order)
    PROVE  LoaderInv'
<1>1. LoaderTypeOK /\ StackInv /\ ReachInv /\ HandledInv /\ ReasonInv
  BY DEF LoaderInv
<1>2. /\ frames' \in Seq(Frame) /\ Len(frames') = Len(frames)
      /\ \A i \in DOMAIN frames : frames'[i].module = frames[i].module
      /\ \A i \in DOMAIN frames : i # Len(frames) => frames'[i] = frames[i]
      /\ frames'[Len(frames)].next = Top.next + 1
  BY <1>1, CallerFacts
<1>3. verdict = "running" /\ verdict' = "running"
  BY <1>1, ImportedFacts
<1>4. LoaderTypeOK' /\ StackInv' /\ ReachInv' /\ DOMAIN frames' = DOMAIN frames
  BY <1>1, <1>2, <1>3, StayKeeps
<1>5. HandledInv'
  <2>1. ToSet(support) \subseteq ToSet(support')
    BY <1>1, NotedFacts
  <2>2. \A i : NextOf(i)' = NextOf(i)
    BY <1>2, <1>4 DEF NextOf
  <2>3. \A name, S : HandledIn(name, S, ToSet(support)) => HandledIn(name, S, ToSet(support'))
    BY <2>1, HandledStays
  <2>4. \A S : ToSet(order) \subseteq S => HandledIn(Imported, S, ToSet(support'))
    BY DEF HandledIn
  <2>5. ASSUME NEW i \in DOMAIN frames', NEW k \in DOMAIN imports[frames'[i].module],
               k < frames'[i].next
        PROVE  HandledIn(imports[frames'[i].module][k], ToSet(order') \cup NextOf(i)', ToSet(support'))
    <3>1. i \in DOMAIN frames /\ frames'[i].module = frames[i].module
      BY <1>2, <1>4, <2>5
    <3>2. CASE k < frames[i].next
      BY <1>1, <2>2, <2>3, <2>5, <3>1, <3>2, HandledNow
    <3>3. CASE ~(k < frames[i].next)
      <4>1. i = Len(frames)
        BY <1>2, <2>5, <3>1, <3>3
      <4>2. Top = frames[i] /\ Top.next \in Nat /\ frames'[i].next = Top.next + 1
        BY <1>1, <1>2, <3>1, <4>1, ImportedFacts, TopFacts
      <4>3. k \in Nat
        <5>1. imports[frames[i].module] \in Seq(ToSet(imports[frames[i].module]))
          BY <1>1, <3>1, ImportedFacts, TopFacts DEF LoaderTypeOK
        <5>2. DOMAIN imports[frames[i].module] = 1..Len(imports[frames[i].module])
          BY <5>1, SeqFacts
        <5> QED BY <2>5, <3>1, <5>2
      <4>4. k = Top.next
        BY <2>5, <3>3, <4>2, <4>3
      <4>5. imports[frames'[i].module][k] = Imported
        BY <1>1, <3>1, <4>2, <4>4, ImportedFacts
      <4> QED BY <2>4, <4>5
    <3> QED BY <3>2, <3>3
  <2>6. \A i \in DOMAIN order' : \A name \in ToSet(imports[order'[i]]) :
          HandledIn(name, {order'[j] : j \in 1..(i - 1)}, ToSet(support'))
    BY <1>1, <2>3, HandledNow
  <2> QED BY <2>5, <2>6, HandledNext
<1>6. ReasonInv'
  BY <1>3 DEF ReasonInv
<1> QED BY <1>4, <1>5, <1>6 DEF LoaderInv

(* A module is visited for the first time.                                 *)
LEMMA StepPush ==
    ASSUME LoaderInv, Importing, Noted,
           frames' = Append(Caller, [module |-> Target(Imported), next |-> 1]),
           loaded' = loaded \cup {Imported}, UNCHANGED <<entry, imports, order, verdict>>,
           Imported \notin StackNames \cup loaded,
           Imported \in (Stdlib \cup (Dirs \ Builtin)) \ LinuxOnly,
           Imported \in WithC => Imported \in ToSet(support')
    PROVE  LoaderInv'
<1> DEFINE n == Len(frames)
           c == Target(Imported)
           f == [module |-> c, next |-> 1]
<1>1. LoaderTypeOK /\ StackInv /\ ReachInv /\ HandledInv /\ ReasonInv
  BY DEF LoaderInv
<1>2. /\ c \in DOMAIN imports /\ c \in Program /\ NameOf(c) = Imported
      /\ \A i \in DOMAIN frames : c \in From(Children(frames[i].module))
  BY <1>1, ChildFacts, TargetFacts
<1>3. f \in Frame /\ f.module = c /\ f.next = 1
  BY <1>2 DEF Frame
<1>4. /\ n \in Nat \ {0} /\ DOMAIN frames = 1..n /\ n \in DOMAIN frames /\ 1 \in DOMAIN frames
      /\ Top = frames[n] /\ verdict = "running" /\ frames # <<>>
      /\ \A i \in DOMAIN frames : frames[i].next \in Nat
  BY <1>1, ImportedFacts, TopFacts
<1>5. /\ frames' \in Seq(Frame) /\ Len(frames') = n + 1 /\ DOMAIN frames' = 1..(n + 1)
      /\ frames' # <<>> /\ frames'[n + 1] = f
      /\ \A i \in DOMAIN frames : i \in DOMAIN frames' /\ frames'[i] = Caller[i]
      /\ \A i \in DOMAIN frames' : i \in DOMAIN frames \/ i = n + 1
  <2>1. Caller \in Seq(Frame) /\ Len(Caller) = n /\ DOMAIN Caller = DOMAIN frames
    BY <1>1, CallerFacts
  <2>2. frames' = Append(Caller, f)
    OBVIOUS
  <2> HIDE DEF f, n
  <2> QED BY <1>3, <2>1, <2>2, AppendFacts
<1>6. /\ \A i \in DOMAIN frames : frames'[i].module = frames[i].module
      /\ \A i \in DOMAIN frames : i # n => frames'[i] = frames[i]
      /\ frames'[n].next = Top.next + 1
  BY <1>1, <1>4, <1>5, CallerFacts
<1> HIDE DEF n, c, f
<1>7. LoaderTypeOK'
  BY <1>1, <1>4, <1>5, NotedFacts, GraphStays DEF LoaderTypeOK, Frame
<1>8. StackNames' = StackNames \cup {Imported}
  <2>1. \A i \in DOMAIN frames : NameOf(frames'[i].module) = NameOf(frames[i].module)
    BY <1>6
  <2>2. NameOf(frames'[n + 1].module) = Imported /\ n + 1 \in DOMAIN frames'
    BY <1>2, <1>3, <1>4, <1>5
  <2>3. StackNames' = {NameOf(frames'[i].module) : i \in DOMAIN frames'}
    BY DEF StackNames, NameOf
  <2> QED BY <1>5, <2>1, <2>2, <2>3 DEF StackNames
<1>9. StackInv'
  <2>1. /\ frames'[1].module = entry /\ verdict' = "running"
    BY <1>1, <1>4, <1>6 DEF StackInv
  <2>2. loaded' = StackNames' \cup {NameOf(m) : m \in ToSet(order)}
    BY <1>1, <1>8 DEF StackInv
  <2>3. \A i \in DOMAIN frames' :
          \/ i \in DOMAIN frames /\ NameOf(frames'[i].module) = NameOf(frames[i].module)
             /\ NameOf(frames[i].module) # Imported
          \/ i = n + 1 /\ NameOf(frames'[i].module) = Imported
    BY <1>2, <1>3, <1>5, <1>6 DEF StackNames
  <2>4. \A j \in DOMAIN order : NameOf(order[j]) # Imported
    BY <1>1 DEF StackInv, ToSet
  <2>5. \A i, j \in DOMAIN frames' :
          NameOf(frames'[i].module) = NameOf(frames'[j].module) => i = j
    BY <1>1, <2>3 DEF StackInv
  <2>6. \A i \in DOMAIN frames', j \in DOMAIN order :
          NameOf(frames'[i].module) # NameOf(order[j])
    BY <1>1, <2>3, <2>4 DEF StackInv
  <2> QED BY <1>1, <2>1, <2>2, <2>5, <2>6 DEF StackInv, NameOf
<1>10. ReachInv'
  <2>1. Visited' = Visited \cup {c}
    <3>1. n + 1 \in DOMAIN frames'
      BY <1>4, <1>5
    <3> QED BY <1>3, <1>5, <1>6, <3>1 DEF Visited
  <2>2. Program' = Program
    BY GraphStays
  <2>3. Visited' \cup {Std(name) : name \in ToSet(support')} \subseteq Program'
    BY <1>1, <1>2, <2>1, <2>2, NotedFacts DEF ReachInv
  <2>4. \A m \in Visited' \ {entry'} :
          m = Target(NameOf(m)) /\ (NameOf(m) \in WithC => NameOf(m) \in ToSet(support'))
    <3>1. c = Target(NameOf(c)) /\ (NameOf(c) \in WithC => NameOf(c) \in ToSet(support'))
      BY <1>2 DEF c
    <3> QED BY <1>1, <2>1, <3>1, NotedFacts DEF ReachInv
  <2>5. ASSUME NEW i \in 1..(Len(frames') - 1), NEW j \in (i + 1)..Len(frames')
        PROVE  (frames[j].module \in From(Children(frames[i].module)))'
    <3>1. i \in DOMAIN frames /\ j \in 1..(n + 1) /\ i < j
      BY <1>4, <1>5
    <3>2. frames'[j].module \in From(Children(frames[i].module))
      <4>1. CASE j = n + 1
        BY <1>2, <1>3, <1>5, <3>1, <4>1
      <4>2. CASE j # n + 1
        <5>1. i \in 1..(n - 1) /\ j \in (i + 1)..n /\ j \in DOMAIN frames
          BY <1>4, <3>1, <4>2
        <5> QED BY <1>1, <1>6, <5>1 DEF ReachInv, n
      <4> QED BY <4>1, <4>2
    <3>3. frames'[i].module = frames[i].module
      BY <1>6, <3>1
    <3>4. From(Children(frames[i].module))' = From(Children(frames[i].module))
      BY <3>3, FromStays
    <3> QED BY <3>2, <3>4
  <2>6. IsInjective(support')
    BY <1>1, NotedFacts
  <2> QED BY <2>3, <2>4, <2>5, <2>6 DEF ReachInv
<1>11. HandledInv'
  <2>1. ToSet(support) \subseteq ToSet(support')
    BY <1>1, NotedFacts
  <2>2. \A name, S, T : HandledIn(name, S, ToSet(support)) /\ S \subseteq T
                         => HandledIn(name, T, ToSet(support'))
    BY <2>1, HandledStays
  <2>3. \A i \in DOMAIN frames : NextOf(i) \subseteq NextOf(i)'
    BY <1>5, <1>6 DEF NextOf
  <2>4. ASSUME NEW i, i = n PROVE c \in NextOf(i)'
    <3>1. i + 1 \in DOMAIN frames' /\ frames'[i + 1].module = c
      BY <1>3, <1>4, <1>5, <2>4
    <3> QED BY <3>1 DEF NextOf
  <2>5. ASSUME NEW i \in DOMAIN frames', NEW k \in DOMAIN imports[frames'[i].module],
               k < frames'[i].next
        PROVE  HandledIn(imports[frames'[i].module][k], ToSet(order') \cup NextOf(i)', ToSet(support'))
    <3>1. k \in Nat \ {0}
      <4>1. frames'[i].module \in DOMAIN imports
        <5>1. frames'[i] \in Frame
          BY <1>5, <2>5, SeqFacts
        <5> QED BY <5>1 DEF Frame
      <4>2. imports[frames'[i].module] \in Seq(ToSet(imports[frames'[i].module]))
        BY <1>1, <4>1 DEF LoaderTypeOK
      <4>3. /\ DOMAIN imports[frames'[i].module] = 1..Len(imports[frames'[i].module])
            /\ Len(imports[frames'[i].module]) \in Nat
        BY <4>2, SeqFacts
      <4> QED BY <2>5, <4>3
    <3>2. i \in DOMAIN frames
      BY <1>3, <1>5, <2>5, <3>1
    <3>3. CASE k < frames[i].next
      <4>1. frames'[i].module = frames[i].module /\ k \in DOMAIN imports[frames[i].module]
        BY <1>6, <2>5, <3>2
      <4>2. HandledIn(imports[frames[i].module][k], ToSet(order) \cup NextOf(i), ToSet(support))
        BY <1>1, <3>2, <3>3, <4>1, HandledNow
      <4>3. ToSet(order) \cup NextOf(i) \subseteq ToSet(order') \cup NextOf(i)'
        BY <2>3, <3>2
      <4> QED BY <2>2, <4>1, <4>2, <4>3
    <3>4. CASE ~(k < frames[i].next)
      <4>1. i = n
        BY <1>6, <2>5, <3>2, <3>4
      <4>2. k = Top.next /\ Top = frames[n]
        BY <1>4, <1>6, <2>5, <3>1, <3>4, <4>1
      <4>3. imports[frames'[i].module][k] = Imported
        BY <1>1, <1>6, <3>2, <4>1, <4>2, ImportedFacts
      <4>4. c \in NextOf(i)'
        BY <2>4, <4>1
      <4>5. HandledIn(Imported, ToSet(order') \cup NextOf(i)', ToSet(support'))
        BY <4>4 DEF HandledIn, c
      <4> QED BY <4>3, <4>5
    <3> QED BY <3>3, <3>4
  <2>6. \A i \in DOMAIN order' : \A name \in ToSet(imports[order'[i]]) :
          HandledIn(name, {order'[j] : j \in 1..(i - 1)}, ToSet(support'))
    BY <1>1, <2>2, HandledNow
  <2> QED BY <2>5, <2>6, HandledNext
<1>12. ReasonInv'
  BY <1>4 DEF ReasonInv
<1> QED BY <1>7, <1>9, <1>10, <1>11, <1>12 DEF LoaderInv

(* A module is complete: all it imports is in order by now.                *)
LEMMA StepLeave ==
    ASSUME LoaderInv, Leave
    PROVE  LoaderInv'
<1> DEFINE n == Len(frames)
           z == Len(order) + 1
<1>1. LoaderTypeOK /\ StackInv /\ ReachInv /\ HandledInv /\ ReasonInv
  BY DEF LoaderInv
<1>2. /\ verdict = "running" /\ frames # <<>> /\ ~Importing
      /\ order' = Append(order, Top.module) /\ frames' = Front(frames)
      /\ verdict' = IF n = 1 THEN "done" ELSE verdict
      /\ UNCHANGED <<entry, imports, loaded, support>>
  BY DEF Leave
<1>3. /\ n \in Nat \ {0} /\ DOMAIN frames = 1..n /\ n \in DOMAIN frames /\ 1 \in DOMAIN frames
      /\ Top = frames[n] /\ frames \in Seq(Frame)
      /\ \A i \in DOMAIN frames : frames[i].next \in Nat /\ frames[i].module \in DOMAIN imports
  BY <1>1, <1>2, TopFacts DEF LoaderTypeOK, Frame
<1>4. /\ frames' \in Seq(Frame) /\ Len(frames') = n - 1 /\ DOMAIN frames' = 1..(n - 1)
      /\ \A i \in DOMAIN frames' : i \in DOMAIN frames /\ i # n /\ frames'[i] = frames[i]
      /\ \A i \in DOMAIN frames : i \in DOMAIN frames' \/ i = n
      /\ n = 1 => frames' = <<>>
      /\ n # 1 => frames' # <<>>
  BY <1>2, <1>3, FrontFacts
<1>5. /\ order \in Seq(DOMAIN imports) /\ Top.module \in DOMAIN imports
      /\ Len(order) \in Nat /\ DOMAIN order = 1..Len(order)
  BY <1>1, <1>3, SeqFacts DEF LoaderTypeOK
<1>6. /\ order' \in Seq(DOMAIN imports) /\ order' # <<>> /\ Len(order') = z
      /\ DOMAIN order' = 1..z /\ order'[z] = Top.module
      /\ \A i \in DOMAIN order : i \in DOMAIN order' /\ order'[i] = order[i]
      /\ \A i \in DOMAIN order' : i \in DOMAIN order \/ i = z
      /\ ToSet(order') = ToSet(order) \cup {Top.module}
  <2> DEFINE D == DOMAIN imports
  <2>1. order \in Seq(D) /\ Top.module \in D
    BY <1>5
  <2> HIDE DEF D
  <2>2. /\ order' \in Seq(D) /\ order' # <<>> /\ Len(order') = z
        /\ DOMAIN order' = 1..z /\ order'[z] = Top.module
        /\ \A i \in DOMAIN order : i \in DOMAIN order' /\ order'[i] = order[i]
        /\ \A i \in DOMAIN order' : i \in DOMAIN order \/ i = z
        /\ ToSet(order') = ToSet(order) \cup {Top.module}
    BY <1>2, <2>1, AppendFacts
  <2> QED BY <2>2 DEF D
<1> HIDE DEF n, z
<1>7. LoaderTypeOK'
  <2>1. Dirs' = Dirs /\ Frame' = Frame
    BY <1>2, GraphStays
  <2>2. verdict' \in {"running", "done", "cycle", "missing", "target"}
    BY <1>2
  <2> QED BY <1>1, <1>2, <1>4, <1>6, <2>1, <2>2 DEF LoaderTypeOK, Frame
<1>8. StackInv'
  <2>1. frames' # <<>> => frames'[1].module = entry
    <3>1. frames' # <<>> => 1 \in DOMAIN frames'
      BY <1>4, SeqFacts
    <3> QED BY <1>1, <1>2, <1>4, <3>1 DEF StackInv
  <2>2. verdict' = "running" => frames' # <<>>
    BY <1>2, <1>4
  <2>3. verdict' = "done" => frames' = <<>> /\ order' # <<>> /\ order'[Len(order')] = entry
    <3>1. frames[1].module = entry
      BY <1>1, <1>2 DEF StackInv
    <3> QED BY <1>2, <1>3, <1>4, <1>6, <3>1 DEF n
  <2>4. StackNames = StackNames' \cup {NameOf(Top.module)}
    <3>1. StackNames' = {NameOf(frames'[i].module) : i \in DOMAIN frames'}
      BY DEF StackNames, NameOf
    <3>2. StackNames' = {NameOf(frames[i].module) : i \in DOMAIN frames'}
      BY <1>4, <3>1
    <3> QED BY <1>3, <1>4, <3>2 DEF StackNames
  <2>5. loaded' = StackNames' \cup {NameOf(m) : m \in ToSet(order')}
    <3>1. {NameOf(m) : m \in ToSet(order')} = {NameOf(m) : m \in ToSet(order)} \cup {NameOf(Top.module)}
      BY <1>6
    <3> QED BY <1>1, <1>2, <2>4, <3>1 DEF StackInv
  <2>6. \A i, j \in DOMAIN frames' :
          NameOf(frames'[i].module) = NameOf(frames'[j].module) => i = j
    BY <1>1, <1>4 DEF StackInv
  <2>7. \A i, j \in DOMAIN order' : NameOf(order'[i]) = NameOf(order'[j]) => i = j
    BY <1>1, <1>3, <1>6 DEF StackInv
  <2>8. \A i \in DOMAIN frames', j \in DOMAIN order' :
          NameOf(frames'[i].module) # NameOf(order'[j])
    BY <1>1, <1>3, <1>4, <1>6 DEF StackInv
  <2> QED BY <2>1, <2>2, <2>3, <2>5, <2>6, <2>7, <2>8, <1>2 DEF StackInv, NameOf, Last
<1>9. ReachInv'
  <2>1. Visited' = Visited
    <3>1. {frames[i].module : i \in DOMAIN frames}
              = {frames'[i].module : i \in DOMAIN frames'} \cup {Top.module}
      BY <1>3, <1>4
    <3> QED BY <1>6, <3>1 DEF Visited
  <2>2. Program' = Program
    BY <1>2, GraphStays
  <2>3. ASSUME NEW i \in 1..(Len(frames') - 1), NEW j \in (i + 1)..Len(frames')
        PROVE  (frames[j].module \in From(Children(frames[i].module)))'
    <3>1. /\ i \in 1..(n - 1) /\ j \in (i + 1)..n
          /\ i \in DOMAIN frames' /\ j \in DOMAIN frames'
      BY <1>3, <1>4
    <3>2. frames[j].module \in From(Children(frames[i].module))
      BY <1>1, <3>1 DEF ReachInv, n
    <3>3. frames'[i].module = frames[i].module /\ frames'[j].module = frames[j].module
      BY <1>4, <3>1
    <3>4. From(Children(frames[i].module))' = From(Children(frames[i].module))
      BY <1>2, <3>3, FromStays
    <3> QED BY <3>2, <3>3, <3>4
  <2>4. Visited' \cup {Std(name) : name \in ToSet(support')} \subseteq Program'
    BY <1>1, <1>2, <2>1, <2>2 DEF ReachInv
  <2>5. \A m \in Visited' \ {entry'} :
          m = Target(NameOf(m)) /\ (NameOf(m) \in WithC => NameOf(m) \in ToSet(support'))
    BY <1>1, <1>2, <2>1 DEF ReachInv
  <2>6. IsInjective(support')
    BY <1>1, <1>2 DEF ReachInv
  <2> QED BY <2>3, <2>4, <2>5, <2>6 DEF ReachInv
<1>10. HandledInv'
  <2>1. \A name, S, T : HandledIn(name, S, ToSet(support)) /\ S \subseteq T
                         => HandledIn(name, T, ToSet(support'))
    BY <1>2, HandledStays
  <2>2. \A i \in DOMAIN frames' : ToSet(order) \cup NextOf(i) \subseteq ToSet(order') \cup NextOf(i)'
    <3>1. ASSUME NEW i \in DOMAIN frames', i + 1 \in DOMAIN frames
          PROVE  \/ i + 1 \in DOMAIN frames' /\ frames'[i + 1].module = frames[i + 1].module
                 \/ frames[i + 1].module \in ToSet(order')
      BY <1>3, <1>4, <1>6, <3>1
    <3> QED BY <1>6, <3>1 DEF NextOf
  <2>3. \A i \in DOMAIN frames' : \A k \in DOMAIN imports[frames'[i].module] :
            k < frames'[i].next =>
                HandledIn(imports[frames'[i].module][k], ToSet(order') \cup NextOf(i)', ToSet(support'))
    BY <1>1, <1>4, <2>1, <2>2, HandledNow
  <2>4. \A name \in ToSet(imports[Top.module]) : HandledIn(name, ToSet(order), ToSet(support))
    <3>1. imports[Top.module] \in Seq(ToSet(imports[Top.module]))
      BY <1>1, <1>3 DEF LoaderTypeOK
    <3>2. /\ DOMAIN imports[Top.module] = 1..Len(imports[Top.module])
          /\ Len(imports[Top.module]) \in Nat
      BY <3>1, SeqFacts
    <3>3. ~(Top.next <= Len(imports[Top.module]))
      BY <1>2 DEF Importing
    <3>4. NextOf(n) = {}
      BY <1>3 DEF NextOf
    <3>5. \A k \in DOMAIN imports[Top.module] : k < Top.next
      BY <1>3, <3>2, <3>3
    <3>6. \A k \in DOMAIN imports[Top.module] :
            HandledIn(imports[Top.module][k], ToSet(order) \cup NextOf(n), ToSet(support))
      BY <1>1, <1>3, <3>5, HandledNow
    <3> QED BY <3>4, <3>6 DEF ToSet
  <2>5. ASSUME NEW i \in DOMAIN order', NEW name \in ToSet(imports[order'[i]])
        PROVE  HandledIn(name, {order'[j] : j \in 1..(i - 1)}, ToSet(support'))
    <3>1. CASE i \in DOMAIN order
      <4>1. \A j \in 1..(i - 1) : j \in DOMAIN order
        BY <1>5, <3>1
      <4>2. {order[j] : j \in 1..(i - 1)} \subseteq {order'[j] : j \in 1..(i - 1)}
        BY <1>6, <4>1
      <4> QED BY <1>1, <1>6, <2>1, <2>5, <3>1, <4>2, HandledNow
    <3>2. CASE i = z
      <4>1. 1..(i - 1) = DOMAIN order
        BY <1>5, <3>2 DEF z
      <4>2. ToSet(order) \subseteq {order'[j] : j \in 1..(i - 1)}
        BY <1>6, <4>1 DEF ToSet
      <4> QED BY <1>6, <2>1, <2>4, <2>5, <3>2, <4>2
    <3> QED BY <1>6, <3>1, <3>2
  <2> QED BY <1>2, <2>3, <2>5, HandledNext
<1>11. ReasonInv'
  BY <1>2 DEF ReasonInv
<1> QED BY <1>7, <1>8, <1>9, <1>10, <1>11 DEF LoaderInv

(* The three outcomes of load on a module of the graph.                    *)
LEMMA StepEnter ==
    ASSUME LoaderInv, Importing, Noted, Enter(Target(Imported)),
           Imported \in (Stdlib \cup (Dirs \ Builtin)) \ LinuxOnly,
           Imported \in WithC => Imported \in ToSet(support')
    PROVE  LoaderInv'
<1>1. LoaderTypeOK /\ StackInv /\ ReachInv
  BY DEF LoaderInv
<1>2. NameOf(Target(Imported)) = Imported
  BY <1>1, TargetFacts
<1>3. CASE Imported \in StackNames /\ GiveUp("cycle")
  <2>1. Cyclic \/ Homonym
    BY <1>1, <1>3, OnStack
  <2> QED BY <1>3, <2>1, StepGiveUp
<1>4. CASE /\ Imported \notin StackNames /\ Imported \in loaded /\ frames' = Caller
           /\ UNCHANGED <<entry, imports, loaded, order, verdict>>
  <2>1. Target(Imported) \in ToSet(order)
    BY <1>1, <1>4, LoadedIsInOrder
  <2> QED BY <1>4, <2>1, StepPast
<1>5. CASE /\ Imported \notin StackNames \cup loaded
           /\ frames' = Append(Caller, [module |-> Target(Imported), next |-> 1])
           /\ loaded' = loaded \cup {Imported}
           /\ UNCHANGED <<entry, imports, order, verdict>>
  BY <1>5, StepPush
<1> QED BY <1>2, <1>3, <1>4, <1>5 DEF Enter

(* Every step of the walk preserves the invariant.                         *)
LEMMA NextLoader == LoaderInv /\ [LoaderNext]_loaderVars => LoaderInv'
<1> SUFFICES ASSUME LoaderInv, [LoaderNext]_loaderVars PROVE LoaderInv'
  OBVIOUS
<1>1. LoaderTypeOK /\ StackInv /\ ReachInv /\ HandledInv /\ ReasonInv
  BY DEF LoaderInv
<1>2. ASSUME Importing
      PROVE  Top.module \in Program /\ Imported \in ToSet(imports[Top.module])
  BY <1>1, <1>2, ImportedFacts, TopFacts DEF ReachInv, Visited
<1>3. CASE UNCHANGED loaderVars
  <2>1. UNCHANGED <<entry, imports, frames, loaded, order, support, verdict>>
    BY <1>3 DEF loaderVars
  <2>2. LoaderTypeOK' /\ StackInv'
    BY <1>1, <2>1 DEF LoaderTypeOK, StackInv, StackNames, Dirs, NameOf, Last
  <2>3. ReachInv'
    <3>1. Visited' = Visited /\ Program' = Program
      BY <2>1, GraphStays DEF Visited
    <3>2. ASSUME NEW i \in 1..(Len(frames') - 1), NEW j \in (i + 1)..Len(frames')
          PROVE  (frames[j].module \in From(Children(frames[i].module)))'
      <4>1. frames[j].module \in From(Children(frames[i].module))
        BY <1>1, <2>1 DEF ReachInv
      <4>2. From(Children(frames[i].module))' = From(Children(frames[i].module))
        BY <2>1, FromStays
      <4> QED BY <2>1, <4>1, <4>2
    <3>3. /\ Visited' \cup {Std(name) : name \in ToSet(support')} \subseteq Program'
          /\ IsInjective(support')
      BY <1>1, <2>1, <3>1 DEF ReachInv
    <3>4. \A m \in Visited' \ {entry'} :
            m = Target(NameOf(m)) /\ (NameOf(m) \in WithC => NameOf(m) \in ToSet(support'))
      BY <1>1, <2>1, <3>1 DEF ReachInv
    <3> QED BY <3>2, <3>3, <3>4 DEF ReachInv
  <2>4. HandledInv'
    BY <1>1, <2>1 DEF HandledInv, Handled, Dirs, NameOf
  <2>5. ReasonInv'
    BY <1>1, <2>1, GraphStays DEF ReasonInv
  <2> QED BY <2>2, <2>3, <2>4, <2>5 DEF LoaderInv
<1>4. CASE Refuse
  <2>1. Uses(LinuxOnly)
    BY <1>2, <1>4 DEF Refuse, Uses
  <2> QED BY <1>4, <2>1, StepGiveUp DEF Refuse, Noted
<1>5. CASE ImportStdlib
  <2>1. Importing /\ Imported \in Stdlib \ LinuxOnly /\ Enter(Std(Imported)) /\ Noted
    BY <1>5 DEF ImportStdlib, Noted
  <2>2. Target(Imported) = Std(Imported)
    BY <2>1 DEF Target
  <2>3. Imported \in WithC => Imported \in ToSet(support')
    <3>1. support \in Seq(WithC)
      BY <1>1 DEF LoaderTypeOK
    <3> QED BY <1>5, <3>1, AppendFacts DEF ImportStdlib
  <2> QED BY <2>1, <2>2, <2>3, StepEnter
<1>6. CASE SkipBuiltin
  <2>1. Imported \notin Stdlib /\ Imported \notin LinuxOnly /\ Imported \notin WithC
    BY <1>6, LoaderAssumption DEF SkipBuiltin
  <2> QED BY <1>6, <2>1, StepPast DEF SkipBuiltin, Noted
<1>7. CASE ImportSibling
  <2>1. Imported \notin Stdlib /\ Imported \notin LinuxOnly /\ Imported \notin WithC
    BY <1>7, LoaderAssumption DEF ImportSibling
  <2>2. Target(Imported) = User(Imported)
    BY <2>1 DEF Target
  <2> QED BY <1>7, <2>1, <2>2, StepEnter DEF ImportSibling, Noted
<1>8. CASE ImportMissing
  <2>1. Missing
    BY <1>2, <1>8 DEF ImportMissing, Missing
  <2> QED BY <1>8, <2>1, StepGiveUp DEF ImportMissing, Noted
<1>9. CASE Leave
  BY <1>9, StepLeave
<1> QED BY <1>3, <1>4, <1>5, <1>6, <1>7, <1>8, <1>9 DEF LoaderNext

-----------------------------------------------------------------------------
(* The order is one of dependencies.                                       *)
LEMMA OrderFacts ==
    ASSUME LoaderInv
    PROVE  /\ IsInjective(order)
           /\ \A i \in DOMAIN order : Children(order[i]) \subseteq {order[j] : j \in 1..(i - 1)}
<1>1. IsInjective(order)
  BY DEF LoaderInv, StackInv, IsInjective
<1>2. ASSUME NEW i \in DOMAIN order, NEW name \in ToSet(imports[order[i]]),
             name \in Stdlib \cup (Dirs \ Builtin)
      PROVE  Target(name) \in {order[j] : j \in 1..(i - 1)}
  BY <1>2, HandledNow DEF LoaderInv, HandledIn
<1> QED BY <1>1, <1>2 DEF Children

(* What is before a place of the order is closed.                          *)
LEMMA PrefixClosed ==
    ASSUME LoaderInv, NEW n \in 0..Len(order)
    PROVE  /\ {order[j] : j \in 1..n} \subseteq DOMAIN imports
           /\ \A c \in {order[j] : j \in 1..n} : Children(c) \subseteq {order[j] : j \in 1..n}
<1>1. order \in Seq(DOMAIN imports)
  BY DEF LoaderInv, LoaderTypeOK
<1>2. DOMAIN order = 1..Len(order) /\ Len(order) \in Nat /\ \A i \in DOMAIN order : order[i] \in DOMAIN imports
  BY <1>1, SeqFacts
<1>3. ASSUME NEW i \in 1..n
      PROVE  /\ order[i] \in DOMAIN imports
             /\ Children(order[i]) \subseteq {order[j] : j \in 1..n}
  <2>1. i \in DOMAIN order /\ \A j \in 1..(i - 1) : j \in 1..n
    BY <1>2
  <2> QED BY <1>2, <2>1, OrderFacts
<1> QED BY <1>3

(* An accepted program is what the order holds, without a cycle.           *)
LEMMA DoneFacts ==
    ASSUME LoaderInv, verdict = "done"
    PROVE  /\ ToSet(order) = Program /\ Last(order) = entry
           /\ ToSet(support) = {name \in WithC : Std(name) \in Program}
           /\ ~Cyclic /\ ~Missing /\ ~Uses(LinuxOnly)
<1>1. LoaderTypeOK /\ StackInv /\ ReachInv /\ HandledInv
  BY DEF LoaderInv
<1>2. frames = <<>> /\ order # <<>> /\ Last(order) = entry
  BY <1>1 DEF StackInv
<1>3. /\ order \in Seq(DOMAIN imports) /\ DOMAIN order = 1..Len(order) /\ Len(order) \in DOMAIN order
      /\ Len(order) \in Nat
  <2>1. order \in Seq(DOMAIN imports)
    BY <1>1 DEF LoaderTypeOK
  <2> QED BY <1>2, <2>1, SeqFacts
<1>4. entry \in ToSet(order)
  BY <1>2, <1>3 DEF Last, ToSet
<1>5. ToSet(order) = {order[j] : j \in 1..Len(order)}
  BY <1>3 DEF ToSet
<1>6. Program \subseteq ToSet(order)
  <2>1. /\ ToSet(order) \in SUBSET DOMAIN imports
        /\ \A c \in ToSet(order) : Children(c) \subseteq ToSet(order)
    <3>1. Len(order) \in 0..Len(order)
      BY <1>3
    <3> QED BY <1>5, <3>1, PrefixClosed
  <2> QED BY <1>4, <2>1, FromFacts DEF Program
<1>7. ToSet(order) = Program
  BY <1>1, <1>6 DEF ReachInv, Visited
<1>8. ~Cyclic
  <2>1. SUFFICES ASSUME NEW m \in Program, m \in From(Children(m)) PROVE FALSE
    BY DEF Cyclic
  <2>2. PICK i \in DOMAIN order : m = order[i]
    BY <1>7, <2>1 DEF ToSet
  <2> DEFINE C == {order[j] : j \in 1..(i - 1)}
  <2>3. i - 1 \in 0..Len(order)
    BY <1>3, <2>2
  <2>4. C \subseteq DOMAIN imports /\ \A c \in C : Children(c) \subseteq C
    BY <2>3, PrefixClosed
  <2>5. Children(m) \subseteq C
    BY <2>2, OrderFacts
  <2>6. From(Children(m)) \subseteq C
    <3>1. C \in SUBSET DOMAIN imports
      BY <2>4
    <3> HIDE DEF C
    <3> QED BY <2>4, <2>5, <3>1, FromFacts
  <2>7. PICK j \in 1..(i - 1) : order[j] = order[i]
    BY <2>1, <2>2, <2>6
  <2>8. j \in DOMAIN order /\ j # i
    BY <1>3, <2>2, <2>7
  <2> QED BY <2>2, <2>7, <2>8, OrderFacts DEF IsInjective
<1>9. ASSUME NEW m \in Program, NEW name \in ToSet(imports[m])
      PROVE  name \in (Dirs \cup Stdlib \cup Builtin) \ LinuxOnly
  <2>1. PICK i \in DOMAIN order : m = order[i]
    BY <1>7 DEF ToSet
  <2> QED BY <1>1, <1>9, <2>1, HandledNow DEF HandledIn
<1>10. ~Missing /\ ~Uses(LinuxOnly)
  BY <1>9 DEF Missing, Uses
<1>11. ToSet(support) = {name \in WithC : Std(name) \in Program}
  <2>1. ASSUME NEW name \in ToSet(support) PROVE name \in WithC /\ Std(name) \in Program
    <3>1. support \in Seq(WithC)
      BY <1>1 DEF LoaderTypeOK
    <3>2. name \in WithC
      BY <3>1, SeqFacts DEF ToSet
    <3> QED BY <1>1, <3>2 DEF ReachInv
  <2>2. ASSUME NEW name \in WithC, Std(name) \in Program PROVE name \in ToSet(support)
    <3>1. Std(name) \in Visited /\ Std(name) # entry /\ NameOf(Std(name)) = name
      BY <1>1, <1>7, <2>2, TargetFacts DEF Visited, NameOf, Std
    <3> QED BY <1>1, <3>1 DEF ReachInv
  <2> QED BY <2>1, <2>2
<1> QED BY <1>2, <1>7, <1>8, <1>10, <1>11

(* The walk keeps its invariant on every import graph.                     *)
THEOREM LoaderInductive == LoaderSpec => []LoaderInv
BY InitLoader, NextLoader, PTL DEF LoaderSpec

(* On every import graph: the order puts each module once and after all it *)
(* imports; an accepted program has no cycle, no unknown and no refused    *)
(* import, and its order and its C files are just what the entry reaches;  *)
(* a rejected one is rejected for a reason it has, or because its entry    *)
(* has the name of a standard library module that it uses.                 *)
THEOREM VerdictIsExact == LoaderSpec => []VerdictExact
<1>1. LoaderInv => VerdictExact
  BY OrderFacts, DoneFacts DEF VerdictExact, LoaderInv, ReachInv, ReasonInv
<1> QED BY <1>1, LoaderInductive, PTL

-----------------------------------------------------------------------------
(* The walk gets on.                                                       *)

(* The imports of the call at work that it has not looked at are not       *)
(* passed: its module is on the stack once and not in order.               *)
LEMMA TopIsFresh ==
    ASSUME LoaderTypeOK, StackInv, frames # <<>>, NEW k, k \notin 1..(Top.next - 1)
    PROVE  <<Top.module, k>> \notin Passed
<1>1. Len(frames) \in DOMAIN frames /\ Top = frames[Len(frames)]
  BY TopFacts
<1>2. ASSUME NEW i \in DOMAIN frames, frames[i].module = Top.module PROVE i = Len(frames)
  BY <1>1, <1>2 DEF StackInv
<1>3. Top.module \notin ToSet(order)
  BY <1>1 DEF StackInv, ToSet
<1> QED BY <1>1, <1>2, <1>3 DEF Passed

(* A call that goes past an import, whether or not it enters the module.   *)
LEMMA CallerAdvances ==
    ASSUME LoaderInv, Importing, UNCHANGED <<imports, order>>,
           \/ frames' = Caller
           \/ \E child \in DOMAIN imports : frames' = Append(Caller, [module |-> child, next |-> 1])
    PROVE  Passed \subseteq Passed' /\ Passed' # Passed
<1>1. LoaderTypeOK /\ StackInv
  BY DEF LoaderInv
<1>2. /\ frames # <<>> /\ Len(frames) \in DOMAIN frames /\ Top = frames[Len(frames)]
      /\ Top.module \in DOMAIN imports /\ Top.next \in Nat \ {0} /\ Top.next <= Len(imports[Top.module])
      /\ \A i \in DOMAIN frames : frames[i].next \in Nat \ {0}
  BY <1>1, TopFacts, ImportedFacts DEF Importing
<1>3. \A i \in DOMAIN frames : i \in DOMAIN frames' /\ frames'[i] = Caller[i]
  <2>1. ASSUME NEW child \in DOMAIN imports
        PROVE  [module |-> child, next |-> 1] \in Frame
    BY DEF Frame
  <2>2. Caller \in Seq(Frame) /\ DOMAIN Caller = DOMAIN frames
    BY <1>1, <1>2, CallerFacts DEF Importing
  <2>3. CASE frames' = Caller
    BY <2>2, <2>3
  <2>4. ASSUME NEW child \in DOMAIN imports, frames' = Append(Caller, [module |-> child, next |-> 1])
        PROVE  \A i \in DOMAIN frames : i \in DOMAIN frames' /\ frames'[i] = Caller[i]
    BY <2>1, <2>2, <2>4, AppendFacts
  <2> QED BY <2>3, <2>4
<1>4. ImportSteps' = ImportSteps /\ order' = order
  BY DEF ImportSteps
<1>5. ASSUME NEW s \in Passed PROVE s \in Passed'
  <2>1. CASE s[1] \in ToSet(order)
    BY <1>4, <2>1 DEF Passed
  <2>2. ASSUME NEW i \in DOMAIN frames, s[1] = frames[i].module, s[2] \in 1..(frames[i].next - 1)
        PROVE  s \in Passed'
    <3>1. frames'[i].module = frames[i].module
      BY <1>1, <1>3, CallerFacts
    <3>2. s[2] \in 1..(frames'[i].next - 1)
      <4>1. CASE i = Len(frames)
        <5>1. frames'[i].next = frames[i].next + 1
          BY <1>1, <1>2, <1>3, <4>1, CallerFacts
        <5> QED BY <1>2, <2>2, <5>1
      <4>2. CASE i # Len(frames)
        BY <1>1, <1>3, <2>2, <4>2, CallerFacts
      <4> QED BY <4>1, <4>2
    <3> QED BY <1>3, <1>4, <2>2, <3>1, <3>2 DEF Passed
  <2> QED BY <2>1, <2>2 DEF Passed
<1>6. <<Top.module, Top.next>> \in Passed'
  <2>1. frames'[Len(frames)].module = Top.module /\ frames'[Len(frames)].next = Top.next + 1
    BY <1>1, <1>2, <1>3, CallerFacts
  <2>2. Top.next \in 1..(Top.next + 1 - 1) /\ Len(imports[Top.module]) \in Nat
    BY <1>1, <1>2 DEF LoaderTypeOK
  <2>3. Top.next \in 0..Len(imports[Top.module])
    BY <1>2, <2>2
  <2>4. <<Top.module, Top.next>> \in ImportSteps
    BY <1>2, <2>3 DEF ImportSteps
  <2> QED BY <1>2, <1>3, <1>4, <2>1, <2>2, <2>4 DEF Passed
<1>7. <<Top.module, Top.next>> \notin Passed
  BY <1>1, <1>2, TopIsFresh
<1> QED BY <1>5, <1>6, <1>7

(* A module that is returned from has all its imports passed.              *)
LEMMA LeaveAdvances ==
    ASSUME LoaderInv, Leave
    PROVE  Passed \subseteq Passed' /\ Passed' # Passed
<1>1. LoaderTypeOK /\ StackInv /\ frames # <<>> /\ UNCHANGED imports
  BY DEF LoaderInv, Leave
<1>2. /\ Len(frames) \in DOMAIN frames /\ Top = frames[Len(frames)] /\ Top.module \in DOMAIN imports
  BY <1>1, TopFacts
<1>3. ToSet(order') = ToSet(order) \cup {Top.module}
  BY <1>1, <1>2, AppendFacts DEF LoaderTypeOK, Leave
<1>4. \A i \in DOMAIN frames : i = Len(frames) \/ (i \in DOMAIN frames' /\ frames'[i] = frames[i])
  <2>1. frames \in Seq(Frame)
    BY <1>1 DEF LoaderTypeOK, Frame
  <2> QED BY <1>1, <2>1, FrontFacts DEF Leave
<1>5. ImportSteps' = ImportSteps
  BY <1>1 DEF ImportSteps
<1>6. ASSUME NEW s \in Passed PROVE s \in Passed'
  BY <1>2, <1>3, <1>4, <1>5 DEF Passed
<1>7. <<Top.module, 0>> \in Passed'
  <2>1. Len(imports[Top.module]) \in Nat
    BY <1>1, <1>2 DEF LoaderTypeOK
  <2>2. 0 \in 0..Len(imports[Top.module])
    BY <2>1
  <2>3. <<Top.module, 0>> \in ImportSteps
    BY <1>2, <2>2 DEF ImportSteps
  <2> QED BY <1>3, <1>5, <2>3 DEF Passed
<1>8. <<Top.module, 0>> \notin Passed
  BY <1>1, TopIsFresh
<1> QED BY <1>6, <1>7, <1>8

(* load(child): whatever is found of the module.                           *)
LEMMA EnterAdvances ==
    ASSUME LoaderInv, Importing, NEW child \in DOMAIN imports, Enter(child)
    PROVE  Advances
<1>1. CASE GiveUp("cycle")
  BY <1>1 DEF GiveUp, Advances, Importing
<1>2. CASE frames' = Caller /\ UNCHANGED <<entry, imports, loaded, order, verdict>>
  BY <1>2, CallerAdvances DEF Advances, Importing
<1>3. CASE /\ frames' = Append(Caller, [module |-> child, next |-> 1])
           /\ UNCHANGED <<entry, imports, order, verdict>>
  BY <1>3, CallerAdvances DEF Advances, Importing
<1> QED BY <1>1, <1>2, <1>3 DEF Enter

(* The walk goes on: each step of it passes what was not passed, of the    *)
(* finitely many imports there are, or gives up; so it makes at most one   *)
(* step more than those.                                                   *)
THEOREM WalkAdvances == LoaderSpec => [][Advances]_loaderVars
<1>1. LoaderInv /\ [LoaderNext]_loaderVars => [Advances]_loaderVars
  <2> SUFFICES ASSUME LoaderInv, LoaderNext PROVE Advances
    OBVIOUS
  <2>1. LoaderTypeOK
    BY DEF LoaderInv
  <2>2. CASE Refuse \/ ImportMissing
    BY <2>2 DEF Refuse, ImportMissing, GiveUp, Advances, Importing
  <2>3. CASE ImportStdlib
    <3>1. Target(Imported) = Std(Imported) /\ Target(Imported) \in DOMAIN imports
      BY <2>1, <2>3, TargetFacts DEF ImportStdlib
    <3> QED BY <2>3, <3>1, EnterAdvances DEF ImportStdlib
  <2>4. CASE SkipBuiltin
    BY <2>4, CallerAdvances DEF SkipBuiltin, Advances, Importing
  <2>5. CASE ImportSibling
    <3>1. Target(Imported) = User(Imported) /\ Target(Imported) \in DOMAIN imports
      BY <2>1, <2>5, TargetFacts DEF ImportSibling
    <3> QED BY <2>5, <3>1, EnterAdvances DEF ImportSibling
  <2>6. CASE Leave
    BY <2>6, LeaveAdvances DEF Leave, Advances
  <2> QED BY <2>2, <2>3, <2>4, <2>5, <2>6 DEF LoaderNext
<1> QED BY <1>1, LoaderInductive, PTL DEF LoaderSpec
=============================================================================
