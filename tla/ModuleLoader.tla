----------------------------- MODULE ModuleLoader -----------------------------
(***************************************************************************)
(* How the modules of a program are found and put in order                 *)
(* (parse_project_sources in compiler/__init__.py): from the entry         *)
(* directory a depth-first walk over the imports, with `stack` for cycles, *)
(* `loaded` for what was visited and `order` for what is complete.  All    *)
(* three know a module by its name, the last component of its directory.   *)
(***************************************************************************)
EXTENDS Naturals, Sequences, FiniteSets, SequencesExt

CONSTANTS
    Sibling,      \* directories next to the entry's that have .nc files
    Stdlib,       \* STDLIB_SOURCE_MODULES
    Builtin,      \* BUILTIN_MODULES with no source (io, runtime, types)
    WithC,        \* modules of Stdlib that come with a C file
    LinuxOnly,    \* the modules a target other than linux-x64 refuses
    StdImports,   \* the imports of each module of Stdlib
    EntryName,    \* the names the entry directory may have
    ImportLists   \* the import lists the modules of a program may have

ASSUME LoaderAssumption ==
    /\ WithC \subseteq Stdlib /\ LinuxOnly \subseteq Stdlib
    /\ StdImports \in [Stdlib -> Seq(Stdlib)]
    /\ \A list \in ImportLists : list \in Seq(ToSet(list))
    /\ Stdlib \cap Sibling = {} /\ Builtin \cap (Stdlib \cup Sibling) = {}

(* A directory: of the project, or of the standard library.                *)
User(name) == <<"user", name>>
Std(name)  == <<"std", name>>
NameOf(m)  == m[2]
Module     == {User(name) : name \in Sibling \cup EntryName} \cup {Std(name) : name \in Stdlib}

VARIABLES
    entry,    \* the entry module
    imports,  \* the import statements of each module, in order
    frames,   \* calls of load: [module, next], next the import it looks at
    loaded,   \* the keys of `loaded`
    order,    \* modules, each when its imports are complete
    support,  \* support_c_sources
    verdict   \* "running", "done" or why the compiler gave up

loaderVars == <<entry, imports, frames, loaded, order, support, verdict>>

Dirs == Sibling \cup {NameOf(entry)}

LoaderInit ==
    /\ entry \in {User(name) : name \in EntryName}
    /\ \E lists \in [{User(name) : name \in Dirs} -> ImportLists] :
           imports = [m \in DOMAIN lists \cup {Std(name) : name \in Stdlib} |->
                         IF m \in DOMAIN lists THEN lists[m] ELSE StdImports[NameOf(m)]]
    /\ frames = <<[module |-> entry, next |-> 1]>>
    /\ loaded = {NameOf(entry)}
    /\ order = <<>>
    /\ support = <<>>
    /\ verdict = "running"

-----------------------------------------------------------------------------
Top        == frames[Len(frames)]
Importing  == verdict = "running" /\ frames # <<>> /\ Top.next <= Len(imports[Top.module])
Imported   == imports[Top.module][Top.next]
Caller     == [frames EXCEPT ![Len(frames)].next = @ + 1]
StackNames == {NameOf(frames[i].module) : i \in DOMAIN frames}

GiveUp(why) == verdict' = why /\ UNCHANGED <<entry, imports, frames, loaded, order>>

(* load(child): a module on the stack is a cycle, one that was loaded is   *)
(* not visited again, any other is entered.                                *)
EnterLoadedFirst(child) ==   \* mutant: the two tests the other way round
    IF NameOf(child) \in loaded
    THEN frames' = Caller /\ UNCHANGED <<entry, imports, loaded, order, verdict>>
    ELSE /\ frames' = Append(Caller, [module |-> child, next |-> 1])
         /\ loaded' = loaded \cup {NameOf(child)}
         /\ UNCHANGED <<entry, imports, order, verdict>>
Enter(child) ==
    \/ NameOf(child) \in StackNames /\ GiveUp("cycle")
    \/ /\ NameOf(child) \notin StackNames /\ NameOf(child) \in loaded
       /\ frames' = Caller
       /\ UNCHANGED <<entry, imports, loaded, order, verdict>>
    \/ /\ NameOf(child) \notin StackNames \cup loaded
       /\ frames' = Append(Caller, [module |-> child, next |-> 1])
       /\ loaded' = loaded \cup {NameOf(child)}
       /\ UNCHANGED <<entry, imports, order, verdict>>

Refuse ==
    /\ Importing /\ Imported \in LinuxOnly
    /\ GiveUp("target")
    /\ UNCHANGED support

(* A name of the standard library is never looked up next to the entry;    *)
(* its C file is put on the list once, before it is known whether the      *)
(* module was loaded already.                                              *)
ImportStdlib ==
    /\ Importing /\ Imported \in Stdlib \ LinuxOnly
    /\ support' = IF Imported \in WithC \ ToSet(support) THEN Append(support, Imported)
                                                         ELSE support
    /\ Enter(Std(Imported))

SkipBuiltinStays ==   \* mutant: looks at the same import again
    /\ Importing /\ Imported \in Builtin
    /\ UNCHANGED loaderVars
SkipBuiltin ==
    /\ Importing /\ Imported \in Builtin
    /\ frames' = Caller
    /\ UNCHANGED <<entry, imports, loaded, order, support, verdict>>

ImportSibling ==
    /\ Importing /\ Imported \in Dirs \ (Stdlib \cup Builtin)
    /\ Enter(User(Imported))
    /\ UNCHANGED support

(* No such directory, or no .nc file in it.                                *)
ImportMissing ==
    /\ Importing /\ Imported \notin Dirs \cup Stdlib \cup Builtin
    /\ GiveUp("missing")
    /\ UNCHANGED support

(* All imports are complete: stack.pop, order.append.                      *)
Leave ==
    /\ verdict = "running" /\ frames # <<>> /\ ~Importing
    /\ order' = Append(order, Top.module)
    /\ frames' = Front(frames)
    /\ verdict' = IF Len(frames) = 1 THEN "done" ELSE verdict
    /\ UNCHANGED <<entry, imports, loaded, support>>

LoaderNext ==
    \/ Refuse \/ ImportStdlib \/ SkipBuiltin \/ ImportSibling \/ ImportMissing
    \/ Leave

LoaderSpec == LoaderInit /\ [][LoaderNext]_loaderVars /\ WF_loaderVars(LoaderNext)

-----------------------------------------------------------------------------
(* The import graph, by directories.                                       *)
Target(name) == IF name \in Stdlib THEN Std(name) ELSE User(name)
Children(m)  ==
    {Target(name) : name \in {n \in ToSet(imports[m]) : n \in Stdlib \cup (Dirs \ Builtin)}}
From(S) ==   \* all that can be reached from S: no closed set with S leaves it out
    {m \in DOMAIN imports : \A C \in SUBSET (DOMAIN imports \ {m}) :
         S \subseteq C => \E c \in C : ~(Children(c) \subseteq C)}
Program  == From({entry})
Cyclic   == \E m \in Program : m \in From(Children(m))
Uses(S)  == \E m \in Program : ToSet(imports[m]) \cap S # {}
Missing  == \E m \in Program : ~(ToSet(imports[m]) \subseteq Dirs \cup Stdlib \cup Builtin)
Homonym  == NameOf(entry) \in Stdlib /\ Std(NameOf(entry)) \in Program

(* __init__.py:318-353 against the graph of the directories: each module   *)
(* is put in order once and after all it imports.  The program is accepted *)
(* with exactly the modules that can be reached, the entry last, and the C *)
(* file of each once, if nothing is missing, refused or cyclic; it is      *)
(* rejected only for a reason it has.  The one exception is an entry       *)
(* directory named like a module of the standard library the program uses: *)
(* that is taken for a cycle.                                              *)
VerdictExact ==
    /\ IsInjective(order)
    /\ \A i \in DOMAIN order : Children(order[i]) \subseteq {order[j] : j \in 1..(i - 1)}
    /\ verdict = "done" =>
           /\ ToSet(order) = Program /\ Last(order) = entry
           /\ IsInjective(support)
           /\ ToSet(support) = {name \in WithC : Std(name) \in ToSet(order)}
           /\ ~Cyclic /\ ~Missing /\ ~Uses(LinuxOnly)
    /\ verdict = "cycle" => Homonym \/ Cyclic
    /\ verdict = "missing" => Missing
    /\ verdict = "target" => Uses(LinuxOnly)

(* __init__.py:318-355: the walk ends, on every graph of imports.          *)
LoaderEnds == <>(verdict # "running")

(* __init__.py:318-355: why: each step looks at an import that no call has *)
(* looked at, or returns from a module, or gives up: with finitely many    *)
(* modules, that ends.                                                     *)
ImportSteps == UNION {{m} \X (0..Len(imports[m])) : m \in DOMAIN imports}
Passed ==
    {s \in ImportSteps :
        \/ \E i \in DOMAIN frames : s[1] = frames[i].module /\ s[2] \in 1..(frames[i].next - 1)
        \/ s[1] \in ToSet(order)}
Advances ==
    /\ verdict = "running" /\ UNCHANGED imports
    /\ \/ verdict' \in {"cycle", "missing", "target"}
       \/ Passed \subseteq Passed' /\ Passed' # Passed

-----------------------------------------------------------------------------
(* The inductive invariant behind VerdictExact.                            *)

LoaderTypeOK ==
    /\ entry \in {User(name) : name \in EntryName}
    /\ DOMAIN imports = {User(name) : name \in Dirs} \cup {Std(name) : name \in Stdlib}
    /\ \A m \in DOMAIN imports : imports[m] \in Seq(ToSet(imports[m]))
    /\ frames \in Seq([module : DOMAIN imports, next : Nat \ {0}])
    /\ order \in Seq(DOMAIN imports)
    /\ support \in Seq(WithC)
    /\ verdict \in {"running", "done", "cycle", "missing", "target"}

(* The entry is at the bottom of the stack until it is the last in order;  *)
(* `loaded` are the names on the stack and in order, each of them once.    *)
StackInv ==
    /\ frames # <<>> => frames[1].module = entry
    /\ verdict = "running" => frames # <<>>
    /\ verdict = "done" => frames = <<>> /\ order # <<>> /\ Last(order) = entry
    /\ loaded = StackNames \cup {NameOf(m) : m \in ToSet(order)}
    /\ \A i, j \in DOMAIN frames :
          NameOf(frames[i].module) = NameOf(frames[j].module) => i = j
    /\ \A i, j \in DOMAIN order : NameOf(order[i]) = NameOf(order[j]) => i = j
    /\ \A i \in DOMAIN frames, j \in DOMAIN order : NameOf(frames[i].module) # NameOf(order[j])

(* What was visited belongs to the program, is the module its name stands  *)
(* for unless it is the entry, and has its C file on the list; a module on *)
(* the stack is reached from the imports of each one below it.             *)
Visited == {frames[i].module : i \in DOMAIN frames} \cup ToSet(order)
ReachInv ==
    /\ Visited \cup {Std(name) : name \in ToSet(support)} \subseteq Program
    /\ \A m \in Visited \ {entry} :
          m = Target(NameOf(m)) /\ (NameOf(m) \in WithC => NameOf(m) \in ToSet(support))
    /\ \A i \in 1..(Len(frames) - 1) :
          {frames[j].module : j \in (i + 1)..Len(frames)} \subseteq From(Children(frames[i].module))
    /\ IsInjective(support)

(* The imports a call has looked at are known, allowed and complete, but   *)
(* for the one that is being loaded; of a complete module, all of them     *)
(* are, and precede it.                                                    *)
Handled(name, S) ==
    /\ name \in (Dirs \cup Stdlib \cup Builtin) \ LinuxOnly
    /\ name \in WithC => name \in ToSet(support)
    /\ name \in Stdlib \cup (Dirs \ Builtin) => Target(name) \in S
HandledInv ==
    /\ \A i \in DOMAIN frames : \A k \in DOMAIN imports[frames[i].module] :
          k < frames[i].next =>
              Handled(imports[frames[i].module][k],
                      ToSet(order) \cup {frames[j].module : j \in {i + 1} \cap DOMAIN frames})
    /\ \A i \in DOMAIN order : \A name \in ToSet(imports[order[i]]) :
          Handled(name, {order[j] : j \in 1..(i - 1)})

ReasonInv ==
    /\ verdict = "cycle" => Homonym \/ Cyclic
    /\ verdict = "missing" => Missing
    /\ verdict = "target" => Uses(LinuxOnly)

LoaderInv == LoaderTypeOK /\ StackInv /\ ReachInv /\ HandledInv /\ ReasonInv
===============================================================================
