------------------------------ MODULE BuildCache ------------------------------
(***************************************************************************)
(* What compilers keep between builds.  compiler/ncrt.py keeps the objects *)
(* of the C runtime in one directory that all compilers of the machine     *)
(* share (the test runners start one process per core), under the hash of  *)
(* the runtime's sources; `nc build --keep-objs` keeps the object of each  *)
(* NC module in the project's own build directory, under the hash of its   *)
(* LLVM IR.                                                                *)
(*                                                                         *)
(* A compiler here is a place from which builds are started one after the  *)
(* other, each a process of its own.  A file is None, or whether it is     *)
(* whole and the versions of the sources it was made of.  The in-process   *)
(* dictionaries in front of the directory are left out: they map a key to  *)
(* the path it always has and are believed only if that path exists.  The  *)
(* objects of the standard library's C files (_cached_c_obj) go through    *)
(* the same steps, as one more part.                                       *)
(***************************************************************************)
EXTENDS Naturals, Sequences

CONSTANTS
    Compiler,
    Version,      \* of a source file
    None,
    OpenBlocks,   \* os.replace fails on a file that is open (Windows)
    MaxBuilds,    \* bound: builds of all compilers
    MaxTroubles   \* bound: edits of the runtime's sources, killed compilers,
                  \* failures of gcc and deleted objects, together

Object == [whole : BOOLEAN, of : Version]

ASSUME BuildAssumption ==
    /\ Version # {} /\ None \notin Version \cup Object
    /\ OpenBlocks \in BOOLEAN
    /\ MaxBuilds \in Nat /\ MaxTroubles \in Nat

(* The files the key hashes, in order: ncrt.c (with ncrt.h, which nothing  *)
(* else includes) and ncrt_switch_win64.S, and the object built from each. *)
SourceFile == 1..2
Part       == {"ncrt", "switch"}
Key        == [SourceFile -> Version]
Input(p, versions)  == IF p = "ncrt" THEN versions[1] ELSE versions[2]

TmpName == Compiler \X (1..MaxBuilds)

VARIABLES
    sources,   \* the runtime's sources on disk
    shared,    \* the shared directory: the object of each part under each key
    tmp,       \* temporary objects in the shared directory
    modules,   \* <out_dir>/.nc-cache of each compiler: an object per IR
    pc,        \* where the build of each compiler stands
    started,   \* builds that all compilers have started
    process,   \* and each of them: its last build is the one of that number
    ir,        \* LLVM IR of the module each compiler builds
    part,      \* the part each compiler is fetching
    seen,      \* source files it has hashed for that part
    out,       \* objects in its out_dir that it will link
    why,       \* why its last build failed
    troubles,  \* how often the environment has interfered
    met,       \* ghost: in which ways
    raced,     \* ghost: compilers with a hashed file that changed before gcc read it
    disturbed, \* ghost: compilers that saw an edit since their build started
    poisoned,  \* ghost: <<part, key>> published by a compiler that raced
    misled,    \* ghost: <<compiler, part>> copied from a poisoned object
    abandoned  \* ghost: builds that were killed or could not replace an object

vars == <<sources, shared, tmp, modules, pc, started, process, ir, part, seen, out,
          why, troubles, met, raced, disturbed, poisoned, misled, abandoned>>

ids     == <<started, process>>
mine    == <<ids, ir, part, seen, out, why>>   \* but pc
files   == <<sources, shared, tmp, modules>>
world   == <<troubles, met>>
ghosts  == <<raced, disturbed, poisoned, misled, abandoned>>

Trouble == {"edit", "crash", "gcc", "remove"}

NoOut == [module |-> None, ncrt |-> None, switch |-> None]

Init ==
    /\ sources \in Key
    /\ shared = [p \in Part |-> [k \in Key |-> None]]
    /\ tmp = [n \in TmpName |-> None]
    /\ modules = [c \in Compiler |-> [v \in Version |-> None]]
    /\ pc = [c \in Compiler |-> "idle"]
    /\ started = 0
    /\ process = [c \in Compiler |-> 0]
    /\ ir = [c \in Compiler |-> None]
    /\ part = [c \in Compiler |-> "ncrt"]
    /\ seen = [c \in Compiler |-> <<>>]
    /\ out = [c \in Compiler |-> NoOut]
    /\ why = [c \in Compiler |-> ""]
    /\ troubles = 0 /\ met = {}
    /\ raced = {} /\ disturbed = {} /\ poisoned = {}
    /\ misled = {} /\ abandoned = {}

-----------------------------------------------------------------------------
Resting == {"idle", "built", "failed"}

Fetching == {"lookup", "gcc", "write", "check", "publish", "copy", "copying"}

Goto(c, label) == pc' = [pc EXCEPT ![c] = label]

(* What the ghosts say of a compiler is of one build.                      *)
Forget(c) ==
    /\ raced' = raced \ {c}
    /\ disturbed' = disturbed \ {c}
    /\ misled' = misled \ ({c} \X Part)

(* The process ends, with all it knew.                                     *)
Fail(c, reason) ==
    /\ Goto(c, "failed")
    /\ why' = [why EXCEPT ![c] = reason]
    /\ ir' = [ir EXCEPT ![c] = None]
    /\ part' = [part EXCEPT ![c] = "ncrt"]
    /\ seen' = [seen EXCEPT ![c] = <<>>]
    /\ out' = [out EXCEPT ![c] = NoOut]
    /\ Forget(c)

Meet(t) ==
    /\ troubles < MaxTroubles
    /\ troubles' = troubles + 1
    /\ met' = met \cup {t}

(* A build starts: the NC sources, read once, become LLVM IR in memory.    *)
Start(c) ==
    /\ pc[c] \in Resting /\ started < MaxBuilds
    /\ started' = started + 1
    /\ process' = [process EXCEPT ![c] = @ + 1]
    /\ \E v \in Version : ir' = [ir EXCEPT ![c] = v]
    /\ part' = [part EXCEPT ![c] = "ncrt"]
    /\ seen' = [seen EXCEPT ![c] = <<>>]
    /\ out' = [out EXCEPT ![c] = NoOut]
    /\ why' = [why EXCEPT ![c] = ""]
    /\ Forget(c)
    /\ Goto(c, "module")
    /\ UNCHANGED <<files, world, poisoned, abandoned>>

-----------------------------------------------------------------------------
(* build_llvm_module_objects: the fingerprint of the module is the hash of *)
(* its IR; the cached object, if it exists, is copied whatever is in it.   *)
FingerprintOfNone(v) == CHOOSE w \in Version : TRUE   \* mutant: not of the IR
Fingerprint(v) == v

ModuleHit(c) ==
    LET object == modules[c][Fingerprint(ir[c])] IN
    /\ pc[c] = "module" /\ object # None
    /\ out' = [out EXCEPT ![c].module = object]
    /\ Goto(c, "hash")
    /\ UNCHANGED <<files, ids, ir, part, seen, why, world, ghosts>>

(* open(cached_obj, "wb"): from here to the end of the write the object    *)
(* exists under its final name and is not whole.                           *)
ModuleMiss(c) ==
    /\ pc[c] = "module" /\ modules[c][Fingerprint(ir[c])] = None
    /\ modules' = [modules EXCEPT ![c][Fingerprint(ir[c])] =
                       [whole |-> FALSE, of |-> ir[c]]]
    /\ Goto(c, "modwrite")
    /\ UNCHANGED <<sources, shared, tmp, mine, world, ghosts>>

ModuleWritten(c) ==
    LET object == [whole |-> TRUE, of |-> ir[c]] IN
    /\ pc[c] = "modwrite"
    /\ modules' = [modules EXCEPT ![c][Fingerprint(ir[c])] = object]
    /\ out' = [out EXCEPT ![c].module = object]
    /\ Goto(c, "hash")
    /\ UNCHANGED <<sources, shared, tmp, ids, ir, part, seen, why, world, ghosts>>

-----------------------------------------------------------------------------
(* _ncrt_cache_key: the files are read one after the other.                *)
ReadForKeyNoSwitch(i) ==   \* mutant: the switch is not part of the key
    IF i = 2 THEN CHOOSE v \in Version : TRUE ELSE sources[i]
ReadForKey(i) == sources[i]

HashedAllEarly(i) == i = 1   \* mutant: the last file is left out
HashedAll(i) == i = 2

HashFile(c) ==
    LET i == Len(seen[c]) + 1 IN
    /\ pc[c] = "hash"
    /\ seen' = [seen EXCEPT ![c] = Append(@, ReadForKey(i))]
    /\ Goto(c, IF HashedAll(i) THEN "lookup" ELSE "hash")
    /\ UNCHANGED <<files, ids, ir, part, out, why, world, ghosts>>

(* obj_path exists, or gcc has to make it.                                 *)
Lookup(c) ==
    /\ pc[c] = "lookup"
    /\ Goto(c, IF shared[part[c]][seen[c]] # None THEN "copy" ELSE "gcc")
    /\ UNCHANGED <<files, mine, world, ghosts>>

(* The name of the temporary: process id and uuid.                         *)
TmpOf(c) == <<c, process[c]>>

(* gcc reads the sources, as they are now, and starts writing.             *)
GccReads(c) ==
    /\ pc[c] = "gcc"
    /\ tmp' = [tmp EXCEPT ![TmpOf(c)] =
                   [whole |-> FALSE, of |-> Input(part[c], sources)]]
    /\ Goto(c, "write")
    /\ UNCHANGED <<sources, shared, modules, mine, world, ghosts>>

GccWrites(c) ==
    /\ pc[c] = "write"
    /\ tmp' = [tmp EXCEPT ![TmpOf(c)].whole = TRUE]
    /\ Goto(c, "check")
    /\ UNCHANGED <<sources, shared, modules, mine, world, ghosts>>

(* A gcc that fails may have left a temporary: it is removed if it exists. *)
TmpAfterFailureKept(c) == tmp   \* mutant: no clean-up
TmpAfterFailure(c) == [tmp EXCEPT ![TmpOf(c)] = None]

GccFails(c) ==
    /\ pc[c] \in {"gcc", "write"}
    /\ Meet("gcc")
    /\ tmp' = TmpAfterFailure(c)
    /\ Fail(c, "gcc")
    /\ UNCHANGED <<sources, shared, modules, ids, poisoned, abandoned>>

(* Another compiler was first: its object is used and the temporary goes.  *)
DropsSecondFirst(c) ==   \* mutant: the published object goes instead
    /\ shared' = [shared EXCEPT ![part[c]][seen[c]] = None]
    /\ tmp' = tmp
    /\ Goto(c, "publish")
DropsSecond(c) ==
    /\ tmp' = [tmp EXCEPT ![TmpOf(c)] = None]
    /\ shared' = shared
    /\ Goto(c, "copy")

FindsOther(c) ==
    /\ pc[c] = "check" /\ shared[part[c]][seen[c]] # None
    /\ DropsSecond(c)
    /\ UNCHANGED <<sources, modules, mine, world, ghosts>>

FindsNothing(c) ==
    /\ pc[c] = "check" /\ shared[part[c]][seen[c]] = None
    /\ Goto(c, "publish")
    /\ UNCHANGED <<files, mine, world, ghosts>>

(* Somebody copies from the object a compiler is about to replace.         *)
InUse(p, k) == \E d \in Compiler : pc[d] = "copying" /\ part[d] = p /\ seen[d] = k

Blocked(p, k) == OpenBlocks /\ InUse(p, k)

Publish(c) ==
    /\ pc[c] = "publish" /\ ~Blocked(part[c], seen[c])
    /\ shared' = [shared EXCEPT ![part[c]][seen[c]] = tmp[TmpOf(c)]]
    /\ tmp' = [tmp EXCEPT ![TmpOf(c)] = None]
    /\ poisoned' = IF c \in raced THEN poisoned \cup {<<part[c], seen[c]>>}
                                  ELSE poisoned \ {<<part[c], seen[c]>>}
    /\ Goto(c, "copy")
    /\ UNCHANGED <<sources, modules, mine, world, raced, disturbed, misled, abandoned>>

(* os.replace raises: the build ends and the temporary stays.              *)
PublishBlocked(c) ==
    /\ pc[c] = "publish" /\ Blocked(part[c], seen[c])
    /\ Fail(c, "busy")
    /\ abandoned' = abandoned \cup {TmpOf(c)}
    /\ UNCHANGED <<files, ids, world, poisoned>>

(* shutil.copyfile opens the object, which may have gone since it was seen *)
Copy(c) ==
    LET object == shared[part[c]][seen[c]] IN
    /\ pc[c] = "copy" /\ object # None
    /\ out' = [out EXCEPT ![c][part[c]] = object]
    /\ misled' = IF <<part[c], seen[c]>> \in poisoned
                 THEN misled \cup {<<c, part[c]>>} ELSE misled
    /\ Goto(c, "copying")
    /\ UNCHANGED <<files, ids, ir, part, seen, why, world, raced, disturbed, poisoned, abandoned>>

CopyMissing(c) ==
    /\ pc[c] = "copy" /\ shared[part[c]][seen[c]] = None
    /\ Fail(c, "gone")
    /\ UNCHANGED <<files, ids, world, poisoned, abandoned>>

(* The copy ends.  build_ncrt_objs goes on with the switch, for which the  *)
(* sources are hashed again; the objects of both are linked.               *)
Copied(c) ==
    /\ pc[c] = "copying"
    /\ IF part[c] = "ncrt"
       THEN /\ part' = [part EXCEPT ![c] = "switch"]
            /\ seen' = [seen EXCEPT ![c] = <<>>]
            /\ Goto(c, "hash")
       ELSE Goto(c, "link") /\ UNCHANGED <<part, seen>>
    /\ raced' = raced \ {c}
    /\ UNCHANGED <<files, ids, ir, out, why, world, disturbed, poisoned, misled, abandoned>>

(* gcc links; an object that is not whole is an error.                     *)
Link(c) ==
    /\ pc[c] = "link"
    /\ IF \A o \in DOMAIN NoOut : out[c][o].whole
       THEN Goto(c, "built") /\ UNCHANGED <<ir, part, seen, out, why, raced, disturbed, misled>>
       ELSE Fail(c, "link")
    /\ UNCHANGED <<files, ids, world, poisoned, abandoned>>

-----------------------------------------------------------------------------
(* The process is killed.  What it was writing stays as it is.             *)
Crash(c) ==
    /\ pc[c] \notin Resting
    /\ Meet("crash")
    /\ Fail(c, "crash")
    /\ abandoned' = abandoned \cup {TmpOf(c)}
    /\ UNCHANGED <<files, ids, poisoned>>

(* A developer changes a source of the runtime.                            *)
Edit(i) ==
    /\ Meet("edit")
    /\ \E v \in Version \ {sources[i]} : sources' = [sources EXCEPT ![i] = v]
    /\ raced' = raced \cup {c \in Compiler : pc[c] \in {"hash", "lookup", "gcc"}
                                             /\ i <= Len(seen[c])}
    /\ disturbed' = disturbed \cup {c \in Compiler : pc[c] \notin {"idle", "failed"}}
    /\ UNCHANGED <<shared, tmp, modules, pc, mine, poisoned, misled, abandoned>>

(* The temporary directory is cleaned; a file in use cannot be deleted     *)
(* where it could not be replaced either.                                  *)
Remove(p, k) ==
    /\ shared[p][k] # None /\ ~Blocked(p, k)
    /\ Meet("remove")
    /\ shared' = [shared EXCEPT ![p][k] = None]
    /\ UNCHANGED <<sources, tmp, modules, pc, mine, ghosts>>

Step(c) ==
    \/ ModuleHit(c) \/ ModuleMiss(c) \/ ModuleWritten(c)
    \/ HashFile(c) \/ Lookup(c)
    \/ GccReads(c) \/ GccWrites(c) \/ GccFails(c)
    \/ FindsOther(c) \/ FindsNothing(c)
    \/ Publish(c) \/ PublishBlocked(c)
    \/ Copy(c) \/ CopyMissing(c) \/ Copied(c) \/ Link(c)

Next ==
    \/ \E c \in Compiler : Start(c) \/ Step(c) \/ Crash(c)
    \/ \E i \in SourceFile : Edit(i)
    \/ \E p \in Part, k \in Key : Remove(p, k)

Spec == Init /\ [][Next]_vars

-----------------------------------------------------------------------------
(* State: the type invariant of the caches, the builds and the ghosts.     *)
TypeOK ==
    /\ sources \in Key
    /\ shared \in [Part -> [Key -> Object \cup {None}]]
    /\ tmp \in [TmpName -> Object \cup {None}]
    /\ modules \in [Compiler -> [Version -> Object \cup {None}]]
    /\ pc \in [Compiler -> {"module", "modwrite", "hash", "link"}
                           \cup Fetching \cup Resting]
    /\ started \in 0..MaxBuilds
    /\ process \in [Compiler -> 0..started]
    /\ ir \in [Compiler -> Version \cup {None}]
    /\ part \in [Compiler -> Part]
    /\ seen \in [Compiler -> Seq(Version)]
    /\ out \in [Compiler -> [{"module"} \cup Part -> Object \cup {None}]]
    /\ why \in [Compiler -> {"", "gcc", "busy", "gone", "link", "crash"}]
    /\ troubles \in 0..MaxTroubles /\ met \subseteq Trouble
    /\ raced \subseteq Compiler /\ disturbed \subseteq Compiler
    /\ poisoned \subseteq Part \X Key
    /\ misled \subseteq Compiler \X Part
    /\ abandoned \subseteq TmpName

Active(c) == pc[c] \notin Resting

(* A build has a number, and a module to build.                            *)
BuildInv(c) == Active(c) => process[c] # 0 /\ ir[c] # None

(* The hash is of files that exist; those it is of have not changed since, *)
(* unless the ghosts say so.                                               *)
HashInv(c) ==
    /\ pc[c] \in {"module", "modwrite"} => part[c] = "ncrt" /\ seen[c] = <<>>
    /\ pc[c] = "hash" => Len(seen[c]) < 2
    /\ pc[c] \in Fetching => Len(seen[c]) = 2
    /\ (pc[c] \in {"hash", "lookup", "gcc"} /\ c \notin raced)
           \/ (Active(c) /\ c \notin disturbed)
       => \A i \in 1..Len(seen[c]) : seen[c][i] = sources[i]

(* A temporary is what gcc made for the key, whole once gcc has ended.     *)
TmpInv(c) ==
    pc[c] \in {"write", "check", "publish"} =>
        /\ tmp[TmpOf(c)] # None
        /\ pc[c] # "write" => tmp[TmpOf(c)].whole
        /\ c \notin raced => tmp[TmpOf(c)].of = Input(part[c], seen[c])

(* The objects under the names of their modules; one that is not whole is  *)
(* just being written, or its writer was killed.                           *)
ModulesInv(c) ==
    /\ \A v \in Version : modules[c][v] # None =>
           /\ modules[c][v].of = v
           /\ \/ modules[c][v].whole
              \/ pc[c] = "modwrite" /\ ir[c] = v
              \/ "crash" \in met
    /\ out[c].module # None => /\ out[c].module.of = ir[c]
                               /\ out[c].module.whole \/ "crash" \in met

(* What a build has collected so far for its link.                         *)
OutInv(c) ==
    /\ pc[c] \in Fetching \cup {"hash", "link", "built"} => out[c].module # None
    /\ pc[c] \in Fetching \cup {"hash"} /\ part[c] = "switch" => out[c].ncrt # None
    /\ pc[c] = "copying" => out[c][part[c]] # None
    /\ pc[c] \in {"link", "built"} => \A p \in Part : out[c][p] # None
    /\ Active(c) \/ pc[c] = "built" => c \in disturbed \/
           \A p \in Part : out[c][p] # None =>
               out[c][p].of = Input(p, sources) \/ <<c, p>> \in misled
    /\ \A p \in Part : out[c][p] # None => out[c][p].whole

(* An object disappears before it is copied only if somebody deletes one.  *)
GoneInv(c) ==
    pc[c] = "copy" => shared[part[c]][seen[c]] # None \/ "remove" \in met

(* ncrt.py:49-68: whatever compilers do to each other, are killed or fail  *)
(* in the middle of, an object that can be seen under its final name in    *)
(* the shared directory is whole, and so is every copy of one; it was made *)
(* of the sources its key is the hash of, unless one of them changed       *)
(* between the hash and gcc in the compiler that published it.             *)
PublishedFaithful ==
    /\ \A p \in Part, k \in Key :
           shared[p][k] # None => /\ shared[p][k].whole
                                  /\ shared[p][k].of = Input(p, k) \/ <<p, k>> \in poisoned
    /\ \A c \in Compiler, p \in Part : out[c][p] # None => out[c][p].whole

(* llvm_codegen.py:2038-2062, ncrt.py:98-108: a build that ends well and   *)
(* saw no edit has linked the objects of its own IR and of the runtime's   *)
(* sources as they are, both parts of the same version, except a part that *)
(* it copied while an earlier compiler's poisoned object stood there.      *)
BuildExact ==
    \A c \in Compiler :
        pc[c] = "built" /\ c \notin disturbed =>
            /\ out[c].module.of = ir[c]
            /\ \A p \in Part : \/ out[c][p].of = Input(p, sources)
                               \/ <<c, p>> \in misled

(* ncrt.py:59-67: only a compiler that is killed, or that could not        *)
(* replace an open object, leaves a temporary of its own behind.           *)
NoLeftovers ==
    \A n \in TmpName :
        tmp[n] # None =>
            \/ n \in abandoned
            \/ n = TmpOf(n[1]) /\ pc[n[1]] \in {"write", "check", "publish"}

(* ncrt.py:44-68: another compiler never makes a build fail, but by        *)
(* copying from the very object this one is about to replace, where that   *)
(* cannot be replaced; an object disappears, or is not whole when it is    *)
(* linked, only if somebody deleted one or a compiler was killed.          *)
FailureExplained ==
    \A c \in Compiler :
        /\ why[c] = "gone" => "remove" \in met
        /\ why[c] = "busy" => OpenBlocks /\ Compiler # {c}
        /\ why[c] = "link" => "crash" \in met

(* All of it together is kept by every step: what compilers leave to each  *)
(* other on disk and what each believes of it (ncrt.py:34-108).            *)
IInv ==
    /\ TypeOK /\ PublishedFaithful /\ NoLeftovers /\ FailureExplained
    /\ \A c \in Compiler : /\ BuildInv(c) /\ HashInv(c) /\ TmpInv(c)
                           /\ ModulesInv(c) /\ OutInv(c) /\ GoneInv(c)

(* llvm_codegen.py:2043-2045 against docs/internal-abi.md:22: the object   *)
(* a hit takes from the module cache is that of the module's IR, whole.    *)
ModuleHitWhole ==
    \A c \in Compiler : out[c].module # None => out[c].module.whole
==============================================================================
