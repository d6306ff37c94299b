--------------------------- MODULE BuildCacheProofs ---------------------------
(***************************************************************************)
(* IInv is an inductive invariant of the caches, for every number of       *)
(* compilers, versions and builds.  A step of a compiler leaves what the   *)
(* others stand on alone (StepElsewhere, LocalKept), so that each action   *)
(* is looked at for the compiler that takes it only (StepLocal), and for   *)
(* what it does to the files (StepPublished, StepLeftovers).               *)
(***************************************************************************)
EXTENDS BuildCache, SequenceTheorems, TLAPS

(* The object when gcc has ended.                                          *)
Whole(o) == [o EXCEPT !.whole = TRUE]

(* What can be in a file.                                                  *)
LEMMA ObjectFacts ==
    /\ None \notin Object /\ None \notin Version
    /\ \A b \in BOOLEAN, v \in Version : [whole |-> b, of |-> v] \in Object
    /\ \A o \in Object : /\ o.whole \in BOOLEAN /\ o.of \in Version
                         /\ Whole(o) \in Object /\ Whole(o).whole /\ Whole(o).of = o.of
<1>1. None \notin Object /\ None \notin Version
    BY BuildAssumption
<1>2. \A b \in BOOLEAN, v \in Version : [whole |-> b, of |-> v] \in Object
    BY DEF Object
<1>3. ASSUME NEW o \in Object
      PROVE  /\ o.whole \in BOOLEAN /\ o.of \in Version
             /\ Whole(o) \in Object /\ Whole(o).whole /\ Whole(o).of = o.of
    BY DEF Object, Whole
<1> QED BY <1>1, <1>2, <1>3

(* The sequence of the files hashed so far becomes the key; an object      *)
(* depends on one of them.                                                 *)
LEMMA KeyFacts ==
    /\ \A s \in Seq(Version) : /\ Len(s) \in Nat
                               /\ \A i \in 1..Len(s) : s[i] \in Version
                               /\ Len(s) = 2 => s \in Key
    /\ \A s \in Seq(Version), v \in Version :
           /\ Append(s, v) \in Seq(Version) /\ Len(Append(s, v)) = Len(s) + 1
           /\ Append(s, v)[Len(s) + 1] = v
           /\ \A i \in 1..Len(s) : Append(s, v)[i] = s[i]
    /\ <<>> \in Seq(Version) /\ Len(<<>>) = 0
    /\ \A k \in Key, p \in Part : Input(p, k) \in Version
    /\ \A k, l \in Key, p \in Part : k[1] = l[1] /\ k[2] = l[2] => Input(p, k) = Input(p, l)
<1>1. \A s \in Seq(Version) : /\ Len(s) \in Nat
                              /\ \A i \in 1..Len(s) : s[i] \in Version
                              /\ Len(s) = 2 => s \in Key
    BY LenProperties, ElementOfSeq DEF Key, SourceFile
<1>2. \A s \in Seq(Version), v \in Version :
           /\ Append(s, v) \in Seq(Version) /\ Len(Append(s, v)) = Len(s) + 1
           /\ Append(s, v)[Len(s) + 1] = v
           /\ \A i \in 1..Len(s) : Append(s, v)[i] = s[i]
    BY AppendProperties
<1>3. <<>> \in Seq(Version) /\ Len(<<>>) = 0
    OBVIOUS
<1>4. /\ \A k \in Key, p \in Part : Input(p, k) \in Version
      /\ \A k, l \in Key, p \in Part : k[1] = l[1] /\ k[2] = l[2] => Input(p, k) = Input(p, l)
    BY DEF Key, SourceFile, Input, Part
<1> QED BY <1>1, <1>2, <1>3, <1>4

(* What a step of one compiler leaves alone.                               *)
Elsewhere(c) ==
    /\ sources' = sources /\ met \subseteq met'
    /\ \A d \in Compiler \ {c} :
           /\ pc'[d] = pc[d] /\ process'[d] = process[d] /\ ir'[d] = ir[d]
           /\ part'[d] = part[d] /\ seen'[d] = seen[d] /\ out'[d] = out[d]
           /\ why'[d] = why[d] /\ modules'[d] = modules[d]
           /\ (d \in raced' <=> d \in raced) /\ (d \in disturbed' <=> d \in disturbed)
           /\ \A p \in Part : <<d, p>> \in misled' <=> <<d, p>> \in misled
    /\ \A n \in TmpName : n[1] # c => tmp'[n] = tmp[n]
    /\ \A p \in Part, k \in Key : shared[p][k] # None => shared'[p][k] # None

(* No step of a compiler touches another one's memory, temporaries or      *)
(* modules, and none makes an object in the shared directory disappear.    *)
LEMMA StepElsewhere ==
    ASSUME IInv, NEW c \in Compiler, Start(c) \/ Step(c) \/ Crash(c)
    PROVE  Elsewhere(c)
<1> USE DEF Elsewhere, files, mine, ids, world, ghosts, Goto
<1>0. TypeOK /\ TmpInv(c) /\ HashInv(c)
    BY DEF IInv
<1>a. TmpOf(c)[1] = c
    BY DEF TmpOf
<1> USE <1>0 DEF TypeOK
<1>1. CASE Start(c)
    BY <1>1 DEF Start, Forget
<1>2. CASE ModuleHit(c)
    BY <1>2 DEF ModuleHit
<1>3. CASE ModuleMiss(c)
    BY <1>3 DEF ModuleMiss
<1>4. CASE ModuleWritten(c)
    BY <1>4 DEF ModuleWritten
<1>5. CASE HashFile(c)
    BY <1>5 DEF HashFile
<1>6. CASE Lookup(c)
    BY <1>6 DEF Lookup
<1>7. CASE GccReads(c)
    BY <1>7, <1>a DEF GccReads
<1>8. CASE GccWrites(c)
    BY <1>8, <1>a DEF GccWrites
<1>9. CASE GccFails(c)
    BY <1>9, <1>a DEF GccFails, Meet, Fail, Forget, TmpAfterFailure
<1>10. CASE FindsOther(c)
    BY <1>10, <1>a DEF FindsOther, DropsSecond
<1>11. CASE FindsNothing(c)
    BY <1>11 DEF FindsNothing
<1>12. CASE Publish(c)
    BY <1>12, <1>a DEF Publish, TmpInv
<1>13. CASE PublishBlocked(c)
    BY <1>13 DEF PublishBlocked, Fail, Forget
<1>14. CASE Copy(c)
    BY <1>14 DEF Copy
<1>15. CASE CopyMissing(c)
    BY <1>15 DEF CopyMissing, Fail, Forget
<1>16. CASE Copied(c)
    BY <1>16 DEF Copied
<1>17. CASE Link(c)
    <2> DEFINE AllWhole == \A o \in DOMAIN NoOut : out[c][o].whole
    <2>1. CASE AllWhole
        BY <1>17, <2>1 DEF Link
    <2>2. CASE ~AllWhole
        <3>1. Fail(c, "link") /\ UNCHANGED <<files, ids, world, poisoned, abandoned>>
            BY <1>17, <2>2 DEF Link
        <3> QED BY <3>1 DEF Fail, Forget
    <2> QED BY <2>1, <2>2
<1>18. CASE Crash(c)
    BY <1>18 DEF Crash, Fail, Meet, Forget
<1> QED BY <1>1, <1>2, <1>3, <1>4, <1>5, <1>6, <1>7, <1>8, <1>9, <1>10, <1>11, <1>12,
           <1>13, <1>14, <1>15, <1>16, <1>17, <1>18 DEF Step

(* What is known of a compiler by itself.                                  *)
Local(c) ==
    /\ BuildInv(c) /\ HashInv(c) /\ TmpInv(c) /\ ModulesInv(c) /\ OutInv(c) /\ GoneInv(c)
    /\ why[c] = "gone" => "remove" \in met
    /\ why[c] = "busy" => OpenBlocks /\ Compiler # {c}
    /\ why[c] = "link" => "crash" \in met

(* IInv, sorted by compilers.                                              *)
LEMMA LocalAll ==
    IInv <=> /\ TypeOK /\ PublishedFaithful /\ NoLeftovers
             /\ \A c \in Compiler : Local(c)
BY DEF IInv, Local, FailureExplained

(* A build has a temporary name of its own.                                *)
LEMMA TmpOfFacts ==
    ASSUME TypeOK, NEW c \in Compiler, process[c] # 0
    PROVE  TmpOf(c) \in TmpName /\ TmpOf(c)[1] = c
<1>1. process[c] \in 0..started /\ started \in 0..MaxBuilds /\ MaxBuilds \in Nat
    BY BuildAssumption DEF TypeOK
<1>2. process[c] \in 1..MaxBuilds
    BY <1>1
<1> QED BY <1>2 DEF TmpOf, TmpName

(* So a step of c leaves what is known of d true.                          *)
LEMMA LocalKept ==
    ASSUME IInv, NEW c \in Compiler, Elsewhere(c), NEW d \in Compiler, d # c
    PROVE  Local(d)'
<1>1. /\ sources' = sources /\ met \subseteq met'
      /\ pc'[d] = pc[d] /\ process'[d] = process[d] /\ ir'[d] = ir[d]
      /\ part'[d] = part[d] /\ seen'[d] = seen[d] /\ out'[d] = out[d]
      /\ why'[d] = why[d] /\ modules'[d] = modules[d]
      /\ (d \in raced' <=> d \in raced) /\ (d \in disturbed' <=> d \in disturbed)
      /\ \A p \in Part : <<d, p>> \in misled' <=> <<d, p>> \in misled
    BY DEF Elsewhere
<1>2. Local(d) /\ TypeOK
    BY LocalAll
<1> USE <1>1, <1>2
<1>3. BuildInv(d)'
    BY DEF Local, BuildInv, Active
<1>4. HashInv(d)'
    BY DEF Local, HashInv, Active
<1>5. TmpInv(d)'
    <2>1. pc[d] \in {"write", "check", "publish"} => tmp'[TmpOf(d)] = tmp[TmpOf(d)]
        BY TmpOfFacts DEF Local, BuildInv, Active, Resting, Elsewhere
    <2>2. TmpOf(d)' = TmpOf(d)
        BY DEF TmpOf
    <2> QED BY <2>1, <2>2 DEF Local, TmpInv
<1>6. ModulesInv(d)'
    BY DEF Local, ModulesInv
<1>7. OutInv(d)'
    BY DEF Local, OutInv, Active, Part, Input
<1>8. GoneInv(d)'
    <2>1. pc[d] = "copy" => part[d] \in Part /\ seen[d] \in Key
        BY KeyFacts DEF Local, HashInv, Fetching, TypeOK
    <2> QED BY <2>1 DEF Local, GoneInv, Elsewhere
<1> QED BY <1>3, <1>4, <1>5, <1>6, <1>7, <1>8 DEF Local

(* Nothing is linked yet.                                                  *)
LEMMA NoOutType == NoOut \in [{"module"} \cup Part -> Object \cup {None}]
BY DEF NoOut, Part

(* A build that fails, whyever, forgets what it knew.                      *)
LEMMA FailType ==
    ASSUME TypeOK, NEW c \in Compiler,
           NEW reason \in {"gcc", "busy", "gone", "link", "crash"}, Fail(c, reason)
    PROVE  /\ pc' \in [Compiler -> {"module", "modwrite", "hash", "link"}
                                   \cup Fetching \cup Resting]
           /\ ir' \in [Compiler -> Version \cup {None}]
           /\ part' \in [Compiler -> Part]
           /\ seen' \in [Compiler -> Seq(Version)]
           /\ out' \in [Compiler -> [{"module"} \cup Part -> Object \cup {None}]]
           /\ why' \in [Compiler -> {"", "gcc", "busy", "gone", "link", "crash"}]
           /\ raced' \subseteq Compiler /\ disturbed' \subseteq Compiler
           /\ misled' \subseteq Compiler \X Part
<1> USE DEF Fail, Goto, TypeOK
<1>1. pc' \in [Compiler -> {"module", "modwrite", "hash", "link"}
                           \cup Fetching \cup Resting]
    BY DEF Resting
<1>2. ir' \in [Compiler -> Version \cup {None}]
    OBVIOUS
<1>3. part' \in [Compiler -> Part]
    BY DEF Part
<1>4. seen' \in [Compiler -> Seq(Version)]
    BY KeyFacts
<1>5. out' \in [Compiler -> [{"module"} \cup Part -> Object \cup {None}]]
    BY NoOutType
<1>6. why' \in [Compiler -> {"", "gcc", "busy", "gone", "link", "crash"}]
    OBVIOUS
<1>7. /\ raced' \subseteq Compiler /\ disturbed' \subseteq Compiler
      /\ misled' \subseteq Compiler \X Part
    BY DEF Forget
<1> QED BY <1>1, <1>2, <1>3, <1>4, <1>5, <1>6, <1>7

(* TypeOK is kept by every step of a compiler.                             *)
LEMMA StepType ==
    ASSUME IInv, NEW c \in Compiler, Start(c) \/ Step(c) \/ Crash(c)
    PROVE  TypeOK'
<1> DEFINE PC == {"module", "modwrite", "hash", "link"} \cup Fetching \cup Resting
           File == Object \cup {None}
<1>0. TypeOK /\ Local(c)
    BY LocalAll
<1>v. Active(c) => ir[c] \in Version /\ TmpOf(c) \in TmpName
    BY <1>0, TmpOfFacts DEF Local, BuildInv, TypeOK
<1>k. pc[c] \in Fetching => seen[c] \in Key
    BY <1>0, KeyFacts DEF Local, HashInv, TypeOK
<1>f. /\ sources \in Key
      /\ shared \in [Part -> [Key -> File]]
      /\ tmp \in [TmpName -> File]
      /\ modules \in [Compiler -> [Version -> File]]
    BY <1>0 DEF TypeOK
<1>p. pc \in [Compiler -> PC]
    BY <1>0 DEF TypeOK
<1>n. started \in 0..MaxBuilds /\ process \in [Compiler -> 0..started] /\ MaxBuilds \in Nat
    BY <1>0, BuildAssumption DEF TypeOK
<1>r. ir \in [Compiler -> Version \cup {None}] /\ part \in [Compiler -> Part]
    BY <1>0 DEF TypeOK
<1>s. seen \in [Compiler -> Seq(Version)]
    BY <1>0 DEF TypeOK
<1>o. out \in [Compiler -> [{"module"} \cup Part -> File]]
    BY <1>0 DEF TypeOK
<1>w. why \in [Compiler -> {"", "gcc", "busy", "gone", "link", "crash"}]
    BY <1>0 DEF TypeOK
<1>t. troubles \in 0..MaxTroubles /\ met \subseteq Trouble /\ MaxTroubles \in Nat
    BY <1>0, BuildAssumption DEF TypeOK
<1>g. /\ raced \subseteq Compiler /\ disturbed \subseteq Compiler
      /\ poisoned \subseteq Part \X Key /\ misled \subseteq Compiler \X Part
      /\ abandoned \subseteq TmpName
    BY <1>0 DEF TypeOK
<1>1. CASE Start(c)
    <2>1. /\ started' \in 0..MaxBuilds
          /\ process' \in [Compiler -> 0..started']
        <3>1. /\ started < MaxBuilds /\ started' = started + 1
              /\ process' = [process EXCEPT ![c] = @ + 1]
            BY <1>1 DEF Start
        <3>2. \A d \in Compiler : process[d] \in Nat /\ process[d] <= started
            BY <1>n
        <3> QED BY <1>n, <3>1, <3>2
    <2>2. pc' \in [Compiler -> PC]
        BY <1>1, <1>p DEF Start, Goto
    <2>3. ir' \in [Compiler -> Version \cup {None}]
        BY <1>1, <1>r DEF Start
    <2>4. part' \in [Compiler -> Part]
        BY <1>1, <1>r DEF Start, Part
    <2>5. seen' \in [Compiler -> Seq(Version)]
        BY <1>1, <1>s, KeyFacts DEF Start
    <2>6. out' \in [Compiler -> [{"module"} \cup Part -> File]]
        BY <1>1, <1>o, NoOutType DEF Start
    <2>7. /\ raced' \subseteq Compiler /\ disturbed' \subseteq Compiler
          /\ misled' \subseteq Compiler \X Part
        BY <1>1, <1>g DEF Start, Forget
    <2>8. why' \in [Compiler -> {"", "gcc", "busy", "gone", "link", "crash"}]
        BY <1>1, <1>w DEF Start
    <2>9. UNCHANGED <<files, world, poisoned, abandoned>>
        BY <1>1 DEF Start
    <2> QED BY <1>0, <2>1, <2>2, <2>3, <2>4, <2>5, <2>6, <2>7, <2>8, <2>9
            DEF TypeOK, files, world
<1>2. CASE ModuleHit(c)
    <2>1. modules[c][ir[c]] \in File
        BY <1>2, <1>f, <1>v DEF ModuleHit, Active, Resting
    <2>2. out' \in [Compiler -> [{"module"} \cup Part -> File]]
        BY <1>2, <1>o, <2>1 DEF ModuleHit, Fingerprint
    <2>3. pc' \in [Compiler -> PC]
        BY <1>2, <1>p DEF ModuleHit, Goto
    <2> QED BY <1>0, <1>2, <2>2, <2>3 DEF ModuleHit, TypeOK, files, ids, world, ghosts
<1>3. CASE ModuleMiss(c)
    <2>1. modules' \in [Compiler -> [Version -> File]]
        BY <1>3, <1>f, <1>v, ObjectFacts DEF ModuleMiss, Active, Resting, Fingerprint
    <2>2. pc' \in [Compiler -> PC]
        BY <1>3, <1>p DEF ModuleMiss, Goto
    <2> QED BY <1>0, <1>3, <2>1, <2>2 DEF ModuleMiss, TypeOK, mine, ids, world, ghosts
<1>4. CASE ModuleWritten(c)
    <2>1. [whole |-> TRUE, of |-> ir[c]] \in File
        BY <1>4, <1>v, ObjectFacts DEF ModuleWritten, Active, Resting
    <2>2. modules' \in [Compiler -> [Version -> File]]
        BY <1>4, <1>f, <2>1 DEF ModuleWritten, Fingerprint
    <2>3. out' \in [Compiler -> [{"module"} \cup Part -> File]]
        BY <1>4, <1>o, <2>1 DEF ModuleWritten
    <2>4. pc' \in [Compiler -> PC]
        BY <1>4, <1>p DEF ModuleWritten, Goto
    <2> QED BY <1>0, <1>4, <2>2, <2>3, <2>4 DEF ModuleWritten, TypeOK, ids, world, ghosts
<1>5. CASE HashFile(c)
    <2>1. Len(seen[c]) + 1 \in 1..2
        BY <1>0, <1>5, <1>s, KeyFacts DEF HashFile, Local, HashInv
    <2>2. sources[Len(seen[c]) + 1] \in Version
        BY <2>1, <1>f DEF Key, SourceFile
    <2>3. seen' \in [Compiler -> Seq(Version)]
        <3>1. Append(seen[c], sources[Len(seen[c]) + 1]) \in Seq(Version)
            BY <1>s, <2>2, KeyFacts
        <3> QED BY <1>5, <1>s, <3>1 DEF HashFile, ReadForKey
    <2>4. pc' \in [Compiler -> PC]
        BY <1>5, <1>p DEF HashFile, Goto, Fetching
    <2> QED BY <1>0, <1>5, <2>3, <2>4 DEF HashFile, TypeOK, files, ids, world, ghosts
<1>6. CASE Lookup(c) \/ FindsNothing(c)
    BY <1>0, <1>6 DEF Lookup, FindsNothing, Goto, Fetching, TypeOK, files, mine, ids,
                      world, ghosts
<1>7. CASE GccReads(c)
    <2>1. tmp' \in [TmpName -> File]
        <3>1. Input(part[c], sources) \in Version
            BY <1>f, <1>r, KeyFacts
        <3>2. [whole |-> FALSE, of |-> Input(part[c], sources)] \in File
            BY <3>1, ObjectFacts
        <3> QED BY <1>7, <1>f, <3>2 DEF GccReads
    <2>2. pc' \in [Compiler -> PC]
        BY <1>7, <1>p DEF GccReads, Goto, Fetching
    <2> QED BY <1>0, <1>7, <2>1, <2>2 DEF GccReads, TypeOK, mine, ids, world, ghosts
<1>8. CASE GccWrites(c)
    <2>1. tmp[TmpOf(c)] \in Object
        BY <1>0, <1>8, <1>f, <1>v DEF GccWrites, Local, TmpInv, Active, Resting
    <2>2. tmp' = [tmp EXCEPT ![TmpOf(c)] = Whole(tmp[TmpOf(c)])]
        BY <1>8 DEF GccWrites, Whole
    <2>3. tmp' \in [TmpName -> File]
        BY <1>f, <2>1, <2>2, ObjectFacts
    <2>4. pc' \in [Compiler -> PC]
        BY <1>8, <1>p DEF GccWrites, Goto, Fetching
    <2> QED BY <1>0, <1>8, <2>3, <2>4 DEF GccWrites, TypeOK, mine, ids, world, ghosts
<1>9. CASE GccFails(c)
    <2>1. troubles' \in 0..MaxTroubles /\ met' \subseteq Trouble
        BY <1>9, <1>t DEF GccFails, Meet, Trouble
    <2>2. tmp' \in [TmpName -> File]
        BY <1>9, <1>f DEF GccFails, TmpAfterFailure
    <2>3. Fail(c, "gcc") /\ UNCHANGED <<sources, shared, modules, ids, poisoned, abandoned>>
        BY <1>9 DEF GccFails
    <2> QED BY <1>0, <2>1, <2>2, <2>3, FailType DEF TypeOK, ids
<1>10. CASE FindsOther(c)
    <2>1. tmp' \in [TmpName -> File]
        BY <1>10, <1>f DEF FindsOther, DropsSecond
    <2>2. pc' \in [Compiler -> PC]
        BY <1>10, <1>p DEF FindsOther, DropsSecond, Goto, Fetching
    <2> QED BY <1>0, <1>10, <2>1, <2>2
            DEF FindsOther, DropsSecond, TypeOK, mine, ids, world, ghosts
<1>11. CASE Publish(c)
    <2>1. tmp[TmpOf(c)] \in File /\ seen[c] \in Key /\ part[c] \in Part
        BY <1>11, <1>f, <1>v, <1>k, <1>r DEF Publish, Active, Resting, Fetching
    <2>2. /\ shared' \in [Part -> [Key -> File]]
          /\ tmp' \in [TmpName -> File]
        BY <1>11, <1>f, <2>1 DEF Publish
    <2>3. poisoned' \subseteq Part \X Key
        BY <1>11, <1>g, <2>1 DEF Publish
    <2>4. pc' \in [Compiler -> PC]
        BY <1>11, <1>p DEF Publish, Goto, Fetching
    <2> QED BY <1>0, <1>11, <2>2, <2>3, <2>4 DEF Publish, TypeOK, mine, ids, world
<1>12. CASE PublishBlocked(c)
    <2>1. abandoned' \subseteq TmpName
        BY <1>12, <1>g, <1>v DEF PublishBlocked, Active, Resting
    <2>2. Fail(c, "busy") /\ UNCHANGED <<files, ids, world, poisoned>>
        BY <1>12 DEF PublishBlocked
    <2> QED BY <1>0, <2>1, <2>2, FailType DEF TypeOK, files, ids, world
<1>13. CASE Copy(c)
    <2>1. shared[part[c]][seen[c]] \in File /\ part[c] \in Part
        BY <1>13, <1>f, <1>k, <1>r DEF Copy, Fetching
    <2>2. out' \in [Compiler -> [{"module"} \cup Part -> File]]
        BY <1>13, <1>o, <2>1 DEF Copy
    <2>3. misled' \subseteq Compiler \X Part
        BY <1>13, <1>g, <2>1 DEF Copy
    <2>4. pc' \in [Compiler -> PC]
        BY <1>13, <1>p DEF Copy, Goto, Fetching
    <2> QED BY <1>0, <1>13, <2>2, <2>3, <2>4 DEF Copy, TypeOK, files, ids, world
<1>14. CASE CopyMissing(c)
    BY <1>0, <1>14, FailType DEF CopyMissing, TypeOK, files, ids, world
<1>15. CASE Copied(c)
    <2>1. seen' \in [Compiler -> Seq(Version)]
        BY <1>15, <1>s, KeyFacts DEF Copied
    <2>2. part' \in [Compiler -> Part] /\ raced' \subseteq Compiler
        BY <1>15, <1>r, <1>g DEF Copied, Part
    <2>3. pc' \in [Compiler -> PC]
        BY <1>15, <1>p DEF Copied, Goto
    <2> QED BY <1>0, <1>15, <2>1, <2>2, <2>3 DEF Copied, TypeOK, files, ids, world
<1>16. CASE Link(c)
    <2> DEFINE AllWhole == \A o \in DOMAIN NoOut : out[c][o].whole
    <2>0. UNCHANGED <<files, ids, world, poisoned, abandoned>>
        BY <1>16 DEF Link
    <2>1. CASE AllWhole
        <3>1. /\ pc' = [pc EXCEPT ![c] = "built"]
              /\ UNCHANGED <<ir, part, seen, out, why, raced, disturbed, misled>>
            BY <1>16, <2>1 DEF Link, Goto
        <3>2. pc' \in [Compiler -> PC]
            BY <3>1, <1>p DEF Resting
        <3> QED BY <1>0, <2>0, <3>1, <3>2 DEF TypeOK, files, ids, world
    <2>2. CASE ~AllWhole
        <3>1. Fail(c, "link")
            BY <1>16, <2>2 DEF Link
        <3> QED BY <1>0, <2>0, <3>1, FailType DEF TypeOK, files, ids, world
    <2> QED BY <2>1, <2>2
<1>17. CASE Crash(c)
    <2>1. troubles' \in 0..MaxTroubles /\ met' \subseteq Trouble
        BY <1>17, <1>t DEF Crash, Meet, Trouble
    <2>2. abandoned' \subseteq TmpName
        BY <1>17, <1>g, <1>v DEF Crash, Active
    <2>3. Fail(c, "crash") /\ UNCHANGED <<files, ids, poisoned>>
        BY <1>17 DEF Crash
    <2> QED BY <1>0, <2>1, <2>2, <2>3, FailType DEF TypeOK, files, ids
<1> QED BY <1>1, <1>2, <1>3, <1>4, <1>5, <1>6, <1>7, <1>8, <1>9, <1>10, <1>11, <1>12,
           <1>13, <1>14, <1>15, <1>16, <1>17 DEF Step
(* No file is hashed yet.                                                  *)
LEMMA EmptyFacts == Len(<<>>) = 0 /\ \A i \in 1..Len(<<>>) : FALSE
<1>1. Len(<<>>) = 0
    BY KeyFacts
<1> QED BY <1>1

(* A build that has failed knows nothing; a module that was being written  *)
(* when it did stays torn.                                                 *)
LEMMA FailLocal ==
    ASSUME IInv, NEW c \in Compiler,
           NEW reason \in {"gcc", "busy", "gone", "link", "crash"}, Fail(c, reason),
           modules' = modules, met \subseteq met',
           pc[c] = "modwrite" => "crash" \in met',
           reason = "gone" => "remove" \in met',
           reason = "busy" => OpenBlocks /\ Compiler # {c},
           reason = "link" => "crash" \in met'
    PROVE  Local(c)'
<1>1. TypeOK /\ Local(c)
    BY LocalAll
<1>2. pc'[c] = "failed" /\ why'[c] = reason /\ out'[c] = NoOut
    BY <1>1 DEF Fail, Goto, TypeOK
<1>3. (BuildInv(c) /\ HashInv(c) /\ TmpInv(c) /\ GoneInv(c))'
    BY <1>2 DEF BuildInv, HashInv, TmpInv, GoneInv, Active, Resting, Fetching
<1>4. NoOut.module = None /\ \A p \in Part : NoOut[p] = None
    BY DEF NoOut, Part
<1>5. ModulesInv(c)'
    BY <1>1, <1>2, <1>4 DEF Local, ModulesInv
<1>6. OutInv(c)'
    BY <1>2, <1>4 DEF OutInv, Active, Resting, Fetching
<1> QED BY <1>2, <1>3, <1>5, <1>6 DEF Local

(* Each step of c leads from what is known of c to what is known of it     *)
(* afterwards (ncrt.py:34-108, llvm_codegen.py:2038-2062).                 *)
LEMMA StepLocal ==
    ASSUME IInv, NEW c \in Compiler, Start(c) \/ Step(c) \/ Crash(c)
    PROVE  Local(c)'
<1>0. TypeOK /\ Local(c) /\ PublishedFaithful
    BY LocalAll
<1>v. /\ Active(c) => ir[c] \in Version /\ TmpOf(c) \in TmpName
      /\ ir[c] \in Version \cup {None}
    BY <1>0, TmpOfFacts DEF Local, BuildInv, TypeOK
<1>k. pc[c] \in Fetching => seen[c] \in Key /\ seen[c] \in Seq(Version)
    BY <1>0, KeyFacts DEF Local, HashInv, TypeOK
<1>p. part[c] \in Part /\ sources \in Key
    BY <1>0 DEF TypeOK
<1>n. process[c] \in Nat
    <2>1. process \in [Compiler -> 0..started] /\ started \in 0..MaxBuilds
        BY <1>0 DEF TypeOK
    <2> QED BY <2>1, BuildAssumption
<1>o. out \in [Compiler -> [{"module"} \cup Part -> Object \cup {None}]]
    BY <1>0 DEF TypeOK
<1>i. /\ BuildInv(c) /\ HashInv(c) /\ TmpInv(c) /\ ModulesInv(c) /\ OutInv(c)
      /\ GoneInv(c)
    BY <1>0 DEF Local
<1>1. CASE Start(c)
    <2>1. /\ pc'[c] = "module" /\ ir'[c] \in Version
          /\ seen'[c] = <<>> /\ part'[c] = "ncrt" /\ out'[c] = NoOut /\ why'[c] = ""
          /\ pc[c] \in Resting
          /\ UNCHANGED <<sources, modules, met>>
        BY <1>0, <1>1 DEF Start, Goto, TypeOK, files, world
    <2>a. process'[c] # 0
        <3>1. process'[c] = process[c] + 1
            BY <1>0, <1>1 DEF Start, TypeOK
        <3> QED BY <1>n, <3>1
    <2>c. ir'[c] # None
        BY <2>1, ObjectFacts
    <2>b. Len(seen'[c]) = 0
        BY <2>1, KeyFacts
    <2>2. BuildInv(c)'
        BY <2>a, <2>c DEF BuildInv
    <2>3. /\ HashInv(c)'
          /\ TmpInv(c)' /\ GoneInv(c)'
        <3>1. \A i \in 1..Len(seen'[c]) : FALSE
            BY <2>b
        <3>2. pc'[c] # "hash" /\ pc'[c] \notin Fetching /\ pc'[c] # "copy"
              /\ pc'[c] \notin {"write", "check", "publish"}
            BY <2>1 DEF Fetching
        <3>3. HashInv(c)'
            BY <2>1, <3>1, <3>2 DEF HashInv
        <3> QED BY <3>2, <3>3 DEF TmpInv, GoneInv
    <2>4. NoOut.module = None /\ \A p \in Part : NoOut[p] = None
        BY DEF NoOut, Part
    <2>5. ModulesInv(c)'
        BY <1>i, <2>1, <2>4 DEF ModulesInv, Resting
    <2>6. OutInv(c)'
        BY <2>1, <2>4 DEF OutInv, Fetching
    <2> QED BY <2>1, <2>2, <2>3, <2>5, <2>6 DEF Local
<1>2. CASE ModuleHit(c)
    <2>1. /\ pc[c] = "module" /\ pc'[c] = "hash" /\ modules[c][ir[c]] # None
          /\ out'[c] = [out[c] EXCEPT !.module = modules[c][ir[c]]]
          /\ UNCHANGED <<sources, modules, met, process, ir, part, seen, why>>
          /\ UNCHANGED <<raced, disturbed, misled>>
        BY <1>0, <1>2 DEF ModuleHit, Goto, Fingerprint, TypeOK, files, ids, world, ghosts
    <2>2. out'[c].module = modules[c][ir[c]] /\ \A p \in Part : out'[c][p] = out[c][p]
        BY <1>o, <2>1 DEF Part
    <2>3. BuildInv(c)' /\ ir[c] \in Version
        BY <1>i, <1>v, <2>1 DEF BuildInv, Active, Resting
    <2>4. HashInv(c)' /\ part[c] = "ncrt"
        BY <1>i, <2>1, EmptyFacts DEF HashInv, Fetching
    <2>5. TmpInv(c)' /\ GoneInv(c)'
        BY <2>1 DEF TmpInv, GoneInv
    <2>6. ModulesInv(c)'
        BY <1>i, <2>1, <2>2, <2>3 DEF ModulesInv
    <2>7. OutInv(c)'
        BY <1>i, <2>1, <2>2, <2>4 DEF OutInv, Active, Resting, Fetching
    <2> QED BY <1>0, <2>1, <2>3, <2>4, <2>5, <2>6, <2>7 DEF Local
<1>3. CASE ModuleMiss(c)
    <2>1. /\ pc[c] = "module" /\ pc'[c] = "modwrite"
          /\ modules'[c] = [modules[c] EXCEPT ![ir[c]] = [whole |-> FALSE, of |-> ir[c]]]
          /\ UNCHANGED <<sources, met, process, ir, part, seen, out, why>>
          /\ UNCHANGED <<raced, disturbed, misled>>
        BY <1>0, <1>3 DEF ModuleMiss, Goto, Fingerprint, TypeOK, mine, ids, world, ghosts
    <2>2. BuildInv(c)' /\ ir[c] \in Version
        BY <1>i, <1>v, <2>1 DEF BuildInv, Active, Resting
    <2>3. HashInv(c)'
        BY <1>i, <2>1, EmptyFacts DEF HashInv, Fetching
    <2>4. TmpInv(c)' /\ GoneInv(c)'
        BY <2>1 DEF TmpInv, GoneInv
    <2>5. ModulesInv(c)'
        <3>1. modules[c] \in [Version -> Object \cup {None}]
            BY <1>0 DEF TypeOK
        <3>2. /\ \A v \in Version \ {ir[c]} : modules'[c][v] = modules[c][v]
              /\ modules'[c][ir[c]].of = ir[c]
            BY <2>1, <2>2, <3>1
        <3> QED BY <1>i, <2>1, <2>2, <3>2 DEF ModulesInv
    <2>6. OutInv(c)'
        BY <1>i, <2>1 DEF OutInv, Active, Resting, Fetching
    <2> QED BY <1>0, <2>1, <2>2, <2>3, <2>4, <2>5, <2>6 DEF Local
<1>4. CASE ModuleWritten(c)
    <2> DEFINE object == [whole |-> TRUE, of |-> ir[c]]
    <2>1. /\ pc[c] = "modwrite" /\ pc'[c] = "hash"
          /\ modules'[c] = [modules[c] EXCEPT ![ir[c]] = object]
          /\ out'[c] = [out[c] EXCEPT !.module = object]
          /\ UNCHANGED <<sources, met, process, ir, part, seen, why>>
          /\ UNCHANGED <<raced, disturbed, misled>>
        BY <1>0, <1>4 DEF ModuleWritten, Goto, Fingerprint, TypeOK, ids, world, ghosts
    <2>2. BuildInv(c)' /\ ir[c] \in Version
        BY <1>i, <1>v, <2>1 DEF BuildInv, Active, Resting
    <2>a. object # None /\ object.whole /\ object.of = ir[c]
        <3>1. object \in Object
            BY <2>2, ObjectFacts
        <3>2. object # None
            BY <3>1, ObjectFacts
        <3> QED BY <3>2
    <2> HIDE DEF object
    <2>b. out'[c].module = object /\ \A p \in Part : out'[c][p] = out[c][p]
        BY <1>o, <2>1 DEF Part
    <2>3. HashInv(c)' /\ part[c] = "ncrt"
        BY <1>i, <2>1, EmptyFacts DEF HashInv, Fetching
    <2>4. TmpInv(c)' /\ GoneInv(c)'
        BY <2>1 DEF TmpInv, GoneInv
    <2>5. ModulesInv(c)'
        <3>1. modules[c] \in [Version -> Object \cup {None}]
            BY <1>0 DEF TypeOK
        <3>2. /\ \A v \in Version \ {ir[c]} : modules'[c][v] = modules[c][v]
              /\ modules'[c][ir[c]] = object
            BY <2>1, <2>2, <3>1
        <3> QED BY <1>i, <2>1, <2>2, <2>a, <2>b, <3>2 DEF ModulesInv
    <2>6. OutInv(c)'
        BY <1>i, <2>1, <2>3, <2>a, <2>b DEF OutInv, Active, Resting, Fetching
    <2> QED BY <1>0, <2>1, <2>2, <2>3, <2>4, <2>5, <2>6 DEF Local
<1>5. CASE HashFile(c)
    <2> DEFINE n == Len(seen[c])
    <2>1. /\ pc[c] = "hash" /\ pc'[c] = IF n + 1 = 2 THEN "lookup" ELSE "hash"
          /\ seen'[c] = Append(seen[c], sources[n + 1])
          /\ UNCHANGED <<sources, modules, met, process, ir, part, out, why>>
          /\ UNCHANGED <<raced, disturbed, misled>>
        BY <1>0, <1>5 DEF HashFile, Goto, ReadForKey, HashedAll, TypeOK, files, ids, world,
                          ghosts
    <2>2. n \in 0..1 /\ sources[n + 1] \in Version /\ seen[c] \in Seq(Version)
        <3>1. seen[c] \in Seq(Version) /\ n < 2
            BY <1>0, <1>i, <2>1 DEF TypeOK, HashInv
        <3>2. n \in 0..1
            <4>1. n \in Nat
                BY <3>1, LenProperties
            <4>2. n < 2
                BY <3>1
            <4> HIDE DEF n
            <4> QED BY <4>1, <4>2
        <3> QED BY <1>p, <3>1, <3>2 DEF Key, SourceFile
    <2>3. /\ Len(seen'[c]) = n + 1 /\ seen'[c][n + 1] = sources[n + 1]
          /\ \A i \in 1..n : seen'[c][i] = seen[c][i]
        BY <2>1, <2>2, KeyFacts
    <2> HIDE DEF n
    <2>4. BuildInv(c)'
        BY <1>i, <2>1 DEF BuildInv, Active, Resting
    <2>5. HashInv(c)'
        <3>1. /\ c \notin raced' => \A i \in 1..n : seen[c][i] = sources[i]
              /\ c \notin disturbed' => \A i \in 1..n : seen[c][i] = sources[i]
            BY <1>i, <2>1 DEF HashInv, Active, Resting, n
        <3>2. \A i \in 1..Len(seen'[c]) : i \in 1..n \/ i = n + 1
            BY <2>2, <2>3
        <3>3. c \notin raced' \/ c \notin disturbed' =>
                  \A i \in 1..Len(seen'[c]) : seen'[c][i] = sources'[i]
            BY <2>1, <2>3, <3>1, <3>2
        <3> QED BY <2>1, <2>2, <2>3, <3>3 DEF HashInv, Fetching
    <2>6. TmpInv(c)' /\ GoneInv(c)'
        BY <2>1 DEF TmpInv, GoneInv
    <2>7. ModulesInv(c)'
        BY <1>i, <2>1 DEF ModulesInv
    <2>8. OutInv(c)'
        BY <1>i, <2>1 DEF OutInv, Active, Resting, Fetching
    <2> QED BY <1>0, <2>1, <2>4, <2>5, <2>6, <2>7, <2>8 DEF Local
<1>6. CASE Lookup(c)
    <2>1. /\ pc[c] = "lookup"
          /\ pc'[c] = IF shared[part[c]][seen[c]] # None THEN "copy" ELSE "gcc"
          /\ UNCHANGED <<sources, shared, modules, met, process, ir, part, seen, out, why>>
          /\ UNCHANGED <<raced, disturbed, misled>>
        BY <1>0, <1>6 DEF Lookup, Goto, TypeOK, files, mine, ids, world, ghosts
    <2>2. BuildInv(c)'
        BY <1>i, <2>1 DEF BuildInv, Active, Resting
    <2>3. HashInv(c)'
        BY <1>i, <2>1 DEF HashInv, Fetching, Active, Resting
    <2>4. TmpInv(c)' /\ GoneInv(c)'
        BY <2>1 DEF TmpInv, GoneInv
    <2>5. ModulesInv(c)'
        BY <1>i, <2>1 DEF ModulesInv
    <2>6. OutInv(c)'
        BY <1>i, <2>1 DEF OutInv, Active, Resting, Fetching
    <2> QED BY <1>0, <2>1, <2>2, <2>3, <2>4, <2>5, <2>6 DEF Local
<1>7. CASE GccReads(c)
    <2>1. /\ pc[c] = "gcc" /\ pc'[c] = "write"
          /\ tmp' = [tmp EXCEPT ![TmpOf(c)] =
                        [whole |-> FALSE, of |-> Input(part[c], sources)]]
          /\ UNCHANGED <<sources, shared, modules, met, process, ir, part, seen, out, why>>
          /\ UNCHANGED <<raced, disturbed, misled>>
        BY <1>0, <1>7 DEF GccReads, Goto, TypeOK, files, mine, ids, world, ghosts
    <2>2. BuildInv(c)' /\ Active(c)
        BY <1>i, <2>1 DEF BuildInv, Active, Resting
    <2>3. HashInv(c)'
        BY <1>i, <2>1 DEF HashInv, Fetching, Active, Resting
    <2>4. TmpInv(c)'
        <3>1. Input(part[c], sources) \in Version
            BY <1>p, KeyFacts
        <3>2. TmpOf(c)' = TmpOf(c)
            BY <2>1 DEF TmpOf
        <3>3. tmp'[TmpOf(c)] = [whole |-> FALSE, of |-> Input(part[c], sources)]
            BY <1>0, <1>v, <2>1, <2>2 DEF TypeOK
        <3>4. tmp'[TmpOf(c)] # None /\ tmp'[TmpOf(c)].of = Input(part[c], sources)
            <4> DEFINE object == [whole |-> FALSE, of |-> Input(part[c], sources)]
            <4>0. object \in Object
                BY <3>1, ObjectFacts
            <4>1. tmp'[TmpOf(c)] \in Object
                BY <4>0, <3>3
            <4>2. tmp'[TmpOf(c)] # None
                BY <4>1, ObjectFacts
            <4> QED BY <3>3, <4>2
        <3>5. c \notin raced => Input(part[c], sources) = Input(part[c], seen[c])
            <4>1. seen[c] \in Key /\ Len(seen[c]) = 2
                BY <1>i, <1>k, <2>1 DEF HashInv, Fetching
            <4>2. 1 \in 1..2 /\ 2 \in 1..2
                OBVIOUS
            <4>3. c \notin raced => seen[c][1] = sources[1] /\ seen[c][2] = sources[2]
                BY <1>i, <2>1, <4>1, <4>2 DEF HashInv
            <4> QED BY <1>p, <4>1, <4>3, KeyFacts
        <3> QED BY <2>1, <3>2, <3>4, <3>5 DEF TmpInv
    <2>5. GoneInv(c)'
        BY <2>1 DEF GoneInv
    <2>6. ModulesInv(c)'
        BY <1>i, <2>1 DEF ModulesInv
    <2>7. OutInv(c)'
        BY <1>i, <2>1 DEF OutInv, Active, Resting, Fetching
    <2> QED BY <1>0, <2>1, <2>2, <2>3, <2>4, <2>5, <2>6, <2>7 DEF Local
<1>8. CASE GccWrites(c)
    <2>1. /\ pc[c] = "write" /\ pc'[c] = "check"
          /\ tmp' = [tmp EXCEPT ![TmpOf(c)] = Whole(@)]
          /\ UNCHANGED <<sources, shared, modules, met, process, ir, part, seen, out, why>>
          /\ UNCHANGED <<raced, disturbed, misled>>
        BY <1>0, <1>8 DEF GccWrites, Goto, TypeOK, files, mine, ids, world, ghosts, Whole
    <2>2. BuildInv(c)' /\ Active(c)
        BY <1>i, <2>1 DEF BuildInv, Active, Resting
    <2>3. HashInv(c)'
        BY <1>i, <2>1 DEF HashInv, Fetching, Active, Resting
    <2>4. TmpInv(c)'
        <3>1. tmp[TmpOf(c)] \in Object \cup {None} /\ tmp'[TmpOf(c)] = Whole(tmp[TmpOf(c)])
            BY <1>0, <1>v, <2>1, <2>2 DEF TypeOK
        <3>2. TmpOf(c)' = TmpOf(c)
            BY <2>1 DEF TmpOf
        <3>3. tmp[TmpOf(c)] \in Object
            BY <1>i, <2>1, <3>1 DEF TmpInv
        <3>4. /\ tmp'[TmpOf(c)] # None /\ tmp'[TmpOf(c)].whole
              /\ tmp'[TmpOf(c)].of = tmp[TmpOf(c)].of
            BY <3>1, <3>3, ObjectFacts
        <3> QED BY <1>i, <2>1, <3>2, <3>4 DEF TmpInv
    <2>5. GoneInv(c)'
        BY <2>1 DEF GoneInv
    <2>6. ModulesInv(c)'
        BY <1>i, <2>1 DEF ModulesInv
    <2>7. OutInv(c)'
        BY <1>i, <2>1 DEF OutInv, Active, Resting, Fetching
    <2> QED BY <1>0, <2>1, <2>2, <2>3, <2>4, <2>5, <2>6, <2>7 DEF Local
<1>9. CASE GccFails(c)
    <2>1. pc[c] # "modwrite" /\ modules' = modules /\ met \subseteq met' /\ Fail(c, "gcc")
        BY <1>9 DEF GccFails, Meet
    <2> QED BY <2>1, FailLocal
<1>10. CASE FindsOther(c) \/ FindsNothing(c)
    <2>1. /\ pc[c] = "check"
          /\ \/ pc'[c] = "copy" /\ shared[part[c]][seen[c]] # None
             \/ pc'[c] = "publish" /\ tmp' = tmp
          /\ UNCHANGED <<sources, shared, modules, met, process, ir, part, seen, out, why>>
          /\ UNCHANGED <<raced, disturbed, misled>>
        BY <1>0, <1>10 DEF FindsOther, FindsNothing, DropsSecond, Goto, TypeOK, files, mine,
                           ids, world, ghosts
    <2>2. BuildInv(c)'
        BY <1>i, <2>1 DEF BuildInv, Active, Resting
    <2>3. HashInv(c)'
        BY <1>i, <2>1 DEF HashInv, Fetching, Active, Resting
    <2>4. TmpInv(c)' /\ GoneInv(c)'
        BY <1>i, <2>1 DEF TmpInv, GoneInv, TmpOf
    <2>5. ModulesInv(c)'
        BY <1>i, <2>1 DEF ModulesInv
    <2>6. OutInv(c)'
        BY <1>i, <2>1 DEF OutInv, Active, Resting, Fetching
    <2> QED BY <1>0, <2>1, <2>2, <2>3, <2>4, <2>5, <2>6 DEF Local
<1>11. CASE Publish(c)
    <2>1. /\ pc[c] = "publish" /\ pc'[c] = "copy"
          /\ shared' = [shared EXCEPT ![part[c]][seen[c]] = tmp[TmpOf(c)]]
          /\ UNCHANGED <<sources, modules, met, process, ir, part, seen, out, why>>
          /\ UNCHANGED <<raced, disturbed, misled>>
        BY <1>0, <1>11 DEF Publish, Goto, TypeOK, files, mine, ids, world, ghosts
    <2>2. BuildInv(c)'
        BY <1>i, <2>1 DEF BuildInv, Active, Resting
    <2>3. HashInv(c)'
        BY <1>i, <2>1 DEF HashInv, Fetching, Active, Resting
    <2>4. TmpInv(c)' /\ GoneInv(c)'
        <3>1. shared'[part[c]][seen[c]] = tmp[TmpOf(c)]
            BY <1>0, <1>k, <1>p, <2>1 DEF TypeOK, Fetching
        <3> QED BY <1>i, <2>1, <3>1 DEF TmpInv, GoneInv
    <2>5. ModulesInv(c)'
        BY <1>i, <2>1 DEF ModulesInv
    <2>6. OutInv(c)'
        BY <1>i, <2>1 DEF OutInv, Active, Resting, Fetching
    <2> QED BY <1>0, <2>1, <2>2, <2>3, <2>4, <2>5, <2>6 DEF Local
<1>12. CASE PublishBlocked(c)
    <2>1. pc[c] = "publish" /\ Blocked(part[c], seen[c]) /\ modules' = modules
          /\ met' = met /\ Fail(c, "busy")
        BY <1>12 DEF PublishBlocked, files, world
    <2>2. OpenBlocks /\ Compiler # {c}
        BY <2>1 DEF Blocked, InUse
    <2> QED BY <2>1, <2>2, FailLocal
<1>13. CASE Copy(c)
    <2> DEFINE object == shared[part[c]][seen[c]]
    <2>1. /\ pc[c] = "copy" /\ pc'[c] = "copying" /\ object # None
          /\ out'[c] = [out[c] EXCEPT ![part[c]] = object]
          /\ misled' = IF <<part[c], seen[c]>> \in poisoned
                       THEN misled \cup {<<c, part[c]>>} ELSE misled
          /\ UNCHANGED <<sources, modules, met, process, ir, part, seen, why>>
          /\ UNCHANGED <<raced, disturbed>>
        BY <1>0, <1>13 DEF Copy, Goto, TypeOK, files, ids, world
    <2>2. seen[c] \in Key /\ Len(seen[c]) = 2
        BY <1>i, <1>k, <2>1 DEF HashInv, Fetching
    <2>3. /\ object.whole
          /\ object.of = Input(part[c], seen[c]) \/ <<part[c], seen[c]>> \in poisoned
        BY <1>0, <1>p, <2>1, <2>2 DEF PublishedFaithful
    <2> HIDE DEF object
    <2>4. /\ out'[c].module = out[c].module /\ out'[c][part[c]] = object
          /\ \A p \in Part \ {part[c]} : out'[c][p] = out[c][p]
        BY <1>o, <1>p, <2>1 DEF Part
    <2>5. BuildInv(c)'
        BY <1>i, <2>1 DEF BuildInv, Active, Resting
    <2>6. HashInv(c)'
        BY <1>i, <2>1 DEF HashInv, Fetching, Active, Resting
    <2>7. TmpInv(c)' /\ GoneInv(c)'
        BY <2>1 DEF TmpInv, GoneInv
    <2>8. ModulesInv(c)'
        BY <1>i, <2>1, <2>4 DEF ModulesInv
    <2>9. OutInv(c)'
        <3>1. c \notin disturbed => Input(part[c], sources) = Input(part[c], seen[c])
            <4>1. 1 \in 1..2 /\ 2 \in 1..2
                OBVIOUS
            <4>2. c \notin disturbed => seen[c][1] = sources[1] /\ seen[c][2] = sources[2]
                BY <1>i, <2>1, <2>2, <4>1 DEF HashInv, Active, Resting
            <4> QED BY <1>p, <2>2, <4>2, KeyFacts
        <3>2. c \notin disturbed =>
                  object.of = Input(part[c], sources) \/ <<c, part[c]>> \in misled'
            BY <2>1, <2>3, <3>1
        <3>3. misled \subseteq misled'
            BY <2>1
        <3>4. c \notin disturbed => \A p \in Part : out'[c][p] # None =>
                  out'[c][p].of = Input(p, sources) \/ <<c, p>> \in misled'
            BY <1>i, <2>1, <2>4, <3>2, <3>3 DEF OutInv, Active, Resting
        <3>5. \A p \in Part : out'[c][p] # None => out'[c][p].whole
            BY <1>i, <2>3, <2>4 DEF OutInv
        <3>6. out'[c].module # None /\ (part[c] = "switch" => out'[c].ncrt # None)
              /\ out'[c][part[c]] # None
            BY <1>i, <2>1, <2>4 DEF OutInv, Fetching, Part
        <3> QED BY <2>1, <3>4, <3>5, <3>6 DEF OutInv, Input
    <2> QED BY <1>0, <2>1, <2>5, <2>6, <2>7, <2>8, <2>9 DEF Local
<1>14. CASE CopyMissing(c)
    <2>1. pc[c] = "copy" /\ shared[part[c]][seen[c]] = None /\ modules' = modules
          /\ met' = met /\ Fail(c, "gone")
        BY <1>14 DEF CopyMissing, files, world
    <2>2. "remove" \in met
        BY <1>i, <2>1 DEF GoneInv
    <2> QED BY <2>1, <2>2, FailLocal
<1>15. CASE Copied(c)
    <2>1. /\ pc[c] = "copying"
          /\ \/ part[c] = "ncrt" /\ part'[c] = "switch" /\ seen'[c] = <<>> /\ pc'[c] = "hash"
             \/ /\ part[c] = "switch" /\ pc'[c] = "link"
                /\ UNCHANGED <<part, seen>>
          /\ UNCHANGED <<sources, modules, met, process, ir, out, why, disturbed, misled>>
        BY <1>0, <1>15 DEF Copied, Goto, TypeOK, files, ids, world, Part
    <2>2. BuildInv(c)'
        BY <1>i, <2>1 DEF BuildInv, Active, Resting
    <2>3. HashInv(c)'
        BY <1>i, <2>1, EmptyFacts DEF HashInv, Fetching, Active, Resting
    <2>4. TmpInv(c)' /\ GoneInv(c)'
        BY <2>1 DEF TmpInv, GoneInv
    <2>5. ModulesInv(c)'
        BY <1>i, <2>1 DEF ModulesInv
    <2>6. OutInv(c)'
        BY <1>i, <2>1 DEF OutInv, Active, Resting, Fetching, Part
    <2> QED BY <1>0, <2>1, <2>2, <2>3, <2>4, <2>5, <2>6 DEF Local
<1>16. CASE Link(c)
    <2> DEFINE AllWhole == \A o \in DOMAIN NoOut : out[c][o].whole
    <2>0. pc[c] = "link" /\ modules' = modules /\ met' = met /\ sources' = sources
        BY <1>16 DEF Link, files, world
    <2>1. CASE AllWhole
        <3>1. /\ pc'[c] = "built"
              /\ UNCHANGED <<ir, part, seen, out, why, disturbed, misled>>
            BY <1>0, <1>16, <2>1 DEF Link, Goto, TypeOK
        <3>2. (BuildInv(c) /\ HashInv(c) /\ TmpInv(c) /\ GoneInv(c))'
            BY <3>1 DEF BuildInv, HashInv, TmpInv, GoneInv, Active, Resting, Fetching
        <3>3. ModulesInv(c)'
            BY <1>i, <2>0, <3>1 DEF ModulesInv
        <3>4. OutInv(c)'
            BY <1>i, <2>0, <3>1 DEF OutInv, Active, Resting, Fetching
        <3> QED BY <1>0, <2>0, <3>1, <3>2, <3>3, <3>4 DEF Local
    <2>2. CASE ~AllWhole
        <3>1. Fail(c, "link")
            BY <1>16, <2>2 DEF Link
        <3>2. DOMAIN NoOut = {"module"} \cup Part
            BY DEF NoOut, Part
        <3>3. out[c].module # None /\ \A p \in Part : out[c][p].whole
            BY <1>i, <2>0 DEF OutInv
        <3>4. ~out[c].module.whole
            BY <2>2, <3>2, <3>3
        <3>5. "crash" \in met
            BY <1>i, <3>3, <3>4 DEF ModulesInv
        <3> QED BY <2>0, <3>1, <3>5, FailLocal
    <2> QED BY <2>1, <2>2
<1>17. CASE Crash(c)
    <2>1. Fail(c, "crash") /\ modules' = modules /\ met' = met \cup {"crash"}
        BY <1>17 DEF Crash, Meet, files
    <2> QED BY <2>1, FailLocal
<1> QED BY <1>1, <1>2, <1>3, <1>4, <1>5, <1>6, <1>7, <1>8, <1>9, <1>10, <1>11, <1>12,
           <1>13, <1>14, <1>15, <1>16, <1>17 DEF Step
(* An object only gets its final name by Publish, which moves the one that *)
(* gcc has made there.                                                     *)
LEMMA StepPublished ==
    ASSUME IInv, NEW c \in Compiler, Start(c) \/ Step(c) \/ Crash(c),
           \A d \in Compiler : Local(d)'
    PROVE  PublishedFaithful'
<1>0. TypeOK /\ Local(c) /\ PublishedFaithful
    BY LocalAll
<1>1. \A d \in Compiler, p \in Part : out'[d][p] # None => out'[d][p].whole
    BY DEF Local, OutInv
<1>2. CASE Publish(c)
    <2>1. /\ pc[c] = "publish"
          /\ shared' = [shared EXCEPT ![part[c]][seen[c]] = tmp[TmpOf(c)]]
          /\ poisoned' = IF c \in raced THEN poisoned \cup {<<part[c], seen[c]>>}
                                        ELSE poisoned \ {<<part[c], seen[c]>>}
        BY <1>2 DEF Publish
    <2>2. part[c] \in Part /\ seen[c] \in Key
        BY <1>0, <2>1, KeyFacts DEF TypeOK, Local, HashInv, Fetching
    <2>3. /\ tmp[TmpOf(c)].whole
          /\ c \notin raced => tmp[TmpOf(c)].of = Input(part[c], seen[c])
        BY <1>0, <2>1 DEF Local, TmpInv
    <2> SUFFICES ASSUME NEW p \in Part, NEW k \in Key, shared'[p][k] # None
                 PROVE  /\ shared'[p][k].whole
                        /\ shared'[p][k].of = Input(p, k) \/ <<p, k>> \in poisoned'
        BY <1>1 DEF PublishedFaithful
    <2>4. CASE p = part[c] /\ k = seen[c]
        <3>1. shared'[p][k] = tmp[TmpOf(c)]
            BY <1>0, <2>1, <2>2, <2>4 DEF TypeOK
        <3> QED BY <2>1, <2>3, <2>4, <3>1
    <2>5. CASE ~(p = part[c] /\ k = seen[c])
        <3>1. shared'[p][k] = shared[p][k]
            BY <1>0, <2>1, <2>2, <2>5 DEF TypeOK
        <3>2. <<p, k>> # <<part[c], seen[c]>>
            BY <2>5
        <3> QED BY <1>0, <2>1, <3>1, <3>2 DEF PublishedFaithful
    <2> QED BY <2>4, <2>5
<1>3. CASE ~Publish(c)
    <2>1. shared' = shared /\ poisoned' = poisoned
        BY <1>3 DEF Start, Step, ModuleHit, ModuleMiss, ModuleWritten, HashFile, Lookup,
           GccReads, GccWrites, GccFails, FindsOther, DropsSecond, FindsNothing,
           PublishBlocked, Copy, CopyMissing, Copied, Link, Crash, files, ghosts
    <2> QED BY <1>0, <1>1, <2>1 DEF PublishedFaithful
<1> QED BY <1>2, <1>3

(* Every way out of _cached_ncrt_obj but two takes the temporary along.    *)
LEMMA StepLeftovers ==
    ASSUME IInv, NEW c \in Compiler, Start(c) \/ Step(c) \/ Crash(c)
    PROVE  NoLeftovers'
<1> DEFINE Busy == {"write", "check", "publish"}
<1>0. TypeOK /\ Local(c) /\ NoLeftovers /\ Elsewhere(c)
    BY LocalAll, StepElsewhere
<1>1. abandoned \subseteq abandoned'
    BY DEF Start, Step, ModuleHit, ModuleMiss, ModuleWritten, HashFile, Lookup,
       GccReads, GccWrites, GccFails, FindsOther, FindsNothing, Publish,
       PublishBlocked, Copy, CopyMissing, Copied, Link, Crash, ghosts
<1>2. ASSUME NEW n \in TmpName, n[1] # c, tmp'[n] # None
      PROVE  n \in abandoned' \/ (n = TmpOf(n[1])' /\ pc'[n[1]] \in Busy)
    <2>1. n[1] \in Compiler
        BY DEF TmpName
    <2>2. tmp'[n] = tmp[n] /\ pc'[n[1]] = pc[n[1]] /\ process'[n[1]] = process[n[1]]
        BY <1>0, <1>2, <2>1 DEF Elsewhere
    <2> QED BY <1>0, <1>1, <1>2, <2>2 DEF NoLeftovers, TmpOf
(* A name of c's own: it was left before, or it is the one in its hands.   *)
<1>3. ASSUME NEW n \in TmpName, n[1] = c, tmp'[n] # None
      PROVE  n \in abandoned' \/ (n = TmpOf(c)' /\ pc'[c] \in Busy)
    <2>1. CASE pc[c] \notin Busy /\ tmp'[n] = tmp[n]
        BY <1>0, <1>1, <1>3, <2>1 DEF NoLeftovers
    <2>2. CASE GccReads(c) \/ GccWrites(c) \/ FindsNothing(c)
        <3>1. /\ process' = process /\ pc'[c] \in Busy
              /\ n # TmpOf(c) => tmp'[n] = tmp[n]
            BY <1>0, <2>2 DEF GccReads, GccWrites, FindsNothing, Goto, mine, ids, files, TypeOK
        <3>2. TmpOf(c)' = TmpOf(c)
            BY <3>1 DEF TmpOf
        <3> QED BY <1>0, <1>1, <1>3, <3>1, <3>2 DEF NoLeftovers
    <2>3. CASE GccFails(c) \/ FindsOther(c) \/ Publish(c)
        <3>1. /\ tmp' = [tmp EXCEPT ![TmpOf(c)] = None]
            BY <2>3 DEF GccFails, TmpAfterFailure, FindsOther, DropsSecond, Publish
        <3>2. n # TmpOf(c) /\ tmp'[n] = tmp[n]
            BY <1>0, <1>3, <3>1 DEF TypeOK
        <3> QED BY <1>0, <1>1, <1>3, <3>2 DEF NoLeftovers
    <2>4. CASE PublishBlocked(c) \/ Crash(c)
        <3>1. abandoned' = abandoned \cup {TmpOf(c)} /\ tmp' = tmp
            BY <2>4 DEF PublishBlocked, Crash, files
        <3> QED BY <1>0, <1>3, <3>1 DEF NoLeftovers
    <2>5. CASE \/ Start(c) \/ ModuleHit(c) \/ ModuleMiss(c) \/ ModuleWritten(c)
               \/ HashFile(c) \/ Lookup(c) \/ Copy(c) \/ CopyMissing(c) \/ Copied(c)
               \/ Link(c)
        <3>1. pc[c] \notin Busy /\ tmp' = tmp
            BY <2>5 DEF Start, ModuleHit, ModuleMiss, ModuleWritten, HashFile, Lookup,
               Copy, CopyMissing, Copied, Link, Resting, files
        <3> QED BY <2>1, <3>1
    <2> QED BY <2>2, <2>3, <2>4, <2>5 DEF Step
<1> QED BY <1>2, <1>3 DEF NoLeftovers

(* All steps of a compiler.                                                *)
LEMMA StepInv ==
    ASSUME IInv, NEW c \in Compiler, Start(c) \/ Step(c) \/ Crash(c)
    PROVE  IInv'
<1>1. TypeOK'
    BY StepType
<1>2. \A d \in Compiler : Local(d)'
    BY StepElsewhere, StepLocal, LocalKept
<1>3. PublishedFaithful' /\ NoLeftovers'
    BY <1>2, StepPublished, StepLeftovers
<1> QED BY <1>1, <1>2, <1>3, LocalAll DEF IInv, Local, FailureExplained

-----------------------------------------------------------------------------
(* An edit makes every hash that is in use stale, and the ghosts know it.  *)
LEMMA EditInv ==
    ASSUME IInv, NEW i \in SourceFile, Edit(i)
    PROVE  IInv'
<1>1. TypeOK /\ PublishedFaithful /\ NoLeftovers /\ \A c \in Compiler : Local(c)
    BY LocalAll
<1>2. /\ UNCHANGED <<shared, tmp, modules, pc, process, ir, part, seen, out, why>>
      /\ UNCHANGED <<started, poisoned, misled, abandoned>>
    BY DEF Edit, mine, ids
<1>3. PICK v \in Version : sources' = [sources EXCEPT ![i] = v]
    BY DEF Edit
<1>4. /\ met \subseteq met'
      /\ raced' = raced \cup {c \in Compiler : pc[c] \in {"hash", "lookup", "gcc"}
                                               /\ i <= Len(seen[c])}
      /\ disturbed' = disturbed \cup {c \in Compiler : pc[c] \notin {"idle", "failed"}}
    BY DEF Edit, Meet
<1>5. TypeOK'
    <2>1. sources' \in Key
        BY <1>1, <1>3 DEF TypeOK, Key
    <2>2. troubles' \in 0..MaxTroubles /\ met' \subseteq Trouble
        <3>1. troubles \in 0..MaxTroubles /\ met \subseteq Trouble /\ MaxTroubles \in Nat
            BY <1>1, BuildAssumption DEF TypeOK
        <3> QED BY <3>1 DEF Edit, Meet, Trouble
    <2>3. raced' \subseteq Compiler /\ disturbed' \subseteq Compiler
        BY <1>1, <1>4 DEF TypeOK
    <2> QED BY <1>1, <1>2, <2>1, <2>2, <2>3 DEF TypeOK
<1>6. PublishedFaithful' /\ NoLeftovers'
    BY <1>1, <1>2 DEF PublishedFaithful, NoLeftovers, TmpOf
<1>7. ASSUME NEW c \in Compiler
      PROVE  Local(c)'
    <2>1. Local(c) /\ seen[c] \in Seq(Version)
        BY <1>1 DEF TypeOK
    <2>2. (BuildInv(c) /\ GoneInv(c))'
        BY <2>1, <1>2, <1>4 DEF Local, BuildInv, GoneInv, Active
    <2>3. HashInv(c)'
        <3>1. ASSUME pc[c] \in {"hash", "lookup", "gcc"}, c \notin raced'
              PROVE  \A j \in 1..Len(seen[c]) : seen[c][j] = sources'[j]
            <4>1. c \notin raced /\ ~(i <= Len(seen[c])) /\ Len(seen[c]) \in Nat
                BY <1>4, <2>1, <3>1, LenProperties
            <4>2. \A j \in 1..Len(seen[c]) : seen[c][j] = sources[j]
                BY <2>1, <3>1, <4>1 DEF Local, HashInv
            <4>3. i \in Nat
                BY DEF SourceFile
            <4>4. Len(seen[c]) <= 2
                BY <2>1, <3>1, <4>1 DEF Local, HashInv, Fetching
            <4>5. \A j \in 1..Len(seen[c]) : j # i /\ j \in SourceFile
                BY <4>1, <4>3, <4>4 DEF SourceFile
            <4>6. \A j \in SourceFile : j # i => sources'[j] = sources[j]
                BY <1>1, <1>3 DEF TypeOK, Key
            <4> QED BY <4>2, <4>5, <4>6
        <3>2. c \notin disturbed' => ~Active(c)
            BY <1>4 DEF Active, Resting
        <3> QED BY <2>1, <1>2, <3>1, <3>2 DEF Local, HashInv, Active
    <2>4. TmpInv(c)'
        BY <2>1, <1>2, <1>4 DEF Local, TmpInv, TmpOf
    <2>5. ModulesInv(c)'
        BY <2>1, <1>2, <1>4 DEF Local, ModulesInv
    <2>6. OutInv(c)'
        <3>1. Active(c) \/ pc[c] = "built" => c \in disturbed'
            BY <1>4 DEF Active, Resting
        <3> QED BY <2>1, <1>2, <3>1 DEF Local, OutInv, Active
    <2> QED BY <2>1, <2>2, <2>3, <2>4, <2>5, <2>6, <1>2, <1>4 DEF Local
<1> QED BY <1>5, <1>6, <1>7, LocalAll DEF IInv, Local, FailureExplained

(* A deleted object is missed only by those who have looked already.       *)
LEMMA RemoveInv ==
    ASSUME IInv, NEW p \in Part, NEW k \in Key, Remove(p, k)
    PROVE  IInv'
<1>1. TypeOK /\ PublishedFaithful /\ NoLeftovers /\ \A c \in Compiler : Local(c)
    BY LocalAll
<1>2. /\ UNCHANGED <<sources, tmp, modules, pc, started, process, ir, part, seen, out, why>>
      /\ UNCHANGED <<raced, disturbed, poisoned, misled, abandoned>>
      /\ shared' = [shared EXCEPT ![p][k] = None] /\ met' = met \cup {"remove"}
    BY DEF Remove, Meet, mine, ids, ghosts
<1>3. TypeOK'
    <2>1. troubles' \in 0..MaxTroubles /\ met' \subseteq Trouble
        <3>1. troubles \in 0..MaxTroubles /\ met \subseteq Trouble /\ MaxTroubles \in Nat
            BY <1>1, BuildAssumption DEF TypeOK
        <3> QED BY <3>1 DEF Remove, Meet, Trouble
    <2>2. shared' \in [Part -> [Key -> Object \cup {None}]]
        BY <1>1, <1>2 DEF TypeOK
    <2> QED BY <1>1, <1>2, <2>1, <2>2 DEF TypeOK
<1>4. PublishedFaithful' /\ NoLeftovers'
    <2>1. \A q \in Part, l \in Key : shared'[q][l] \in {None, shared[q][l]}
        BY <1>1, <1>2 DEF TypeOK
    <2> QED BY <1>1, <1>2, <2>1 DEF PublishedFaithful, NoLeftovers, TmpOf
<1>5. ASSUME NEW c \in Compiler
      PROVE  Local(c)'
    <2>1. Local(c)
        BY <1>1
    <2>2. (BuildInv(c) /\ HashInv(c) /\ TmpInv(c))'
        BY <2>1, <1>2 DEF Local, BuildInv, HashInv, TmpInv, Active, TmpOf
    <2>3. (ModulesInv(c) /\ OutInv(c) /\ GoneInv(c))'
        BY <2>1, <1>2 DEF Local, ModulesInv, OutInv, GoneInv, Active
    <2> QED BY <2>1, <2>2, <2>3, <1>2 DEF Local
<1> QED BY <1>3, <1>4, <1>5, LocalAll DEF IInv, Local, FailureExplained

(* Empty directories, and no build yet.                                    *)
LEMMA InitInv == Init => IInv
<1> SUFFICES ASSUME Init PROVE IInv
    OBVIOUS
<1>0. NoOut.module = None /\ \A p \in Part : NoOut[p] = None
    BY DEF NoOut, Part
<1>1. TypeOK
    <2>1. /\ sources \in Key /\ shared \in [Part -> [Key -> Object \cup {None}]]
          /\ tmp \in [TmpName -> Object \cup {None}]
          /\ modules \in [Compiler -> [Version -> Object \cup {None}]]
        BY DEF Init
    <2>2. /\ pc \in [Compiler -> {"module", "modwrite", "hash", "link"}
                                 \cup Fetching \cup Resting]
          /\ ir \in [Compiler -> Version \cup {None}]
          /\ why \in [Compiler -> {"", "gcc", "busy", "gone", "link", "crash"}]
        BY DEF Init, Resting
    <2>3. started \in 0..MaxBuilds /\ troubles \in 0..MaxTroubles
        <3>1. 0 \in 0..MaxBuilds /\ 0 \in 0..MaxTroubles
            BY BuildAssumption
        <3> QED BY <3>1 DEF Init
    <2>4. process \in [Compiler -> 0..started]
        <3>1. 0 \in 0..started
            BY <2>3, BuildAssumption
        <3> QED BY <3>1 DEF Init
    <2>5. part \in [Compiler -> Part]
        BY DEF Init, Part
    <2>6. seen \in [Compiler -> Seq(Version)]
        BY KeyFacts DEF Init
    <2>7. out \in [Compiler -> [{"module"} \cup Part -> Object \cup {None}]]
        BY NoOutType DEF Init
    <2>8. /\ met \subseteq Trouble /\ raced \subseteq Compiler /\ disturbed \subseteq Compiler
          /\ poisoned \subseteq Part \X Key /\ misled \subseteq Compiler \X Part
          /\ abandoned \subseteq TmpName
        BY DEF Init
    <2> QED BY <2>1, <2>2, <2>3, <2>4, <2>5, <2>6, <2>7, <2>8 DEF TypeOK
<1>2. PublishedFaithful /\ NoLeftovers
    <2>1. /\ \A p \in Part, k \in Key : shared[p][k] = None
          /\ \A c \in Compiler : out[c] = NoOut
          /\ \A n \in TmpName : tmp[n] = None
        BY DEF Init
    <2> QED BY <2>1, <1>0 DEF PublishedFaithful, NoLeftovers
<1>3. ASSUME NEW c \in Compiler PROVE Local(c)
    <2>1. pc[c] = "idle" /\ why[c] = "" /\ out[c] = NoOut
          /\ \A v \in Version : modules[c][v] = None
        BY DEF Init
    <2>3. BuildInv(c) /\ HashInv(c) /\ TmpInv(c) /\ GoneInv(c)
        BY <2>1 DEF BuildInv, HashInv, TmpInv, GoneInv, Active, Resting, Fetching
    <2>4. ModulesInv(c) /\ OutInv(c)
        BY <2>1, <1>0 DEF ModulesInv, OutInv, Active, Resting, Fetching
    <2> QED BY <2>1, <2>3, <2>4 DEF Local
<1> QED BY <1>1, <1>2, <1>3, LocalAll

(* All steps of the system.                                                *)
LEMMA NextInv == IInv /\ [Next]_vars => IInv'
<1> SUFFICES ASSUME IInv, [Next]_vars PROVE IInv'
    OBVIOUS
<1>1. CASE \E c \in Compiler : Start(c) \/ Step(c) \/ Crash(c)
    BY <1>1, StepInv
<1>2. CASE \E i \in SourceFile : Edit(i)
    BY <1>2, EditInv
<1>3. CASE \E p \in Part, k \in Key : Remove(p, k)
    BY <1>3, RemoveInv
<1>4. CASE UNCHANGED vars
    <2>1. TypeOK' /\ PublishedFaithful' /\ NoLeftovers' /\ FailureExplained'
        BY <1>4 DEF vars, IInv, TypeOK, PublishedFaithful, NoLeftovers, FailureExplained,
           TmpOf
    <2>2. \A c \in Compiler : (BuildInv(c) /\ HashInv(c) /\ TmpInv(c))'
        BY <1>4 DEF vars, IInv, BuildInv, HashInv, TmpInv, Active, TmpOf
    <2>3. \A c \in Compiler : (ModulesInv(c) /\ OutInv(c) /\ GoneInv(c))'
        BY <1>4 DEF vars, IInv, ModulesInv, OutInv, GoneInv, Active
    <2> QED BY <2>1, <2>2, <2>3 DEF IInv
<1> QED BY <1>1, <1>2, <1>3, <1>4 DEF Next

(* Whatever compilers, developers and whoever cleans the directory do, and *)
(* wherever they are interrupted, what is on disk is what the builds take  *)
(* it for (ncrt.py:34-108).                                                *)
THEOREM CacheInductive == Spec => []IInv
BY InitInv, NextInv, PTL DEF Spec

(* ncrt.py:49-68: an object that has its final name is whole and of the    *)
(* sources that its key is the hash of, with any number of compilers.      *)
THEOREM PublishedIsFaithful == Spec => []PublishedFaithful
<1>1. IInv => PublishedFaithful
    BY DEF IInv
<1> QED BY CacheInductive, <1>1, PTL

(* llvm_codegen.py:2038-2062, ncrt.py:98-108: a build that saw no edit has *)
(* linked the objects of its IR and of the sources.                        *)
THEOREM BuildsAreExact == Spec => []BuildExact
<1>1. IInv => BuildExact
    <2> SUFFICES ASSUME IInv, NEW c \in Compiler, pc[c] = "built", c \notin disturbed
                 PROVE  /\ out[c].module.of = ir[c]
                        /\ \A p \in Part : \/ out[c][p].of = Input(p, sources)
                                           \/ <<c, p>> \in misled
        BY DEF BuildExact
    <2>1. ModulesInv(c) /\ OutInv(c)
        BY DEF IInv
    <2> QED BY <2>1 DEF ModulesInv, OutInv
<1> QED BY CacheInductive, <1>1, PTL

(* ncrt.py:59-67: a temporary without a build was left by one that was     *)
(* killed or could not replace an open object.                             *)
THEOREM NothingIsLeft == Spec => []NoLeftovers
<1>1. IInv => NoLeftovers
    BY DEF IInv
<1> QED BY CacheInductive, <1>1, PTL

(* ncrt.py:44-68: the ways in which other compilers, or whoever deletes    *)
(* objects, can make a build fail are the known ones.                      *)
THEOREM FailuresAreExplained == Spec => []FailureExplained
<1>1. IInv => FailureExplained
    BY DEF IInv
<1> QED BY CacheInductive, <1>1, PTL
===============================================================================
