----------------------------- MODULE Monomorphize -----------------------------
(***************************************************************************)
(* Generics (compiler/generics.py, erase_generics.py): the declarations of *)
(* a program are walked, every use of a generic struct or function with    *)
(* type arguments is replaced by the name of an instance, instances are    *)
(* walked in their turn, and it ends when a round adds none.  Functions of *)
(* two shapes are erased: one function on slots, with a descriptor of the  *)
(* type.                                                                   *)
(*                                                                         *)
(* A declaration mentions types - of a function those of its parameters,   *)
(* its result and then others - and has the uses of its body, and those of *)
(* the default of each parameter.                                          *)
(***************************************************************************)
EXTENDS TypeRef, TLC

CONSTANTS
    Programs,       \* the programs to instantiate: [templates, ordinary]
    MaxGenerated    \* bound: walks stop beyond it, on programs without end

VARIABLES
    program,        \* the program that was read
    ordinary,       \* the declarations without type parameters
    generated,      \* the instances, which is walked while it grows
    made,           \* made_funcs and made_structs: name and type arguments
    phase, at,      \* the loop that is running, and its position
    before,         \* len(generated) when the round began
    limit           \* the end of `ordinary + generated', a copy

monoVars == <<program, ordinary, generated, made, phase, at, before, limit>>

templates == program.templates   \* generic_funcs and generic_structs, by name

(* `returns': the parameter a body consists of, 0 if there is more to it;  *)
(* `least': the body is `if a < b { a } else { b }'.                       *)
Shape(returns, least) == [returns |-> returns, least |-> least]
Decl(name, kind, typeParams, types, uses, defaults, shape) ==
    [name |-> name, kind |-> kind, typeParams |-> typeParams, types |-> types, uses |-> uses,
     defaults |-> defaults, shape |-> shape, origin |-> "", args |-> <<>>]
(* A call, a function value, or an index that may turn out to be one.      *)
Use(form, name, args, given) ==
    [form |-> form, name |-> name, args |-> args, given |-> given, erased |-> <<>>]

ParamTypes(d) == SubSeq(d.types, 1, Len(d.defaults))
ResultType(d) == d.types[Len(d.defaults) + 1]

-----------------------------------------------------------------------------
(* _instance_name: of a type's key the letters and digits stay.            *)
Words(t) ==
    LET words == SelectSeq(Key(t), LAMBDA c : c \notin {"*", "?*", "[", "]", ",", ")", "->"})
    IN  [i \in DOMAIN words |-> IF words[i] = "fn(" THEN "fn" ELSE words[i]]
Text(words, separator) ==
    FoldLeft(LAMBDA text, word : IF text = "" THEN word ELSE text \o separator \o word, "", words)
Instance(name, args) ==
    name \o "__" \o Text([i \in DOMAIN args |-> Text(Words(args[i]), "_")], "__")
ErasedName(name) == "__erased_" \o name

(* can_erase.                                                              *)
CanErase(d) ==
    LET T == ToSet(d.typeParams)
        onParams == /\ d.kind = "fun" /\ d.defaults # <<>> /\ \A i \in DOMAIN d.defaults : d.defaults[i] = <<>>
                    /\ ToSet(ParamTypes(d)) \cup {ResultType(d)} \subseteq {Named(p) : p \in T}
    IN  /\ onParams
        /\ d.shape.returns # 0 \/ (d.shape.least /\ Len(d.defaults) = 2 /\ Cardinality(T) = 1)

(* _substitute_node on a copy of the template.                             *)
SubstUse(use, Sub) == [use EXCEPT !.args = [i \in DOMAIN @ |-> Rewritten(@[i], Sub)]]
SubstUses(uses, Sub) == [i \in DOMAIN uses |-> SubstUse(uses[i], Sub)]
Instantiated(d, name, args) ==
    LET Sub == [p \in ToSet(d.typeParams) |-> args[CHOOSE i \in DOMAIN args : d.typeParams[i] = p]] IN
    [d EXCEPT !.name = name, !.origin = d.name, !.args = args, !.typeParams = <<>>,
              !.types = [i \in DOMAIN @ |-> Rewritten(@[i], Sub)], !.uses = SubstUses(@, Sub),
              !.defaults = [i \in DOMAIN @ |-> SubstUses(@[i], Sub)]]

(* erase_function: a descriptor and slots for parameters; the body returns *)
(* the first of them.                                                      *)
Erased(d) ==
    Decl(ErasedName(d.name), "fun", <<>>, [i \in 1..(Len(d.defaults) + 2) |-> Named("raw")], <<>>,
         <<<<>>>> \o d.defaults, Shape(IF d.shape.least THEN 0 ELSE 1, d.shape.least))

-----------------------------------------------------------------------------
(* rewrite_type; it does not look into a function type.                    *)
RECURSIVE RewriteType(_)
RewriteType(t) ==
    LET args == Each(RewriteType, t.args) IN
    CASE t.form \in {"named", "fn"} -> t
      [] t.form = "generic" /\ t.name # "map" -> Named(Instance(t.name, args))
      [] OTHER -> [t EXCEPT !.args = args]

(* What it asks for on the way, innermost first, and what it refuses.      *)
Request(name, args) == [name |-> name, args |-> args]
RECURSIVE AskedByType(_)
AskedByType(t) ==
    IF t.form = "fn" THEN <<>>
    ELSE FlattenSeq(Each(AskedByType, t.args))
         \o (IF t.form = "generic" /\ t.name # "map"
             THEN <<Request(t.name, Each(RewriteType, t.args))>> ELSE <<>>)
RECURSIVE Bares(_)   \* a generic struct without type arguments
Bares(t) ==
    IF t.form = "named" THEN t.name \in DOMAIN templates /\ templates[t.name].kind = "struct"
    ELSE t.form # "fn" /\ \E i \in DOMAIN t.args : Bares(t.args[i])
Refused(request, kind) ==
    \/ request.name \notin DOMAIN templates
    \/ templates[request.name].kind # kind
    \/ Len(templates[request.name].typeParams) # Len(request.args)

(* rewrite_node on a use.                                                  *)
Requests(T, use) ==
    /\ use.args # <<>> /\ use.name # "map"
    /\ use.form = "index" => use.name \in DOMAIN T /\ T[use.name].kind = "fun"
AskedByUse(T, use) ==
    IF use.args = <<>> \/ (use.form = "index" /\ ~Requests(T, use)) THEN <<>>
    ELSE FlattenSeq(Each(AskedByType, use.args))
         \o (IF Requests(T, use) THEN <<Request(use.name, Each(RewriteType, use.args))>>
             ELSE <<>>)
RewriteUse(use) ==
    LET args == Each(RewriteType, use.args) IN
    IF ~Requests(templates, use) THEN IF use.name = "map" THEN [use EXCEPT !.args = args] ELSE use
    ELSE IF CanErase(templates[use.name])
    THEN [use EXCEPT !.name = ErasedName(use.name), !.args = <<>>, !.erased = IF use.form = "call" THEN args ELSE <<>>]
    ELSE [use EXCEPT !.name = Instance(use.name, args), !.args = <<>>]
WrongType(t) ==
    Bares(t) \/ \E i \in DOMAIN AskedByType(t) : Refused(AskedByType(t)[i], "struct")
WrongUse(use) ==
    \/ use.form = "call" /\ use.args = <<>>
       /\ use.name \in DOMAIN templates /\ templates[use.name].kind = "fun"
    \/ (use.form = "index" => Requests(templates, use)) /\ \E i \in DOMAIN use.args : WrongType(use.args[i])
    \/ Requests(templates, use) /\ Refused(Request(use.name, use.args), "fun")

AskedByUses(T, uses) == FlattenSeq([i \in DOMAIN uses |-> AskedByUse(T, uses[i])])
RewriteUses(uses) == Each(RewriteUse, uses)
WrongUses(uses)   == \E i \in DOMAIN uses : WrongUse(uses[i])

(* request_struct and request_func, for requests in their order.           *)
GrantedAgain(g, request) ==   \* mutant: made_funcs and made_structs are not asked
    LET d == templates[request.name] IN
    [made |-> g.made \cup {request}, generated |-> Append(g.generated, Instantiated(d, Instance(d.name, request.args), request.args))]
Granted(g, request) ==
    LET d == templates[request.name]
        instance == Instantiated(d, Instance(d.name, request.args), request.args)
    IN  IF request \in g.made THEN g
        ELSE [made |-> g.made \cup {request},
              generated |-> IF ~CanErase(d) THEN Append(g.generated, instance)
                            ELSE IF \E r \in g.made : r.name = d.name THEN g.generated
                            ELSE Append(g.generated, [Erased(d) EXCEPT !.origin = d.name])]
Grants(requests) == FoldLeft(Granted, [made |-> made, generated |-> generated], requests)

(* _walk_values(stmt, rewrite_node): with the defaults of an ordinary      *)
(* declaration, without those of an instance.                              *)
AskedBy(T, d, deep) ==
    FlattenSeq(Each(AskedByType, d.types)) \o AskedByUses(T, d.uses)
    \o (IF deep THEN FlattenSeq([i \in DOMAIN d.defaults |-> AskedByUses(T, d.defaults[i])]) ELSE <<>>)
Walked(d, deep) ==
    [d EXCEPT !.types = Each(RewriteType, @), !.uses = RewriteUses(@),
              !.defaults = IF deep THEN [i \in DOMAIN @ |-> RewriteUses(@[i])] ELSE @]
Wrong(d, deep) ==
    \/ \E i \in DOMAIN d.types : WrongType(d.types[i])
    \/ WrongUses(d.uses)
    \/ deep /\ \E i \in DOMAIN d.defaults : WrongUses(d.defaults[i])

-----------------------------------------------------------------------------
Cut == Len(generated) >= MaxGenerated

MonoInit ==
    /\ program \in Programs /\ ordinary = program.ordinary
    /\ generated = <<>> /\ made = {} /\ phase = "ordinary" /\ at = 1 /\ before = 0 /\ limit = 0

Keep == UNCHANGED <<program, before, limit>>
Raise == phase' = "error" /\ UNCHANGED <<ordinary, generated, made, at>> /\ Keep

WalkOrdinary ==
    /\ phase = "ordinary" /\ at <= Len(ordinary) /\ ~Cut
    /\ IF Wrong(ordinary[at], TRUE) THEN Raise
       ELSE
          /\ LET g == Grants(AskedBy(templates, ordinary[at], TRUE)) IN made' = g.made /\ generated' = g.generated
          /\ ordinary' = [ordinary EXCEPT ![at] = Walked(@, TRUE)]
          /\ at' = at + 1 /\ UNCHANGED phase /\ Keep

WalkGenerated ==
    /\ phase = "generated" /\ at <= Len(generated) /\ ~Cut
    /\ IF Wrong(generated[at], FALSE) THEN Raise
       ELSE
          /\ LET g == Grants(AskedBy(templates, generated[at], FALSE)) IN
                made' = g.made /\ generated' = [g.generated EXCEPT ![at] = Walked(@, FALSE)]
          /\ at' = at + 1 /\ UNCHANGED <<ordinary, phase>> /\ Keep

(* concrete_funcs: the last function that was given the name.              *)
All          == ordinary \o generated
Called(name) == {i \in DOMAIN All : All[i].name = name /\ All[i].kind = "fun"}
OmittedBare(use) ==   \* mutant: concrete_funcs without the instances
    IF use.form # "call" \/ {i \in Called(use.name) : i <= Len(ordinary)} = {} THEN <<>>
    ELSE LET i == Max(Called(use.name)) IN
         [n \in 1..(Len(All[i].defaults) - use.given) |-> <<i, use.given + n>>]
Omitted(use) ==   \* whose defaults request_omitted_defaults walks
    IF use.form # "call" \/ Called(use.name) = {} THEN <<>>
    ELSE LET i == Max(Called(use.name)) IN
         [n \in 1..(Len(All[i].defaults) - use.given) |-> <<i, use.given + n>>]
OmittedBy(d)     == FlattenSeq([i \in DOMAIN d.uses |-> Omitted(d.uses[i])])
WalkedDefaults(decls, from, places) ==   \* decls from position `from' of All on
    [i \in DOMAIN decls |->
        [decls[i] EXCEPT !.defaults = [k \in DOMAIN @ |-> IF <<from + i, k>> \in places THEN RewriteUses(@[k]) ELSE @[k]]]]

WalkDefaults ==
    /\ phase = "defaults" /\ at <= limit /\ ~Cut
    /\ LET places == OmittedBy(All[at])
           uses(n) == All[places[n][1]].defaults[places[n][2]]
           g == Grants(FlattenSeq([n \in DOMAIN places |-> AskedByUses(templates, uses(n))]))
       IN  IF \E n \in DOMAIN places : WrongUses(uses(n)) THEN Raise
           ELSE
              /\ made' = g.made
              /\ ordinary' = WalkedDefaults(ordinary, 0, ToSet(places))
              /\ generated' = WalkedDefaults(g.generated, Len(ordinary), ToSet(places))
              /\ at' = at + 1 /\ UNCHANGED phase /\ Keep

(* The ends of the three loops and of `while changed'.                     *)
NextLoopOnce ==   \* mutant: the walk of the defaults is not followed by another
    \/ /\ phase = "ordinary" /\ at > Len(ordinary)
       /\ phase' = "generated" /\ at' = 1 /\ UNCHANGED <<program, ordinary, generated, made, before, limit>>
    \/ /\ phase = "generated" /\ at > Len(generated)
       /\ phase' = "defaults" /\ at' = 1 /\ limit' = Len(All)
       /\ UNCHANGED <<program, ordinary, generated, made, before>>
    \/ /\ phase = "defaults" /\ at > limit
       /\ phase' = "done" /\ before' = Len(generated) /\ at' = 1
       /\ UNCHANGED <<program, ordinary, generated, made, limit>>
NextLoop ==
    \/ /\ phase = "ordinary" /\ at > Len(ordinary)
       /\ phase' = "generated" /\ at' = 1 /\ UNCHANGED <<program, ordinary, generated, made, before, limit>>
    \/ /\ phase = "generated" /\ at > Len(generated)
       /\ phase' = "defaults" /\ at' = 1 /\ limit' = Len(All)
       /\ UNCHANGED <<program, ordinary, generated, made, before>>
    \/ /\ phase = "defaults" /\ at > limit
       /\ phase' = (IF Len(generated) # before THEN "ordinary" ELSE "done")
       /\ before' = Len(generated) /\ at' = 1
       /\ UNCHANGED <<program, ordinary, generated, made, limit>>

MonoNext == WalkOrdinary \/ WalkGenerated \/ WalkDefaults \/ NextLoop

-----------------------------------------------------------------------------
(* What a set of declarations asks for, in the types of the source: the    *)
(* type applications it shows, outside of function types, and the defaults *)
(* its calls omit.                                                         *)
RECURSIVE Shown(_)
Shown(t) ==
    IF t.form = "fn" THEN {}
    ELSE UNION {Shown(t.args[i]) : i \in DOMAIN t.args}
         \cup (IF t.form = "generic" /\ t.name # "map" THEN {Request(t.name, t.args)} ELSE {})
ShownIn(types) == UNION {Shown(types[i]) : i \in DOMAIN types}
UsesOf(d, deep) == ToSet(d.uses) \cup (IF deep THEN UNION {ToSet(d.defaults[i]) : i \in DOMAIN d.defaults} ELSE {})
DefaultUses(use) ==
    IF use.form # "call" \/ ~Requests(templates, use) \/ Refused(use, "fun") THEN {}
    ELSE LET d == templates[use.name] IN
         UNION {ToSet(Instantiated(d, d.name, use.args).defaults[i]) : i \in (use.given + 1)..Len(d.defaults)}
Asks(decls, deep) ==
    LET bodies == UNION {UsesOf(d, deep) : d \in decls}
        uses   == bodies \cup UNION {DefaultUses(u) : u \in bodies}
        all    == UNION {ShownIn(d.types) : d \in decls}
                  \cup UNION {ShownIn(u.args) : u \in {v \in uses : v.form = "index" => Requests(templates, v)}}
                  \cup {Request(u.name, u.args) : u \in {v \in uses : Requests(templates, v)}}
    IN  {r \in all : ~Refused(r, "struct") \/ ~Refused(r, "fun")}
Sources(S) ==   \* the declarations that the requests S make
    {Instantiated(templates[r.name], r.name, r.args) : r \in {q \in S : ~CanErase(templates[q.name])}}
RECURSIVE Closure(_)
Closure(S) ==
    LET more == Asks(ToSet(program.ordinary), TRUE) \cup Asks(Sources(S), FALSE)
    IN  IF more \subseteq S THEN S ELSE Closure(S \cup more)

(* Types written with instance names throughout, in function types too:    *)
(* there an argument may come by its name or as it was written.            *)
RECURSIVE Renamed(_)
Renamed(t) ==
    LET args == Each(Renamed, t.args) IN
    IF t.form = "generic" /\ t.name # "map" THEN Named(Instance(t.name, args)) ELSE [t EXCEPT !.args = args]
AllRenamed(requests) == {Request(r.name, Each(Renamed, r.args)) : r \in requests}

(* Two instances with the same mangled name: the program is refused later, *)
(* a call that omits defaults is served those of the wrong instance.       *)
Collides ==
    LET kept == {r \in made : ~CanErase(templates[r.name])} IN
    \E r, q \in kept : r # q /\ Instance(r.name, r.args) = Instance(q.name, q.args)

(* A call in a default, as the body of an anonymous function may have one, *)
(* omits a default that no other call does: it is left as it was written.  *)
Clean(d, deep) == Asks({d}, deep) = {}
Untouched(place) ==
    LET uses == All[place[1]].defaults[place[2]]
    IN  WrongUses(uses) \/ ~Clean(Decl("", "fun", <<>>, <<>>, uses, <<>>, Shape(0, FALSE)), FALSE)
LeftOut ==
    \E i \in DOMAIN All : \E k \in DOMAIN All[i].defaults : \E use \in ToSet(All[i].defaults[k]) :
        \E place \in ToSet(Omitted(use)) : Untouched(place)

(* What a declaration of the source asks for, and an instance, by the      *)
(* request it was made for: the loops are those of Instantiation.          *)
SourceOf(T, x) ==
    IF "kind" \in DOMAIN x THEN x
    ELSE IF CanErase(T[x.name]) THEN Erased(T[x.name]) ELSE Instantiated(T[x.name], x.name, x.args)
MadeOnce(T, requests) ==   \* an erased function is one for all arguments
    {IF CanErase(T[r.name]) THEN Request(r.name, <<>>) ELSE r : r \in ToSet(requests)}
AsksOf(T, x) == MadeOnce(T, AskedBy(T, SourceOf(T, x), "kind" \in DOMAIN x))
OmitsOf(T, x) ==
    LET calls == {u \in ToSet(SourceOf(T, x).uses) : u.form = "call" /\ Requests(T, u)}
        source(u) == SourceOf(T, Request(u.name, Each(RewriteType, u.args)))
    IN  UNION {UNION {MadeOnce(T, AskedByUses(T, source(u).defaults[i])) : i \in (u.given + 1)..Len(source(u).defaults)} :
                   u \in calls}

MadeFor(d) == Request(d.origin, d.args)
Loops ==
    INSTANCE Instantiation WITH
        ordinary <- program.ordinary, generated <- [i \in DOMAIN generated |-> MadeFor(generated[i])],
        Asks <- AsksOf, Omits <- OmitsOf

(* generics.py:388-400: what is asked for through rewritten names, copies  *)
(* and lists that change while they are walked is what the declarations of *)
(* the source ask for, so the walk is that of Instantiation.               *)
ImplementsInstantiation == (phase = "ordinary" => Loops!Init) /\ [][Loops!Next \/ Collides]_(Loops!vars)

(* generics.py:117-402: when it is done, the instances are those that the  *)
(* program needs, each made once, and no use of a template is left but in  *)
(* function types and in defaults that no call omits; but for instances of *)
(* one name, and for a default that is omitted only in another.            *)
InstancesExact ==
    phase = "done" /\ ~Collides /\ ~LeftOut =>
        /\ AllRenamed(made) = AllRenamed(Closure({}))
        /\ LET names(erased) == {r \in made : CanErase(templates[r.name]) = erased} IN
           Len(generated) = Cardinality(names(FALSE)) + Cardinality({r.name : r \in names(TRUE)})
        /\ \A i \in DOMAIN ordinary : Clean(ordinary[i], TRUE)
        /\ \A i \in DOMAIN generated : Clean(generated[i], FALSE)
        /\ \A i \in DOMAIN All : \A place \in ToSet(OmittedBy(All[i])) : ~Untouched(place)

(* generics.py:231-361: a program is refused exactly if a declaration it   *)
(* needs misuses a template.                                               *)
Misused(S) ==
    \/ \E d \in ToSet(program.ordinary) : Wrong(d, TRUE) \/ \E u \in UsesOf(d, TRUE) : \E v \in DefaultUses(u) : WrongUse(v)
    \/ \E d \in Sources(S) : Wrong(d, FALSE) \/ \E u \in UsesOf(d, FALSE) : \E v \in DefaultUses(u) : WrongUse(v)
RefusalsExact ==
    /\ phase = "done" /\ ~Collides /\ ~LeftOut => ~Misused(Closure({}))
    /\ phase = "error" => Misused(made)

(* The flow of type parameters: from one of a template into an argument of *)
(* what the template asks for; it grows if the argument is more than it.   *)
RECURSIVE Occurs(_, _)
Occurs(name, t) == t = Named(name) \/ \E i \in DOMAIN t.args : Occurs(name, t.args[i])
RECURSIVE Needed(_)
Needed(names) ==   \* the templates that are instantiated at all
    LET walked == {templates[n] : n \in {m \in names : ~CanErase(templates[m])}}
        more == {r.name : r \in Asks(ToSet(program.ordinary), TRUE) \cup Asks(walked, FALSE)}
    IN  IF more \subseteq names THEN names ELSE Needed(names \cup more)
FlowsOf(name) ==
    LET d == templates[name]
        ends(r) == {<<i, j>> \in (DOMAIN d.typeParams) \X (DOMAIN r.args) : Occurs(d.typeParams[i], r.args[j])}
    IN  UNION {{[from |-> <<name, e[1]>>, to |-> <<r.name, e[2]>>, grows |-> r.args[e[2]] # Named(d.typeParams[e[1]])] :
                    e \in ends(r)} : r \in Asks({d}, FALSE)}
RECURSIVE Onwards(_, _)
Onwards(flows, S) ==
    LET more == {f.to : f \in {g \in flows : g.from \in S}}
    IN  IF more \subseteq S THEN S ELSE Onwards(flows, S \cup more)
Expansive ==
    LET flows == UNION {FlowsOf(n) : n \in {m \in Needed({}) : ~CanErase(templates[m])}}
    IN  \E f \in flows : f.grows /\ f.from \in Onwards(flows, {f.to})

(* generics.py:391-400: the instances are finitely many, but for programs  *)
(* in which a type parameter flows back to itself in a larger type: these  *)
(* never get done.                                                         *)
EndsExactly == (Cut => Expansive \/ Collides) /\ (phase = "done" => ~Expansive)

(* erase_generics.py, llvm_codegen.py:1352-1384: what an erased call runs: *)
(* the descriptor of its type arguments, made for the first call with the  *)
(* same mangled types, has a comparison only if that call's function has.  *)
ErasedCalls ==
    SelectSeq(FlattenSeq([i \in DOMAIN All |-> All[i].uses]), LAMBDA use : use.erased # <<>>)
Function(use) == All[Max(Called(use.name))]
DescriptorNameByFunction(use) == use.name   \* mutant: one descriptor for each function
DescriptorName(use) == Text([i \in DOMAIN use.erased |-> Text(Words(use.erased[i]), "_")], "_")
Descriptor(k) ==
    LET first == ErasedCalls[Min({j \in 1..k : DescriptorName(ErasedCalls[j]) = DescriptorName(ErasedCalls[k])})]
    IN  [type |-> first.erased[1], lt |-> Function(first).shape.least]
Agrees(k) ==
    LET f == Function(ErasedCalls[k])
        body == templates[f.origin].shape
    IN  /\ f.shape = body
        /\ body.least => Descriptor(k).lt /\ Descriptor(k).type = ErasedCalls[k].erased[1]
(* llvm_codegen.py:1285-1384: an erased call does what the body of its     *)
(* template says, unless it is to return a parameter but the first, or     *)
(* compares with the descriptor of an earlier call that did not compare or *)
(* had another type, of the same words.                                    *)
Alike(use, other) == Each(Words, use.erased) = Each(Words, other.erased)
Spoils(j, k) ==
    /\ Alike(ErasedCalls[j], ErasedCalls[k])
    /\ Function(ErasedCalls[j]).shape.returns # 0 \/ ErasedCalls[j].erased # ErasedCalls[k].erased
ErasedCallsExact ==
    phase = "done" =>
        \A k \in DOMAIN ErasedCalls :
            LET body == templates[Function(ErasedCalls[k]).origin].shape IN
            ~Agrees(k) => body.returns > 1 \/ (body.least /\ \E j \in 1..(k - 1) : Spoils(j, k))

(* docs/generics-implementation.md:32, llvm_codegen.py:1352: descriptors   *)
(* are shared by all functions, so each should serve those that compare.   *)
DescriptorServes ==
    phase = "done" => \A k \in DOMAIN ErasedCalls : Function(ErasedCalls[k]).shape.least => Descriptor(k).lt
===============================================================================
