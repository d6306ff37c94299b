-------------------------------- MODULE Checker --------------------------------
(***************************************************************************)
(* The checks of function bodies (compiler/typecheck.py with symtab.py):   *)
(* names, types, fallible calls, and the results of functions that state   *)
(* none, which are inferred where they are first needed - in the state the *)
(* checker is in there.  A type is a string; a declaration's body is a     *)
(* tree of statements and expressions.                                     *)
(***************************************************************************)
EXTENDS Naturals, Sequences, FiniteSets, SequencesExt, TLC

(* `more' is a let's annotation or the name of a try's error.              *)
Tree(op, name, more, kids) == [op |-> op, name |-> name, more |-> more, kids |-> kids]
(* `result' is "" where it is to be inferred, `marked' tells of an `err'.  *)
Declared(name, params, result, marked, body) ==
    [name |-> name, params |-> params, result |-> result, marked |-> marked, body |-> body]

Nullable == "?p" :> "*p"          \* pointers that may be nil, and those that may not
Fun(result) == "fun " \o result   \* of a function without parameters
Result ==   \* what a function value may return here
    LET lift(S) == S \cup {Fun(t) : t \in S} IN lift(lift({"void", "i32", "str", "bool", "?p", "*p"}))
Unknown == "unknown"              \* None

(* is_assignable_type, without interfaces.                                 *)
Assignable(actual, expected) ==
    \/ actual = expected
    \/ actual = "str" /\ expected = "error"
    \/ expected \in DOMAIN Nullable /\ actual \in {"nil", Nullable[expected]}

-----------------------------------------------------------------------------
(* The checker's state.  `meant' is TRUE in the reference, where what a    *)
(* function is does not depend on where it is first called, and a name's   *)
(* narrowing or loop is its own.                                           *)
Start(decls, meant, fallible) ==
    LET names == {decls[i].name : i \in DOMAIN decls}
        Of(f) == decls[CHOOSE i \in DOMAIN decls : decls[i].name = f]
    IN  [decls     |-> [f \in names |-> Of(f)], meant |-> meant, ok |-> TRUE,
         given     |-> [f \in names |-> IF Of(f).result = "" THEN Unknown ELSE Of(f).result],
         fallible  |-> fallible, resolving |-> {}, scopes |-> <<[f \in names |-> "void"]>>,
         ret       |-> "void", values |-> <<>>, void |-> FALSE, callable |-> "",
         ops       |-> 0, defers |-> 0, loops |-> 0, narrowed |-> <<>>, closures |-> <<>>]

Refuse(c)            == [c EXCEPT !.ok = FALSE]
Require(c, test)     == IF test THEN c ELSE Refuse(c)
Fits(c, actual, expected) == Require(c, Assignable(actual, expected))

Known(c, x)   == \E i \in DOMAIN c.scopes : x \in DOMAIN c.scopes[i]
LevelOf(c, x) == CHOOSE i \in DOMAIN c.scopes :
                     x \in DOMAIN c.scopes[i] /\ \A j \in (i + 1)..Len(c.scopes) : x \notin DOMAIN c.scopes[j]
Push(c, names)    == [c EXCEPT !.scopes = Append(@, names)]
Pop(c)            == [c EXCEPT !.scopes = Front(@)]
Declare(c, x, t)  ==
    IF x \in DOMAIN Last(c.scopes) THEN Refuse(c) ELSE [c EXCEPT !.scopes[Len(c.scopes)] = @ @@ (x :> t)]
Params(d)         == [x \in {d.params[i][1] : i \in DOMAIN d.params} |->
                         d.params[CHOOSE i \in DOMAIN d.params : d.params[i][1] = x][2]]

(* narrowed_read_stack and narrowed_assign_forbidden: names, not bindings. *)
Narrowings(c, x) ==
    {i \in DOMAIN c.narrowed : c.narrowed[i].name = x /\ (c.meant => c.narrowed[i].level = LevelOf(c, x))}
TypeOf(c, x) ==
    IF Narrowings(c, x) = {} THEN c.scopes[LevelOf(c, x)][x]
    ELSE c.narrowed[CHOOSE i \in Narrowings(c, x) : \A j \in Narrowings(c, x) : j <= i].type
Captured(c, x) == c.closures # <<>> /\ LevelOf(c, x) < Last(c.closures)

MarkFallible(c) ==   \* mark_current_fallible
    IF c.callable \in DOMAIN c.decls THEN [c EXCEPT !.fallible = @ \cup {c.callable}] ELSE Refuse(c)

(* What is put back after a body was walked for its results; the rest of   *)
(* the state is the caller's all along.                                    *)
RestoredButValues(c, after) ==   \* mutant: inferred_return_stack is not popped
    [after EXCEPT !.ret = c.ret, !.void = c.void, !.scopes = c.scopes, !.callable = c.callable]
Restored(c, after) ==
    [after EXCEPT !.ret = c.ret, !.values = c.values, !.void = c.void, !.scopes = c.scopes, !.callable = c.callable]

(* An expression's type, and whether it is a call of a fallible function.  *)
Typed(c, t) == [c |-> c, t |-> t, fallible |-> FALSE]
Merge(c, t, u) ==   \* merge_value_types
    IF u = "never" THEN Typed(c, t) ELSE IF t = "never" THEN Typed(c, u) ELSE Typed(Fits(c, u, t), t)

(* A function's result from those of its ret statements and its tail.      *)
Found(c, after, values) ==
    LET agree == \A i \in DOMAIN values : Assignable(values[i], values[1]) IN
    Typed(Require(Restored(c, after), values = <<>> \/ (agree /\ ~after.void)), IF values = <<>> THEN "void" ELSE values[1])
Inferred(c, r) ==
    Found(c, r.c, SelectSeq(r.c.values \o (IF r.t \in {"none", "void"} THEN <<>> ELSE <<r.t>>), LAMBDA t : t # "never"))
Settled(f, c, r) ==
    [(IF c.meant THEN [c EXCEPT !.given = r.c.given, !.fallible = r.c.fallible, !.ok = r.c.ok] ELSE r.c)
        EXCEPT !.given[f] = r.t, !.resolving = c.resolving]
Alone(c) ==   \* in no context
    [Start(<<>>, TRUE, c.fallible) EXCEPT !.decls = c.decls, !.given = c.given, !.resolving = c.resolving,
                                          !.scopes = <<c.scopes[1]>>]

(* walk_expr and walk_stmts: what stands for a statement has type "none",  *)
(* and a list of statements has that of its last one.                      *)
RECURSIVE Walk(_, _)
Stated(c)      == Typed(c, "none")
Stmts(kids, c) == FoldLeft(LAMBDA r, n : IF r.c.ok THEN Walk(n, r.c) ELSE r, Stated(c), kids)

(* walk_expr_outside_fallible_op; the operand of a fallible operation.     *)
Outside(n, c) == LET r == Walk(n, [c EXCEPT !.ops = 0]) IN [r EXCEPT !.c.ops = c.ops]
Handled(n, c) ==
    LET r == Walk(n, [c EXCEPT !.ops = @ + 1]) IN [r EXCEPT !.c = [Require(@, r.fallible) EXCEPT !.ops = c.ops]]

(* infer_return_from_body.                                                 *)
Infer(body, names, callable, c) ==
    Inferred(c, Stmts(body.kids,
        Push([c EXCEPT !.ret = Unknown, !.values = <<>>, !.void = FALSE, !.callable = callable], names)))

(* resolve_function_return.                                                *)
Resolve(f, c) ==
    IF c.given[f] # Unknown \/ ~c.ok THEN c
    ELSE IF f \in c.resolving THEN Refuse(c)
    ELSE Settled(f, c, Infer(c.decls[f].body, Params(c.decls[f]), f,
                             [(IF c.meant THEN Alone(c) ELSE c) EXCEPT !.resolving = @ \cup {f}]))

(* infer_block_value: with the names that are not nil in it.               *)
BlockValue(block, narrowed, c) ==
    LET r == Stmts(block.kids, Push([c EXCEPT !.narrowed = @ \o narrowed], <<>>)) IN
    Typed([Pop(r.c) EXCEPT !.narrowed = c.narrowed], IF r.t = "none" THEN "void" ELSE r.t)
Body(block, c) ==   \* of a loop
    LET r == Stmts(block.kids, [c EXCEPT !.loops = @ + 1]) IN [Pop(r.c) EXCEPT !.loops = @ - 1]

(* maybe_narrow_condition.                                                 *)
NarrowedBy(n, c) ==
    LET xs == {n.kids[i].name : i \in {j \in DOMAIN n.kids : n.kids[j].op = "var" /\ n.kids[3 - j].op = "nil"}} IN
    IF n.op # "!=" \/ xs = {} THEN <<>>
    ELSE LET x == CHOOSE y \in xs : TRUE IN
         IF TypeOf(c, x) \notin DOMAIN Nullable THEN <<>>
         ELSE <<[name |-> x, type |-> Nullable[TypeOf(c, x)], level |-> LevelOf(c, x)]>>

(* The body of a function: what it returns at its end must fit.            *)
Returns(kids, c) ==
    LET r == Stmts(kids, c) IN
    IF c.ret = "void" \/ r.t = "never" THEN r.c ELSE Require(r.c, r.t # "none" /\ Assignable(r.t, c.ret))

(* FunctionExpr: its body is walked once more if its result is inferred.   *)
Inside(c) == IF c.meant THEN [c EXCEPT !.loops = 0, !.defers = 0, !.ops = 0] ELSE c
Entered(c, result) ==
    Push([c EXCEPT !.ret = result, !.callable = "closure", !.closures = Append(@, Len(c.scopes) + 1)], <<>>)
Left(c, after, result) ==
    Typed([Pop(after) EXCEPT !.ret = c.ret, !.callable = c.callable, !.closures = c.closures,
                             !.loops = c.loops, !.defers = c.defers, !.ops = c.ops], Fun(result))
ClosureOf(n, c, inferred) ==
    Left(c, Returns(n.kids[1].kids, Entered(Inside(inferred.c), inferred.t)), inferred.t)
Closure(n, c) ==
    ClosureOf(n, c, IF n.name = "" THEN Infer(n.kids[1], <<>>, "closure", Inside(c)) ELSE Typed(c, n.name))

Leave(n, c) ==   \* Return and ErrReturn, as statements and as expressions
    LET r == IF n.kids = <<>> THEN Typed(c, "void") ELSE Walk(n.kids[1], c) IN
    IF n.op = "err" THEN Typed(MarkFallible(Require(r.c, c.defers = 0 /\ r.t \in {"error", "str"})), "never")
    ELSE IF n.kids = <<>>
    THEN Typed(IF c.ret = Unknown THEN [c EXCEPT !.void = TRUE] ELSE Require(c, c.ret = "void"), "never")
    ELSE Typed(IF r.c.ret = Unknown THEN [r.c EXCEPT !.values = Append(@, r.t)] ELSE Fits(r.c, r.t, r.c.ret), "never")

(* Identifier: a function as a value, or a variable.                       *)
FunctionValue(x, resolved) ==
    Typed(Require(resolved, x \notin resolved.fallible),
          IF resolved.decls[x].params = <<>> THEN Fun(resolved.given[x]) ELSE "other function")
Variable(x, c) ==
    IF ~Known(c, x) THEN Typed(Refuse(c), "void")
    ELSE IF LevelOf(c, x) = 1 THEN FunctionValue(x, Resolve(x, c))
    ELSE Typed(c, TypeOf(c, x))

(* FunctionCall: its arguments are outside of the fallible operation; it   *)
(* is that of a builtin, a function, or a variable that has one.           *)
Each(nodes, c) ==
    LET add(args, r) == [c |-> r.c, ts |-> Append(args.ts, r.t)] IN
    FoldLeft(LAMBDA args, n : add(args, Outside(n, args.c)), [c |-> c, ts |-> <<>>], nodes)
Applied(f, ts, resolved) ==
    LET params == resolved.decls[f].params
        fits   == Len(ts) = Len(params) /\ \A i \in DOMAIN params : Assignable(ts[i], params[i][2])
        unseen == f \in resolved.fallible /\ resolved.ops = 0
    IN  [Typed(Require(resolved, fits /\ ~unseen), resolved.given[f]) EXCEPT !.fallible = f \in resolved.fallible]
CallWith(args, f, c) ==
    LET results == {t \in Result : c.scopes[LevelOf(c, f)][f] = Fun(t)} IN
    IF ~args.c.ok THEN Typed(args.c, "void")
    ELSE IF f = "show" THEN Typed(Require(args.c, Len(args.ts) = 1), "void")
    ELSE IF f \in DOMAIN c.decls THEN Applied(f, args.ts, Resolve(f, args.c))
    ELSE IF ~Known(c, f) \/ args.ts # <<>> \/ results = {} THEN Typed(Refuse(args.c), "void")
    ELSE Typed(args.c, CHOOSE t \in results : TRUE)
Call(n, c) == CallWith(Each(n.kids, c), n.name, c)

(* Comparisons, without operators of structs.                              *)
Compare(n, c) ==
    LET a == Walk(n.kids[1], c)
        b == Walk(n.kids[2], a.c)
        other == IF a.t = "nil" THEN b.t ELSE a.t
    IN  Typed(Require(b.c, IF "nil" \in {a.t, b.t} THEN other \in DOMAIN Nullable
                           ELSE Assignable(b.t, a.t) /\ a.t \in {"i32", "str", "bool", "*p", "?p"}), "bool")

IfValue(n, c) ==
    LET cond  == Walk(n.kids[1], c)
        known == IF cond.c.ok /\ cond.t = "bool" THEN NarrowedBy(n.kids[1], cond.c) ELSE <<>>
        then  == BlockValue(n.kids[2], known, Require(cond.c, cond.t = "bool"))
        else  == IF Len(n.kids) = 3 THEN BlockValue(n.kids[3], <<>>, then.c) ELSE Typed(then.c, "void")
    IN  Merge(else.c, then.t, else.t)

Parts(nodes, c) ==   \* of an interpolated string
    LET printable(r) == Require(r.c, r.t \in {"i32", "str", "bool", "error"}) IN
    FoldLeft(LAMBDA before, n : printable(Walk(n, before)), c, nodes)
Arms(nodes, t, c) ==   \* of match?
    LET merge(a, r) == Merge(r.c, a.t, r.t) IN FoldLeft(LAMBDA a, n : merge(a, Walk(n, a.c)), Typed(c, t), nodes)

Let(n, c) ==
    LET value == Walk(n.kids[1], c)
        t     == IF n.more = "" THEN value.t ELSE n.more
    IN  Declare(Require(Fits(value.c, value.t, t), t \notin {"void", "nil", "never"}), n.name, t)

Assign(n, c) ==
    LET target == Variable(n.name, c)
        r == Walk(n.kids[1], Require(target.c, target.c.ok /\ Narrowings(c, n.name) = {} /\ ~Captured(c, n.name)))
    IN  Fits(r.c, r.t, target.t)

Try(n, c) ==   \* the name of the value is "" for none
    LET r    == Handled(n.kids[1], Require(c, n.kids[1].op = "call"))
        good == Stmts(n.kids[2].kids, Push(Require(r.c, (r.t = "void") = (n.name = "")),
                                           IF n.name = "" THEN <<>> ELSE n.name :> r.t))
    IN  Pop(Stmts(n.kids[3].kids, Push(Pop(good.c), n.more :> "error")).c)

ConditionLoop(n, c) ==
    LET r == Walk(n.kids[1], c) IN Body(n.kids[2], Push(Require(r.c, r.t = "bool"), <<>>))
RangeLoop(n, c) ==
    LET start == Walk(n.kids[1], c)
        end   == Walk(n.kids[2], start.c)
    IN  Body(n.kids[3], Push(Require(end.c, start.t = "i32" /\ end.t = "i32"), n.name :> "i32"))
Deferred(n, c) == [Stmts(n.kids[1].kids, [c EXCEPT !.defers = @ + 1]).c EXCEPT !.defers = c.defers]
Spawned(n, c) == Require(Walk(n.kids[1], c).c, n.kids[1].op = "closure")

(* FunctionDeclaration in walk_stmts.                                      *)
WalkedWith(resolved, d) ==
    LET left == Returns(d.body.kids, Push([resolved EXCEPT !.ret = resolved.given[d.name], !.callable = d.name], Params(d))) IN
    IF ~resolved.ok THEN resolved ELSE Restored(resolved, left)
Walked(f, c) == WalkedWith(Resolve(f, c), c.decls[f])

Walk(n, c) ==
    LET kid(i) == n.kids[i] IN
    CASE ~c.ok            -> Typed(c, "void")
      [] c.ok /\ n.op = "int"   -> Typed(c, "i32")
      [] c.ok /\ n.op = "nil"   -> Typed(c, "nil")
      [] c.ok /\ n.op = "text"  -> Typed(Parts(n.kids, c), "str")
      [] c.ok /\ n.op = "var"   -> Variable(n.name, c)
      [] c.ok /\ n.op = "call"  -> Call(n, c)
      [] c.ok /\ n.op \in {"!=", "=="}  -> Compare(n, c)
      [] c.ok /\ n.op \in {"ret", "err"} -> Leave(n, c)
      [] c.ok /\ n.op = "closure" -> Closure(n, c)
      [] c.ok /\ n.op = "block" -> BlockValue(n, <<>>, c)
      [] c.ok /\ n.op = "if"    -> IfValue(n, c)
      [] c.ok /\ n.op = "field" ->
            LET r == Walk(kid(1), c) IN Typed(Require(r.c, r.t = "*p"), "i32")
      [] c.ok /\ n.op = "??" ->
            LET r == Handled(kid(1), Require(c, c.defers = 0)) IN Typed(MarkFallible(r.c), r.t)
      [] c.ok /\ n.op = "!!" -> LET r == Handled(kid(1), c) IN Typed(r.c, r.t)
      [] c.ok /\ n.op = "err?" ->
            LET r == Handled(kid(1), c)
                h == BlockValue(kid(2), <<>>, Push(r.c, n.name :> "error"))
            IN  Merge(Pop(h.c), r.t, h.t)
      [] c.ok /\ n.op = "match?" ->
            LET r == Handled(kid(1), c)
                a == Arms(Tail(n.kids), r.t, Push(r.c, n.name :> "error"))
            IN  Typed(Pop(a.c), a.t)
      [] c.ok /\ n.op = "let"   -> Stated(Let(n, c))
      [] c.ok /\ n.op = "set"   -> Stated(Assign(n, c))
      [] c.ok /\ n.op = "try"   -> Stated(Try(n, c))
      [] c.ok /\ n.op = "for"   -> Stated(ConditionLoop(n, c))
      [] c.ok /\ n.op = "range" -> Stated(RangeLoop(n, c))
      [] c.ok /\ n.op = "defer" -> Stated(Deferred(n, c))
      [] c.ok /\ n.op = "spawn" -> Stated(Spawned(n, c))
      [] c.ok /\ n.op = "break" -> Stated(Require(c, c.loops > 0))
      [] c.ok /\ n.op = "result"   -> Stated(Resolve(n.name, c))
      [] c.ok /\ n.op = "function" -> Stated(Walked(n.name, c))

-----------------------------------------------------------------------------
(* mark_direct_fallible: it does not look at the call of a try or of a     *)
(* handler, into an interpolated string, a loop's condition or bounds.     *)
RECURSIVE Direct(_)
Direct(n) ==
    LET among(S) == \E i \in S : Direct(n.kids[i]) IN
    CASE n.op \in {"err", "??"} -> TRUE
      [] n.op \in {"closure", "text", "spawn", "break"} -> FALSE
      [] n.op \in {"for", "try", "err?", "match?"} -> among(2..Len(n.kids))
      [] n.op = "range" -> Direct(n.kids[3])
      [] OTHER -> among(DOMAIN n.kids)

(* What is in a body, outside of its closures.                             *)
RECURSIVE Within(_)
Within(n) == {n} \cup (IF n.op = "closure" THEN {} ELSE UNION {Within(n.kids[i]) : i \in DOMAIN n.kids})
RECURSIVE AllIn(_)
AllIn(n)  == {n} \cup UNION {AllIn(n.kids[i]) : i \in DOMAIN n.kids}
Errs(d)   == \E n \in Within(d.body) : n.op \in {"err", "??"}

(* infer_types: all results first, then all bodies.                        *)
Checked(decls, meant) ==
    LET fallible == {decls[i].name : i \in {j \in DOMAIN decls : IF meant THEN Errs(decls[j]) ELSE Direct(decls[j].body)}}
        marked   == {decls[i].name : i \in {j \in DOMAIN decls : decls[j].marked}}
        each(op) == [i \in DOMAIN decls |-> Tree(op, decls[i].name, "", <<>>)]
    IN  Stmts(each("result") \o each("function"), Require(Start(decls, meant, fallible), marked \subseteq fallible)).c

-----------------------------------------------------------------------------
(* Where the code and what is meant part.  A fallible function that the    *)
(* first look misses is refused its mark, and, if it states its result, is *)
(* taken for another by those that are walked before it.                   *)
Mentions(n) == {m.name : m \in {k \in AllIn(n) : k.op \in {"call", "var"}}}
Late(decls) ==
    \E j \in DOMAIN decls :
        /\ Errs(decls[j]) # Direct(decls[j].body)
        /\ \/ decls[j].marked
           \/ /\ decls[j].result # ""
              /\ \E i \in DOMAIN decls : (i <= j \/ decls[i].result = "") /\ decls[j].name \in Mentions(decls[i].body)

(* A break that leaves its closure for a loop around it.                   *)
RECURSIVE Loose(_)
Loose(n) == n.op = "break" \/ (n.op \notin {"for", "range", "closure"} /\ \E i \in DOMAIN n.kids : Loose(n.kids[i]))
StrayBreak(decls) ==
    \E i \in DOMAIN decls : \E n \in AllIn(decls[i].body) : n.op = "closure" /\ Loose(n.kids[1])

(* A name declared again in the block in which it is known not to be nil.  *)
Names(n) ==
    CASE n.op = "try" -> {n.name, n.more} [] n.op \in {"let", "range", "err?", "match?"} -> {n.name} [] OTHER -> {}
Tested(n) == IF n.op # "if" \/ n.kids[1].op # "!=" THEN {} ELSE {n.kids[1].kids[i].name : i \in {1, 2}} \ {""}
Rebinds(decls) ==
    \E i \in DOMAIN decls : \E n \in AllIn(decls[i].body) :
        \E m \in (IF Tested(n) = {} THEN {} ELSE AllIn(n.kids[2])) : Names(m) \cap Tested(n) # {}

(* A function inferred under a defer, a narrowing or a local of the name   *)
(* of a function, since it is declared further down.                       *)
Ahead(decls, i, n) == \E j \in DOMAIN decls : j > i /\ decls[j].result = "" /\ decls[j].name \in Mentions(n)
Leaks(decls) ==
    \E i \in DOMAIN decls :
        \/ \E n \in AllIn(decls[i].body) : (n.op = "defer" \/ Tested(n) # {}) /\ Ahead(decls, i, n)
        \/ /\ Ahead(decls, i, decls[i].body)
           /\ \E n \in AllIn(decls[i].body) : Names(n) \cap {decls[j].name : j \in DOMAIN decls} # {}

(* typecheck.py:230-1749: a program is accepted, with the results it       *)
(* should have, exactly if it is right in whatever order its functions     *)
(* stand, but for breaks that leave closures, names that are declared      *)
(* again where they are narrowed, functions that are found fallible late,  *)
(* and functions inferred where the state of their caller gets in the way. *)
CheckedFaithful(decls) ==
    LET agree(code, meant) ==
            /\ code.ok => (meant.ok /\ code.given = meant.given) \/ Late(decls) \/ StrayBreak(decls) \/ Rebinds(decls)
            /\ meant.ok => code.ok \/ Late(decls) \/ Rebinds(decls) \/ Leaks(decls)
        under(checked) == agree(checked[FALSE], checked[TRUE])
    IN  under([meant \in BOOLEAN |-> Checked(decls, meant)])

===============================================================================
