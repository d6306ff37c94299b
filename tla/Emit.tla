---------------------------------- MODULE Emit ----------------------------------
(***************************************************************************)
(* From a checked function body to basic blocks (emit_stmt, emit_expr and  *)
(* what they call in compiler/llvm_codegen.py, llvm_control_expr.py,       *)
(* llvm_loop.py, llvm_function.py): branches, loops, error handling,       *)
(* deferred statements and the slots that names stand for.  Values are     *)
(* numbers; calls are `show', `ask' and one that may fail.                 *)
(*                                                                         *)
(* A function is [kind, value, body]: main, plain or fallible; whether it  *)
(* returns a value; a block.                                               *)
(***************************************************************************)
EXTENDS Naturals, Sequences, FiniteSets, SequencesExt

Node(op, datum, kids) == [op |-> op, datum |-> datum, kids |-> kids]

Statement == {"let", "set", "for", "range", "each", "ret", "err", "try", "defer", "break", "spawn"}
IsExpr(n) == n.op \notin Statement

-----------------------------------------------------------------------------
(* The code being built: its blocks, the one that grows, the slots names   *)
(* stand for, the deferred bodies so far, the ends of the open loops; a    *)
(* slot or register is named by `next'; `failed' if the compiler raised.   *)
Builder(f, closures) ==
    [code |-> <<<<>>>>, at |-> 1, vars |-> <<>>, sites |-> <<>>, breaks |-> <<>>, deferring |-> FALSE,
     next |-> 1, result |-> 0, kind |-> f.kind, value |-> f.value, closures |-> closures, failed |-> FALSE]

Terminator == {"goto", "if", "return", "exit", "unreachable"}
IsTerminated(b) == \E i \in DOMAIN b.code[b.at] : b.code[b.at][i][1] \in Terminator

(* A builder with one more instruction; terminating a block twice raises.  *)
Put(b, instr) ==
    IF instr[1] \in Terminator /\ IsTerminated(b) THEN [b EXCEPT !.failed = TRUE]
    ELSE [b EXCEPT !.code[b.at] = Append(@, instr)]
Fails(b)      == [b EXCEPT !.failed = TRUE]
Blocks(b, n)  == [b EXCEPT !.code = @ \o [i \in 1..n |-> <<>>]]
At(b, k)      == [b EXCEPT !.at = k]
Join(b, k)    == IF IsTerminated(b) THEN b ELSE Put(b, <<"goto", k>>)
Scoped(b, old) == [b EXCEPT !.vars = old.vars]

(* A value: a builder with the operand that holds it.                      *)
Num(n)        == <<"int", n>>
Unit          == Num(0)
NoValue       == <<"none">>
Else          == 0          \* the pattern of the last arm of a match
Value(b, v)   == [b |-> b, v |-> v]
Result(b, op, args) == Value(Put([b EXCEPT !.next = @ + 1], <<op, b.next>> \o args), <<"reg", b.next>>)

Bind(b, name, slot) == [b EXCEPT !.vars = [n \in DOMAIN b.vars \cup {name} |-> IF n = name THEN slot ELSE b.vars[n]]]
NewSlot(b)          == Put([b EXCEPT !.next = @ + 1], <<"slot", b.next>>)
Declare(b, name)    == Bind(NewSlot(b), name, b.next)
Store(b, slot, v)   == Put(b, <<"store", slot, v>>)
Load(b, slot)       == Result(b, "load", <<slot>>)
Lookup(b, name)     == IF name \in DOMAIN b.vars THEN b.vars[name] ELSE 0

RECURSIVE Emit(_, _)    \* emit_stmt and emit_expr

(* emit_block stops behind a terminator, emit_block_value does not.        *)
EmitBlock(b, stmts) == FoldLeft(LAMBDA c, n : IF IsTerminated(c) THEN c ELSE Emit(c, n).b, b, stmts)
EmitBlockValue(b, stmts) == FoldLeft(LAMBDA v, n : Emit(v.b, n), Value(b, Unit), stmts)

Incoming(values) == [i \in DOMAIN values |-> <<values[i].v, values[i].b.at>>]
Continuing(values) == SelectSeq(values, LAMBDA x : ~IsTerminated(x.b))
Merged(b, values) ==
    IF values = <<>> THEN Value(Put(b, <<"unreachable">>), Unit)
    ELSE Result(b, "phi", <<Incoming(values)>>)

-----------------------------------------------------------------------------
(* emit_defer records the statement; emit_deferred is emitted at every     *)
(* exit: a loop that pops the record and dispatches to the statements      *)
(* emitted so far, with the names of this exit.                            *)
EmitDefer(b, body) ==
    IF b.deferring THEN EmitBlock(b, body)
    ELSE Put([b EXCEPT !.sites = Append(@, body)], <<"push", Len(b.sites) + 1>>)

AfterSiteOnce(b, cond, end) == Put(b, <<"goto", end>>)   \* mutant: one statement runs, the others are lost
AfterSite(b, cond, end) == Put(b, <<"goto", cond>>)

EmitSite(b, site, popped, after) ==
    LET k    == Len(b.code)
        test == Result(b, "equal", <<popped, Num(site)>>)
        body == At(Put(Blocks(test.b, 2), <<"if", test.v, k + 1, k + 2>>), k + 1)
    IN  At(Join(EmitBlock(body, b.sites[site]), after), k + 2)

EmitDeferred(b) ==
    LET k      == Len(b.code)
        loop   == At(Put(Blocks(b, 3), <<"goto", k + 1>>), k + 1)
        test   == Result(loop, "pending", <<>>)
        inside == At(Put(test.b, <<"if", test.v, k + 2, k + 3>>), k + 2)
        popped == Result(inside, "pop", <<>>)
        sites  == FoldLeft(LAMBDA c, site : EmitSite(c, site, popped.v, k + 4),
                           [Blocks(popped.b, 1) EXCEPT !.deferring = TRUE], [i \in DOMAIN b.sites |-> i])
        again  == AfterSite(At([Join(sites, k + 4) EXCEPT !.deferring = FALSE], k + 4), k + 1, k + 3)
    IN  IF b.deferring THEN b ELSE At(again, k + 3)

EmitSuccessReturn(b) == Put(EmitDeferred(b), <<"return", 0, b.result>>)
(* emit_error_return_value: main prints the error and returns 1.           *)
EmitErrorReturn(b) ==
    Put(EmitDeferred(b), IF b.kind = "plain" THEN <<"exit">> ELSE <<"return", 1, 0>>)

EmitReturn(b, kids) ==
    LET v == Emit(b, kids[1]) IN
    IF kids = <<>> THEN EmitSuccessReturn(b)
    ELSE EmitSuccessReturn(IF b.result # 0 THEN Store(v.b, b.result, v.v) ELSE v.b)

-----------------------------------------------------------------------------
(* A fallible call and what handles its error: its status is tested, the   *)
(* value or the error is in a slot.                                        *)
FallibleCall(b) ==
    LET slots == NewSlot(NewSlot(b))
        call  == Result(slots, "call", <<b.next, b.next + 1>>)
    IN  [b |-> call.b, status |-> call.v, value |-> b.next, error |-> b.next + 1]

EmitFallibleOp(b, n) ==
    LET k    == Len(b.code)
        call == FallibleCall(b)
        err  == At(Put(Blocks(call.b, 2), <<"if", call.status, k + 1, k + 2>>), k + 1)
        left == IF n.op = "??" THEN EmitErrorReturn(err) ELSE Put(err, <<"exit">>)
    IN  Load(At(left, k + 2), call.value)

BindError(b, name, error) ==
    LET v == Load(b, error)
        d == Declare(v.b, name)
    IN  Store(d, v.b.next, v.v)

EmitTry(b, n) ==
    LET k      == Len(b.code)
        call   == FallibleCall(b)
        forked == Put(Blocks(call.b, 3), <<"if", call.status, k + 1, k + 2>>)
        err    == BindError(At(forked, k + 1), n.datum[2], call.error)
        failed == IF Len(n.kids) = 1 THEN Put(At(forked, k + 1), <<"exit">>)
                  ELSE Join(EmitBlock(err, n.kids[2].kids), k + 3)
        ok     == BindError(At(Scoped(failed, b), k + 2), n.datum[1], call.value)
    IN  At(Scoped(Join(EmitBlock(ok, n.kids[1].kids), k + 3), b), k + 3)

(* The arms of a match, the last of them else: each tests its pattern,     *)
(* which an error's message is by a call, and falls through to the next.   *)
EmitArm(all, scrutinee, arm, end) ==
    LET b    == all.b
        k    == Len(b.code)
        test == IF scrutinee = NoValue THEN Result(Blocks(b, 2), "ask", <<>>)
                ELSE Result(Blocks(b, 2), "equal", <<scrutinee, Num(arm.datum)>>)
        fork == IF arm.datum = Else THEN Put(Blocks(b, 2), <<"goto", k + 1>>)
                ELSE Put(test.b, <<"if", test.v, k + 1, k + 2>>)
        body == Emit(At(fork, k + 1), arm.kids[1])
    IN  [b |-> At(Join(body.b, end), k + 2), values |-> all.values \o Continuing(<<body>>)]
EmitArms(b, scrutinee, arms, end) ==
    LET all == FoldLeft(LAMBDA done, arm : EmitArm(done, scrutinee, arm, end), [b |-> b, values |-> <<>>], arms)
    IN  [all EXCEPT !.b = Put(@, <<"unreachable">>)]

(* err? with a block, match? with arms: the handler's value or the call's. *)
EmitHandler(b, n) ==
    LET k       == Len(b.code)
        call    == FallibleCall(b)
        err     == BindError(At(Put(Blocks(call.b, 3), <<"if", call.status, k + 1, k + 2>>), k + 1),
                             n.datum, call.error)
        handled == IF n.op = "err?"
                   THEN LET v == EmitBlockValue(err, n.kids[1].kids) IN
                        [b |-> Join(v.b, k + 3), values |-> Continuing(<<v>>)]
                   ELSE EmitArms(err, NoValue, n.kids, k + 3)
        ok      == Load(At(Scoped(handled.b, b), k + 2), call.value)
    IN  Merged(At(Scoped(Join(ok.b, k + 3), b), k + 3), Append(handled.values, ok))

EmitMatch(b, n) ==
    LET subject == Emit(b, n.kids[1])
        end     == Len(subject.b.code) + 1
        arms    == EmitArms(Blocks(subject.b, 1), subject.v, Tail(n.kids), end)
    IN  Merged(At(arms.b, end), arms.values)

EmitIf(b, n) ==
    LET c    == Emit(b, n.kids[1])
        k    == Len(c.b.code)
        then == EmitBlockValue(At(Put(Blocks(c.b, 3), <<"if", c.v, k + 1, k + 2>>), k + 1), n.kids[2].kids)
        next == At(Join(then.b, k + 3), k + 2)
        else == IF Len(n.kids) = 2 THEN Value(next, Unit) ELSE EmitBlockValue(next, n.kids[3].kids)
    IN  Merged(At(Join(else.b, k + 3), k + 3), Continuing(<<then, else>>))

-----------------------------------------------------------------------------
(* Loops.  The names of a loop over a slice or map are undone behind it,   *)
(* those of the other loops stay.                                          *)
EmitBody(b, end, body) ==
    [EmitBlock([b EXCEPT !.breaks = Append(@, end)], body.kids) EXCEPT !.breaks = b.breaks]

EmitFor(b, n) ==
    LET k    == Len(b.code)
        test == Emit(At(Put(Blocks(b, 3), <<"goto", k + 1>>), k + 1), n.kids[1])
        body == EmitBody(At(Put(test.b, <<"if", test.v, k + 2, k + 3>>), k + 2), k + 3, n.kids[2])
    IN  At(Join(body, k + 1), k + 3)

(* A counter from `start' to `end'; the slot `item', unless it is 0, gets   *)
(* the counter's element of `end' before each round.                       *)
Counting(b, counter, start, end, item, body) ==
    LET k      == Len(b.code)
        test   == Load(At(Put(Blocks(Store(b, counter, start), 3), <<"goto", k + 1>>), k + 1), counter)
        less   == Result(test.b, "less", <<test.v, end>>)
        inside == At(Put(less.b, <<"if", less.v, k + 2, k + 3>>), k + 2)
        elem   == Result(inside, "item", <<end, test.v>>)
        round  == EmitBody(IF item = 0 THEN inside ELSE Store(elem.b, item, elem.v), k + 3, body)
        old    == Load(round, counter)
        sum    == Result(old.b, "add", <<old.v, Num(1)>>)
        again  == Put(Store(sum.b, counter, sum.v), <<"goto", k + 1>>)
    IN  At(IF IsTerminated(round) THEN round ELSE again, k + 3)

EmitRange(b, n) ==
    LET named == Declare(b, n.datum)
        start == Emit(named, n.kids[1])
        end   == Emit(start.b, n.kids[2])
    IN  Counting(end.b, b.next, start.v, end.v, 0, n.kids[3])

EmitEach(b, n) ==
    LET named == Declare(Declare(b, n.datum[1]), n.datum[2])
        over  == Emit(named, n.kids[1])
    IN  Scoped(Counting(over.b, b.next, Num(0), over.v, b.next + 1, n.kids[2]), b)

-----------------------------------------------------------------------------
(* The name stands for its slot while its initializer is emitted.          *)
EmitLet(b, n) ==
    LET v == Emit(Declare(b, n.datum), n.kids[1]) IN Store(v.b, b.next, v.v)

EmitSet(b, n) ==
    LET v == Emit(b, n.kids[1]) IN
    IF Lookup(b, n.datum) = 0 THEN Fails(b) ELSE Store(v.b, b.vars[n.datum], v.v)

(* emit_function_expr and emit_spawn: the closure must have been collected.*)
EmitClosure(b, n) ==
    IF n.datum \in b.closures THEN Result(b, "closure", <<n.datum>>) ELSE Value(Fails(b), Unit)

(* emit_callable_body: a tail expression is the result, also behind code   *)
(* that never gets there.                                                  *)
EmitCallable(b, body) ==
    LET before == EmitBlockValue(b, Front(body)).b
        v      == Emit(before, Last(body))
        all    == EmitBlock(b, body)
        left   == EmitDeferred(all)
    IN  IF b.value /\ body # <<>> /\ IsExpr(Last(body))
        THEN IF IsTerminated(before) THEN before ELSE EmitSuccessReturn(Store(v.b, b.result, v.v))
        ELSE IF IsTerminated(all) THEN all
        ELSE IF b.value THEN Fails(all)
        ELSE IF b.kind = "main" THEN Put(left, <<"return", 0, 0>>) ELSE EmitSuccessReturn(left)

Done(b) == Value(b, Unit)
Emit(b, n) ==
    CASE n.op = "let"   -> Done(EmitLet(b, n))
      [] n.op = "set"   -> Done(EmitSet(b, n))
      [] n.op = "for"   -> Done(EmitFor(b, n))
      [] n.op = "range" -> Done(EmitRange(b, n))
      [] n.op = "each"  -> Done(EmitEach(b, n))
      [] n.op = "ret"   -> Done(EmitReturn(b, n.kids))
      [] n.op = "err"   -> Done(EmitErrorReturn(b))
      [] n.op = "try"   -> Done(EmitTry(b, n))
      [] n.op = "defer" -> Done(EmitDefer(b, n.kids[1].kids))
      [] n.op = "break" -> Done(IF b.breaks = <<>> THEN Fails(b) ELSE Put(b, <<"goto", Last(b.breaks)>>))
      [] n.op = "spawn" -> Done(EmitClosure(b, n.kids[1]).b)
      [] n.op = "fun"   -> EmitClosure(b, n)
      [] n.op = "int"   -> Value(b, Num(n.datum))
      [] n.op = "var"   -> IF Lookup(b, n.datum) = 0 THEN Done(Fails(b)) ELSE Load(b, b.vars[n.datum])
      [] n.op = "ask"   -> Result(b, "ask", <<>>)
      [] n.op = "show"  -> LET v == Emit(b, n.kids[1]) IN Done(Put(v.b, <<"show", v.v>>))
      [] n.op = "block" -> LET v == EmitBlockValue(b, n.kids) IN Value(Scoped(v.b, b), v.v)
      [] n.op = "if"    -> EmitIf(b, n)
      [] n.op = "match" -> EmitMatch(b, n)
      [] n.op \in {"??", "!!"}       -> EmitFallibleOp(b, n)
      [] n.op \in {"err?", "match?"} -> EmitHandler(b, n)
      [] n.op = "function" -> Done(EmitCallable(b, n.kids))

-----------------------------------------------------------------------------
(* _collect_llvm_inputs: the closures that are found.  One walk goes       *)
(* through the bodies of loops and deferred statements and finds spawns,   *)
(* the other goes through expressions but not into err? and match?.        *)
Loop == {"for", "range", "each"}
RECURSIVE InStatements(_), InNode(_)
InStatements(stmts) ==
    UNION {LET n == stmts[i] IN
           IF n.op \in Loop \cup {"defer"} THEN InStatements(Last(n.kids).kids)
           ELSE IF n.op = "spawn" THEN InStatements(n.kids[1].kids[1].kids) \cup InNode(n.kids[1])
           ELSE {} : i \in DOMAIN stmts}
InNode(n) ==
    IF n.op \in {"spawn", "err?", "match?"} THEN {}
    ELSE UNION {InNode(n.kids[i]) : i \in DOMAIN n.kids}
         \cup (IF n.op = "fun" THEN {n.datum} \cup InStatements(n.kids[1].kids) ELSE {})
Collected(f) == InStatements(f.body.kids) \cup InNode(f.body)

(* emit_function, with the slot of the result.                             *)
Compile(f) ==
    LET b == Builder(f, Collected(f)) IN
    Emit(IF f.value THEN [NewSlot(b) EXCEPT !.result = b.next] ELSE b, Node("function", "", f.body.kids)).b

=============================================================================
