--------------------------------- MODULE Meaning ---------------------------------
(***************************************************************************)
(* What a function body means: the names the checker resolves (symtab.py   *)
(* and the scopes of typecheck.py), the order of its effects, and that the *)
(* code Emit builds for it has the same ones.                              *)
(***************************************************************************)
EXTENDS Emit

-----------------------------------------------------------------------------
(* External: what LLVM makes of the code.  Its verifier wants every block  *)
(* to end in its only terminator, a use behind the definition on every     *)
(* path, and a phi with a value for each block that leads to it.           *)
Targets(instr) ==
    CASE instr[1] = "goto" -> {instr[2]} [] instr[1] = "if" -> {instr[3], instr[4]} [] OTHER -> {}
RECURSIVE Reach(_, _, _)
Reach(code, S, avoid) ==
    LET more == S \cup ((UNION {Targets(Last(code[k])) : k \in S}) \ {avoid}) IN
    IF more = S THEN S ELSE Reach(code, more, avoid)

Defines == {"slot", "load", "ask", "equal", "less", "add", "item", "pending", "pop", "closure", "phi", "call"}
Register(v) == IF v[1] = "reg" THEN {v[2]} ELSE {}
Uses(instr) ==
    CASE instr[1] = "store" -> {instr[2]} \cup Register(instr[3])
      [] instr[1] = "load"  -> {instr[3]}
      [] instr[1] = "call"  -> {instr[3], instr[4]}
      [] instr[1] \in {"equal", "less", "add", "item"} -> Register(instr[3]) \cup Register(instr[4])
      [] instr[1] \in {"show", "if"} -> Register(instr[2])
      [] instr[1] = "return" -> {instr[3]} \ {0}
      [] OTHER -> {}

Verified(b) ==
    LET code    == b.code
        reached == Reach(code, {1}, 0)
        without == [k \in DOMAIN code |-> IF k = 1 THEN {} ELSE Reach(code, {1}, k)]
        places  == UNION {{<<k, i>> : i \in DOMAIN code[k]} : k \in DOMAIN code}
        At_(pl) == code[pl[1]][pl[2]]
        def     == [name \in 1..b.next |-> {pl \in places : At_(pl)[1] \in Defines /\ At_(pl)[2] = name}]
        Before(name, k, i) ==
            \E pl \in def[name] : IF pl[1] = k THEN pl[2] < i ELSE k \notin without[pl[1]]
    IN  /\ ~b.failed
        /\ \A k \in DOMAIN code : code[k] # <<>> /\ \A i \in DOMAIN code[k] : code[k][i][1] \in Terminator <=> i = Len(code[k])
        /\ \A pl \in places : pl[1] \in reached =>
               /\ \A name \in Uses(At_(pl)) : Before(name, pl[1], pl[2])
               /\ At_(pl)[1] = "phi" =>
                      LET from == At_(pl)[3] IN
                      /\ {from[i][2] : i \in DOMAIN from} = {k \in DOMAIN code : pl[1] \in Targets(Last(code[k]))}
                      /\ \A i \in DOMAIN from : from[i][2] \in reached =>
                             \A name \in Register(from[i][1]) : Before(name, from[i][2], Len(code[from[i][2]]) + 1)

(* Running it: a machine with registers, slots, the stack of records, the  *)
(* answers still to come and what was shown.                               *)
Of(m, v)    == IF v[1] = "reg" THEN m.regs[v[2]] ELSE v[2]
Set(m, r, x) == [m EXCEPT !.regs[r] = x]
Truth(x)    == IF x THEN 1 ELSE 0
Answer(m)   == IF m.answers = <<>> THEN 0 ELSE Head(m.answers)
Asked(m)    == [m EXCEPT !.answers = IF @ = <<>> THEN @ ELSE Tail(@)]
Good        == 7    \* the value and the error of a fallible call
Wrong       == 9
Element(i)  == 4 + i

Executed(m, i) ==
    CASE i[1] = "store"   -> [m EXCEPT !.slots[i[2]] = Of(m, i[3])]
      [] i[1] = "load"    -> Set(m, i[2], m.slots[i[3]])
      [] i[1] = "ask"     -> Set(Asked(m), i[2], Answer(m))
      [] i[1] = "call"    -> [Set(Asked(m), i[2], Answer(m)) EXCEPT
                                 !.slots[IF Answer(m) = 1 THEN i[4] ELSE i[3]] = IF Answer(m) = 1 THEN Wrong ELSE Good]
      [] i[1] = "equal"   -> Set(m, i[2], Truth(Of(m, i[3]) = Of(m, i[4])))
      [] i[1] = "less"    -> Set(m, i[2], Truth(Of(m, i[3]) < Of(m, i[4])))
      [] i[1] = "add"     -> Set(m, i[2], Of(m, i[3]) + Of(m, i[4]))
      [] i[1] = "item"    -> Set(m, i[2], Element(Of(m, i[4])))
      [] i[1] = "show"    -> [m EXCEPT !.trace = Append(@, Of(m, i[2]))]
      [] i[1] = "push"    -> [m EXCEPT !.stack = Append(@, i[2])]
      [] i[1] = "pending" -> Set(m, i[2], Truth(m.stack # <<>>))
      [] i[1] = "pop"     -> [Set(m, i[2], Last(m.stack)) EXCEPT !.stack = Front(@)]
      [] i[1] = "phi"     -> Set(m, i[2], Of(m, SelectSeq(i[3], LAMBDA x : x[2] = m.from)[1][1]))
      [] OTHER            -> m

RECURSIVE Run(_, _, _, _)
Run(code, m, k, i) ==
    LET instr == code[k][i]
        next  == IF instr[1] = "goto" THEN instr[2] ELSE IF Of(m, instr[2]) = 1 THEN instr[3] ELSE instr[4]
        out   == IF instr[1] = "return" THEN <<"return", instr[2], IF instr[3] = 0 THEN 0 ELSE m.slots[instr[3]]>>
                 ELSE <<instr[1]>>
    IN  IF instr[1] \notin Terminator THEN Run(code, Executed(m, instr), k, i + 1)
        ELSE IF instr[1] \in {"goto", "if"} THEN Run(code, [m EXCEPT !.from = k], next, 1)
        ELSE [m EXCEPT !.out = out]

RunOf(b, answers) ==
    LET zeros == [r \in 1..b.next |-> 0] \o <<>> IN
    Run(b.code, [regs |-> zeros, slots |-> zeros, stack |-> <<>>, answers |-> answers, trace |-> <<>>, out |-> <<>>, from |-> 0], 1, 1)

-----------------------------------------------------------------------------
(* The checker's names.  s has the scopes, the number of the next          *)
(* declaration, the node rewritten with a number behind each name, whether *)
(* the names are accepted, and whether a declaration may be confused with  *)
(* another of its name in Emit's table: one that hides an outer one where  *)
(* Emit does not undo it, or is used in its own initializer.               *)
Scope(s, undone, loop) == [s EXCEPT !.scopes = Append(@, [names |-> <<>>, undone |-> undone, loop |-> loop])]
Leave(s)         == [s EXCEPT !.scopes = Front(@)]
Visible(s, name) == {i \in DOMAIN s.scopes : name \in DOMAIN s.scopes[i].names}
Number(s, name)  == s.scopes[Max(Visible(s, name))].names[name]
Depth(s)         == Len(s.scopes)

DeclareName(s, name) ==
    LET here == s.scopes[Depth(s)] IN
    [s EXCEPT !.scopes[Depth(s)].names = [n \in DOMAIN here.names \cup {name} |-> IF n = name THEN s.next ELSE here.names[n]],
              !.next = @ + 1,
              !.ok = @ /\ name \notin DOMAIN here.names,
              !.confused = @ \/ (Visible(s, name) # {} /\ (~here.undone \/ s.defers))]
Use(s, name) == IF Visible(s, name) = {} THEN [s EXCEPT !.ok = FALSE] ELSE s

(* Nodes below a node, itself included, and in the order of the text.      *)
RECURSIVE Within(_), Flat(_)
Within(n)   == {n} \cup UNION {Within(n.kids[i]) : i \in DOMAIN n.kids}
All(n, ops) == {m \in Within(n) : m.op \in ops}
Flat(n)     == FoldLeft(LAMBDA text, kid : text \o Flat(kid), <<n>>, n.kids)
NamesUsed(n) == {m.datum : m \in All(n, {"var", "set"})}

RECURSIVE Names(_, _)
NamesAll(s, nodes) ==
    FoldLeft(LAMBDA r, n : LET t == Names(r.s, n) IN [s |-> t.s, nodes |-> Append(r.nodes, t.node)],
             [s |-> s, nodes |-> <<>>], nodes)
InScope(s, undone, loop, names, body) ==
    LET all == NamesAll(FoldLeft(DeclareName, Scope(s, undone, loop), names), body.kids) IN
    [s |-> Leave(all.s), body |-> [body EXCEPT !.kids = all.nodes]]
Confused(s, names, initializer) ==
    [s EXCEPT !.confused = @ \/ \E name \in names \cap NamesUsed(initializer) : Visible(s, name) # {}]
Named(s, n, name, kids) == [s |-> s, node |-> Node(n.op, name, kids)]

Names(s, n) ==
    LET first  == Names(s, n.kids[1])
        second == Names(first.s, n.kids[2])
        all    == NamesAll(s, n.kids)
    IN
    CASE n.op = "let" ->
           LET d == DeclareName(Confused(first.s, {n.datum}, n.kids[1]), n.datum) IN
           Named(d, n, <<n.datum, first.s.next>>, <<first.node>>)
      [] n.op \in {"var", "set"} ->
           LET u == Use(s, n.datum) IN
           Named([all.s EXCEPT !.ok = @ /\ u.ok], n, <<n.datum, IF u.ok THEN Number(s, n.datum) ELSE 0>>, all.nodes)
      [] n.op = "for" ->
           LET in == InScope(first.s, FALSE, TRUE, <<>>, n.kids[2]) IN Named(in.s, n, n.datum, <<first.node, in.body>>)
      [] n.op = "range" ->
           LET in == InScope(second.s, FALSE, TRUE, <<n.datum>>, n.kids[3]) IN
           Named(in.s, n, <<n.datum, second.s.next>>, <<first.node, second.node, in.body>>)
      [] n.op = "each" ->
           LET in == InScope(Confused(first.s, ToSet(n.datum), n.kids[1]), TRUE, TRUE, n.datum, n.kids[2]) IN
           Named(in.s, n, [i \in 1..2 |-> <<n.datum[i], first.s.next + i - 1>>], <<first.node, in.body>>)
      [] n.op = "try" ->
           LET ok  == InScope(s, TRUE, FALSE, <<n.datum[1]>>, n.kids[1])
               err == InScope(ok.s, TRUE, FALSE, <<n.datum[2]>>, n.kids[2])
               ids == <<<<n.datum[1], s.next>>, <<n.datum[2], ok.s.next>>>>
           IN  IF Len(n.kids) = 1 THEN Named(ok.s, n, ids, <<ok.body>>) ELSE Named(err.s, n, ids, <<ok.body, err.body>>)
      [] n.op = "if" ->
           LET then == InScope(first.s, FALSE, FALSE, <<>>, n.kids[2])
               else == InScope(then.s, FALSE, FALSE, <<>>, n.kids[3])
           IN  IF Len(n.kids) = 2 THEN Named(then.s, n, n.datum, <<first.node, then.body>>)
               ELSE Named(else.s, n, n.datum, <<first.node, then.body, else.body>>)
      [] n.op = "block" -> LET in == InScope(s, TRUE, FALSE, <<>>, n) IN [s |-> in.s, node |-> in.body]
      [] n.op = "err?" ->
           LET outer == DeclareName(Scope(s, TRUE, FALSE), n.datum)
               in    == InScope(outer, TRUE, FALSE, <<>>, n.kids[1])
           IN  Named(Leave(in.s), n, <<n.datum, s.next>>, <<in.body>>)
      [] n.op = "match?" ->
           LET in == InScope(s, TRUE, FALSE, <<n.datum>>, n) IN Named(in.s, n, <<n.datum, s.next>>, in.body.kids)
      [] n.op = "defer" ->   \* no scope of its own
           LET body == NamesAll([s EXCEPT !.deferring = TRUE], n.kids[1].kids) IN
           Named([body.s EXCEPT !.deferring = s.deferring], n, n.datum, <<[n.kids[1] EXCEPT !.kids = body.nodes]>>)
      [] n.op = "break" ->
           [s |-> [s EXCEPT !.ok = @ /\ \E i \in DOMAIN s.scopes : s.scopes[i].loop], node |-> n]
      [] n.op \in {"err", "??"} -> [s |-> [s EXCEPT !.ok = @ /\ ~s.deferring /\ ~s.plain], node |-> n]
      [] n.op \in {"fun", "spawn"} -> [s |-> s, node |-> n]
      [] OTHER -> Named(all.s, n, n.datum, all.nodes)

Checked(f) ==
    Names([scopes |-> <<>>, next |-> 1, ok |-> TRUE, confused |-> FALSE, deferring |-> FALSE,
           plain |-> f.kind = "plain", defers |-> All(f.body, {"defer"}) # {}], f.body)

-----------------------------------------------------------------------------
(* The effects of a checked body, in order.  `out' says how the statement  *)
(* was left, if it was not at its end.                                     *)
RECURSIVE Does(_, _), DoesAll(_, _), Repeats(_, _, _), Counts(_, _, _, _, _, _)
DoesAll(m, stmts) ==
    IF stmts = <<>> \/ m.out # "no" THEN m ELSE DoesAll(Does(m, Head(stmts)), Tail(stmts))
Body(m, n)        == DoesAll([m EXCEPT !.value = 0], n.kids)
Keeps(m, name, v) == [m EXCEPT !.store = [x \in DOMAIN @ \cup {name} |-> IF x = name THEN v ELSE @[x]]]
Looped(m)         == IF m.out = "break" THEN [m EXCEPT !.out = "no"] ELSE m

(* An answer chooses between what follows a failure and a success.         *)
Left(m, how) == [Asked(m) EXCEPT !.out = IF Answer(m) = 1 THEN how ELSE @, !.value = Good]

Repeats(m, test, body) ==
    LET c == Does(m, test)
        r == Body(c, body)
    IN  IF c.value = 0 THEN c ELSE IF r.out # "no" THEN Looped(r) ELSE Repeats(r, test, body)
Counts(m, i, end, index, item, body) ==
    LET r == Body(IF item = <<>> THEN Keeps(m, index, i) ELSE Keeps(Keeps(m, index, i), item, Element(i)), body)
    IN  IF i >= end THEN m ELSE IF r.out # "no" THEN Looped(r) ELSE Counts(r, i + 1, end, index, item, body)

Does(m, n) ==
    LET v    == Does(m, n.kids[1])
        w    == Does(v, n.kids[2])
        fits == SelectSeq(Tail(n.kids), LAMBDA arm : arm.datum \in {v.value, Else})
        ask  == Asked(m)
        bad  == Answer(m) = 1
    IN
    CASE n.op = "int"   -> [m EXCEPT !.value = n.datum]
      [] n.op = "var"   -> [m EXCEPT !.value = m.store[n.datum]]
      [] n.op = "ask"   -> [ask EXCEPT !.value = Answer(m)]
      [] n.op = "show"  -> IF v.out = "no" THEN [v EXCEPT !.trace = Append(@, v.value), !.value = 0] ELSE v
      [] n.op \in {"let", "set"} -> IF v.out = "no" THEN [Keeps(v, n.datum, v.value) EXCEPT !.value = 0] ELSE v
      [] n.op = "block" -> Body(m, n)
      [] n.op = "if"    -> IF v.value = 1 THEN Body(v, n.kids[2])
                           ELSE IF Len(n.kids) = 3 THEN Body(v, n.kids[3]) ELSE [v EXCEPT !.value = 0]
      [] n.op = "match" -> Does(v, fits[1].kids[1])
      [] n.op = "for"   -> Repeats(m, n.kids[1], n.kids[2])
      [] n.op = "range" -> Counts(w, v.value, w.value, n.datum, <<>>, n.kids[3])
      [] n.op = "each"  -> Counts(v, 0, v.value, n.datum[1], n.datum[2], n.kids[2])
      [] n.op = "ret"   -> IF n.kids = <<>> THEN [m EXCEPT !.out = "ret"]
                           ELSE IF v.out = "no" THEN [v EXCEPT !.out = "ret", !.result = v.value] ELSE v
      [] n.op = "err"   -> [m EXCEPT !.out = "err"]
      [] n.op = "??"    -> Left(m, "err")
      [] n.op = "!!"    -> Left(m, "exit")
      [] n.op = "try"   -> IF ~bad THEN Body(Keeps(ask, n.datum[1], Good), n.kids[1])
                           ELSE IF Len(n.kids) = 1 THEN Left(m, "exit")
                           ELSE Body(Keeps(ask, n.datum[2], Wrong), n.kids[2])
      [] n.op = "err?"  -> IF bad THEN Body(Keeps(ask, n.datum, Wrong), n.kids[1]) ELSE Left(m, "no")
      [] n.op = "match?" -> IF ~bad THEN Left(m, "no")
                            ELSE LET c == Keeps(ask, n.datum, Wrong) IN
                                 Does(Asked(c), IF Answer(c) = 1 THEN n.kids[1].kids[1] ELSE n.kids[2].kids[1])
      [] n.op = "defer" -> [m EXCEPT !.defers = Append(@, n.kids[1]), !.value = 0]
      [] n.op = "break" -> [m EXCEPT !.out = "break"]
      [] OTHER          -> [m EXCEPT !.value = 0]

(* The end of a function: what was deferred runs, the last first, unless   *)
(* the process ends.                                                       *)
MeaningOf(f, body, answers) ==
    LET end  == Body([store |-> <<>>, answers |-> answers, trace |-> <<>>, defers |-> <<>>,
                      out |-> "no", value |-> 0, result |-> 0], body)
        all  == FoldRight(LAMBDA d, m : Body([m EXCEPT !.out = "no"], d), end.defers, end)
        tail == f.value /\ end.out = "no"
    IN  [trace |-> IF end.out = "exit" THEN end.trace ELSE all.trace,
         out   |-> CASE end.out = "exit" -> <<"exit">> [] end.out = "err" -> <<"return", 1, 0>>
                     [] OTHER -> <<"return", 0, IF tail THEN end.value ELSE end.result>>]

-----------------------------------------------------------------------------
(* Where the code generator goes wrong; each is a premise below.           *)
Exit == {"ret", "err", "??"}
RECURSIVE Ends(_)
EndsAny(nodes) == \E i \in DOMAIN nodes : Ends(nodes[i])
Ends(n) ==   \* the code of n never gets to its end
    CASE n.op \in {"ret", "err", "break"} -> TRUE
      [] n.op = "if"    -> Len(n.kids) = 3 /\ Ends(n.kids[2]) /\ Ends(n.kids[3])
      [] n.op = "block" -> EndsAny(n.kids)
      [] n.op = "match" -> \A i \in 2..Len(n.kids) : Ends(n.kids[i].kids[1])
      [] OTHER          -> FALSE

(* llvm_control_expr.py:93: statements behind one that never ends, in a    *)
(* block with a value.                                                     *)
DeadCode(f, body) ==
    LET blocks == All(body, {"block"}) \ {body}
        loops  == {Last(n.kids) : n \in All(body, Loop)} \cup UNION {ToSet(n.kids) : n \in All(body, {"try"})}
                      \cup {n.kids[1] : n \in All(body, {"defer"})}
        tail   == f.value /\ body.kids # <<>> /\ IsExpr(Last(body.kids))
    IN  \/ \E n \in blocks \ loops : n.kids # <<>> /\ EndsAny(Front(n.kids))
        \/ tail /\ EndsAny(body.kids)

(* llvm_codegen.py:787: a deferred body is emitted where the function is   *)
(* left; only names declared in the function's own block are there.        *)
StrayName(body) ==
    LET own == {body.kids[i].datum : i \in {j \in DOMAIN body.kids : body.kids[j].op = "let"}} IN
    \E d \in All(body, {"defer"}) :
        LET declared == {n.datum : n \in All(d, {"let"})} IN
        \/ ~(NamesUsed(d) \subseteq own \cup declared)
        \/ \E n \in All(body, {"var", "set"}) : n.datum \in declared /\ n \notin All(d, {"var", "set"})

(* llvm_codegen.py:778: an exit dispatches to the deferred statements      *)
(* before it in the text; a loop may have registered one behind it.        *)
SkipsDefer(body) ==
    \E loop \in All(body, Loop) :
        LET text == Flat(loop) IN
        \E i, j \in DOMAIN text : i < j /\ text[i].op \in Exit /\ text[j].op = "defer"

(* A deferred body that leaves itself.                                     *)
Jumps(body) == \E d \in All(body, {"defer"}) : All(d.kids[1], {"ret", "break", "defer"}) # {}

(* llvm_loop.py:55: the loop counts in the slot the body may assign.       *)
SetsCounter(body) ==
    \E loop \in All(body, {"range", "each"}) : \E n \in All(loop, {"set"}) :
        n.datum = IF loop.op = "range" THEN loop.datum ELSE loop.datum[1]

(* llvm_codegen.py:95-201: a closure the walks do not find.                *)
Uncollected(f) == \E n \in All(f.body, {"fun"}) : n.datum \notin Collected(f)

(* Not accepted, or one of these.                                          *)
Excused(f, c) ==
    \/ ~c.s.ok \/ c.s.confused \/ DeadCode(f, c.node) \/ StrayName(c.node) \/ SkipsDefer(c.node)
    \/ Jumps(c.node) \/ SetsCounter(c.node) \/ Uncollected(f)
Faithful(f, body, b, Answers) ==
    /\ Verified(b)
    /\ \A answers \in Answers :
           LET run == RunOf(b, answers)
               meaning == MeaningOf(f, body, answers)
           IN  run.trace = meaning.trace /\ run.out = meaning.out

(* For every body the checker accepts and without these: the compiler      *)
(* builds code that LLVM accepts, and for all answers of the functions it  *)
(* calls the code does what the body means: it shows the same, runs each   *)
(* deferred statement once and last first on each way out, and returns the *)
(* same.                                                                   *)
CompiledFaithful(f, Answers) ==
    LET c == Checked(f) IN Excused(f, c) \/ Faithful(f, c.node, Compile(f), Answers)

(* design.md:288: `ret', `err' and the end of a function all must run the  *)
(* deferred statements that were registered: what is shown on the way out  *)
(* is what they show.                                                      *)
RunsDeferred(f, Answers) ==
    LET Shows(body, b) == Verified(b) =>
            \A answers \in Answers : RunOf(b, answers).trace = MeaningOf(f, body, answers).trace
        c == Checked(f)
    IN  c.s.ok => Shows(c.node, Compile(f))
================================================================================
