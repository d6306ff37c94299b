------------------------------ MODULE MCFrontEnd ------------------------------
(***************************************************************************)
(* The compiler's parts on small programs.  A behaviour is a walk of the   *)
(* module loader, an instantiation of generics, or one task for a part     *)
(* without a state of its own: an input that is given, then taken.  The    *)
(* variables of the other parts stay as they are when these are done.      *)
(***************************************************************************)
EXTENDS ModuleLoader, Monomorphize, TypeRules

CONSTANTS Letter, Keyword, IntSuffix, FloatSuffix, CodePoint,
          ParserName, ParserLiteral, ParserInt, Constraint, ImportedModule
VARIABLE task
L == INSTANCE Lexer
P == INSTANCE Parser
C == INSTANCE Meaning
K == INSTANCE Checker

frontVars == <<loaderVars, monoVars, task>>

-----------------------------------------------------------------------------
(* Programs for ModuleLoader: two modules next to the entry, and entry     *)
(* directories of which one has the name of a standard library module.     *)
MCStdlib     == {"json", "strconv", "os", "linux"}
MCStdImports == [name \in MCStdlib |-> IF name = "json" THEN <<"strconv">> ELSE <<>>]
MCLists ==
    LET names == {"a", "b", "main", "json", "strconv"} IN
    {<<>>} \cup {<<n>> : n \in names \cup {"linux", "absent"}}
           \cup {<<"a", n>> : n \in names \ {"json"}} \cup {<<"json", n>> : n \in {"a", "strconv"}}
           \cup {<<"main", "b">>, <<"io", "a">>, <<"os", "b">>, <<"os", "os">>}

-----------------------------------------------------------------------------
(* Sources for Lexer: all short ones over these chunks, and literals of    *)
(* texts and of expressions with literals in them.                         *)
MCLetter      == {"i", "f", "u", "n", "_"}
MCKeyword     == {<<"i", "f">>, <<"i", "n">>}
MCIntSuffix   == {<<"i", "8">>, <<"u", "8">>}
MCFloatSuffix == {<<"f", "3", "2">>}
MCCodePoint   == <<"4", "1">> :> "A"
MCConstraint  == {<<"any">>}
Chunk == {<<"1">>, <<"1", ".">>, <<".">>, <<".", ".">>, <<"i">>, <<"i", "8">>, <<"f", "3", "2">>, <<"i", "f">>, <<"_">>, <<" ">>}
         \cup {<<c>> : c \in {"<", ">", "=", "+", "-", "?", ":", "!", "&", "(", "}", ",", "*"}}
Dense == {<<"1">>, <<".">>, <<"i">>, <<"8">>, <<">">>, <<"=">>}
PlainSources ==
    <<{a \o b \o c : a \in Chunk, b \in Chunk, c \in Chunk},
      {a \o b \o c \o d \o e : a \in Dense, b \in Dense, c \in Dense, d \in Dense, e \in Dense}>>

TextPart(text) == [expr |-> FALSE, text |-> text]
ExprPart(items) == [expr |-> TRUE, items |-> items]
Plain(text) == [string |-> FALSE, text |-> text]
Quoted(parts) == [string |-> TRUE, parts |-> parts]
Texts == {TextPart(<<c, d>>) : c, d \in {"f", "\"", "\\", "{", "}", "\n", "'"}}
Exprs(Inner) ==
    {ExprPart(<<i>>) : i \in Inner} \cup {ExprPart(<<Plain(<<"(">>), i, Plain(<<")">>)>>) : i \in Inner}
    \cup {ExprPart(<<i, Plain(<<"+">>), j>>) : i, j \in Inner}
Words0 == {Plain(<<"f">>), Plain(<<"{", "}">>), Plain(<<"'", "f", "'">>)}
Inner1 == Words0 \cup {Quoted(<<t>>) : t \in {TextPart(<<c>>) : c \in {"f", "\"", "\\", "}", "{"}}} \cup {Quoted(<<>>)}
Inner2 == Words0 \cup {Quoted(<<e>>) : e \in Exprs({Plain(<<"f">>), Plain(<<"'", "}", "'">>), Quoted(<<TextPart(<<"f">>)>>)})}
Literals ==
    {<<t>> : t \in Texts} \cup {<<e>> : e \in Exprs(Inner1) \cup Exprs(Inner2)}
    \cup {<<t, e>> : t \in Texts, e \in Exprs(Words0)} \cup {<<e, t>> : t \in Texts, e \in Exprs(Words0)}
    \cup {<<t, e, t>> : t \in Texts, e \in {ExprPart(<<i>>) : i \in Inner1}}

-----------------------------------------------------------------------------
(* Function bodies for Parser: one or two statements over expressions.     *)
N(kind, trees) == P!Node(kind, trees)
T(token)       == P!Leaf(token)
X   == N("Name", <<T("x")>>)
Y   == N("Name", <<T("y")>>)
One == N("Literal", <<T("1")>>)
Bin(a, op, b) == N("Binary", <<a, T(op), b>>)
Grp(a)        == N("Group", <<T("("), a, T(")")>>)
CallF(arg)    == N("Call", <<N("Name", <<T("f")>>), T("("), arg, T(")")>>)
Block(trees)  == N("Block", <<T("{")>> \o trees \o <<T("}")>>)
Simple(e)     == N("Simple", <<e>>)
FieldOf(e)    == N("Field", <<e, T("."), T("y")>>)
IndexOf(a, b) == N("Index", <<a, T("["), b, T("]")>>)
IfThen(c, b)  == N("If", <<T("if"), c, Block(b)>>)
Closed        == N("Closure", <<T("fun"), T("("), T(")"), Block(<<>>)>>)
(* How the operators bind for who writes them, the loosest first.          *)
Binding       == <<"||", "&&", "==", "+", "*">>
SameAs        == "-" :> "+" @@ "&" :> "*"
Tightness(op) == CHOOSE n \in DOMAIN Binding : Binding[n] = (IF op \in DOMAIN SameAs THEN SameAs[op] ELSE op)
TightnessOf(e) == IF e.kind = "Binary" THEN Tightness(e.children[2].token) ELSE Len(Binding) + 1
Grouped(a, op, b) ==   \* with the parentheses it needs
    Bin(IF TightnessOf(a) < Tightness(op) THEN Grp(a) ELSE a, op,
        IF TightnessOf(b) <= Tightness(op) THEN Grp(b) ELSE b)

Atoms  == {X, One, CallF(X), IndexOf(X, One), IndexOf(X, Y), FieldOf(X), FieldOf(FieldOf(X)),
           N("Field", <<X, T("."), T("y"), T("("), One, T(")")>>)}
Binops == {"||", "&&", "==", "+", "-", "*", "&"}
Pairs  == {Grouped(a, op, b) : a \in {X, One}, b \in {Y, IndexOf(X, Y)}, op \in Binops}
Triples == {Grouped(e, op, X) : e \in Pairs, op \in Binops} \cup {Grouped(X, op, e) : e \in Pairs, op \in Binops}
Small  ==
    Atoms \cup {Bin(X, "+", Y), Grp(X), IfThen(X, <<Simple(Y)>>), Closed, N("Unary", <<T("-"), X>>),
        N("Unary", <<T("!"), FieldOf(X)>>), N("StructLiteral", <<T("x"), T("{"), T("}")>>),
        N("SliceLiteral", <<T("["), T("]"), T("{"), One, T("}")>>),
        N("Handled", <<CallF(X), T("err"), T("?"), T("y"), Block(<<>>)>>), N("Fallible", <<CallF(X), T("??")>>),
        N("BlockExpr", <<Block(<<Simple(X)>>)>>), N("BlockExpr", <<Block(<<>>)>>)}
Assignable(E) == {e \in E : P!Spelled(e)[1] \in ParserName}
Statements(E) ==
    {N("Return", <<T("ret")>>), N("Break", <<T("break")>>), N("Spawn", <<T("spawn"), Closed>>)}
    \cup UNION {{Simple(e), N("Let", <<T("let"), T("x"), T("="), e>>), N("Return", <<T("ret"), e>>),
            N("ErrReturn", <<T("err"), e>>), N("Defer", <<T("defer"), Block(<<Simple(e)>>)>>),
            N("ForIn", <<T("for"), T("x"), T(","), T("y"), T("in"), e, Block(<<Simple(Y)>>)>>),
            N("ForRange", <<T("for"), T("x"), T("in"), One, T(".."), e, Block(<<>>)>>),
            N("Try", <<T("try"), e, Block(<<Simple(X)>>)>>)} : e \in E}
    \cup {N("Simple", <<e, T("="), One>>) : e \in Assignable(E)} \cup {N("Simple", <<e, T("++")>>) : e \in Assignable(E)}
    \cup {N("ForCondition", <<T("for"), e, Block(b)>>) : e \in E, b \in {<<>>, <<Simple(Y)>>}}
    \cup {Simple(IfThen(e, b)) : e \in E, b \in {<<>>, <<Simple(Y)>>}}
FunctionOf(stmts) == N("Function", <<T("fun"), T("f"), T("("), T(")"), Block(stmts)>>)
Follower == {X, CallF(X), Grp(X), N("Unary", <<T("-"), X>>), N("BlockExpr", <<Block(<<Simple(X)>>)>>), N("BlockExpr", <<Block(<<>>)>>)}
Trees ==
    {FunctionOf(<<s>>) : s \in Statements(Small \cup Pairs) \cup {Simple(e) : e \in Triples}}
    \cup {FunctionOf(<<a, Simple(e)>>) : a \in Statements(Small), e \in Follower}

-----------------------------------------------------------------------------
(* Types for TypeRef, and worlds of two structs for TypeRules.             *)
Lift(S) == {Pointer(t, b) : t \in S, b \in BOOLEAN} \cup {SliceOf(t) : t \in S} \cup {ArrayOf("3", t) : t \in S}
           \cup {Fn(<<>>, t, b) : t \in S, b \in BOOLEAN} \cup {Generic("Box", <<t>>) : t \in S}
Flat1 == {Named("a"), Named("i32")}
Flat2 == Flat1 \cup Lift(Flat1) \cup {Fn(<<t>>, u, b) : t, u \in Flat1, b \in BOOLEAN}
               \cup {Generic("map", <<t, u>>) : t, u \in Flat1}
Lists == {x \in Flat2 : x.form \in {"fn", "generic"}}
Types ==
    Flat2 \cup Lift({t \in Flat2 : t.form \in {"fn", "slice"}})
    \cup {Fn(<<t, u>>, u, b) : t \in Lists, u \in Flat1, b \in BOOLEAN}
    \cup {Generic("map", <<t, u>>) : t \in Flat1, u \in Lists}
    \cup {Generic("Box", <<Fn(<<Named("a"), t>>, Named("a"), FALSE)>>) : t \in Lists}

S1 == Named("S")
T1 == Named("T")
FieldTypes ==
    {Named("f32"), Named("str"), S1, T1, Named("E"), Named("I"), Named("void"), Named("error"), Pointer(S1, TRUE),
     Pointer(T1, FALSE), SliceOf(S1), ArrayOf("3", T1), Fn(<<>>, S1, FALSE), Generic("map", <<T1, S1>>)}
World(a, b, e, l) ==
    [fields |-> "S" :> a @@ "T" :> b, enums |-> {"E"}, ifaces |-> {"I"}, embeds |-> "S" :> e @@ "T" :> <<>>, lt |-> l]
Worlds ==
    {World(<<x, y>>, <<z>>, <<>>, <<>>) : x \in FieldTypes, y \in FieldTypes, z \in FieldTypes}
    \cup {World(<<x>>, <<z>>, e, l) : x \in FieldTypes, z \in FieldTypes, e \in {<<>>, <<T1>>},
                                     l \in {<<>>} \cup {n :> [params |-> ps, ret |-> ""] : n \in {"S", "T"}, ps \in {<<S1>>, <<T1>>}}
                                              \cup {"S" :> [params |-> ps, ret |-> r] : ps \in {<<>>, <<S1>>, <<S1, S1>>}, r \in {"bool", "i32"}}}
(* What is written with a field's type.                                    *)
Probes(x) ==
    {x} \cup Lift({x, Named("q")})
    \cup {Generic("map", <<k, v>>) : k \in {x, Named("i32")}, v \in {x, SliceOf(x), Generic("map", <<x, x>>)}}

-----------------------------------------------------------------------------
(* Programs for Monomorphize: templates f, g, a struct B, and three that   *)
(* may be erased.                                                          *)
Tp == Named("T")
I  == Named("i32")
Kept    == Shape(0, FALSE)
Call(name, args, given) == Use("call", name, args, given)
Calls(names, args)      == {Call(n, <<a>>, 1) : n \in names, a \in args}
AtMostOne(S) == {<<>>} \cup {<<x>> : x \in S}
SmallArgs == {Tp, Pointer(Tp, FALSE), Generic("B", <<Tp>>), Fn(<<Tp>>, I, FALSE)}
AllArgs   == SmallArgs \cup {SliceOf(Tp), Generic("map", <<I, Tp>>), Fn(<<Generic("B", <<Tp>>)>>, I, FALSE)}
FieldsOfB ==
    AtMostOne({Generic("B", <<Pointer(Tp, FALSE)>>), Generic("B", <<I>>), Tp, Fn(<<Generic("B", <<Tp>>)>>, I, FALSE),
               Pointer(Generic("B", <<Tp>>), FALSE), Named("B")})
BodiesOfF ==
    [types    : {<<Tp, I>>, <<SliceOf(Generic("B", <<Tp>>)), I>>},
     uses     : AtMostOne(Calls({"f", "g", "id"}, AllArgs) \cup {Call("f", <<>>, 1), Call("f", <<Tp>>, 0)}),
     defaults : {<<<<>>>>, <<<<Use("value", "g", <<Tp>>, 0)>>>>, <<<<Use("value", "g", <<Generic("B", <<Tp>>)>>, 0)>>>>}]
BodiesOfG ==
    AtMostOne(Calls({"f", "g"}, SmallArgs) \cup {Use("index", "g", <<Pointer(Tp, FALSE)>>, 0),
              Use("index", "x", <<Pointer(Tp, FALSE)>>, 0), Call("h", <<Tp>>, 0)})
BodiesOfMain ==
    {<<u>> : u \in Calls({"f"}, {I, Pointer(I, FALSE)})}
    \cup {<<Call("f", <<I>>, 0)>>, <<Call("f", <<Pointer(I, FALSE)>>, 0), Call("id", <<I>>, 1)>>,
          <<Call("least", <<I>>, 2), Call("f", <<I>>, 1)>>, <<Use("value", "g", <<I>>, 0)>>, <<Call("f", <<I, I>>, 1)>>}
ErasedUses ==
    {Call(n, a, 2) : n \in {"id", "least"}, a \in {<<I>>, <<Pointer(I, FALSE)>>, <<Named("str")>>}}
    \cup {Call("snd", <<I, Named("str")>>, 2)}
GenericProgram(f, g, b, ordinaryDecls) ==
    [templates |->
        "f" :> Decl("f", "fun", <<"T">>, f.types, f.uses, f.defaults, Kept)
        @@ "g" :> Decl("g", "fun", <<"T">>, <<Tp, I>>, g, <<<<>>>>, Kept)
        @@ "B" :> Decl("B", "struct", <<"T">>, b, <<>>, <<>>, Kept)
        @@ "id" :> Decl("id", "fun", <<"T">>, <<Tp, Tp>>, <<>>, <<<<>>>>, Shape(1, FALSE))
        @@ "snd" :> Decl("snd", "fun", <<"A", "B">>, <<Named("A"), Named("B"), Named("B")>>, <<>>, <<<<>>, <<>>>>, Shape(2, FALSE))
        @@ "least" :> Decl("least", "fun", <<"T">>, <<Tp, Tp, Tp>>, <<>>, <<<<>>, <<>>>>, Shape(0, TRUE)),
     ordinary |-> ordinaryDecls]
Main(uses) == Decl("main", "fun", <<>>, <<Named("void")>>, uses, <<>>, Kept)
Other == Decl("q", "fun", <<>>, <<Generic("B", <<I>>), I>>, <<>>, <<<<Call("id", <<Pointer(I, FALSE)>>, 1)>>>>, Kept)
PlainF == [types |-> <<Tp, I>>, uses |-> <<>>, defaults |-> <<<<>>>>]
(* A default that calls f, whose own default it omits.                     *)
Nested == Decl("q", "fun", <<>>, <<I, I>>, <<>>, <<<<Call("f", <<I>>, 0)>>>>, Kept)
NestedPrograms ==
    {<<[PlainF EXCEPT !.defaults = <<<<Use("value", "g", args, 0)>>>>], <<>>, <<Tp>>, <<Main(m), Nested>>>> :
         args \in {<<Tp>>, <<Tp, Tp>>}, m \in {<<>>, <<Call("q", <<>>, 0)>>, <<Call("f", <<I>>, 0)>>}}
ErasedPrograms ==
    {<<PlainF, <<>>, <<Tp>>, <<Main(uses)>>>> : uses \in {<<x, y, z>> : x, y, z \in ErasedUses}}
CallingPrograms ==
    {<<f, g, <<Pointer(Generic("B", <<Tp>>), FALSE)>>, <<Main(<<Call("f", <<I>>, 0)>>)>>>> : f \in BodiesOfF, g \in BodiesOfG}
    \cup {<<f, <<>>, b, <<Main(m)>>>> : f \in {h \in BodiesOfF : h.types = <<Tp, I>>}, b \in FieldsOfB, m \in BodiesOfMain}
    \cup {<<PlainF, <<>>, b, <<Main(m), Other>>>> : b \in FieldsOfB, m \in BodiesOfMain}
MCPrograms ==
    {GenericProgram(p[1], p[2], p[3], p[4]) : p \in CallingPrograms \cup ErasedPrograms \cup NestedPrograms}
(* One call that is erased without a comparison, then one that compares.   *)
DescriptorPrograms ==
    {GenericProgram(PlainF, <<>>, <<Tp>>, <<Main(<<Call("id", <<I>>, 1), Call("least", <<I>>, 2)>>)>>)}

-----------------------------------------------------------------------------
(* Bodies for Emit: a statement that has blocks, around all others, after  *)
(* declarations and deferred statements, before others.                    *)
E(op, name, kids) == C!Node(op, name, kids)
B(stmts) == E("block", "", stmts)
Num(n)   == E("int", n, <<>>)
Var(x)   == E("var", x, <<>>)
Show(e)  == E("show", "", <<e>>)
Let(e)   == E("let", "x", <<e>>)
Ret      == E("ret", "", <<>>)
Ask      == E("ask", "", <<>>)
DeferX   == E("defer", "", <<B(<<Show(Var("x"))>>)>>)
Defer3   == E("defer", "", <<B(<<Show(Num(3))>>)>>)
Prop     == E("??", "", <<>>)
Fun(name) == E("fun", name, <<B(<<>>)>>)
Simples ==
    {Let(Num(1)), Let(Var("x")), E("set", "x", <<Num(2)>>), Show(Var("x")), Show(Var("y")), Ret, E("err", "", <<>>), E("break", "", <<>>),
     DeferX, Defer3, Prop, E("!!", "", <<>>), E("spawn", "", <<Fun("s")>>)}
Around(S) ==
    UNION {{E("if", "", <<Ask, B(s)>>), E("if", "", <<Ask, B(s), B(<<Show(Var("x"))>>)>>), E("if", "", <<Ask, B(s), B(<<Ret>>)>>),
            E("for", "", <<Ask, B(s)>>), E("range", "x", <<Num(1), Num(3), B(s)>>), E("range", "y", <<Num(1), Num(3), B(s)>>),
            E("each", <<"y", "z">>, <<Num(2), B(s)>>), E("each", <<"x", "z">>, <<Var("x"), B(s)>>),
            E("try", <<"y", "e">>, <<B(s), B(<<Show(Var("e"))>>)>>), E("try", <<"y", "e">>, <<B(<<Show(Var("y"))>>), B(s)>>),
            E("try", <<"y", "e">>, <<B(s)>>), B(s), E("err?", "y", <<B(s)>>),
            E("match?", "y", <<E("arm", 1, <<B(s)>>), E("arm", C!Else, <<Num(1)>>)>>),
            E("match", "", <<Var("x"), E("arm", 1, <<B(s)>>), E("arm", C!Else, <<Show(Var("x"))>>)>>)} : s \in S}
Pre  == {<<>>, <<Let(Num(1))>>, <<Let(Num(1)), DeferX>>}
Post == {<<>>, <<Show(Var("x"))>>, <<DeferX>>}
Ends == {Var("x"), Show(Var("x")), E("if", "", <<Ask, B(<<Var("x")>>), B(<<Num(2)>>)>>), E("if", "", <<Ask, B(<<Var("x")>>), B(<<E("ret", "", <<Var("x")>>)>>)>>),
         B(<<Let(Num(5)), Var("x")>>), Prop, E("err?", "y", <<B(<<Var("y")>>)>>), E("err?", "y", <<B(<<E("ret", "", <<Var("y")>>)>>)>>),
         E("match", "", <<Var("x"), E("arm", 1, <<Num(8)>>), E("arm", C!Else, <<Ask>>)>>),
         E("match?", "e", <<E("arm", 1, <<E("err", "", <<>>)>>), E("arm", C!Else, <<Var("e")>>)>>), Fun("t"),
         E("err?", "y", <<B(<<Fun("t")>>)>>), E("ret", "", <<Var("x")>>)}
Returning == (Simples \ {Ret, E("err", "", <<>>)}) \cup {E("ret", "", <<Var("x")>>), E("ret", "", <<Prop>>)}
Callable(kind, value, stmts) == [kind |-> kind, value |-> value, body |-> B(stmts)]
One1(S) == {<<s>> : s \in S}
Bodies ==
    <<{Callable(k, FALSE, a \o <<c>> \o b) : k \in {"main", "fallible"}, a \in Pre, c \in Around({<<>>} \cup One1(Simples)), b \in Post},
      {Callable("fallible", FALSE, <<Let(Num(1)), DeferX, c>>) : c \in Around({<<s, t>> : s, t \in Simples})},
      {Callable("main", FALSE, <<Let(Num(1)), c, DeferX>>) : c \in Around(One1(Around(One1(Simples))))},
      {Callable(k, TRUE, a \o b \o <<e>>) : k \in {"plain", "fallible"}, a \in {<<Let(Num(1))>>, <<Let(Num(1)), DeferX>>},
           b \in {<<>>} \cup One1(Returning) \cup One1(Around(One1(Returning))), e \in Ends}>>
MCAnswers == [1..3 -> {0, 1}]
(* A loop that returns before it comes to the deferred statement.          *)
SkippingBodies == {Callable("main", FALSE, <<E("range", "i", <<Num(0), Num(2), B(<<E("if", "", <<Ask, B(<<Ret>>)>>), Defer3>>)>>)>>)}

-----------------------------------------------------------------------------
(* Programs for Checker: f uses g in every context, g may use h.           *)
Q(op, name, kids) == K!Tree(op, name, "", kids)
QB(stmts)    == Q("block", "", stmts)
QOne         == Q("int", "", <<>>)
QNil         == Q("nil", "", <<>>)
QVar(x)      == Q("var", x, <<>>)
QCall(f, as) == Q("call", f, as)
QLet(x, e)   == Q("let", x, <<e>>)
QRet(e)      == Q("ret", "", <<e>>)
QErr         == Q("err", "", <<Q("text", "", <<>>)>>)
QTrue        == Q("==", "", <<QOne, QOne>>)
QText(e)     == Q("text", "", <<e>>)
QNotNil      == Q("!=", "", <<QVar("p"), QNil>>)
QField       == Q("field", "", <<QVar("p")>>)
QFun(stmts)  == Q("closure", "", <<QB(stmts)>>)
QIf(c, s)    == Q("if", "", <<c, QB(s)>>)
QFor(c, s)   == Q("for", "", <<c, QB(s)>>)
QTry(e, x, s, t) == K!Tree("try", x, "e", <<e, QB(s), QB(t)>>)
Coped(e) ==   \* what can be done about a call
    {e, Q("??", "", <<e>>), Q("!!", "", <<e>>), Q("err?", "e", <<e, QB(<<QOne>>)>>), Q("err?", "e", <<e, QB(<<QErr>>)>>),
     Q("match?", "e", <<e, QOne, QErr>>), QText(e), QText(Q("??", "", <<e>>))}
BodiesOfGo ==
    {<<QOne>>, <<QRet(QOne)>>, <<>>, <<QErr>>, <<QIf(QTrue, <<QErr>>), QOne>>, <<QIf(QTrue, <<QRet(QOne)>>), QNil>>,
     <<QIf(QTrue, <<Q("ret", "", <<>>)>>), QOne>>, <<QLet("f", QFun(<<QErr>>))>>, <<QCall("f", <<QNil>>)>>, <<Q("break", "", <<>>)>>}
BodiesOfGh ==
    {<<QVar("h")>>, <<QTry(QCall("h", <<>>), "v", <<>>, <<>>), QOne>>, <<QFor(Q("??", "", <<QCall("h", <<>>)>>), <<>>)>>,
     <<QLet("s", QText(Q("??", "", <<QCall("h", <<>>)>>))), QOne>>, <<QFor(Q("==", "", <<Q("??", "", <<QCall("h", <<>>)>>), QOne>>), <<>>), QOne>>}
    \cup {<<e>> : e \in Coped(QCall("h", <<>>))}
BodiesOfGp ==
    {<<QVar("p")>>, <<QIf(QNotNil, <<QLet("z", QField)>>), QOne>>, <<Q("set", "p", <<QNil>>)>>, <<QIf(QNotNil, <<QRet(QVar("p"))>>), QRet(QVar("p"))>>}
InContext(e) ==
    {<<e>>, <<QLet("v", e)>>, <<QRet(e)>>, <<QCall("show", <<e>>)>>, <<Q("defer", "", <<QB(<<QLet("v", e)>>)>>)>>, <<QIf(QNotNil, <<QLet("v", e)>>)>>,
     <<QIf(QNotNil, <<QLet("w", QVar("p")), e, QErr>>)>>, <<QFor(QTrue, <<e>>)>>, <<Q("range", "i", <<QOne, QOne, QB(<<e>>)>>)>>, <<Q("spawn", "", <<QFun(<<e>>)>>)>>,
     <<QLet("h", QOne), e>>, <<QTry(e, "v", <<>>, <<>>)>>, <<QTry(e, "", <<>>, <<QErr>>)>>, <<QIf(QTrue, <<QErr>>), e>>, <<e, QErr>>, <<QLet("k", QFun(<<e>>)), QCall("k", <<>>)>>}
ByThemselves ==
    {<<QIf(QNotNil, s)>> : s \in {<<QLet("z", QField)>>, <<QLet("p", QOne), QLet("z", QField)>>, <<K!Tree("let", "p", "?p", <<QNil>>), QLet("z", QField)>>, <<Q("set", "p", <<QNil>>)>>,
         <<QFor(QTrue, <<QField>>)>>, <<Q("spawn", "", <<QFun(<<QField, Q("set", "p", <<QNil>>)>>)>>)>>}}
    \cup {<<QFor(QTrue, <<QFun(<<Q("break", "", <<>>)>>)>>)>>, <<QFor(QTrue, <<QIf(QTrue, <<Q("break", "", <<>>)>>)>>)>>, <<QFun(<<Q("break", "", <<>>)>>)>>,
           <<QLet("v", QNil)>>, <<QField>>, <<Q("defer", "", <<QB(<<QErr>>)>>)>>, <<QVar("nobody")>>, <<QIf(QNotNil, <<QField>>)>>, <<Q("if", "", <<QNotNil, QB(<<QField>>), QB(<<QOne>>)>>)>>,
           <<Q("if", "", <<QNotNil, QB(<<QVar("p")>>), QB(<<QRet(QNil)>>)>>)>>, <<QLet("x", QOne), Q("spawn", "", <<QFun(<<Q("set", "x", <<QOne>>)>>)>>)>>}
Ps == <<<<"p", "?p">>>>
Fs(bodies)    == {K!Declared("f", Ps, r, m, QB(b)) : b \in bodies, r \in {""}, m \in {FALSE}}
PlainH == K!Declared("h", <<>>, "", FALSE, QB(<<QOne>>))   \* where g does not use it
Hs == {K!Declared("h", <<>>, r[1], r[2], QB(r[3])) : r \in {<<"", FALSE, <<QOne>>>>, <<"i32", TRUE, <<QErr>>>>, <<"", TRUE, <<QIf(QTrue, <<QErr>>), QOne>>>>}}
Gs(ps, bodies) ==
    {d \in {K!Declared("g", ps, r, m, QB(b)) : b \in bodies, r \in {"", "i32"}, m \in BOOLEAN} :
         d.marked => K!Errs(d) \/ d.body.kids = <<QOne>>}
FsOfGo == Fs(UNION {InContext(e) : e \in {QVar("g")} \cup Coped(QCall("g", <<>>))})
FsOfGp == Fs(UNION {InContext(e) : e \in {QCall("g", <<QNil>>), QCall("g", <<QVar("p")>>)}})
Given(part, input) == [part |-> part, input |-> input, done |-> FALSE]
Declarations(f, g, h) == task \in {Given("declarations", <<f, g, h>>), Given("declarations", <<h, g, f>>)}
DeclarationsInit ==
    \/ \E f \in FsOfGo, g \in Gs(<<>>, BodiesOfGh), h \in Hs : Declarations(f, g, h)
    \/ \E f \in FsOfGo, g \in Gs(<<>>, BodiesOfGo) : Declarations(f, g, PlainH)
    \/ \E f \in FsOfGp, g \in Gs(Ps, BodiesOfGp) : Declarations(f, g, PlainH)
    \/ \E f \in Fs(ByThemselves) : task = Given("declarations", <<f>>)

-----------------------------------------------------------------------------
NoTask == [part |-> "none", input |-> <<>>, done |-> TRUE]
Done(part) == task.part = part /\ task.done

LoaderIdle ==   \* a walk over a program without imports, at its end
    /\ entry = User("main")
    /\ imports = [m \in {User(n) : n \in Sibling \cup {"main"}} \cup {Std(n) : n \in Stdlib} |-> <<>>]
    /\ frames = <<>> /\ loaded = {"main"} /\ order = <<User("main")>> /\ support = <<>> /\ verdict = "done"
MonoIdle ==
    /\ program = [templates |-> <<>>, ordinary |-> <<>>] /\ ordinary = <<>> /\ generated = <<>> /\ made = {}
    /\ phase = "done" /\ at = 1 /\ before = 0 /\ limit = 0
TaskInit ==
    \/ \E n \in DOMAIN PlainSources : \E s \in PlainSources[n] : task = Given("source", s)
    \/ \E parts \in Literals : task = Given("literal", parts)
    \/ \E tree \in Trees : task = Given("tree", tree)
    \/ \E t \in Types : task = Given("type", t)
    \/ \E w \in Worlds : task = Given("world", w)
    \/ \E n \in DOMAIN Bodies : \E f \in Bodies[n] : task = Given("body", f)
    \/ DeclarationsInit
TakeTask == ~task.done /\ task' = [task EXCEPT !.done = TRUE]

FrontInit ==
    \/ LoaderInit /\ MonoIdle /\ task = NoTask
    \/ LoaderIdle /\ MonoInit /\ task = NoTask
    \/ LoaderIdle /\ MonoIdle /\ TaskInit
FrontNext ==
    \/ LoaderNext /\ UNCHANGED <<monoVars, task>>
    \/ WalkOrdinary /\ UNCHANGED <<loaderVars, task>>
    \/ WalkGenerated /\ UNCHANGED <<loaderVars, task>>
    \/ WalkDefaults /\ UNCHANGED <<loaderVars, task>>
    \/ NextLoop /\ UNCHANGED <<loaderVars, task>>
    \/ TakeTask /\ UNCHANGED <<loaderVars, monoVars>>
FrontSpec == FrontInit /\ [][FrontNext]_frontVars /\ WF_loaderVars(LoaderNext)

(* The two programs of the documentation's disagreements, by themselves.   *)
GenericsSpec == LoaderIdle /\ MonoInit /\ task = NoTask /\ [][FrontNext]_frontVars
SkippingSpec ==
    LoaderIdle /\ MonoIdle /\ (\E f \in SkippingBodies : task = Given("body", f)) /\ [][FrontNext]_frontVars

-----------------------------------------------------------------------------
(* lexer.py:255-431: sources without literals are cut into the longest     *)
(* tokens or rejected for a number; literals are read as they were meant.  *)
TokensExact ==
    /\ Done("source") => L!Munches(task.input) /\ L!RejectsNumbers(task.input)
    /\ Done("literal") => L!ReadsBack(task.input)
    /\ Done("none") => \A c \in {"A", "n", "'", "\\", "\"", "{", "\n"} : L!ReadsCharacter(c)

(* parser.py:79-1000: function bodies are read as they were meant, unless  *)
(* a statement swallows the next one or a condition the brace behind it.   *)
TreesExact == Done("tree") => P!ReadsAsMeant(task.input)

(* type_ref.py:16-260: a type survives the way through its key, and two    *)
(* types with one key are the same, but for the place of a final `err'.    *)
TypesExact == Done("type") => \A t \in Types : KeysFaithful(task.input, t)

(* type_rules.py:65-307: the checks of hashing, equality, zero values,     *)
(* ordering and sizes on structs that contain each other agree with the    *)
(* rules.                                                                  *)
WorldsExact ==
    Done("world") =>
        /\ RulesExact(task.input, S1)
        /\ \A t \in UNION {Probes(x) : x \in ToSet(task.input.fields["S"])} : SizedExact(task.input, t)

(* typecheck.py:230-1749: functions are accepted, with the results they    *)
(* should have, whatever order they stand in, with the exceptions listed.  *)
CheckedExact == Done("declarations") => K!CheckedFaithful(task.input)

(* llvm_codegen.py:526-796, llvm_control_expr.py, llvm_loop.py: the blocks *)
(* built for a checked body are well formed and do what the body means.    *)
BodiesExact == Done("body") => C!CompiledFaithful(task.input, MCAnswers)

(* design.md:288: deferred statements run at every return.                 *)
DefersRun == Done("body") => C!RunsDeferred(task.input, MCAnswers)

(* generics.py: the instances a program needs are finitely many, or it is  *)
(* refused for what a declaration it needs does wrong.                     *)
InstantiationEnds == EndsExactly /\ RefusalsExact
===============================================================================
