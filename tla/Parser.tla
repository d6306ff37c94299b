-------------------------------- MODULE Parser --------------------------------
(***************************************************************************)
(* From tokens to syntax trees (compiler/parser.py): a recursive descent   *)
(* with the parser's own lookahead.  A token is a string: a keyword or     *)
(* operator is itself, names are in ParserName, other literals in          *)
(* ParserLiteral.  A tree keeps all its tokens as leaves, so that its      *)
(* leaves spell it; the source's AST is this tree without its punctuation. *)
(***************************************************************************)
EXTENDS Naturals, Sequences, FiniteSets, SequencesExt, TLC

CONSTANTS
    ParserName,      \* identifiers
    ParserLiteral,   \* literals other than integers
    ParserInt,       \* integer literals
    Constraint,      \* KNOWN_CONSTRAINTS, as the tokens of their names
    ImportedModule   \* imported_modules

Node(kind, children) == [kind |-> kind, token |-> "", children |-> children]
Leaf(token)          == [kind |-> "leaf", token |-> token, children |-> <<>>]

RECURSIVE Spelled(_)
Spelled(tree) ==
    IF tree.kind = "leaf" THEN <<tree.token>>
    ELSE FlattenSeq([i \in DOMAIN tree.children |-> Spelled(tree.children[i])])

-----------------------------------------------------------------------------
(* self.tokens[i]; the last token is EOF.                                  *)
Look(s, i)   == IF i <= Len(s) THEN s[i] ELSE "EOF"
IsName(s, i) == Look(s, i) \in ParserName
Fits(s, i, symbol) ==
    CASE symbol = "NAME" -> IsName(s, i)
      [] symbol = "INT"  -> Look(s, i) \in ParserInt
      [] OTHER           -> Look(s, i) = symbol

(* _token_after_matching_bracket and _matching_bracket_contains.           *)
RECURSIVE Closing(_, _, _)
Closing(s, i, depth) ==   \* the bracket that ends the list begun before i, 0 if none
    IF i > Len(s) THEN 0
    ELSE IF s[i] = "]" THEN IF depth = 1 THEN i ELSE Closing(s, i + 1, depth - 1)
    ELSE Closing(s, i + 1, IF s[i] = "[" THEN depth + 1 ELSE depth)
AfterBracket(s, i) == IF Closing(s, i, 0) = 0 THEN Look(s, i) ELSE Look(s, Closing(s, i, 0) + 1)
Depth(s, i, j)     == Cardinality({k \in i..j : s[k] = "["}) - Cardinality({k \in i..j : s[k] = "]"})
ListedComma(s, i)  == \E j \in i..Closing(s, i, 0) : s[j] = "," /\ Depth(s, i, j) = 1

(* `{ }' or `{ name :', which makes a struct literal of the name before.   *)
BeginsFields(s, i) ==
    Look(s, i) = "{" /\ (Look(s, i + 1) = "}" \/ (IsName(s, i + 1) /\ Look(s, i + 2) = ":"))

(* _is_function_declaration_start.                                         *)
BeginsFunction(s, i) ==
    /\ Look(s, i) = "fun"
    /\ \/ IsName(s, i + 1)
       \/ Look(s, i + 1) = "(" /\ IsName(s, i + 2) /\ Look(s, i + 3) = "*" /\ IsName(s, i + 4)

(* The items a construct is made of: tokens, names of constructs, and      *)
(* lists and optional parts, which are spliced into it.                    *)
Rule(kind, items) == [kind |-> kind, items |-> items]
NoRule            == Rule("fails", <<>>)
Opt(test, items)  == IF test THEN items ELSE <<>>
Qualified(s, i)   == Opt(Look(s, i) = ".", <<".", "NAME">>)
AssignOp == {"=", "+=", "-=", "*=", "/=", "%=", "&=", "|=", "^=", "<<=", ">>="}

ForRule(s, i) ==
    IF IsName(s, i + 1) /\ Look(s, i + 2) = ","
    THEN Rule("ForIn", <<"for", "NAME", ",", "NAME", "in", "Expr", "Block">>)
    ELSE IF IsName(s, i + 1) /\ Look(s, i + 2) = "in"
    THEN Rule("ForRange", <<"for", "NAME", "in", "Expr", "..", "Expr", "Block">>)
    ELSE Rule("ForCondition", <<"for", "Expr", "Block", "Semi">>)

LeavingRule(s, i) ==   \* returns, and what is done about errors and at exits
    LET t == Look(s, i) IN
    CASE t = "ret"   -> Rule("Return", <<"ret">> \o Opt(Look(s, i + 1) \notin {";", "}"}, <<"Expr">>) \o <<"Semi">>)
      [] t = "err"   -> Rule("ErrReturn", <<"err", "Expr", "Semi">>)
      [] t = "defer" -> Rule("Defer", <<"defer", "Block">>)
      [] t = "spawn" -> Rule("Spawn", <<"spawn", "Closure", "Semi">>)
      [] t = "try"   ->
            Rule("Try", <<"try">> \o Opt(IsName(s, i + 1) /\ Look(s, i + 2) = "=", <<"NAME", "=">>)
                        \o <<"Expr", "Block", "ElseErr", "Semi">>)

StatementRule(s, i) ==
    LET t == Look(s, i) IN
    CASE t \in {"import", "extern", "iface", "type"} -> NoRule
      [] t = "let"    -> Rule("Let", <<"let", "NAME", "Annotation", "=", "Expr", "Semi">>)
      [] BeginsFunction(s, i) -> Rule("Function", <<"fun", "Receiver", "NAME", "TypeParams", "(", "Params", ")",
                                                   "Annotation", "ErrMark", "Block", "Semi">>)
      [] t = "struct" -> Rule("Struct", <<"struct", "NAME", "TypeParams", "{", "StructFields", "}", "Semi">>)
      [] t = "enum"   -> Rule("Enum", <<"enum", "NAME", "{", "Variants", "}", "Semi">>)
      [] t = "for"    -> ForRule(s, i)
      [] t \in {"ret", "err", "try", "defer", "spawn"} -> LeavingRule(s, i)
      [] t = "break"  -> Rule("Break", <<"break", "Semi">>)
      [] t \in ParserName -> Rule("Simple", <<"Expr", "AssignTail", "Semi">>)
      [] OTHER        -> Rule("Simple", <<"Expr", "Semi">>)

TopRule(s, i) ==
    CASE Look(s, i) = "import" -> IF Look(s, i + 2) \in {".", "{"} THEN NoRule ELSE Rule("Import", <<"import", "NAME", "Semi">>)
      [] Look(s, i) = "type"   -> Rule("Alias", <<"type", "NAME", "=", "Type", "Semi">>)
      [] Look(s, i) = "extern" -> Rule("Extern", <<"extern", "Lib", "{", "Signatures", "}", "Semi">>)
      [] Look(s, i) = "iface"  -> Rule("Iface", <<"iface", "NAME", "{", "Methods", "}", "Semi">>)
      [] OTHER                 -> StatementRule(s, i)

TypeRule(s, i) ==
    LET t == Look(s, i)
        name == <<"NAME">> \o Qualified(s, i + 1)
    IN
    CASE t = "?"   -> Rule("Nullable", <<"?", "*", "Type">>)
      [] t = "fun" -> Rule("FunType", <<"fun", "(", "Types)", ")", "Type", "ErrMark">>)
      [] t = "*"   -> Rule("Pointer", <<"*", "Type">>)
      [] t = "["   -> IF Look(s, i + 1) = "]" THEN Rule("Slice", <<"[", "]", "Type">>)
                      ELSE Rule("Array", <<"[", "INT", "]", "Type">>)
      [] OTHER     -> Rule("Named", name \o Opt(Look(s, i + Len(name)) = "[", <<"TypeArgs">>))

(* parse_primary of a name.  A qualified name before a brace is a struct   *)
(* literal whatever the brace begins, and what stands in brackets before a *)
(* parenthesis or a brace is read as types.                                *)
NameRule(s, i) ==
    LET next == Look(s, i + 1)
        after == AfterBracket(s, i + 1)
        generic == next = "[" /\ after \in {"(", "{"}
        fields == <<"{", "Fields", "}">>
    IN
    CASE s[i] = "map" /\ next = "[" /\ after = "{" -> Rule("MapLiteral", <<"NAME", "TypeArgs", "{", "Entries", "}">>)
      [] s[i] = "map" /\ next = "{" -> IF Look(s, i + 2) = "}" THEN NoRule
                                       ELSE Rule("MapLiteral", <<"NAME", "{", "Entries", "}">>)
      [] next = "." /\ IsName(s, i + 2) /\ Look(s, i + 3) = "::" -> Rule("EnumRef", <<"NAME", ".", "NAME", "::", "NAME">>)
      [] next = "." /\ IsName(s, i + 2) /\ Look(s, i + 3) = "{"  -> Rule("StructLiteral", <<"NAME", ".", "NAME">> \o fields)
      [] next = "::" -> Rule("EnumRef", <<"NAME", "::", "NAME">>)
      [] generic /\ after = "(" -> Rule("Call", <<"NAME", "TypeArgs", "(", "Args", ")">>)
      [] generic /\ BeginsFields(s, Closing(s, i + 1, 0) + 1) -> Rule("StructLiteral", <<"NAME", "TypeArgs">> \o fields)
      [] generic /\ ~BeginsFields(s, Closing(s, i + 1, 0) + 1) -> Rule("Tried", <<"NAME", "TypeArgs">>)
      [] ~generic /\ BeginsFields(s, i + 1) -> Rule("StructLiteral", <<"NAME">> \o fields)
      [] OTHER -> Rule("Name", <<"NAME">>)

PrimaryRule(s, i) ==
    LET t == Look(s, i) IN
    CASE t = "if"    -> Rule("If", <<"if", "Expr", "Block", "Else">>)
      [] t = "match" -> Rule("Match", <<"match", "Expr", "{", "Arms", "}">>)
      [] t \in {"ret", "err"} -> LeavingRule(s, i)
      [] t = "{"     -> Rule("BlockExpr", <<"Block">>)
      [] t \in ParserLiteral \cup ParserInt -> Rule("Literal", <<t>>)
      [] t = "fun"   -> Rule("", <<"Closure">>)
      [] t = "new"   ->
            LET name == <<"NAME">> \o Qualified(s, i + 2) IN
            Rule("New", <<"new">> \o name \o Opt(Look(s, i + 1 + Len(name)) = "[", <<"TypeArgs">>)
                        \o <<"{", "Fields", "}">>)
      [] t = "["     -> IF Look(s, i + 1) = "]"
                        THEN Rule("SliceLiteral", <<"[", "]">> \o Opt(Look(s, i + 2) # "{", <<"Type">>)
                                                  \o <<"{", "Elements", "}">>)
                        ELSE Rule("ArrayLiteral", <<"[", "INT", "]", "Type", "{", "Elements", "}">>)
      [] t = "("     -> Rule("Group", <<"(", "Expr", ")">>)
      [] t \in ParserName -> NameRule(s, i)
      [] OTHER       -> NoRule

(* Comma lists: the item and the token that ends the list; a trailing      *)
(* comma is allowed.  Other lists go on until a token.                     *)
CommaList ==
    "Types)" :> <<"Type", ")">> @@ "Types]" :> <<"Type", "]">> @@ "TypeParamList" :> <<"TypeParam", "]">>
    @@ "Params" :> <<"Param", ")">> @@ "PlainParams" :> <<"Plain", ")">> @@ "Args" :> <<"Expr", ")">> @@ "Fields" :> <<"FieldInit", "}">>
    @@ "Entries" :> <<"Entry", "}">> @@ "Elements" :> <<"Expr", "}">> @@ "Variants" :> <<"NAME", "}">>
    @@ "StructFields" :> <<"StructField", "}">>
Repeated == "Statements" :> "Statement" @@ "Arms" :> "Arm" @@ "Methods" :> "Method" @@ "Signatures" :> "Signature"

(* The parts of a function's head.                                         *)
HeadPart == {"Annotation", "ErrMark", "Closure", "Receiver", "TypeParams", "TypeParam", "TypeArgs", "Param", "Plain", "Default"}
HeadRule(part, s, i) ==
    LET t == Look(s, i)
        constraint == <<"NAME">> \o Qualified(s, i + 2)
    IN
    CASE part = "Annotation" -> Rule("", Opt(t = ":", <<":", "Type">>))
      [] part = "ErrMark"    -> Rule("", Opt(t = "err", <<"err">>))
      [] part = "Closure"    -> Rule("Closure", <<"fun", "(", "PlainParams", ")", "Annotation", "ErrMark", "Block">>)
      [] part = "Receiver"   -> Rule("", Opt(t = "(", <<"(", "NAME", "*", "Type", ")">>))
      [] part = "TypeParams" -> Rule("", Opt(t = "[", <<"[", "TypeParamList", "]">>))
      [] part = "TypeParam"  ->
            IF ~IsName(s, i + 1) THEN Rule("TypeParam", <<"NAME">>)
            ELSE IF SubSeq(s, i + 1, i + Len(constraint)) \in Constraint
            THEN Rule("TypeParam", <<"NAME">> \o constraint) ELSE NoRule
      [] part = "TypeArgs"   -> Rule("TypeArgs", <<"[", "Types]", "]">>)
      [] part = "Param"      -> Rule("Param", <<"NAME">> \o (IF Look(s, i + 1) = "=" THEN <<"Default">> ELSE <<":", "Type", "Default">>))
      [] part = "Plain"      -> Rule("Param", <<"NAME", ":", "Type">>)
      [] part = "Default"    -> Rule("", Opt(t = "=", <<"=", "Expr">>))

(* The other constructs.                                                   *)
PartRule(part, s, i) ==
    LET t == Look(s, i) IN
    CASE part = "Semi"       -> Rule("", Opt(t = ";", <<";">>))
      [] part = "Block"      -> Rule("Block", <<"{", "Statements", "}">>)
      [] part = "FieldInit"  -> Rule("FieldInit", <<"NAME", ":", "Expr">>)
      [] part = "Entry"      -> Rule("Entry", <<"Expr", ":", "Expr">>)
      [] part = "StructField" -> Rule("StructField", <<"NAME">> \o Qualified(s, i + 1) \o <<"Annotation">>)
      [] part = "Arm"        -> Rule("Arm", (IF t = "else" THEN <<"else">> ELSE <<"Expr">>) \o <<"->", "Expr", "Semi">>)
      [] part = "Method"     -> IF t = "fun" THEN Rule("Method", <<"fun", "NAME", "(", "PlainParams", ")", "Annotation", "ErrMark", "Semi">>)
                                ELSE Rule("Embed", <<"Type", "Semi">>)
      [] part = "Signature"  -> Rule("Signature", <<"fun", "NAME", "(", "PlainParams", ")", "Annotation", "ErrMark", "Symbol", "Semi">>)
      [] part = "Symbol"     -> Rule("", Opt(t = "=", <<"=", "STRING">>))
      [] part = "Lib"        -> Rule("", Opt(t = "STRING", <<"STRING">>))
      [] part = "AssignTail" -> Rule("", Opt(t \in AssignOp, <<t, "Expr">>) \o Opt(t \in {"++", "--"}, <<t>>))
      [] part = "ElseErr"    -> Rule("", Opt(t = "else", <<"else", "NAME", "Block">>))
      [] part = "Else"       -> Rule("", Opt(t = "else", <<"else", IF Look(s, i + 1) = "if" THEN "Primary" ELSE "Block">>))
      [] part = "Statement"  -> StatementRule(s, i)
      [] part = "Top"        -> TopRule(s, i)
      [] part = "Type"       -> TypeRule(s, i)
      [] part = "Primary"    -> PrimaryRule(s, i)
      [] part \in HeadPart   -> HeadRule(part, s, i)

Part == HeadPart \cup
    {"Semi", "Block", "FieldInit", "Entry", "StructField", "Arm", "Method", "Signature", "Symbol", "Lib", "AssignTail",
     "ElseErr", "Else", "Statement", "Top", "Type", "Primary"}

(* parse_logic_or .. parse_multiplicative, the weakest first.              *)
LevelsSwapped ==   \* mutant: additive and multiplicative the other way round
    <<{"||"}, {"&&"}, {">", "<", ">=", "<=", "==", "!="}, {"*", "/", "%", "<<", ">>", "&"}, {"+", "-", "|", "^"}>>
Levels ==
    <<{"||"}, {"&&"}, {">", "<", ">=", "<=", "==", "!="}, {"+", "-", "|", "^"}, {"*", "/", "%", "<<", ">>", "&"}>>

(* A result: the trees that were read and the position behind them, 0 for  *)
(* a ParseError.                                                           *)
Read(trees, next) == [trees |-> trees, next |-> next]
Failed            == Read(<<>>, 0)
Wrap(kind, r)     == IF r.next = 0 \/ kind = "" THEN r ELSE Read(<<Node(kind, r.trees)>>, r.next)

(* Parentheses leave no trace in the AST: (f)(x) calls f.                  *)
RECURSIVE Bare(_)
Bare(tree)     == IF tree.kind = "Group" THEN Bare(tree.children[2]) ELSE tree
Callable(tree) == Bare(tree).kind \in {"Name", "Generic"}
NameOfTree(tree) == Bare(tree).children[1].token

(* What may follow an expression (parse_postfix); `types' tells whether    *)
(* what stands in the brackets can be read as types.                       *)
PostfixRule(e, s, i, types) ==
    LET t == Look(s, i)
        named == Bare(e).kind = "Name"
    IN
    CASE t = "(" -> IF named /\ NameOfTree(e) = "size_of" THEN Rule("SizeOf", <<"(", "Type", ")">>)
                    ELSE IF Callable(e) THEN Rule("Call", <<"(", "Args", ")">>) ELSE NoRule
      [] t = "[" -> IF named /\ types /\ AfterBracket(s, i) = "(" THEN Rule("Generic", <<"TypeArgs">>)
                    ELSE IF named /\ types /\ ListedComma(s, i) THEN Rule("FunctionValue", <<"TypeArgs">>)
                    ELSE Rule("Index", <<"[", "Expr", "Subscript">>)
      [] t = "." -> IF /\ named /\ NameOfTree(e) \in ImportedModule
                       /\ Look(s, i + 2) = "[" /\ Look(s, i + 3) \notin ParserInt
                    THEN CASE AfterBracket(s, i + 2) = "(" -> Rule("Call", <<".", "NAME", "TypeArgs", "(", "Args", ")">>)
                           [] AfterBracket(s, i + 2) = "{" -> Rule("StructLiteral", <<".", "NAME", "TypeArgs", "{", "Fields", "}">>)
                           [] OTHER -> Rule("FunctionValue", <<".", "NAME", "TypeArgs">>)
                    ELSE Rule("Field", <<".", "NAME">>
                                       \o Opt(IsName(s, i + 1) /\ Look(s, i + 2) = "(", <<"(", "Args", ")">>))
      [] t \in {"??", "!!"} -> Rule("Fallible", <<t>>)
      [] t = "err" /\ Look(s, i + 1) = "?"   -> Rule("Handled", <<"err", "?", "NAME", "Block">>)
      [] t = "match" /\ Look(s, i + 1) = "?" -> Rule("Sorted", <<"match", "?", "NAME", "{", "Arms", "}">>)
      [] OTHER -> Rule("", <<>>)

RECURSIVE Parse(_, _, _), ParseAll(_, _, _), ParseCommas(_, _, _), ParseUntil(_, _, _),
          Binary(_, _, _), BinaryRest(_, _, _, _), Postfix(_, _, _)

ParseAll(items, s, i) ==
    IF items = <<>> THEN Read(<<>>, i)
    ELSE LET first == Parse(Head(items), s, i) IN
         IF first.next = 0 THEN Failed
         ELSE LET rest == ParseAll(Tail(items), s, first.next) IN
              IF rest.next = 0 THEN Failed ELSE Read(first.trees \o rest.trees, rest.next)

ParseCommas(list, s, i) ==
    LET item == CommaList[list][1]
        first == Parse(item, s, i)
    IN  IF Look(s, i) = CommaList[list][2] THEN Read(<<>>, i)
        ELSE IF first.next = 0 \/ Look(s, first.next) # "," THEN first
        ELSE LET rest == ParseCommas(list, s, first.next + 1) IN
             IF rest.next = 0 THEN Failed ELSE Read(first.trees \o <<Leaf(",")>> \o rest.trees, rest.next)

ParseUntil(list, s, i) ==
    IF Look(s, i) \in {"}", "EOF"} THEN Read(<<>>, i)
    ELSE LET first == Parse(Repeated[list], s, i) IN
         IF first.next = 0 THEN Failed
         ELSE LET rest == ParseUntil(list, s, first.next) IN
              IF rest.next = 0 THEN Failed ELSE Read(first.trees \o rest.trees, rest.next)

Parse(symbol, s, i) ==
    CASE symbol = "Expr" -> Binary(1, s, i)
      [] symbol = "Subscript" ->   \* what ends an index or a slice
            IF Look(s, i) = ":" THEN ParseAll(<<":">> \o Opt(Look(s, i + 1) # "]", <<"Expr">>) \o <<"]">>, s, i)
            ELSE ParseAll(<<"]">>, s, i)
      [] symbol = "Primary" /\ Look(s, i) \in ParserName ->
            LET rule == NameRule(s, i)
                r == IF rule.kind = "fails" THEN Failed ELSE ParseAll(rule.items, s, i)
            IN  IF rule.kind = "Tried" /\ r.next # 0 THEN Read(<<Node("Name", <<Leaf(s[i])>>)>>, i + 1)
                ELSE Wrap(rule.kind, r)
      [] symbol \in Part /\ ~(symbol = "Primary" /\ Look(s, i) \in ParserName) ->
            LET rule == PartRule(symbol, s, i) IN
            IF rule.kind = "fails" THEN Failed ELSE Wrap(rule.kind, ParseAll(rule.items, s, i))
      [] symbol \in DOMAIN CommaList -> ParseCommas(symbol, s, i)
      [] symbol \in DOMAIN Repeated  -> ParseUntil(symbol, s, i)
      [] OTHER -> IF Fits(s, i, symbol) THEN Read(<<Leaf(s[i])>>, i + 1) ELSE Failed

Postfix(e, s, i) ==
    LET types == Look(s, i) = "[" /\ Parse("TypeArgs", s, i).next # 0
        rule  == PostfixRule(e, s, i, types)
        r     == ParseAll(rule.items, s, i)
    IN  IF rule.kind = "" THEN Read(<<e>>, i)
        ELSE IF rule.kind = "fails" \/ r.next = 0 THEN Failed
        ELSE Postfix(Node(rule.kind, <<e>> \o r.trees), s, r.next)

Binary(level, s, i) ==
    IF level <= Len(Levels)
    THEN LET left == Binary(level + 1, s, i) IN
         IF left.next = 0 THEN Failed ELSE BinaryRest(level, left.trees[1], s, left.next)
    ELSE IF Look(s, i) \in {"!", "~", "-"}
    THEN Wrap("Unary", LET r == Binary(level, s, i + 1) IN
                       IF r.next = 0 THEN Failed ELSE Read(<<Leaf(s[i])>> \o r.trees, r.next))
    ELSE LET r == Parse("Primary", s, i) IN IF r.next = 0 THEN Failed ELSE Postfix(r.trees[1], s, r.next)

BinaryRest(level, left, s, i) ==
    IF Look(s, i) \notin Levels[level] THEN Read(<<left>>, i)
    ELSE LET right == Binary(level + 1, s, i + 1) IN
         IF right.next = 0 THEN Failed
         ELSE BinaryRest(level, Node("Binary", <<left, Leaf(s[i])>> \o right.trees), s, right.next)

(* parse_program.                                                          *)
RECURSIVE ProgramFrom(_, _)
ProgramFrom(s, i) ==
    IF Look(s, i) = "EOF" THEN Read(<<>>, i)
    ELSE LET first == Parse("Top", s, i) IN
         IF first.next = 0 THEN Failed
         ELSE LET rest == ProgramFrom(s, first.next) IN
              IF rest.next = 0 THEN Failed ELSE Read(first.trees \o rest.trees, rest.next)
-----------------------------------------------------------------------------
(* Where the text of a tree is not enough to read it.  Its last primary,   *)
(* before what follows it.                                                 *)
RECURSIVE Dangling(_)
Dangling(tree) ==
    IF tree.kind \in {"Binary", "Unary", "Let", "Simple", "Return", "ErrReturn"}
    THEN Dangling(Last(tree.children)) ELSE tree

(* A brace after the expression: a name takes it if it begins fields, a    *)
(* field of a name always does, and brackets after a name must be types.   *)
TakesBrace(tree, rest) ==
    LET e == Dangling(tree) IN
    \/ e.kind = "Name" /\ BeginsFields(rest, 1)
    \/ e.kind = "Field" /\ e.children[1].kind = "Name" /\ Len(e.children) = 3
    \/ /\ e.kind = "Index" /\ e.children[1].kind = "Name"
       /\ BeginsFields(rest, 1) \/ Parse("TypeArgs", Tail(Spelled(e)), 1).next = 0

(* An expression with nothing to end it goes on with the next statement.   *)
Open(statement) ==
    statement.kind \in {"Simple", "Let", "Return", "ErrReturn"}
        /\ Last(statement.children).token \notin {"++", "--"}
Swallows(statement, rest) ==
    /\ Open(statement) /\ rest # <<>>
    /\ \/ statement.kind = "Return" /\ Len(statement.children) = 1
       \/ Head(rest) \in {"(", "[", "-"} /\ ~(statement.kind = "Return" /\ Len(statement.children) = 1)
       \/ Head(rest) = "{" /\ TakesBrace(statement, rest)

(* In every block, what a statement swallows; in every header, the brace.  *)
RECURSIVE Ambiguous(_)
Ambiguous(tree) ==
    LET c == tree.children
        from(i) == FlattenSeq([j \in 1..(Len(c) - i) |-> Spelled(c[i + j])])
    IN
    \/ \E i \in DOMAIN c : Ambiguous(c[i])
    \/ tree.kind = "Block" /\ \E i \in 2..(Len(c) - 2) : Swallows(c[i], from(i))
    \/ tree.kind \in {"If", "ForCondition", "ForIn", "ForRange", "Try", "Match"}
       /\ \E i \in 2..(Len(c) - 1) :
              c[i].kind # "leaf" /\ Head(from(i)) = "{" /\ TakesBrace(c[i], from(i))

(* parser.py:79-1000: what was written without semicolons and with the     *)
(* parentheses its operators need is read as it was meant, except where a  *)
(* statement swallows the next or the condition of a block takes its brace.*)
ReadsAsMeant(tree) ==
    LET read == ProgramFrom(Spelled(tree) \o <<"EOF">>, 1) IN
    (read.trees = <<tree>>) <=> ~Ambiguous(tree)

===============================================================================
