-------------------------------- MODULE Lexer --------------------------------
(***************************************************************************)
(* From characters to tokens (lex in compiler/lexer.py): numbers with      *)
(* suffixes, words, character and string literals with escapes and         *)
(* interpolated expressions, and the operators, the longest first.  A      *)
(* source is a sequence of one-character strings.                          *)
(***************************************************************************)
EXTENDS Naturals, Sequences, FiniteSets, SequencesExt

CONSTANTS
    Letter,       \* the letters sources are made of, with the underscore: no digit, blank, quote or bracket
    Keyword,      \* KEYWORDS, as sequences of letters
    IntSuffix, FloatSuffix,   \* INTEGER_SUFFIXES and FLOAT_SUFFIXES
    CodePoint     \* the characters of \u{...}, by their digits

Digit    == {"0", "1", "2", "3", "4", "5", "6", "7", "8", "9"}
WordChar == Letter \cup Digit
Blank    == {" ", "\t", "\n", "\r"}
Quote    == {"'", "\""}
Opener   == {"(", "[", "{"}
Closer   == {")", "]", "}"}

Symbol ==
    {<<c, c, "=">> : c \in {"<", ">"}}
    \cup {<<c, "=">> : c \in {"+", "-", "*", "/", "%", "&", "|", "^", "<", ">", "=", "!"}}
    \cup {<<c, c>> : c \in {"+", "-", "<", ">", "!", "&", "|", ":", "?", "."}} \cup {<<"-", ">">>}
    \cup {<<c>> : c \in {"+", "-", "*", "/", "%", "&", "|", "^", "~", "=", ">", "<", ";", ",", ":",
                         ".", "!", "?"} \cup Opener \cup Closer}

(* A token with the text or value it carries and the position behind it,   *)
(* or the SyntaxError instead of one.                                      *)
Tok(kind, value, next) == [kind |-> kind, value |-> value, next |-> next]
Bad(why)               == [kind |-> "error", value |-> why, next |-> 0]
IsBad(token)           == token.kind = "error"

Sees(s, i, c)   == i <= Len(s) /\ s[i] = c
RunEnd(s, i, C) == CHOOSE j \in i..(Len(s) + 1) :
                       (\A k \in i..(j - 1) : s[k] \in C) /\ (j > Len(s) \/ s[j] \notin C)

-----------------------------------------------------------------------------
(* Digits, a fraction unless the dot begins `..', and a suffix, which is   *)
(* all that follows of letters and digits.                                 *)
Fraction(s, d) == Sees(s, d, ".") /\ ~Sees(s, d + 1, ".")

Number(s, i) ==
    LET whole    == RunEnd(s, i, Digit)
        float    == Fraction(s, whole)
        digits   == IF float THEN RunEnd(s, whole + 1, Digit) ELSE whole
        end      == RunEnd(s, digits, WordChar)
        suffix   == SubSeq(s, digits, end - 1)
        suffixes == IF float THEN FloatSuffix ELSE IntSuffix
    IN  IF float /\ digits = whole + 1 THEN Bad("fraction")
        ELSE IF suffix \notin suffixes \cup {<<>>} THEN Bad("suffix")
        ELSE Tok(IF float THEN "FLOAT" ELSE "INTEGER", <<SubSeq(s, i, digits - 1), suffix>>, end)

Word(s, i) ==
    LET end == RunEnd(s, i, WordChar)
        word == SubSeq(s, i, end - 1)
    IN  Tok(IF word \in Keyword THEN "KEYWORD" ELSE "IDENT", word, end)

(* _decode_escape: the character a backslash at i stands for.              *)
Escape(s, i) ==
    LET c      == s[i + 1]
        end    == RunEnd(s, i + 3, {s[k] : k \in DOMAIN s} \ {"}"})
        digits == SubSeq(s, i + 3, end - 1)
    IN  IF i + 1 > Len(s) THEN Bad("escape")
        ELSE IF c = "u" /\ Sees(s, i + 2, "{")
        THEN IF end > Len(s) \/ digits \notin DOMAIN CodePoint THEN Bad("unicode")
             ELSE Tok("ESCAPE", CodePoint[digits], end + 1)
        ELSE Tok("ESCAPE", CASE c = "n" -> "\n" [] c = "t" -> "\t" [] c = "r" -> "\r" [] OTHER -> c,
                 i + 2)

CharLiteral(s, i) ==
    LET body == IF Sees(s, i + 1, "\\") THEN Escape(s, i + 1) ELSE Tok("PLAIN", s[i + 1], i + 2)
    IN  IF i + 1 > Len(s) \/ Sees(s, i + 1, "'") THEN Bad("char")
        ELSE IF IsBad(body) \/ ~Sees(s, body.next, "'") THEN Bad("char")
        ELSE Tok("CHAR", body.value, body.next + 1)

(* _scan_interpolation_expr: the brace that ends an expression, 0 if none; *)
(* `quote' is the quote the scan is inside of.  A string in the expression *)
(* is skipped up to its next quote, whatever it interpolates itself.       *)
RECURSIVE ExprEndBare(_, _, _, _)
ExprEndBare(s, i, depth, quote) ==   \* mutant: knows nothing of quotes
    IF i > Len(s) THEN 0
    ELSE IF s[i] \in Opener THEN ExprEndBare(s, i + 1, depth + 1, quote)
    ELSE IF s[i] \in Closer
    THEN IF depth > 1 THEN ExprEndBare(s, i + 1, depth - 1, quote)
         ELSE IF s[i] = "}" THEN i ELSE 0
    ELSE ExprEndBare(s, i + 1, depth, quote)
RECURSIVE ExprEnd(_, _, _, _)
ExprEnd(s, i, depth, quote) ==
    IF i > Len(s) THEN 0
    ELSE IF quote # "none"
    THEN IF s[i] = "\\" THEN ExprEnd(s, i + 2, depth, quote)
         ELSE ExprEnd(s, i + 1, depth, IF s[i] = quote THEN "none" ELSE quote)
    ELSE IF s[i] \in Quote THEN ExprEnd(s, i + 1, depth, s[i])
    ELSE IF s[i] \in Opener THEN ExprEnd(s, i + 1, depth + 1, quote)
    ELSE IF s[i] \in Closer
    THEN IF depth > 1 THEN ExprEnd(s, i + 1, depth - 1, quote)
         ELSE IF s[i] = "}" THEN i ELSE 0
    ELSE ExprEnd(s, i + 1, depth, quote)

Strip(s) ==
    LET ink == {i \in DOMAIN s : s[i] \notin Blank}
    IN  IF ink = {} THEN <<>> ELSE SubSeq(s, Min(ink), Max(ink))

(* _scan_string: `text' and `parts' are what was read so far.              *)
Literal(text) == IF text = <<>> THEN <<>> ELSE <<[expr |-> FALSE, text |-> text]>>

RECURSIVE StringFrom(_, _, _, _)
StringFrom(s, i, text, parts) ==
    IF i > Len(s) THEN Bad("string")
    ELSE IF s[i] = "\"" THEN Tok("STRING", parts \o Literal(text), i + 1)
    ELSE IF s[i] = "\\"
    THEN LET c == Escape(s, i) IN
         IF IsBad(c) THEN c ELSE StringFrom(s, c.next, Append(text, c.value), parts)
    ELSE IF s[i] \in {"{", "}"} /\ Sees(s, i + 1, s[i])
    THEN StringFrom(s, i + 2, Append(text, s[i]), parts)
    ELSE IF s[i] = "{"
    THEN LET end  == ExprEnd(s, i + 1, 1, "none")
             expr == Strip(SubSeq(s, i + 1, end - 1))
         IN  IF end = 0 \/ expr = <<>> THEN Bad("interpolation")
             ELSE StringFrom(s, end + 1, <<>>, parts \o Literal(text) \o <<[expr |-> TRUE, text |-> expr]>>)
    ELSE IF s[i] = "}" THEN Bad("brace")
    ELSE StringFrom(s, i + 1, Append(text, s[i]), parts)

(* The operators of three characters are tried first, then those of two.   *)
Operator(s, i) ==
    LET fits == {k \in 1..3 : i + k - 1 <= Len(s) /\ SubSeq(s, i, i + k - 1) \in Symbol}
    IN  IF fits = {} THEN Bad("character") ELSE Tok("SYMBOL", SubSeq(s, i, i + Max(fits) - 1), i + Max(fits))

TokenAt(s, i) ==
    CASE s[i] \in Digit  -> Number(s, i)
      [] s[i] = "\""     -> StringFrom(s, i + 1, <<>>, <<>>)
      [] s[i] = "'"      -> CharLiteral(s, i)
      [] s[i] \in Letter -> Word(s, i)
      [] OTHER           -> Operator(s, i)

(* lex: the tokens from position i on, the last of them EOF or the error.  *)
RECURSIVE Lex(_, _)
Lex(s, i) ==
    IF i > Len(s) THEN <<Tok("EOF", <<>>, i)>>
    ELSE IF s[i] \in Blank THEN Lex(s, i + 1)
    ELSE IF s[i] = "#" THEN Lex(s, RunEnd(s, i, {s[k] : k \in DOMAIN s} \ {"\n"}))
    ELSE LET token == TokenAt(s, i) IN
         IF IsBad(token) THEN <<token>> ELSE <<token>> \o Lex(s, token.next)
Accepted(tokens) == ~IsBad(Last(tokens))

-----------------------------------------------------------------------------
(* The reference: which texts are tokens, without a scan.                  *)
Splits(text)     == {i \in 0..Len(text) : TRUE}
All(text, C)     == text # <<>> /\ \A i \in DOMAIN text : text[i] \in C
Cut(text, i)     == <<SubSeq(text, 1, i), SubSeq(text, i + 1, Len(text))>>
IsDigits(text)   == All(text, Digit)
IsInteger(text)  == \E i \in Splits(text) : IsDigits(Cut(text, i)[1]) /\ Cut(text, i)[2] \in IntSuffix \cup {<<>>}
IsFraction(text) == \E i \in DOMAIN text : text[i] = "." /\ IsDigits(SubSeq(text, 1, i - 1))
                                              /\ IsDigits(SubSeq(text, i + 1, Len(text)))
IsFloat(text)    == \E i \in Splits(text) : IsFraction(Cut(text, i)[1]) /\ Cut(text, i)[2] \in FloatSuffix \cup {<<>>}
IsWord(text)     == All(text, WordChar) /\ text[1] \in Letter
IsPlain(text)    == IsInteger(text) \/ IsFloat(text) \/ IsWord(text) \/ text \in Symbol

(* lexer.py:258-343: in an accepted source without literals and comments,  *)
(* the tokens are the longest texts that are tokens, one after the other,  *)
(* with nothing but blanks between them.                                   *)
Munches(s) ==
    LET tokens == Lex(s, 1)
        from(n) == IF n = 1 THEN 1 ELSE tokens[n - 1].next
        start(n) == RunEnd(s, from(n), Blank)
    IN  Accepted(tokens) =>
            \A n \in 1..(Len(tokens) - 1) :
                /\ IsPlain(SubSeq(s, start(n), tokens[n].next - 1))
                /\ \A end \in tokens[n].next..Len(s) : ~IsPlain(SubSeq(s, start(n), end))

(* lexer.py:258-287: a source of plain characters is rejected only for a   *)
(* number that runs into letters or lacks its fraction.                    *)
RejectsNumbers(s) ==
    LET tokens == Lex(s, 1) IN
    ~Accepted(tokens) => Last(tokens).value \in {"fraction", "suffix"}

(* lexer.py:135-165, 233-252: a character literal is the character, spelled*)
(* as itself, behind a backslash or by its code point.                     *)
Spellings(c) ==
    {<<"\\", "u", "{">> \o digits \o <<"}">> : digits \in {d \in DOMAIN CodePoint : CodePoint[d] = c}}
    \cup (IF c \in {"'", "\\"} THEN {} ELSE {<<c>>})
    \cup (IF c \in {"n", "t", "r"} THEN {} ELSE {<<"\\", IF c = "\n" THEN "n" ELSE c>>})
ReadsCharacter(c) ==
    \A spelling \in Spellings(c) :
        LET tokens == Lex(<<"'">> \o spelling \o <<"'">>, 1) IN
        Len(tokens) = 2 /\ tokens[1].kind = "CHAR" /\ tokens[1].value = c

(* How a string literal is spelled: parts that are text or an expression,  *)
(* an expression being words and literals again.                           *)
SpelledChar(c) ==
    CASE c \in {"\"", "\\"} -> <<"\\", c>> [] c = "\n" -> <<"\\", "n">>
      [] c \in {"{", "}"} -> <<c, c>> [] OTHER -> <<c>>
RECURSIVE SpelledString(_), SpelledItem(_)
SpelledItem(item) ==
    IF item.string THEN SpelledString(item.parts) ELSE item.text
SpelledPart(part) ==
    IF part.expr THEN <<"{", " ">> \o FlattenSeq([i \in DOMAIN part.items |-> SpelledItem(part.items[i])]) \o <<" ", "}">>
    ELSE FlattenSeq([i \in DOMAIN part.text |-> SpelledChar(part.text[i])])
SpelledString(parts) ==
    <<"\"">> \o FlattenSeq([i \in DOMAIN parts |-> SpelledPart(parts[i])]) \o <<"\"">>

(* The parts a literal should have: its texts, and the spelled expressions *)
Meant(parts) ==
    [i \in DOMAIN parts |->
        IF parts[i].expr
        THEN [expr |-> TRUE,
              text |-> FlattenSeq([j \in DOMAIN parts[i].items |-> SpelledItem(parts[i].items[j])])]
        ELSE [expr |-> FALSE, text |-> parts[i].text]]

(* An expression in a string in an expression that has a quote of its own. *)
Strings(parts) ==
    UNION {{parts[i].items[j].parts : j \in {k \in DOMAIN parts[i].items : parts[i].items[k].string}} :
               i \in {k \in DOMAIN parts : parts[k].expr}}
HasQuote(parts) ==
    \E i \in DOMAIN parts : parts[i].expr /\ \E j \in DOMAIN parts[i].items :
        \E c \in ToSet(SpelledItem(parts[i].items[j])) : c \in Quote
DeepQuote(parts) == \E inner \in Strings(parts) : HasQuote(inner)

(* lexer.py:148-220: a string literal is read as the texts and expressions *)
(* it was spelled from, except that a quote two literals deep may end an   *)
(* expression early.                                                       *)
ReadsBack(parts) ==
    ~DeepQuote(parts) =>
        LET tokens == Lex(SpelledString(parts), 1) IN
        Len(tokens) = 2 /\ tokens[1].kind = "STRING" /\ tokens[1].value = Meant(parts)
===============================================================================
