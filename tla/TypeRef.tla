-------------------------------- MODULE TypeRef --------------------------------
(***************************************************************************)
(* Type references and their keys (compiler/type_ref.py).  Types are equal *)
(* when their keys are, and a key is turned back into a type wherever the  *)
(* compiler has only the text.  A key is a sequence of tokens here.        *)
(***************************************************************************)
EXTENDS Naturals, Sequences, FiniteSets, SequencesExt

(* `flag' is nullable or fallible; the last argument of a function type is *)
(* its result.                                                             *)
Ty(form, name, flag, args) == [form |-> form, name |-> name, flag |-> flag, args |-> args]
Named(name)                == Ty("named", name, FALSE, <<>>)
Pointer(inner, nullable)   == Ty("pointer", "", nullable, <<inner>>)
SliceOf(elem)              == Ty("slice", "", FALSE, <<elem>>)
ArrayOf(length, elem)      == Ty("array", length, FALSE, <<elem>>)
Fn(params, ret, fallible)  == Ty("fn", "", fallible, Append(params, ret))
Generic(base, args)        == Ty("generic", base, FALSE, args)
Returned(t)                == Last(t.args)

Each(Op(_), s) == FoldLeft(LAMBDA done, x : Append(done, Op(x)), <<>>, s)
Joined(texts) ==
    FlattenSeq([i \in DOMAIN texts |-> IF i = 1 THEN texts[i] ELSE <<",">> \o texts[i]])

(* format_type_ref.                                                        *)
RECURSIVE Key(_)
Key(t) ==
    LET keys == Each(Key, t.args) IN
    CASE t.form = "named"   -> <<t.name>>
      [] t.form = "pointer" -> <<IF t.flag THEN "?*" ELSE "*">> \o keys[1]
      [] t.form = "slice"   -> <<"[", "]">> \o keys[1]
      [] t.form = "array"   -> <<"[", t.name, "]">> \o keys[1]
      [] t.form = "fn"      -> <<"fn(">> \o Joined(Front(keys)) \o <<")", "->">> \o Last(keys)
                               \o (IF t.flag THEN <<"err">> ELSE <<>>)
      [] t.form = "generic" -> <<t.name, "[">> \o Joined(keys) \o <<"]">>

-----------------------------------------------------------------------------
Count(s, i, C)       == Cardinality({k \in 1..i : s[k] \in C})
Matching(s, i, o, c) ==   \* _find_matching, 0 if there is none
    LET ends == {j \in i..Len(s) : s[j] = c /\ Count(SubSeq(s, i, j), j - i + 1, {o})
                                                = Count(SubSeq(s, i, j), j - i + 1, {c})}
    IN  IF ends = {} THEN 0 ELSE Min(ends)

(* split_top_level.                                                        *)
PartsFlat(s) ==   \* mutant: splits at the commas inside brackets too
    LET cuts == SetToSortSeq({0, Len(s) + 1} \cup {i \in DOMAIN s : s[i] = ","}, <)
        all == [n \in 1..(Len(cuts) - 1) |-> SubSeq(s, cuts[n] + 1, cuts[n + 1] - 1)]
    IN  SelectSeq(all, LAMBDA part : part # <<>>)
Parts(s) ==
    LET top(i) == /\ Count(s, i, {"["}) = Count(s, i, {"]"})
                  /\ Count(s, i, {"fn("}) = Count(s, i, {")"})
        cuts == SetToSortSeq({0, Len(s) + 1} \cup {i \in DOMAIN s : s[i] = "," /\ top(i)}, <)
        all == [n \in 1..(Len(cuts) - 1) |-> SubSeq(s, cuts[n] + 1, cuts[n + 1] - 1)]
    IN  SelectSeq(all, LAMBDA part : part # <<>>)

(* parse_type_ref.                                                         *)
RECURSIVE OfKey(_)
OfKey(s) ==
    LET from(i)  == SubSeq(s, i, Len(s))
        types(t) == [i \in DOMAIN Parts(t) |-> OfKey(Parts(t)[i])]
        close    == Matching(s, 1, "fn(", ")")
        ret      == from(close + 2)
        open     == CHOOSE i \in DOMAIN s : s[i] = "[" /\ \A j \in 1..(i - 1) : s[j] # "["
    IN
    CASE Head(s) = "?*" -> Pointer(OfKey(Tail(s)), TRUE)
      [] Head(s) = "*"  -> Pointer(OfKey(Tail(s)), FALSE)
      [] Head(s) = "[" /\ s[2] = "]" -> SliceOf(OfKey(from(3)))
      [] Head(s) = "[" /\ s[2] # "]" -> ArrayOf(s[2], OfKey(from(4)))
      [] Head(s) = "fn(" -> IF Last(ret) = "err" THEN Fn(types(SubSeq(s, 2, close - 1)), OfKey(Front(ret)), TRUE)
                            ELSE Fn(types(SubSeq(s, 2, close - 1)), OfKey(ret), FALSE)
      [] OTHER -> IF "[" \in ToSet(s) /\ Last(s) = "]" /\ Matching(s, open, "[", "]") = Len(s)
                  THEN Generic(Head(s), types(SubSeq(s, open + 1, Len(s) - 1))) ELSE Named(Head(s))

(* rewrite_type_ref: the named types are replaced by Sub.                  *)
RECURSIVE Rewritten(_, _)
Rewritten(t, Sub) ==
    IF t.form = "named" THEN IF t.name \in DOMAIN Sub THEN Sub[t.name] ELSE t
    ELSE [t EXCEPT !.name = IF t.form = "generic" /\ t.name \in DOMAIN Sub THEN Sub[t.name].name ELSE t.name,
                   !.args = [i \in DOMAIN t.args |-> Rewritten(t.args[i], Sub)]]

-----------------------------------------------------------------------------
(* The function types at the end of a key, from the outside in: the `err's *)
(* that end the key are all theirs.                                        *)
RECURSIVE Spine(_)
Spine(t) ==
    IF t.form = "fn" THEN <<t.flag>> \o Spine(Returned(t))
    ELSE IF t.form \in {"pointer", "slice", "array"} THEN Spine(t.args[1]) ELSE <<>>
RECURSIVE WithSpine(_, _)
WithSpine(t, flags) ==
    CASE t.form = "fn" ->
            [t EXCEPT !.flag = Head(flags), !.args[Len(t.args)] = WithSpine(@, Tail(flags))]
      [] t.form \in {"pointer", "slice", "array"} -> [t EXCEPT !.args[1] = WithSpine(@, flags)]
      [] OTHER -> t

(* The type a key denotes: as many functions fallible, the outermost first.*)
RECURSIVE Outermost(_)
Outermost(t) ==
    LET count == Cardinality({i \in DOMAIN Spine(t) : Spine(t)[i]})
        spine(u) == WithSpine(u, [i \in DOMAIN Spine(t) |-> i <= count])
    IN  spine([t EXCEPT !.args = [i \in DOMAIN t.args |-> Outermost(t.args[i])]])

(* type_ref.py:142-218: a type survives the way through its key, and two   *)
(* types have the same key only if they are the same, but for which of the *)
(* functions that return each other is the fallible one.                   *)
KeysFaithful(t, u) ==
    /\ OfKey(Key(t)) = Outermost(t)
    /\ Key(t) = Key(u) <=> Outermost(t) = Outermost(u)
    /\ Outermost(t) = t <=> OfKey(Key(t)) = t
===============================================================================
