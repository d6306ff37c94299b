------------------------------- MODULE TypeRules -------------------------------
(***************************************************************************)
(* What a type can be used for (compiler/type_rules.py): as a map key, as  *)
(* a map value, with ==, with <, with size_of.  A world holds the          *)
(* declarations of a program: the fields of its structs, their embedded    *)
(* fields, its enums and ifaces, and by struct the types of the parameters *)
(* and of the result of its __lt__ ("" if none is written).                *)
(***************************************************************************)
EXTENDS TypeRef

Whole == {"i8", "i16", "i32", "i64", "u8", "u16", "u32", "u64"}
Float    == {"f32", "f64"}
Numeric  == Whole \cup Float
Scalar   == Numeric \cup {"bool", "str", "rune"}

Declared(w)     == DOMAIN w.fields \cup w.enums \cup w.ifaces
IsMap(t)        == t.form = "generic" /\ t.name = "map" /\ Len(t.args) = 2
IsNamed(t, C)   == t.form = "named" /\ t.name \in C
IsStruct(w, t)  == IsNamed(t, DOMAIN w.fields)

(* What a check says of a type before it looks into it: "ok", "bad", or    *)
(* "inside", by its fields or elements.                                    *)
HashVerdict(w, t) ==
    CASE IsNamed(t, Float) -> "bad"
      [] IsNamed(t, (Scalar \ Float) \cup w.enums) \/ t.form = "pointer" -> "ok"
      [] IsStruct(w, t) -> "inside"
      [] OTHER -> "bad"
EqVerdict(w, t) ==
    CASE IsNamed(t, Scalar \cup w.enums) \/ t.form = "pointer" -> "ok"
      [] IsStruct(w, t) -> "inside"
      [] OTHER -> "bad"
ZeroVerdict(w, t) ==
    CASE IsNamed(t, Scalar \cup w.enums \cup w.ifaces) \/ IsMap(t) -> "ok"
      [] t.form = "pointer" -> IF t.flag THEN "ok" ELSE "bad"
      [] t.form \in {"slice", "fn"} -> "ok"
      [] IsStruct(w, t) \/ t.form = "array" -> "inside"
      [] OTHER -> "bad"
Verdict(rule, w, t) ==
    CASE rule = "hash" -> HashVerdict(w, t) [] rule = "eq" -> EqVerdict(w, t)
      [] rule = "zero" -> ZeroVerdict(w, t)

Inside(w, t) == IF t.form = "array" THEN t.args ELSE w.fields[t.name]

(* The recursion of hash_comparable_error_type, comparable_error_type and  *)
(* zero_value_error_type with the set `seen' they share: a type that was   *)
(* seen is not looked at again.                                            *)
RECURSIVE Check(_, _, _, _), CheckEach(_, _, _, _)
CheckEach(rule, w, types, seen) ==
    IF types = <<>> THEN [bad |-> FALSE, seen |-> seen]
    ELSE LET first == Check(rule, w, Head(types), seen) IN
         IF first.bad THEN first ELSE CheckEach(rule, w, Tail(types), first.seen)
CheckSeenBad(rule, w, t, seen) ==   \* mutant: a struct met again is wrong
    IF t \in seen THEN [bad |-> TRUE, seen |-> seen]
    ELSE IF Verdict(rule, w, t) = "inside" THEN CheckEach(rule, w, Inside(w, t), seen \cup {t})
    ELSE [bad |-> Verdict(rule, w, t) = "bad", seen |-> seen \cup {t}]
Check(rule, w, t, seen) ==
    IF t \in seen THEN [bad |-> FALSE, seen |-> seen]
    ELSE IF Verdict(rule, w, t) = "inside" THEN CheckEach(rule, w, Inside(w, t), seen \cup {t})
    ELSE [bad |-> Verdict(rule, w, t) = "bad", seen |-> seen \cup {t}]
Satisfies(rule, w, t) == ~Check(rule, w, t, {}).bad

(* _resolve_struct_method for __lt__: a struct's own method, or the only   *)
(* one its embedded fields lead to; each is looked for in the field and    *)
(* again below it.                                                         *)
RECURSIVE Resolved(_, _, _)
Resolved(w, name, seen) ==
    LET base(t) == IF t.form = "pointer" THEN t.args[1].name ELSE t.name
        found(t) == IF base(t) \in seen THEN <<>>
                    ELSE (IF base(t) \in DOMAIN w.lt THEN <<w.lt[base(t)]>> ELSE <<>>) \o Resolved(w, base(t), seen)
        all == FlattenSeq([i \in DOMAIN w.embeds[name] |-> found(w.embeds[name][i])])
    IN  IF name \in DOMAIN w.lt THEN <<w.lt[name]>>
        ELSE IF name \in DOMAIN w.embeds /\ Len(all) = 1 THEN all ELSE <<>>

(* ord_error_type: the __lt__ that is resolved takes one t and gives bool. *)
Compares(lt, t) == lt.params = <<t>> /\ lt.ret \in {"", "bool"}
Ordered(w, t) ==
    \/ IsNamed(t, Numeric \cup {"str"})
    \/ /\ IsStruct(w, t)
       /\ LET lts == Resolved(w, t.name, {t.name}) IN lts # <<>> /\ Compares(lts[1], t)

(* The walk of validate_sized_type, and the check of the whole type with   *)
(* validate_map_type that it makes at each map it comes to: maps inside    *)
(* other types are not checked.                                            *)
RECURSIVE Walks(_, _, _), Sized(_, _, _)
Walks(w, t, voidAllowed) ==
    CASE t.form = "named"   -> t.name \in Scalar \cup {"error", "raw"} \cup Declared(w) \/ (t.name = "void" /\ voidAllowed)
      [] t.form = "pointer" -> Walks(w, t.args[1], TRUE)
      [] t.form \in {"slice", "array"} -> Walks(w, t.args[1], FALSE)
      [] t.form = "fn"      -> /\ \A i \in 1..(Len(t.args) - 1) : Walks(w, t.args[i], FALSE)
                               /\ Walks(w, Returned(t), TRUE)
      [] t.form = "generic" -> IsMap(t) /\ \A i \in 1..2 : Walks(w, t.args[i], FALSE)
Sized(w, t, voidAllowed) ==
    /\ Walks(w, t, voidAllowed)
    /\ IsMap(t) => /\ Satisfies("hash", w, t.args[1])
                   /\ Sized(w, t.args[2], FALSE) /\ Satisfies("zero", w, t.args[2])

RECURSIVE ExternAbi(_)
ExternAbi(t) == IsNamed(t, Numeric \cup {"void", "bool"}) \/ (t.form = "pointer" /\ ExternAbi(t.args[1]))

-----------------------------------------------------------------------------
(* docs/generics.md: the matrix of type properties, but for structs and    *)
(* arrays, which have them if their parts do.                              *)
Matrix(rule, w, t) ==
    \/ IsNamed(t, Whole \cup {"bool", "str", "rune"} \cup w.enums)
    \/ IsNamed(t, Float) /\ rule # "hash"
    \/ t.form = "pointer" /\ (rule # "zero" \/ t.flag)
    \/ rule = "zero" /\ (t.form \in {"slice", "fn"} \/ IsMap(t) \/ IsNamed(t, w.ifaces))
Composite(rule, w, t) == IsStruct(w, t) \/ (t.form = "array" /\ rule = "zero")

(* The types a type is made of: the least set closed under its parts.      *)
RECURSIVE Within(_, _, _)
Within(rule, w, S) ==
    LET more == S \cup UNION {ToSet(Inside(w, t)) : t \in {u \in S : Composite(rule, w, u)}}
    IN  IF more = S THEN S ELSE Within(rule, w, more)

(* All types a type is written with, and the maps among them that are      *)
(* checked: it, its value, the value of that.                              *)
RECURSIVE Written(_), MapsOf(_)
Written(t) == {t} \cup UNION {Written(t.args[i]) : i \in DOMAIN t.args}
MapsOf(t)  == IF IsMap(t) THEN {t} \cup MapsOf(t.args[2]) ELSE {}
WithSize(t) ==   \* the parts of t that must have a size
    CASE t.form = "pointer" -> {} [] t.form = "fn" -> ToSet(Front(t.args)) [] OTHER -> ToSet(t.args)

(* type_rules.py:65-307 against docs/generics.md: on every set of structs, *)
(* recursive ones too, the checks end, and a type hashes, compares or has  *)
(* a zero exactly when all it is made of does; what hashes also compares;  *)
(* a struct orders exactly when it has a valid __lt__ of its own, an       *)
(* embedded one does not count.                                            *)
RulesExact(w, t) ==
    /\ \A rule \in {"hash", "eq", "zero"} :
           Satisfies(rule, w, t) <=>
               \A u \in Within(rule, w, {t}) : Composite(rule, w, u) \/ Matrix(rule, w, u)
    /\ Satisfies("hash", w, t) => Satisfies("eq", w, t)
    /\ IsStruct(w, t) => (Ordered(w, t) <=> t.name \in DOMAIN w.lt /\ Compares(w.lt[t.name], t))

(* type_rules.py:149-221: a type has a size exactly when it is written     *)
(* with known types, void only behind a pointer or as a result, and each   *)
(* map that is checked has keys that hash and values with a zero.          *)
SizedExact(w, t) ==
    Sized(w, t, FALSE) <=>
        /\ \A u \in Written(t) :
               /\ IsNamed(u, Scalar \cup {"error", "raw", "void"} \cup Declared(w)) \/ IsMap(u)
                  \/ u.form \notin {"named", "generic"}
               /\ Named("void") \notin WithSize(u)
        /\ t # Named("void")
        /\ \A m \in MapsOf(t) :
               \A u \in Within("hash", w, {m.args[1]}) \X Within("zero", w, {m.args[2]}) :
                   /\ Composite("hash", w, u[1]) \/ Matrix("hash", w, u[1])
                   /\ Composite("zero", w, u[2]) \/ Matrix("zero", w, u[2])
===============================================================================
