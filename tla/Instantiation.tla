----------------------------- MODULE Instantiation -----------------------------
(***************************************************************************)
(* The loops of monomorphize (compiler/generics.py:388-402) over any       *)
(* declarations, reduced to the instances that each of them asks for: its  *)
(* own uses and types do, and so do the defaults that its calls omit.      *)
(* The ordinary declarations are walked, then the instances while they     *)
(* grow, then the omitted defaults of all of these; a round that added an  *)
(* instance is followed by another.                                        *)
(***************************************************************************)
EXTENDS Integers, Sequences, SequencesExt

CONSTANTS
    Asks(_, _),     \* the instances a declaration asks for, given the templates
    Omits(_, _)     \* those that the defaults its calls omit ask for

VARIABLES
    templates,      \* the generic declarations
    ordinary,       \* the other declarations
    generated,      \* the instances, each as it was asked for
    phase, at,      \* the loop that is running, and its position
    before,         \* len(generated) when the round began
    limit           \* the end of `ordinary + generated', a copy

vars == <<templates, ordinary, generated, phase, at, before, limit>>

All == ordinary \o generated

Init ==
    /\ ordinary \in Seq(ToSet(ordinary)) /\ generated = <<>>
    /\ phase = "ordinary" /\ at = 1 /\ before = 0 /\ limit = 0

(* What is asked for and not there yet is added, once, in any order.       *)
Request(S) ==
    /\ generated' \in Seq(ToSet(generated) \cup S)
    /\ IsPrefix(generated, generated') /\ IsInjective(generated')
    /\ ToSet(generated') = ToSet(generated) \cup S

WalkOrdinary ==
    /\ phase = "ordinary" /\ at <= Len(ordinary)
    /\ phase' = phase /\ Request(Asks(templates, ordinary[at]))
    /\ at' = at + 1 /\ UNCHANGED <<templates, ordinary, before, limit>>

WalkGenerated ==
    /\ phase = "generated" /\ at <= Len(generated)
    /\ phase' = phase /\ Request(Asks(templates, generated[at]))
    /\ at' = at + 1 /\ UNCHANGED <<templates, ordinary, before, limit>>

WalkDefaults ==
    /\ phase = "defaults" /\ at <= limit
    /\ phase' = phase /\ Request(Omits(templates, All[at]))
    /\ at' = at + 1 /\ UNCHANGED <<templates, ordinary, before, limit>>

(* The ends of the three loops and of `while changed'.                     *)
NextLoop ==
    /\ at' = 1 /\ UNCHANGED <<templates, ordinary, generated>>
    /\ \/ /\ phase = "ordinary" /\ at > Len(ordinary)
          /\ phase' = "generated" /\ UNCHANGED <<before, limit>>
       \/ /\ phase = "generated" /\ at > Len(generated)
          /\ phase' = "defaults" /\ limit' = Len(ordinary) + Len(generated) /\ UNCHANGED before
       \/ /\ phase = "defaults" /\ at > limit
          /\ phase' = (IF Len(generated) # before THEN "ordinary" ELSE "done")
          /\ before' = Len(generated) /\ UNCHANGED limit

(* GenericError: a declaration misuses a template.                         *)
Refuse ==
    /\ phase \in {"ordinary", "generated", "defaults"} /\ phase' = "error"
    /\ UNCHANGED <<templates, ordinary, generated, at, before, limit>>

Next == WalkOrdinary \/ WalkGenerated \/ WalkDefaults \/ NextLoop \/ Refuse

Spec == Init /\ [][Next]_vars

-----------------------------------------------------------------------------
Needs(d)  == Asks(templates, d) \cup Omits(templates, d)
Closed(S) == \A d \in ToSet(ordinary) \cup S : Needs(d) \subseteq S

(* generics.py:230-243: no instance is made twice, and each is asked for   *)
(* by an ordinary declaration or by an instance that was made before it.   *)
OnlyNeeded ==
    /\ IsInjective(generated)
    /\ \A i \in DOMAIN generated :
          \/ \E j \in DOMAIN ordinary : generated[i] \in Needs(ordinary[j])
          \/ \E j \in 1..(i - 1) : generated[i] \in Needs(generated[j])

(* generics.py:388-400: when a round adds nothing the instances are the    *)
(* least set that the program needs: nothing is missing, though the walks  *)
(* of one round took place at different times and the last of them ends    *)
(* where the list did when it began, and nothing could be left out.        *)
LeastClosed ==
    phase = "done" =>
        /\ Closed(ToSet(generated))
        /\ \A S \in SUBSET ToSet(generated) : Closed(S) => S = ToSet(generated)

-----------------------------------------------------------------------------
(* The inductive invariant behind these.                                   *)
TypeOK ==
    /\ ordinary \in Seq(ToSet(ordinary)) /\ generated \in Seq(ToSet(generated))
    /\ phase \in {"ordinary", "generated", "defaults", "done", "error"}
    /\ at \in Nat \ {0} /\ before \in 0..Len(generated) /\ limit \in Nat

(* What a loop has passed is served, also where it grew in the meantime.   *)
AsksServed(decls, n)  == \A i \in 1..n : Asks(templates, decls[i]) \subseteq ToSet(generated)
OmitsServed(decls, n) == \A i \in 1..n : Omits(templates, decls[i]) \subseteq ToSet(generated)

(* The walk of the defaults covers the first `limit' of All: these are at  *)
(* least as many as when the round began, so all if the round added none.  *)
RoundInv ==
    /\ phase = "ordinary" => at <= Len(ordinary) + 1 /\ AsksServed(ordinary, at - 1)
    /\ phase \in {"generated", "defaults", "done"} => AsksServed(ordinary, Len(ordinary))
    /\ phase = "generated" => at <= Len(generated) + 1 /\ AsksServed(generated, at - 1)
    /\ phase = "defaults" =>
          /\ at <= limit + 1 /\ limit - Len(ordinary) \in before..Len(generated)
          /\ AsksServed(generated, limit - Len(ordinary)) /\ OmitsServed(All, at - 1)
    /\ phase = "done" => AsksServed(generated, Len(generated)) /\ OmitsServed(All, Len(All))

LoopInv == TypeOK /\ OnlyNeeded /\ RoundInv
=============================================================================
