-------------------------- MODULE InstantiationProofs --------------------------
(***************************************************************************)
(* The loops of monomorphize make exactly what the program needs, for any  *)
(* declarations and whatever these ask for.                                *)
(***************************************************************************)
EXTENDS Instantiation, FiniteSetTheorems, WellFoundedInduction, SequenceTheorems, TLAPS

(* ordinary + generated, position by position (generics.py:394).           *)
LEMMA AllElements ==
    ASSUME TypeOK
    PROVE  /\ Len(All) = Len(ordinary) + Len(generated)
           /\ \A i \in 1..Len(ordinary) : All[i] = ordinary[i]
           /\ \A i \in 1..Len(generated) : All[Len(ordinary) + i] = generated[i]
<1>1. ordinary \in Seq(ToSet(ordinary) \cup ToSet(generated))
      /\ generated \in Seq(ToSet(ordinary) \cup ToSet(generated))
  BY DEF TypeOK, ToSet
<1> QED BY <1>1, ConcatProperties DEF All

(* A request appends to the instances, and only what was asked for and is  *)
(* new (generics.py:230-243).                                              *)
LEMMA RequestGrows ==
    ASSUME TypeOK, NEW S, Request(S)
    PROVE  /\ generated' \in Seq(ToSet(generated'))
           /\ Len(generated) <= Len(generated')
           /\ \A i \in 1..Len(generated) : generated'[i] = generated[i]
           /\ \A i \in (Len(generated) + 1)..Len(generated') : generated'[i] \in S
           /\ ToSet(generated) \subseteq ToSet(generated') /\ S \subseteq ToSet(generated')
           /\ IsInjective(generated')
<1>1. generated \in Seq(ToSet(generated)) /\ generated' \in Seq(ToSet(generated) \cup S)
      /\ ToSet(generated') = ToSet(generated) \cup S /\ IsInjective(generated')
      /\ Len(generated) <= Len(generated')
      /\ SubSeq(generated, 1, Len(generated)) = SubSeq(generated', 1, Len(generated))
  BY DEF TypeOK, Request, IsPrefix
<1>2. ASSUME NEW i \in 1..Len(generated)
      PROVE  generated'[i] = generated[i]
  <2>1. SubSeq(generated, 1, Len(generated))[i] = generated[i]
    BY <1>1
  <2>2. SubSeq(generated', 1, Len(generated))[i] = generated'[i]
    BY <1>1
  <2> QED BY <1>1, <2>1, <2>2
<1>3. ASSUME NEW i \in (Len(generated) + 1)..Len(generated')
      PROVE  generated'[i] \in S
  <2>1. i \in DOMAIN generated' /\ generated'[i] \in ToSet(generated) \cup S
    BY <1>1 DEF ToSet
  <2>2. SUFFICES ASSUME generated'[i] \in ToSet(generated) PROVE FALSE
    BY <2>1
  <2>3. PICK j \in 1..Len(generated) : generated[j] = generated'[i]
    BY <1>1, <2>2 DEF ToSet
  <2>4. j \in DOMAIN generated' /\ generated'[j] = generated'[i] /\ j # i
    BY <1>1, <1>2, <2>3
  <2> QED BY <1>1, <2>1, <2>4 DEF IsInjective
<1> QED BY <1>1, <1>2, <1>3

(* Both lists keep what they have, position by position.                   *)
LEMMA AllStays ==
    ASSUME TypeOK, NEW S, Request(S), UNCHANGED ordinary
    PROVE  \A i \in 1..Len(All) : All'[i] = All[i]
<1>1. /\ generated' \in Seq(ToSet(generated')) /\ Len(generated) <= Len(generated')
      /\ \A i \in 1..Len(generated) : generated'[i] = generated[i]
  BY RequestGrows
<1>2. /\ Len(ordinary) \in Nat /\ Len(generated) \in Nat /\ Len(generated') \in Nat
      /\ Len(All) = Len(ordinary) + Len(generated)
  BY <1>1, AllElements DEF TypeOK
<1>3. ASSUME NEW i \in 1..Len(All)
      PROVE  All'[i] = All[i]
  <2>1. /\ All = ordinary \o generated /\ All' = ordinary \o generated'
        /\ ordinary \in Seq(ToSet(ordinary) \cup ToSet(generated) \cup ToSet(generated'))
        /\ generated \in Seq(ToSet(ordinary) \cup ToSet(generated) \cup ToSet(generated'))
        /\ generated' \in Seq(ToSet(ordinary) \cup ToSet(generated) \cup ToSet(generated'))
    BY <1>1 DEF All, TypeOK, ToSet
  <2>2. CASE i <= Len(ordinary)
    BY <1>2, <2>1, <2>2, ConcatProperties
  <2>3. CASE i > Len(ordinary)
    <3>1. i - Len(ordinary) \in 1..Len(generated)
      BY <1>2, <2>3
    <3> QED BY <1>1, <1>2, <2>1, <2>3, <3>1, ConcatProperties
  <2> QED BY <1>2, <2>2, <2>3
<1> QED BY <1>3

(* What is served stays served: instances are never taken back.            *)
LEMMA ServedStays ==
    ASSUME TypeOK, NEW S, Request(S), UNCHANGED <<templates, ordinary>>
    PROVE  /\ \A n \in 0..Len(ordinary) : AsksServed(ordinary, n) => AsksServed(ordinary, n)'
           /\ \A n \in 0..Len(generated) : AsksServed(generated, n) => AsksServed(generated, n)'
           /\ \A n \in 0..Len(All) : OmitsServed(All, n) => OmitsServed(All, n)'
<1>1. /\ generated' \in Seq(ToSet(generated')) /\ Len(generated) <= Len(generated')
      /\ \A i \in 1..Len(generated) : generated'[i] = generated[i]
      /\ ToSet(generated) \subseteq ToSet(generated')
  BY RequestGrows
<1>2. /\ Len(ordinary) \in Nat /\ Len(generated) \in Nat /\ Len(generated') \in Nat
      /\ \A i \in 1..Len(All) : All'[i] = All[i]
  BY <1>1, AllStays DEF TypeOK
<1>3. \A n \in 0..Len(ordinary) : AsksServed(ordinary, n) => AsksServed(ordinary, n)'
  BY <1>1 DEF AsksServed
<1>4. \A n \in 0..Len(generated) : AsksServed(generated, n) => AsksServed(generated, n)'
  BY <1>1, <1>2 DEF AsksServed
<1>5. \A n \in 0..Len(All) : OmitsServed(All, n) => OmitsServed(All, n)'
  BY <1>1, <1>2 DEF OmitsServed
<1> QED BY <1>3, <1>4, <1>5

(* A request for what a declaration needs, which is in the lists already,  *)
(* leaves each instance needed by something before it.                     *)
LEMMA NeededStays ==
    ASSUME TypeOK, OnlyNeeded, NEW S, Request(S), UNCHANGED <<templates, ordinary>>,
           \/ \E j \in DOMAIN ordinary : S \subseteq Needs(ordinary[j])
           \/ \E j \in DOMAIN generated : S \subseteq Needs(generated[j])
    PROVE  OnlyNeeded'
<1>1. /\ generated' \in Seq(ToSet(generated')) /\ Len(generated) <= Len(generated')
      /\ \A i \in 1..Len(generated) : generated'[i] = generated[i]
      /\ \A i \in (Len(generated) + 1)..Len(generated') : generated'[i] \in S
      /\ IsInjective(generated')
  BY RequestGrows
<1>2. DOMAIN generated' = 1..Len(generated') /\ DOMAIN generated = 1..Len(generated)
      /\ Len(generated) \in Nat /\ Len(generated') \in Nat
  BY <1>1 DEF TypeOK
<1>3. ASSUME NEW i \in 1..Len(generated')
      PROVE  \/ (\E j \in DOMAIN ordinary : generated[i] \in Needs(ordinary[j]))'
             \/ (\E j \in 1..(i - 1) : generated[i] \in Needs(generated[j]))'
  <2>1. CASE i <= Len(generated)
    <3>1. generated'[i] = generated[i] /\ \A j \in 1..(i - 1) : generated'[j] = generated[j]
      BY <1>1, <1>2, <2>1
    <3> QED BY <1>2, <2>1, <3>1 DEF OnlyNeeded, Needs
  <2>2. CASE i > Len(generated)
    <3>1. generated'[i] \in S
      BY <1>1, <1>2, <2>2
    <3>2. \A j \in DOMAIN generated : j \in 1..(i - 1) /\ generated'[j] = generated[j]
      BY <1>1, <1>2, <2>2
    <3> QED BY <3>1, <3>2 DEF Needs
  <2> QED BY <1>2, <2>1, <2>2
<1> QED BY <1>1, <1>2, <1>3 DEF OnlyNeeded

-----------------------------------------------------------------------------
(* Steps of the three loops: what they ask for is needed by the one that   *)
(* is walked, and it is served when they go on (generics.py:391-393).      *)
LEMMA WalkOrdinaryInv == LoopInv /\ WalkOrdinary => LoopInv'
<1> SUFFICES ASSUME LoopInv, WalkOrdinary PROVE LoopInv'
  OBVIOUS
<1>1. /\ TypeOK /\ OnlyNeeded /\ RoundInv /\ phase = "ordinary" /\ at \in DOMAIN ordinary
      /\ Request(Asks(templates, ordinary[at])) /\ UNCHANGED <<templates, ordinary>>
      /\ Len(ordinary) \in Nat
  BY DEF LoopInv, WalkOrdinary, TypeOK
<1>2. OnlyNeeded'
  BY <1>1, NeededStays DEF Needs
<1>3. TypeOK'
  BY <1>1, RequestGrows DEF TypeOK, WalkOrdinary
<1>4. AsksServed(ordinary, at - 1)' /\ Asks(templates, ordinary[at]) \subseteq ToSet(generated')
  <2>1. at - 1 \in 0..Len(ordinary) /\ AsksServed(ordinary, at - 1)
    BY <1>1 DEF RoundInv, TypeOK
  <2>2. \A i \in 1..(at - 1) : Asks(templates, ordinary[i]) \subseteq ToSet(generated')
    BY <1>1, <2>1, RequestGrows DEF AsksServed
  <2>3. Asks(templates, ordinary[at]) \subseteq ToSet(generated')
    BY <1>1, RequestGrows
  <2> QED BY <1>1, <2>2, <2>3 DEF AsksServed, WalkOrdinary
<1> QED BY <1>1, <1>2, <1>3, <1>4 DEF LoopInv, RoundInv, WalkOrdinary

(* The loop over the instances goes on where these were added meanwhile.   *)
LEMMA WalkGeneratedInv == LoopInv /\ WalkGenerated => LoopInv'
<1> SUFFICES ASSUME LoopInv, WalkGenerated PROVE LoopInv'
  OBVIOUS
<1>1. /\ TypeOK /\ OnlyNeeded /\ RoundInv /\ phase = "generated" /\ at \in DOMAIN generated
      /\ Request(Asks(templates, generated[at])) /\ UNCHANGED <<templates, ordinary>>
      /\ Len(ordinary) \in Nat /\ Len(generated) \in Nat
  BY DEF LoopInv, WalkGenerated, TypeOK
<1>2. OnlyNeeded'
  BY <1>1, NeededStays DEF Needs
<1>3. TypeOK' /\ Len(generated) <= Len(generated') /\ Len(generated') \in Nat
  BY <1>1, RequestGrows DEF TypeOK, WalkGenerated
<1>4. AsksServed(ordinary, Len(ordinary))'
  <2>1. AsksServed(ordinary, Len(ordinary)) /\ Len(ordinary) \in 0..Len(ordinary)
    BY <1>1 DEF RoundInv
  <2> QED BY <1>1, <2>1, RequestGrows DEF AsksServed
<1>5. \A i \in 1..at : Asks(templates, generated'[i]) \subseteq ToSet(generated')
  <2>1. AsksServed(generated, at - 1) /\ at \in 1..Len(generated)
    BY <1>1 DEF RoundInv, TypeOK
  <2>2. \A i \in 1..(at - 1) : Asks(templates, generated[i]) \subseteq ToSet(generated')
    BY <1>1, <2>1, RequestGrows DEF AsksServed
  <2>3. Asks(templates, generated[at]) \subseteq ToSet(generated')
    BY <1>1, RequestGrows
  <2>4. \A i \in 1..at : generated'[i] = generated[i]
    BY <1>1, <2>1, RequestGrows
  <2> QED BY <2>1, <2>2, <2>3, <2>4
<1>6. RoundInv'
  BY <1>1, <1>3, <1>4, <1>5 DEF RoundInv, WalkGenerated, AsksServed, TypeOK
<1> QED BY <1>2, <1>3, <1>6 DEF LoopInv

(* The loop over the omitted defaults ends at `limit', where the list did  *)
(* when it began (generics.py:394): what it adds is for the next round.    *)
LEMMA WalkDefaultsInv == LoopInv /\ WalkDefaults => LoopInv'
<1> SUFFICES ASSUME LoopInv, WalkDefaults PROVE LoopInv'
  OBVIOUS
<1>1. /\ TypeOK /\ OnlyNeeded /\ RoundInv /\ phase = "defaults" /\ at \in 1..limit
      /\ Request(Omits(templates, All[at])) /\ UNCHANGED <<templates, ordinary, before, limit>>
      /\ Len(ordinary) \in Nat /\ Len(generated) \in Nat /\ limit \in Nat /\ before \in Nat
      /\ phase' = "defaults" /\ at' = at + 1
  BY DEF LoopInv, WalkDefaults, TypeOK
<1>2. /\ limit - Len(ordinary) \in before..Len(generated) /\ OmitsServed(All, at - 1)
      /\ AsksServed(generated, limit - Len(ordinary)) /\ AsksServed(ordinary, Len(ordinary))
  BY <1>1 DEF RoundInv
<1>3. Len(All) = Len(ordinary) + Len(generated) /\ at \in 1..Len(All)
  BY <1>1, <1>2, AllElements
<1>4. OnlyNeeded'
  <2>1. CASE at <= Len(ordinary)
    <3>1. at \in DOMAIN ordinary /\ All[at] = ordinary[at]
      BY <1>1, <2>1, AllElements DEF TypeOK
    <3> QED BY <1>1, <3>1, NeededStays DEF Needs
  <2>2. CASE at > Len(ordinary)
    <3>1. at - Len(ordinary) \in 1..Len(generated)
      BY <1>1, <1>3, <2>2
    <3>2. PICK j \in 1..Len(generated) : at = Len(ordinary) + j
      BY <1>1, <3>1
    <3>3. j \in DOMAIN generated /\ All[at] = generated[j]
      <4>1. j \in DOMAIN generated
        BY <1>1 DEF TypeOK
      <4>2. All[Len(ordinary) + j] = generated[j]
        BY <1>1, AllElements
      <4> QED BY <3>2, <4>1, <4>2
    <3> QED BY <1>1, <3>3, NeededStays DEF Needs
  <2> QED BY <1>1, <2>1, <2>2
<1>5. TypeOK' /\ Len(generated) <= Len(generated') /\ Len(generated') \in Nat
  BY <1>1, RequestGrows DEF TypeOK
<1>6. AsksServed(ordinary, Len(ordinary))' /\ AsksServed(generated, limit - Len(ordinary))'
  <2>1. Len(ordinary) \in 0..Len(ordinary) /\ limit - Len(ordinary) \in 0..Len(generated)
    BY <1>1, <1>2
  <2> QED BY <1>1, <1>2, <2>1, ServedStays DEF AsksServed
<1>7. OmitsServed(All, at - 1)'
  <2>1. \A i \in 1..(at - 1) : Omits(templates, All[i]) \subseteq ToSet(generated')
    BY <1>1, <1>2, RequestGrows DEF OmitsServed
  <2>2. Omits(templates, All[at]) \subseteq ToSet(generated')
    BY <1>1, RequestGrows
  <2>3. \A i \in 1..at : All'[i] = All[i]
    BY <1>1, <1>3, AllStays
  <2>4. \A i \in 1..at : Omits(templates, All'[i]) \subseteq ToSet(generated')
    BY <1>1, <2>1, <2>2, <2>3
  <2>5. at' - 1 = at
    BY <1>1
  <2> QED BY <1>1, <2>4, <2>5 DEF OmitsServed
<1> QED BY <1>1, <1>2, <1>4, <1>5, <1>6, <1>7 DEF LoopInv, RoundInv, AsksServed

(* A loop that has ended has passed all; a round that added nothing had    *)
(* the same instances throughout, so its walks add up (generics.py:400).   *)
LEMMA NextLoopInv == LoopInv /\ NextLoop => LoopInv'
<1> SUFFICES ASSUME LoopInv, NextLoop PROVE LoopInv'
  OBVIOUS
<1>1. /\ TypeOK /\ OnlyNeeded /\ RoundInv /\ UNCHANGED <<templates, ordinary, generated>>
      /\ at' = 1 /\ Len(ordinary) \in Nat /\ Len(generated) \in Nat
  BY DEF LoopInv, NextLoop, TypeOK
<1>2. OnlyNeeded'
  BY <1>1 DEF OnlyNeeded, Needs
<1>3. CASE phase = "ordinary" /\ at > Len(ordinary) /\ phase' = "generated" /\ UNCHANGED <<before, limit>>
  <2>1. at = Len(ordinary) + 1 /\ AsksServed(ordinary, Len(ordinary))
    BY <1>1, <1>3 DEF RoundInv, TypeOK
  <2> QED BY <1>1, <1>2, <1>3, <2>1 DEF LoopInv, RoundInv, TypeOK, AsksServed
<1>4. CASE /\ phase = "generated" /\ at > Len(generated)
           /\ phase' = "defaults" /\ limit' = Len(ordinary) + Len(generated) /\ UNCHANGED before
  <2>1. at = Len(generated) + 1 /\ AsksServed(generated, Len(generated)) /\ AsksServed(ordinary, Len(ordinary))
    BY <1>1, <1>4 DEF RoundInv, TypeOK
  <2>2. limit' - Len(ordinary) = Len(generated)
    BY <1>1, <1>4
  <2> QED BY <1>1, <1>2, <1>4, <2>1, <2>2 DEF LoopInv, RoundInv, TypeOK, AsksServed, OmitsServed
<1>5. CASE /\ phase = "defaults" /\ at > limit
           /\ phase' = (IF Len(generated) # before THEN "ordinary" ELSE "done")
           /\ before' = Len(generated) /\ UNCHANGED limit
  <2>1. /\ at = limit + 1 /\ OmitsServed(All, limit) /\ AsksServed(ordinary, Len(ordinary))
        /\ limit - Len(ordinary) \in before..Len(generated)
        /\ AsksServed(generated, limit - Len(ordinary)) /\ limit \in Nat
    BY <1>1, <1>5 DEF RoundInv, TypeOK
  <2>2. TypeOK'
    BY <1>1, <1>5 DEF TypeOK
  <2>3. CASE Len(generated) # before
    BY <1>1, <1>2, <1>5, <2>2, <2>3 DEF LoopInv, RoundInv, AsksServed
  <2>4. CASE Len(generated) = before
    <3>1. limit - Len(ordinary) = Len(generated) /\ limit = Len(All)
      BY <1>1, <2>1, <2>4, AllElements
    <3> QED BY <1>1, <1>2, <1>5, <2>1, <2>2, <2>4, <3>1
            DEF LoopInv, RoundInv, AsksServed, OmitsServed, All
  <2> QED BY <2>3, <2>4
<1> QED BY <1>1, <1>3, <1>4, <1>5 DEF NextLoop

(* generics.py:388-402: the inductive invariant of the loops, for any      *)
(* declarations: what a loop has passed is served.                         *)
THEOREM LoopsInductive == Spec => []LoopInv
<1>1. Init => LoopInv
  BY DEF Init, LoopInv, TypeOK, OnlyNeeded, RoundInv, IsInjective, ToSet, AsksServed
<1>2. LoopInv /\ [Next]_vars => LoopInv'
  <2> SUFFICES ASSUME LoopInv, [Next]_vars PROVE LoopInv'
    OBVIOUS
  <2>1. CASE Refuse
    BY <2>1 DEF Refuse, LoopInv, TypeOK, OnlyNeeded, RoundInv, Needs
  <2>2. CASE UNCHANGED vars
    BY <2>2 DEF vars, LoopInv, TypeOK, OnlyNeeded, RoundInv, Needs, AsksServed, OmitsServed, All
  <2> QED BY <2>1, <2>2, WalkOrdinaryInv, WalkGeneratedInv, WalkDefaultsInv, NextLoopInv DEF Next
<1> QED BY <1>1, <1>2, PTL DEF Spec

(* generics.py:230-243: made_funcs and made_structs keep an instance from  *)
(* being made twice, and only what is needed is made.                      *)
THEOREM OnlyNeededMade == Spec => []OnlyNeeded
<1>1. LoopInv => OnlyNeeded
  BY DEF LoopInv
<1> QED BY <1>1, LoopsInductive, PTL

-----------------------------------------------------------------------------
(* A set of naturals that is not empty has a least element.                *)
LEMMA LeastIndex ==
    ASSUME NEW S \in SUBSET Nat, S # {}
    PROVE  \E i \in S : \A j \in S : i <= j
<1>1. PICK i \in S : \A j \in S : ~(<<j, i>> \in OpToRel(<, Nat))
  BY NatLessThanWellFounded, WFMin
<1>2. \A j \in S : ~(j < i)
  BY <1>1 DEF OpToRel
<1> QED BY <1>2

(* What needs nothing outside of itself has all instances: the first one   *)
(* it lacked would be needed by what it has.                               *)
LEMMA ClosedCovers ==
    ASSUME TypeOK, OnlyNeeded, NEW S, Closed(S)
    PROVE  ToSet(generated) \subseteq S
<1> DEFINE Lacking == {i \in DOMAIN generated : generated[i] \notin S}
<1>1. DOMAIN generated = 1..Len(generated) /\ Len(generated) \in Nat
  BY DEF TypeOK
<1>2. SUFFICES ASSUME Lacking # {} PROVE FALSE
  BY DEF ToSet
<1>3. Lacking \in SUBSET Nat
  BY <1>1
<1>4. PICK i \in Lacking : \A j \in Lacking : i <= j
  <2> HIDE DEF Lacking
  <2> QED BY <1>2, <1>3, LeastIndex
<1>5. i \in DOMAIN generated /\ generated[i] \notin S
  OBVIOUS
<1>6. CASE \E j \in DOMAIN ordinary : generated[i] \in Needs(ordinary[j])
  <2>1. PICK j \in DOMAIN ordinary : generated[i] \in Needs(ordinary[j])
    BY <1>6
  <2>2. ordinary[j] \in ToSet(ordinary)
    BY DEF ToSet
  <2> QED BY <1>5, <2>1, <2>2 DEF Closed
<1>7. CASE \E j \in 1..(i - 1) : generated[i] \in Needs(generated[j])
  <2>1. PICK j \in 1..(i - 1) : generated[i] \in Needs(generated[j])
    BY <1>7
  <2>2. j \in DOMAIN generated /\ ~(i <= j)
    BY <1>1, <1>5
  <2>3. generated[j] \in S
    BY <1>4, <2>2
  <2> QED BY <1>5, <2>1, <2>3 DEF Closed
<1> QED BY <1>5, <1>6, <1>7 DEF OnlyNeeded

(* generics.py:388-400: when a round adds nothing, the instances are the   *)
(* least set that the program needs, for any declarations.                 *)
THEOREM LeastSetMade == Spec => []LeastClosed
<1>1. LoopInv => LeastClosed
  <2> SUFFICES ASSUME LoopInv, phase = "done" PROVE Closed(ToSet(generated))
                      /\ \A S \in SUBSET ToSet(generated) : Closed(S) => S = ToSet(generated)
    BY DEF LeastClosed
  <2>1. /\ TypeOK /\ OnlyNeeded /\ AsksServed(ordinary, Len(ordinary))
        /\ AsksServed(generated, Len(generated)) /\ OmitsServed(All, Len(All))
    BY DEF LoopInv, RoundInv
  <2>2. /\ DOMAIN ordinary = 1..Len(ordinary) /\ DOMAIN generated = 1..Len(generated)
        /\ Len(ordinary) \in Nat /\ Len(generated) \in Nat
    BY <2>1 DEF TypeOK
  <2>3. ASSUME NEW i \in 1..Len(ordinary)
        PROVE  Needs(ordinary[i]) \subseteq ToSet(generated)
    <3>1. i \in 1..Len(All) /\ All[i] = ordinary[i]
      BY <2>1, <2>2, AllElements
    <3> QED BY <2>1, <3>1 DEF AsksServed, OmitsServed, Needs
  <2>4. ASSUME NEW i \in 1..Len(generated)
        PROVE  Needs(generated[i]) \subseteq ToSet(generated)
    <3>1. Len(ordinary) + i \in 1..Len(All) /\ All[Len(ordinary) + i] = generated[i]
      BY <2>1, <2>2, AllElements
    <3> QED BY <2>1, <3>1 DEF AsksServed, OmitsServed, Needs
  <2>5. Closed(ToSet(generated))
    BY <2>2, <2>3, <2>4 DEF Closed, ToSet
  <2> QED BY <2>1, <2>5, ClosedCovers
<1> QED BY <1>1, LoopsInductive, PTL

(* generics.py:388-400: the list grows no further than any finite set that *)
(* has what it needs itself; if there is one, the loops come to an end.    *)
THEOREM InstancesBounded ==
    ASSUME NEW S, IsFiniteSet(S)
    PROVE  Spec => [](Closed(S) => Len(generated) <= Cardinality(S))
<1>1. LoopInv => (Closed(S) => Len(generated) <= Cardinality(S))
  <2> SUFFICES ASSUME LoopInv, Closed(S) PROVE Len(generated) <= Cardinality(S)
    OBVIOUS
  <2>1. ToSet(generated) \subseteq S /\ IsInjective(generated)
    BY ClosedCovers DEF LoopInv, OnlyNeeded
  <2>2. Len(generated) \in Nat /\ generated \in [1..Len(generated) -> S]
    BY <2>1 DEF LoopInv, TypeOK, ToSet
  <2>3. generated \in Injection(1..Len(generated), S)
    BY <2>1, <2>2 DEF Injection
  <2>4. Cardinality(1..Len(generated)) = Len(generated)
    BY <2>2, FS_Interval
  <2> QED BY <2>3, <2>4, FS_Injection
<1> QED BY <1>1, LoopsInductive, PTL
=============================================================================
