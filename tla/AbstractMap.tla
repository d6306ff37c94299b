---------------------------- MODULE AbstractMap ----------------------------
(***************************************************************************)
(* What the map variables of a program promise: each is a partial function *)
(* from keys to values, where a key that is absent reads as the zero value.*)
(* A map that was assigned may share its entries with the one it came from *)
(* (it does until one of them grows), so an operation changes, in the one  *)
(* key it names, the variable it was applied to and perhaps others that    *)
(* were equal to it, and never one that differed.                          *)
(***************************************************************************)
CONSTANTS Var, Key, Val, Absent

VARIABLE content   \* content[v][k] is the value of k in v, or Absent

NoEntries == [k \in Key |-> Absent]

Init == content = [v \in Var |-> NoEntries]

(* What an operation makes of the entries m of a map.                      *)
Put(m, n) ==
    \E k \in Key : n[k] \in Val /\ \A l \in Key \ {k} : n[l] = m[l]
Delete(m, n) ==
    \E k \in Key : n[k] = Absent /\ \A l \in Key \ {k} : n[l] = m[l]
Clear(n) == n = NoEntries

(* v changes, and of the variables that were equal to it some follow.      *)
Update(v, before, after) ==
    /\ \A w \in Var \ {v} :
        \/ after[w] = before[w]
        \/ before[w] = before[v] /\ after[w] = after[v]
    /\ Put(before[v], after[v]) \/ Delete(before[v], after[v]) \/ Clear(after[v])

Copy(v, w, before, after) == after = [before EXCEPT ![w] = before[v]]

Next ==
    \E before \in {content}, after \in {content'} : \E v \in Var :
        \/ Update(v, before, after)
        \/ \E w \in Var : Copy(v, w, before, after)

Spec == Init /\ [][Next]_content
=============================================================================
