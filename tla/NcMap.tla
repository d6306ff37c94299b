------------------------------- MODULE NcMap -------------------------------
(***************************************************************************)
(* The hash map behind map[K,V] in runtime/ncrt.c: open addressing with    *)
(* linear probing and tombstones.  A map variable is a header (entries,    *)
(* cap, len, tombstones); assigning a map or passing it to a function      *)
(* copies the header and shares the entries.  A for loop over a map walks  *)
(* the entries of a copy of the header, taken when the loop begins, while  *)
(* its body goes on using the variable.                                    *)
(*                                                                         *)
(* Entries that nothing refers to are collected.  The loop's copy of the   *)
(* header is no root: when no variable refers to the entries any more, an  *)
(* allocation in the body may free what __nc_map_next goes on walking.     *)
(***************************************************************************)
EXTENDS Integers, FiniteSets, Functions

CONSTANTS
    Var,      \* map variables of a program
    Key, Val,
    Hash,     \* desc->hash
    Table,    \* addresses of entries
    NoTable,  \* NULL
    Nothing,  \* the zero value: what an absent key reads as
    InitCap,  \* capacity __nc_map_init gives (16)
    MaxCap,   \* bound: largest capacity
    MaxDrift, \* bound: how far the counters of shared entries run below 0
    Loop      \* TRUE if the program loops over its maps as well

ASSUME MapAssumption ==
    /\ Hash \in [Key -> Nat]
    /\ InitCap \in Nat /\ InitCap >= 4   \* below 4 a table fills up before 0.70 is exceeded
    /\ MaxCap \in Nat /\ InitCap <= MaxCap /\ MaxDrift \in Nat
    /\ Nothing \notin Key \cup Val /\ NoTable \notin Table
    /\ Loop \in BOOLEAN

VARIABLES
    hdr,      \* [tab, cap, len, tombs] of each variable
    table,    \* the entries of each table, a function on 0..cap-1
    shared,   \* ghost: the tables that two headers have referred to
    iter,     \* the loop's copy of a header and its cursor; NoTable for freed entries
    visited,  \* ghost: how often the loop visited each key
    stayed,   \* ghost: keys present when the loop began and not removed since
    parted    \* ghost: the variables that left the loop's entries since it began

vars == <<hdr, table, shared, iter, visited, stayed, parted>>

(* state 0 is empty, 1 is used and 2 is a tombstone; memset clears the rest.*)
Empty     == [st |-> 0, key |-> Nothing, val |-> Nothing]
Tombstone == [st |-> 2, key |-> Nothing, val |-> Nothing]
Entry(k, x) == [st |-> 1, key |-> k, val |-> x]
BlankLonger(cap) == [i \in 0..cap |-> Empty]   \* mutant: one entry more
Blank(cap)  == [i \in 0..(cap - 1) |-> Empty]
Gone        == [i \in {} |-> Empty]

(* The zero value of a map variable, which __nc_map_put initialises.       *)
NoMap  == [tab |-> NoTable, cap |-> 0, len |-> 0, tombs |-> 0]
NoLoop == [tab |-> NoTable, cap |-> 0, at |-> 0]

Init ==
    /\ hdr = [v \in Var |-> NoMap]
    /\ table = [t \in Table |-> Gone]
    /\ shared = {}
    /\ iter = NoLoop
    /\ visited = [k \in Key |-> 0]
    /\ stayed = {}
    /\ parted = {}

-----------------------------------------------------------------------------
(* Probing.                                                                *)

(* The slot a scan for k looks at after i others.                          *)
Probe(k, cap, i) == (Hash[k] + i) % cap

(* The smallest i below cap with P(i), or cap.                             *)
FirstOr(cap, P(_)) ==
    CHOOSE i \in 0..cap : (i < cap => P(i)) /\ \A j \in 0..(i - 1) : ~P(j)

ScanEndReuse(T, cap, k) ==   \* mutant: the scan ends at a tombstone too
    FirstOr(cap, LAMBDA i :
        LET e == T[Probe(k, cap, i)] IN e.st # 1 \/ e.key = k)

(* Where a scan for k in a table ends: at an empty entry or at k.          *)
ScanEnd(T, cap, k) ==
    FirstOr(cap, LAMBDA i :
        LET e == T[Probe(k, cap, i)] IN e.st = 0 \/ (e.st = 1 /\ e.key = k))

Found(T, cap, k) ==
    LET n == ScanEnd(T, cap, k) IN n < cap /\ T[Probe(k, cap, n)].st = 1

(* __nc_map_lookup, and __nc_map_get of an absent key.                     *)
LookupIn(T, cap, k) ==
    LET n == ScanEnd(T, cap, k)
        e == T[Probe(k, cap, n)]
    IN  IF n < cap /\ e.st = 1 THEN e.val ELSE Nothing
Lookup(v, k) ==
    IF hdr[v].cap = 0 THEN Nothing ELSE LookupIn(table[hdr[v].tab], hdr[v].cap, k)

(* __nc_map_rehash: the used entries, in slot order, each at the first     *)
(* empty slot from its hash in a table twice as large.                     *)
Inserted(e, U, cap) ==
    [U EXCEPT ![Probe(e.key, cap, FirstOr(cap, LAMBDA i : U[Probe(e.key, cap, i)].st = 0))] = e]

RehashSteps(T, cap) ==   \* the new table after each slot of the old one
    LET upto[i \in 0..cap] ==
            IF i = 0 THEN Blank(2 * cap)
            ELSE IF T[i - 1].st = 1 THEN Inserted(T[i - 1], upto[i - 1], 2 * cap)
            ELSE upto[i - 1]
    IN  upto

RehashedShort(T, cap) == RehashSteps(T, cap)[cap - 1]   \* mutant: the last slot is forgotten
Rehashed(T, cap) == RehashSteps(T, cap)[cap]

UsedIn(T)  == {i \in DOMAIN T : T[i].st = 1}
TombsIn(T) == {i \in DOMAIN T : T[i].st = 2}

(* (double)(len + tombstones) / cap > 0.70                                 *)
Overloaded(h) == 10 * (h.len + h.tombs) > 7 * h.cap

-----------------------------------------------------------------------------
(* The variables are on the root stack, the loop's __nc_map_iter is not:   *)
(* what only the loop refers to is in use until a collection comes by (see *)
(* Collect), and what nobody refers to is not looked at again.             *)
Rooted == {hdr[v].tab : v \in Var}
InUse  == Rooted \cup {iter.tab}
Fresh == Table \ InUse
NewTable == CHOOSE t \in Fresh : TRUE   \* which one malloc returns is immaterial

(* What is left of the tables T and of the shared ones S, and who has      *)
(* parted from the loop by now.                                            *)
Keep(T, S) ==
    /\ table' = [t \in Table |-> IF t \in InUse' THEN T[t] ELSE Gone]
    /\ shared' = S \cap InUse'
    /\ parted' = IF iter' = NoLoop THEN {}
                 ELSE parted \cup {w \in Var : hdr'[w].tab # iter.tab}

SetHeader(v, h, T) ==
    /\ hdr' = [hdr EXCEPT ![v] = h]
    /\ iter' = iter
    /\ Keep([table EXCEPT ![h.tab] = T], shared)

(* __nc_map_init when the header is zero, then __nc_map_rehash when it is  *)
(* overloaded: the header and the entries that the scan of a put sees.     *)
Initialised(h) ==
    IF h.cap = 0 THEN [tab |-> NewTable, cap |-> InitCap, len |-> 0, tombs |-> 0] ELSE h

Prepared(h) ==
    IF Overloaded(h)
    THEN [tab |-> NewTable, cap |-> 2 * h.cap, len |-> Cardinality(UsedIn(table[h.tab])),
          tombs |-> 0]
    ELSE h

PreparedTable(h) ==
    IF h.cap = 0 THEN Blank(InitCap)
    ELSE IF Overloaded(h) THEN Rehashed(table[h.tab], h.cap)
    ELSE table[h.tab]

(* __nc_map_put.  Without an empty slot to end the scan nothing is stored. *)
Put(v, k, x) ==
    /\ hdr[v].cap = 0 \/ Overloaded(hdr[v]) => Fresh # {}
    /\ LET h == Prepared(Initialised(hdr[v]))
           T == PreparedTable(hdr[v])
           n == ScanEnd(T, h.cap, k)
           tomb == FirstOr(h.cap, LAMBDA i : T[Probe(k, h.cap, i)].st = 2)
       IN
        /\ h.cap <= MaxCap
        /\ IF n = h.cap THEN SetHeader(v, h, T)
           ELSE IF T[Probe(k, h.cap, n)].st = 1
           THEN SetHeader(v, h, [T EXCEPT ![Probe(k, h.cap, n)].val = x])
           ELSE IF tomb < n
           THEN /\ h.tombs > -MaxDrift
                /\ SetHeader(v, [h EXCEPT !.len = @ + 1, !.tombs = @ - 1],
                             [T EXCEPT ![Probe(k, h.cap, tomb)] = Entry(k, x)])
           ELSE SetHeader(v, [h EXCEPT !.len = @ + 1],
                          [T EXCEPT ![Probe(k, h.cap, n)] = Entry(k, x)])
    /\ UNCHANGED <<visited, stayed>>

(* __nc_map_delete.                                                        *)
Delete(v, k) ==
    LET h == hdr[v]
        T == table[h.tab]
    IN
    /\ h.cap > 0 /\ Found(T, h.cap, k) /\ h.len > -MaxDrift
    /\ SetHeader(v, [h EXCEPT !.len = @ - 1, !.tombs = @ + 1],
                 [T EXCEPT ![Probe(k, h.cap, ScanEnd(T, h.cap, k))] = Tombstone])
    /\ stayed' = stayed \ {k}
    /\ UNCHANGED visited

(* __nc_map_clear.                                                         *)
Clear(v) ==
    /\ hdr[v].cap > 0
    /\ SetHeader(v, [hdr[v] EXCEPT !.len = 0, !.tombs = 0], Blank(hdr[v].cap))
    /\ stayed' = {}
    /\ UNCHANGED visited

(* v = map[K,V]{}: __nc_map_init fills a header of its own.                *)
Literal(v) ==
    /\ Fresh # {} /\ SetHeader(v, Initialised(NoMap), Blank(InitCap))
    /\ stayed' = {}
    /\ UNCHANGED visited

(* w = v copies the header.                                                *)
Copy(v, w) ==
    /\ v # w
    /\ iter' = iter
    /\ hdr' = [hdr EXCEPT ![w] = hdr[v]]
    /\ Keep(table, shared \cup ({hdr[v].tab} \ {NoTable}))
    /\ UNCHANGED <<visited, stayed>>

(* The loop `for key, value in v' begins.                                  *)
BeginLoop(v) ==
    /\ Loop /\ iter = NoLoop /\ hdr[v].cap > 0
    /\ iter' = [tab |-> hdr[v].tab, cap |-> hdr[v].cap, at |-> 0]
    /\ visited' = [k \in Key |-> 0]
    /\ stayed' = {k \in Key : Lookup(v, k) # Nothing}
    /\ parted' = {w \in Var : hdr[w].tab # hdr[v].tab}
    /\ UNCHANGED <<hdr, table, shared>>

(* __nc_map_next: the first used entry at or after the cursor; its body    *)
(* runs, and the cursor moves behind it.                                   *)
NextUsedShort ==   \* mutant: the last slot is never looked at
    {i \in iter.at..(iter.cap - 2) : table[iter.tab][i].st = 1}
NextUsed == {i \in iter.at..(iter.cap - 1) : table[iter.tab][i].st = 1}

Visit ==
    /\ iter # NoLoop /\ iter.tab # NoTable
    /\ \E i \in NextUsed :
        /\ \A j \in NextUsed : i <= j
        /\ iter' = [iter EXCEPT !.at = i + 1]
        /\ visited' = [visited EXCEPT ![table[iter.tab][i].key] = @ + 1]
    /\ UNCHANGED <<hdr, table, shared, stayed, parted>>

(* An allocation in the body collects.  Nothing is said of the keys from   *)
(* here on.                                                                *)
Collect ==
    /\ iter.tab \in Table \ Rooted
    /\ iter' = [iter EXCEPT !.tab = NoTable]
    /\ hdr' = hdr
    /\ Keep(table, shared)
    /\ visited' = [k \in Key |-> 0]
    /\ stayed' = {}

(* __nc_map_next walks freed memory: any of the slots may read as used.    *)
VisitFreed ==
    /\ iter # NoLoop /\ iter.tab = NoTable
    /\ \E i \in iter.at..(iter.cap - 1) : iter' = [iter EXCEPT !.at = i + 1]
    /\ UNCHANGED <<hdr, table, shared, visited, stayed, parted>>

(* __nc_map_next returned -1, or the body left the loop.                   *)
LeaveLoop ==
    /\ iter # NoLoop
    /\ iter' = NoLoop
    /\ hdr' = hdr
    /\ Keep(table, shared)
    /\ visited' = [k \in Key |-> 0]
    /\ stayed' = {}

Next ==
    \/ \E v \in Var :
        \/ \E k \in Key : Delete(v, k) \/ \E x \in Val : Put(v, k, x)
        \/ Clear(v) \/ Literal(v) \/ BeginLoop(v)
        \/ \E w \in Var : Copy(v, w)
    \/ Visit \/ Collect \/ VisitFreed \/ LeaveLoop

Spec == Init /\ [][Next]_vars

-----------------------------------------------------------------------------
(* Properties.                                                             *)

EntryType == [st : {0, 2}, key : {Nothing}, val : {Nothing}] \cup [st : {1}, key : Key, val : Val]

TypeOK ==
    /\ hdr \in [Var -> [tab : Table \cup {NoTable}, cap : 0..MaxCap, len : Int, tombs : Int]]
    /\ DOMAIN table = Table
    /\ \A t \in Table : \E cap \in 0..MaxCap : table[t] \in [0..(cap - 1) -> EntryType]
    /\ shared \subseteq Table
    /\ iter \in [tab : Table \cup {NoTable}, cap : 0..MaxCap, at : 0..MaxCap]
    /\ visited \in [Key -> Nat]
    /\ stayed \subseteq Key
    /\ parted \subseteq Var

Counted(h, T) ==
    /\ h.len = Cardinality(UsedIn(T))
    /\ h.tombs = Cardinality(TombsIn(T))
    /\ h.len + h.tombs < h.cap

(* In every table, whatever headers share it and however often they have   *)
(* inserted, deleted and cleared through stale counters: no key is used    *)
(* twice, and a scan from its hash meets each used key before any empty    *)
(* entry.  The counters of a header that was never copied, since its       *)
(* entries were allocated, are exact, so len(m) is the number of entries,  *)
(* and a scan always finds an empty entry, so a put is never dropped.      *)
TableSound ==
    /\ \A t \in Table : LET T == table[t] IN
           \A i \in UsedIn(T) :
               /\ \A j \in UsedIn(T) : T[i].key = T[j].key => i = j
               /\ Probe(T[i].key, Cardinality(DOMAIN T), ScanEnd(T, Cardinality(DOMAIN T), T[i].key)) = i
    /\ \A v \in Var : hdr[v].cap > 0 /\ hdr[v].tab \notin shared =>
           Counted(hdr[v], table[hdr[v].tab])

(* A loop visits a key that stays in the map at most once, and has visited *)
(* it by the time the cursor finds no more, whatever else its body puts,   *)
(* deletes or rehashes; and it comes to walk freed entries only if every   *)
(* variable has, by a rehash or an assignment in the body, left them at    *)
(* some time.                                                              *)
LoopCovers ==
    iter # NoLoop =>
        IF iter.tab = NoTable THEN parted = Var
        ELSE /\ \A k \in stayed : visited[k] <= 1
             /\ NextUsed = {} => \A k \in stayed : visited[k] = 1

(* Refinement: what a reader of the variables can observe.                 *)
Observed == [v \in Var |-> [k \in Key |-> Lookup(v, k)]]
Promise == INSTANCE AbstractMap WITH content <- Observed, Absent <- Nothing
ImplementsMap == Promise!Spec

-----------------------------------------------------------------------------
(* The inductive invariant behind these.                                   *)

(* A header is zero or describes the entries it points to, alone unless    *)
(* the table is shared.                                                    *)
Describes(h, cap) == h.tab \in Table /\ h.cap = cap /\ DOMAIN table[h.tab] = 0..(cap - 1)
HeadersInv ==
    /\ \A v \in Var : hdr[v] = NoMap \/ \E cap \in InitCap..MaxCap : Describes(hdr[v], cap)
    /\ \A v, w \in Var : v # w /\ hdr[v].tab = hdr[w].tab => hdr[v].tab \in shared \cup {NoTable}
    /\ shared \subseteq InUse

(* Each key is used once, and no entry between its hash and its place is   *)
(* empty.                                                                  *)
Chained(T, cap) ==
    /\ \A i, j \in UsedIn(T) : T[i].key = T[j].key => i = j
    /\ \A i \in UsedIn(T) : \E n \in 0..(cap - 1) :
           /\ Probe(T[i].key, cap, n) = i
           /\ \A m \in 0..(n - 1) : T[Probe(T[i].key, cap, m)].st # 0
TablesInv == \A t \in Table, cap \in 0..MaxCap :
                DOMAIN table[t] = 0..(cap - 1) => Chained(table[t], cap)

CountsInv == \A v \in Var : hdr[v].cap > 0 /\ hdr[v].tab \notin shared =>
                Counted(hdr[v], table[hdr[v].tab])

(* A key that stays has one place for the time of the loop, and was        *)
(* visited once if the cursor is behind it.  A variable that has not       *)
(* parted keeps the entries from the collector.                            *)
LoopInv ==
    iter # NoLoop =>
        IF iter.tab = NoTable THEN parted = Var
        ELSE /\ Describes(iter, iter.cap) /\ iter.at <= iter.cap
             /\ \A w \in Var \ parted : hdr[w].tab = iter.tab
             /\ \A k \in stayed : \E i \in UsedIn(table[iter.tab]) :
                    /\ table[iter.tab][i].key = k
                    /\ visited[k] = IF i < iter.at THEN 1 ELSE 0

MapInv == TypeOK /\ HeadersInv /\ TablesInv /\ CountsInv /\ LoopInv
=============================================================================
