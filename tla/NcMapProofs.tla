---------------------------- MODULE NcMapProofs ----------------------------
(***************************************************************************)
(* Proofs about the hash map, for any number of variables and keys, any    *)
(* hash and any initial capacity from 4 on: the counters and the tables    *)
(* are sound, loops cover what stays, and the map implements AbstractMap.  *)
(***************************************************************************)
EXTENDS NcMap, FiniteSetTheorems, WellFoundedInduction, TLAPS

(* A set of naturals that is not empty has a least element.                *)
LEMMA LeastNat ==
  ASSUME NEW S \in SUBSET Nat, S # {}
  PROVE  \E i \in S : \A j \in S : i <= j
<1>1. PICK i \in S : \A j \in S : ~(<<j, i>> \in OpToRel(<, Nat))
  BY NatLessThanWellFounded, WFMin
<1>2. \A j \in S : ~(j < i)
  BY <1>1 DEF OpToRel
<1> QED BY <1>2

(* A search below cap ends at the first hit, or at cap.                    *)
LEMMA LeastOr ==
  ASSUME NEW cap \in Nat, NEW S
  PROVE  \E i \in 0..cap : (i < cap => i \in S) /\ \A j \in 0..(i - 1) : j \notin S
<1> DEFINE Hits == S \cap 0..(cap - 1)
<1>1. CASE Hits = {}
  BY <1>1
<1>2. CASE Hits # {}
  <2>1. PICK i \in Hits : \A j \in Hits : i <= j
    <3>1. Hits \in SUBSET Nat
      OBVIOUS
    <3> HIDE DEF Hits
    <3> QED BY <1>2, <3>1, LeastNat
  <2>2. i \in 0..cap /\ i < cap /\ i \in S
    BY <2>1
  <2>3. ASSUME NEW j \in 0..(i - 1), j \in S PROVE FALSE
    <3>1. j \in Hits /\ j < i
      BY <2>2, <2>3
    <3> QED BY <2>1, <3>1
  <2> QED BY <2>2, <2>3
<1> QED BY <1>1, <1>2

-----------------------------------------------------------------------------
(* Probing goes through all entries of a table, each once.                 *)

(* Division with remainder, as the probing uses it.                        *)
LEMMA Division ==
  ASSUME NEW a \in Int, NEW n \in Nat \ {0}
  PROVE  a \div n \in Int /\ a % n \in 0..(n - 1) /\ a = n * (a \div n) + (a % n)
OBVIOUS

(* Remainders are unique.                                                  *)
LEMMA Remainder ==
  ASSUME NEW n \in Nat \ {0}, NEW q \in Int, NEW r \in 0..(n - 1),
         NEW p \in Int, NEW s \in 0..(n - 1), n * q + r = n * p + s
  PROVE  r = s
OBVIOUS

(* Probing stays in the table ...                                          *)
LEMMA ProbeType ==
  ASSUME NEW k \in Key, NEW cap \in Nat \ {0}, NEW i \in Nat
  PROVE  Probe(k, cap, i) \in 0..(cap - 1)
<1>1. Hash[k] + i \in Int
  BY MapAssumption
<1> QED BY <1>1, Division DEF Probe

(* ... meets no entry twice ...                                            *)
LEMMA ProbeOnce ==
  ASSUME NEW k \in Key, NEW cap \in Nat \ {0}, NEW i \in 0..(cap - 1), NEW j \in 0..(cap - 1),
         Probe(k, cap, i) = Probe(k, cap, j)
  PROVE  i = j
<1> DEFINE a == Hash[k] + i
<1> DEFINE b == Hash[k] + j
<1> DEFINE x == cap * (a \div cap)
<1> DEFINE y == cap * (b \div cap)
<1>1. a \in Int /\ b \in Int /\ a - b = i - j
  BY MapAssumption
<1>2. a \div cap \in Int /\ b \div cap \in Int /\ a % cap \in 0..(cap - 1)
      /\ a = x + (a % cap) /\ b = y + (b % cap)
  <2> HIDE DEF a, b
  <2> QED BY <1>1, Division
<1>3. a % cap = b % cap
  BY DEF Probe
<1>4. x \in Int /\ y \in Int
  <2> HIDE DEF a, b
  <2> QED BY <1>2
<1>5. x + j = y + i
  <2> HIDE DEF a, b, x, y
  <2> QED BY <1>1, <1>2, <1>3, <1>4
<1>6. cap * (a \div cap) + j = cap * (b \div cap) + i
  BY <1>5
<1> HIDE DEF a, b, x, y
<1> QED BY <1>2, <1>6, Remainder

(* ... and meets every entry.                                              *)
LEMMA ProbeAll ==
  ASSUME NEW k \in Key, NEW cap \in Nat \ {0}, NEW p \in 0..(cap - 1)
  PROVE  \E i \in 0..(cap - 1) : Probe(k, cap, i) = p
<1> DEFINE i == (p - Hash[k]) % cap
<1> DEFINE q == (p - Hash[k]) \div cap
<1> DEFINE s == (Hash[k] + i) % cap
<1> DEFINE r == (Hash[k] + i) \div cap
<1>1. Hash[k] \in Nat
  BY MapAssumption
<1>2. q \in Int /\ i \in 0..(cap - 1) /\ p - Hash[k] = cap * q + i
  <2>1. p - Hash[k] \in Int
    BY <1>1
  <2> QED BY <2>1, Division
<1>3. Hash[k] + i \in Int
  BY <1>1, <1>2
<1>4. r \in Int /\ s \in 0..(cap - 1) /\ Hash[k] + i = cap * r + s
  BY <1>3, Division
<1> HIDE DEF i, q, s, r
<1>5. cap * (0 - q) = 0 - cap * q /\ 0 - q \in Int
  BY <1>2
<1>6. cap * (0 - q) + p = cap * r + s
  BY <1>1, <1>2, <1>4, <1>5
<1>7. s = p
  BY <1>2, <1>4, <1>5, <1>6, Remainder
<1> QED BY <1>2, <1>7 DEF Probe, s, i

-----------------------------------------------------------------------------
(* Scans.                                                                  *)

EntriesOf(cap) == [0..(cap - 1) -> EntryType]

(* The three kinds of entries.                                             *)
LEMMA EntryFacts ==
  /\ Empty \in EntryType /\ Tombstone \in EntryType
  /\ Empty.st = 0 /\ Tombstone.st = 2
  /\ \A k \in Key, x \in Val :
        /\ Entry(k, x) \in EntryType /\ Entry(k, x).st = 1
        /\ Entry(k, x).key = k /\ Entry(k, x).val = x
  /\ \A e \in EntryType :
        /\ e.st \in 0..2
        /\ e.st = 1 => e.key \in Key /\ e.val \in Val /\ e = Entry(e.key, e.val)
BY DEF Empty, Tombstone, Entry, EntryType

Stops(T, cap, k, i) == T[Probe(k, cap, i)].st = 0
                       \/ (T[Probe(k, cap, i)].st = 1 /\ T[Probe(k, cap, i)].key = k)

(* ScanEnd is where a scan stops first.                                    *)
LEMMA ScanEndFacts ==
  ASSUME NEW T, NEW k, NEW cap \in Nat
  PROVE  /\ ScanEnd(T, cap, k) \in 0..cap
         /\ ScanEnd(T, cap, k) < cap => Stops(T, cap, k, ScanEnd(T, cap, k))
         /\ \A j \in 0..(ScanEnd(T, cap, k) - 1) : ~Stops(T, cap, k, j)
<1> DEFINE Hits == {i \in 0..(cap - 1) : Stops(T, cap, k, i)}
<1>1. PICK i \in 0..cap : (i < cap => i \in Hits) /\ \A j \in 0..(i - 1) : j \notin Hits
  <2> HIDE DEF Hits
  <2> QED BY LeastOr
<1>2. (i < cap => Stops(T, cap, k, i)) /\ \A j \in 0..(i - 1) : ~Stops(T, cap, k, j)
  BY <1>1
<1>3. ScanEnd(T, cap, k) =
        CHOOSE n \in 0..cap : (n < cap => Stops(T, cap, k, n))
                              /\ \A j \in 0..(n - 1) : ~Stops(T, cap, k, j)
  BY DEF ScanEnd, FirstOr, Stops
<1> QED BY <1>2, <1>3

(* A scan for a key that is used ends at its place ...                     *)
LEMMA ScanFinds ==
  ASSUME NEW cap \in Nat, NEW T \in EntriesOf(cap), Chained(T, cap),
         NEW i \in UsedIn(T)
  PROVE  /\ ScanEnd(T, cap, T[i].key) \in 0..(cap - 1)
         /\ Probe(T[i].key, cap, ScanEnd(T, cap, T[i].key)) = i
<1> DEFINE k == T[i].key
<1> DEFINE e == ScanEnd(T, cap, k)
<1>1. i \in 0..(cap - 1) /\ cap \in Nat \ {0} /\ T[i].st = 1 /\ k \in Key
  BY EntryFacts DEF UsedIn, EntriesOf
<1>2. PICK n \in 0..(cap - 1) : /\ Probe(k, cap, n) = i
                                /\ \A m \in 0..(n - 1) : T[Probe(k, cap, m)].st # 0
  BY DEF Chained
<1> HIDE DEF k
<1>3. Stops(T, cap, k, n)
  BY <1>1, <1>2 DEF Stops, k
<1>4. ASSUME NEW m \in 0..(n - 1) PROVE ~Stops(T, cap, k, m)
  <2>1. m \in 0..(cap - 1) /\ m # n
    BY <1>2
  <2>2. Probe(k, cap, m) # i /\ Probe(k, cap, m) \in 0..(cap - 1)
    BY <1>1, <1>2, <2>1, ProbeOnce, ProbeType
  <2>3. T[Probe(k, cap, m)].st = 1 => T[Probe(k, cap, m)].key # k
    BY <1>1, <2>2 DEF Chained, UsedIn, k, EntriesOf
  <2> QED BY <1>2, <2>3 DEF Stops
<1>5. e \in 0..cap /\ (e < cap => Stops(T, cap, k, e)) /\ \A j \in 0..(e - 1) : ~Stops(T, cap, k, j)
  BY ScanEndFacts
<1> HIDE DEF e
<1>6. e = n
  BY <1>2, <1>3, <1>4, <1>5
<1> QED BY <1>2, <1>6 DEF e, k

(* ... and a scan for one that is not used ends at an empty entry or not   *)
(* at all.                                                                 *)
LEMMA ScanMisses ==
  ASSUME NEW cap \in Nat, NEW T \in EntriesOf(cap), NEW k \in Key,
         \A i \in UsedIn(T) : T[i].key # k,
         ScanEnd(T, cap, k) < cap
  PROVE  /\ Probe(k, cap, ScanEnd(T, cap, k)) \in 0..(cap - 1)
         /\ T[Probe(k, cap, ScanEnd(T, cap, k))].st = 0
<1> DEFINE e == ScanEnd(T, cap, k)
<1>1. e \in 0..(cap - 1) /\ Stops(T, cap, k, e) /\ cap \in Nat \ {0}
  BY ScanEndFacts
<1> HIDE DEF e
<1>2. Probe(k, cap, e) \in 0..(cap - 1)
  BY <1>1, ProbeType
<1>3. T[Probe(k, cap, e)].st # 1 \/ T[Probe(k, cap, e)].key # k
  BY <1>2 DEF UsedIn, EntriesOf
<1> QED BY <1>1, <1>2, <1>3 DEF Stops, e

(* What a lookup reads.                                                    *)
LEMMA LookupFacts ==
  ASSUME NEW cap \in Nat, NEW T \in EntriesOf(cap), Chained(T, cap), NEW k \in Key
  PROVE  /\ \A i \in UsedIn(T) : T[i].key = k => LookupIn(T, cap, k) = T[i].val
         /\ (\A i \in UsedIn(T) : T[i].key # k) => LookupIn(T, cap, k) = Nothing
<1>1. ASSUME NEW i \in UsedIn(T), T[i].key = k PROVE LookupIn(T, cap, k) = T[i].val
  <2>1. ScanEnd(T, cap, k) < cap /\ Probe(k, cap, ScanEnd(T, cap, k)) = i
    BY <1>1, ScanFinds
  <2> QED BY <2>1 DEF LookupIn, UsedIn
<1>2. ASSUME \A i \in UsedIn(T) : T[i].key # k PROVE LookupIn(T, cap, k) = Nothing
  <2>1. ScanEnd(T, cap, k) < cap => T[Probe(k, cap, ScanEnd(T, cap, k))].st = 0
    BY <1>2, ScanMisses
  <2> QED BY <2>1 DEF LookupIn
<1> QED BY <1>1, <1>2

(* Tables that use a key with the same value read the same.                *)
LEMMA SameLookup ==
  ASSUME NEW cap \in Nat, NEW T \in EntriesOf(cap), Chained(T, cap),
         NEW dim \in Nat, NEW U \in EntriesOf(dim), Chained(U, dim),
         NEW k \in Key,
         \A i \in UsedIn(T) : T[i].key = k =>
            \E j \in UsedIn(U) : U[j].key = k /\ U[j].val = T[i].val,
         \A j \in UsedIn(U) : U[j].key = k => \E i \in UsedIn(T) : T[i].key = k
  PROVE  LookupIn(U, dim, k) = LookupIn(T, cap, k)
<1>1. CASE \E i \in UsedIn(T) : T[i].key = k
  <2>1. PICK i \in UsedIn(T) : T[i].key = k
    BY <1>1
  <2>2. PICK j \in UsedIn(U) : U[j].key = k /\ U[j].val = T[i].val
    BY <2>1
  <2>3. LookupIn(T, cap, k) = T[i].val
    BY <2>1, LookupFacts
  <2>4. LookupIn(U, dim, k) = U[j].val
    BY <2>2, LookupFacts
  <2> QED BY <2>2, <2>3, <2>4
<1>2. CASE ~\E i \in UsedIn(T) : T[i].key = k
  <2>1. LookupIn(T, cap, k) = Nothing
    BY <1>2, LookupFacts
  <2>2. LookupIn(U, dim, k) = Nothing
    <3>1. \A j \in UsedIn(U) : U[j].key # k
      BY <1>2
    <3> QED BY <3>1, LookupFacts
  <2> QED BY <2>1, <2>2
<1> QED BY <1>1, <1>2

-----------------------------------------------------------------------------
(* Changes of a table.                                                     *)

(* Entries after calloc or memset are sound and use no key.                *)
LEMMA BlankFacts ==
  ASSUME NEW cap \in Nat
  PROVE  /\ Blank(cap) \in EntriesOf(cap) /\ Chained(Blank(cap), cap)
         /\ UsedIn(Blank(cap)) = {} /\ TombsIn(Blank(cap)) = {}
<1>1. UsedIn(Blank(cap)) = {} /\ TombsIn(Blank(cap)) = {}
  BY EntryFacts DEF Blank, UsedIn, TombsIn
<1> QED BY <1>1, EntryFacts DEF Blank, EntriesOf, Chained

(* U is T with the entry e at p.                                           *)
Replaces(cap, T, p, e, U) ==
    U \in EntriesOf(cap) /\ U[p] = e /\ \A i \in 0..(cap - 1) : i # p => U[i] = T[i]

(* Writing one entry replaces it.                                          *)
LEMMA ExceptReplaces ==
  ASSUME NEW cap \in Nat, NEW T \in EntriesOf(cap), NEW p \in 0..(cap - 1), NEW e \in EntryType
  PROVE  Replaces(cap, T, p, e, [T EXCEPT ![p] = e])
BY DEF Replaces, EntriesOf

(* A key that was not used, stored where its scan has met no empty entry.  *)
LEMMA StoreFacts ==
  ASSUME NEW cap \in Nat, NEW T \in EntriesOf(cap), Chained(T, cap),
         NEW k \in Key, NEW x \in Val, NEW n \in 0..(cap - 1),
         T[Probe(k, cap, n)].st # 1,
         \A i \in UsedIn(T) : T[i].key # k,
         \A m \in 0..(n - 1) : T[Probe(k, cap, m)].st # 0,
         NEW p, p = Probe(k, cap, n),
         NEW U, Replaces(cap, T, p, Entry(k, x), U)
  PROVE  /\ U \in EntriesOf(cap) /\ Chained(U, cap)
         /\ UsedIn(U) = UsedIn(T) \cup {p}
         /\ TombsIn(U) = TombsIn(T) \ {p}
         /\ U[p] = Entry(k, x)
         /\ \A i \in UsedIn(T) : U[i] = T[i]
<1>1. cap \in Nat \ {0} /\ p \in 0..(cap - 1)
  BY ProbeType
<1>2. U[p] = Entry(k, x) /\ U[p].st = 1 /\ U[p].key = k
  BY EntryFacts DEF Replaces
<1>3. U \in EntriesOf(cap) /\ \A i \in 0..(cap - 1) : i # p => U[i] = T[i]
  BY DEF Replaces
<1>4. T[p].st # 1 /\ \A m \in 0..(n - 1) : T[Probe(k, cap, m)].st # 0
  OBVIOUS
<1>5. UsedIn(U) = UsedIn(T) \cup {p}
  BY <1>1, <1>2, <1>3 DEF UsedIn, EntriesOf
<1>6. TombsIn(U) = TombsIn(T) \ {p}
  BY <1>1, <1>2, <1>3 DEF TombsIn, EntriesOf
<1>7. p \notin UsedIn(T) /\ \A i \in UsedIn(T) : U[i] = T[i]
  BY <1>3, <1>4 DEF UsedIn, EntriesOf
<1>8. ASSUME NEW i \in UsedIn(U), NEW j \in UsedIn(U), U[i].key = U[j].key PROVE i = j
  BY <1>2, <1>5, <1>7, <1>8 DEF Chained
<1>9. \A i \in 0..(cap - 1) : T[i].st # 0 => U[i].st # 0
  BY <1>2, <1>3
<1>10. ASSUME NEW i \in UsedIn(U)
       PROVE  \E m \in 0..(cap - 1) : /\ Probe(U[i].key, cap, m) = i
                                      /\ \A l \in 0..(m - 1) : U[Probe(U[i].key, cap, l)].st # 0
  <2>1. CASE i = p
    <3>1. ASSUME NEW l \in 0..(n - 1) PROVE U[Probe(k, cap, l)].st # 0
      <4>1. l \in Nat
        OBVIOUS
      <4> QED BY <1>1, <1>4, <1>9, <4>1, ProbeType
    <3> QED BY <1>2, <2>1, <3>1
  <2>2. CASE i # p
    <3>1. i \in UsedIn(T) /\ U[i] = T[i] /\ T[i].key \in Key
      BY <1>5, <1>7, <2>2, EntryFacts DEF UsedIn, EntriesOf
    <3>2. PICK m \in 0..(cap - 1) : /\ Probe(T[i].key, cap, m) = i
                                    /\ \A l \in 0..(m - 1) : T[Probe(T[i].key, cap, l)].st # 0
      BY <3>1 DEF Chained
    <3>3. ASSUME NEW l \in 0..(m - 1) PROVE U[Probe(T[i].key, cap, l)].st # 0
      <4>1. l \in Nat
        OBVIOUS
      <4> QED BY <1>1, <1>9, <3>1, <3>2, <4>1, ProbeType
    <3> QED BY <3>1, <3>2, <3>3
  <2> QED BY <2>1, <2>2
<1>11. Chained(U, cap)
  BY <1>8, <1>10 DEF Chained
<1> QED BY <1>2, <1>3, <1>5, <1>6, <1>7, <1>11

(* The value of a used entry changes, or it becomes a tombstone.           *)
LEMMA ReplaceFacts ==
  ASSUME NEW cap \in Nat, NEW T \in EntriesOf(cap), Chained(T, cap),
         NEW p \in UsedIn(T), NEW e \in EntryType, e.st # 0, e.st = 1 => e.key = T[p].key,
         NEW U, Replaces(cap, T, p, e, U)
  PROVE  /\ U \in EntriesOf(cap) /\ Chained(U, cap) /\ p \in 0..(cap - 1)
         /\ UsedIn(U) = IF e.st = 1 THEN UsedIn(T) ELSE UsedIn(T) \ {p}
         /\ TombsIn(U) = IF e.st = 2 THEN TombsIn(T) \cup {p} ELSE TombsIn(T)
         /\ U[p] = e
         /\ \A i \in 0..(cap - 1) : i # p => U[i] = T[i]
<1>1. p \in 0..(cap - 1) /\ T[p].st = 1 /\ cap \in Nat \ {0}
  BY DEF UsedIn, EntriesOf
<1>2. U \in EntriesOf(cap) /\ U[p] = e /\ \A i \in 0..(cap - 1) : i # p => U[i] = T[i]
  BY DEF Replaces
<1>3. UsedIn(U) = IF e.st = 1 THEN UsedIn(T) ELSE UsedIn(T) \ {p}
  BY <1>1, <1>2 DEF UsedIn, EntriesOf
<1>4. TombsIn(U) = IF e.st = 2 THEN TombsIn(T) \cup {p} ELSE TombsIn(T)
  BY <1>1, <1>2 DEF TombsIn, EntriesOf
<1>5. \A i \in UsedIn(U) : i \in UsedIn(T) /\ U[i].key = T[i].key /\ T[i].key \in Key
  BY <1>1, <1>2, EntryFacts DEF UsedIn, EntriesOf
<1>6. \A i \in 0..(cap - 1) : T[i].st # 0 => U[i].st # 0
  BY <1>1, <1>2
<1>7. ASSUME NEW i \in UsedIn(U)
      PROVE  \E m \in 0..(cap - 1) : /\ Probe(U[i].key, cap, m) = i
                                     /\ \A l \in 0..(m - 1) : U[Probe(U[i].key, cap, l)].st # 0
  <2>1. PICK m \in 0..(cap - 1) : /\ Probe(T[i].key, cap, m) = i
                                  /\ \A l \in 0..(m - 1) : T[Probe(T[i].key, cap, l)].st # 0
    BY <1>5 DEF Chained
  <2>2. ASSUME NEW l \in 0..(m - 1) PROVE U[Probe(T[i].key, cap, l)].st # 0
    <3>1. l \in Nat
      OBVIOUS
    <3> QED BY <1>1, <1>5, <1>6, <2>1, <3>1, ProbeType
  <2> QED BY <1>5, <2>1, <2>2
<1>8. ASSUME NEW i \in UsedIn(U), NEW j \in UsedIn(U), U[i].key = U[j].key PROVE i = j
  BY <1>5, <1>8 DEF Chained
<1>9. Chained(U, cap)
  BY <1>7, <1>8 DEF Chained
<1> QED BY <1>1, <1>2, <1>3, <1>4, <1>9

(* How many entries of a table are used.                                   *)
LEMMA UsedFinite ==
  ASSUME NEW cap \in Nat, NEW T \in EntriesOf(cap)
  PROVE  /\ IsFiniteSet(UsedIn(T)) /\ IsFiniteSet(TombsIn(T))
         /\ UsedIn(T) \subseteq 0..(cap - 1) /\ TombsIn(T) \subseteq 0..(cap - 1)
         /\ Cardinality(UsedIn(T)) \in Nat /\ Cardinality(TombsIn(T)) \in Nat
         /\ Cardinality(UsedIn(T)) <= cap
         /\ Cardinality(0..(cap - 1)) = cap
<1>1. IsFiniteSet(0..(cap - 1)) /\ Cardinality(0..(cap - 1)) = cap
  BY FS_Interval
<1>2. UsedIn(T) \subseteq 0..(cap - 1) /\ TombsIn(T) \subseteq 0..(cap - 1)
  BY DEF UsedIn, TombsIn, EntriesOf
<1>3. IsFiniteSet(UsedIn(T)) /\ IsFiniteSet(TombsIn(T)) /\ Cardinality(UsedIn(T)) <= cap
  BY <1>1, <1>2, FS_Subset
<1>4. Cardinality(UsedIn(T)) \in Nat /\ Cardinality(TombsIn(T)) \in Nat
  BY <1>3, FS_CardinalityType
<1> QED BY <1>1, <1>2, <1>3, <1>4

-----------------------------------------------------------------------------
(* Growth.                                                                 *)

(* The steps of a rehash exist, so each follows from the one before.       *)
LEMMA RehashUnfolds ==
  ASSUME NEW T, NEW cap \in Nat
  PROVE  /\ RehashSteps(T, cap)[0] = Blank(2 * cap)
         /\ \A i \in 1..cap : RehashSteps(T, cap)[i] =
               IF T[i - 1].st = 1 THEN Inserted(T[i - 1], RehashSteps(T, cap)[i - 1], 2 * cap)
               ELSE RehashSteps(T, cap)[i - 1]
<1> DEFINE After(i, U) == IF T[i - 1].st = 1 THEN Inserted(T[i - 1], U, 2 * cap) ELSE U
<1> DEFINE Steps(f, n) == f = [i \in 0..n |-> IF i = 0 THEN Blank(2 * cap) ELSE After(i, f[i - 1])]
<1> DEFINE Bad == {n \in 0..cap : ~\E f : Steps(f, n)}
<1>1. RehashSteps(T, cap) = CHOOSE f : Steps(f, cap)
  BY DEF RehashSteps
<1> HIDE DEF After
<1>2. Bad = {}
  <2> SUFFICES ASSUME Bad # {} PROVE FALSE
    OBVIOUS
  <2>1. PICK n \in Bad : \A m \in Bad : n <= m
    <3>1. Bad \in SUBSET Nat
      OBVIOUS
    <3> HIDE DEF Bad
    <3> QED BY <3>1, LeastNat
  <2>2. n \in 0..cap /\ ~\E f : Steps(f, n)
    BY <2>1
  <2>3. CASE n = 0
    <3>1. Steps([i \in 0..0 |-> Blank(2 * cap)], 0)
      OBVIOUS
    <3> QED BY <2>2, <2>3, <3>1
  <2>4. CASE n # 0
    <3>1. n - 1 \in 0..cap /\ n - 1 < n /\ n - 1 \notin Bad
      BY <2>1, <2>2, <2>4
    <3>2. PICK f : Steps(f, n - 1)
      BY <3>1
    <3> DEFINE g == [i \in 0..n |-> IF i < n THEN f[i] ELSE After(n, f[n - 1])]
    <3>3. ASSUME NEW i \in 0..n
          PROVE  g[i] = IF i = 0 THEN Blank(2 * cap) ELSE After(i, g[i - 1])
      <4>1. CASE i = 0
        BY <2>2, <2>4, <3>2, <4>1
      <4>2. CASE i # 0
        <5>1. i - 1 \in 0..n /\ i - 1 \in 0..(n - 1) /\ g[i - 1] = f[i - 1]
          BY <2>2, <4>2
        <5>2. CASE i < n
          BY <2>2, <3>2, <4>2, <5>1, <5>2
        <5>3. CASE i = n
          BY <2>2, <4>2, <5>1, <5>3
        <5> QED BY <2>2, <5>2, <5>3
      <4> QED BY <4>1, <4>2
    <3>4. Steps(g, n)
      BY <3>3
    <3> QED BY <2>2, <3>4
  <2> QED BY <2>3, <2>4
<1>3. cap \in 0..cap /\ \E f : Steps(f, cap)
  BY <1>2
<1>4. Steps(RehashSteps(T, cap), cap)
  <2> HIDE DEF Steps
  <2> QED BY <1>1, <1>3
<1> DEFINE R == RehashSteps(T, cap)
<1>5. R = [i \in 0..cap |-> IF i = 0 THEN Blank(2 * cap) ELSE After(i, R[i - 1])]
  BY <1>4
<1> HIDE DEF R
<1>6. R[0] = Blank(2 * cap) /\ \A i \in 1..cap : R[i] = After(i, R[i - 1])
  BY <1>5
<1> QED BY <1>6 DEF R, After

(* A table with fewer used entries than its size and no tombstone has an   *)
(* empty entry, which the probing finds.                                   *)
LEMMA FindsEmpty ==
  ASSUME NEW cap \in Nat, NEW T \in EntriesOf(cap), TombsIn(T) = {},
         Cardinality(UsedIn(T)) < cap, NEW k \in Key
  PROVE  \E n \in 0..(cap - 1) :
            /\ FirstOr(cap, LAMBDA i : T[Probe(k, cap, i)].st = 0) = n
            /\ T[Probe(k, cap, n)].st = 0
            /\ \A m \in 0..(n - 1) : T[Probe(k, cap, m)].st # 0
<1> DEFINE Hits == {i \in 0..(cap - 1) : T[Probe(k, cap, i)].st = 0}
<1>1. PICK p \in 0..(cap - 1) : T[p].st = 0
  <2>1. UsedIn(T) # 0..(cap - 1)
    BY UsedFinite
  <2>2. PICK p \in 0..(cap - 1) : p \notin UsedIn(T)
    BY <2>1, UsedFinite
  <2>3. T[p].st \in 0..2 /\ T[p].st # 1 /\ T[p].st # 2
    BY <2>2, EntryFacts DEF UsedIn, TombsIn, EntriesOf
  <2> QED BY <2>3
<1>2. cap \in Nat \ {0} /\ \E i \in 0..(cap - 1) : Probe(k, cap, i) = p
  BY <1>1, ProbeAll
<1>3. PICK i \in 0..(cap - 1) : i \in Hits
  BY <1>1, <1>2
<1>4. PICK n \in 0..cap : (n < cap => n \in Hits) /\ \A j \in 0..(n - 1) : j \notin Hits
  <2> HIDE DEF Hits
  <2> QED BY LeastOr
<1>5. n <= i
  BY <1>3, <1>4
<1>6. n \in 0..(cap - 1) /\ T[Probe(k, cap, n)].st = 0
      /\ \A j \in 0..(n - 1) : T[Probe(k, cap, j)].st # 0
  BY <1>4, <1>5
<1>7. \A m \in 0..cap : (/\ m < cap => T[Probe(k, cap, m)].st = 0
                         /\ \A j \in 0..(m - 1) : T[Probe(k, cap, j)].st # 0) => m = n
  BY <1>6
<1>8. FirstOr(cap, LAMBDA j : T[Probe(k, cap, j)].st = 0) = n
  BY <1>6, <1>7 DEF FirstOr
<1> QED BY <1>6, <1>8

(* After i slots of T, the new table U holds just the used ones of them.   *)
Rehashing(T, cap, i, U) ==
    /\ U \in EntriesOf(2 * cap) /\ Chained(U, 2 * cap) /\ TombsIn(U) = {}
    /\ Cardinality(UsedIn(U)) = Cardinality(UsedIn(T) \cap 0..(i - 1))
    /\ \A j \in UsedIn(T) \cap 0..(i - 1) : \E p \in UsedIn(U) : U[p] = T[j]
    /\ \A p \in UsedIn(U) : \E j \in UsedIn(T) \cap 0..(i - 1) : T[j] = U[p]

(* One slot more of the old table leaves the copy in step with it.         *)
LEMMA RehashStep ==
  ASSUME NEW cap \in Nat, NEW T \in EntriesOf(cap), Chained(T, cap),
         NEW i \in 1..cap, NEW U, Rehashing(T, cap, i - 1, U),
         NEW V, V = IF T[i - 1].st = 1 THEN Inserted(T[i - 1], U, 2 * cap) ELSE U
  PROVE  Rehashing(T, cap, i, V)
<1> DEFINE Old == UsedIn(T) \cap 0..(i - 2)
<1> DEFINE New == UsedIn(T) \cap 0..(i - 1)
<1> DEFINE dim == 2 * cap
<1>1. /\ dim \in Nat /\ i - 1 \in 0..(cap - 1) /\ i - 1 \in Nat /\ (i - 1) - 1 = i - 2
      /\ i - 1 < dim /\ i - 1 \notin Old /\ IsFiniteSet(UsedIn(T))
  BY UsedFinite
<1>2. /\ U \in EntriesOf(dim) /\ Chained(U, dim) /\ TombsIn(U) = {}
      /\ Cardinality(UsedIn(U)) = Cardinality(Old)
      /\ \A j \in Old : \E p \in UsedIn(U) : U[p] = T[j]
      /\ \A p \in UsedIn(U) : \E j \in Old : T[j] = U[p]
  BY <1>1 DEF Rehashing
<1>3. CASE T[i - 1].st # 1
  <2>1. New = Old
    BY <1>1, <1>3 DEF UsedIn
  <2> QED BY <1>2, <1>3, <2>1 DEF Rehashing
<1>4. CASE T[i - 1].st = 1
  <2> DEFINE k == T[i - 1].key
  <2> DEFINE x == T[i - 1].val
  <2>1. k \in Key /\ x \in Val /\ T[i - 1] = Entry(k, x) /\ i - 1 \in UsedIn(T)
    BY <1>1, <1>4, EntryFacts DEF EntriesOf, UsedIn
  <2>2. New = Old \cup {i - 1}
    BY <1>1, <2>1 DEF UsedIn
  <2>3. IsFiniteSet(Old) /\ Cardinality(Old) <= i - 1 /\ Cardinality(New) = Cardinality(Old) + 1
    <3>1. IsFiniteSet(0..(i - 2)) /\ Cardinality(0..(i - 2)) = i - 1
      <4>1. i \in Int /\ i - 2 \in Int /\ 0 \in Int /\ i >= 1
        OBVIOUS
      <4>2. IsFiniteSet(0..(i - 2))
            /\ Cardinality(0..(i - 2)) = IF 0 > i - 2 THEN 0 ELSE (i - 2) - 0 + 1
        BY <4>1, FS_Interval
      <4> QED BY <4>1, <4>2
    <3>2. Old \in SUBSET (0..(i - 2))
      OBVIOUS
    <3>3. IsFiniteSet(Old) /\ Cardinality(Old) <= i - 1
      <4> HIDE DEF Old
      <4> QED BY <3>1, <3>2, FS_Subset
    <3> HIDE DEF Old
    <3> QED BY <1>1, <2>2, <3>3, FS_AddElement
  <2>4. Cardinality(UsedIn(U)) < dim /\ Cardinality(UsedIn(U)) \in Nat
    BY <1>1, <1>2, <2>3, FS_CardinalityType
  <2>5. ASSUME NEW p \in UsedIn(U) PROVE U[p].key # k
    <3>1. PICK j \in Old : T[j] = U[p]
      BY <1>2
    <3>2. j \in UsedIn(T) /\ j # i - 1
      BY <1>1
    <3> QED BY <2>1, <3>1, <3>2 DEF Chained
  <2> HIDE DEF k, x, dim, Old, New
  <2>6. PICK n \in 0..(dim - 1) :
            /\ FirstOr(dim, LAMBDA j : U[Probe(k, dim, j)].st = 0) = n
            /\ U[Probe(k, dim, n)].st = 0
            /\ \A m \in 0..(n - 1) : U[Probe(k, dim, m)].st # 0
    BY <1>1, <1>2, <2>1, <2>4, FindsEmpty
  <2>7. V = [U EXCEPT ![Probe(k, dim, n)] = Entry(k, x)]
    BY <1>4, <2>1, <2>6 DEF Inserted, dim, k
  <2> DEFINE q == Probe(k, dim, n)
  <2>8. /\ V \in EntriesOf(dim) /\ Chained(V, dim)
        /\ UsedIn(V) = UsedIn(U) \cup {q} /\ TombsIn(V) = TombsIn(U) \ {q}
        /\ V[q] = Entry(k, x) /\ \A p \in UsedIn(U) : V[p] = U[p]
    <3>1. q \in 0..(dim - 1) /\ U[q].st # 1 /\ Entry(k, x) \in EntryType
      BY <1>1, <2>1, <2>6, ProbeType, EntryFacts
    <3>2. Replaces(dim, U, q, Entry(k, x), V)
      <4> HIDE DEF q
      <4> QED BY <1>1, <1>2, <2>7, <3>1, ExceptReplaces DEF q
    <3>3. q = Probe(k, dim, n) /\ U[Probe(k, dim, n)].st # 1
      BY <3>1
    <3> HIDE DEF q
    <3> QED BY <1>1, <1>2, <2>1, <2>5, <2>6, <3>2, <3>3, StoreFacts
  <2>9. q \notin UsedIn(U)
    BY <2>6 DEF UsedIn
  <2> HIDE DEF q
  <2>10. Cardinality(UsedIn(V)) = Cardinality(New)
    <3>1. IsFiniteSet(UsedIn(U))
      BY <1>1, <1>2, UsedFinite
    <3> QED BY <1>2, <2>3, <2>8, <2>9, <3>1, FS_AddElement
  <2>11. ASSUME NEW j \in New PROVE \E p \in UsedIn(V) : V[p] = T[j]
    BY <1>2, <2>1, <2>2, <2>8
  <2>12. ASSUME NEW p \in UsedIn(V) PROVE \E j \in New : T[j] = V[p]
    BY <1>2, <2>1, <2>2, <2>8
  <2> QED BY <1>2, <2>8, <2>10, <2>11, <2>12 DEF Rehashing, New, dim
<1> QED BY <1>3, <1>4

(* __nc_map_rehash keeps each key with its value, leaves no tombstone, and *)
(* makes a sound table with as many used entries.                          *)
LEMMA RehashFacts ==
  ASSUME NEW cap \in Nat, NEW T \in EntriesOf(cap), Chained(T, cap)
  PROVE  Rehashing(T, cap, cap, Rehashed(T, cap))
<1> DEFINE R == RehashSteps(T, cap)
<1> DEFINE Bad == {i \in 0..cap : ~Rehashing(T, cap, i, R[i])}
<1>1. R[0] = Blank(2 * cap)
      /\ \A i \in 1..cap : R[i] = IF T[i - 1].st = 1 THEN Inserted(T[i - 1], R[i - 1], 2 * cap)
                                  ELSE R[i - 1]
  BY RehashUnfolds
<1> HIDE DEF R
<1>2. Rehashing(T, cap, 0, R[0])
  <2>1. UsedIn(T) \cap 0..(0 - 1) = {} /\ 2 * cap \in Nat
    OBVIOUS
  <2> QED BY <1>1, <2>1, BlankFacts DEF Rehashing
<1>3. Bad = {}
  <2> SUFFICES ASSUME Bad # {} PROVE FALSE
    OBVIOUS
  <2>1. PICK n \in Bad : \A m \in Bad : n <= m
    <3>1. Bad \in SUBSET Nat
      OBVIOUS
    <3> HIDE DEF Bad
    <3> QED BY <3>1, LeastNat
  <2>2. n \in 1..cap /\ n - 1 \in 0..cap /\ n - 1 \notin Bad
    BY <1>2, <2>1
  <2>3. Rehashing(T, cap, n - 1, R[n - 1])
    BY <2>2
  <2>4. Rehashing(T, cap, n, R[n])
    BY <1>1, <2>2, <2>3, RehashStep
  <2> QED BY <2>1, <2>4
<1>4. cap \in 0..cap
  OBVIOUS
<1> QED BY <1>3, <1>4 DEF Rehashed, R

-----------------------------------------------------------------------------
(* Headers and their tables.                                               *)

(* A zero header and the loop that is not there refer to no table.         *)
LEMMA NoMapFacts ==
  /\ NoMap.tab = NoTable /\ NoMap.cap = 0 /\ NoMap.len = 0 /\ NoMap.tombs = 0
  /\ NoLoop.tab = NoTable /\ NoLoop.cap = 0 /\ NoLoop.at = 0
  /\ NoTable \notin Table
BY MapAssumption DEF NoMap, NoLoop

(* A table that is dropped has no entries.                                 *)
LEMMA GoneFacts ==
  /\ Gone \in EntriesOf(0) /\ DOMAIN Gone = {}
  /\ UsedIn(Gone) = {} /\ TombsIn(Gone) = {}
BY DEF Gone, EntriesOf, UsedIn, TombsIn

(* The domain of a table determines its capacity.                          *)
LEMMA SameSize ==
  ASSUME NEW a \in Nat, NEW b \in Nat, 0..(a - 1) = 0..(b - 1)
  PROVE  a = b
<1>1. CASE a < b
  BY <1>1
<1>2. CASE b < a
  BY <1>2
<1> QED BY <1>1, <1>2

(* A table has the entries its domain says, and they are chained.          *)
LEMMA TableFacts ==
  ASSUME MapInv, NEW t \in Table, NEW cap \in Nat, DOMAIN table[t] = 0..(cap - 1)
  PROVE  /\ table[t] \in EntriesOf(cap) /\ Chained(table[t], cap) /\ cap \in 0..MaxCap
<1>1. PICK dim \in 0..MaxCap : table[t] \in [0..(dim - 1) -> EntryType]
  BY DEF MapInv, TypeOK
<1>2. dim = cap
  <2>1. 0..(dim - 1) = 0..(cap - 1) /\ dim \in Nat
    BY <1>1, MapAssumption
  <2> QED BY <2>1, SameSize
<1> QED BY <1>1, <1>2 DEF EntriesOf, MapInv, TablesInv

(* The header of a variable is zero or describes a sound table.            *)
LEMMA HeaderFacts ==
  ASSUME MapInv, NEW v \in Var
  PROVE  \/ hdr[v] = NoMap
         \/ /\ hdr[v].cap \in InitCap..MaxCap /\ hdr[v].cap \in Nat /\ hdr[v].cap >= 4
            /\ hdr[v].tab \in Table /\ hdr[v].tab # NoTable /\ hdr[v].tab \in InUse
            /\ DOMAIN table[hdr[v].tab] = 0..(hdr[v].cap - 1)
            /\ table[hdr[v].tab] \in EntriesOf(hdr[v].cap)
            /\ Chained(table[hdr[v].tab], hdr[v].cap)
            /\ hdr[v].len \in Int /\ hdr[v].tombs \in Int
            /\ hdr[v] = [tab |-> hdr[v].tab, cap |-> hdr[v].cap, len |-> hdr[v].len,
                         tombs |-> hdr[v].tombs]
<1>1. hdr[v] = NoMap \/ \E cap \in InitCap..MaxCap : Describes(hdr[v], cap)
  BY DEF MapInv, HeadersInv
<1>2. ASSUME NEW cap \in InitCap..MaxCap, Describes(hdr[v], cap)
      PROVE  /\ hdr[v].cap = cap /\ hdr[v].tab \in Table /\ hdr[v].tab # NoTable
             /\ DOMAIN table[hdr[v].tab] = 0..(hdr[v].cap - 1)
             /\ cap \in Nat /\ cap >= 4
  BY <1>2, MapAssumption DEF Describes
<1>3. hdr[v] \in [tab : Table \cup {NoTable}, cap : 0..MaxCap, len : Int, tombs : Int]
      /\ hdr[v].tab \in InUse
  BY DEF MapInv, TypeOK, InUse, Rooted
<1> QED BY <1>1, <1>2, <1>3, TableFacts

(* A header with a capacity describes a sound table.                       *)
LEMMA SetHeaderFacts ==
  ASSUME MapInv, NEW v \in Var, hdr[v].cap > 0
  PROVE  /\ hdr[v].cap \in InitCap..MaxCap /\ hdr[v].cap \in Nat \ {0}
         /\ hdr[v].tab \in Table /\ hdr[v].tab # NoTable
         /\ DOMAIN table[hdr[v].tab] = 0..(hdr[v].cap - 1)
         /\ table[hdr[v].tab] \in EntriesOf(hdr[v].cap)
         /\ Chained(table[hdr[v].tab], hdr[v].cap)
         /\ hdr[v].len \in Int /\ hdr[v].tombs \in Int
         /\ hdr[v] \in [tab : Table, cap : InitCap..MaxCap, len : Int, tombs : Int]
<1>1. hdr[v] # NoMap
  BY NoMapFacts
<1>2. /\ hdr[v].cap \in InitCap..MaxCap /\ hdr[v].cap \in Nat /\ hdr[v].cap >= 4
      /\ hdr[v].tab \in Table /\ hdr[v].tab # NoTable
      /\ DOMAIN table[hdr[v].tab] = 0..(hdr[v].cap - 1)
      /\ table[hdr[v].tab] \in EntriesOf(hdr[v].cap)
      /\ Chained(table[hdr[v].tab], hdr[v].cap)
      /\ hdr[v].len \in Int /\ hdr[v].tombs \in Int
  BY <1>1, HeaderFacts
<1>3. hdr[v] \in [tab : Table \cup {NoTable}, cap : 0..MaxCap, len : Int, tombs : Int]
  BY DEF MapInv, TypeOK
<1>4. hdr[v] \in [tab : Table, cap : InitCap..MaxCap, len : Int, tombs : Int]
  <2> DEFINE h == hdr[v]
  <2>1. h \in [tab : Table \cup {NoTable}, cap : 0..MaxCap, len : Int, tombs : Int]
        /\ h.tab \in Table /\ h.cap \in InitCap..MaxCap
    BY <1>2, <1>3
  <2> HIDE DEF h
  <2>2. h \in [tab : Table, cap : InitCap..MaxCap, len : Int, tombs : Int]
    BY <2>1
  <2> QED BY <2>2 DEF h
<1> QED BY <1>2, <1>4

-----------------------------------------------------------------------------
(* A header that is set: in place, or with a fresh table.                  *)

Placed(v, h) == h.tab \in Fresh \/ (h.tab = hdr[v].tab /\ h.cap = hdr[v].cap)

Valid(v, h, T) ==
    /\ h \in [tab : Table, cap : InitCap..MaxCap, len : Int, tombs : Int]
    /\ T \in EntriesOf(h.cap) /\ Chained(T, h.cap)
    /\ Placed(v, h)
    /\ h.tab \notin shared => Counted(h, T)

(* The entries of the keys in S stay where the loop will find them.        *)
Kept(h, T, S) ==
    iter # NoLoop /\ iter.tab = h.tab =>
        \A k \in S, i \in UsedIn(table[iter.tab]) :
            table[iter.tab][i].key = k => i \in UsedIn(T) /\ T[i].key = k

(* The tables behind a header that is set: its own is T, others stay or go. *)
LEMMA SetTables ==
  ASSUME MapInv, NEW v \in Var, NEW h, NEW T, Valid(v, h, T), SetHeader(v, h, T)
  PROVE  /\ h.cap \in Nat /\ h.cap > 0 /\ h.cap \in 0..MaxCap /\ DOMAIN T = 0..(h.cap - 1)
         /\ h.tab \in Table /\ h.tab # NoTable /\ h.tab \in InUse'
         /\ hdr'[v] = h /\ \A w \in Var \ {v} : hdr'[w] = hdr[w]
         /\ iter' = iter /\ shared' = shared \cap InUse'
         /\ \A w \in Var : hdr'[w].tab \in InUse'
         /\ iter.tab \in InUse'
         /\ DOMAIN table' = Table
         /\ \A t \in Table : table'[t] = IF t \in InUse' THEN IF t = h.tab THEN T ELSE table[t]
                                         ELSE Gone
         /\ \A w \in Var \ {v} : hdr[w].tab = h.tab => h.tab = hdr[v].tab /\ h.cap = hdr[v].cap
         /\ iter.tab = h.tab => h.tab = hdr[v].tab /\ h.cap = hdr[v].cap
<1>1. /\ h \in [tab : Table, cap : InitCap..MaxCap, len : Int, tombs : Int]
      /\ h.cap \in Nat /\ h.cap > 0 /\ h.cap \in 0..MaxCap /\ h.tab \in Table /\ h.tab # NoTable
      /\ DOMAIN T = 0..(h.cap - 1)
  BY MapAssumption DEF Valid, EntriesOf
<1>2. /\ hdr \in [Var -> [tab : Table \cup {NoTable}, cap : 0..MaxCap, len : Int, tombs : Int]]
      /\ DOMAIN table = Table
  BY DEF MapInv, TypeOK
<1>3. hdr'[v] = h /\ \A w \in Var \ {v} : hdr'[w] = hdr[w]
  BY <1>2 DEF SetHeader
<1>4. iter' = iter /\ shared' = shared \cap InUse'
      /\ table' = [t \in Table |-> IF t \in InUse' THEN [table EXCEPT ![h.tab] = T][t] ELSE Gone]
  BY DEF SetHeader, Keep
<1>5. /\ \A w \in Var : hdr'[w].tab \in InUse'
      /\ iter.tab \in InUse'
  BY <1>4 DEF InUse, Rooted
<1>6. \A t \in Table : table'[t] = IF t \in InUse' THEN IF t = h.tab THEN T ELSE table[t]
                                   ELSE Gone
  BY <1>1, <1>2, <1>4
<1>7. \A w \in Var : hdr[w].tab \in InUse /\ iter.tab \in InUse
  BY DEF InUse, Rooted
<1>8. h.tab \in InUse => h.tab = hdr[v].tab /\ h.cap = hdr[v].cap
  BY DEF Valid, Placed, Fresh
<1>9. h.tab \in InUse'
  BY <1>3, <1>5
<1> QED BY <1>1, <1>3, <1>4, <1>5, <1>6, <1>7, <1>8, <1>9

(* While a loop goes on, variables part from it and do not come back.      *)
LEMMA PartedFacts ==
  ASSUME MapInv, NEW T, NEW S, Keep(T, S)
  PROVE  /\ parted' \subseteq Var
         /\ iter' = NoLoop => parted' = {}
         /\ iter' # NoLoop => /\ parted \subseteq parted'
                             /\ \A w \in Var \ parted' : w \notin parted /\ hdr'[w].tab = iter.tab
BY DEF Keep, MapInv, TypeOK

(* A valid header that keeps the keys that stay keeps the invariant.       *)
LEMMA SetKeepsInv ==
  ASSUME MapInv, NEW v \in Var, NEW h, NEW T, Valid(v, h, T), SetHeader(v, h, T),
         visited' = visited, stayed' \subseteq stayed, Kept(h, T, stayed')
  PROVE  MapInv'
<1>1. /\ h.cap \in Nat /\ h.cap > 0 /\ h.cap \in 0..MaxCap /\ DOMAIN T = 0..(h.cap - 1)
      /\ h.tab \in Table /\ h.tab # NoTable /\ h.tab \in InUse'
      /\ hdr'[v] = h /\ \A w \in Var \ {v} : hdr'[w] = hdr[w]
      /\ iter' = iter /\ shared' = shared \cap InUse'
      /\ \A w \in Var : hdr'[w].tab \in InUse'
      /\ iter.tab \in InUse'
      /\ DOMAIN table' = Table
      /\ \A t \in Table : table'[t] = IF t \in InUse' THEN IF t = h.tab THEN T ELSE table[t]
                                      ELSE Gone
      /\ \A w \in Var \ {v} : hdr[w].tab = h.tab => h.tab = hdr[v].tab /\ h.cap = hdr[v].cap
      /\ iter.tab = h.tab => h.tab = hdr[v].tab /\ h.cap = hdr[v].cap
  BY SetTables
<1>2. /\ h \in [tab : Table, cap : InitCap..MaxCap, len : Int, tombs : Int]
      /\ T \in EntriesOf(h.cap) /\ Chained(T, h.cap)
      /\ h.tab \notin shared => Counted(h, T)
  BY DEF Valid
<1>3. hdr[v].tab = h.tab => DOMAIN table[h.tab] = 0..(hdr[v].cap - 1)
  BY <1>1, HeaderFacts, NoMapFacts
<1>4. TypeOK'
  <2>1. hdr' \in [Var -> [tab : Table \cup {NoTable}, cap : 0..MaxCap, len : Int, tombs : Int]]
    <3>1. hdr' = [hdr EXCEPT ![v] = h] /\ hdr \in [Var -> [tab : Table \cup {NoTable},
                                                      cap : 0..MaxCap, len : Int, tombs : Int]]
      BY DEF SetHeader, MapInv, TypeOK
    <3>2. h \in [tab : Table \cup {NoTable}, cap : 0..MaxCap, len : Int, tombs : Int]
      BY <1>1, <1>2
    <3> QED BY <3>1, <3>2
  <2>2. ASSUME NEW t \in Table
        PROVE  \E cap \in 0..MaxCap : table'[t] \in [0..(cap - 1) -> EntryType]
    <3>1. \E cap \in 0..MaxCap : table[t] \in [0..(cap - 1) -> EntryType]
      BY DEF MapInv, TypeOK
    <3>2. 0 \in 0..MaxCap
      BY MapAssumption
    <3>3. T \in [0..(h.cap - 1) -> EntryType] /\ Gone \in [0..(0 - 1) -> EntryType]
      BY <1>2, GoneFacts DEF EntriesOf
    <3> QED BY <1>1, <3>1, <3>2, <3>3
  <2>3. shared' \subseteq Table /\ iter' = iter /\ visited' = visited /\ stayed' \subseteq Key
    BY <1>1 DEF MapInv, TypeOK
  <2>4. parted' \subseteq Var
    BY PartedFacts DEF SetHeader
  <2> QED BY <1>1, <2>1, <2>2, <2>3, <2>4 DEF MapInv, TypeOK
<1>5. HeadersInv'
  <2>1. ASSUME NEW w \in Var
        PROVE  hdr'[w] = NoMap \/ \E cap \in InitCap..MaxCap : Describes(hdr[w], cap)'
    <3>1. CASE w = v
      <4>1. h.cap \in InitCap..MaxCap
        BY <1>2
      <4>2. Describes(hdr[w], h.cap)'
        BY <1>1, <3>1 DEF Describes
      <4> QED BY <4>1, <4>2
    <3>2. CASE w # v /\ hdr[w] # NoMap
      <4>1. /\ hdr[w].cap \in InitCap..MaxCap /\ hdr[w].tab \in Table
            /\ DOMAIN table[hdr[w].tab] = 0..(hdr[w].cap - 1)
        BY <3>2, HeaderFacts
      <4>2. hdr'[w] = hdr[w] /\ hdr[w].tab \in InUse'
        BY <1>1, <3>2
      <4>3. DOMAIN table'[hdr[w].tab] = 0..(hdr[w].cap - 1)
        BY <1>1, <1>3, <3>2, <4>1, <4>2
      <4>4. PICK cap \in InitCap..MaxCap : cap = hdr[w].cap
        BY <4>1
      <4>5. Describes(hdr[w], cap)'
        BY <4>1, <4>2, <4>3, <4>4 DEF Describes
      <4> QED BY <4>5
    <3>3. CASE w # v /\ hdr[w] = NoMap
      BY <1>1, <3>3
    <3> QED BY <3>1, <3>2, <3>3
  <2>2. ASSUME NEW u \in Var, NEW w \in Var, u # w, hdr'[u].tab = hdr'[w].tab
        PROVE  hdr'[u].tab \in shared' \cup {NoTable}
    <3>1. hdr[u].tab = hdr[w].tab \/ hdr'[u].tab = h.tab
      BY <1>1, <2>2
    <3>2. hdr[u].tab = hdr[w].tab /\ hdr'[u].tab = hdr[u].tab
      BY <1>1, <2>2, <3>1
    <3>3. hdr[u].tab \in shared \cup {NoTable}
      BY <2>2, <3>2 DEF MapInv, HeadersInv
    <3> QED BY <1>1, <3>2, <3>3
  <2>3. shared' \subseteq InUse'
    BY <1>1
  <2> QED BY <2>1, <2>2, <2>3 DEF HeadersInv
<1>6. TablesInv'
  <2>1. ASSUME NEW t \in Table, NEW cap \in 0..MaxCap, DOMAIN table'[t] = 0..(cap - 1)
        PROVE  Chained(table'[t], cap)
    <3>1. CASE t = h.tab
      <4>1. cap \in Nat /\ 0..(cap - 1) = 0..(h.cap - 1)
        BY <1>1, <2>1, <3>1, MapAssumption
      <4>2. cap = h.cap
        BY <1>1, <4>1, SameSize
      <4> QED BY <1>1, <1>2, <3>1, <4>2
    <3>2. CASE t # h.tab /\ t \in InUse'
      BY <1>1, <2>1, <3>2 DEF MapInv, TablesInv
    <3>3. CASE t \notin InUse'
      <4>1. UsedIn(table'[t]) = {}
        BY <1>1, <3>3, GoneFacts
      <4> QED BY <4>1 DEF Chained
    <3> QED BY <3>1, <3>2, <3>3
  <2> QED BY <2>1 DEF TablesInv
<1>7. CountsInv'
  <2>1. ASSUME NEW w \in Var, hdr'[w].cap > 0, hdr'[w].tab \notin shared'
        PROVE  Counted(hdr'[w], table'[hdr'[w].tab])
    <3>1. hdr'[w].tab \in InUse' /\ hdr'[w].tab \notin shared
      BY <1>1, <2>1
    <3>2. CASE w = v
      BY <1>1, <1>2, <3>1, <3>2
    <3>3. CASE w # v
      <4>1. hdr'[w] = hdr[w] /\ hdr[w].cap > 0 /\ hdr[w].tab \in Table
        <5>1. hdr'[w] = hdr[w] /\ hdr[w].cap > 0
          BY <1>1, <2>1, <3>3
        <5>2. hdr[w] # NoMap
          BY <5>1, NoMapFacts
        <5> QED BY <5>1, <5>2, HeaderFacts
      <4>2. hdr[w].tab # h.tab
        BY <1>1, <3>1, <3>3, <4>1 DEF MapInv, HeadersInv
      <4>3. table'[hdr[w].tab] = table[hdr[w].tab]
        BY <1>1, <3>1, <4>1, <4>2
      <4> QED BY <3>1, <4>1, <4>3 DEF MapInv, CountsInv
    <3> QED BY <3>2, <3>3
  <2> QED BY <2>1 DEF CountsInv
<1>8. LoopInv'
  <2>0. iter # NoLoop => /\ parted \subseteq parted' /\ parted' \subseteq Var
                         /\ \A w \in Var \ parted' : w \notin parted /\ hdr'[w].tab = iter.tab
    BY <1>1, PartedFacts DEF SetHeader
  <2> SUFFICES ASSUME iter # NoLoop, iter.tab # NoTable PROVE LoopInv'
    BY <1>1, <2>0 DEF MapInv, LoopInv
  <2>1. /\ iter.tab \in Table /\ DOMAIN table[iter.tab] = 0..(iter.cap - 1) /\ iter.at <= iter.cap
        /\ \A k \in stayed : \E i \in UsedIn(table[iter.tab]) :
               /\ table[iter.tab][i].key = k
               /\ visited[k] = IF i < iter.at THEN 1 ELSE 0
    BY DEF MapInv, LoopInv, Describes
  <2>2. CASE iter.tab # h.tab
    <3>1. table'[iter.tab] = table[iter.tab]
      BY <1>1, <2>1, <2>2
    <3> QED BY <1>1, <2>0, <2>1, <3>1 DEF LoopInv, Describes
  <2>3. CASE iter.tab = h.tab
    <3>1. table'[iter.tab] = T
      BY <1>1, <2>1, <2>3
    <3>2. DOMAIN T = 0..(iter.cap - 1)
      BY <1>1, <1>3, <2>1, <2>3
    <3>3. ASSUME NEW k \in stayed'
          PROVE  \E i \in UsedIn(T) : T[i].key = k /\ visited[k] = IF i < iter.at THEN 1 ELSE 0
      <4>1. PICK i \in UsedIn(table[iter.tab]) : /\ table[iter.tab][i].key = k
                                                 /\ visited[k] = IF i < iter.at THEN 1 ELSE 0
        BY <2>1
      <4>2. i \in UsedIn(T) /\ T[i].key = k
        BY <2>3, <4>1 DEF Kept
      <4> QED BY <4>1, <4>2
    <3> QED BY <1>1, <2>0, <2>1, <3>1, <3>2, <3>3 DEF LoopInv, Describes
  <2> QED BY <2>2, <2>3
<1> QED BY <1>4, <1>5, <1>6, <1>7, <1>8 DEF MapInv

(* What readers see of it: v reads T, and a variable that shares the       *)
(* entries reads the same as v before and after; the others do not change. *)
LEMMA SetObserved ==
  ASSUME MapInv, NEW v \in Var, NEW h, NEW T, Valid(v, h, T), SetHeader(v, h, T)
  PROVE  /\ \A k \in Key : Observed'[v][k] = LookupIn(T, h.cap, k)
         /\ \A w \in Var \ {v} :
              \/ Observed'[w] = Observed[w]
              \/ Observed[w] = Observed[v] /\ Observed'[w] = Observed'[v]
<1>1. /\ h.cap \in Nat /\ h.cap > 0
      /\ h.tab \in Table /\ h.tab \in InUse'
      /\ hdr'[v] = h /\ \A w \in Var \ {v} : hdr'[w] = hdr[w]
      /\ \A w \in Var : hdr'[w].tab \in InUse'
      /\ \A t \in Table : table'[t] = IF t \in InUse' THEN IF t = h.tab THEN T ELSE table[t]
                                      ELSE Gone
      /\ \A w \in Var \ {v} : hdr[w].tab = h.tab => h.tab = hdr[v].tab /\ h.cap = hdr[v].cap
  BY SetTables
<1>2. ASSUME NEW k \in Key PROVE Observed'[v][k] = LookupIn(T, h.cap, k)
  BY <1>1 DEF Observed, Lookup
<1>3. ASSUME NEW w \in Var \ {v}
      PROVE  \/ Observed'[w] = Observed[w]
             \/ Observed[w] = Observed[v] /\ Observed'[w] = Observed'[v]
  <2>1. hdr'[w] = hdr[w]
    BY <1>1
  <2>2. CASE hdr[w] = NoMap
    BY <2>1, <2>2, NoMapFacts DEF Observed, Lookup
  <2>3. CASE hdr[w] # NoMap /\ hdr[w].tab # h.tab
    <3>1. hdr[w].tab \in Table /\ hdr[w].tab \in InUse'
      BY <1>1, <2>1, <2>3, HeaderFacts
    <3>2. table'[hdr[w].tab] = table[hdr[w].tab]
      BY <1>1, <2>3, <3>1
    <3> QED BY <2>1, <3>2 DEF Observed, Lookup
  <2>4. CASE hdr[w] # NoMap /\ hdr[w].tab = h.tab
    <3>1. hdr[w].tab = hdr[v].tab /\ h.cap = hdr[v].cap
      BY <1>1, <2>4
    <3>2. hdr[v] # NoMap
      BY <1>1, <3>1, NoMapFacts
    <3>3. hdr[w].cap = hdr[v].cap
      <4>1. 0..(hdr[w].cap - 1) = 0..(hdr[v].cap - 1) /\ hdr[w].cap \in Nat /\ hdr[v].cap \in Nat
        BY <2>4, <3>1, <3>2, HeaderFacts
      <4> QED BY <4>1, SameSize
    <3>4. Observed[w] = Observed[v]
      BY <3>1, <3>3 DEF Observed, Lookup
    <3>5. Observed'[w] = Observed'[v]
      <4>1. hdr'[w].tab = hdr'[v].tab /\ hdr'[w].cap = hdr'[v].cap
        BY <1>1, <2>1, <2>4, <3>1, <3>3
      <4> QED BY <4>1 DEF Observed, Lookup
    <3> QED BY <3>4, <3>5
  <2> QED BY <2>2, <2>3, <2>4
<1> QED BY <1>2, <1>3

-----------------------------------------------------------------------------
(* What a put works on: an initialised header with room, whose entries     *)
(* read as those of the variable.                                          *)
LEMMA PrepareFacts ==
  ASSUME MapInv, NEW v \in Var, hdr[v].cap = 0 \/ Overloaded(hdr[v]) => Fresh # {},
         NEW h, h = Prepared(Initialised(hdr[v])), h.cap <= MaxCap,
         NEW T, T = PreparedTable(hdr[v])
  PROVE  /\ h \in [tab : Table, cap : InitCap..MaxCap, len : Int, tombs : Int]
         /\ T \in EntriesOf(h.cap) /\ Chained(T, h.cap)
         /\ Placed(v, h)
         /\ h.tab \notin shared => /\ h.len = Cardinality(UsedIn(T))
                                   /\ h.tombs = Cardinality(TombsIn(T))
                                   /\ h.len + h.tombs + 1 < h.cap
         /\ \A k \in Key : LookupIn(T, h.cap, k) = Lookup(v, k)
         /\ iter.tab = h.tab => T = table[iter.tab]
<1> DEFINE old == hdr[v]
<1>1. InitCap \in Nat /\ InitCap >= 4 /\ MaxCap \in Nat /\ InitCap <= MaxCap
  BY MapAssumption
<1>2. Cardinality({}) = 0
  BY FS_EmptySet
<1>3. Fresh # {} => NewTable \in Table /\ NewTable \in Fresh /\ NewTable # iter.tab
  BY DEF NewTable, Fresh, InUse, Rooted
<1>4. CASE old = NoMap
  <2>1. Fresh # {} /\ old.cap = 0
    BY <1>4, NoMapFacts
  <2>2. Initialised(old) = [tab |-> NewTable, cap |-> InitCap, len |-> 0, tombs |-> 0]
    BY <2>1 DEF Initialised
  <2>3. ~Overloaded(Initialised(old))
    BY <1>1, <2>2 DEF Overloaded
  <2>4. h = [tab |-> NewTable, cap |-> InitCap, len |-> 0, tombs |-> 0]
    BY <2>2, <2>3 DEF Prepared
  <2>5. T = Blank(InitCap)
    BY <2>1 DEF PreparedTable
  <2>6. T \in EntriesOf(InitCap) /\ Chained(T, InitCap) /\ UsedIn(T) = {} /\ TombsIn(T) = {}
    BY <1>1, <2>5, BlankFacts
  <2>7. ASSUME NEW k \in Key PROVE LookupIn(T, InitCap, k) = Lookup(v, k)
    <3>1. LookupIn(T, InitCap, k) = Nothing
      BY <1>1, <2>6, LookupFacts
    <3> QED BY <2>1, <3>1 DEF Lookup
  <2> QED BY <1>1, <1>2, <1>3, <2>1, <2>4, <2>6, <2>7 DEF Placed
<1>5. CASE old # NoMap
  <2> DEFINE S == table[old.tab]
  <2>1. /\ old.cap \in InitCap..MaxCap /\ old.cap \in Nat /\ old.cap >= 4 /\ old.cap # 0
        /\ old.tab \in Table /\ S \in EntriesOf(old.cap) /\ Chained(S, old.cap)
        /\ old.len \in Int /\ old.tombs \in Int
        /\ old = [tab |-> old.tab, cap |-> old.cap, len |-> old.len, tombs |-> old.tombs]
    BY <1>5, HeaderFacts
  <2>2. Initialised(old) = old
    BY <2>1 DEF Initialised
  <2>3. \A k \in Key : Lookup(v, k) = LookupIn(S, old.cap, k)
    BY <2>1 DEF Lookup
  <2>4. Cardinality(UsedIn(S)) \in Nat /\ Cardinality(UsedIn(S)) <= old.cap
    BY <2>1, UsedFinite
  <2>5. CASE Overloaded(old)
    <3>1. h = [tab |-> NewTable, cap |-> 2 * old.cap, len |-> Cardinality(UsedIn(S)), tombs |-> 0]
      BY <2>2, <2>5 DEF Prepared
    <3>2. T = Rehashed(S, old.cap)
      BY <2>1, <2>5 DEF PreparedTable
    <3> DEFINE dim == 2 * old.cap
    <3>3. UsedIn(S) \cap 0..(old.cap - 1) = UsedIn(S)
      BY <2>1, UsedFinite
    <3>4. /\ T \in EntriesOf(dim) /\ Chained(T, dim) /\ TombsIn(T) = {}
          /\ Cardinality(UsedIn(T)) = Cardinality(UsedIn(S))
          /\ \A j \in UsedIn(S) : \E p \in UsedIn(T) : T[p] = S[j]
          /\ \A p \in UsedIn(T) : \E j \in UsedIn(S) : S[j] = T[p]
      <4>1. Rehashing(S, old.cap, old.cap, T)
        <5> HIDE DEF old, S
        <5> QED BY <2>1, <3>2, RehashFacts
      <4> HIDE DEF old, S
      <4> QED BY <3>3, <4>1 DEF Rehashing
    <3>5. dim \in Nat /\ dim \in InitCap..MaxCap /\ old.cap + 1 < dim
      BY <1>1, <2>1, <3>1
    <3> HIDE DEF dim, S, old
    <3>6. ASSUME NEW k \in Key PROVE LookupIn(T, dim, k) = LookupIn(S, old.cap, k)
      BY <2>1, <3>4, <3>5, SameLookup
    <3>7. NewTable \in Table /\ NewTable \in Fresh /\ NewTable # iter.tab
      BY <1>3, <2>5 DEF old
    <3>8. h = [tab |-> NewTable, cap |-> dim, len |-> Cardinality(UsedIn(T)), tombs |-> 0]
      BY <3>1, <3>4 DEF dim
    <3>9. Placed(v, h)
      BY <3>7, <3>8 DEF Placed
    <3>10. h \in [tab : Table, cap : InitCap..MaxCap, len : Int, tombs : Int] /\ h.cap = dim
      BY <2>4, <3>4, <3>5, <3>7, <3>8
    <3>11. /\ h.len = Cardinality(UsedIn(T)) /\ h.tombs = Cardinality(TombsIn(T))
           /\ h.len + h.tombs + 1 < h.cap
      BY <1>2, <2>1, <2>4, <3>4, <3>5, <3>8
    <3> QED BY <2>3, <3>4, <3>6, <3>7, <3>8, <3>9, <3>10, <3>11
  <2>6. CASE ~Overloaded(old)
    <3>1. h = old /\ T = S
      BY <2>1, <2>2, <2>6 DEF Prepared, PreparedTable
    <3>2. ASSUME old.tab \notin shared
          PROVE  /\ old.len = Cardinality(UsedIn(S)) /\ old.tombs = Cardinality(TombsIn(S))
                 /\ old.len + old.tombs + 1 < old.cap
      <4>1. old.len = Cardinality(UsedIn(S)) /\ old.tombs = Cardinality(TombsIn(S))
        BY <2>1, <3>2 DEF MapInv, CountsInv, Counted
      <4>2. 10 * (old.len + old.tombs) <= 7 * old.cap
        BY <2>1, <2>6 DEF Overloaded
      <4>3. old.len + old.tombs + 1 < old.cap
        BY <2>1, <4>2
      <4> QED BY <4>1, <4>3
    <3>3. h \in [tab : Table, cap : InitCap..MaxCap, len : Int, tombs : Int]
      <4> HIDE DEF old
      <4> QED BY <2>1, <3>1
    <3> QED BY <2>1, <2>3, <3>1, <3>2, <3>3 DEF Placed
  <2> QED BY <2>5, <2>6
<1> QED BY <1>4, <1>5

-----------------------------------------------------------------------------
(* The first tombstone of a scan.                                          *)
LEMMA TombFacts ==
  ASSUME NEW cap \in Nat, NEW T, NEW k,
         NEW tomb, tomb = FirstOr(cap, LAMBDA i : T[Probe(k, cap, i)].st = 2)
  PROVE  tomb \in 0..cap /\ (tomb < cap => T[Probe(k, cap, tomb)].st = 2)
<1> DEFINE Hits == {i \in 0..(cap - 1) : T[Probe(k, cap, i)].st = 2}
<1>1. PICK n \in 0..cap : (n < cap => n \in Hits) /\ \A j \in 0..(n - 1) : j \notin Hits
  <2> HIDE DEF Hits
  <2> QED BY LeastOr
<1>2. (n < cap => T[Probe(k, cap, n)].st = 2)
      /\ \A j \in 0..(n - 1) : ~(T[Probe(k, cap, j)].st = 2)
  BY <1>1
<1> QED BY <1>2 DEF FirstOr

(* A new key changes no other lookup.                                      *)
LEMMA StoreLookups ==
  ASSUME NEW cap \in Nat, NEW T \in EntriesOf(cap), Chained(T, cap),
         NEW U \in EntriesOf(cap), Chained(U, cap),
         NEW k \in Key, NEW x \in Val, NEW p \in UsedIn(U),
         U[p].key = k, U[p].val = x,
         UsedIn(U) = UsedIn(T) \cup {p}, \A i \in UsedIn(T) : i # p => U[i] = T[i],
         p \in UsedIn(T) => T[p].key = k
  PROVE  /\ LookupIn(U, cap, k) = x
         /\ \A l \in Key \ {k} : LookupIn(U, cap, l) = LookupIn(T, cap, l)
<1>1. LookupIn(U, cap, k) = x
  BY LookupFacts
<1>2. ASSUME NEW l \in Key \ {k} PROVE LookupIn(U, cap, l) = LookupIn(T, cap, l)
  <2>1. ASSUME NEW i \in UsedIn(T), T[i].key = l
        PROVE  \E j \in UsedIn(U) : U[j].key = l /\ U[j].val = T[i].val
    <3>1. i # p /\ i \in UsedIn(U)
      BY <2>1
    <3> QED BY <2>1, <3>1
  <2>2. ASSUME NEW j \in UsedIn(U), U[j].key = l PROVE \E i \in UsedIn(T) : T[i].key = l
    BY <2>2
  <2> QED BY <2>1, <2>2, SameLookup
<1> QED BY <1>1, <1>2

(* __nc_map_put sets a valid header whose entries read as before but for   *)
(* the key, which reads as the value, or as before if there was no room.   *)
LEMMA PutFacts ==
  ASSUME MapInv, NEW v \in Var, NEW k \in Key, NEW x \in Val, Put(v, k, x)
  PROVE  \E h, T :
            /\ Valid(v, h, T) /\ SetHeader(v, h, T) /\ Kept(h, T, stayed)
            /\ \A l \in Key \ {k} : LookupIn(T, h.cap, l) = Lookup(v, l)
            /\ LookupIn(T, h.cap, k) \in {x, Lookup(v, k)}
<1> DEFINE h == Prepared(Initialised(hdr[v]))
<1> DEFINE T == PreparedTable(hdr[v])
<1> DEFINE n == ScanEnd(T, h.cap, k)
<1> DEFINE tomb == FirstOr(h.cap, LAMBDA i : T[Probe(k, h.cap, i)].st = 2)
<1>1. /\ hdr[v].cap = 0 \/ Overloaded(hdr[v]) => Fresh # {}
      /\ h.cap <= MaxCap
      /\ IF n = h.cap THEN SetHeader(v, h, T)
         ELSE IF T[Probe(k, h.cap, n)].st = 1
         THEN SetHeader(v, h, [T EXCEPT ![Probe(k, h.cap, n)].val = x])
         ELSE IF tomb < n
         THEN SetHeader(v, [h EXCEPT !.len = @ + 1, !.tombs = @ - 1],
                        [T EXCEPT ![Probe(k, h.cap, tomb)] = Entry(k, x)])
         ELSE SetHeader(v, [h EXCEPT !.len = @ + 1],
                        [T EXCEPT ![Probe(k, h.cap, n)] = Entry(k, x)])
  BY DEF Put
<1>2. /\ h \in [tab : Table, cap : InitCap..MaxCap, len : Int, tombs : Int]
      /\ T \in EntriesOf(h.cap) /\ Chained(T, h.cap)
      /\ Placed(v, h)
      /\ h.tab \notin shared => /\ h.len = Cardinality(UsedIn(T))
                                /\ h.tombs = Cardinality(TombsIn(T))
                                /\ h.len + h.tombs + 1 < h.cap
      /\ \A l \in Key : LookupIn(T, h.cap, l) = Lookup(v, l)
      /\ iter.tab = h.tab => T = table[iter.tab]
  BY <1>1, PrepareFacts
<1>3. h.cap \in Nat \ {0} /\ h.len \in Int /\ h.tombs \in Int
  BY <1>2, MapAssumption
<1>4. /\ IsFiniteSet(UsedIn(T)) /\ IsFiniteSet(TombsIn(T))
      /\ Cardinality(UsedIn(T)) \in Nat /\ Cardinality(TombsIn(T)) \in Nat
  BY <1>2, <1>3, UsedFinite
<1>5. /\ n \in 0..h.cap /\ (n < h.cap => Stops(T, h.cap, k, n))
      /\ \A j \in 0..(n - 1) : ~Stops(T, h.cap, k, j)
  BY <1>3, ScanEndFacts
<1>6. tomb \in 0..h.cap /\ (tomb < h.cap => T[Probe(k, h.cap, tomb)].st = 2)
  BY <1>3, TombFacts
<1> HIDE DEF h, T, tomb
<1>7. ASSUME n # h.cap, T[Probe(k, h.cap, n)].st # 1, NEW i \in UsedIn(T) PROVE T[i].key # k
  BY <1>2, <1>3, <1>7, ScanFinds DEF UsedIn
<1> HIDE DEF n
<1> DEFINE cap == h.cap
<1>13. cap \in Nat /\ T \in EntriesOf(cap) /\ Chained(T, cap)
  BY <1>2, <1>3
<1> HIDE DEF cap
<1>8. CASE n = h.cap
  <2>1. SetHeader(v, h, T)
    BY <1>1, <1>8
  <2>2. Valid(v, h, T)
    BY <1>2, <1>3 DEF Valid, Counted
  <2>3. Kept(h, T, stayed)
    BY <1>2 DEF Kept
  <2> QED BY <1>2, <2>1, <2>2, <2>3
<1>9. CASE n # h.cap /\ T[Probe(k, h.cap, n)].st = 1
  <2> DEFINE p == Probe(k, h.cap, n)
  <2> DEFINE U == [T EXCEPT ![p].val = x]
  <2>1. p \in UsedIn(T) /\ T[p].key = k /\ T[p].st = 1
    <3>1. n \in 0..(h.cap - 1) /\ Stops(T, h.cap, k, n) /\ n \in Nat
      BY <1>3, <1>5, <1>9
    <3>2. p \in 0..(h.cap - 1)
      BY <1>3, <3>1, ProbeType
    <3> QED BY <1>2, <1>9, <3>1, <3>2 DEF Stops, UsedIn, EntriesOf
  <2>2. [T[p] EXCEPT !.val = x] = Entry(k, x)
    <3>1. T[p] \in EntryType
      BY <1>2, <2>1 DEF UsedIn, EntriesOf
    <3>2. T[p] = Entry(k, T[p].val)
      BY <2>1, <3>1, EntryFacts
    <3> HIDE DEF p
    <3> QED BY <3>2 DEF Entry
  <2>3. U = [T EXCEPT ![p] = Entry(k, x)]
    BY <2>2
  <2>4. SetHeader(v, h, U)
    BY <1>1, <1>9
  <2> HIDE DEF p, U
  <2>5. /\ U \in EntriesOf(h.cap) /\ Chained(U, h.cap)
        /\ UsedIn(U) = UsedIn(T) /\ TombsIn(U) = TombsIn(T)
        /\ U[p] = Entry(k, x)
        /\ \A i \in 0..(h.cap - 1) : i # p => U[i] = T[i]
    <3> DEFINE e == Entry(k, x)
    <3>1. e \in EntryType /\ e.st = 1 /\ e.key = T[p].key
      BY <2>1, EntryFacts
    <3> HIDE DEF e
    <3>2. Replaces(cap, T, p, e, U)
      <4>1. p \in 0..(cap - 1)
        BY <1>13, <2>1 DEF UsedIn, EntriesOf
      <4>2. U = [T EXCEPT ![p] = e]
        BY <2>3 DEF e
      <4> QED BY <1>13, <3>1, <4>1, <4>2, ExceptReplaces
    <3>3. /\ U \in EntriesOf(cap) /\ Chained(U, cap)
          /\ UsedIn(U) = IF e.st = 1 THEN UsedIn(T) ELSE UsedIn(T) \ {p}
          /\ TombsIn(U) = IF e.st = 2 THEN TombsIn(T) \cup {p} ELSE TombsIn(T)
          /\ U[p] = e
          /\ \A i \in 0..(cap - 1) : i # p => U[i] = T[i]
      BY <1>13, <2>1, <3>1, <3>2, ReplaceFacts
    <3> QED BY <3>1, <3>3 DEF e, cap
  <2>6. \A i \in UsedIn(T) : i # p => U[i] = T[i]
    BY <1>2, <2>5 DEF UsedIn, EntriesOf
  <2>7. U[p].key = k /\ U[p].val = x
    BY <2>5, EntryFacts
  <2>8. Valid(v, h, U)
    BY <1>2, <1>3, <2>5 DEF Valid, Counted
  <2>9. Kept(h, U, stayed)
    BY <1>2, <2>1, <2>5, <2>6, <2>7 DEF Kept
  <2>10. /\ LookupIn(U, h.cap, k) = x
         /\ \A l \in Key \ {k} : LookupIn(U, h.cap, l) = LookupIn(T, h.cap, l)
    <3>1. UsedIn(U) = UsedIn(T) \cup {p} /\ p \in UsedIn(U)
      BY <2>1, <2>5
    <3> QED BY <1>2, <1>3, <2>1, <2>5, <2>6, <2>7, <3>1, StoreLookups
  <2> QED BY <1>2, <2>4, <2>8, <2>9, <2>10
<1>10. ASSUME n # h.cap, T[Probe(k, h.cap, n)].st # 1,
              NEW i \in 0..n, T[Probe(k, h.cap, i)].st # 1,
              NEW g, g \in [tab : Table, cap : InitCap..MaxCap, len : Int, tombs : Int],
              g.tab = h.tab, g.cap = h.cap, g.len = h.len + 1,
              g.tombs = IF T[Probe(k, h.cap, i)].st = 2 THEN h.tombs - 1 ELSE h.tombs,
              NEW U, U = [T EXCEPT ![Probe(k, h.cap, i)] = Entry(k, x)],
              SetHeader(v, g, U)
       PROVE  /\ Valid(v, g, U) /\ Kept(g, U, stayed)
              /\ LookupIn(U, g.cap, k) = x
              /\ \A l \in Key \ {k} : LookupIn(U, g.cap, l) = LookupIn(T, g.cap, l)
  <2> DEFINE p == Probe(k, h.cap, i)
  <2>1. i \in 0..(h.cap - 1) /\ \A m \in 0..(i - 1) : m \in 0..(n - 1)
    BY <1>3, <1>5, <1>10
  <2>2. \A m \in 0..(i - 1) : T[Probe(k, h.cap, m)].st # 0
    BY <1>5, <2>1 DEF Stops
  <2>3. /\ p \in 0..(h.cap - 1)
        /\ U \in EntriesOf(h.cap) /\ Chained(U, h.cap)
        /\ UsedIn(U) = UsedIn(T) \cup {p}
        /\ TombsIn(U) = TombsIn(T) \ {p}
        /\ U[p] = Entry(k, x)
        /\ \A j \in UsedIn(T) : U[j] = T[j]
    <3>1. \A j \in UsedIn(T) : T[j].key # k
      BY <1>7, <1>10
    <3>2. k \in Key /\ x \in Val /\ i \in 0..(cap - 1)
      BY <2>1 DEF cap
    <3>3. p = Probe(k, cap, i) /\ T[Probe(k, cap, i)].st # 1
      BY <1>10 DEF cap
    <3>4. \A m \in 0..(i - 1) : T[Probe(k, cap, m)].st # 0
      BY <2>2 DEF cap
    <3>5. p \in 0..(cap - 1) /\ Entry(k, x) \in EntryType
      BY <1>13, <3>2, <3>3, ProbeType, EntryFacts
    <3>6. U = [T EXCEPT ![p] = Entry(k, x)]
      BY <1>10
    <3> HIDE DEF p
    <3>7. Replaces(cap, T, p, Entry(k, x), U)
      BY <1>13, <3>5, <3>6, ExceptReplaces
    <3>8. /\ U \in EntriesOf(cap) /\ Chained(U, cap)
          /\ UsedIn(U) = UsedIn(T) \cup {p}
          /\ TombsIn(U) = TombsIn(T) \ {p}
          /\ U[p] = Entry(k, x)
          /\ \A j \in UsedIn(T) : U[j] = T[j]
      BY <1>13, <3>1, <3>2, <3>3, <3>4, <3>7, StoreFacts
    <3> QED BY <3>5, <3>8 DEF cap
  <2>4. p \notin UsedIn(T) /\ (p \in TombsIn(T) <=> T[p].st = 2)
    BY <1>2, <1>10, <2>3 DEF UsedIn, TombsIn, EntriesOf
  <2>5. g.tombs = IF T[p].st = 2 THEN h.tombs - 1 ELSE h.tombs
    BY <1>10
  <2> HIDE DEF p
  <2>6. Cardinality(UsedIn(U)) = Cardinality(UsedIn(T)) + 1
    BY <1>4, <2>3, <2>4, FS_AddElement
  <2>7. Cardinality(TombsIn(U)) = IF T[p].st = 2 THEN Cardinality(TombsIn(T)) - 1
                                  ELSE Cardinality(TombsIn(T))
    BY <1>4, <2>3, <2>4, FS_RemoveElement
  <2>8. g.tab \notin shared => Counted(g, U)
    BY <1>2, <1>3, <1>4, <1>10, <2>5, <2>6, <2>7 DEF Counted
  <2>9. Valid(v, g, U)
    BY <1>2, <1>10, <2>3, <2>8 DEF Valid, Placed
  <2>10. Kept(g, U, stayed)
    BY <1>2, <1>10, <2>3 DEF Kept
  <2>11. U[p].key = k /\ U[p].val = x /\ p \in UsedIn(U)
    BY <2>3, EntryFacts
  <2>12. /\ LookupIn(U, h.cap, k) = x
         /\ \A l \in Key \ {k} : LookupIn(U, h.cap, l) = LookupIn(T, h.cap, l)
    BY <1>2, <1>3, <2>3, <2>4, <2>11, StoreLookups
  <2> QED BY <1>10, <2>9, <2>10, <2>12
<1>11. CASE n # h.cap /\ T[Probe(k, h.cap, n)].st # 1 /\ tomb < n
  <2> DEFINE g == [h EXCEPT !.len = h.len + 1, !.tombs = h.tombs - 1]
  <2> DEFINE U == [T EXCEPT ![Probe(k, h.cap, tomb)] = Entry(k, x)]
  <2>1. SetHeader(v, g, U)
    BY <1>1, <1>11
  <2>2. tomb \in 0..n /\ T[Probe(k, h.cap, tomb)].st = 2
    BY <1>3, <1>5, <1>6, <1>11
  <2>3. /\ g \in [tab : Table, cap : InitCap..MaxCap, len : Int, tombs : Int]
        /\ g.tab = h.tab /\ g.cap = h.cap /\ g.len = h.len + 1 /\ g.tombs = h.tombs - 1
    <3> DEFINE f == [h EXCEPT !.len = h.len + 1]
    <3>1. f \in [tab : Table, cap : InitCap..MaxCap, len : Int, tombs : Int]
          /\ f.tab = h.tab /\ f.cap = h.cap /\ f.len = h.len + 1 /\ f.tombs = h.tombs
      BY <1>2, <1>3
    <3>2. g = [f EXCEPT !.tombs = h.tombs - 1]
      OBVIOUS
    <3> HIDE DEF f
    <3> HIDE DEF g
    <3> QED BY <1>3, <3>1, <3>2
  <2> HIDE DEF g
  <2>4. T[Probe(k, h.cap, tomb)].st # 1
        /\ g.tombs = IF T[Probe(k, h.cap, tomb)].st = 2 THEN h.tombs - 1 ELSE h.tombs
    BY <2>2, <2>3
  <2>5. U = [T EXCEPT ![Probe(k, h.cap, tomb)] = Entry(k, x)]
    OBVIOUS
  <2> HIDE DEF U
  <2>6. /\ Valid(v, g, U) /\ Kept(g, U, stayed)
        /\ LookupIn(U, g.cap, k) = x
        /\ \A l \in Key \ {k} : LookupIn(U, g.cap, l) = LookupIn(T, g.cap, l)
    BY <1>10, <1>11, <2>1, <2>2, <2>3, <2>4, <2>5
  <2> QED BY <1>2, <2>1, <2>3, <2>6
<1>12. CASE n # h.cap /\ T[Probe(k, h.cap, n)].st # 1 /\ ~(tomb < n)
  <2> DEFINE g == [h EXCEPT !.len = @ + 1]
  <2> DEFINE U == [T EXCEPT ![Probe(k, h.cap, n)] = Entry(k, x)]
  <2>1. SetHeader(v, g, U)
    BY <1>1, <1>12
  <2>2. n \in 0..n /\ T[Probe(k, h.cap, n)].st # 2
    BY <1>3, <1>5, <1>12 DEF Stops
  <2>3. /\ g \in [tab : Table, cap : InitCap..MaxCap, len : Int, tombs : Int]
        /\ g.tab = h.tab /\ g.cap = h.cap /\ g.len = h.len + 1 /\ g.tombs = h.tombs
    BY <1>2, <1>3
  <2> HIDE DEF g
  <2>4. /\ Valid(v, g, U) /\ Kept(g, U, stayed)
        /\ LookupIn(U, g.cap, k) = x
        /\ \A l \in Key \ {k} : LookupIn(U, g.cap, l) = LookupIn(T, g.cap, l)
    BY <1>10, <1>12, <2>1, <2>2, <2>3
  <2> HIDE DEF U
  <2> QED BY <1>2, <2>1, <2>3, <2>4
<1> QED BY <1>8, <1>9, <1>11, <1>12

(* __nc_map_delete leaves a tombstone: the key is gone, the others stay.   *)
LEMMA DeleteFacts ==
  ASSUME MapInv, NEW v \in Var, NEW k \in Key, Delete(v, k)
  PROVE  \E h, T :
            /\ Valid(v, h, T) /\ SetHeader(v, h, T) /\ Kept(h, T, stayed \ {k})
            /\ \A l \in Key \ {k} : LookupIn(T, h.cap, l) = Lookup(v, l)
            /\ LookupIn(T, h.cap, k) = Nothing
<1> DEFINE h == hdr[v]
<1> DEFINE cap == hdr[v].cap
<1> DEFINE T == table[hdr[v].tab]
<1> DEFINE n == ScanEnd(T, cap, k)
<1> DEFINE p == Probe(k, cap, n)
<1> DEFINE g == [h EXCEPT !.len = @ - 1, !.tombs = @ + 1]
<1> DEFINE U == [T EXCEPT ![p] = Tombstone]
<1>1. cap > 0 /\ n < cap /\ T[p].st = 1 /\ SetHeader(v, g, U)
  BY DEF Delete, Found
<1>2. /\ cap \in InitCap..MaxCap /\ cap \in Nat \ {0} /\ h.tab \in Table
      /\ T \in EntriesOf(cap) /\ Chained(T, cap) /\ h.len \in Int /\ h.tombs \in Int
      /\ h \in [tab : Table, cap : InitCap..MaxCap, len : Int, tombs : Int]
  BY <1>1, SetHeaderFacts
<1>3. \A l \in Key : LookupIn(T, cap, l) = Lookup(v, l)
  BY <1>2 DEF Lookup
<1>4. g \in [tab : Table, cap : InitCap..MaxCap, len : Int, tombs : Int]
      /\ g.tab = h.tab /\ g.cap = cap /\ g.len = h.len - 1 /\ g.tombs = h.tombs + 1
  <2> DEFINE f == [h EXCEPT !.len = h.len - 1]
  <2>1. h \in [tab : Table, cap : InitCap..MaxCap, len : Int, tombs : Int]
    BY <1>2
  <2>2. g = [f EXCEPT !.tombs = h.tombs + 1]
    OBVIOUS
  <2> HIDE DEF h
  <2>3. f \in [tab : Table, cap : InitCap..MaxCap, len : Int, tombs : Int]
        /\ f.tab = h.tab /\ f.cap = h.cap /\ f.len = h.len - 1 /\ f.tombs = h.tombs
    BY <1>2, <2>1
  <2> HIDE DEF f, g
  <2> QED BY <1>2, <2>2, <2>3 DEF h
<1>5. n \in 0..(cap - 1) /\ n \in Nat /\ Stops(T, cap, k, n)
  <2> HIDE DEF T, cap
  <2> QED BY <1>1, <1>2, ScanEndFacts
<1> HIDE DEF n
<1>6. p \in 0..(cap - 1) /\ p \in UsedIn(T) /\ T[p].key = k
  <2>1. p \in 0..(cap - 1)
    BY <1>2, <1>5, ProbeType
  <2> QED BY <1>1, <1>2, <1>5, <2>1 DEF Stops, UsedIn, EntriesOf
<1>7. g.tab \notin shared => Counted(h, T)
  BY <1>1, <1>4 DEF MapInv, CountsInv
<1>8. Placed(v, g) /\ (iter.tab = g.tab => T = table[iter.tab])
  BY <1>4 DEF Placed
<1>9. U = [T EXCEPT ![p] = Tombstone]
  OBVIOUS
<1>10. h.cap = cap
  OBVIOUS
<1> HIDE DEF p, g, U, T, cap, h
<1>11. Replaces(cap, T, p, Tombstone, U)
  BY <1>2, <1>6, <1>9, EntryFacts, ExceptReplaces
<1>12. /\ U \in EntriesOf(cap) /\ Chained(U, cap)
       /\ UsedIn(U) = UsedIn(T) \ {p} /\ TombsIn(U) = TombsIn(T) \cup {p}
       /\ \A i \in 0..(cap - 1) : i # p => U[i] = T[i]
  <2> DEFINE e == Tombstone
  <2>1. e \in EntryType /\ e.st # 0 /\ e.st # 1 /\ e.st = 2
    BY EntryFacts
  <2>2. Replaces(cap, T, p, e, U)
    BY <1>11
  <2> HIDE DEF e
  <2> QED BY <1>2, <1>6, <2>1, <2>2, ReplaceFacts
<1>13. p \notin TombsIn(T)
  BY <1>6 DEF UsedIn, TombsIn
<1>14. /\ IsFiniteSet(UsedIn(T)) /\ IsFiniteSet(TombsIn(T))
       /\ Cardinality(UsedIn(T)) \in Nat /\ Cardinality(TombsIn(T)) \in Nat
  BY <1>2, UsedFinite
<1>15. /\ Cardinality(UsedIn(U)) = Cardinality(UsedIn(T)) - 1
       /\ Cardinality(TombsIn(U)) = Cardinality(TombsIn(T)) + 1
  <2>1. Cardinality(UsedIn(T) \ {p}) = Cardinality(UsedIn(T)) - 1
    BY <1>6, <1>14, FS_RemoveElement
  <2>2. Cardinality(TombsIn(T) \cup {p}) = Cardinality(TombsIn(T)) + 1
    BY <1>13, <1>14, FS_AddElement
  <2> QED BY <1>12, <2>1, <2>2
<1>16. g.tab \notin shared => Counted(g, U)
  BY <1>2, <1>4, <1>7, <1>10, <1>14, <1>15 DEF Counted
<1>17. Valid(v, g, U)
  BY <1>4, <1>8, <1>12, <1>16 DEF Valid
<1>18. Kept(g, U, stayed \ {k})
  <2>1. ASSUME iter.tab = g.tab, NEW l \in stayed \ {k}, NEW i \in UsedIn(T), T[i].key = l
        PROVE  i \in UsedIn(U) /\ U[i].key = l
    BY <1>2, <1>6, <1>12, <2>1 DEF UsedIn, EntriesOf
  <2> QED BY <1>8, <2>1 DEF Kept
<1>19. LookupIn(U, cap, k) = Nothing
  <2>1. ASSUME NEW i \in UsedIn(U) PROVE U[i].key # k
    <3>1. i \in UsedIn(T) /\ i # p /\ U[i] = T[i]
      BY <1>2, <1>12 DEF UsedIn, EntriesOf
    <3> QED BY <1>2, <1>6, <3>1 DEF Chained
  <2> QED BY <1>2, <1>12, <2>1, LookupFacts
<1>20. ASSUME NEW l \in Key \ {k} PROVE LookupIn(U, cap, l) = LookupIn(T, cap, l)
  <2>1. ASSUME NEW i \in UsedIn(T), T[i].key = l
        PROVE  \E j \in UsedIn(U) : U[j].key = l /\ U[j].val = T[i].val
    <3>1. i # p /\ i \in 0..(cap - 1)
      BY <1>2, <1>6, <2>1 DEF UsedIn, EntriesOf
    <3> QED BY <1>12, <2>1, <3>1
  <2>2. ASSUME NEW j \in UsedIn(U), U[j].key = l PROVE \E i \in UsedIn(T) : T[i].key = l
    <3>1. j \in UsedIn(T) /\ U[j] = T[j]
      BY <1>2, <1>12 DEF UsedIn, EntriesOf
    <3> QED BY <2>2, <3>1
  <2> QED BY <1>2, <1>12, <2>1, <2>2, SameLookup
<1> QED BY <1>1, <1>3, <1>4, <1>17, <1>18, <1>19, <1>20

(* A header with blank entries: __nc_map_clear, and a literal.             *)
LEMMA BlankSet ==
  ASSUME MapInv, NEW v \in Var, NEW h,
         h \in [tab : Table, cap : InitCap..MaxCap, len : {0}, tombs : {0}], Placed(v, h)
  PROVE  /\ Valid(v, h, Blank(h.cap)) /\ Kept(h, Blank(h.cap), {})
         /\ \A k \in Key : LookupIn(Blank(h.cap), h.cap, k) = Nothing
<1> DEFINE cap == h.cap
<1> DEFINE T == Blank(h.cap)
<1>1. cap \in Nat /\ cap >= 4 /\ h.len = 0 /\ h.tombs = 0
      /\ h \in [tab : Table, cap : InitCap..MaxCap, len : Int, tombs : Int]
  BY MapAssumption
<1>2. T \in EntriesOf(cap) /\ Chained(T, cap) /\ UsedIn(T) = {} /\ TombsIn(T) = {}
  BY <1>1, BlankFacts
<1>3. ASSUME NEW k \in Key PROVE LookupIn(T, cap, k) = Nothing
  <2> HIDE DEF T, cap
  <2> QED BY <1>1, <1>2, LookupFacts
<1>4. Counted(h, T)
  BY <1>1, <1>2, FS_EmptySet DEF Counted
<1>5. Kept(h, T, {})
  BY DEF Kept
<1> QED BY <1>1, <1>2, <1>3, <1>4, <1>5 DEF Valid

(* __nc_map_clear sets a valid header; every key is gone.                  *)
LEMMA ClearFacts ==
  ASSUME MapInv, NEW v \in Var, Clear(v)
  PROVE  \E h, T :
            /\ Valid(v, h, T) /\ SetHeader(v, h, T) /\ Kept(h, T, {})
            /\ \A k \in Key : LookupIn(T, h.cap, k) = Nothing
<1> DEFINE h == [hdr[v] EXCEPT !.len = 0, !.tombs = 0]
<1>1. hdr[v].cap > 0 /\ SetHeader(v, h, Blank(hdr[v].cap))
  BY DEF Clear
<1> DEFINE old == hdr[v]
<1>2. old \in [tab : Table, cap : InitCap..MaxCap, len : Int, tombs : Int]
  BY <1>1, SetHeaderFacts
<1>3. h = [old EXCEPT !.len = 0, !.tombs = 0]
  OBVIOUS
<1> HIDE DEF h, old
<1>4. /\ h \in [tab : Table, cap : InitCap..MaxCap, len : {0}, tombs : {0}]
      /\ h.tab = hdr[v].tab /\ h.cap = hdr[v].cap
  <2> DEFINE f == [old EXCEPT !.len = 0]
  <2>1. f \in [tab : Table, cap : InitCap..MaxCap, len : {0}, tombs : Int]
        /\ f.tab = old.tab /\ f.cap = old.cap
    BY <1>2
  <2>2. h = [f EXCEPT !.tombs = 0]
    BY <1>3
  <2> HIDE DEF f
  <2>3. /\ h \in [tab : Table, cap : InitCap..MaxCap, len : {0}, tombs : {0}]
        /\ h.tab = old.tab /\ h.cap = old.cap
    BY <2>1, <2>2
  <2> QED BY <2>3 DEF old
<1>5. Placed(v, h)
  BY <1>4 DEF Placed
<1> QED BY <1>1, <1>4, <1>5, BlankSet

(* A literal sets a valid header to fresh entries without a key.           *)
LEMMA LiteralFacts ==
  ASSUME MapInv, NEW v \in Var, Literal(v)
  PROVE  \E h, T :
            /\ Valid(v, h, T) /\ SetHeader(v, h, T) /\ Kept(h, T, {})
            /\ \A k \in Key : LookupIn(T, h.cap, k) = Nothing
<1> DEFINE h == [tab |-> NewTable, cap |-> InitCap, len |-> 0, tombs |-> 0]
<1>1. Fresh # {} /\ SetHeader(v, h, Blank(InitCap))
  BY NoMapFacts DEF Literal, Initialised
<1>2. NewTable \in Table /\ NewTable \in Fresh
  BY <1>1 DEF NewTable, Fresh
<1>3. /\ h \in [tab : Table, cap : InitCap..MaxCap, len : {0}, tombs : {0}]
      /\ h.tab = NewTable /\ h.cap = InitCap
  BY <1>2, MapAssumption
<1> HIDE DEF h
<1>4. Placed(v, h)
  BY <1>2, <1>3 DEF Placed
<1> QED BY <1>1, <1>3, <1>4, BlankSet

-----------------------------------------------------------------------------
(* The other steps leave the tables in use as they are.                    *)

(* Tables that a header or the loop refers to are what they were.          *)
LEMMA KeptTables ==
  ASSUME MapInv, NEW S, Keep(table, S)
  PROVE  /\ DOMAIN table' = Table
         /\ \A t \in Table : table'[t] = IF t \in InUse' THEN table[t] ELSE Gone
         /\ \A v \in Var : hdr'[v].tab \in InUse'
         /\ iter'.tab \in InUse'
         /\ shared' = S \cap InUse'
         /\ \A t \in Table : \E cap \in 0..MaxCap : table'[t] \in [0..(cap - 1) -> EntryType]
         /\ TablesInv'
<1>1. table' = [t \in Table |-> IF t \in InUse' THEN table[t] ELSE Gone] /\ shared' = S \cap InUse'
  BY DEF Keep
<1>2. \A t \in Table : table'[t] = IF t \in InUse' THEN table[t] ELSE Gone
  BY <1>1
<1>3. (\A v \in Var : hdr'[v].tab \in InUse') /\ iter'.tab \in InUse'
  BY DEF InUse, Rooted
<1>4. ASSUME NEW t \in Table
      PROVE  \E cap \in 0..MaxCap : table'[t] \in [0..(cap - 1) -> EntryType]
  <2>1. \E cap \in 0..MaxCap : table[t] \in [0..(cap - 1) -> EntryType]
    BY DEF MapInv, TypeOK
  <2>2. 0 \in 0..MaxCap /\ Gone \in [0..(0 - 1) -> EntryType]
    BY MapAssumption, GoneFacts DEF EntriesOf
  <2> QED BY <1>2, <2>1, <2>2
<1>5. ASSUME NEW t \in Table, NEW cap \in 0..MaxCap, DOMAIN table'[t] = 0..(cap - 1)
      PROVE  Chained(table'[t], cap)
  <2>1. CASE t \in InUse'
    BY <1>2, <1>5, <2>1 DEF MapInv, TablesInv
  <2>2. CASE t \notin InUse'
    <3>1. UsedIn(table'[t]) = {}
      BY <1>2, <2>2, GoneFacts
    <3> QED BY <3>1 DEF Chained
  <2> QED BY <2>1, <2>2
<1> QED BY <1>1, <1>2, <1>3, <1>4, <1>5 DEF TablesInv

(* A header copy marks the entries as shared.                              *)
LEMMA CopyKeepsInv ==
  ASSUME MapInv, NEW v \in Var, NEW w \in Var, Copy(v, w)
  PROVE  MapInv'
<1> DEFINE S == shared \cup ({hdr[v].tab} \ {NoTable})
<1> DEFINE from(u) == IF u = w THEN v ELSE u
<1>1. /\ v # w /\ iter' = iter /\ hdr' = [hdr EXCEPT ![w] = hdr[v]]
      /\ Keep(table, S) /\ visited' = visited /\ stayed' = stayed
  BY DEF Copy
<1>2. hdr \in [Var -> [tab : Table \cup {NoTable}, cap : 0..MaxCap, len : Int, tombs : Int]]
      /\ shared \subseteq Table
  BY DEF MapInv, TypeOK
<1>3. \A u \in Var : from(u) \in Var /\ hdr'[u] = hdr[from(u)]
  BY <1>1, <1>2
<1>4. /\ parted' \subseteq Var
      /\ iter # NoLoop => /\ parted \subseteq parted'
                          /\ \A u \in Var \ parted' : u \notin parted /\ hdr'[u].tab = iter.tab
  <2> HIDE DEF S
  <2> QED BY <1>1, PartedFacts
<1>5. /\ DOMAIN table' = Table
      /\ \A t \in Table : table'[t] = IF t \in InUse' THEN table[t] ELSE Gone
      /\ \A u \in Var : hdr'[u].tab \in InUse'
      /\ iter'.tab \in InUse'
      /\ shared' = S \cap InUse'
      /\ \A t \in Table : \E cap \in 0..MaxCap : table'[t] \in [0..(cap - 1) -> EntryType]
      /\ TablesInv'
  <2> HIDE DEF S
  <2> QED BY <1>1, KeptTables
<1>6. TypeOK'
  <2>1. hdr' \in [Var -> [tab : Table \cup {NoTable}, cap : 0..MaxCap, len : Int, tombs : Int]]
    BY <1>1, <1>2
  <2>2. shared' \subseteq Table
    BY <1>2, <1>5
  <2>3. parted' \subseteq Var
    BY <1>4
  <2> QED BY <1>1, <1>5, <2>1, <2>2, <2>3 DEF MapInv, TypeOK
<1>7. HeadersInv'
  <2>1. ASSUME NEW u \in Var
        PROVE  hdr'[u] = NoMap \/ \E cap \in InitCap..MaxCap : Describes(hdr[u], cap)'
    <3> DEFINE f == from(u)
    <3>1. f \in Var /\ hdr'[u] = hdr[f] /\ hdr[f].tab \in InUse'
      BY <1>3, <1>5
    <3> HIDE DEF f
    <3>2. CASE hdr[f] = NoMap
      BY <3>1, <3>2
    <3>3. ASSUME NEW cap \in InitCap..MaxCap, Describes(hdr[f], cap)
          PROVE  Describes(hdr[u], cap)'
      BY <1>5, <3>1, <3>3 DEF Describes
    <3> QED BY <3>1, <3>2, <3>3 DEF MapInv, HeadersInv
  <2>2. ASSUME NEW u1 \in Var, NEW u2 \in Var, u1 # u2, hdr'[u1].tab = hdr'[u2].tab
        PROVE  hdr'[u1].tab \in shared' \cup {NoTable}
    <3>1. hdr'[u1].tab \in InUse'
      BY <1>5
    <3>2. CASE from(u1) = from(u2)
      <4>1. hdr'[u1].tab = hdr[v].tab
        BY <1>3, <2>2, <3>2
      <4> QED BY <1>5, <3>1, <4>1
    <3>3. CASE from(u1) # from(u2)
      <4>1. hdr'[u1].tab \in shared \cup {NoTable}
        <5> DEFINE f1 == from(u1)
        <5> DEFINE f2 == from(u2)
        <5>1. f1 \in Var /\ f2 \in Var /\ f1 # f2
              /\ hdr'[u1] = hdr[f1] /\ hdr[f1].tab = hdr[f2].tab
          BY <1>3, <2>2, <3>3
        <5> HIDE DEF f1, f2
        <5> QED BY <5>1 DEF MapInv, HeadersInv
      <4> QED BY <1>5, <3>1, <4>1
    <3> QED BY <3>2, <3>3
  <2>3. shared' \subseteq InUse'
    BY <1>5
  <2> QED BY <2>1, <2>2, <2>3 DEF HeadersInv
<1>8. CountsInv'
  <2>1. ASSUME NEW u \in Var, hdr'[u].cap > 0, hdr'[u].tab \notin shared'
        PROVE  Counted(hdr'[u], table'[hdr'[u].tab])
    <3> DEFINE f == from(u)
    <3>1. f \in Var /\ hdr'[u] = hdr[f] /\ hdr[f].cap > 0 /\ hdr[f].tab \in InUse'
      BY <1>3, <1>5, <2>1
    <3> HIDE DEF f
    <3>2. hdr[f].tab \in Table /\ hdr[f].tab # NoTable
      BY <3>1, SetHeaderFacts
    <3>3. hdr[f].tab \notin S
      BY <1>5, <2>1, <3>1
    <3>4. table'[hdr[f].tab] = table[hdr[f].tab]
      BY <1>5, <3>1, <3>2
    <3> QED BY <3>1, <3>3, <3>4 DEF MapInv, CountsInv
  <2> QED BY <2>1 DEF CountsInv
<1>9. LoopInv'
  <2> SUFFICES ASSUME iter # NoLoop, iter.tab # NoTable PROVE LoopInv'
    BY <1>1, <1>4 DEF MapInv, LoopInv
  <2>1. iter.tab \in Table /\ LoopInv
    BY DEF MapInv, LoopInv, Describes
  <2>2. table'[iter.tab] = table[iter.tab]
    BY <1>1, <1>5, <2>1
  <2> QED BY <1>1, <1>4, <2>1, <2>2 DEF LoopInv, Describes
<1> QED BY <1>5, <1>6, <1>7, <1>8, <1>9 DEF MapInv

(* A step of a loop leaves the headers, and what is shared, alone.         *)
LEMMA LoopStepKeeps ==
  ASSUME MapInv, hdr' = hdr, TypeOK', LoopInv',
         \/ Keep(table, shared)
         \/ UNCHANGED <<table, shared>> /\ InUse \ {NoTable} \subseteq InUse'
  PROVE  MapInv'
<1>1. /\ \A t \in Table : t \in InUse' => table'[t] = table[t]
      /\ shared \cap InUse' = shared' /\ shared' \subseteq InUse'
      /\ \A v \in Var : hdr[v].tab \in InUse'
      /\ TablesInv'
  <2>1. \A v \in Var : hdr[v].tab \in InUse'
    BY DEF InUse, Rooted
  <2>2. shared \subseteq InUse /\ shared \subseteq Table
    BY DEF MapInv, HeadersInv, TypeOK
  <2>3. CASE Keep(table, shared)
    <3>1. /\ \A t \in Table : table'[t] = IF t \in InUse' THEN table[t] ELSE Gone
          /\ shared' = shared \cap InUse' /\ TablesInv'
      BY <2>3, KeptTables
    <3> QED BY <2>1, <3>1
  <2>4. CASE UNCHANGED <<table, shared>> /\ InUse \ {NoTable} \subseteq InUse'
    <3>1. TablesInv'
      BY <2>4 DEF MapInv, TablesInv
    <3>2. shared \subseteq InUse'
      BY <2>2, <2>4, MapAssumption
    <3> QED BY <2>1, <2>4, <3>1, <3>2
  <2> QED BY <2>3, <2>4
<1>2. HeadersInv'
  <2>1. ASSUME NEW v \in Var
        PROVE  hdr'[v] = NoMap \/ \E cap \in InitCap..MaxCap : Describes(hdr[v], cap)'
    <3>1. ASSUME NEW cap \in InitCap..MaxCap, Describes(hdr[v], cap) PROVE Describes(hdr[v], cap)'
      BY <1>1, <3>1 DEF Describes
    <3> QED BY <3>1 DEF MapInv, HeadersInv
  <2>2. ASSUME NEW v \in Var, NEW w \in Var, v # w, hdr'[v].tab = hdr'[w].tab
        PROVE  hdr'[v].tab \in shared' \cup {NoTable}
    BY <1>1, <2>2 DEF MapInv, HeadersInv
  <2> QED BY <1>1, <2>1, <2>2 DEF HeadersInv
<1>3. CountsInv'
  <2>1. ASSUME NEW v \in Var, hdr'[v].cap > 0, hdr'[v].tab \notin shared'
        PROVE  Counted(hdr'[v], table'[hdr'[v].tab])
    <3>1. hdr[v].tab \in Table /\ hdr[v].tab \notin shared
      BY <1>1, <2>1, SetHeaderFacts
    <3>2. table'[hdr[v].tab] = table[hdr[v].tab]
      BY <1>1, <3>1
    <3> QED BY <2>1, <3>1, <3>2 DEF MapInv, CountsInv
  <2> QED BY <2>1 DEF CountsInv
<1> QED BY <1>1, <1>2, <1>3 DEF MapInv

(* A loop begins at entry 0 of the entries the variable has then.          *)
LEMMA BeginLoopKeepsInv ==
  ASSUME MapInv, NEW v \in Var, BeginLoop(v)
  PROVE  MapInv'
<1> DEFINE T == table[hdr[v].tab]
<1>1. /\ iter = NoLoop /\ hdr[v].cap > 0
      /\ iter' = [tab |-> hdr[v].tab, cap |-> hdr[v].cap, at |-> 0]
      /\ visited' = [k \in Key |-> 0]
      /\ stayed' = {k \in Key : Lookup(v, k) # Nothing}
      /\ parted' = {w \in Var : hdr[w].tab # hdr[v].tab}
      /\ UNCHANGED <<hdr, table, shared>>
  BY DEF BeginLoop
<1>2. /\ hdr[v].cap \in InitCap..MaxCap /\ hdr[v].cap \in Nat \ {0} /\ hdr[v].cap \in 0..MaxCap
      /\ hdr[v].tab \in Table /\ DOMAIN T = 0..(hdr[v].cap - 1)
      /\ T \in EntriesOf(hdr[v].cap) /\ Chained(T, hdr[v].cap)
  BY <1>1, SetHeaderFacts, MapAssumption
<1>3. iter'.tab = hdr[v].tab /\ iter'.cap = hdr[v].cap /\ iter'.at = 0
  BY <1>1
<1>4. TypeOK'
  <2>1. iter' \in [tab : Table \cup {NoTable}, cap : 0..MaxCap, at : 0..MaxCap]
    BY <1>1, <1>2, MapAssumption
  <2>2. visited' \in [Key -> Nat] /\ stayed' \subseteq Key
    BY <1>1
  <2> QED BY <1>1, <2>1, <2>2 DEF MapInv, TypeOK
<1>5. LoopInv'
  <2>1. ASSUME NEW k \in stayed'
        PROVE  \E i \in UsedIn(T) : T[i].key = k /\ visited'[k] = IF i < iter'.at THEN 1 ELSE 0
    <3>1. k \in Key /\ LookupIn(T, hdr[v].cap, k) # Nothing
      BY <1>1, <1>2 DEF Lookup
    <3> HIDE DEF T
    <3>2. PICK i \in UsedIn(T) : T[i].key = k
      BY <1>2, <3>1, LookupFacts
    <3>3. i \in Nat /\ visited'[k] = 0
      BY <1>1, <1>2, <3>1 DEF UsedIn
    <3> QED BY <1>3, <3>2, <3>3
  <2>2. Describes(iter, iter.cap)' /\ iter'.at <= iter'.cap
    BY <1>1, <1>2, <1>3 DEF Describes
  <2>3. iter'.tab # NoTable /\ \A w \in Var \ parted' : hdr'[w].tab = iter'.tab
    BY <1>1, <1>2, <1>3, MapAssumption
  <2> QED BY <1>1, <1>3, <2>1, <2>2, <2>3 DEF LoopInv
<1>6. InUse \ {NoTable} \subseteq InUse'
  BY <1>1, <1>3, NoMapFacts DEF InUse, Rooted
<1> QED BY <1>1, <1>4, <1>5, <1>6, LoopStepKeeps

(* __nc_map_next skips no used entry and visits none again.                *)
LEMMA VisitKeepsInv ==
  ASSUME MapInv, Visit
  PROVE  MapInv'
<1> DEFINE T == table[iter.tab]
<1>1. PICK i \in NextUsed :
          /\ iter # NoLoop /\ iter.tab # NoTable
          /\ \A j \in NextUsed : i <= j
          /\ iter' = [iter EXCEPT !.at = i + 1]
          /\ visited' = [visited EXCEPT ![T[i].key] = @ + 1]
          /\ UNCHANGED <<hdr, table, shared, stayed, parted>>
  BY DEF Visit
<1>2. /\ iter.tab \in Table /\ DOMAIN T = 0..(iter.cap - 1) /\ iter.at <= iter.cap
      /\ \A k \in stayed : \E j \in UsedIn(T) :
             T[j].key = k /\ visited[k] = IF j < iter.at THEN 1 ELSE 0
      /\ \A w \in Var \ parted : hdr[w].tab = iter.tab
  BY <1>1 DEF MapInv, LoopInv, Describes
<1>3. /\ iter \in [tab : Table \cup {NoTable}, cap : 0..MaxCap, at : 0..MaxCap]
      /\ iter.cap \in Nat /\ iter.cap <= MaxCap /\ iter.at \in Nat
      /\ visited \in [Key -> Nat] /\ stayed \subseteq Key
  BY MapAssumption DEF MapInv, TypeOK
<1>4. T \in EntriesOf(iter.cap) /\ Chained(T, iter.cap)
  BY <1>2, <1>3, TableFacts
<1>5. i \in 0..(iter.cap - 1) /\ i >= iter.at /\ i \in UsedIn(T) /\ T[i].st = 1
  BY <1>2, <1>3 DEF NextUsed, UsedIn
<1>6. T[i].key \in Key
  BY <1>4, <1>5, EntryFacts DEF EntriesOf
<1>7. iter'.tab = iter.tab /\ iter'.cap = iter.cap /\ iter'.at = i + 1
      /\ iter' \in [tab : Table \cup {NoTable}, cap : 0..MaxCap, at : 0..MaxCap]
  BY <1>1, <1>3, <1>5, MapAssumption
<1>8. TypeOK'
  <2>1. visited' \in [Key -> Nat]
    BY <1>1, <1>3, <1>6
  <2> QED BY <1>1, <1>7, <2>1 DEF MapInv, TypeOK
<1>9. ASSUME NEW k \in stayed
      PROVE  \E j \in UsedIn(T) : T[j].key = k /\ visited'[k] = IF j < i + 1 THEN 1 ELSE 0
  <2>1. PICK j \in UsedIn(T) : T[j].key = k /\ visited[k] = IF j < iter.at THEN 1 ELSE 0
    BY <1>2
  <2>2. j \in 0..(iter.cap - 1) /\ T[j].st = 1 /\ k \in Key
    BY <1>2, <1>3 DEF UsedIn
  <2>3. CASE j = i
    <3>1. visited[k] = 0 /\ visited'[k] = visited[k] + 1
      BY <1>1, <1>3, <1>5, <2>1, <2>2, <2>3
    <3> QED BY <1>5, <2>1, <2>3, <3>1
  <2>4. CASE j # i
    <3>1. T[i].key # k
      BY <1>4, <1>5, <2>1, <2>4 DEF Chained
    <3>2. visited'[k] = visited[k]
      BY <1>1, <1>3, <3>1
    <3>3. j >= iter.at => i <= j
      BY <1>1, <2>2 DEF NextUsed
    <3>4. j < iter.at <=> j < i + 1
      BY <1>3, <1>5, <2>2, <2>4, <3>3
    <3> QED BY <2>1, <3>2, <3>4
  <2> QED BY <2>3, <2>4
<1>10. LoopInv'
  <2>1. Describes(iter, iter.cap)' /\ iter'.at <= iter'.cap
    BY <1>1, <1>2, <1>3, <1>5, <1>7 DEF Describes
  <2> QED BY <1>1, <1>2, <1>7, <1>9, <2>1 DEF LoopInv
<1>11. InUse \ {NoTable} \subseteq InUse'
  BY <1>1, <1>7 DEF InUse, Rooted
<1> QED BY <1>1, <1>8, <1>10, <1>11, LoopStepKeeps

(* A loop that ends may be the last that refers to its entries, and a      *)
(* collection takes them from it when every variable has parted.           *)
LEMMA EndLoopKeepsInv ==
  ASSUME MapInv, LeaveLoop \/ Collect
  PROVE  MapInv'
<1>1. /\ hdr' = hdr /\ Keep(table, shared)
      /\ visited' = [k \in Key |-> 0] /\ stayed' = {}
      /\ \/ iter' = NoLoop
         \/ iter.tab \in Table \ Rooted /\ iter' = [iter EXCEPT !.tab = NoTable]
  BY DEF LeaveLoop, Collect
<1>0. iter \in [tab : Table \cup {NoTable}, cap : 0..MaxCap, at : 0..MaxCap]
  BY DEF MapInv, TypeOK
<1>2. TypeOK'
  <2>1. /\ DOMAIN table' = Table /\ shared' = shared \cap InUse'
        /\ \A t \in Table : \E cap \in 0..MaxCap : table'[t] \in [0..(cap - 1) -> EntryType]
    BY <1>1, KeptTables
  <2>2. iter' \in [tab : Table \cup {NoTable}, cap : 0..MaxCap, at : 0..MaxCap]
    BY <1>0, <1>1, MapAssumption DEF NoLoop
  <2>3. visited' \in [Key -> Nat] /\ stayed' \subseteq Key /\ parted' \subseteq Var
    BY <1>1, PartedFacts
  <2> QED BY <1>1, <2>1, <2>2, <2>3 DEF MapInv, TypeOK
<1>3. LoopInv'
  <2>1. CASE iter' = NoLoop
    BY <2>1 DEF LoopInv
  <2>2. CASE iter' # NoLoop
    <3>1. \A w \in Var \ parted' : hdr[w].tab = iter.tab
      BY <1>1, <2>2, PartedFacts
    <3>2. \A w \in Var : hdr[w].tab # iter.tab
      BY <1>1, <2>2 DEF Rooted
    <3>3. parted' = Var /\ iter'.tab = NoTable
      BY <1>0, <1>1, <2>2, <3>1, <3>2, PartedFacts
    <3> QED BY <3>3 DEF LoopInv
  <2> QED BY <2>1, <2>2
<1> QED BY <1>1, <1>2, <1>3, LoopStepKeeps

(* A walk over freed entries writes nothing.                               *)
LEMMA VisitFreedKeepsInv ==
  ASSUME MapInv, VisitFreed
  PROVE  MapInv'
<1>1. PICK i \in iter.at..(iter.cap - 1) :
          /\ iter # NoLoop /\ iter.tab = NoTable
          /\ iter' = [iter EXCEPT !.at = i + 1]
          /\ UNCHANGED <<hdr, table, shared, visited, stayed, parted>>
  BY DEF VisitFreed
<1>2. /\ iter \in [tab : Table \cup {NoTable}, cap : 0..MaxCap, at : 0..MaxCap]
      /\ iter.cap \in Nat /\ iter.cap <= MaxCap /\ iter.at \in Nat
  BY MapAssumption DEF MapInv, TypeOK
<1>3. /\ iter'.tab = iter.tab
      /\ iter' \in [tab : Table \cup {NoTable}, cap : 0..MaxCap, at : 0..MaxCap]
  BY <1>1, <1>2, MapAssumption
<1>4. TypeOK'
  BY <1>1, <1>3 DEF MapInv, TypeOK
<1>5. LoopInv'
  BY <1>1, <1>3 DEF MapInv, LoopInv
<1>6. InUse \ {NoTable} \subseteq InUse'
  BY <1>1, <1>3 DEF InUse, Rooted
<1> QED BY <1>1, <1>4, <1>5, <1>6, LoopStepKeeps

-----------------------------------------------------------------------------
(* The theorems.                                                           *)

(* Zero headers satisfy the invariant.                                     *)
LEMMA InitMap == Init => MapInv
<1> SUFFICES ASSUME Init PROVE MapInv
  OBVIOUS
<1>1. /\ hdr = [v \in Var |-> NoMap] /\ table = [t \in Table |-> Gone] /\ shared = {}
      /\ iter = NoLoop /\ visited = [k \in Key |-> 0] /\ stayed = {} /\ parted = {}
  BY DEF Init
<1>2. TypeOK
  <2>1. 0 \in 0..MaxCap /\ Gone \in [0..(0 - 1) -> EntryType]
    BY MapAssumption, GoneFacts DEF EntriesOf
  <2>2. hdr \in [Var -> [tab : Table \cup {NoTable}, cap : 0..MaxCap, len : Int, tombs : Int]]
    BY <1>1, <2>1 DEF NoMap
  <2>3. iter \in [tab : Table \cup {NoTable}, cap : 0..MaxCap, at : 0..MaxCap]
    BY <1>1, <2>1 DEF NoLoop
  <2> QED BY <1>1, <2>1, <2>2, <2>3 DEF TypeOK
<1>3. HeadersInv
  BY <1>1, NoMapFacts DEF HeadersInv
<1>4. TablesInv
  BY <1>1, GoneFacts DEF TablesInv, Chained
<1>5. CountsInv
  BY <1>1, NoMapFacts DEF CountsInv
<1>6. LoopInv
  BY <1>1 DEF LoopInv
<1> QED BY <1>2, <1>3, <1>4, <1>5, <1>6 DEF MapInv

(* Every step preserves the invariant.                                     *)
LEMMA NextMap == MapInv /\ [Next]_vars => MapInv'
<1> SUFFICES ASSUME MapInv, [Next]_vars PROVE MapInv'
  OBVIOUS
<1>1. ASSUME NEW v \in Var, NEW k \in Key, NEW x \in Val, Put(v, k, x) PROVE MapInv'
  <2>1. PICK h, T : Valid(v, h, T) /\ SetHeader(v, h, T) /\ Kept(h, T, stayed)
    BY <1>1, PutFacts
  <2>2. visited' = visited /\ stayed' = stayed
    BY <1>1 DEF Put
  <2> QED BY <2>1, <2>2, SetKeepsInv
<1>2. ASSUME NEW v \in Var, NEW k \in Key, Delete(v, k) PROVE MapInv'
  <2>1. PICK h, T : Valid(v, h, T) /\ SetHeader(v, h, T) /\ Kept(h, T, stayed \ {k})
    BY <1>2, DeleteFacts
  <2>2. visited' = visited /\ stayed' = stayed \ {k} /\ stayed' \subseteq stayed
    BY <1>2 DEF Delete
  <2> QED BY <2>1, <2>2, SetKeepsInv
<1>3. ASSUME NEW v \in Var, Clear(v) \/ Literal(v) PROVE MapInv'
  <2>1. PICK h, T : Valid(v, h, T) /\ SetHeader(v, h, T) /\ Kept(h, T, {})
    BY <1>3, ClearFacts, LiteralFacts
  <2>2. visited' = visited /\ stayed' = {} /\ stayed' \subseteq stayed
    BY <1>3 DEF Clear, Literal
  <2> QED BY <2>1, <2>2, SetKeepsInv
<1>4. CASE UNCHANGED vars
  BY <1>4 DEF vars, MapInv, TypeOK, HeadersInv, Describes, InUse, Rooted, TablesInv, CountsInv, LoopInv
<1> QED
  BY <1>1, <1>2, <1>3, <1>4, CopyKeepsInv, BeginLoopKeepsInv, VisitKeepsInv, EndLoopKeepsInv,
     VisitFreedKeepsInv DEF Next

(* The map keeps its invariant whatever the program does with its          *)
(* variables, their copies and its loops.                                  *)
THEOREM MapInductive == Spec => []MapInv
BY InitMap, NextMap, PTL DEF Spec

(* __nc_map_put, _delete, _clear, _rehash: every table is sound, and a     *)
(* header that was never copied counts its entries and has an empty one.   *)
THEOREM TablesAreSound == Spec => []TableSound
<1>1. MapInv => TableSound
  <2> SUFFICES ASSUME MapInv PROVE TableSound
    OBVIOUS
  <2>1. ASSUME NEW t \in Table, NEW i \in UsedIn(table[t])
        PROVE  /\ \A j \in UsedIn(table[t]) : table[t][i].key = table[t][j].key => i = j
               /\ Probe(table[t][i].key, Cardinality(DOMAIN table[t]),
                        ScanEnd(table[t], Cardinality(DOMAIN table[t]), table[t][i].key)) = i
    <3> DEFINE T == table[t]
    <3>1. PICK cap \in 0..MaxCap : T \in [0..(cap - 1) -> EntryType]
      BY DEF MapInv, TypeOK
    <3>2. cap \in Nat /\ DOMAIN T = 0..(cap - 1) /\ T \in EntriesOf(cap)
      BY <3>1, MapAssumption DEF EntriesOf
    <3>3. Chained(T, cap)
      BY <3>2, TableFacts
    <3>4. Cardinality(DOMAIN T) = cap
      <4> HIDE DEF T
      <4> QED BY <3>2, UsedFinite
    <3>5. Probe(T[i].key, cap, ScanEnd(T, cap, T[i].key)) = i
      <4>1. i \in UsedIn(T)
        OBVIOUS
      <4> HIDE DEF T
      <4> QED BY <3>2, <3>3, <4>1, ScanFinds
    <3> QED BY <3>3, <3>4, <3>5 DEF Chained
  <2>2. \A v \in Var : hdr[v].cap > 0 /\ hdr[v].tab \notin shared =>
            Counted(hdr[v], table[hdr[v].tab])
    BY DEF MapInv, CountsInv
  <2> QED BY <2>1, <2>2 DEF TableSound
<1> QED BY <1>1, MapInductive, PTL

(* __nc_map_next: a loop visits a key that stays exactly once, whatever    *)
(* its body does to the map, and it walks freed entries only after every   *)
(* variable has left them.                                                 *)
THEOREM LoopsCover == Spec => []LoopCovers
<1>1. MapInv => LoopCovers
  <2> SUFFICES ASSUME MapInv, iter # NoLoop, iter.tab # NoTable, NEW k \in stayed
               PROVE  visited[k] <= 1 /\ (NextUsed = {} => visited[k] = 1)
    BY DEF LoopCovers, MapInv, LoopInv
  <2>1. /\ DOMAIN table[iter.tab] = 0..(iter.cap - 1) /\ iter.at \in Nat /\ iter.cap \in Nat
        /\ \E i \in UsedIn(table[iter.tab]) : visited[k] = IF i < iter.at THEN 1 ELSE 0
    BY MapAssumption DEF MapInv, TypeOK, LoopInv, Describes
  <2>2. PICK i \in UsedIn(table[iter.tab]) : visited[k] = IF i < iter.at THEN 1 ELSE 0
    BY <2>1
  <2>3. i \in 0..(iter.cap - 1) /\ table[iter.tab][i].st = 1
    BY <2>1 DEF UsedIn
  <2>4. i >= iter.at => i \in NextUsed
    BY <2>1, <2>3 DEF NextUsed
  <2> QED BY <2>1, <2>2, <2>3, <2>4
<1> QED BY <1>1, MapInductive, PTL

-----------------------------------------------------------------------------
(* The refinement.                                                         *)

(* A header that is set is an update of its variable.                      *)
LEMMA SetRefines ==
  ASSUME MapInv, NEW v \in Var, NEW h, NEW T, Valid(v, h, T), SetHeader(v, h, T),
         \/ Promise!Put(Observed[v], Observed'[v])
         \/ Promise!Delete(Observed[v], Observed'[v])
         \/ Promise!Clear(Observed'[v])
  PROVE  Promise!Next
<1>1. \A w \in Var \ {v} :
          \/ Observed'[w] = Observed[w]
          \/ Observed[w] = Observed[v] /\ Observed'[w] = Observed'[v]
  BY SetObserved
<1>2. Promise!Update(v, Observed, Observed')
  BY <1>1 DEF Promise!Update
<1> QED BY <1>2 DEF Promise!Next

(* Observed is a function of the variables to functions of the keys.       *)
LEMMA ObservedFunctions ==
  /\ Observed = [v \in Var |-> Observed[v]]
  /\ \A v \in Var : Observed[v] = [k \in Key |-> Observed[v][k]]
  /\ \A v \in Var, k \in Key : Observed[v][k] = Lookup(v, k)
BY DEF Observed

(* A step that changes no lookup is a stutter.                             *)
LEMMA SameObserved ==
  ASSUME \A v \in Var, k \in Key : Observed'[v][k] = Observed[v][k]
  PROVE  Observed' = Observed
<1>1. \A v \in Var, k \in Key : Lookup(v, k)' = Lookup(v, k)
  BY DEF Observed
<1> QED BY <1>1 DEF Observed

(* A put changes its key, or changes nothing when there is no room.        *)
LEMMA PutRefines ==
  ASSUME MapInv, NEW v \in Var, NEW k \in Key, NEW x \in Val, Put(v, k, x)
  PROVE  [Promise!Next]_Observed
<1>1. PICK h, T :
          /\ Valid(v, h, T) /\ SetHeader(v, h, T)
          /\ \A l \in Key \ {k} : LookupIn(T, h.cap, l) = Lookup(v, l)
          /\ LookupIn(T, h.cap, k) \in {x, Lookup(v, k)}
  BY PutFacts
<1>2. /\ \A l \in Key : Observed'[v][l] = LookupIn(T, h.cap, l)
      /\ \A w \in Var \ {v} : \/ Observed'[w] = Observed[w]
                              \/ Observed[w] = Observed[v] /\ Observed'[w] = Observed'[v]
  BY <1>1, SetObserved
<1>3. /\ \A l \in Key \ {k} : Observed'[v][l] = Observed[v][l]
      /\ Observed'[v][k] \in {x, Observed[v][k]}
  BY <1>1, <1>2, ObservedFunctions
<1>4. CASE Observed'[v][k] = x
  <2>1. Promise!Put(Observed[v], Observed'[v])
    BY <1>3, <1>4 DEF Promise!Put
  <2> QED BY <1>1, <2>1, SetRefines
<1>5. CASE Observed'[v][k] = Observed[v][k]
  <2>1. \A l \in Key : Observed'[v][l] = Observed[v][l]
    BY <1>3, <1>5
  <2>2. \A w \in Var, l \in Key : Observed'[w][l] = Observed[w][l]
    BY <1>2, <2>1
  <2> QED BY <2>2, SameObserved
<1> QED BY <1>3, <1>4, <1>5

(* A delete removes its key.                                               *)
LEMMA DeleteRefines ==
  ASSUME MapInv, NEW v \in Var, NEW k \in Key, Delete(v, k)
  PROVE  Promise!Next
<1>1. PICK h, T :
          /\ Valid(v, h, T) /\ SetHeader(v, h, T)
          /\ \A l \in Key \ {k} : LookupIn(T, h.cap, l) = Lookup(v, l)
          /\ LookupIn(T, h.cap, k) = Nothing
  BY DeleteFacts
<1>2. \A l \in Key : Observed'[v][l] = LookupIn(T, h.cap, l)
  BY <1>1, SetObserved
<1>3. Promise!Delete(Observed[v], Observed'[v])
  BY <1>1, <1>2, ObservedFunctions DEF Promise!Delete
<1> QED BY <1>1, <1>3, SetRefines

(* A clear and an empty literal remove all keys.                           *)
LEMMA EmptyRefines ==
  ASSUME MapInv, NEW v \in Var, Clear(v) \/ Literal(v)
  PROVE  Promise!Next
<1>1. PICK h, T :
          /\ Valid(v, h, T) /\ SetHeader(v, h, T)
          /\ \A k \in Key : LookupIn(T, h.cap, k) = Nothing
  BY ClearFacts, LiteralFacts
<1>2. \A k \in Key : Observed'[v][k] = Nothing
  BY <1>1, SetObserved
<1>3. Observed'[v] = [k \in Key |-> Nothing]
  <2>1. \A k \in Key : Lookup(v, k)' = Nothing
    BY <1>2 DEF Observed
  <2> QED BY <2>1 DEF Observed
<1>4. Promise!Clear(Observed'[v])
  BY <1>3 DEF Promise!Clear, Promise!NoEntries
<1> QED BY <1>1, <1>4, SetRefines

(* A table that a header goes on referring to reads as before.             *)
LEMMA KeptLookups ==
  ASSUME MapInv, NEW S, Keep(table, S), NEW u \in Var, NEW w \in Var, hdr'[u] = hdr[w],
         NEW k \in Key
  PROVE  Observed'[u][k] = Observed[w][k]
<1>1. \A t \in Table : t \in InUse' => table'[t] = table[t]
  BY KeptTables
<1>2. CASE hdr[w] = NoMap
  BY <1>2, NoMapFacts DEF Observed, Lookup
<1>3. CASE hdr[w] # NoMap
  <2>1. hdr[w].tab \in Table /\ hdr[w].tab \in InUse'
    BY <1>3, HeaderFacts DEF InUse, Rooted
  <2>2. table'[hdr[w].tab] = table[hdr[w].tab]
    BY <1>1, <2>1
  <2> QED BY <2>2 DEF Observed, Lookup
<1> QED BY <1>2, <1>3

(* A header copy reads as what was assigned.                               *)
LEMMA CopyRefines ==
  ASSUME MapInv, NEW v \in Var, NEW w \in Var, Copy(v, w)
  PROVE  Promise!Next
<1>1. /\ hdr' = [hdr EXCEPT ![w] = hdr[v]]
      /\ Keep(table, shared \cup ({hdr[v].tab} \ {NoTable}))
  BY DEF Copy
<1>2. \A u \in Var : hdr'[u] = hdr[IF u = w THEN v ELSE u]
  BY <1>1 DEF MapInv, TypeOK
<1>3. \A u \in Var, k \in Key : Observed'[u][k] = Observed[IF u = w THEN v ELSE u][k]
  BY <1>1, <1>2, KeptLookups
<1>4. Observed' = [Observed EXCEPT ![w] = Observed[v]]
  <2>1. \A u \in Var, k \in Key : Lookup(u, k)' = Lookup(IF u = w THEN v ELSE u, k)
    BY <1>3 DEF Observed
  <2>2. \A u \in Var : [k \in Key |-> Lookup(u, k)'] = Observed[IF u = w THEN v ELSE u]
    BY <2>1 DEF Observed
  <2>3. Observed' = [u \in Var |-> Observed[IF u = w THEN v ELSE u]]
    BY <2>2 DEF Observed
  <2>4. DOMAIN Observed = Var
    BY DEF Observed
  <2>5. Observed = [u \in Var |-> Observed[u]]
    BY ObservedFunctions
  <2> QED BY <2>3, <2>4, <2>5
<1>5. Promise!Copy(v, w, Observed, Observed')
  BY <1>4 DEF Promise!Copy
<1> QED BY <1>5 DEF Promise!Next

(* Loops write nothing.                                                    *)
LEMMA LoopRefines ==
  ASSUME MapInv,
         LeaveLoop \/ Collect \/ Visit \/ VisitFreed \/ \E v \in Var : BeginLoop(v)
  PROVE  Observed' = Observed
<1>1. CASE LeaveLoop \/ Collect
  <2>1. hdr' = hdr /\ Keep(table, shared)
    BY <1>1 DEF LeaveLoop, Collect
  <2>2. \A v \in Var, k \in Key : Observed'[v][k] = Observed[v][k]
    BY <2>1, KeptLookups
  <2> QED BY <2>2, SameObserved
<1>2. CASE Visit \/ VisitFreed \/ \E v \in Var : BeginLoop(v)
  <2>1. UNCHANGED <<hdr, table>>
    BY <1>2 DEF Visit, VisitFreed, BeginLoop
  <2> QED BY <2>1 DEF Observed, Lookup
<1> QED BY <1>1, <1>2

(* All variables begin without keys.                                       *)
LEMMA InitRefines == Init => Promise!Init
<1> SUFFICES ASSUME Init PROVE Promise!Init
  OBVIOUS
<1>1. \A v \in Var, k \in Key : Lookup(v, k) = Nothing
  BY NoMapFacts DEF Init, Lookup
<1> QED BY <1>1 DEF Observed, Promise!Init, Promise!NoEntries

(* Every step is a step of AbstractMap or a stutter.                       *)
LEMMA NextRefines == MapInv /\ [Next]_vars => [Promise!Next]_Observed
<1> SUFFICES ASSUME MapInv, [Next]_vars PROVE [Promise!Next]_Observed
  OBVIOUS
<1>1. CASE UNCHANGED vars
  BY <1>1 DEF vars, Observed, Lookup
<1>2. CASE Next
  BY <1>2, PutRefines, DeleteRefines, EmptyRefines, CopyRefines, LoopRefines DEF Next
<1> QED BY <1>1, <1>2

(* runtime/ncrt.c:495-655: put, delete, clear, literal, copy and growth do *)
(* to what the variables read just what AbstractMap allows.                *)
THEOREM MapImplemented == Spec => ImplementsMap
BY InitRefines, NextRefines, MapInductive, PTL DEF Spec, ImplementsMap, Promise!Spec
=============================================================================
