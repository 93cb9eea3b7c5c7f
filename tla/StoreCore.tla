------------------------------ MODULE StoreCore -------------------------------
(***************************************************************************)
(* What holds the items of Store together, proved for any threads, keys,   *)
(* requirements and limits and any bounds on the revisions: locks, pending *)
(* revisions, latest_value and revisions of an item agree with the deque   *)
(* in every state.  StoreHistory and StoreProofs build on it.              *)
(***************************************************************************)
EXTENDS Store, WellFoundedInduction, TLAPS

-----------------------------------------------------------------------------
(* The last revision of a key, and its value, in any history: key and      *)
(* values before and after a step are two histories.                       *)

IsLast(f, q, k, r) ==
  /\ q = 0 \/ (q \in 1..r /\ f[q] = k)
  /\ \A p \in (q + 1)..r : f[p] # k

LastIn(f, k, r) == CHOOSE q \in 0..r : IsLast(f, q, k, r)

ValueIn(f, vs, k, r) == IF LastIn(f, k, r) = 0 THEN NoValue ELSE vs[LastIn(f, k, r)]

-----------------------------------------------------------------------------
(* The inductive invariant.                                                *)

\* Setters lock the item of the key they write, and nothing else is locked.
LocksOK ==
  /\ \A t \in Setters : spc[t] # "idle" => op[t] \in Op
  /\ \A t \in Setters : spc[t] = "pushed" => lock[op[t].key] = t
  /\ \A k \in Keys : lock[k] # NoThread =>
       lock[k] \in Setters /\ spc[lock[k]] = "pushed" /\ op[lock[k]].key = k

\* Nobody else is in the store while the WAL is replayed.
AloneOK ==
  ~serving => /\ \A t \in Setters : spc[t] = "idle"
              /\ \A g \in Rangers : rpc[g] = "idle"

\* A revision that was pushed and not yet published belongs to the item its
\* setter holds, is later than the item's latest_value, and does not delete
\* what is not there.
PendingOK(t) ==
  spc[t] = "pushed" =>
    /\ new_rev[t] \in 1..rev
    /\ key[new_rev[t]] = op[t].key
    /\ new_rev[t] > latest[op[t].key].mod
    /\ op[t].put \/ latest[op[t].key].live

\* latest_value is the value of a revision of the key, and only the revision
\* its setter is about to publish is later.
LatestOK(k) ==
  /\ latest[k].mod <= rev
  /\ latest[k].mod = 0 => latest[k] = NoValue
  /\ latest[k].mod > 0 => /\ key[latest[k].mod] = k
                          /\ values[latest[k].mod] = latest[k]
  /\ \A r \in (latest[k].mod + 1)..rev :
       key[r] = k => lock[k] # NoThread /\ r = new_rev[lock[k]]

\* The revisions of an item are its own, in order, none after latest_value, and
\* all of those that can be read.
RevisionsOK(k) ==
  /\ \A i, j \in 1..Len(revisions[k]) : i < j => revisions[k][i] < revisions[k][j]
  /\ \A i \in 1..Len(revisions[k]) :
       key[revisions[k][i]] = k /\ revisions[k][i] <= latest[k].mod
  /\ \A r \in (earliest + 1)..latest[k].mod :
       key[r] = k => \E i \in 1..Len(revisions[k]) : revisions[k][i] = r

\* No setter is about to publish a revision of k up to r.
Settled(k, r) ==
  \A t \in Setters : spc[t] = "pushed" /\ op[t].key = k => new_rev[t] > r

\* Only set notes a requirement, for the revision it pushes.
RequiredOK == \A r \in Revisions : r > rev => required[r] = Anything

ItemsOK ==
  /\ \A t \in Setters : PendingOK(t)
  /\ \A k \in Keys : LatestOK(k) /\ RevisionsOK(k)

\* What the store is made of fits together.
CoreInv ==
  /\ TypeOK
  /\ LocksOK
  /\ AloneOK
  /\ RequiredOK
  /\ ItemsOK

-----------------------------------------------------------------------------
(* The last revision of a key, and what is drained from an item.           *)

\* A set of numbers has a least element, if it has any.
LEMMA HasMin ==
  ASSUME NEW S \in SUBSET Nat, S # {}
  PROVE  \E m \in S : \A x \in S : m <= x
<1>1. PICK m \in S : \A x \in S : ~(<<x, m>> \in OpToRel(<, Nat))
  BY NatLessThanWellFounded, WFMin, Zenon
<1>2. ASSUME NEW x \in S, x < m
      PROVE  FALSE
  <2>1. <<x, m>> \in OpToRel(<, Nat)
    BY <1>2 DEF OpToRel
  <2> QED
    BY <2>1, <1>1, Zenon
<1> QED
  BY <1>2

\* ... and a largest, if it has a bound.
LEMMA BoundedHasMax ==
  ASSUME NEW S \in SUBSET Nat, S # {}, NEW b \in Nat, \A x \in S : x <= b
  PROVE  \E m \in S : \A x \in S : x <= m
<1> DEFINE T == {n \in Nat : \A x \in S : x <= n}
<1>1. PICK m \in T : \A n \in T : m <= n
  <2>1. b \in T /\ T \in SUBSET Nat
    OBVIOUS
  <2> HIDE DEF T
  <2> QED
    BY <2>1, HasMin
<1>2. m \in Nat /\ \A x \in S : x <= m
  BY <1>1
<1>3. ASSUME m \notin S
      PROVE  FALSE
  <2>1. PICK x \in S : TRUE
    BY Zenon
  <2>2. m # 0
    BY <1>2, <1>3, <2>1
  <2>3. m - 1 \in Nat /\ \A y \in S : y <= m - 1
    BY <1>2, <1>3, <2>2
  <2> QED
    BY <1>1, <1>2, <2>3
<1> QED
  BY <1>2, <1>3

\* A key has at most one last revision, so LastIn finds it.
LEMMA LastIs ==
  ASSUME NEW f, NEW k, NEW r \in Nat, NEW q \in 0..r, IsLast(f, q, k, r)
  PROVE  LastIn(f, k, r) = q
<1>1. ASSUME NEW p \in 0..r, IsLast(f, p, k, r)
      PROVE  p = q
  BY <1>1 DEF IsLast
<1> QED
  BY <1>1 DEF LastIn

\* ... and there is always one, or 0.
LEMMA LastExists ==
  ASSUME NEW f, NEW k, NEW r \in Nat
  PROVE  LastIn(f, k, r) \in 0..r /\ IsLast(f, LastIn(f, k, r), k, r)
<1> DEFINE S == {q \in 1..r : f[q] = k}
<1>1. CASE S = {}
  <2>1. IsLast(f, 0, k, r) /\ 0 \in 0..r
    BY <1>1 DEF IsLast
  <2> QED
    BY <2>1, LastIs
<1>2. CASE S # {}
  <2>1. PICK q \in S : \A p \in S : p <= q
    <3>1. S \in SUBSET Nat /\ \A p \in S : p <= r
      OBVIOUS
    <3> HIDE DEF S
    <3> QED
      BY <1>2, <3>1, BoundedHasMax, Zenon
  <2>2. q \in 0..r /\ IsLast(f, q, k, r)
    BY <2>1 DEF IsLast
  <2> QED
    BY <2>2, LastIs
<1> QED
  BY <1>1, <1>2

\* What a key had at r depends on its revisions up to r only.
LEMMA ValueStable ==
  ASSUME NEW f, NEW vs, NEW ff, NEW vvs, NEW k, NEW r \in Nat,
         \A p \in 1..r : ff[p] = f[p],
         \A p \in 1..r : f[p] = k => vvs[p] = vs[p]
  PROVE  /\ LastIn(ff, k, r) = LastIn(f, k, r)
         /\ ValueIn(ff, vvs, k, r) = ValueIn(f, vs, k, r)
<1> DEFINE q == LastIn(f, k, r)
<1>1. q \in 0..r /\ IsLast(f, q, k, r)
  BY LastExists
<1> HIDE DEF q
<1>2. IsLast(ff, q, k, r)
  BY <1>1 DEF IsLast
<1>3. LastIn(ff, k, r) = q
  BY <1>1, <1>2, LastIs
<1>4. q # 0 => vvs[q] = vs[q]
  BY <1>1 DEF IsLast
<1> QED
  BY <1>3, <1>4 DEF ValueIn, q

\* The revisions an item lists are revisions.
LEMMA ElementOf ==
  ASSUME NEW S, NEW s \in Seq(S), NEW i \in 1..Len(s)
  PROVE  s[i] \in S
  OBVIOUS

\* Revisions are numbers.
LEMMA RevisionsNat == Revisions \subseteq Nat
  BY DEF Revisions

\* partition_point stops before the first revision that is not below r.
LEMMA PartitionPointFacts ==
  ASSUME NEW s \in Seq(Revisions), NEW r \in Nat
  PROVE  /\ PartitionPoint(s, r) \in 0..Len(s)
         /\ \A j \in 1..PartitionPoint(s, r) : s[j] < r
<1> DEFINE S == {i \in 0..Len(s) : i < Len(s) => s[i + 1] >= r}
<1>1. PICK i \in S : \A j \in S : i <= j
  <2>1. Len(s) \in S /\ S \in SUBSET Nat
    OBVIOUS
  <2> HIDE DEF S
  <2> QED
    BY <2>1, HasMin
<1>2. ASSUME NEW j \in 1..i
      PROVE  s[j] < r
  <2>1. Len(s) \in Nat /\ i \in 0..Len(s)
    BY <1>1
  <2>2. j - 1 \in 0..Len(s) /\ j - 1 < Len(s) /\ j \in 1..Len(s)
    BY <2>1
  <2>3. j - 1 \notin S
    <3> HIDE DEF S
    <3> QED
      BY <1>1, <2>1
  <2>4. s[j] \in Nat
    BY <2>2, ElementOf, RevisionsNat, Zenon
  <2>5. ~(s[(j - 1) + 1] >= r)
    BY <2>2, <2>3
  <2> QED
    BY <2>2, <2>4, <2>5
<1> QED
  BY <1>1, <1>2 DEF PartitionPoint

\* The revisions that are drained are compacted; the others stay, in order.
LEMMA DrainedFacts ==
  ASSUME NEW s \in Seq(Revisions), earliest \in Nat,
         \A i, j \in 1..Len(s) : i < j => s[i] < s[j]
  PROVE  /\ Drained(s) \in Seq(Revisions)
         /\ \A i, j \in 1..Len(Drained(s)) : i < j => Drained(s)[i] < Drained(s)[j]
         /\ \A i \in 1..Len(Drained(s)) : \E j \in 1..Len(s) : Drained(s)[i] = s[j]
         /\ \A j \in 1..Len(s) : s[j] >= earliest =>
              \E i \in 1..Len(Drained(s)) : Drained(s)[i] = s[j]
<1> DEFINE p == PartitionPoint(s, earliest)
           d == Drained(s)
<1>1. p \in 0..Len(s) /\ \A j \in 1..p : s[j] < earliest
  BY PartitionPointFacts
<1>2. d = SubSeq(s, p + 1, Len(s))
  BY DEF Drained
<1> HIDE DEF p, d
<1>3. /\ d \in Seq(Revisions)
      /\ Len(d) = Len(s) - p
      /\ \A i \in 1..Len(d) : d[i] = s[p + i]
  <2>1. Len(s) \in Nat /\ \A i \in (p + 1)..Len(s) : s[i] \in Revisions
    BY <1>1
  <2>2. /\ d \in Seq(Revisions)
        /\ Len(d) = IF p + 1 <= Len(s) THEN Len(s) - (p + 1) + 1 ELSE 0
        /\ \A i \in 1..(Len(s) - (p + 1) + 1) : d[i] = s[(p + 1) + i - 1]
    BY <1>1, <1>2, <2>1
  <2> QED
    BY <1>1, <2>1, <2>2
<1>4. ASSUME NEW j \in 1..Len(s), s[j] >= earliest
      PROVE  \E i \in 1..Len(d) : d[i] = s[j]
  <2>1. s[j] \in Nat
    BY ElementOf, RevisionsNat, Zenon
  <2>2. j > p
    BY <1>1, <1>4, <2>1
  <2>3. j - p \in 1..Len(d) /\ d[j - p] = s[j]
    BY <1>1, <1>3, <2>2
  <2> QED
    BY <2>3
<1>5. \A i \in 1..Len(d) : p + i \in 1..Len(s) /\ d[i] = s[p + i]
  BY <1>1, <1>3
<1>6. ASSUME NEW i \in 1..Len(d), NEW j \in 1..Len(d), i < j
      PROVE  d[i] < d[j]
  <2>1. p + i \in 1..Len(s) /\ p + j \in 1..Len(s) /\ p + i < p + j
    BY <1>1, <1>5, <1>6
  <2> QED
    BY <1>5, <2>1, Zenon
<1> QED
  BY <1>3, <1>4, <1>5, <1>6, Zenon DEF d

-----------------------------------------------------------------------------
(* The types.                                                              *)

\* What NewValue makes of a value carries the revision and is live after a put.
LEMMA NewValueFacts ==
  ASSUME NEW v \in Value, NEW put \in BOOLEAN, NEW r \in Nat
  PROVE  /\ NewValue(v, put, r) \in Value
         /\ NewValue(v, put, r).mod = r
         /\ NewValue(v, put, r).live = put
  BY DEF NewValue, Value

\* The value of an item that was just made is deleted and has no revision.
LEMMA NoValueFacts ==
  NoValue \in Value /\ ~NoValue.live /\ NoValue.mod = 0 /\ Placeholder \in Value
  BY DEF NoValue, Value, Placeholder

\* The thread t of a step is at work on an item.
LEMMA OpFacts ==
  ASSUME CoreInv, NEW t \in Setters, spc[t] # "idle"
  PROVE  op[t] \in Op /\ op[t].key \in Keys /\ op[t].put \in BOOLEAN
  BY Zenon DEF CoreInv, LocksOK, Op

\* The places in revisions that the binary search may find.
UpTo(k, r) == {i \in 1..Len(revisions[k]) : revisions[k][i] <= r}

\* find_value_for_revision: latest_value, nothing, or the value of the last of
\* the revisions up to r.
LEMMA FindFacts ==
  ASSUME TypeOK, NEW k \in Keys, NEW r \in Nat
  PROVE  \/ r >= latest[k].mod /\ FindValue(k, r) = latest[k]
         \/ r < latest[k].mod /\ UpTo(k, r) = {} /\ FindValue(k, r) = NoValue
         \/ /\ r < latest[k].mod
            /\ \E i \in UpTo(k, r) : /\ \A j \in UpTo(k, r) : j <= i
                                     /\ FindValue(k, r) = Get(revisions[k][i])
<1> DEFINE i == CHOOSE i \in UpTo(k, r) : \A j \in UpTo(k, r) : j <= i
<1>1. FindValue(k, r) = IF r >= latest[k].mod THEN latest[k]
                        ELSE IF UpTo(k, r) = {} THEN NoValue
                        ELSE Get(revisions[k][i])
  BY Zenon DEF FindValue, UpTo
<1>2. ASSUME UpTo(k, r) # {}
      PROVE  i \in UpTo(k, r) /\ \A j \in UpTo(k, r) : j <= i
  <2>1. Len(revisions[k]) \in Nat
    BY DEF TypeOK
  <2>2. UpTo(k, r) \in SUBSET Nat /\ \A j \in UpTo(k, r) : j <= Len(revisions[k])
    BY <2>1 DEF UpTo
  <2> QED
    BY <1>2, <2>1, <2>2, BoundedHasMax, Zenon
<1>3. latest[k].mod \in Nat
  BY Zenon DEF TypeOK, Value
<1> HIDE DEF i
<1> QED
  BY <1>1, <1>2, <1>3

\* What get() and find_value_for_revision return is a value.
LEMMA FindType ==
  ASSUME TypeOK, NEW k \in Keys, NEW r \in Nat
  PROVE  FindValue(k, r) \in Value
<1>1. latest[k] \in Value
  BY Zenon DEF TypeOK
<1>2. ASSUME NEW i \in UpTo(k, r)
      PROVE  Get(revisions[k][i]) \in Value
  <2>1. revisions[k][i] \in Revisions
    BY DEF UpTo, TypeOK
  <2> QED
    BY <2>1, NoValueFacts, Zenon DEF Get, TypeOK
<1> QED
  BY <1>1, <1>2, FindFacts, NoValueFacts, Zenon

\* The empty store has the types of TypeOK.
LEMMA TypeInit == ASSUME Init PROVE TypeOK
<1>1. Anything \in Requirements \cup {Anything} /\ NoOp \in Op \cup {NoOp}
  OBVIOUS
<1>2. 0 \in 0..MaxRev /\ 0 \in Keys \cup {0}
  BY StoreAssumption
<1>3. revisions \in [Keys -> Seq(Revisions)] /\ kvs \in [Rangers -> Seq(Keys \X Value)]
  BY DEF Init
<1> QED
  BY <1>1, <1>2, <1>3, NoValueFacts, Zenon DEF Init, TypeOK

\* The counters of the deque.
LEMMA Numbers ==
  ASSUME TypeOK
  PROVE  /\ rev \in Nat /\ rev <= MaxRev /\ MaxRev \in Nat
         /\ earliest \in Nat /\ earliest <= rev
<1>1. rev \in 0..MaxRev /\ earliest \in Nat /\ (earliest = 0 \/ earliest < rev)
  BY Zenon DEF TypeOK
<1> QED
  BY <1>1, StoreAssumption

\* Every step keeps the types: a revision fits the deque, what is found is a
\* value.
LEMMA TypeStep == ASSUME CoreInv, [Next]_vars PROVE TypeOK'
<1> USE StoreAssumption, NoValueFacts DEF deque, history, items, setterVars, rangerVars
<1>0. TypeOK
  BY DEF CoreInv
<1>0a. 0 \in Nat /\ \A r \in 0..MaxRev : r \in Nat
  OBVIOUS
<1>0b. ASSUME rev < MaxRev
       PROVE  /\ rev + 1 \in Revisions /\ rev + 1 \in 0..MaxRev /\ rev + 1 \in Nat
              /\ earliest = 0 \/ earliest < rev + 1
  BY <1>0, <1>0b, Numbers DEF Revisions
<1>1. ASSUME NEW t \in Setters, SetBegin(t)
      PROVE  TypeOK'
  <2>1. PICK o \in Op : op' = [op EXCEPT ![t] = o]
    BY <1>1, Zenon DEF SetBegin
  <2>2. op' \in [Setters -> Op \cup {NoOp}]
    BY <1>0, <2>1, Zenon DEF TypeOK
  <2> QED
    BY <1>0, <1>1, <2>2, Zenon DEF SetBegin, TypeOK
<1>2. ASSUME NEW t \in Setters, SetEntry(t)
      PROVE  TypeOK'
  <2>1. op[t].key \in Keys
    BY <1>2, OpFacts, Zenon DEF SetEntry
  <2> QED
    BY <1>0, <1>2, <2>1, Zenon DEF SetEntry, TypeOK
<1>3. ASSUME NEW t \in Setters, SetIndex(t)
      PROVE  TypeOK'
  <2>1. op[t].key \in Keys
    BY <1>3, OpFacts, Zenon DEF SetIndex
  <2> QED
    BY <1>0, <1>3, <2>1, Zenon DEF SetIndex, TypeOK
<1>4. ASSUME NEW t \in Setters, SetFail(t)
      PROVE  TypeOK'
  <2>1. op[t].key \in Keys
    BY <1>4, OpFacts, Zenon DEF SetFail
  <2> QED
    BY <1>0, <1>4, <2>1, Zenon DEF SetFail, TypeOK
<1>5. ASSUME NEW t \in Setters, SetFailed(t)
      PROVE  TypeOK'
  BY <1>0, <1>5, Zenon, SMT DEF SetFailed, TypeOK
<1>6. ASSUME NEW t \in Setters, SetPush(t)
      PROVE  TypeOK'
  <2>1. op[t] \in Op /\ op[t].key \in Keys /\ op[t].required \in Requirements \cup {Anything}
    BY <1>6, OpFacts, Zenon DEF SetPush, Op
  <2>2. revisions[op[t].key] \in Seq(Revisions) /\ earliest \in Nat
    BY <1>0, <2>1, Zenon DEF TypeOK
  <2>3. Drained(revisions[op[t].key]) \in Seq(Revisions)
    BY <2>1, <2>2, DrainedFacts, Zenon DEF CoreInv, ItemsOK, RevisionsOK
  <2>4. /\ rev + 1 \in Revisions /\ rev + 1 \in 0..MaxRev /\ rev + 1 \in Nat
        /\ earliest = 0 \/ earliest < rev + 1
    BY <1>0b, <1>6, Zenon DEF SetPush
  <2> QED
    BY <1>0, <1>6, <2>1, <2>3, <2>4, Zenon DEF SetPush, TypeOK
<1>7. ASSUME NEW t \in Setters, SetPublish(t)
      PROVE  TypeOK'
  <2>1. op[t] \in Op /\ op[t].key \in Keys /\ op[t].put \in BOOLEAN
    BY <1>7, OpFacts, Zenon DEF SetPublish
  <2>2. new_rev[t] \in Revisions /\ new_rev[t] \in Nat
    <3>1. new_rev[t] \in 1..rev
      BY <1>7, Zenon DEF SetPublish, CoreInv, ItemsOK, PendingOK
    <3> QED
      BY <1>0, <3>1, Numbers DEF Revisions
  <2> DEFINE v == NewValue(latest[op[t].key], op[t].put, new_rev[t])
  <2>3. latest[op[t].key] \in Value /\ v \in Value
    BY <1>0, <2>1, <2>2, NewValueFacts, Zenon DEF TypeOK
  <2>4. OldValue(t) \in Value
    BY <2>3, Zenon DEF OldValue
  <2>5. Append(revisions[op[t].key], new_rev[t]) \in Seq(Revisions)
    BY <1>0, <2>1, <2>2 DEF TypeOK
  <2> HIDE DEF v
  <2> QED
    BY <1>0, <1>7, <2>1, <2>2, <2>3, <2>4, <2>5, Zenon DEF SetPublish, TypeOK, v
<1>8. ASSUME NEW g \in Rangers, RangeStep(g)
      PROVE  TypeOK'
  <2>1. ASSUME NEW r \in 0..MaxRev, NEW n \in Limits, RangeBegin(g, r, n)
        PROVE  TypeOK'
    <3>1. r \in Nat /\ rev \in Nat /\ n \in Nat
      BY <1>0, Numbers
    <3>2. (IF r = 0 THEN rev ELSE r) \in Nat
      BY <3>1
    <3> QED
      BY <1>0, <2>1, <3>1, <3>2, Zenon DEF RangeBegin, TypeOK
  <2>2. CASE RangeOpen(g)
    BY <1>0, <2>2, Zenon DEF RangeOpen, TypeOK
  <2>3. CASE RangeRead(g)
    <3>1. PICK k \in Keys :
            /\ todo' = [todo EXCEPT ![g] = todo[g] \ {k}]
            /\ count' = [count EXCEPT ![g] = IF HasValue(k, at[g]) THEN count[g] + 1
                                                                  ELSE count[g]]
            /\ kvs' = [kvs EXCEPT ![g] =
                         IF HasValue(k, at[g]) /\ count[g] < limit[g]
                           THEN Append(kvs[g], <<k, FindValue(k, at[g])>>) ELSE kvs[g]]
      BY <2>3, Zenon DEF RangeRead
    <3>2. FindValue(k, at[g]) \in Value
      BY <1>0, FindType, Zenon DEF TypeOK
    <3>3. <<k, FindValue(k, at[g])>> \in Keys \X Value /\ kvs[g] \in Seq(Keys \X Value)
      BY <1>0, <3>2, Zenon DEF TypeOK
    <3>4. Append(kvs[g], <<k, FindValue(k, at[g])>>) \in Seq(Keys \X Value)
      BY <3>3
    <3>5. kvs' \in [Rangers -> Seq(Keys \X Value)]
      BY <1>0, <3>1, <3>4, Zenon DEF TypeOK
    <3>6. count' \in [Rangers -> Nat] /\ todo' \in [Rangers -> SUBSET Keys]
      <4>1. count \in [Rangers -> Nat] /\ todo \in [Rangers -> SUBSET Keys]
        BY <1>0, Zenon DEF TypeOK
      <4> QED
        BY <3>1, <4>1, SMT, Z3
    <3> QED
      BY <1>0, <2>3, <3>5, <3>6, Zenon DEF RangeRead, TypeOK
  <2>4. CASE RangePanic(g)
    BY <1>0, <2>4, Zenon DEF RangePanic, TypeOK
  <2>5. CASE RangeEnd(g)
    <3>1. <<>> \in Seq(Keys \X Value)
      OBVIOUS
    <3> QED
      BY <1>0, <1>0a, <2>5, <3>1, Zenon DEF RangeEnd, TypeOK
  <2> QED
    BY <1>8, <2>1, <2>2, <2>3, <2>4, <2>5 DEF RangeStep
<1>9. ASSUME NEW c \in Revisions, Compact(c)
      PROVE  TypeOK'
  <2>1. earliest' = c - 1 /\ 1 <= c /\ c <= rev
    BY <1>9, Zenon DEF Compact, IndexOf
  <2>2. c - 1 \in Nat /\ c - 1 < rev
    BY <1>0, <2>1, Numbers DEF Revisions
  <2> QED
    BY <1>0, <1>9, <2>1, <2>2, Zenon DEF Compact, TypeOK
<1>10. ASSUME NEW k \in Keys, NEW put \in BOOLEAN, ReplaySet(k, put)
       PROVE  TypeOK'
  <2> DEFINE v == NewValue(latest[k], put, rev + 1)
  <2>1. /\ rev + 1 \in Revisions /\ rev + 1 \in 0..MaxRev /\ rev + 1 \in Nat
        /\ earliest = 0 \/ earliest < rev + 1
    BY <1>0b, <1>10, Zenon DEF ReplaySet
  <2>2. latest[k] \in Value /\ v \in Value
    BY <1>0, <2>1, NewValueFacts, Zenon DEF TypeOK
  <2>3. Append(revisions[k], rev + 1) \in Seq(Revisions)
    BY <1>0, <2>1 DEF TypeOK
  <2> HIDE DEF v
  <2> QED
    BY <1>0, <1>10, <2>1, <2>2, <2>3, Zenon DEF ReplaySet, TypeOK, v
<1>11. CASE Serve
  BY <1>0, <1>11, Zenon DEF Serve, TypeOK
<1>12. CASE UNCHANGED vars
  BY <1>0, <1>12, Zenon DEF vars, TypeOK
<1> QED
  BY <1>1, <1>2, <1>3, <1>4, <1>5, <1>6, <1>7, <1>8, <1>9, <1>10, <1>11, <1>12, Zenon
  DEF Next, SetStep

-----------------------------------------------------------------------------
(* Locks and items.                                                        *)

\* The steps of range change nothing but the state of the scans.
LEMMA RangeStepFrame ==
  ASSUME NEW g \in Rangers, RangeStep(g)
  PROVE  UNCHANGED <<serving, deque, history, items, setterVars>>
  BY Zenon DEF RangeStep, RangeBegin, RangeOpen, RangeRead, RangePanic, RangeEnd

\* Only a setter that has pushed holds the lock of an item.
LEMMA LocksStep == ASSUME CoreInv, [Next]_vars PROVE LocksOK'
<1> USE StoreAssumption DEF deque, history, items, setterVars, rangerVars
<1>0. TypeOK /\ LocksOK /\ AloneOK
  BY DEF CoreInv
<1>0a. /\ lock \in [Keys -> Setters \cup {NoThread}] /\ op \in [Setters -> Op \cup {NoOp}]
       /\ spc \in [Setters -> {"idle", "entry", "index", "apply", "pushed", "failed"}]
  BY <1>0, Zenon DEF TypeOK
<1>1. ASSUME NEW t \in Setters,
             SetBegin(t) \/ SetEntry(t) \/ SetIndex(t) \/ SetFail(t) \/ SetFailed(t)
      PROVE  LocksOK'
  <2>1. /\ lock' = lock
        /\ spc[t] # "pushed" /\ spc'[t] # "pushed"
        /\ \A u \in Setters : u # t => spc'[u] = spc[u] /\ op'[u] = op[u]
    BY <1>0, <1>1, Zenon DEF SetBegin, SetEntry, SetIndex, SetFail, SetFailed, TypeOK
  <2>2. spc'[t] # "idle" => op'[t] \in Op
    <3>1. op'[t] \in Op \/ op' = op \/ spc'[t] = "idle"
      BY <1>0a, <1>1, Zenon DEF SetBegin, SetEntry, SetIndex, SetFail, SetFailed
    <3>2. spc[t] # "idle" \/ op'[t] \in Op
      BY <1>0a, <1>1, Zenon DEF SetBegin, SetEntry, SetIndex, SetFail, SetFailed
    <3> QED
      BY <1>0, <3>1, <3>2, Zenon DEF LocksOK
  <2> QED
    BY <1>0, <2>1, <2>2, Zenon DEF LocksOK
<1>2. ASSUME NEW t \in Setters, SetPush(t)
      PROVE  LocksOK'
  <2>1. /\ op[t].key \in Keys /\ lock[op[t].key] = NoThread /\ op' = op
        /\ lock' = [lock EXCEPT ![op[t].key] = t]
        /\ spc' = [spc EXCEPT ![t] = "pushed"]
        /\ spc[t] = "apply"
    BY <1>2, OpFacts, Zenon DEF SetPush, Unlocked
  <2>2. ASSUME NEW u \in Setters, spc'[u] = "pushed"
        PROVE  lock'[op'[u].key] = u
    BY <1>0, <1>0a, <2>1, <2>2 DEF LocksOK
  <2> QED
    BY <1>0, <1>0a, <2>1, <2>2 DEF LocksOK
<1>3. ASSUME NEW t \in Setters, SetPublish(t)
      PROVE  LocksOK'
  <2>1. /\ op[t].key \in Keys /\ lock[op[t].key] = t
        /\ op' = [op EXCEPT ![t] = NoOp]
        /\ lock' = [lock EXCEPT ![op[t].key] = NoThread]
        /\ spc' = [spc EXCEPT ![t] = "idle"]
    BY <1>0, <1>3, OpFacts, Zenon DEF SetPublish, LocksOK
  <2>2. ASSUME NEW u \in Setters, spc'[u] = "pushed"
        PROVE  lock'[op'[u].key] = u
    BY <1>0, <1>0a, <2>1, <2>2, SMT, Z3 DEF LocksOK, Op
  <2>3. ASSUME NEW k \in Keys, lock'[k] # NoThread
        PROVE  lock'[k] \in Setters /\ spc'[lock'[k]] = "pushed" /\ op'[lock'[k]].key = k
    BY <1>0, <1>0a, <2>1, <2>3 DEF LocksOK
  <2>4. \A u \in Setters : spc'[u] # "idle" => op'[u] \in Op
    BY <1>0, <1>0a, <2>1 DEF LocksOK
  <2> QED
    BY <2>2, <2>3, <2>4, Zenon DEF LocksOK
<1>4. ASSUME NEW g \in Rangers, RangeStep(g)
      PROVE  LocksOK'
  BY <1>0, <1>4, RangeStepFrame, Zenon DEF LocksOK
<1>5. ASSUME NEW c \in Revisions, Compact(c)
      PROVE  LocksOK'
  BY <1>0, <1>5, Zenon DEF LocksOK, Compact
<1>6. ASSUME NEW k \in Keys, NEW put \in BOOLEAN, ReplaySet(k, put)
      PROVE  LocksOK'
  BY <1>0, <1>6, Zenon, SMT DEF LocksOK, ReplaySet
<1>7. CASE Serve
  BY <1>0, <1>7, Zenon DEF LocksOK, Serve
<1>8. CASE UNCHANGED vars
  BY <1>0, <1>8, Zenon DEF LocksOK, vars
<1> QED
  BY <1>1, <1>2, <1>3, <1>4, <1>5, <1>6, <1>7, <1>8, Zenon DEF Next, SetStep

\* Nobody is let in before the replay is over.
LEMMA AloneStep == ASSUME CoreInv, [Next]_vars PROVE AloneOK'
<1> USE DEF deque, history, items, setterVars, rangerVars
<1>0. TypeOK /\ AloneOK
  BY DEF CoreInv
<1>1. ASSUME NEW t \in Setters, SetStep(t)
      PROVE  serving'
  <2>1. serving' = serving
    BY <1>1, Zenon, SMT
      DEF SetStep, SetBegin, SetEntry, SetIndex, SetFail, SetFailed, SetPush, SetPublish
  <2>2. serving \/ spc[t] # "idle"
    BY <1>1, Zenon
      DEF SetStep, SetBegin, SetEntry, SetIndex, SetFail, SetFailed, SetPush, SetPublish
  <2> QED
    BY <1>0, <2>1, <2>2, Zenon DEF AloneOK
<1>2. ASSUME NEW g \in Rangers, RangeStep(g)
      PROVE  serving'
  <2>1. serving' = serving
    BY <1>2, RangeStepFrame, Zenon, SMT
  <2>2. serving \/ rpc[g] # "idle"
    BY <1>2, Zenon DEF RangeStep, RangeBegin, RangeOpen, RangeRead, RangePanic, RangeEnd
  <2> QED
    BY <1>0, <2>1, <2>2, Zenon DEF AloneOK
<1>3. ASSUME NEW c \in Revisions, Compact(c)
      PROVE  AloneOK'
  BY <1>0, <1>3, Zenon DEF AloneOK, Compact
<1>4. ASSUME NEW k \in Keys, NEW put \in BOOLEAN, ReplaySet(k, put)
      PROVE  AloneOK'
  BY <1>0, <1>4, Zenon DEF AloneOK, ReplaySet
<1>5. CASE Serve
  BY <1>5 DEF AloneOK, Serve
<1>6. CASE UNCHANGED vars
  BY <1>0, <1>6, Zenon DEF AloneOK, vars
<1> QED
  BY <1>1, <1>2, <1>3, <1>4, <1>5, <1>6, Zenon DEF Next, AloneOK

\* A replay notes no requirement.
LEMMA RequiredStep == ASSUME CoreInv, [Next]_vars PROVE RequiredOK'
<1> USE DEF deque, history, items, setterVars, rangerVars
<1>0. TypeOK /\ RequiredOK
  BY DEF CoreInv
<1>1. ASSUME NEW t \in Setters, SetPush(t)
      PROVE  RequiredOK'
  <2>1. /\ required' = [required EXCEPT ![rev + 1] = op[t].required]
        /\ rev' = rev + 1
    BY <1>1, Zenon DEF SetPush
  <2>2. required \in [Revisions -> Requirements \cup {Anything}] /\ rev \in Nat
    BY <1>0, Numbers, Zenon DEF TypeOK
  <2> QED
    BY <1>0, <2>1, <2>2, SMT, Z3 DEF RequiredOK, Revisions
<1>2. ASSUME required' = required, rev' = rev \/ rev' = rev + 1
      PROVE  RequiredOK'
  BY <1>0, <1>2, Numbers DEF RequiredOK, Revisions
<1>3. ASSUME NEW t \in Setters,
             \/ SetBegin(t) \/ SetEntry(t) \/ SetIndex(t) \/ SetFail(t) \/ SetFailed(t)
             \/ SetPublish(t)
      PROVE  required' = required /\ rev' = rev
  BY <1>3, Zenon DEF SetBegin, SetEntry, SetIndex, SetFail, SetFailed, SetPublish
<1>4. ASSUME NEW g \in Rangers, RangeStep(g)
      PROVE  required' = required /\ rev' = rev
  BY <1>4, RangeStepFrame
<1>5. ASSUME NEW c \in Revisions, Compact(c)
      PROVE  required' = required /\ rev' = rev
  BY <1>5 DEF Compact
<1>6. ASSUME NEW k \in Keys, NEW put \in BOOLEAN, ReplaySet(k, put)
      PROVE  required' = required /\ rev' = rev + 1
  BY <1>6, Zenon DEF ReplaySet
<1>7. Serve \/ UNCHANGED vars => required' = required /\ rev' = rev
  BY Zenon DEF Serve, vars
<1> QED
  BY <1>1, <1>2, <1>3, <1>4, <1>5, <1>6, <1>7, Zenon DEF Next, SetStep

\* What is known of the numbers of an item.
LEMMA ItemFacts ==
  ASSUME CoreInv, NEW k \in Keys
  PROVE  /\ rev \in Nat /\ earliest \in Nat /\ rev <= MaxRev
         /\ latest[k] \in Value /\ latest[k].mod \in 0..rev
         /\ revisions[k] \in Seq(Revisions)
         /\ Len(revisions[k]) \in Nat
         /\ \A i \in 1..Len(revisions[k]) :
              revisions[k][i] \in 1..rev /\ revisions[k][i] <= latest[k].mod
         /\ LatestOK(k) /\ RevisionsOK(k)
<1>1. TypeOK /\ LatestOK(k) /\ RevisionsOK(k)
  BY DEF CoreInv, ItemsOK
<1>2. rev \in Nat /\ earliest \in Nat /\ latest[k] \in Value /\ rev <= MaxRev
  BY <1>1, StoreAssumption DEF TypeOK
<1>3. revisions[k] \in Seq(Revisions) /\ Len(revisions[k]) \in Nat
  BY <1>1, SMT, Z3 DEF TypeOK
<1>4. latest[k].mod \in 0..rev
  BY <1>1, <1>2 DEF LatestOK, Value
<1>5. ASSUME NEW i \in 1..Len(revisions[k])
      PROVE  revisions[k][i] \in 1..rev /\ revisions[k][i] <= latest[k].mod
  <2>1. revisions[k][i] \in Revisions
    BY <1>3, ElementOf
  <2>2. revisions[k][i] <= latest[k].mod
    BY <1>1, Zenon DEF RevisionsOK
  <2> QED
    BY <1>2, <1>4, <2>1, <2>2 DEF Revisions
<1> QED
  BY <1>1, <1>2, <1>3, <1>4, <1>5, Zenon

\* A step that writes nothing, and compacts at most.
LEMMA ItemsFrame ==
  ASSUME CoreInv, UNCHANGED <<rev, values, key, latest, revisions, lock, new_rev>>,
         earliest' \in Nat, earliest <= earliest',
         \A t \in Setters : spc'[t] = "pushed" => spc[t] = "pushed" /\ op'[t] = op[t]
  PROVE  ItemsOK'
<1>0. TypeOK /\ ItemsOK
  BY DEF CoreInv
<1>1. ASSUME NEW t \in Setters
      PROVE  PendingOK(t)'
  BY <1>0, Zenon DEF ItemsOK, PendingOK
<1>2. ASSUME NEW k \in Keys
      PROVE  LatestOK(k)'
  BY <1>0, Zenon DEF ItemsOK, LatestOK
<1>3. ASSUME NEW k \in Keys
      PROVE  RevisionsOK(k)'
  <2>1. earliest \in Nat /\ latest[k].mod \in Nat
    BY ItemFacts, SMT, Z3
  <2>2. \A e, f, m \in Nat : e <= f => \A r \in (f + 1)..m : r \in (e + 1)..m
    OBVIOUS
  <2> QED
    BY <1>0, <2>1, <2>2, Zenon DEF ItemsOK, RevisionsOK
<1> QED
  BY <1>1, <1>2, <1>3 DEF ItemsOK

-----------------------------------------------------------------------------
(* The items.                                                              *)

\* A push adds a revision of the key whose item it has locked.
LEMMA PushItems == ASSUME CoreInv, NEW t \in Setters, SetPush(t) PROVE ItemsOK'
<1> DEFINE k == op[t].key
<1>0. TypeOK /\ LocksOK /\ ItemsOK
  BY DEF CoreInv
<1>1. /\ k \in Keys /\ lock[k] = NoThread /\ spc[t] = "apply" /\ rev < MaxRev
      /\ op' = op /\ latest' = latest /\ earliest' = earliest /\ rev' = rev + 1
      /\ lock' = [lock EXCEPT ![k] = t]
      /\ revisions' = [revisions EXCEPT ![k] = Drained(revisions[k])]
      /\ values' = [values EXCEPT ![rev + 1] = Placeholder]
      /\ key' = [key EXCEPT ![rev + 1] = k]
      /\ new_rev' = [new_rev EXCEPT ![t] = rev + 1]
      /\ spc' = [spc EXCEPT ![t] = "pushed"]
  BY OpFacts, Zenon DEF SetPush, Unlocked
<1> HIDE DEF k
<1>2. /\ rev \in Nat
      /\ \A r \in 1..rev : key'[r] = key[r] /\ values'[r] = values[r]
      /\ key'[rev + 1] = k /\ new_rev'[t] = rev + 1
      /\ \A u \in Setters : u # t => spc'[u] = spc[u] /\ new_rev'[u] = new_rev[u]
      /\ \A j \in Keys : j # k => lock'[j] = lock[j] /\ revisions'[j] = revisions[j]
      /\ lock'[k] = t /\ revisions'[k] = Drained(revisions[k])
  <2>1. rev \in Nat /\ rev + 1 \in Revisions /\ \A r \in 1..rev : r \in Revisions /\ r # rev + 1
    BY <1>0, <1>1, Numbers DEF Revisions
  <2>2. /\ \A r \in 1..rev : key'[r] = key[r] /\ values'[r] = values[r]
        /\ key'[rev + 1] = k
    BY <1>0, <1>1, <2>1, Zenon DEF TypeOK
  <2>3. /\ new_rev'[t] = rev + 1
        /\ \A u \in Setters : u # t => spc'[u] = spc[u] /\ new_rev'[u] = new_rev[u]
    BY <1>0, <1>1, Zenon DEF TypeOK
  <2>4. /\ \A j \in Keys : j # k => lock'[j] = lock[j] /\ revisions'[j] = revisions[j]
        /\ lock'[k] = t /\ revisions'[k] = Drained(revisions[k])
    BY <1>0, <1>1, Zenon DEF TypeOK
  <2> QED
    BY <2>1, <2>2, <2>3, <2>4, Zenon
<1>3. ASSUME NEW u \in Setters
      PROVE  PendingOK(u)'
  <2>1. CASE u = t
    <3>1. latest[k].mod \in 0..rev
      BY <1>1, ItemFacts, Zenon
    <3>2. op[t].put \/ latest[k].live
      BY Zenon DEF SetPush, Allowed, Permits, k
    <3> QED
      BY <1>1, <1>2, <2>1, <3>1, <3>2 DEF PendingOK, k
  <2>2. CASE u # t
    BY <1>0, <1>1, <1>2, <2>2 DEF ItemsOK, PendingOK
  <2> QED
    BY <2>1, <2>2
<1>4. ASSUME NEW j \in Keys
      PROVE  LatestOK(j)'
  <2>1. latest[j].mod \in 0..rev /\ LatestOK(j)
    BY ItemFacts
  <2>2. ASSUME NEW r \in (latest[j].mod + 1)..rev', key'[r] = j
        PROVE  lock'[j] # NoThread /\ r = new_rev'[lock'[j]]
    <3>1. CASE r = rev + 1
      BY <1>1, <1>2, <2>2, <3>1, StoreAssumption
    <3>2. CASE r # rev + 1
      <4>1. r \in (latest[j].mod + 1)..rev /\ r \in 1..rev
        BY <1>1, <1>2, <2>1, <2>2, <3>2
      <4>2. lock[j] # NoThread /\ r = new_rev[lock[j]]
        BY <1>2, <2>1, <2>2, <4>1, Zenon DEF LatestOK
      <4>3. j # k /\ lock[j] \in Setters /\ lock[j] # t
        BY <1>0, <1>1, <4>2, Zenon DEF LocksOK
      <4> QED
        BY <1>2, <4>2, <4>3
    <3> QED
      BY <3>1, <3>2
  <2>3. latest[j].mod > 0 => key'[latest[j].mod] = j /\ values'[latest[j].mod] = latest[j]
    BY <1>2, <2>1 DEF LatestOK
  <2> QED
    BY <1>1, <1>2, <2>1, <2>2, <2>3 DEF LatestOK
<1>5. ASSUME NEW j \in Keys
      PROVE  RevisionsOK(j)'
  <2>1. /\ earliest \in Nat /\ latest[j].mod \in 0..rev
        /\ revisions[j] \in Seq(Revisions)
        /\ \A i \in 1..Len(revisions[j]) :
             revisions[j][i] \in 1..rev /\ revisions[j][i] <= latest[j].mod
        /\ RevisionsOK(j)
    BY ItemFacts, Zenon
  <2> DEFINE s == revisions[j]
             d == revisions'[j]
  <2>2. /\ \A a, b \in 1..Len(d) : a < b => d[a] < d[b]
        /\ \A a \in 1..Len(d) : \E b \in 1..Len(s) : d[a] = s[b]
        /\ \A b \in 1..Len(s) : s[b] >= earliest => \E a \in 1..Len(d) : d[a] = s[b]
    <3>1. CASE j = k
      <4>1. \A a, b \in 1..Len(s) : a < b => s[a] < s[b]
        BY <2>1, Zenon DEF RevisionsOK
      <4>2. d = Drained(s) /\ s \in Seq(Revisions)
        BY <1>2, <2>1, <3>1, Zenon
      <4> HIDE DEF d, s
      <4> QED
        BY <2>1, <4>1, <4>2, DrainedFacts, Zenon
    <3>2. CASE j # k
      <4>1. d = s
        BY <1>2, <3>2
      <4>2. \A a, b \in 1..Len(s) : a < b => s[a] < s[b]
        BY <2>1, Zenon DEF RevisionsOK
      <4> HIDE DEF d, s
      <4> QED
        BY <4>1, <4>2
    <3> QED
      BY <3>1, <3>2, Zenon
  <2> HIDE DEF s, d
  <2>3. ASSUME NEW a \in 1..Len(d)
        PROVE  key'[d[a]] = j /\ d[a] <= latest[j].mod
    <3>1. PICK b \in 1..Len(s) : d[a] = s[b]
      BY <2>2
    <3>2. s[b] \in 1..rev /\ s[b] <= latest[j].mod /\ key[s[b]] = j
      BY <2>1, Zenon DEF RevisionsOK, s
    <3> QED
      BY <1>2, <3>1, <3>2
  <2>4. ASSUME NEW r \in (earliest + 1)..latest[j].mod, key'[r] = j
        PROVE  \E a \in 1..Len(d) : d[a] = r
    <3>1. r \in 1..rev /\ key[r] = j /\ r >= earliest
      BY <1>2, <2>1, <2>4
    <3>2. PICK b \in 1..Len(s) : s[b] = r
      BY <2>1, <3>1, Zenon DEF RevisionsOK, s
    <3> QED
      BY <2>2, <3>1, <3>2
  <2> QED
    BY <1>1, <2>2, <2>3, <2>4, Zenon DEF RevisionsOK, d
<1> QED
  BY <1>3, <1>4, <1>5 DEF ItemsOK

\* latest_value gets a value of the newest revision of its key, n, which is put
\* at the end of the item's revisions.
LEMMA NewestItems ==
  ASSUME CoreInv, NEW k \in Keys, NEW n \in 1..rev', NEW v \in Value,
         rev' \in Nat, rev <= rev', earliest' = earliest,
         n > latest[k].mod, v.mod = n, key'[n] = k, values'[n] = v,
         \A r \in 1..rev' : r # n => key'[r] = key[r] /\ values'[r] = values[r],
         \A r \in (latest[k].mod + 1)..rev' : key'[r] = k => r = n,
         latest'[k] = v, revisions'[k] = Append(revisions[k], n),
         \A j \in Keys : j # k => latest'[j] = latest[j] /\ revisions'[j] = revisions[j],
         key[n] = k \/ n > rev, n \in Revisions
  PROVE  /\ LatestOK(k)' /\ RevisionsOK(k)'
         /\ \A j \in Keys : j # k => RevisionsOK(j)'
         /\ \A j \in Keys : j # k /\ latest[j].mod > 0 =>
              key'[latest[j].mod] = j /\ values'[latest[j].mod] = latest[j]
<1>1. latest[k].mod \in 0..rev /\ rev \in Nat /\ earliest \in Nat
  BY ItemFacts, Zenon
<1>2. ASSUME NEW j \in Keys, NEW r \in 1..rev, key[r] = j, r <= latest[j].mod
      PROVE  r \in 1..rev' /\ r # n
  <2>1. latest[j].mod \in 0..rev /\ rev \in Nat
    BY ItemFacts, Zenon
  <2> QED
    BY <1>2, <2>1
<1>3. LatestOK(k)'
  <2>1. \A r \in (n + 1)..rev' : key'[r] # k
    <3> SUFFICES ASSUME NEW r \in (n + 1)..rev', key'[r] = k
                 PROVE  FALSE
      BY Zenon
    <3>1. r \in (latest[k].mod + 1)..rev'
      BY <1>1
    <3> QED
      BY <3>1
  <2> QED
    BY <2>1 DEF LatestOK
<1>4. ASSUME NEW j \in Keys, j # k, latest[j].mod > 0
      PROVE  key'[latest[j].mod] = j /\ values'[latest[j].mod] = latest[j]
  <2>1. latest[j].mod \in 1..rev /\ LatestOK(j) /\ rev \in Nat
    BY <1>4, ItemFacts
  <2>2. key[latest[j].mod] = j /\ values[latest[j].mod] = latest[j]
    BY <1>4, <2>1, Zenon DEF LatestOK
  <2>3. latest[j].mod \in 1..rev' /\ latest[j].mod # n
    BY <1>2, <2>1, <2>2
  <2> QED
    BY <2>2, <2>3, Zenon
<1>5. ASSUME NEW j \in Keys, j # k
      PROVE  RevisionsOK(j)'
  <2>1. /\ latest[j].mod \in 0..rev /\ rev \in Nat /\ earliest \in Nat
        /\ \A i \in 1..Len(revisions[j]) :
             revisions[j][i] \in 1..rev /\ revisions[j][i] <= latest[j].mod
        /\ RevisionsOK(j)
    BY ItemFacts, Zenon
  <2>2. ASSUME NEW i \in 1..Len(revisions[j])
        PROVE  key'[revisions[j][i]] = j
    <3>1. key[revisions[j][i]] = j
      BY <2>1, Zenon DEF RevisionsOK
    <3>2. revisions[j][i] \in 1..rev' /\ revisions[j][i] # n
      BY <1>2, <2>1, <3>1, Zenon
    <3> QED
      BY <3>1, <3>2, Zenon
  <2>3. ASSUME NEW r \in (earliest + 1)..latest[j].mod, key'[r] = j
        PROVE  key[r] = j
    <3>1. r \in 1..rev'
      BY <2>1
    <3> QED
      BY <1>5, <2>3, <3>1, Zenon
  <2>4. latest'[j] = latest[j] /\ revisions'[j] = revisions[j]
    BY <1>5, Zenon
  <2>5. \A i \in 1..Len(revisions[j]) :
          key'[revisions[j][i]] = j /\ revisions[j][i] <= latest[j].mod
    BY <2>1, <2>2, Zenon
  <2>6. \A r \in (earliest + 1)..latest[j].mod :
          key'[r] = j => \E i \in 1..Len(revisions[j]) : revisions[j][i] = r
    BY <2>1, <2>3, Zenon DEF RevisionsOK
  <2>7. \A i, m \in 1..Len(revisions[j]) : i < m => revisions[j][i] < revisions[j][m]
    BY <2>1, Zenon DEF RevisionsOK
  <2> QED
    BY <2>1, <2>4, <2>5, <2>6, <2>7 DEF RevisionsOK
<1>6. RevisionsOK(k)'
  <2> DEFINE s == revisions[k]
             d == revisions'[k]
  <2>1. /\ latest[k].mod \in 0..rev /\ rev \in Nat /\ earliest \in Nat
        /\ \A i \in 1..Len(s) : s[i] \in 1..rev /\ s[i] <= latest[k].mod /\ key[s[i]] = k
        /\ s \in Seq(Revisions) /\ Len(s) \in Nat
        /\ \A i, j \in 1..Len(s) : i < j => s[i] < s[j]
        /\ \A r \in (earliest + 1)..latest[k].mod : key[r] = k => \E i \in 1..Len(s) : s[i] = r
    <3>1. /\ latest[k].mod \in 0..rev /\ rev \in Nat /\ earliest \in Nat
          /\ \A i \in 1..Len(s) : s[i] \in 1..rev /\ s[i] <= latest[k].mod
          /\ s \in Seq(Revisions) /\ RevisionsOK(k)
      BY ItemFacts, Zenon
    <3>2. Len(s) \in Nat
      BY <3>1
    <3> QED
      BY <3>1, <3>2, Zenon DEF RevisionsOK
  <2>2. d = Append(s, n)
    BY Zenon
  <2> HIDE DEF s, d
  <2>3. /\ Len(d) = Len(s) + 1 /\ d[Len(s) + 1] = n
        /\ \A i \in 1..Len(s) : d[i] = s[i]
    BY <2>1, <2>2
  <2>4. ASSUME NEW i \in 1..Len(d), NEW j \in 1..Len(d), i < j
        PROVE  d[i] < d[j]
    <3>1. i \in 1..Len(s) /\ d[i] = s[i] /\ s[i] \in 1..rev
      BY <2>1, <2>3, <2>4
    <3>2. CASE j = Len(s) + 1
      <4>1. d[i] <= latest[k].mod /\ d[i] \in Nat /\ d[j] = n
        BY <2>1, <2>3, <3>1, <3>2
      <4> QED
        BY <1>1, <4>1
    <3>3. CASE j # Len(s) + 1
      <4>1. j \in 1..Len(s) /\ d[j] = s[j]
        BY <2>1, <2>3, <3>3
      <4> QED
        BY <2>1, <2>4, <3>1, <4>1, Zenon
    <3> QED
      BY <3>2, <3>3, Zenon
  <2>5. ASSUME NEW i \in 1..Len(d)
        PROVE  key'[d[i]] = k /\ d[i] <= n
    <3>1. CASE i = Len(s) + 1
      BY <2>3, <3>1
    <3>2. CASE i # Len(s) + 1
      <4>1. i \in 1..Len(s) /\ d[i] = s[i]
        BY <2>1, <2>3, <3>2
      <4>2. d[i] \in 1..rev' /\ d[i] < n /\ key[d[i]] = k
        BY <2>1, <4>1
      <4> QED
        BY <4>2
    <3> QED
      BY <3>1, <3>2, Zenon
  <2>6. ASSUME NEW r \in (earliest + 1)..n, key'[r] = k
        PROVE  \E i \in 1..Len(d) : d[i] = r
    <3>1. CASE r = n
      <4>1. Len(s) + 1 \in 1..Len(d)
        BY <2>1, <2>3
      <4> QED
        BY <2>3, <3>1, <4>1, Zenon
    <3>2. CASE r # n
      <4>1. r \in 1..rev'
        BY <2>1
      <4>2. r <= latest[k].mod /\ key[r] = k
        BY <2>1, <2>6, <3>2, <4>1
      <4>3. PICK i \in 1..Len(s) : s[i] = r
        BY <2>1, <4>2, SMT, Z3
      <4> QED
        BY <2>1, <2>3, <4>3
    <3> QED
      BY <3>1, <3>2, Zenon
  <2>7. latest'[k].mod = n
    BY Zenon
  <2> QED
    BY <2>4, <2>5, <2>6, <2>7, Zenon DEF RevisionsOK, d
<1> QED
  BY <1>3, <1>4, <1>5, <1>6, Zenon

\* What a setter that has pushed knows.
LEMMA PushedFacts ==
  ASSUME CoreInv, NEW t \in Setters, spc[t] = "pushed"
  PROVE  /\ op[t] \in Op /\ op[t].key \in Keys /\ op[t].put \in BOOLEAN
         /\ lock[op[t].key] = t
         /\ new_rev[t] \in 1..rev /\ new_rev[t] \in Revisions
         /\ new_rev[t] > latest[op[t].key].mod
         /\ op[t].put \/ latest[op[t].key].live
         /\ key[new_rev[t]] = op[t].key
         /\ \A r \in (latest[op[t].key].mod + 1)..rev :
              key[r] = op[t].key => r = new_rev[t]
<1>1. op[t] \in Op /\ op[t].key \in Keys /\ op[t].put \in BOOLEAN
  BY OpFacts
<1>2. lock[op[t].key] = t /\ PendingOK(t)
  BY <1>1, Zenon DEF CoreInv, LocksOK, ItemsOK
<1>3. LatestOK(op[t].key) /\ rev \in Nat /\ rev <= MaxRev
  BY <1>1, ItemFacts, Zenon
<1>4. new_rev[t] \in Revisions
  BY <1>2, <1>3, StoreAssumption DEF PendingOK, Revisions
<1> QED
  BY <1>1, <1>2, <1>3, <1>4, Zenon DEF PendingOK, LatestOK

\* A publication makes the revision that was pushed the latest_value.
LEMMA PublishItems == ASSUME CoreInv, NEW t \in Setters, SetPublish(t) PROVE ItemsOK'
<1>0. TypeOK /\ LocksOK /\ ItemsOK /\ spc[t] = "pushed"
  BY Zenon DEF CoreInv, SetPublish
<1>1. PICK k \in Keys, n \in Revisions, v \in Value :
        /\ k = op[t].key /\ n = new_rev[t] /\ v = NewValue(latest[k], op[t].put, n)
        /\ v.mod = n
  <2>1. op[t].key \in Keys /\ new_rev[t] \in Revisions /\ op[t].put \in BOOLEAN
    BY <1>0, PushedFacts, Zenon
  <2>2. latest[op[t].key] \in Value /\ new_rev[t] \in Nat
    BY <2>1, ItemFacts, RevisionsNat, Zenon
  <2> QED
    BY <2>1, <2>2, NewValueFacts
<1>2. /\ lock[k] = t /\ n \in 1..rev /\ n > latest[k].mod /\ key[n] = k
      /\ \A r \in (latest[k].mod + 1)..rev : key[r] = k => r = n
  BY <1>0, <1>1, PushedFacts
<1>3. rev \in Nat
  BY <1>1, ItemFacts, Zenon
<1>4. /\ rev' = rev /\ earliest' = earliest /\ key' = key
      /\ latest' = [latest EXCEPT ![k] = v]
      /\ values' = [values EXCEPT ![n] = v]
      /\ revisions' = [revisions EXCEPT ![k] = Append(revisions[k], n)]
      /\ lock' = [lock EXCEPT ![k] = NoThread]
      /\ spc' = [spc EXCEPT ![t] = "idle"]
      /\ op' = [op EXCEPT ![t] = NoOp]
      /\ new_rev' = [new_rev EXCEPT ![t] = 0]
  BY <1>1, Zenon DEF SetPublish
<1>5. /\ latest'[k] = v /\ revisions'[k] = Append(revisions[k], n)
      /\ \A j \in Keys : j # k => latest'[j] = latest[j] /\ revisions'[j] = revisions[j]
      /\ lock'[k] = NoThread
      /\ \A j \in Keys : j # k => lock'[j] = lock[j]
      /\ values'[n] = v
      /\ \A r \in Revisions : r # n => values'[r] = values[r]
      /\ \A u \in Setters : u # t => spc'[u] = spc[u] /\ op'[u] = op[u] /\ new_rev'[u] = new_rev[u]
      /\ spc'[t] = "idle"
  BY <1>0, <1>4, Zenon DEF TypeOK
<1>6. \A r \in 1..rev : r \in Revisions
  BY <1>0, Numbers DEF Revisions
<1>7. /\ LatestOK(k)' /\ RevisionsOK(k)'
      /\ \A j \in Keys : j # k => RevisionsOK(j)'
      /\ \A j \in Keys : j # k /\ latest[j].mod > 0 =>
           key'[latest[j].mod] = j /\ values'[latest[j].mod] = latest[j]
  <2>1. rev' \in Nat /\ rev <= rev' /\ n \in 1..rev'
    BY <1>2, <1>3, <1>4
  <2>2. key'[n] = k /\ \A r \in 1..rev' : r # n => key'[r] = key[r] /\ values'[r] = values[r]
    BY <1>2, <1>4, <1>5, <1>6, Zenon
  <2>3. \A r \in (latest[k].mod + 1)..rev' : key'[r] = k => r = n
    BY <1>2, <1>4, Zenon
  <2>4. earliest' = earliest /\ v.mod = n
    BY <1>1, <1>4, Zenon
  <2>5. /\ values'[n] = v /\ latest'[k] = v /\ revisions'[k] = Append(revisions[k], n)
        /\ \A j \in Keys : j # k => latest'[j] = latest[j] /\ revisions'[j] = revisions[j]
    BY <1>5, Zenon
  <2> QED
    BY <1>2, <2>1, <2>2, <2>3, <2>4, <2>5, NewestItems, Zenon
<1>8. ASSUME NEW u \in Setters
      PROVE  PendingOK(u)'
  <2> SUFFICES ASSUME spc'[u] = "pushed"
               PROVE  PendingOK(u)'
    BY Zenon DEF PendingOK
  <2>1. u # t /\ spc[u] = "pushed" /\ op'[u] = op[u] /\ new_rev'[u] = new_rev[u]
    BY <1>5, Zenon, SMT
  <2>2. op[u].key \in Keys /\ op[u].key # k
    BY <1>2, <2>1, PushedFacts, Zenon
  <2>3. PendingOK(u) /\ latest'[op[u].key] = latest[op[u].key]
    BY <1>0, <1>5, <2>2, Zenon DEF ItemsOK
  <2> QED
    BY <1>4, <2>1, <2>3, Zenon DEF PendingOK
<1>9. ASSUME NEW j \in Keys, j # k
      PROVE  LatestOK(j)'
  <2>1. LatestOK(j) /\ latest'[j] = latest[j] /\ lock'[j] = lock[j]
    BY <1>5, <1>9, ItemFacts, Zenon
  <2>2. lock[j] # NoThread => lock[j] \in Setters /\ lock[j] # t
    BY <1>0, <1>1, <1>9, Zenon DEF LocksOK
  <2>3. lock[j] # NoThread => new_rev'[lock'[j]] = new_rev[lock[j]]
    BY <1>5, <2>1, <2>2, Zenon
  <2>4. latest[j].mod > 0 => key'[latest[j].mod] = j /\ values'[latest[j].mod] = latest[j]
    BY <1>7, <1>9, Zenon
  <2> QED
    BY <1>4, <2>1, <2>3, <2>4, Zenon DEF LatestOK
<1> QED
  BY <1>7, <1>8, <1>9 DEF ItemsOK

\* So does the replay of a record, which nobody else is there to see.
LEMMA ReplayItems ==
  ASSUME CoreInv, NEW k \in Keys, NEW put \in BOOLEAN, ReplaySet(k, put)
  PROVE  ItemsOK'
<1>0. TypeOK /\ LocksOK /\ ItemsOK /\ \A t \in Setters : spc[t] = "idle"
  BY Zenon DEF CoreInv, AloneOK, ReplaySet
<1>1. latest[k] \in Value /\ rev \in Nat /\ latest[k].mod \in 0..rev /\ LatestOK(k)
  BY ItemFacts, Zenon
<1>2. PICK n \in Nat, v \in Value :
        n = rev + 1 /\ v = NewValue(latest[k], put, n) /\ v.mod = n
  BY <1>1, NewValueFacts
<1>3. /\ rev' = n /\ earliest' = earliest /\ rev < MaxRev
      /\ key' = [key EXCEPT ![n] = k]
      /\ latest' = [latest EXCEPT ![k] = v]
      /\ values' = [values EXCEPT ![n] = v]
      /\ revisions' = [revisions EXCEPT ![k] = Append(revisions[k], n)]
      /\ lock' = lock /\ spc' = spc
  BY <1>2, Zenon DEF ReplaySet, setterVars
<1>4. \A j \in Keys : lock[j] = NoThread
  BY <1>0 DEF LocksOK
<1>5. n \in Revisions /\ n \in Nat /\ n = rev + 1 /\ \A r \in 1..rev : r \in Revisions /\ r # n
  BY <1>3, <1>1, <1>2, StoreAssumption DEF Revisions
<1>6. /\ latest'[k] = v /\ revisions'[k] = Append(revisions[k], n)
      /\ \A j \in Keys : j # k => latest'[j] = latest[j] /\ revisions'[j] = revisions[j]
      /\ values'[n] = v /\ key'[n] = k
      /\ \A r \in 1..rev : key'[r] = key[r] /\ values'[r] = values[r]
  BY <1>0, <1>3, <1>5, Zenon DEF TypeOK
<1>7. \A j \in Keys : \A r \in (latest[j].mod + 1)..rev : key[r] # j
  BY <1>0, <1>4, Zenon DEF ItemsOK, LatestOK
<1>8. /\ LatestOK(k)' /\ RevisionsOK(k)'
      /\ \A j \in Keys : j # k => RevisionsOK(j)'
      /\ \A j \in Keys : j # k /\ latest[j].mod > 0 =>
           key'[latest[j].mod] = j /\ values'[latest[j].mod] = latest[j]
  <2>1. rev' \in Nat /\ rev <= rev' /\ n \in 1..rev' /\ n > latest[k].mod /\ n > rev
    BY <1>3, <1>1, <1>5
  <2>2. ASSUME NEW r \in 1..rev', r # n
        PROVE  r \in 1..rev
    BY <1>3, <1>1, <1>5, <2>2, SMT, Z3
  <2>3. \A r \in 1..rev' : r # n => key'[r] = key[r] /\ values'[r] = values[r]
    BY <1>6, <2>2, Zenon
  <2>4. ASSUME NEW r \in (latest[k].mod + 1)..rev', key'[r] = k
        PROVE  r = n
    <3>1. r \in 1..rev'
      BY <1>1, SMT, Z3
    <3>2. r # n => r \in (latest[k].mod + 1)..rev /\ key[r] = k
      BY <1>1, <1>6, <2>2, <2>4, <3>1
    <3> QED
      BY <1>7, <3>2
  <2> QED
    BY <1>3, <1>2, <1>5, <1>6, <2>1, <2>3, <2>4, NewestItems
<1>9. ASSUME NEW j \in Keys, j # k
      PROVE  LatestOK(j)'
  <2>1. LatestOK(j) /\ latest'[j] = latest[j] /\ latest[j].mod \in 0..rev
    BY <1>6, <1>9, ItemFacts, Zenon
  <2>2. ASSUME NEW r \in (latest[j].mod + 1)..rev'
        PROVE  key'[r] # j
    <3>1. r = n \/ r \in (latest[j].mod + 1)..rev
      BY <1>3, <1>1, <1>5, <2>1
    <3>2. CASE r = n
      BY <1>6, <1>9, <3>2, Zenon
    <3>3. CASE r \in (latest[j].mod + 1)..rev
      <4>1. r \in 1..rev
        BY <2>1, <3>3
      <4> QED
        BY <1>6, <1>7, <3>3, <4>1, Zenon
    <3> QED
      BY <3>1, <3>2, <3>3
  <2>3. latest[j].mod <= rev'
    BY <1>3, <1>1, <1>5, <2>1
  <2> QED
    BY <1>8, <1>9, <2>1, <2>2, <2>3, Zenon, SMT DEF LatestOK
<1>10. \A t \in Setters : PendingOK(t)'
  BY <1>0, <1>3, Zenon DEF PendingOK
<1> QED
  BY <1>8, <1>9, <1>10 DEF ItemsOK

\* Together: every step keeps CoreInv.
LEMMA CoreStep == ASSUME CoreInv, [Next]_vars PROVE CoreInv'
<1> USE DEF deque, history, items, setterVars, rangerVars
<1> SUFFICES ItemsOK'
  BY TypeStep, LocksStep, AloneStep, RequiredStep DEF CoreInv
<1>0. TypeOK /\ earliest \in Nat
  BY Zenon DEF CoreInv, TypeOK
<1>1. ASSUME NEW t \in Setters,
             SetBegin(t) \/ SetEntry(t) \/ SetIndex(t) \/ SetFail(t) \/ SetFailed(t)
      PROVE  ItemsOK'
  <2>1. /\ UNCHANGED <<rev, earliest, values, key, latest, revisions, lock, new_rev>>
        /\ spc'[t] # "pushed"
        /\ \A u \in Setters : u # t => spc'[u] = spc[u] /\ op'[u] = op[u]
    BY <1>0, <1>1, Zenon DEF SetBegin, SetEntry, SetIndex, SetFail, SetFailed, TypeOK
  <2> QED
    BY <1>0, <2>1, ItemsFrame, SMT, Z3
<1>2. ASSUME NEW g \in Rangers, RangeStep(g)
      PROVE  ItemsOK'
  <2>1. /\ UNCHANGED <<rev, earliest, values, key, latest, revisions, lock, new_rev>>
        /\ spc' = spc /\ op' = op
    BY <1>2, RangeStepFrame
  <2> QED
    BY <1>0, <2>1, ItemsFrame
<1>3. ASSUME NEW c \in Revisions, Compact(c)
      PROVE  ItemsOK'
  <2>1. c - 1 \in Nat
    BY DEF Revisions
  <2> QED
    BY <1>0, <1>3, <2>1, ItemsFrame, Zenon DEF Compact, IndexOf
<1>4. CASE Serve \/ UNCHANGED vars
  <2>1. /\ UNCHANGED <<rev, earliest, values, key, latest, revisions, lock, new_rev>>
        /\ spc' = spc /\ op' = op
    BY <1>4, Zenon DEF Serve, vars
  <2> QED
    BY <1>0, <2>1, ItemsFrame
<1>5. ASSUME NEW t \in Setters, SetPush(t) \/ SetPublish(t)
      PROVE  ItemsOK'
  BY <1>5, PushItems, PublishItems
<1>6. CASE \E t \in Setters : SetStep(t)
  BY <1>1, <1>5, <1>6 DEF SetStep
<1>7. CASE \E k \in Keys, put \in BOOLEAN : ReplaySet(k, put)
  BY <1>7, ReplayItems
<1> QED
  BY <1>2, <1>3, <1>4, <1>6, <1>7 DEF Next

\* The empty store fits together.
LEMMA CoreInit == ASSUME Init PROVE CoreInv
<1>1. TypeOK
  BY TypeInit
<1>2. LocksOK /\ AloneOK /\ RequiredOK
  BY StoreAssumption, Zenon DEF Init, LocksOK, AloneOK, RequiredOK
<1>3. \A t \in Setters : PendingOK(t)
  BY Zenon DEF Init, PendingOK
<1>4. ASSUME NEW k \in Keys
      PROVE  LatestOK(k) /\ RevisionsOK(k)
  <2>1. latest[k] = NoValue /\ NoValue.mod = 0 /\ revisions[k] = <<>> /\ rev = 0 /\ earliest = 0
    BY NoValueFacts, Zenon DEF Init
  <2> QED
    BY <2>1 DEF LatestOK, RevisionsOK
<1> QED
  BY <1>1, <1>2, <1>3, <1>4 DEF CoreInv, ItemsOK

=============================================================================
