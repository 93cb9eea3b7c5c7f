------------------------- MODULE StateMachineProofs --------------------------
(***************************************************************************)
(* Proofs about StateMachine, for every number of nodes, keys, entries,    *)
(* snapshots and restarts.                                                 *)
(***************************************************************************)
EXTENDS StateMachine, WellFoundedInduction, TLAPS

-----------------------------------------------------------------------------
(* The inductive invariant.                                                *)

\* The revisions of the keys of a store are not above its own.
Bounded(s) == \A k \in Keys : s.items[k].value.mod <= s.rev

\* states is what a single store goes through.
LogOK ==
  /\ states[1] = Fresh
  /\ \A i \in 1..Len(states) : Bounded(states[i])
  /\ \A i \in 1..Len(chosen) : states[i + 1] = ApplyTo(states[i], chosen[i], i)

\* A snapshot is what its export made of the single store, whose states are
\* ss, as far as it is clean, and its revisions too, as far as it is exact.
Faithful(s, ss) ==
  /\ s.last + 1 \in 1..Len(ss)
  /\ MaxModRev(s.kvs) \in Nat
  /\ \A k \in Keys : s.kvs[k].value.mod <= MaxModRev(s.kvs)
  /\ \A k \in Keys : ~s.kvs[k].value.live => s.kvs[k] = NoItem
  /\ s.clean => Contents(s.kvs) = Contents(ss[s.last + 1].items)
  /\ s.exact => /\ s.kvs = Export(ss[s.last + 1])
                /\ MaxModRev(s.kvs) = ss[s.last + 1].rev

\* A store s holds what the single store holds in its state t.
SameContents(s, t) == Contents(s.items) = Contents(t.items)

\* ... with the same revisions.
SameRevisions(s, t) == s.rev = t.rev /\ Export(s) = Export(t)

\* A store is the single store at last_applied, with the same exceptions, or
\* is being filled from the snapshot in hand.
StoreOK(n) ==
  /\ Bounded(store[n])
  /\ Idle(n) /\ clean[n] => SameContents(store[n], states[last_applied[n] + 1])
  /\ Idle(n) /\ exact[n] => SameRevisions(store[n], states[last_applied[n] + 1])
  /\ imported[n] => ~Idle(n) /\ store[n] = Import(installing[n].kvs)

SnapshotsOK(n) ==
  /\ Faithful(current_snapshot[n], states)
  /\ Faithful(building[n], states)
  /\ Faithful(installing[n], states)

IInv ==
  /\ TypeOK
  /\ LogOK
  /\ \A n \in Nodes : StoreOK(n) /\ SnapshotsOK(n)

-----------------------------------------------------------------------------
(* What the operators compute.                                             *)

\* max_mod_rev is a revision and the largest, if the revisions are bounded.
LEMMA MaxModRevIsMax ==
  ASSUME NEW kvs \in [Keys -> Item], NEW b \in Nat,
         \A k \in Keys : kvs[k].value.mod <= b
  PROVE  /\ MaxModRev(kvs) \in Nat
         /\ \A k \in Keys : kvs[k].value.mod <= MaxModRev(kvs)
<1> DEFINE S == {kvs[k].value.mod : k \in Keys} \cup {1}
           T == {m \in Nat : \A x \in S : x <= m}
<1>1. S \subseteq Nat /\ 1 \in S
  BY DEF Item, Value
<1>2. b + 1 \in T
  <2>1. \A x \in S : x <= b + 1
    BY DEF Item, Value
  <2> QED
    BY <2>1
<1>3. PICK m \in T : \A y \in T : ~(<<y, m>> \in OpToRel(<, Nat))
  <2>1. T \subseteq Nat /\ T # {}
    BY <1>2
  <2> HIDE DEF T
  <2> QED
    BY <2>1, NatLessThanWellFounded, WFMin, Zenon
<1> m \in Nat /\ \A x \in S : x <= m
  BY <1>3
<1>4. \A y \in T : ~(y < m)
  <2> SUFFICES ASSUME NEW y \in T, y < m PROVE FALSE
    OBVIOUS
  <2>1. <<y, m>> \in OpToRel(<, Nat)
    BY DEF OpToRel
  <2> QED
    BY <2>1, <1>3
<1>5. m \in S
  <2> SUFFICES ASSUME m \notin S PROVE FALSE
    OBVIOUS
  <2>1. m >= 1 /\ m \in Nat
    BY <1>1
  <2>2. \A x \in S : x <= m - 1
    <3> HIDE DEF S
    <3> QED
      BY <1>1, <2>1
  <2>3. m - 1 \in T
    BY <2>1, <2>2
  <2> QED
    BY <2>1, <2>3, <1>4
<1>6. \E x \in S : \A y \in S : x >= y
  <2>1. \A y \in S : m >= y
    BY <1>1
  <2> QED
    BY <1>5, <2>1
<1>7. Max(S) \in S /\ \A y \in S : Max(S) >= y
  <2> HIDE DEF S
  <2> QED
    BY <1>6, Zenon DEF Max
<1>8. MaxModRev(kvs) = Max(S)
  BY DEF MaxModRev
<1> QED
  BY <1>1, <1>7, <1>8

\* A write changes the item of its key.
LEMMA WriteItems ==
  ASSUME NEW s \in StoreState, NEW k \in Keys, NEW put \in BOOLEAN, NEW i \in Nat
  PROVE  /\ Write(s, k, put, i).rev = s.rev + 1
         /\ Write(s, k, put, i).items \in [Keys -> Item]
         /\ \A j \in Keys :
              Write(s, k, put, i).items[j] =
                IF j = k THEN [value |-> NewValue(s.items[k].value, put, s.rev + 1), by |-> i]
                         ELSE s.items[j]
<1>1. s.items \in [Keys -> Item] /\ s.rev \in Nat
  BY DEF StoreState
<1>2. NewValue(s.items[k].value, put, s.rev + 1) \in Value
  BY <1>1 DEF NewValue, Value, Item
<1> DEFINE v == NewValue(s.items[k].value, put, s.rev + 1)
<1>3. [value |-> v, by |-> i] \in Item
  BY <1>2 DEF Item
<1>4. Write(s, k, put, i) =
        [rev |-> s.rev + 1, items |-> [s.items EXCEPT ![k] = [value |-> v, by |-> i]]]
  BY DEF Write
<1> HIDE DEF v
<1>5. /\ Write(s, k, put, i).rev = s.rev + 1
      /\ Write(s, k, put, i).items = [s.items EXCEPT ![k] = [value |-> v, by |-> i]]
  BY <1>4
<1> DEFINE w == [value |-> v, by |-> i]
<1> HIDE DEF w
<1>6. /\ [s.items EXCEPT ![k] = w] \in [Keys -> Item]
      /\ \A j \in Keys : [s.items EXCEPT ![k] = w][j] = IF j = k THEN w ELSE s.items[j]
  BY <1>1, <1>3 DEF w
<1> QED
  BY <1>5, <1>6 DEF v, w

\* apply does a write or nothing; which of the two depends on the keys that
\* are there and on nothing else.
LEMMA ApplyToCases ==
  ASSUME NEW s \in StoreState, NEW t \in StoreState, NEW req \in Request, NEW i \in Nat,
         \A k \in Keys : s.items[k].value.live <=> t.items[k].value.live
  PROVE  \/ \E k \in Keys, put \in BOOLEAN :
              /\ ApplyTo(s, req, i) = Write(s, k, put, i)
              /\ ApplyTo(t, req, i) = Write(t, k, put, i)
         \/ ApplyTo(s, req, i) = s /\ ApplyTo(t, req, i) = t
<1>1. \/ req.op \in {"set", "delete"} /\ req.key \in Keys
      \/ req.op = "blank"
  BY DEF Request, Blank
<1>2. CASE req.op = "blank"
  BY <1>2 DEF ApplyTo
<1>3. CASE req.op \in {"set", "delete"} /\ req.key \in Keys
  <2>1. \/ /\ ApplyTo(s, req, i) = Write(s, req.key, req.op = "set", i)
           /\ ApplyTo(t, req, i) = Write(t, req.key, req.op = "set", i)
        \/ ApplyTo(s, req, i) = s /\ ApplyTo(t, req, i) = t
    BY <1>3, Zenon DEF ApplyTo
  <2>2. (req.op = "set") \in BOOLEAN
    OBVIOUS
  <2> QED
    BY <1>3, <2>1, <2>2, Zenon
<1> QED
  BY <1>1, <1>2, <1>3

\* What a write leaves in a store is a store whose revisions are bounded.
LEMMA ApplyToType ==
  ASSUME NEW s \in StoreState, Bounded(s), NEW req \in Request, NEW i \in Nat
  PROVE  ApplyTo(s, req, i) \in StoreState /\ Bounded(ApplyTo(s, req, i))
<1>1. CASE ApplyTo(s, req, i) = s
  BY <1>1
<1>2. ASSUME NEW k \in Keys, NEW put \in BOOLEAN, ApplyTo(s, req, i) = Write(s, k, put, i)
      PROVE  ApplyTo(s, req, i) \in StoreState /\ Bounded(ApplyTo(s, req, i))
  <2> DEFINE w == Write(s, k, put, i)
  <2>1. /\ w.rev = s.rev + 1
        /\ w.items \in [Keys -> Item]
        /\ \A j \in Keys :
             w.items[j] = IF j = k
                            THEN [value |-> NewValue(s.items[k].value, put, s.rev + 1), by |-> i]
                            ELSE s.items[j]
    BY WriteItems
  <2>2. w = [rev |-> w.rev, items |-> w.items]
    BY DEF Write
  <2>3. \A v, p, r : NewValue(v, p, r).mod = r
    BY DEF NewValue
  <2>4. s.rev \in Nat /\ s.items \in [Keys -> Item]
    BY DEF StoreState
  <2> HIDE DEF w
  <2>5. w \in StoreState
    BY <2>1, <2>2, <2>4 DEF StoreState
  <2>6. \A j \in Keys : s.items[j].value.mod \in Nat /\ s.items[j].value.mod <= s.rev
    BY <2>4 DEF Item, Value, Bounded
  <2>7. \A j \in Keys : w.items[j].value.mod <= w.rev
    BY <2>1, <2>3, <2>4, <2>6
  <2> QED
    BY <1>2, <2>5, <2>7 DEF w, Bounded
<1> QED
  BY <1>1, <1>2, ApplyToCases

\* Stores that hold the same keys hold the same keys after one more entry.
LEMMA ApplyToContents ==
  ASSUME NEW s \in StoreState, NEW t \in StoreState, NEW req \in Request, NEW i \in Nat,
         SameContents(s, t)
  PROVE  SameContents(ApplyTo(s, req, i), ApplyTo(t, req, i))
<1>1. \A j \in Keys : (IF s.items[j].value.live THEN s.items[j].by ELSE -1) =
                       (IF t.items[j].value.live THEN t.items[j].by ELSE -1)
  BY DEF SameContents, Contents
<1>2. \A j \in Keys : s.items[j].value.live <=> t.items[j].value.live
  BY <1>1 DEF StoreState, Item
<1>3. ASSUME NEW k \in Keys, NEW put \in BOOLEAN,
             ApplyTo(s, req, i) = Write(s, k, put, i),
             ApplyTo(t, req, i) = Write(t, k, put, i)
      PROVE  SameContents(ApplyTo(s, req, i), ApplyTo(t, req, i))
  <2> DEFINE x == Write(s, k, put, i)
             y == Write(t, k, put, i)
             a == NewValue(s.items[k].value, put, s.rev + 1)
             b == NewValue(t.items[k].value, put, t.rev + 1)
  <2>1. /\ x.rev = s.rev + 1
        /\ x.items \in [Keys -> Item]
        /\ \A j \in Keys :
             x.items[j] = IF j = k THEN [value |-> a, by |-> i] ELSE s.items[j]
    BY WriteItems
  <2>2. /\ y.rev = t.rev + 1
        /\ y.items \in [Keys -> Item]
        /\ \A j \in Keys :
             y.items[j] = IF j = k THEN [value |-> b, by |-> i] ELSE t.items[j]
    BY WriteItems
  <2>3. (a.live <=> put) /\ (b.live <=> put)
    BY DEF NewValue
  <2> HIDE DEF x, y, a, b
  <2>4. ASSUME NEW j \in Keys
        PROVE  (IF x.items[j].value.live THEN x.items[j].by ELSE -1) =
               (IF y.items[j].value.live THEN y.items[j].by ELSE -1)
    BY <1>1, <2>1, <2>2, <2>3
  <2>5. Contents(x.items) = Contents(y.items)
    BY <2>4 DEF Contents
  <2> QED
    BY <1>3, <2>5 DEF SameContents, x, y
<1>4. CASE ApplyTo(s, req, i) = s /\ ApplyTo(t, req, i) = t
  BY <1>4
<1> QED
  BY <1>2, <1>3, <1>4, ApplyToCases

\* The same of stores that have the same revisions.
LEMMA ApplyToRevisions ==
  ASSUME NEW s \in StoreState, NEW t \in StoreState, NEW req \in Request, NEW i \in Nat,
         SameRevisions(s, t)
  PROVE  SameRevisions(ApplyTo(s, req, i), ApplyTo(t, req, i))
<1>1. \A j \in Keys : (IF s.items[j].value.live THEN s.items[j] ELSE NoItem) =
                       (IF t.items[j].value.live THEN t.items[j] ELSE NoItem)
  BY DEF SameRevisions, Export
<1>2. \A j \in Keys :
        /\ s.items[j].value.live <=> t.items[j].value.live
        /\ s.items[j].value.live => s.items[j] = t.items[j]
  <2>1. ~NoItem.value.live
    BY DEF NoItem, NoValue
  <2> QED
    BY <1>1, <2>1, SMT
<1>3. ASSUME NEW k \in Keys, NEW put \in BOOLEAN,
             ApplyTo(s, req, i) = Write(s, k, put, i),
             ApplyTo(t, req, i) = Write(t, k, put, i)
      PROVE  SameRevisions(ApplyTo(s, req, i), ApplyTo(t, req, i))
  <2> DEFINE x == Write(s, k, put, i)
             y == Write(t, k, put, i)
             a == NewValue(s.items[k].value, put, s.rev + 1)
             b == NewValue(t.items[k].value, put, t.rev + 1)
  <2>1. /\ x.rev = s.rev + 1
        /\ x.items \in [Keys -> Item]
        /\ \A j \in Keys :
             x.items[j] = IF j = k THEN [value |-> a, by |-> i] ELSE s.items[j]
    BY WriteItems
  <2>2. /\ y.rev = t.rev + 1
        /\ y.items \in [Keys -> Item]
        /\ \A j \in Keys :
             y.items[j] = IF j = k THEN [value |-> b, by |-> i] ELSE t.items[j]
    BY WriteItems
  <2>3. a = b
    <3>1. CASE s.items[k].value.live
      <4>1. s.items[k] = t.items[k]
        BY <1>2, <3>1, Zenon
      <4> QED
        BY <4>1 DEF SameRevisions
    <3>2. CASE ~s.items[k].value.live
      <4>1. ~t.items[k].value.live
        BY <1>2, <3>2
      <4> QED
        BY <3>2, <4>1 DEF NewValue, SameRevisions
    <3> QED
      BY <3>1, <3>2
  <2> HIDE DEF x, y, a, b
  <2>4. x.rev = y.rev
    BY <2>1, <2>2 DEF SameRevisions
  <2>5. ASSUME NEW j \in Keys
        PROVE  (IF x.items[j].value.live THEN x.items[j] ELSE NoItem) =
               (IF y.items[j].value.live THEN y.items[j] ELSE NoItem)
    <3>1. \/ x.items[j] = y.items[j]
          \/ x.items[j] = s.items[j] /\ y.items[j] = t.items[j]
      BY <2>1, <2>2, <2>3
    <3> QED
      BY <1>1, <3>1
  <2>6. Export(x) = Export(y)
    BY <2>5 DEF Export
  <2> QED
    BY <1>3, <2>4, <2>6 DEF SameRevisions, x, y
<1>4. CASE ApplyTo(s, req, i) = s /\ ApplyTo(t, req, i) = t
  BY <1>4
<1> QED
  BY <1>2, <1>3, <1>4, ApplyToCases

\* An export holds the live keys of the store, with their items.
LEMMA ExportFacts ==
  ASSUME NEW s \in StoreState, Bounded(s)
  PROVE  /\ Export(s) \in [Keys -> Item]
         /\ \A k \in Keys : ~Export(s)[k].value.live => Export(s)[k] = NoItem
         /\ Contents(Export(s)) = Contents(s.items)
         /\ MaxModRev(Export(s)) \in Nat
         /\ \A k \in Keys : Export(s)[k].value.mod <= MaxModRev(Export(s))
<1>1. s.items \in [Keys -> Item] /\ s.rev \in Nat
  BY DEF StoreState
<1>2. NoItem \in Item /\ ~NoItem.value.live /\ NoItem.value.mod = 0
  BY DEF Item, NoItem, NoValue, Value
<1>3. Export(s) = [k \in Keys |-> IF s.items[k].value.live THEN s.items[k] ELSE NoItem]
  BY DEF Export
<1>4. /\ Export(s) \in [Keys -> Item]
      /\ \A k \in Keys : ~Export(s)[k].value.live => Export(s)[k] = NoItem
  BY <1>1, <1>2, <1>3
<1>5. \A k \in Keys : Export(s)[k].value.mod <= s.rev
  <2>1. \A k \in Keys : s.items[k].value.mod <= s.rev
    BY DEF Bounded
  <2> QED
    BY <1>1, <1>2, <1>3, <2>1
<1>6. Contents(Export(s)) = Contents(s.items)
  <2>1. ASSUME NEW k \in Keys
        PROVE  (IF Export(s)[k].value.live THEN Export(s)[k].by ELSE -1) =
               (IF s.items[k].value.live THEN s.items[k].by ELSE -1)
    BY <1>2, <1>3
  <2> QED
    BY <2>1 DEF Contents
<1> QED
  BY <1>1, <1>4, <1>5, <1>6, MaxModRevIsMax

\* A store filled from a snapshot holds what the snapshot holds.
LEMMA ImportFacts ==
  ASSUME NEW kvs \in [Keys -> Item],
         MaxModRev(kvs) \in Nat,
         \A k \in Keys : kvs[k].value.mod <= MaxModRev(kvs),
         \A k \in Keys : ~kvs[k].value.live => kvs[k] = NoItem
  PROVE  /\ Import(kvs) \in StoreState
         /\ Bounded(Import(kvs))
         /\ Import(kvs).items = kvs
         /\ Import(kvs).rev = MaxModRev(kvs)
         /\ Export(Import(kvs)) = kvs
<1> DEFINE s == Import(kvs)
<1>1. s = [rev |-> MaxModRev(kvs), items |-> kvs]
  BY DEF Import
<1>2. s.items = kvs /\ s.rev = MaxModRev(kvs)
  BY <1>1
<1> HIDE DEF s
<1>3. s \in StoreState /\ Bounded(s)
  BY <1>1, <1>2 DEF StoreState, Bounded
<1>4. Export(s) = kvs
  <2>1. Export(s) = [k \in Keys |-> IF kvs[k].value.live THEN kvs[k] ELSE NoItem]
    BY <1>2 DEF Export
  <2>2. \A k \in Keys : (IF kvs[k].value.live THEN kvs[k] ELSE NoItem) = kvs[k]
    OBVIOUS
  <2> QED
    BY <2>1, <2>2
<1> QED
  BY <1>2, <1>3, <1>4 DEF s

\* The store that main serves, and one that has been cleared.
LEMMA EmptyStores ==
  /\ Fresh \in StoreState /\ Bounded(Fresh)
  /\ Cleared \in StoreState /\ Bounded(Cleared)
BY DEF Fresh, Cleared, StoreState, Bounded, NoItem, NoValue, Item, Value

\* A snapshot stays faithful when the log grows.
LEMMA FaithfulAppend ==
  ASSUME NEW ss \in Seq(StoreState), NEW x \in StoreState, NEW s \in Snapshot, Faithful(s, ss)
  PROVE  Faithful(s, Append(ss, x))
<1>1. s.last + 1 \in 1..Len(ss)
  BY DEF Faithful
<1>2. /\ Len(Append(ss, x)) = Len(ss) + 1
      /\ Append(ss, x)[s.last + 1] = ss[s.last + 1]
  BY <1>1
<1>3. s.last + 1 \in 1..Len(Append(ss, x))
  BY <1>1, <1>2
<1> QED
  BY <1>2, <1>3 DEF Faithful

\* No snapshot claims nothing.
LEMMA NoSnapshotFaithful ==
  ASSUME NEW ss \in Seq(StoreState), Len(ss) > 0
  PROVE  NoSnapshot \in Snapshot /\ Faithful(NoSnapshot, ss)
<1>1. /\ NoSnapshot \in Snapshot /\ NoSnapshot.last = 0
      /\ NoSnapshot.clean = FALSE /\ NoSnapshot.exact = FALSE
      /\ NoSnapshot.kvs \in [Keys -> Item]
      /\ \A k \in Keys : NoSnapshot.kvs[k] = NoItem
      /\ NoItem.value.mod = 0
  BY DEF NoSnapshot, Snapshot, NoItem, NoValue, Item, Value
<1>2. /\ MaxModRev(NoSnapshot.kvs) \in Nat
      /\ \A k \in Keys : NoSnapshot.kvs[k].value.mod <= MaxModRev(NoSnapshot.kvs)
  BY <1>1, MaxModRevIsMax
<1> QED
  BY <1>1, <1>2 DEF Faithful

-----------------------------------------------------------------------------
(* The invariant is inductive.                                             *)

LEMMA InitInv == Init => IInv
<1> SUFFICES ASSUME Init PROVE IInv
  OBVIOUS
<1> USE DEF Init
<1>1. NoSnapshot \in Snapshot /\ Faithful(NoSnapshot, states)
  <2>1. states \in Seq(StoreState) /\ Len(states) > 0
    BY EmptyStores
  <2> QED
    BY <2>1, NoSnapshotFaithful
<1>2. TypeOK
  BY <1>1, EmptyStores, StateMachineAssumption DEF TypeOK
<1>3. LogOK
  BY EmptyStores DEF LogOK
<1>4. ASSUME NEW n \in Nodes PROVE StoreOK(n) /\ SnapshotsOK(n)
  BY <1>1, EmptyStores DEF StoreOK, SnapshotsOK, SameContents, SameRevisions
<1> QED
  BY <1>2, <1>3, <1>4 DEF IInv

\* Nodes whose own variables do not change, while the log does not, keep their
\* part of the invariant.
LEMMA OtherNodes ==
  ASSUME NEW n, StoreOK(n), SnapshotsOK(n),
         states' = states,
         last_applied'[n] = last_applied[n], store'[n] = store[n],
         current_snapshot'[n] = current_snapshot[n], building'[n] = building[n],
         installing'[n] = installing[n], imported'[n] = imported[n],
         clean'[n] = clean[n], exact'[n] = exact[n]
  PROVE  StoreOK(n)' /\ SnapshotsOK(n)'
BY DEF StoreOK, SnapshotsOK, Idle

LEMMA StepInv == IInv /\ [Next]_vars => IInv'
<1> SUFFICES ASSUME IInv, [Next]_vars PROVE IInv'
  OBVIOUS
<1>t. TypeOK
  BY DEF IInv
<1>1. ASSUME NEW req \in Request, Choose(req) PROVE IInv'
  <2> DEFINE x == ApplyTo(states[Len(states)], req, Len(chosen) + 1)
  <2>1. /\ Len(chosen) \in Nat /\ Len(states) = Len(chosen) + 1
        /\ chosen \in Seq(Request) /\ states \in Seq(StoreState)
        /\ states[Len(states)] \in StoreState
    BY <1>t DEF TypeOK
  <2>2. x \in StoreState /\ Bounded(x)
    BY <2>1, ApplyToType DEF IInv, LogOK
  <2>3. chosen' = Append(chosen, req) /\ states' = Append(states, x)
    BY <1>1 DEF Choose
  <2> HIDE DEF x
  <2>4. /\ chosen' \in Seq(Request) /\ states' \in Seq(StoreState)
        /\ Len(chosen') = Len(chosen) + 1 /\ Len(states') = Len(states) + 1
        /\ \A i \in 1..Len(states) : states'[i] = states[i]
        /\ \A i \in 1..Len(chosen) : chosen'[i] = chosen[i]
        /\ states'[Len(states) + 1] = x /\ chosen'[Len(chosen) + 1] = req
    BY <2>1, <2>2, <2>3
  <2>5. TypeOK'
    BY <1>t, <1>1, <2>1, <2>4
       DEF TypeOK, Choose, snapshots, install, ghosts, counters
  <2>6. LogOK'
    <3>1. states'[1] = Fresh
      BY <2>1, <2>4 DEF IInv, LogOK
    <3>2. \A i \in 1..Len(states') : Bounded(states'[i])
      <4> TAKE i \in 1..Len(states')
      <4>1. i \in 1..Len(states) \/ i = Len(states) + 1
        BY <2>1, <2>4
      <4> QED
        BY <4>1, <2>2, <2>4 DEF IInv, LogOK
    <3>3. ASSUME NEW i \in 1..Len(chosen')
          PROVE  states'[i + 1] = ApplyTo(states'[i], chosen'[i], i)
      <4>1. CASE i \in 1..Len(chosen)
        <5>1. i \in 1..Len(states) /\ i + 1 \in 1..Len(states)
          BY <4>1, <2>1
        <5> QED
          BY <4>1, <5>1, <2>4 DEF IInv, LogOK
      <4>2. CASE i = Len(chosen) + 1
        <5>1. i = Len(states) /\ i \in 1..Len(states)
          BY <4>2, <2>1
        <5> QED
          BY <4>2, <5>1, <2>4 DEF x
      <4> QED
        BY <4>1, <4>2, <2>1, <2>4
    <3> QED
      BY <3>1, <3>2, <3>3 DEF LogOK
  <2>7. ASSUME NEW n \in Nodes PROVE StoreOK(n)' /\ SnapshotsOK(n)'
    <3>1. last_applied[n] + 1 \in 1..Len(states)
      BY <1>t, <2>1 DEF TypeOK
    <3>2. states'[last_applied[n] + 1] = states[last_applied[n] + 1]
      BY <3>1, <2>4
    <3>3. UNCHANGED <<last_applied, store, current_snapshot, building, installing, imported,
                      clean, exact>>
      BY <1>1 DEF Choose, snapshots, install, ghosts
    <3>4. StoreOK(n)'
      BY <3>2, <3>3 DEF IInv, StoreOK, Idle
    <3>5. /\ current_snapshot[n] \in Snapshot /\ building[n] \in Snapshot
          /\ installing[n] \in Snapshot
      BY <1>t DEF TypeOK
    <3>6. SnapshotsOK(n)'
      BY <2>1, <2>2, <2>3, <3>3, <3>5, FaithfulAppend DEF IInv, SnapshotsOK
    <3> QED
      BY <3>4, <3>6
  <2> QED
    BY <2>5, <2>6, <2>7 DEF IInv
<1>l. ASSUME UNCHANGED log PROVE LogOK' /\ states' = states /\ chosen' = chosen
  BY <1>l DEF IInv, LogOK, log
<1>n. NoSnapshot \in Snapshot /\ Faithful(NoSnapshot, states)
  BY <1>t, NoSnapshotFaithful DEF TypeOK
<1>2. ASSUME NEW n \in Nodes, Apply(n) PROVE IInv'
  <2> DEFINE i == last_applied[n] + 1
             req == chosen[i]
  <2>1. /\ last_applied[n] \in Nat /\ i \in 1..Len(chosen) /\ i \in 1..Len(states) /\ i \in Nat
        /\ req \in Request /\ store[n] \in StoreState /\ states[i] \in StoreState
        /\ i \in 0..Len(chosen)
    BY <1>t, <1>2 DEF TypeOK, Apply
  <2>2. /\ Idle(n) /\ UNCHANGED <<log, snapshots, install, ghosts, counters>>
        /\ last_applied' = [last_applied EXCEPT ![n] = i]
        /\ store' = [store EXCEPT ![n] = ApplyTo(store[n], req, i)]
    BY <1>2 DEF Apply, ApplyEntry
  <2>3. states[i + 1] = ApplyTo(states[i], req, i)
    BY <2>1 DEF IInv, LogOK
  <2>4. ApplyTo(store[n], req, i) \in StoreState /\ Bounded(ApplyTo(store[n], req, i))
    BY <2>1, ApplyToType DEF IInv, StoreOK
  <2> HIDE DEF i, req
  <2>5. TypeOK'
    BY <1>t, <2>1, <2>2, <2>4 DEF TypeOK, log, snapshots, install, ghosts, counters
  <2>6. /\ store'[n] = ApplyTo(store[n], req, i) /\ last_applied'[n] = i
        /\ UNCHANGED <<current_snapshot, building, installing, imported, clean, exact>>
    BY <1>t, <2>2 DEF TypeOK, snapshots, install, ghosts
  <2>7. StoreOK(n)'
    <3>1. clean[n] => SameContents(ApplyTo(store[n], req, i), states[i + 1])
      <4> SUFFICES ASSUME clean[n] PROVE SameContents(ApplyTo(store[n], req, i), states[i + 1])
        OBVIOUS
      <4>1. SameContents(store[n], states[i])
        BY <2>2 DEF IInv, StoreOK, i
      <4> QED
        BY <4>1, <2>1, <2>3, ApplyToContents
    <3>2. exact[n] => SameRevisions(ApplyTo(store[n], req, i), states[i + 1])
      <4> SUFFICES ASSUME exact[n] PROVE SameRevisions(ApplyTo(store[n], req, i), states[i + 1])
        OBVIOUS
      <4>1. SameRevisions(store[n], states[i])
        BY <2>2 DEF IInv, StoreOK, i
      <4> QED
        BY <4>1, <2>1, <2>3, ApplyToRevisions
    <3>3. ~imported[n]
      BY <2>2 DEF IInv, StoreOK
    <3> QED
      BY <2>2, <2>4, <2>6, <3>1, <3>2, <3>3, <1>l DEF StoreOK
  <2>8. SnapshotsOK(n)'
    BY <2>2, <2>6, <1>l DEF IInv, SnapshotsOK
  <2>9. ASSUME NEW m \in Nodes, m # n PROVE StoreOK(m)' /\ SnapshotsOK(m)'
    <3>1. last_applied'[m] = last_applied[m] /\ store'[m] = store[m]
      BY <1>t, <2>2, <2>9 DEF TypeOK
    <3> QED
      BY <3>1, <2>2, <2>6, <1>l, OtherNodes DEF IInv
  <2> QED
    BY <2>2, <2>5, <2>7, <2>8, <2>9, <1>l DEF IInv
<1>3. ASSUME NEW n \in Nodes, BuildExport(n) PROVE IInv'
  <2> DEFINE b == [last  |-> last_applied[n],
                   kvs   |-> Export(store[n]),
                   clean |-> clean[n] /\ Idle(n),
                   exact |-> exact[n] /\ Idle(n) /\ MaxModRev(Export(store[n])) = store[n].rev]
  <2>1. /\ building' = [building EXCEPT ![n] = b]
        /\ UNCHANGED <<log, last_applied, store, current_snapshot, install, ghosts, restarts>>
        /\ builds' = builds + 1
    BY <1>3 DEF BuildExport
  <2>2. /\ store[n] \in StoreState /\ last_applied[n] \in Nat
        /\ last_applied[n] + 1 \in 1..Len(states)
        /\ clean[n] \in BOOLEAN /\ exact[n] \in BOOLEAN
    BY <1>t DEF TypeOK
  <2>3. StoreOK(n)
    BY DEF IInv
  <2>4. /\ Export(store[n]) \in [Keys -> Item]
        /\ \A k \in Keys : ~Export(store[n])[k].value.live => Export(store[n])[k] = NoItem
        /\ Contents(Export(store[n])) = Contents(store[n].items)
        /\ MaxModRev(Export(store[n])) \in Nat
        /\ \A k \in Keys : Export(store[n])[k].value.mod <= MaxModRev(Export(store[n]))
    BY <2>2, <2>3, ExportFacts DEF StoreOK
  <2>5. /\ b.last = last_applied[n] /\ b.kvs = Export(store[n])
        /\ b.clean <=> clean[n] /\ Idle(n)
        /\ b.exact <=> exact[n] /\ Idle(n) /\ MaxModRev(Export(store[n])) = store[n].rev
    OBVIOUS
  <2>6. b \in Snapshot
    BY <2>2, <2>4 DEF Snapshot
  <2> HIDE DEF b
  <2>7. Faithful(b, states)
    BY <2>2, <2>3, <2>4, <2>5 DEF Faithful, StoreOK, SameContents, SameRevisions
  <2>8. TypeOK'
    BY <1>t, <2>1, <2>6 DEF TypeOK, log, install, ghosts
  <2>9. /\ UNCHANGED <<last_applied, store, current_snapshot, installing, imported, clean, exact>>
        /\ building'[n] = b
        /\ \A m \in Nodes : m # n => building'[m] = building[m]
    BY <1>t, <2>1 DEF TypeOK, install, ghosts
  <2>10. StoreOK(n)' /\ SnapshotsOK(n)'
    BY <2>1, <2>7, <2>9, <1>l DEF IInv, StoreOK, SnapshotsOK, Idle
  <2>11. ASSUME NEW m \in Nodes, m # n PROVE StoreOK(m)' /\ SnapshotsOK(m)'
    BY <2>11, <2>1, <2>9, <1>l, OtherNodes DEF IInv
  <2> QED
    BY <2>1, <2>8, <2>10, <2>11, <1>l DEF IInv
<1>4. ASSUME NEW n \in Nodes, BuildStore(n) PROVE IInv'
  <2>1. /\ current_snapshot' = [current_snapshot EXCEPT ![n] = building[n]]
        /\ building' = [building EXCEPT ![n] = NoSnapshot]
        /\ UNCHANGED <<log, last_applied, store, install, ghosts, counters>>
    BY <1>4 DEF BuildStore, Built
  <2>2. NoSnapshot \in Snapshot /\ Faithful(NoSnapshot, states)
    BY <1>n
  <2>3. TypeOK'
    BY <1>t, <2>1, <2>2 DEF TypeOK, log, install, ghosts, counters
  <2>4. /\ UNCHANGED <<last_applied, store, installing, imported, clean, exact>>
        /\ current_snapshot'[n] = building[n] /\ building'[n] = NoSnapshot
        /\ \A m \in Nodes : m # n => /\ building'[m] = building[m]
                                      /\ current_snapshot'[m] = current_snapshot[m]
    BY <1>t, <2>1 DEF TypeOK, install, ghosts
  <2>5. StoreOK(n)' /\ SnapshotsOK(n)'
    BY <2>1, <2>2, <2>4, <1>l DEF IInv, StoreOK, SnapshotsOK, Idle
  <2>6. ASSUME NEW m \in Nodes, m # n PROVE StoreOK(m)' /\ SnapshotsOK(m)'
    BY <2>6, <2>1, <2>4, <1>l, OtherNodes DEF IInv
  <2> QED
    BY <2>1, <2>3, <2>5, <2>6, <1>l DEF IInv
<1>5. ASSUME NEW n \in Nodes, NEW c \in Nodes, InstallClear(n, current_snapshot[c]) PROVE IInv'
  <2> DEFINE s == current_snapshot[c]
  <2>1. /\ s # NoSnapshot /\ Idle(n)
        /\ installing' = [installing EXCEPT ![n] = s]
        /\ store' = [store EXCEPT ![n] = Cleared]
        /\ UNCHANGED <<log, last_applied, snapshots, imported, ghosts, counters>>
    BY <1>5 DEF InstallClear
  <2>2. s \in Snapshot /\ Faithful(s, states)
    BY <1>t DEF IInv, TypeOK, SnapshotsOK
  <2> HIDE DEF s
  <2>3. TypeOK'
    BY <1>t, <2>1, <2>2, EmptyStores DEF TypeOK, log, snapshots, ghosts, counters
  <2>4. /\ UNCHANGED <<last_applied, current_snapshot, building, imported, clean, exact>>
        /\ installing'[n] = s /\ store'[n] = Cleared
        /\ \A m \in Nodes : m # n => installing'[m] = installing[m] /\ store'[m] = store[m]
    BY <1>t, <2>1 DEF TypeOK, snapshots, ghosts
  <2>5. StoreOK(n)' /\ SnapshotsOK(n)'
    <3>1. ~imported[n] /\ ~Idle(n)'
      BY <2>1, <2>4 DEF IInv, StoreOK, Idle
    <3> QED
      BY <3>1, <2>1, <2>2, <2>4, <1>l, EmptyStores DEF IInv, StoreOK, SnapshotsOK
  <2>6. ASSUME NEW m \in Nodes, m # n PROVE StoreOK(m)' /\ SnapshotsOK(m)'
    BY <2>6, <2>1, <2>4, <1>l, OtherNodes DEF IInv
  <2> QED
    BY <2>1, <2>3, <2>5, <2>6, <1>l DEF IInv
<1>6. ASSUME NEW n \in Nodes, InstallImport(n) PROVE IInv'
  <2> DEFINE x == Import(installing[n].kvs)
  <2>1. /\ ~Idle(n)
        /\ store' = [store EXCEPT ![n] = x]
        /\ imported' = [imported EXCEPT ![n] = TRUE]
        /\ UNCHANGED <<log, last_applied, snapshots, installing, ghosts, counters>>
    BY <1>6 DEF InstallImport
  <2>2. x \in StoreState /\ Bounded(x)
    <3>1. installing[n].kvs \in [Keys -> Item]
      BY <1>t DEF TypeOK, Snapshot
    <3> QED
      BY <3>1, ImportFacts DEF IInv, SnapshotsOK, Faithful
  <2>3. x = Import(installing[n].kvs)
    OBVIOUS
  <2> HIDE DEF x
  <2>4. TypeOK'
    BY <1>t, <2>1, <2>2 DEF TypeOK, log, snapshots, ghosts, counters
  <2>5. /\ UNCHANGED <<last_applied, current_snapshot, building, installing, clean, exact>>
        /\ imported'[n] = TRUE /\ store'[n] = x
        /\ \A m \in Nodes : m # n => imported'[m] = imported[m] /\ store'[m] = store[m]
    BY <1>t, <2>1 DEF TypeOK, snapshots, ghosts
  <2>6. StoreOK(n)' /\ SnapshotsOK(n)'
    BY <2>1, <2>2, <2>3, <2>5, <1>l DEF IInv, StoreOK, SnapshotsOK, Idle
  <2>7. ASSUME NEW m \in Nodes, m # n PROVE StoreOK(m)' /\ SnapshotsOK(m)'
    BY <2>7, <2>1, <2>5, <1>l, OtherNodes DEF IInv
  <2> QED
    BY <2>1, <2>4, <2>6, <2>7, <1>l DEF IInv
<1>7. ASSUME NEW n \in Nodes, InstallMetadata(n) PROVE IInv'
  <2> DEFINE s == installing[n]
  <2>1. /\ ~Idle(n) /\ imported[n]
        /\ last_applied' = [last_applied EXCEPT ![n] = s.last]
        /\ current_snapshot' = [current_snapshot EXCEPT ![n] = s]
        /\ clean' = [clean EXCEPT ![n] = s.clean]
        /\ exact' = [exact EXCEPT ![n] = s.exact]
        /\ installing' = [installing EXCEPT ![n] = NoSnapshot]
        /\ imported' = [imported EXCEPT ![n] = FALSE]
        /\ UNCHANGED <<log, store, building, counters>>
    BY <1>7 DEF InstallMetadata
  <2>2. s \in Snapshot /\ Faithful(s, states) /\ store[n] = Import(s.kvs)
    BY <1>t, <2>1 DEF IInv, TypeOK, SnapshotsOK, StoreOK
  <2> HIDE DEF s
  <2>3. s.last \in 0..Len(chosen) /\ s.clean \in BOOLEAN /\ s.exact \in BOOLEAN
        /\ s.kvs \in [Keys -> Item]
    BY <1>t, <2>2 DEF TypeOK, Snapshot, Faithful
  <2>4. /\ store[n].items = s.kvs /\ store[n].rev = MaxModRev(s.kvs)
        /\ Export(store[n]) = s.kvs /\ Bounded(store[n])
    BY <2>2, <2>3, ImportFacts DEF Faithful
  <2>5. TypeOK'
    BY <1>t, <1>n, <2>1, <2>2, <2>3 DEF TypeOK, log, counters
  <2>6. /\ UNCHANGED <<store, building>>
        /\ last_applied'[n] = s.last /\ current_snapshot'[n] = s
        /\ clean'[n] = s.clean /\ exact'[n] = s.exact
        /\ installing'[n] = NoSnapshot /\ imported'[n] = FALSE
    BY <1>t, <2>1 DEF TypeOK
  <2>7. StoreOK(n)'
    <3>1. s.clean => SameContents(store[n], states[s.last + 1])
      BY <2>2, <2>4 DEF Faithful, SameContents
    <3>2. s.exact => SameRevisions(store[n], states[s.last + 1])
      BY <2>2, <2>4 DEF Faithful, SameRevisions
    <3> QED
      BY <3>1, <3>2, <2>1, <2>4, <2>6, <1>l DEF StoreOK
  <2>8. SnapshotsOK(n)'
    BY <1>n, <2>1, <2>2, <2>6, <1>l DEF IInv, SnapshotsOK
  <2>9. ASSUME NEW m \in Nodes, m # n PROVE StoreOK(m)' /\ SnapshotsOK(m)'
    <3>1. /\ last_applied'[m] = last_applied[m] /\ current_snapshot'[m] = current_snapshot[m]
          /\ clean'[m] = clean[m] /\ exact'[m] = exact[m]
          /\ installing'[m] = installing[m] /\ imported'[m] = imported[m]
      BY <1>t, <2>1, <2>9 DEF TypeOK
    <3> QED
      BY <3>1, <2>1, <2>6, <1>l, OtherNodes DEF IInv
  <2> QED
    BY <2>1, <2>5, <2>7, <2>8, <2>9, <1>l DEF IInv
<1>8. ASSUME NEW n \in Nodes, Restart(n) PROVE IInv'
  <2>1. /\ last_applied' = [last_applied EXCEPT ![n] = 0]
        /\ store' = [store EXCEPT ![n] = Fresh]
        /\ current_snapshot' = [current_snapshot EXCEPT ![n] = NoSnapshot]
        /\ building' = [building EXCEPT ![n] = NoSnapshot]
        /\ installing' = [installing EXCEPT ![n] = NoSnapshot]
        /\ imported' = [imported EXCEPT ![n] = FALSE]
        /\ clean' = [clean EXCEPT ![n] = TRUE]
        /\ exact' = [exact EXCEPT ![n] = TRUE]
        /\ restarts' = restarts + 1
        /\ UNCHANGED <<log, builds>>
    BY <1>8 DEF Restart
  <2>2. TypeOK'
    BY <1>t, <1>n, <2>1, EmptyStores DEF TypeOK, log
  <2>3. /\ last_applied'[n] = 0 /\ store'[n] = Fresh
        /\ current_snapshot'[n] = NoSnapshot /\ building'[n] = NoSnapshot
        /\ installing'[n] = NoSnapshot /\ imported'[n] = FALSE
    BY <1>t, <2>1 DEF TypeOK
  <2>4. StoreOK(n)'
    <3>1. states[0 + 1] = Fresh
      BY DEF IInv, LogOK
    <3> QED
      BY <3>1, <2>1, <2>3, <1>l, EmptyStores DEF StoreOK, SameContents, SameRevisions
  <2>5. SnapshotsOK(n)'
    BY <1>n, <2>1, <2>3, <1>l DEF SnapshotsOK
  <2>6. ASSUME NEW m \in Nodes, m # n PROVE StoreOK(m)' /\ SnapshotsOK(m)'
    <3>1. /\ last_applied'[m] = last_applied[m] /\ store'[m] = store[m]
          /\ current_snapshot'[m] = current_snapshot[m] /\ building'[m] = building[m]
          /\ installing'[m] = installing[m] /\ imported'[m] = imported[m]
          /\ clean'[m] = clean[m] /\ exact'[m] = exact[m]
      BY <1>t, <2>1, <2>6 DEF TypeOK
    <3> QED
      BY <3>1, <2>1, <1>l, OtherNodes DEF IInv
  <2> QED
    BY <2>1, <2>2, <2>4, <2>5, <2>6, <1>l DEF IInv
<1>9. CASE UNCHANGED vars
  <2>1. /\ UNCHANGED <<log, last_applied, store, current_snapshot, building, installing, imported,
                       clean, exact, builds, restarts>>
        /\ states' = states /\ chosen' = chosen
    BY <1>9 DEF vars, log, snapshots, install, ghosts, counters
  <2>2. TypeOK'
    BY <1>t, <2>1 DEF TypeOK
  <2>3. ASSUME NEW n \in Nodes PROVE StoreOK(n)' /\ SnapshotsOK(n)'
    BY <2>1, OtherNodes DEF IInv
  <2> QED
    BY <2>1, <2>2, <2>3, <1>l DEF IInv
<1> QED
  BY <1>1, <1>2, <1>3, <1>4, <1>5, <1>6, <1>7, <1>8, <1>9 DEF Next, NodeStep

-----------------------------------------------------------------------------
(* The theorems.                                                           *)

LEMMA InvCorrect == Spec => []IInv
BY InitInv, StepInv, PTL DEF Spec

\* Type correctness: apply, the snapshots and restarts keep every variable in
\* its type; a node never counts an entry as applied that is not in the log.
THEOREM TypeCorrect == Spec => []TypeOK
<1>1. IInv => TypeOK
  BY DEF IInv
<1> QED
  BY <1>1, InvCorrect, PTL

\* Replicas agree on what the keys hold, whichever entries each of them applied
\* and whichever it got in a snapshot, for any number of nodes.
THEOREM ReplicasAgreeCorrect == Spec => []ReplicasAgree
<1>1. IInv => ReplicasAgree
  BY DEF IInv, ReplicasAgree, StoreOK, SnapshotsOK, Faithful, SameContents
<1> QED
  BY <1>1, InvCorrect, PTL

\* Replicas agree on every revision, unless they descend from a snapshot that
\* lost the counter.
THEOREM RevisionsAgreeCorrect == Spec => []RevisionsAgree
<1>1. IInv => RevisionsAgree
  BY DEF IInv, RevisionsAgree, StoreOK, SameRevisions
<1> QED
  BY <1>1, InvCorrect, PTL

=============================================================================
