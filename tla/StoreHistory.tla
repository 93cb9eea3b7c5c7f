---------------------------- MODULE StoreHistory ------------------------------
(***************************************************************************)
(* What has been written in Store stays as it is, so a set or delete sees  *)
(* the value it replaces and a read at a revision the value written there. *)
(***************************************************************************)
EXTENDS StoreCore

-----------------------------------------------------------------------------
(* What has been written stays as it is.                                   *)

\* The operators of Store on the history, before and after a step.
LEMMA Histories ==
  ASSUME NEW k, NEW r
  PROVE  /\ LastRev(k, r) = LastIn(key, k, r)
         /\ ValueAt(k, r) = ValueIn(key, values, k, r)
         /\ LastRev(k, r)' = LastIn(key', k, r)
         /\ ValueAt(k, r)' = ValueIn(key', values', k, r)
         /\ Before(r) = ValueIn(key, values, key[r], r - 1)
         /\ Before(r)' = ValueIn(key', values', key'[r], r - 1)
  BY DEF LastRev, IsLastRev, ValueAt, Before, LastIn, IsLast, ValueIn

\* A step changes no revision that is published, and what it pushes is new.
LEMMA HistoryStep ==
  ASSUME CoreInv, [Next]_vars
  PROVE  /\ rev \in Nat /\ rev' \in Nat /\ rev <= rev'
         /\ \A r \in 1..rev : r \in Revisions
         /\ \A r \in 1..rev : key'[r] = key[r] /\ required'[r] = required[r]
         /\ \A r \in 1..rev : Published(r) =>
              values'[r] = values[r] /\ old_value'[r] = old_value[r]
         /\ \A t \in Setters : spc'[t] = "pushed" =>
              \/ spc[t] = "pushed" /\ op'[t] = op[t] /\ new_rev'[t] = new_rev[t]
              \/ new_rev'[t] > rev
<1> USE DEF deque, history, items, setterVars, rangerVars
<1>0. TypeOK /\ rev \in Nat /\ MaxRev \in Nat /\ \A r \in 1..rev : r \in Revisions
  BY StoreAssumption DEF CoreInv, TypeOK, Revisions
<1> DEFINE Kept == /\ rev' \in Nat /\ rev <= rev'
                   /\ \A r \in 1..rev : key'[r] = key[r] /\ required'[r] = required[r]
           Same == \A r \in 1..rev : Published(r) =>
                     values'[r] = values[r] /\ old_value'[r] = old_value[r]
           Newer == \A t \in Setters : spc'[t] = "pushed" =>
                      \/ spc[t] = "pushed" /\ op'[t] = op[t] /\ new_rev'[t] = new_rev[t]
                      \/ new_rev'[t] > rev
<1> SUFFICES Kept /\ Same /\ Newer
  BY <1>0, Zenon
<1>1. ASSUME UNCHANGED <<rev, key, required, values, old_value>>
      PROVE  Kept /\ Same
  BY <1>0, <1>1
<1>2. ASSUME NEW t \in Setters,
             SetBegin(t) \/ SetEntry(t) \/ SetIndex(t) \/ SetFail(t) \/ SetFailed(t)
      PROVE  Kept /\ Same /\ Newer
  <2>1. /\ UNCHANGED <<rev, key, required, values, old_value, new_rev>>
        /\ spc'[t] # "pushed"
        /\ \A u \in Setters : u # t => spc'[u] = spc[u] /\ op'[u] = op[u]
    BY <1>0, <1>2, Zenon DEF SetBegin, SetEntry, SetIndex, SetFail, SetFailed, TypeOK
  <2> QED
    BY <1>1, <2>1, Zenon
<1>3. ASSUME NEW t \in Setters, SetPush(t)
      PROVE  Kept /\ Same /\ Newer
  <2>1. \A r \in 1..rev : r # rev + 1
    BY <1>0
  <2>2. Kept /\ Same
    BY <1>0, <1>3, <2>1 DEF SetPush, TypeOK
  <2>3. Newer
    BY <1>0, <1>3 DEF SetPush, TypeOK
  <2> QED
    BY <2>2, <2>3, Zenon
<1>4. ASSUME NEW t \in Setters, SetPublish(t)
      PROVE  Kept /\ Same /\ Newer
  <2>1. \A r \in 1..rev : Published(r) => r # new_rev[t]
    BY <1>4, Zenon DEF SetPublish, Published
  <2>2. Kept /\ Same
    BY <1>0, <1>4, <2>1 DEF SetPublish, TypeOK
  <2>3. Newer
    BY <1>0, <1>4, Zenon DEF SetPublish, TypeOK
  <2> QED
    BY <2>2, <2>3, Zenon
<1>5. ASSUME NEW g \in Rangers, RangeStep(g)
      PROVE  Kept /\ Same /\ Newer
  BY <1>1, <1>5, RangeStepFrame, Zenon
<1>6. ASSUME NEW c \in Revisions, Compact(c)
      PROVE  Kept /\ Same /\ Newer
  BY <1>1, <1>6, Zenon DEF Compact
<1>7. ASSUME NEW k \in Keys, NEW put \in BOOLEAN, ReplaySet(k, put)
      PROVE  Kept /\ Same /\ Newer
  <2>1. \A r \in 1..rev : r # rev + 1
    BY <1>0
  <2> QED
    BY <1>0, <1>7, <2>1 DEF ReplaySet, TypeOK
<1>8. CASE Serve \/ UNCHANGED vars
  BY <1>1, <1>8, Zenon DEF Serve, vars
<1> HIDE DEF Kept, Same, Newer
<1> QED
  BY <1>2, <1>3, <1>4, <1>5, <1>6, <1>7, <1>8, Zenon DEF Next, SetStep

\* What a key had at r stays, once no setter is about to publish up to r.
LEMMA SettledStep ==
  ASSUME CoreInv, [Next]_vars, NEW k, NEW r \in 0..rev, Settled(k, r)
  PROVE  /\ Settled(k, r)'
         /\ LastIn(key', k, r) = LastIn(key, k, r)
         /\ ValueIn(key', values', k, r) = ValueIn(key, values, k, r)
<1>0. rev \in Nat /\ r \in Nat
  BY HistoryStep
<1>1. ASSUME NEW p \in 1..r, key[p] = k
      PROVE  values'[p] = values[p]
  <2>1. p \in 1..rev
    BY <1>0
  <2>2. ASSUME NEW t \in Setters, spc[t] = "pushed", new_rev[t] = p
        PROVE  FALSE
    <3>1. op[t].key = k
      BY <1>1, <2>2, PushedFacts, Zenon
    <3> QED
      BY <1>0, <2>2, <3>1 DEF Settled
  <2>3. Published(p)
    BY <1>0, <2>1, <2>2 DEF Published
  <2> QED
    BY <2>1, <2>3, HistoryStep
<1>2. \A p \in 1..r : key'[p] = key[p]
  <2>1. \A p \in 1..r : p \in 1..rev
    BY <1>0
  <2> QED
    BY <2>1, HistoryStep
<1>3. ASSUME NEW t \in Setters, spc'[t] = "pushed", op'[t].key = k
      PROVE  new_rev'[t] > r
  <2>1. CASE spc[t] = "pushed" /\ op'[t] = op[t] /\ new_rev'[t] = new_rev[t]
    BY <1>3, <2>1 DEF Settled
  <2>2. CASE new_rev'[t] > rev
    <3>1. new_rev'[t] \in Nat
      BY TypeStep, Zenon DEF TypeOK
    <3> QED
      BY <1>0, <2>2, <3>1
  <2> QED
    BY <1>3, <2>1, <2>2, HistoryStep, Zenon
<1> QED
  BY <1>0, <1>1, <1>2, <1>3, ValueStable, SMT, Z3 DEF Settled

\* The latest_value of an item is the value of its key at any later revision up
\* to which nobody is about to publish.
LEMMA LatestIsLast ==
  ASSUME CoreInv, NEW k \in Keys, NEW r \in latest[k].mod..rev, Settled(k, r)
  PROVE  /\ LastIn(key, k, r) = latest[k].mod
         /\ ValueIn(key, values, k, r) = latest[k]
<1>0. /\ rev \in Nat /\ latest[k] \in Value /\ latest[k].mod \in 0..rev /\ r \in Nat
      /\ latest[k].mod \in 0..r /\ LatestOK(k)
  BY ItemFacts
<1>1. ASSUME NEW p \in (latest[k].mod + 1)..r, key[p] = k
      PROVE  FALSE
  <2>1. p \in (latest[k].mod + 1)..rev
    BY <1>0
  <2>2. lock[k] # NoThread /\ p = new_rev[lock[k]]
    BY <1>0, <1>1, <2>1, Zenon DEF LatestOK
  <2>3. lock[k] \in Setters /\ spc[lock[k]] = "pushed" /\ op[lock[k]].key = k
    BY <2>2, Zenon DEF CoreInv, LocksOK
  <2>4. p > r
    BY <2>2, <2>3, Zenon DEF Settled
  <2> QED
    BY <1>0, <2>4
<1>2. IsLast(key, latest[k].mod, k, r)
  BY <1>0, <1>1 DEF IsLast, LatestOK
<1>3. LastIn(key, k, r) = latest[k].mod
  BY <1>0, <1>2, LastIs, Zenon
<1> QED
  BY <1>0, <1>3 DEF ValueIn, LatestOK

\* Nobody is about to publish under an item that is not locked, nor before a
\* revision of the key that has been pushed.
LEMMA Settles ==
  ASSUME CoreInv
  PROVE  /\ \A k \in Keys, r \in Nat : Unlocked(k) => Settled(k, r)
         /\ \A r \in 1..rev : Settled(key[r], r - 1)
<1>1. ASSUME NEW k \in Keys, NEW r \in Nat, Unlocked(k)
      PROVE  Settled(k, r)
  <2>1. \A t \in Setters : spc[t] = "pushed" => lock[op[t].key] = t /\ t # NoThread
    BY PushedFacts, StoreAssumption, Zenon
  <2> QED
    BY <1>1, <2>1 DEF Settled, Unlocked
<1>2. ASSUME NEW r \in 1..rev
      PROVE  Settled(key[r], r - 1)
  <2> SUFFICES ASSUME NEW t \in Setters, spc[t] = "pushed", op[t].key = key[r]
               PROVE  new_rev[t] > r - 1
    BY DEF Settled
  <2>1. rev \in Nat /\ latest[key[r]].mod \in Nat
    BY PushedFacts, ItemFacts
  <2>2. /\ new_rev[t] \in 1..rev /\ new_rev[t] > latest[key[r]].mod
        /\ \A p \in (latest[key[r]].mod + 1)..rev : key[p] = key[r] => p = new_rev[t]
    BY PushedFacts
  <2>3. r > latest[key[r]].mod => r = new_rev[t]
    BY <2>1, <2>2
  <2> QED
    BY <2>1, <2>2, <2>3
<1> QED
  BY <1>1, <1>2

\* What a write replaced is settled when it is pushed.
LEMMA BeforeStep ==
  ASSUME CoreInv, [Next]_vars, NEW r \in 1..rev
  PROVE  Before(r)' = Before(r)
<1>1. rev \in Nat /\ key'[r] = key[r] /\ r - 1 \in 0..rev
  BY HistoryStep
<1>2. Settled(key[r], r - 1)
  BY Settles
<1>3. PICK k, p : k = key[r] /\ p = r - 1
  OBVIOUS
<1>4. ValueIn(key', values', k, p) = ValueIn(key, values, k, p)
  BY <1>1, <1>2, <1>3, SettledStep
<1> QED
  BY <1>1, <1>3, <1>4, Histories, Zenon

\* A write under an item that is not locked replaces its latest_value.
LEMMA NextReplacesLatest ==
  ASSUME CoreInv, [Next]_vars, NEW k \in Keys, Unlocked(k),
         NEW n \in Nat, n = rev + 1, key'[n] = k
  PROVE  Before(n)' = latest[k]
<1>1. rev \in Nat /\ rev \in 0..rev /\ rev \in latest[k].mod..rev
  BY ItemFacts
<1>2. Settled(k, rev)
  BY <1>1, Settles
<1>3. PICK m \in Nat : m = rev /\ n - 1 = m
  BY <1>1
<1>4. ValueIn(key', values', k, m) = latest[k]
  BY <1>1, <1>2, <1>3, SettledStep, LatestIsLast
<1> QED
  BY <1>3, <1>4, Histories, Zenon

\* A revision that a step publishes has the value that NewValue makes of the
\* latest_value of its item, which is the value it replaced.
LEMMA PublishStep ==
  ASSUME CoreInv, [Next]_vars, NEW r \in Revisions, Published(r)', ~Published(r)
  PROVE  \E k \in Keys, put \in BOOLEAN :
           /\ put \/ latest[k].live
           /\ Before(r)' = latest[k]
           /\ values'[r] = NewValue(latest[k], put, r)
           /\ old_value'[r] \in {NoValue, latest[k]}
<1> USE DEF deque, history, items, setterVars, rangerVars
<1> DEFINE Goal(k, put) == /\ put \/ latest[k].live
                           /\ Before(r)' = latest[k]
                           /\ values'[r] = NewValue(latest[k], put, r)
                           /\ old_value'[r] \in {NoValue, latest[k]}
<1> SUFFICES \E k \in Keys, put \in BOOLEAN : Goal(k, put)
  OBVIOUS
<1>0. TypeOK /\ rev \in Nat /\ r \in Nat
  BY HistoryStep, RevisionsNat DEF CoreInv
<1>1. ASSUME rev' = rev,
             \A t \in Setters : spc[t] = "pushed" => spc'[t] = "pushed" /\ new_rev'[t] = new_rev[t]
      PROVE  FALSE
  BY <1>1 DEF Published
<1>2. ASSUME NEW t \in Setters,
             SetBegin(t) \/ SetEntry(t) \/ SetIndex(t) \/ SetFail(t) \/ SetFailed(t)
      PROVE  FALSE
  <2>1. /\ rev' = rev /\ new_rev' = new_rev /\ spc[t] # "pushed"
        /\ \A u \in Setters : u # t => spc'[u] = spc[u]
    BY <1>0, <1>2, Zenon DEF SetBegin, SetEntry, SetIndex, SetFail, SetFailed, TypeOK
  <2> QED
    BY <1>1, <2>1
<1>3. ASSUME NEW t \in Setters, SetPush(t)
      PROVE  FALSE
  <2>1. /\ rev' = rev + 1 /\ spc[t] # "pushed" /\ spc'[t] = "pushed" /\ new_rev'[t] = rev + 1
        /\ \A u \in Setters : u # t => spc'[u] = spc[u] /\ new_rev'[u] = new_rev[u]
    BY <1>0, <1>3, Zenon DEF SetPush, TypeOK
  <2>2. r <= rev + 1 /\ r # rev + 1
    BY <2>1 DEF Published
  <2>3. r <= rev
    BY <1>0, <2>2
  <2> QED
    BY <2>1, <2>3 DEF Published
<1>4. ASSUME NEW t \in Setters, SetPublish(t)
      PROVE  \E k \in Keys, put \in BOOLEAN : Goal(k, put)
  <2>1. /\ rev' = rev /\ spc[t] = "pushed" /\ new_rev[t] \in 1..rev
        /\ \A u \in Setters : u # t => spc'[u] = spc[u] /\ new_rev'[u] = new_rev[u]
    <3>1. /\ rev' = rev /\ spc[t] = "pushed" /\ spc' = [spc EXCEPT ![t] = "idle"]
          /\ new_rev' = [new_rev EXCEPT ![t] = 0]
      BY <1>4, Zenon DEF SetPublish
    <3>2. DOMAIN spc = Setters /\ DOMAIN new_rev = Setters
      BY <1>0, Zenon DEF TypeOK
    <3> QED
      BY <3>1, <3>2, PushedFacts
  <2>2. r = new_rev[t] /\ r \in 1..rev
    BY <2>1 DEF Published
  <2>3. PICK k \in Keys, put \in BOOLEAN : k = op[t].key /\ put = op[t].put
    BY <2>1, PushedFacts, Zenon
  <2>4. put \/ latest[k].live
    BY <2>1, <2>3, PushedFacts, Zenon
  <2>5. values'[r] = NewValue(latest[k], put, r) /\ old_value'[r] = OldValue(t)
    <3>1. r \in DOMAIN values /\ r \in DOMAIN old_value
      BY <1>0, <2>1, <2>2, PushedFacts, Zenon DEF TypeOK
    <3> QED
      BY <1>4, <2>2, <2>3, <3>1, Zenon DEF SetPublish
  <2>6. key[r] = k /\ r > latest[k].mod
    BY <2>1, <2>2, <2>3, PushedFacts, Zenon
  <2>7. r - 1 \in latest[k].mod..rev /\ Settled(k, r - 1)
    <3>1. latest[k].mod \in Nat
      BY ItemFacts
    <3> QED
      BY <1>0, <2>2, <2>6, <3>1, Settles, SMT, Z3
  <2>8. Before(r) = latest[k]
    BY <2>6, <2>7, LatestIsLast, Histories, Zenon
  <2>9. Before(r)' = Before(r)
    BY <2>2, BeforeStep, Zenon
  <2> QED
    BY <2>3, <2>4, <2>5, <2>8, <2>9, Zenon DEF OldValue
<1>5. ASSUME NEW g \in Rangers, RangeStep(g)
      PROVE  FALSE
  BY <1>1, <1>5, RangeStepFrame
<1>6. ASSUME NEW c \in Revisions, Compact(c)
      PROVE  FALSE
  BY <1>1, <1>6 DEF Compact
<1>7. ASSUME NEW k \in Keys, NEW put \in BOOLEAN, ReplaySet(k, put)
      PROVE  Goal(k, put)
  <2>1. \A t \in Setters : spc[t] = "idle"
    BY <1>7, Zenon DEF CoreInv, AloneOK, ReplaySet
  <2>2. rev' = rev + 1 /\ lock[k] = NoThread
    BY <1>7, <2>1, Zenon DEF ReplaySet, CoreInv, LocksOK
  <2>3. r = rev + 1
    BY <1>0, <2>1, <2>2 DEF Published
  <2>4. /\ values'[r] = NewValue(latest[k], put, r) /\ old_value'[r] = latest[k]
        /\ key'[r] = k /\ (put \/ latest[k].live)
    BY <1>0, <1>7, <2>3, Zenon DEF ReplaySet, TypeOK
  <2>5. Before(r)' = latest[k]
    BY <1>0, <2>2, <2>3, <2>4, NextReplacesLatest DEF Unlocked
  <2> QED
    BY <2>4, <2>5
<1>8. CASE Serve \/ UNCHANGED vars
  BY <1>1, <1>8, Zenon DEF Serve, vars
<1> HIDE DEF Goal
<1> QED
  BY <1>2, <1>3, <1>4, <1>5, <1>6, <1>7, <1>8 DEF Next, SetStep

-----------------------------------------------------------------------------
(* The properties of set and delete.                                       *)

\* Every step keeps the versions of a key one chain.
LEMMA VersionChainStep ==
  ASSUME CoreInv, VersionChain, [Next]_vars
  PROVE  VersionChain'
<1> SUFFICES ASSUME NEW r \in Revisions, Published(r)'
             PROVE  /\ values'[r] = NewValue(Before(r)', values'[r].live, r)
                    /\ values'[r].live \/ Before(r)'.live
  BY DEF VersionChain
<1>1. CASE Published(r)
  <2>1. r \in 1..rev
    BY <1>1, HistoryStep, SMT, Z3 DEF Published, Revisions
  <2>2. values'[r] = values[r] /\ Before(r)' = Before(r)
    BY <1>1, <2>1, HistoryStep, BeforeStep, Zenon
  <2> QED
    BY <1>1, <2>2 DEF VersionChain
<1>2. CASE ~Published(r)
  <2>1. PICK k \in Keys, put \in BOOLEAN :
          /\ put \/ latest[k].live
          /\ Before(r)' = latest[k]
          /\ values'[r] = NewValue(latest[k], put, r)
    BY <1>2, PublishStep
  <2>2. values'[r].live = put
    <3>1. latest[k] \in Value /\ r \in Nat
      BY ItemFacts, RevisionsNat
    <3> QED
      BY <2>1, <3>1, NewValueFacts
  <2> QED
    BY <2>1, <2>2
<1> QED
  BY <1>1, <1>2

\* Every step keeps the old_value of the events right.
LEMMA PrevNotStaleStep ==
  ASSUME CoreInv, PrevNotStale, [Next]_vars
  PROVE  PrevNotStale'
<1> SUFFICES ASSUME NEW r \in Revisions, Published(r)'
             PROVE  old_value'[r] \in {NoValue, Before(r)'}
  BY DEF PrevNotStale
<1>1. CASE Published(r)
  <2>1. r \in 1..rev
    BY <1>1, HistoryStep, SMT, Z3 DEF Published, Revisions
  <2>2. old_value'[r] = old_value[r] /\ Before(r)' = Before(r)
    BY <1>1, <2>1, HistoryStep, BeforeStep, Zenon
  <2> QED
    BY <1>1, <2>2 DEF PrevNotStale
<1>2. CASE ~Published(r)
  BY <1>2, PublishStep
<1> QED
  BY <1>1, <1>2

\* A set with a compare gets past its checks on the revision it names only.
LEMMA PermitsEqual ==
  ASSUME NEW v \in Value, NEW put \in BOOLEAN,
         NEW q \in [last : Int, version : Int, compare : Compares],
         Permits(v, put, q), q.compare = "EQUAL", v.live => v.mod > 0
  PROVE  /\ q.last > 0 => v.live /\ v.mod = q.last
         /\ q.last = 0 => ~v.live
  BY DEF Permits, Satisfied, Value

\* A value in an item that is live has a revision.
LEMMA LiveHasRevision ==
  ASSUME CoreInv, NEW k \in Keys
  PROVE  latest[k].live => latest[k].mod > 0
<1>1. LatestOK(k) /\ latest[k].mod \in Nat
  BY ItemFacts
<1> QED
  BY <1>1, NoValueFacts DEF LatestOK

\* Every step keeps what the compares promise.
LEMMA CompareExcludesStep ==
  ASSUME CoreInv, CompareExcludes, [Next]_vars
  PROVE  CompareExcludes'
<1> USE DEF deque, history, items, setterVars, rangerVars
<1> SUFFICES ASSUME NEW r \in Revisions, r <= rev', required'[r].compare = "EQUAL"
             PROVE  /\ required'[r].last > 0 =>
                         Before(r)'.live /\ Before(r)'.mod = required'[r].last
                    /\ required'[r].last = 0 => ~Before(r)'.live
  BY Zenon DEF CompareExcludes
<1>0. TypeOK /\ RequiredOK /\ rev \in Nat /\ r \in Nat /\ r > 0
  BY HistoryStep DEF CoreInv, Revisions
<1>1. CASE r <= rev
  <2>1. r \in 1..rev
    BY <1>0, <1>1
  <2>2. required'[r] = required[r] /\ Before(r)' = Before(r)
    BY <2>1, HistoryStep, BeforeStep, Zenon
  <2> QED
    BY <1>1, <2>2 DEF CompareExcludes
<1>2. CASE r > rev
  <2>1. ASSUME NEW t \in Setters, SetPush(t)
        PROVE  /\ required'[r].last > 0 =>
                    Before(r)'.live /\ Before(r)'.mod = required'[r].last
               /\ required'[r].last = 0 => ~Before(r)'.live
    <3>1. op[t] \in Op /\ op[t].key \in Keys /\ op[t].put \in BOOLEAN
      BY <2>1, OpFacts, Zenon DEF SetPush
    <3>2. r = rev + 1
      BY <1>0, <1>2, <2>1 DEF SetPush
    <3>3. PICK k \in Keys : k = op[t].key
      BY <3>1, Zenon
    <3>4. required'[r] = op[t].required /\ key'[r] = k
      BY <1>0, <2>1, <3>2, <3>3, Zenon DEF SetPush, TypeOK
    <3>5. Before(r)' = latest[k]
      BY <1>0, <2>1, <3>2, <3>3, <3>4, NextReplacesLatest, Zenon DEF SetPush
    <3>6. Permits(latest[k], op[t].put, op[t].required)
      BY <2>1, <3>3, Zenon, SMT DEF SetPush, Allowed
    <3>7. op[t].required \in [last : Int, version : Int, compare : Compares]
      <4>1. Anything \in [last : Int, version : Int, compare : Compares]
        BY DEF Anything, Compares
      <4> QED
        BY <3>1, <4>1, StoreAssumption DEF Op
    <3>8. latest[k] \in Value /\ (latest[k].live => latest[k].mod > 0)
      BY ItemFacts, LiveHasRevision, Zenon
    <3> QED
      BY <3>1, <3>4, <3>5, <3>6, <3>7, <3>8, PermitsEqual
  <2>2. ASSUME required' = required
        PROVE  ~(required'[r].last > 0) /\ ~(required'[r].last = 0)
    BY <1>0, <1>2, <2>2 DEF RequiredOK, Anything
  <2>3. (\A t \in Setters : ~SetPush(t)) => required' = required
    <3>1. ASSUME NEW t \in Setters, SetStep(t), ~SetPush(t)
          PROVE  required' = required
      BY <3>1, Zenon DEF SetStep, SetBegin, SetEntry, SetIndex, SetFail, SetFailed, SetPublish
    <3>2. ASSUME NEW g \in Rangers, RangeStep(g)
          PROVE  required' = required
      BY <3>2, RangeStepFrame
    <3> QED
      BY <3>1, <3>2, Zenon DEF Next, Compact, ReplaySet, Serve, vars
  <2> QED
    BY <2>1, <2>2, <2>3
<1> QED
  BY <1>0, <1>1, <1>2

\* An item that nobody holds agrees with values_by_revision.
LEMMA ItemsAgree == ASSUME CoreInv PROVE ItemsMatchLog
<1> SUFFICES ASSUME NEW k \in Keys, Unlocked(k)
             PROVE  /\ latest[k] = ValueAt(k, rev)
                    /\ RevisionsOK(k)
                    /\ \A r \in (earliest + 1)..rev : key[r] = k => r <= latest[k].mod
  <2>1. earliest \in Nat /\ rev \in Nat /\ \A j \in Keys : latest[j].mod \in 0..rev
    BY ItemFacts, StoreAssumption DEF CoreInv, TypeOK
  <2>2. \A e, m, n \in Nat : \A r \in (e + 1)..n : r <= m => r \in (e + 1)..m
    OBVIOUS
  <2> QED
    BY <2>1, <2>2, SMT, Z3 DEF ItemsMatchLog, RevisionsOK
<1>1. /\ rev \in Nat /\ rev \in latest[k].mod..rev /\ RevisionsOK(k) /\ LatestOK(k)
      /\ earliest \in Nat /\ latest[k].mod \in Nat
  BY ItemFacts
<1>2. latest[k] = ValueAt(k, rev)
  <2>1. Settled(k, rev)
    BY <1>1, Settles, Zenon
  <2>2. latest[k] = ValueIn(key, values, k, rev)
    BY <1>1, <2>1, LatestIsLast, Zenon
  <2> QED
    BY <1>1, <2>2, Histories
<1>3. ASSUME NEW r \in (earliest + 1)..rev, key[r] = k
      PROVE  r <= latest[k].mod
  BY <1>1, <1>3 DEF LatestOK, Unlocked
<1> QED
  BY <1>1, <1>2, <1>3

-----------------------------------------------------------------------------
(* The properties of range.                                                *)

\* A live value that find_value_for_revision finds in an item that nobody holds
\* is the value of the key at r, and it finds every one that is not compacted.
LEMMA FindIsValue ==
  ASSUME CoreInv, NEW k \in Keys, NEW r \in 0..rev, Unlocked(k)
  PROVE  /\ HasValue(k, r) => FindValue(k, r) = ValueIn(key, values, k, r)
         /\ LastIn(key, k, r) > earliest => FindValue(k, r) = ValueIn(key, values, k, r)
<1> DEFINE q == LastIn(key, k, r)
<1>0. /\ TypeOK /\ rev \in Nat /\ earliest \in Nat /\ latest[k].mod \in 0..rev /\ r \in Nat
      /\ Len(revisions[k]) \in Nat
      /\ \A i \in 1..Len(revisions[k]) : revisions[k][i] \in 1..rev
      /\ RevisionsOK(k)
  BY ItemFacts DEF CoreInv
<1>1. q \in 0..r /\ IsLast(key, q, k, r)
  BY <1>0, LastExists
<1> HIDE DEF q
<1>2. CASE r >= latest[k].mod /\ FindValue(k, r) = latest[k]
  <2>1. r \in latest[k].mod..rev /\ Settled(k, r)
    BY <1>0, <1>2, Settles
  <2> QED
    BY <1>2, <2>1, LatestIsLast, Zenon
<1>3. ASSUME r < latest[k].mod, NEW p \in (earliest + 1)..r, key[p] = k
      PROVE  \E i \in UpTo(k, r) : revisions[k][i] = p
  <2>1. p \in (earliest + 1)..latest[k].mod
    BY <1>0, <1>3
  <2>2. PICK i \in 1..Len(revisions[k]) : revisions[k][i] = p
    BY <1>0, <1>3, <2>1, Zenon DEF RevisionsOK
  <2> QED
    BY <1>0, <2>2 DEF UpTo
<1>4. ASSUME r < latest[k].mod, q > earliest
      PROVE  \E i \in UpTo(k, r) : revisions[k][i] = q
  <2>1. q \in (earliest + 1)..r /\ key[q] = k
    BY <1>0, <1>1, <1>4, SMT, Z3 DEF IsLast
  <2> QED
    BY <1>3, <1>4, <2>1
<1>5. CASE r < latest[k].mod /\ UpTo(k, r) = {} /\ FindValue(k, r) = NoValue
  BY <1>4, <1>5, NoValueFacts DEF HasValue, q
<1>6. ASSUME r < latest[k].mod, NEW i \in UpTo(k, r), \A j \in UpTo(k, r) : j <= i,
             FindValue(k, r) = Get(revisions[k][i])
      PROVE  /\ HasValue(k, r) => FindValue(k, r) = ValueIn(key, values, k, r)
             /\ q > earliest => FindValue(k, r) = ValueIn(key, values, k, r)
  <2>1. PICK p \in 1..rev : p = revisions[k][i] /\ p <= r /\ key[p] = k
    BY <1>0, <1>6, Zenon DEF UpTo, RevisionsOK
  <2>2. \A j \in UpTo(k, r) : revisions[k][j] <= p
    <3>1. \A j \in UpTo(k, r) : j = i \/ j < i
      BY <1>0, <1>6, SMT, Z3 DEF UpTo
    <3>2. \A j \in UpTo(k, r) : j < i => revisions[k][j] < revisions[k][i]
      BY <1>0, <1>6, Zenon DEF UpTo, RevisionsOK
    <3>3. \A j \in UpTo(k, r) : revisions[k][j] \in Int
      BY <1>0 DEF UpTo
    <3> QED
      BY <2>1, <3>1, <3>2, <3>3
  <2>3. p <= q
    <3>1. p \notin (q + 1)..r
      BY <1>1, <2>1 DEF IsLast
    <3> QED
      BY <1>0, <1>1, <2>1, <3>1
  <2>4. q > earliest => q = p
    BY <1>0, <1>1, <1>4, <1>6, <2>1, <2>2, <2>3, SMT, Z3
  <2>5. p > earliest => q = p
    BY <1>0, <1>1, <2>1, <2>3, <2>4
  <2>6. FindValue(k, r).live => p > earliest
    BY <1>0, <1>6, <2>1, NoValueFacts, Zenon, SMT DEF Get
  <2>7. p > earliest /\ q = p => FindValue(k, r) = ValueIn(key, values, k, r)
    BY <1>0, <1>6, <2>1 DEF Get, ValueIn, q
  <2> QED
    BY <2>4, <2>5, <2>6, <2>7 DEF HasValue
<1> QED
  BY <1>0, <1>2, <1>5, <1>6, FindFacts, Zenon DEF q

=============================================================================
