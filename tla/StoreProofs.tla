----------------------------- MODULE StoreProofs ------------------------------
(***************************************************************************)
(* Proofs of the properties of Store, for any threads, keys, requirements  *)
(* and limits and any bounds on the revisions.                             *)
(***************************************************************************)
EXTENDS StoreHistory, FiniteSetTheorems

-----------------------------------------------------------------------------
(* The properties of range.                                                *)

\* The keys that g has visited.
Visited(g) == prefix_map \ todo[g]

\* Those of them that it must have counted.
Due(g) == {k \in Visited(g) : /\ LastIn(key, k, at[g]) > earliest
                              /\ ValueIn(key, values, k, at[g]).live}

\* A scan has read what is settled, and has listed every key that is due unless
\* it was at its limit.
ScanOK(g) ==
  /\ rpc[g] # "idle" => at[g] <= rev
  /\ rpc[g] \in {"idle", "begun"} => kvs[g] = <<>> /\ count[g] = 0
  /\ rpc[g] = "scan" =>
       /\ todo[g] \subseteq prefix_map
       /\ \A k \in Visited(g) : Settled(k, at[g])
       /\ \A i \in 1..Len(kvs[g]) : /\ kvs[g][i][1] \in Visited(g)
                                    /\ \A k \in todo[g] : kvs[g][i][1] < k
       /\ \A k \in Due(g) :
            Len(kvs[g]) = limit[g] \/ \E i \in 1..Len(kvs[g]) : kvs[g][i][1] = k

\* What RangeSound says of one range.
SoundFor(g) ==
  rpc[g] = "scan" =>
    /\ \A i \in 1..Len(kvs[g]) :
         /\ kvs[g][i][2] = ValueIn(key, values, kvs[g][i][1], at[g])
         /\ kvs[g][i][2].live
    /\ \A i, j \in 1..Len(kvs[g]) : i < j => kvs[g][i][1] < kvs[g][j][1]
    /\ Len(kvs[g]) = IF count[g] < limit[g] THEN count[g] ELSE limit[g]

\* A step of a scan counts the key that it makes due.
Counts(g) ==
  rpc'[g] = "scan" =>
    \/ Due(g)' = {}
    \/ rpc[g] = "scan" /\ count'[g] = count[g] /\ Due(g)' \subseteq Due(g)
    \/ /\ rpc[g] = "scan" /\ count'[g] = count[g] + 1
       /\ \E k \in Keys : Due(g)' \subseteq Due(g) \cup {k}

\* What is known of the numbers of a range.
LEMMA RangeFacts ==
  ASSUME CoreInv, NEW g \in Rangers
  PROVE  /\ rev \in Nat /\ earliest \in Nat
         /\ at[g] \in Nat /\ limit[g] \in Nat /\ count[g] \in Nat
         /\ kvs[g] \in Seq(Keys \X Value) /\ Len(kvs[g]) \in Nat
         /\ todo[g] \subseteq Keys /\ prefix_map \subseteq Keys
  BY StoreAssumption DEF CoreInv, TypeOK

\* The prefix_map grows only while nobody scans it, and the earliest revision
\* only moves up.
LEMMA IndexStep ==
  ASSUME CoreInv, [Next]_vars
  PROVE  /\ earliest \in Nat /\ earliest' \in Nat /\ earliest <= earliest'
         /\ \A g \in Rangers : rpc[g] = "scan" => prefix_map' = prefix_map
<1> USE DEF deque, history, items, setterVars, rangerVars
<1>0. TypeOK /\ earliest \in Nat /\ earliest' \in Nat
  BY TypeStep, Zenon DEF CoreInv, TypeOK
<1>1. ASSUME NEW t \in Setters, SetStep(t)
      PROVE  /\ earliest' = earliest
             /\ \A g \in Rangers : rpc[g] = "scan" => prefix_map' = prefix_map
  BY <1>1, Zenon DEF SetStep, SetBegin, SetEntry, SetIndex, SetFail, SetFailed, SetPush, SetPublish
<1>2. ASSUME NEW g \in Rangers, RangeStep(g)
      PROVE  earliest' = earliest /\ prefix_map' = prefix_map
  BY <1>2, RangeStepFrame
<1>3. ASSUME NEW c \in Revisions, Compact(c)
      PROVE  earliest <= earliest' /\ prefix_map' = prefix_map
  BY <1>0, <1>3 DEF Compact, IndexOf, Revisions
<1>4. ASSUME NEW k \in Keys, NEW put \in BOOLEAN, ReplaySet(k, put)
      PROVE  earliest' = earliest /\ \A g \in Rangers : rpc[g] = "idle"
  BY <1>4, Zenon DEF ReplaySet, CoreInv, AloneOK
<1>5. Serve \/ UNCHANGED vars => earliest' = earliest /\ prefix_map' = prefix_map
  BY Zenon DEF Serve, vars
<1>6. earliest' = earliest => earliest <= earliest'
  BY <1>0
<1> QED
  BY <1>0, <1>1, <1>2, <1>3, <1>4, <1>5, <1>6 DEF Next

\* A step that is not g's leaves what g has read as it was, and may only take
\* from what is due.
LEMMA ScanFrame ==
  ASSUME CoreInv, [Next]_vars, NEW g \in Rangers, ScanOK(g), SoundFor(g),
         /\ rpc'[g] = rpc[g] /\ at'[g] = at[g] /\ limit'[g] = limit[g]
         /\ todo'[g] = todo[g] /\ kvs'[g] = kvs[g] /\ count'[g] = count[g]
  PROVE  ScanOK(g)' /\ SoundFor(g)' /\ Counts(g)
<1>0. /\ rev \in Nat /\ rev' \in Nat /\ rev <= rev' /\ earliest \in Nat /\ earliest' \in Nat
      /\ earliest <= earliest' /\ at[g] \in Nat /\ limit[g] \in Nat /\ count[g] \in Nat
  BY HistoryStep, IndexStep, RangeFacts, Zenon
<1>1. (rpc[g] # "idle" => at[g] <= rev)'
  BY <1>0 DEF ScanOK
<1>2. CASE rpc[g] # "scan"
  BY <1>1, <1>2, Zenon DEF ScanOK, SoundFor, Counts
<1>3. CASE rpc[g] = "scan"
  <2>1. /\ prefix_map' = prefix_map /\ at[g] \in 0..rev
        /\ \A k \in Visited(g) : Settled(k, at[g])
    BY <1>0, <1>3, IndexStep DEF ScanOK
  <2>2. Visited(g)' = Visited(g)
    BY <2>1 DEF Visited
  <2>3. PICK r \in 0..rev : r = at[g]
    BY <2>1
  <2>4. \A k \in Visited(g) :
          /\ Settled(k, r)'
          /\ LastIn(key', k, r) = LastIn(key, k, r)
          /\ ValueIn(key', values', k, r) = ValueIn(key, values, k, r)
    BY <2>1, <2>3, SettledStep, Zenon
  <2>5. \A k \in Visited(g)' : Settled(k, at[g])'
    BY <2>2, <2>3, <2>4, Zenon DEF Settled
  <2>6. Due(g)' \subseteq Due(g)
    <3> SUFFICES ASSUME NEW k \in Visited(g), LastIn(key', k, at'[g]) > earliest',
                        ValueIn(key', values', k, at'[g]).live
                 PROVE  k \in Due(g)
      BY <2>2, Zenon DEF Due
    <3>1. LastIn(key, k, r) > earliest' /\ ValueIn(key, values, k, r).live
      BY <2>3, <2>4, Zenon
    <3>2. LastIn(key, k, r) \in Nat
      BY <2>3, <1>0, LastExists
    <3> QED
      BY <1>0, <2>3, <3>1, <3>2 DEF Due
  <2>7. Counts(g)
    BY <1>3, <2>6 DEF Counts
  <2>8. ScanOK(g)'
    <3>1. /\ todo[g] \subseteq prefix_map
          /\ \A i \in 1..Len(kvs[g]) : /\ kvs[g][i][1] \in Visited(g)
                                       /\ \A k \in todo[g] : kvs[g][i][1] < k
          /\ \A k \in Due(g) :
               Len(kvs[g]) = limit[g] \/ \E i \in 1..Len(kvs[g]) : kvs[g][i][1] = k
      BY <1>3, Zenon DEF ScanOK
    <3>2. /\ rpc'[g] \notin {"idle", "begun"} /\ todo'[g] \subseteq prefix_map'
      BY <1>3, <2>1, <3>1, Zenon
    <3>3. \A i \in 1..Len(kvs'[g]) : /\ kvs'[g][i][1] \in Visited(g)'
                                     /\ \A k \in todo'[g] : kvs'[g][i][1] < k
      BY <2>2, <3>1, Zenon
    <3>4. \A k \in Due(g)' :
            Len(kvs'[g]) = limit'[g] \/ \E i \in 1..Len(kvs'[g]) : kvs'[g][i][1] = k
      BY <2>6, <3>1, Zenon
    <3> QED
      BY <1>1, <2>5, <3>2, <3>3, <3>4, Zenon, SMT DEF ScanOK
  <2>9. SoundFor(g)'
    <3>1. \A i \in 1..Len(kvs[g]) : kvs[g][i][1] \in Visited(g)
      BY <1>3, Zenon DEF ScanOK
    <3>2. \A i \in 1..Len(kvs'[g]) :
            /\ kvs'[g][i][2] = ValueIn(key', values', kvs'[g][i][1], at'[g])
            /\ kvs'[g][i][2].live
      BY <1>3, <2>3, <2>4, <3>1, SMT, Z3 DEF SoundFor
    <3>3. /\ \A i, j \in 1..Len(kvs'[g]) : i < j => kvs'[g][i][1] < kvs'[g][j][1]
          /\ Len(kvs'[g]) = IF count'[g] < limit'[g] THEN count'[g] ELSE limit'[g]
      BY <1>3, Zenon DEF SoundFor
    <3> QED
      BY <3>2, <3>3, Zenon, SMT DEF SoundFor
  <2> QED
    BY <2>7, <2>8, <2>9
<1> QED
  BY <1>2, <1>3

\* A turn of the loop counts and lists what is due of the key it visits.
LEMMA ReadStep ==
  ASSUME CoreInv, NEW g \in Rangers, ScanOK(g), SoundFor(g), RangeRead(g)
  PROVE  ScanOK(g)' /\ SoundFor(g)' /\ Counts(g)
<1> USE DEF deque, history, items, setterVars, rangerVars
<1>0. /\ TypeOK /\ rev \in Nat /\ earliest \in Nat
      /\ at[g] \in Nat /\ limit[g] \in Nat /\ count[g] \in Nat
      /\ kvs[g] \in Seq(Keys \X Value) /\ Len(kvs[g]) \in Nat
      /\ todo[g] \subseteq Keys /\ prefix_map \subseteq Keys
  BY RangeFacts DEF CoreInv
<1>1. /\ rpc[g] = "scan" /\ rpc' = rpc /\ at' = at /\ limit' = limit
      /\ rev' = rev /\ earliest' = earliest /\ key' = key /\ values' = values
      /\ prefix_map' = prefix_map /\ spc' = spc /\ op' = op /\ new_rev' = new_rev
  BY Zenon DEF RangeRead
<1>2. /\ at[g] \in 0..rev
      /\ todo[g] \subseteq prefix_map
      /\ \A j \in Visited(g) : Settled(j, at[g])
  BY <1>0, <1>1, SMT, Z3 DEF ScanOK
<1>2a. \A i \in 1..Len(kvs[g]) : /\ kvs[g][i][1] \in Visited(g)
                                 /\ \A j \in todo[g] : kvs[g][i][1] < j
  BY <1>1, Zenon DEF ScanOK
<1>2b. \A j \in Due(g) :
         Len(kvs[g]) = limit[g] \/ \E i \in 1..Len(kvs[g]) : kvs[g][i][1] = j
  BY <1>1, Zenon DEF ScanOK
<1>3. \A i \in 1..Len(kvs[g]) : /\ kvs[g][i][2] = ValueIn(key, values, kvs[g][i][1], at[g])
                                /\ kvs[g][i][2].live
  BY <1>1, Zenon DEF SoundFor
<1>3a. \A i, j \in 1..Len(kvs[g]) : i < j => kvs[g][i][1] < kvs[g][j][1]
  BY <1>1, Zenon DEF SoundFor
<1>3b. Len(kvs[g]) = IF count[g] < limit[g] THEN count[g] ELSE limit[g]
  BY <1>1, Zenon DEF SoundFor
<1>4. PICK k \in Keys :
        /\ IsNext(g, k) /\ Unlocked(k)
        /\ todo'[g] = todo[g] \ {k}
        /\ count'[g] = IF HasValue(k, at[g]) THEN count[g] + 1 ELSE count[g]
        /\ kvs'[g] = IF HasValue(k, at[g]) /\ count[g] < limit[g]
                       THEN Append(kvs[g], <<k, FindValue(k, at[g])>>) ELSE kvs[g]
  BY <1>0, Zenon DEF RangeRead, TypeOK
<1>5. PICK v \in Value : v = FindValue(k, at[g])
  BY <1>0, FindType
<1>6. /\ v.live => v = ValueIn(key, values, k, at[g])
      /\ LastIn(key, k, at[g]) > earliest => v = ValueIn(key, values, k, at[g])
      /\ HasValue(k, at[g]) <=> v.live
  BY <1>2, <1>4, <1>5, FindIsValue, Zenon, SMT DEF HasValue
<1>7. k \in todo[g] /\ k \notin Visited(g) /\ \A j \in todo'[g] : j \in todo[g] /\ k < j
  BY <1>0, <1>4 DEF IsNext, Visited, Keys
<1>8. Visited(g)' = Visited(g) \cup {k}
  BY <1>1, <1>2, <1>4, <1>7, Zenon, SMT DEF Visited
<1>9. /\ count'[g] = IF v.live THEN count[g] + 1 ELSE count[g]
      /\ kvs'[g] = IF v.live /\ count[g] < limit[g] THEN Append(kvs[g], <<k, v>>) ELSE kvs[g]
  BY <1>4, <1>5, <1>6, Zenon
<1>10. \A j \in Visited(g)' : Settled(j, at[g])'
  <2>1. Settled(k, at[g])
    BY <1>0, <1>4, Settles, Zenon
  <2> QED
    BY <1>1, <1>2, <1>8, <2>1, Zenon, SMT DEF Settled
<1>11. Due(g)' \subseteq Due(g) \cup (IF v.live THEN {k} ELSE {})
  BY <1>1, <1>6, <1>8, Zenon DEF Due
<1>12. Counts(g)
  <2>1. CASE v.live
    BY <1>1, <1>9, <1>11, <2>1, Zenon DEF Counts
  <2>2. CASE ~v.live
    BY <1>1, <1>9, <1>11, <2>2, Zenon DEF Counts
  <2> QED
    BY <2>1, <2>2
<1>13. CASE v.live /\ count[g] < limit[g]
  <2>1. /\ Len(kvs'[g]) = Len(kvs[g]) + 1 /\ Len(kvs[g]) = count[g]
        /\ kvs'[g][Len(kvs[g]) + 1] = <<k, v>>
        /\ \A i \in 1..Len(kvs[g]) : kvs'[g][i] = kvs[g][i]
    <3>1. <<k, v>> \in Keys \X Value
      OBVIOUS
    <3> QED
      BY <1>0, <1>3b, <1>9, <1>13, <3>1, SMT, Z3
  <2>2. \A i \in 1..Len(kvs'[g]) : i \in 1..Len(kvs[g]) \/ i = Len(kvs[g]) + 1
    BY <1>0, <2>1, SMT, Z3
  <2>3. ASSUME NEW i \in 1..Len(kvs'[g])
        PROVE  /\ kvs'[g][i][1] \in Visited(g)'
               /\ \A j \in todo'[g] : kvs'[g][i][1] < j
               /\ kvs'[g][i][2] = ValueIn(key', values', kvs'[g][i][1], at'[g])
               /\ kvs'[g][i][2].live
    <3>1. CASE i \in 1..Len(kvs[g])
      <4>1. kvs'[g][i] = kvs[g][i]
        BY <2>1, <3>1, Zenon
      <4>2. kvs[g][i][1] \in Visited(g) /\ \A j \in todo[g] : kvs[g][i][1] < j
        BY <1>2a, <3>1, Zenon
      <4>3. /\ kvs[g][i][2] = ValueIn(key, values, kvs[g][i][1], at[g])
            /\ kvs[g][i][2].live
        BY <1>3, <3>1, Zenon
      <4>4. ValueIn(key', values', kvs'[g][i][1], at'[g])
              = ValueIn(key, values, kvs[g][i][1], at[g])
        BY <1>1, <4>1
      <4>5. kvs[g][i][1] \in Visited(g)' /\ \A j \in todo'[g] : kvs[g][i][1] < j
        BY <1>7, <1>8, <4>2, Zenon
      <4> QED
        BY <4>1, <4>3, <4>4, <4>5, Zenon
    <3>2. CASE i = Len(kvs[g]) + 1
      <4>1. kvs'[g][i] = <<k, v>> /\ v.live
        BY <1>13, <2>1, <3>2, Zenon
      <4>2. v = ValueIn(key', values', k, at'[g])
        BY <1>1, <1>6, <4>1, Zenon
      <4>3. k \in Visited(g)' /\ \A j \in todo'[g] : k < j
        BY <1>7, <1>8
      <4> QED
        BY <4>1, <4>2, <4>3, SMT, Z3
    <3> QED
      BY <2>2, <3>1, <3>2, Zenon
  <2>4. ASSUME NEW i \in 1..Len(kvs'[g]), NEW j \in 1..Len(kvs'[g]), i < j
        PROVE  kvs'[g][i][1] < kvs'[g][j][1]
    <3>1. i \in 1..Len(kvs[g])
      BY <1>0, <2>1, <2>4, SMT, Z3
    <3>2. CASE j \in 1..Len(kvs[g])
      <4>1. kvs'[g][i] = kvs[g][i] /\ kvs'[g][j] = kvs[g][j]
        BY <2>1, <3>1, <3>2, Zenon
      <4> QED
        BY <1>3a, <2>4, <3>1, <3>2, <4>1, Zenon
    <3>3. CASE j = Len(kvs[g]) + 1
      <4>1. kvs'[g][j][1] = k /\ kvs'[g][i] = kvs[g][i]
        BY <2>1, <3>1, <3>3, SMT, Z3
      <4>2. kvs[g][i][1] < k
        BY <1>2a, <1>7, <3>1
      <4> QED
        BY <4>1, <4>2
    <3> QED
      BY <2>2, <3>2, <3>3, Zenon
  <2>5. ASSUME NEW j \in Due(g)'
        PROVE  \E i \in 1..Len(kvs'[g]) : kvs'[g][i][1] = j
    <3>1. CASE j = k
      <4>1. Len(kvs[g]) + 1 \in 1..Len(kvs'[g])
        BY <1>0, <2>1, SMT, Z3
      <4> QED
        BY <2>1, <3>1, <4>1, SMT, Z3
    <3>2. CASE j \in Due(g)
      <4>1. PICK i \in 1..Len(kvs[g]) : kvs[g][i][1] = j
        BY <1>0, <1>2b, <1>13, <2>1, <3>2, SMT, Z3
      <4>2. i \in 1..Len(kvs'[g])
        BY <1>0, <2>1, SMT, Z3
      <4> QED
        BY <2>1, <4>1, <4>2, Zenon
    <3> QED
      BY <1>11, <3>1, <3>2
  <2>6. Len(kvs'[g]) = IF count'[g] < limit'[g] THEN count'[g] ELSE limit'[g]
    BY <1>0, <1>1, <1>9, <1>13, <2>1, SMT, Z3
  <2>7. ScanOK(g)'
    <3>1. /\ rpc'[g] \notin {"idle", "begun"} /\ at'[g] <= rev'
          /\ todo'[g] \subseteq prefix_map'
      BY <1>1, <1>2, <1>4, SMT, Z3
    <3> QED
      BY <3>1, <1>10, <2>3, <2>5, Zenon, SMT DEF ScanOK
  <2>8. SoundFor(g)'
    BY <1>1, <2>3, <2>4, <2>6, Zenon DEF SoundFor
  <2> QED
    BY <1>12, <2>7, <2>8
<1>14. CASE ~(v.live /\ count[g] < limit[g])
  <2>1. kvs'[g] = kvs[g]
    BY <1>9, <1>14
  <2>2. ASSUME NEW j \in Due(g)'
        PROVE  \/ Len(kvs'[g]) = limit'[g]
               \/ \E i \in 1..Len(kvs'[g]) : kvs'[g][i][1] = j
    <3>1. CASE j \in Due(g)
      BY <1>1, <1>2b, <2>1, <3>1, Zenon
    <3>2. CASE v.live
      BY <1>1, <1>3b, <1>14, <2>1, <3>2, Zenon, SMT
    <3> QED
      BY <1>11, <3>1, <3>2
  <2>3. Len(kvs'[g]) = IF count'[g] < limit'[g] THEN count'[g] ELSE limit'[g]
    BY <1>0, <1>1, <1>3b, <1>9, <1>14, <2>1, SMT, Z3
  <2>4. \A i \in 1..Len(kvs'[g]) : /\ kvs'[g][i][1] \in Visited(g)'
                                   /\ \A j \in todo'[g] : kvs'[g][i][1] < j
    BY <1>2a, <1>7, <1>8, <2>1, Zenon
  <2>5. ScanOK(g)'
    <3>1. /\ rpc'[g] \notin {"idle", "begun"} /\ at'[g] <= rev'
          /\ todo'[g] \subseteq prefix_map'
      BY <1>1, <1>2, <1>4, SMT, Z3
    <3> QED
      BY <3>1, <1>10, <2>2, <2>4, Zenon, SMT DEF ScanOK
  <2>6. SoundFor(g)'
    BY <1>1, <1>3, <1>3a, <2>1, <2>3, Zenon DEF SoundFor
  <2> QED
    BY <1>12, <2>5, <2>6
<1> QED
  BY <1>13, <1>14

\* The other steps of range start or end a scan.
LEMMA ScanStep ==
  ASSUME CoreInv, NEW g \in Rangers, ScanOK(g), SoundFor(g), RangeStep(g)
  PROVE  ScanOK(g)' /\ SoundFor(g)' /\ Counts(g)
<1> USE DEF deque, history, items, setterVars, rangerVars
<1>0. /\ TypeOK /\ rev \in Nat /\ at[g] \in Nat /\ limit[g] \in Nat
  BY RangeFacts, Zenon, SMT DEF CoreInv
<1>1. ASSUME NEW r \in 0..MaxRev, NEW n \in Limits, RangeBegin(g, r, n)
      PROVE  ScanOK(g)' /\ SoundFor(g)' /\ Counts(g)
  <2>1. rpc'[g] = "begun" /\ at'[g] <= rev /\ rev' = rev /\ kvs' = kvs /\ count' = count
    <3>1. /\ at' = [at EXCEPT ![g] = IF r = 0 THEN rev ELSE r]
          /\ rpc' = [rpc EXCEPT ![g] = "begun"] /\ r <= rev
          /\ rev' = rev /\ kvs' = kvs /\ count' = count
      BY <1>1 DEF RangeBegin
    <3>2. rpc'[g] = "begun" /\ at'[g] = IF r = 0 THEN rev ELSE r
      BY <1>0, <3>1, Zenon DEF TypeOK
    <3> QED
      BY <1>0, <3>1, <3>2
  <2> QED
    BY <1>1, <2>1, Zenon DEF RangeBegin, ScanOK, SoundFor, Counts
<1>2. CASE RangeOpen(g)
  <2>1. /\ rpc'[g] = "scan" /\ todo'[g] = prefix_map /\ prefix_map' = prefix_map
        /\ rev' = rev /\ at' = at /\ limit' = limit
        /\ kvs'[g] = <<>> /\ count'[g] = 0 /\ at[g] <= rev
    BY <1>0, <1>2, Zenon DEF RangeOpen, ScanOK, TypeOK
  <2>2. Visited(g)' = {} /\ Due(g)' = {}
    BY <2>1 DEF Visited, Due
  <2>3. Len(kvs'[g]) = 0 /\ 1..0 = {}
    BY <2>1
  <2>4. ScanOK(g)'
    BY <2>1, <2>2, <2>3, Zenon DEF ScanOK
  <2>5. SoundFor(g)'
    <3>1. 0 = IF 0 < limit[g] THEN 0 ELSE limit[g]
      BY <1>0
    <3> QED
      BY <2>1, <2>3, <3>1, Zenon, SMT DEF SoundFor
  <2> QED
    BY <2>2, <2>4, <2>5, Zenon, SMT DEF Counts
<1>3. CASE RangeRead(g)
  BY <1>3, ReadStep, Zenon
<1>4. CASE RangePanic(g)
  <2>1. rpc'[g] = "panicked" /\ at' = at /\ rev' = rev /\ at[g] <= rev
    <3>1. rpc[g] = "scan" /\ rpc' = [rpc EXCEPT ![g] = "panicked"] /\ at' = at /\ rev' = rev
      BY <1>4 DEF RangePanic
    <3> QED
      BY <1>0, <3>1, Zenon DEF ScanOK, TypeOK
  <2> QED
    BY <2>1, Zenon, SMT DEF ScanOK, SoundFor, Counts
<1>5. CASE RangeEnd(g)
  <2>1. rpc'[g] = "idle" /\ kvs'[g] = <<>> /\ count'[g] = 0
    BY <1>0, <1>5, Zenon DEF RangeEnd, TypeOK
  <2> QED
    BY <2>1, Zenon DEF ScanOK, SoundFor, Counts
<1> QED
  BY <1>1, <1>2, <1>3, <1>4, <1>5 DEF RangeStep

\* Every step keeps every range sound.
LEMMA RangesStep ==
  ASSUME CoreInv, [Next]_vars, \A g \in Rangers : ScanOK(g) /\ SoundFor(g)
  PROVE  \A g \in Rangers : ScanOK(g)' /\ SoundFor(g)' /\ Counts(g)
<1> USE DEF deque, history, items, setterVars, rangerVars
<1> SUFFICES ASSUME NEW g \in Rangers
             PROVE  ScanOK(g)' /\ SoundFor(g)' /\ Counts(g)
  OBVIOUS
<1>0. TypeOK
  BY DEF CoreInv
<1>1. CASE RangeStep(g)
  BY <1>1, ScanStep, Zenon
<1>2. CASE ~RangeStep(g)
  <2>1. ASSUME NEW h \in Rangers, RangeStep(h), h # g
        PROVE  /\ rpc'[g] = rpc[g] /\ at'[g] = at[g] /\ limit'[g] = limit[g]
               /\ todo'[g] = todo[g] /\ kvs'[g] = kvs[g] /\ count'[g] = count[g]
    <3>0. /\ DOMAIN rpc = Rangers /\ DOMAIN at = Rangers /\ DOMAIN limit = Rangers
          /\ DOMAIN todo = Rangers /\ DOMAIN kvs = Rangers /\ DOMAIN count = Rangers
      BY <1>0, Zenon DEF TypeOK
    <3>1. CASE \E r \in 0..MaxRev, n \in Limits : RangeBegin(h, r, n)
      BY <2>1, <3>0, <3>1, Zenon DEF RangeBegin
    <3>2. CASE RangeOpen(h)
      BY <2>1, <3>0, <3>2, Zenon DEF RangeOpen
    <3>3. CASE RangeRead(h)
      BY <2>1, <3>0, <3>3, Zenon DEF RangeRead
    <3>4. CASE RangePanic(h)
      BY <2>1, <3>0, <3>4, Zenon DEF RangePanic
    <3>5. CASE RangeEnd(h)
      BY <2>1, <3>0, <3>5, Zenon DEF RangeEnd
    <3> QED
      BY <2>1, <3>1, <3>2, <3>3, <3>4, <3>5, Zenon DEF RangeStep
  <2>2. ASSUME NEW t \in Setters, SetStep(t)
        PROVE  UNCHANGED rangerVars
    BY <2>2, Zenon
      DEF SetStep, SetBegin, SetEntry, SetIndex, SetFail, SetFailed, SetPush, SetPublish
  <2>3. /\ rpc'[g] = rpc[g] /\ at'[g] = at[g] /\ limit'[g] = limit[g]
        /\ todo'[g] = todo[g] /\ kvs'[g] = kvs[g] /\ count'[g] = count[g]
    <3>1. ASSUME NEW c \in Revisions, Compact(c)
          PROVE  UNCHANGED rangerVars
      BY <3>1, Zenon DEF Compact
    <3>2. ASSUME NEW k \in Keys, NEW put \in BOOLEAN, ReplaySet(k, put)
          PROVE  UNCHANGED rangerVars
      BY <3>2, Zenon DEF ReplaySet
    <3>3. Serve \/ UNCHANGED vars => UNCHANGED rangerVars
      BY Zenon DEF Serve, vars
    <3> QED
      BY <1>2, <2>1, <2>2, <3>1, <3>2, <3>3, Zenon DEF Next
  <2> QED
    BY <2>3, ScanFrame, Zenon, SMT
<1> QED
  BY <1>1, <1>2

-----------------------------------------------------------------------------
(* The inductive invariant.                                                *)

\* A scan has counted every key that is due.
CountOK(g) == rpc[g] = "scan" => count[g] >= Cardinality(Due(g))

IInv ==
  /\ CoreInv
  /\ VersionChain
  /\ CompareExcludes
  /\ PrevNotStale
  /\ \A g \in Rangers : ScanOK(g) /\ SoundFor(g) /\ CountOK(g)

-----------------------------------------------------------------------------
(* What a range counts.                                                    *)

\* The keys a scan is due to count are finitely many.
LEMMA DueFinite ==
  ASSUME CoreInv, NEW g \in Rangers
  PROVE  IsFiniteSet(Due(g)) /\ Cardinality(Due(g)) \in Nat /\ Due(g) \subseteq Keys
<1>1. IsFiniteSet(Keys)
  BY StoreAssumption, FS_Interval, SMT, Z3 DEF Keys
<1>2. Due(g) \subseteq Keys
  BY Zenon DEF Due, Visited, CoreInv, TypeOK
<1> QED
  BY <1>1, <1>2, FS_Subset, FS_CardinalityType

\* One more element at most.
LEMMA OneMore ==
  ASSUME NEW S, NEW T, NEW k, IsFiniteSet(S), T \subseteq S \cup {k}
  PROVE  Cardinality(T) \in Nat /\ Cardinality(T) <= Cardinality(S) + 1
<1>1. IsFiniteSet(S \cup {k}) /\ Cardinality(S) \in Nat
  BY FS_AddElement, FS_CardinalityType
<1>2. Cardinality(S \cup {k}) \in Nat /\ Cardinality(S \cup {k}) <= Cardinality(S) + 1
  BY <1>1, FS_AddElement, FS_CardinalityType
<1>3. Cardinality(T) \in Nat /\ Cardinality(T) <= Cardinality(S \cup {k})
  BY <1>1, FS_Subset, FS_CardinalityType
<1> QED
  BY <1>1, <1>2, <1>3

\* Every step keeps the count of a range.
LEMMA CountStep ==
  ASSUME CoreInv, CoreInv', NEW g \in Rangers, CountOK(g), Counts(g)
  PROVE  CountOK(g)'
<1> SUFFICES ASSUME rpc'[g] = "scan"
             PROVE  count'[g] >= Cardinality(Due(g)')
  BY DEF CountOK
<1>1. count[g] \in Nat /\ count'[g] \in Nat
  BY Zenon DEF CoreInv, TypeOK
<1>2. IsFiniteSet(Due(g)) /\ Cardinality(Due(g)) \in Nat
  BY DueFinite
<1>3. CASE Due(g)' = {}
  <2>1. Cardinality(Due(g)') = 0
    BY <1>3, FS_EmptySet
  <2> QED
    BY <1>1, <2>1
<1>4. CASE rpc[g] = "scan" /\ count'[g] = count[g] /\ Due(g)' \subseteq Due(g)
  <2>1. Cardinality(Due(g)') \in Nat /\ Cardinality(Due(g)') <= Cardinality(Due(g))
    BY <1>2, <1>4, FS_Subset, FS_CardinalityType
  <2> QED
    BY <1>1, <1>2, <1>4, <2>1, SMT, Z3 DEF CountOK
<1>5. ASSUME rpc[g] = "scan", count'[g] = count[g] + 1,
             NEW k \in Keys, Due(g)' \subseteq Due(g) \cup {k}
      PROVE  count'[g] >= Cardinality(Due(g)')
  <2>1. Cardinality(Due(g)') \in Nat /\ Cardinality(Due(g)') <= Cardinality(Due(g)) + 1
    BY <1>2, <1>5, OneMore, Zenon
  <2> QED
    BY <1>1, <1>2, <1>5, <2>1 DEF CountOK
<1> QED
  BY <1>3, <1>4, <1>5, Zenon DEF Counts

-----------------------------------------------------------------------------
(* The theorems.                                                           *)

\* The empty store satisfies the invariant.
LEMMA InvInit == ASSUME Init PROVE IInv
<1>1. CoreInv
  BY CoreInit
<1>2. \A r \in Revisions : ~(r <= rev)
  BY DEF Init, Revisions
<1>3. VersionChain /\ CompareExcludes /\ PrevNotStale
  BY <1>2 DEF VersionChain, CompareExcludes, PrevNotStale, Published
<1>4. \A g \in Rangers : ScanOK(g) /\ SoundFor(g) /\ CountOK(g)
  BY Zenon DEF Init, ScanOK, SoundFor, CountOK
<1> QED
  BY <1>1, <1>3, <1>4 DEF IInv

\* The invariant is inductive.
LEMMA InvStep == ASSUME IInv, [Next]_vars PROVE IInv'
<1>1. CoreInv /\ CoreInv'
  BY CoreStep DEF IInv
<1>2. VersionChain' /\ CompareExcludes' /\ PrevNotStale'
  BY <1>1, VersionChainStep, CompareExcludesStep, PrevNotStaleStep DEF IInv
<1>3. \A g \in Rangers : ScanOK(g)' /\ SoundFor(g)' /\ Counts(g)
  BY <1>1, RangesStep DEF IInv
<1>4. \A g \in Rangers : CountOK(g)'
  BY <1>1, <1>3, CountStep, Zenon, SMT DEF IInv
<1> QED
  BY <1>1, <1>2, <1>3, <1>4 DEF IInv

\* It implies what RangeSound says of all ranges.
LEMMA InvSound == ASSUME IInv PROVE RangeSound
  BY Histories DEF IInv, SoundFor, RangeSound

\* It implies what RangeComplete says of the scans that are over.
LEMMA InvComplete == ASSUME IInv PROVE RangeComplete
<1> SUFFICES ASSUME NEW g \in Rangers, rpc[g] = "scan", todo[g] = {}
             PROVE  LET due == {k \in prefix_map :
                                  LastRev(k, at[g]) > earliest /\ ValueAt(k, at[g]).live}
                    IN  /\ count[g] >= Cardinality(due)
                        /\ \A k \in due :
                             Len(kvs[g]) = limit[g] \/ \E i \in 1..Len(kvs[g]) : kvs[g][i][1] = k
  BY Zenon DEF RangeComplete
<1>1. Due(g) = {k \in prefix_map : LastRev(k, at[g]) > earliest /\ ValueAt(k, at[g]).live}
  BY Histories DEF Due, Visited
<1>2. ScanOK(g) /\ CountOK(g)
  BY Zenon DEF IInv
<1>3. count[g] >= Cardinality(Due(g))
  BY <1>2, Zenon DEF CountOK
<1>4. \A k \in Due(g) : Len(kvs[g]) = limit[g] \/ \E i \in 1..Len(kvs[g]) : kvs[g][i][1] = k
  BY <1>2, Zenon DEF ScanOK
<1> QED
  BY <1>1, <1>3, <1>4, Zenon

\* The invariant holds in every state of every run of set, delete, range,
\* compact and the replay.
THEOREM Invariance == Spec => []IInv
<1>1. Init => IInv
  BY InvInit
<1>2. IInv /\ [Next]_vars => IInv'
  BY InvStep
<1> QED
  BY <1>1, <1>2, PTL DEF Spec

\* The variables have their types: no step reads or writes a revision, an item
\* or a result that is not there.
THEOREM TypeCorrect == Spec => []TypeOK
<1>1. IInv => TypeOK
  BY DEF IInv, CoreInv
<1> QED
  BY <1>1, Invariance, PTL

\* The versions of a key form one chain, whatever sets of it run at once.
THEOREM VersionChainCorrect == Spec => []VersionChain
<1>1. IInv => VersionChain
  BY DEF IInv
<1> QED
  BY <1>1, Invariance, PTL

\* A set with a compare on mod_revision excludes every other writer.
THEOREM CompareExcludesCorrect == Spec => []CompareExcludes
<1>1. IInv => CompareExcludes
  BY DEF IInv
<1> QED
  BY <1>1, Invariance, PTL

\* The old_value of an event is empty or the value that the write replaced.
THEOREM PrevNotStaleCorrect == Spec => []PrevNotStale
<1>1. IInv => PrevNotStale
  BY DEF IInv
<1> QED
  BY <1>1, Invariance, PTL

\* An item that nobody is writing agrees with values_by_revision.
THEOREM ItemsMatchLogCorrect == Spec => []ItemsMatchLog
<1>1. IInv => ItemsMatchLog
  BY ItemsAgree DEF IInv
<1> QED
  BY <1>1, Invariance, PTL

\* range returns only values the keys had at its revision, in key order and as
\* many as the limit lets it.
THEOREM RangeSoundCorrect == Spec => []RangeSound
<1>1. IInv => RangeSound
  BY InvSound
<1> QED
  BY <1>1, Invariance, PTL

\* A finished range has counted, and within the limit listed, every live key of
\* its revision whose value is not compacted.
THEOREM RangeCompleteCorrect == Spec => []RangeComplete
<1>1. IInv => RangeComplete
  BY InvComplete
<1> QED
  BY <1>1, Invariance, PTL

=============================================================================
