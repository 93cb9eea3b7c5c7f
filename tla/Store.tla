------------------------------- MODULE Store --------------------------------
(***************************************************************************)
(* The multi-version store (src/src/store.rs): set, delete, range, compact *)
(* and set_for_replay, run by concurrent threads, one step per stretch of  *)
(* code that holds the same locks.                                         *)
(*                                                                         *)
(* One key prefix is modelled, so prefix_map is the set of keys in its     *)
(* BTreeMap.  A value is known by its mod_revision.  The deque             *)
(* values_by_revision is taken as atomic here (module BlockDeque opens     *)
(* it): get() answers only above earliest, so what remove_before clears is *)
(* left in values, where it serves the properties as the history of the    *)
(* store.                                                                  *)
(***************************************************************************)
EXTENDS Versions, Sequences, FiniteSets

CONSTANTS
  Setters,       \* threads running set or delete
  Rangers,       \* threads running range
  NumKeys,       \* number of keys of the prefix
  Requirements,  \* the SetRequired arguments of set
  Limits,        \* the limit arguments of range
  MaxRev,        \* bound: no revision beyond this one
  MaxCompact     \* bound: no compaction of a revision beyond this one

Keys == 1..NumKeys

Revisions == 1..MaxRev

NoThread == "none"

ASSUME StoreAssumption ==
  /\ NoThread \notin Setters
  /\ NumKeys \in Nat
  /\ MaxRev \in Nat
  /\ MaxCompact \in Nat
  /\ Requirements \subseteq [last : Int, version : Int, compare : Compares]
  /\ Limits \subseteq Nat

\* The arguments of set; put is FALSE when value is None.
Op == [key : Keys, put : BOOLEAN, required : Requirements \cup {Anything}]

\* The value that push reserves a revision with.
Placeholder == [create |-> 0, mod |-> 0, version |-> 1, live |-> FALSE]

VARIABLES
  serving,     \* Store::new has returned: the WAL has been replayed
  rev,         \* values_by_revision.latest_revision()
  earliest,    \* values_by_revision.earliest_revision()
  values,      \* values_by_revision, by revision
  key,         \* history: the key of each revision
  required,    \* history: what the set of each revision required
  old_value,   \* history: the old_value its event reports
  tree_map,    \* keys in tree_map
  prefix_map,  \* keys in prefix_map
  latest,      \* TreeItem.latest_value
  revisions,   \* TreeItem.revisions
  lock,        \* who holds the write lock of the TreeItem
  spc,         \* where each setter is
  op,          \* its arguments
  is_new,      \* its is_new_item
  new_rev,     \* its new_rev
  reply,       \* the value an Err carries
  rpc,         \* where each ranger is
  at,          \* the revision it reads at
  limit,       \* its limit
  todo,        \* keys the loop has still to visit
  kvs,         \* its results, as pairs of key and value
  count        \* its count

deque == <<rev, earliest, values>>
history == <<key, required, old_value>>
items == <<tree_map, prefix_map, latest, revisions, lock>>
setterVars == <<spc, op, is_new, new_rev, reply>>
rangerVars == <<rpc, at, limit, todo, kvs, count>>
vars == <<serving, deque, history, items, setterVars, rangerVars>>

NoOp == [key |-> 0, put |-> FALSE, required |-> Anything]

TypeOK ==
  /\ serving \in BOOLEAN
  /\ rev \in 0..MaxRev
  /\ earliest \in Nat /\ (earliest = 0 \/ earliest < rev)
  /\ values \in [Revisions -> Value]
  /\ key \in [Revisions -> Keys \cup {0}]
  /\ required \in [Revisions -> Requirements \cup {Anything}]
  /\ old_value \in [Revisions -> Value]
  /\ tree_map \in SUBSET Keys
  /\ prefix_map \in SUBSET Keys
  /\ latest \in [Keys -> Value]
  /\ revisions \in [Keys -> Seq(Revisions)]
  /\ lock \in [Keys -> Setters \cup {NoThread}]
  /\ spc \in [Setters -> {"idle", "entry", "index", "apply", "pushed", "failed"}]
  /\ op \in [Setters -> Op \cup {NoOp}]
  /\ is_new \in [Setters -> BOOLEAN]
  /\ new_rev \in [Setters -> Nat]
  /\ reply \in [Setters -> Value]
  /\ rpc \in [Rangers -> {"idle", "begun", "scan", "panicked"}]
  /\ at \in [Rangers -> Nat]
  /\ limit \in [Rangers -> Nat]
  /\ todo \in [Rangers -> SUBSET Keys]
  /\ kvs \in [Rangers -> Seq(Keys \X Value)]
  /\ count \in [Rangers -> Nat]

Init ==
  /\ serving = FALSE
  /\ rev = 0
  /\ earliest = 0
  /\ values = [r \in Revisions |-> NoValue]
  /\ key = [r \in Revisions |-> 0]
  /\ required = [r \in Revisions |-> Anything]
  /\ old_value = [r \in Revisions |-> NoValue]
  /\ tree_map = {}
  /\ prefix_map = {}
  /\ latest = [k \in Keys |-> NoValue]
  /\ revisions = [k \in Keys |-> <<>>]
  /\ lock = [k \in Keys |-> NoThread]
  /\ spc = [t \in Setters |-> "idle"]
  /\ op = [t \in Setters |-> NoOp]
  /\ is_new = [t \in Setters |-> FALSE]
  /\ new_rev = [t \in Setters |-> 0]
  /\ reply = [t \in Setters |-> NoValue]
  /\ rpc = [g \in Rangers |-> "idle"]
  /\ at = [g \in Rangers |-> 0]
  /\ limit = [g \in Rangers |-> 0]
  /\ todo = [g \in Rangers |-> {}]
  /\ kvs = [g \in Rangers |-> <<>>]
  /\ count = [g \in Rangers |-> 0]

-----------------------------------------------------------------------------
(* What the operations compute.  The operators whose names start with      *)
(* Mutant are wrong variants, kept to show that the properties see them.   *)

\* values_by_revision.get(r - 1)
Get(r) == IF earliest < r /\ r <= rev THEN values[r] ELSE NoValue

\* Mutant: the item is used without taking its lock.
MutantUnlocked(k) == TRUE

\* The item's RwLock can be taken: a reader holds it for one step only.
Unlocked(k) == lock[k] = NoThread

\* set gets past its checks.
Allowed(o) == Permits(latest[o.key], o.put, o.required)

\* revisions.partition_point(|v| v < r), for revisions in order: how many come
\* before the first that is not below r.
PartitionPoint(s, r) ==
  CHOOSE i \in 0..Len(s) :
    /\ \A j \in 1..i : s[j] < r
    /\ i < Len(s) => s[i + 1] >= r

\* Mutant: a revision that is still readable is drained too.
MutantDrained(s) == SubSeq(s, PartitionPoint(s, earliest + 2) + 1, Len(s))

\* The revisions left once the compacted ones are drained.
Drained(s) == SubSeq(s, PartitionPoint(s, earliest) + 1, Len(s))

\* Mutant: latest_value has been assigned before it is cloned.
MutantOldValue(t) == NewValue(latest[op[t].key], op[t].put, new_rev[t])

\* old_value: nothing if this set made the item, else the value so far.
OldValue(t) == IF is_new[t] THEN NoValue ELSE latest[op[t].key]

\* Mutant: a revision equal to the one asked for is passed over.
MutantFindValue(k, r) ==
  LET below == {i \in 1..Len(revisions[k]) : revisions[k][i] < r} IN
  IF r > latest[k].mod THEN latest[k]
  ELSE IF below = {} THEN NoValue
  ELSE Get(revisions[k][CHOOSE i \in below : \A j \in below : j <= i])

\* find_value_for_revision: the binary search for the last revision up to r.
FindValue(k, r) ==
  LET upTo == {i \in 1..Len(revisions[k]) : revisions[k][i] <= r} IN
  IF r >= latest[k].mod THEN latest[k]
  ELSE IF upTo = {} THEN NoValue
  ELSE Get(revisions[k][CHOOSE i \in upTo : \A j \in upTo : j <= i])

\* has_value_for_revision
HasValue(k, r) == FindValue(k, r).live

\* Mutant: a revision taken for its index.
MutantIndexOf(r) == r

\* The index of a revision in values_by_revision.
IndexOf(r) == r - 1

-----------------------------------------------------------------------------
(* set and delete.                                                         *)

SetBegin(t) ==
  /\ serving
  /\ spc[t] = "idle"
  /\ \E o \in Op : op' = [op EXCEPT ![t] = o]
  /\ spc' = [spc EXCEPT ![t] = "entry"]
  /\ UNCHANGED <<serving, deque, history, items, is_new, new_rev, reply, rangerVars>>

\* tree_map.entry(key): the item that is there, or a placeholder.
SetEntry(t) ==
  /\ spc[t] = "entry"
  /\ is_new' = [is_new EXCEPT ![t] = op[t].key \notin tree_map]
  /\ tree_map' = tree_map \cup {op[t].key}
  /\ spc' = [spc EXCEPT ![t] = IF op[t].key \in tree_map THEN "apply" ELSE "index"]
  /\ UNCHANGED <<serving, deque, history, prefix_map, latest, revisions, lock, op,
                 new_rev, reply, rangerVars>>

\* The item goes into prefix_map, whose lock the scans hold for reading.
SetIndex(t) ==
  /\ spc[t] = "index"
  /\ \A g \in Rangers : rpc[g] # "scan"
  /\ prefix_map' = prefix_map \cup {op[t].key}
  /\ spc' = [spc EXCEPT ![t] = "apply"]
  /\ UNCHANGED <<serving, deque, history, tree_map, latest, revisions, lock, op,
                 is_new, new_rev, reply, rangerVars>>

\* The item is locked, a check fails and set returns Err; the revision that the
\* Err carries beside the value is left out.
SetFail(t) ==
  /\ spc[t] = "apply"
  /\ Unlocked(op[t].key)
  /\ ~Allowed(op[t])
  /\ reply' = [reply EXCEPT ![t] = IF latest[op[t].key].live
                                     THEN latest[op[t].key] ELSE NoValue]
  /\ spc' = [spc EXCEPT ![t] = "failed"]
  /\ UNCHANGED <<serving, deque, history, items, op, is_new, new_rev, rangerVars>>

\* The caller has the Err.
SetFailed(t) ==
  /\ spc[t] = "failed"
  /\ spc' = [spc EXCEPT ![t] = "idle"]
  /\ op' = [op EXCEPT ![t] = NoOp]
  /\ is_new' = [is_new EXCEPT ![t] = FALSE]
  /\ reply' = [reply EXCEPT ![t] = NoValue]
  /\ UNCHANGED <<serving, deque, history, items, new_rev, rangerVars>>

\* The item is locked, the checks pass, compacted revisions are drained and a
\* placeholder is pushed: from here on current_revision() counts the revision.
SetPush(t) ==
  LET k == op[t].key IN
  /\ spc[t] = "apply"
  /\ Unlocked(k)
  /\ Allowed(op[t])
  /\ rev < MaxRev
  /\ lock' = [lock EXCEPT ![k] = t]
  /\ revisions' = [revisions EXCEPT ![k] = Drained(revisions[k])]
  /\ rev' = rev + 1
  /\ values' = [values EXCEPT ![rev + 1] = Placeholder]
  /\ key' = [key EXCEPT ![rev + 1] = k]
  /\ required' = [required EXCEPT ![rev + 1] = op[t].required]
  /\ new_rev' = [new_rev EXCEPT ![t] = rev + 1]
  /\ spc' = [spc EXCEPT ![t] = "pushed"]
  /\ UNCHANGED <<serving, earliest, old_value, tree_map, prefix_map, latest, op,
                 is_new, reply, rangerVars>>

\* The new value is stored in the item and under its revision, the item is
\* unlocked and set goes on to notify_watchers (module Notifier).
SetPublish(t) ==
  LET k == op[t].key
      v == NewValue(latest[k], op[t].put, new_rev[t])
  IN
  /\ spc[t] = "pushed"
  /\ latest' = [latest EXCEPT ![k] = v]
  /\ values' = [values EXCEPT ![new_rev[t]] = v]
  /\ revisions' = [revisions EXCEPT ![k] = Append(revisions[k], new_rev[t])]
  /\ old_value' = [old_value EXCEPT ![new_rev[t]] = OldValue(t)]
  /\ lock' = [lock EXCEPT ![k] = NoThread]
  /\ spc' = [spc EXCEPT ![t] = "idle"]
  /\ op' = [op EXCEPT ![t] = NoOp]
  /\ is_new' = [is_new EXCEPT ![t] = FALSE]
  /\ new_rev' = [new_rev EXCEPT ![t] = 0]
  /\ UNCHANGED <<serving, rev, earliest, key, required, tree_map, prefix_map, reply,
                 rangerVars>>

-----------------------------------------------------------------------------
(* range.  A revision of the future and a compacted one are refused, which *)
(* changes nothing and is not a step here.                                 *)

RangeBegin(g, r, n) ==
  /\ serving
  /\ rpc[g] = "idle"
  /\ r <= rev
  /\ r > 0 => r > earliest
  /\ at' = [at EXCEPT ![g] = IF r = 0 THEN rev ELSE r]
  /\ limit' = [limit EXCEPT ![g] = n]
  /\ rpc' = [rpc EXCEPT ![g] = "begun"]
  /\ UNCHANGED <<serving, deque, history, items, setterVars, todo, kvs, count>>

\* prefix_map.get(prefix): its read lock is held until the scan is over.
RangeOpen(g) ==
  /\ rpc[g] = "begun"
  /\ todo' = [todo EXCEPT ![g] = prefix_map]
  /\ rpc' = [rpc EXCEPT ![g] = "scan"]
  /\ UNCHANGED <<serving, deque, history, items, setterVars, at, limit, kvs, count>>

\* The next key of the loop, in key order.
IsNext(g, k) == k \in todo[g] /\ \A j \in todo[g] : k <= j

\* One turn of the loop, under the item's read lock.
RangeRead(g) ==
  /\ rpc[g] = "scan"
  /\ at[g] > 0
  /\ \E k \in Keys :
       /\ IsNext(g, k)
       /\ Unlocked(k)
       /\ todo' = [todo EXCEPT ![g] = todo[g] \ {k}]
       /\ count' = [count EXCEPT ![g] = IF HasValue(k, at[g]) THEN count[g] + 1
                                                             ELSE count[g]]
       /\ kvs' = [kvs EXCEPT ![g] =
                    IF HasValue(k, at[g]) /\ count[g] < limit[g]
                      THEN Append(kvs[g], <<k, FindValue(k, at[g])>>) ELSE kvs[g]]
  /\ UNCHANGED <<serving, deque, history, items, setterVars, rpc, at, limit>>

\* assert!(rev > 0) fails in find_value_for_revision or has_value_for_revision.
RangePanic(g) ==
  /\ rpc[g] = "scan"
  /\ at[g] = 0
  /\ \E k \in Keys : IsNext(g, k) /\ Unlocked(k)
  /\ rpc' = [rpc EXCEPT ![g] = "panicked"]
  /\ UNCHANGED <<serving, deque, history, items, setterVars, at, limit, todo, kvs, count>>

\* The result is returned, or the panic ends the request; locks are released.
RangeEnd(g) ==
  /\ \/ rpc[g] = "scan" /\ todo[g] = {}
     \/ rpc[g] = "panicked"
  /\ rpc' = [rpc EXCEPT ![g] = "idle"]
  /\ at' = [at EXCEPT ![g] = 0]
  /\ limit' = [limit EXCEPT ![g] = 0]
  /\ todo' = [todo EXCEPT ![g] = {}]
  /\ kvs' = [kvs EXCEPT ![g] = <<>>]
  /\ count' = [count EXCEPT ![g] = 0]
  /\ UNCHANGED <<serving, deque, history, items, setterVars>>

-----------------------------------------------------------------------------
(* compact, and the replay of the WAL in Store::new.                       *)

\* compact(c); a revision below the compacted one or of the future is refused.
Compact(c) ==
  /\ serving
  /\ 1 <= c /\ c <= rev
  /\ IndexOf(c) >= earliest
  /\ c <= MaxCompact
  /\ earliest' = IndexOf(c)
  /\ UNCHANGED <<serving, rev, values, history, items, setterVars, rangerVars>>

\* set_for_replay: alone in the store, no checks and no event.  A delete of
\* what is not there has no effect.
ReplaySet(k, put) ==
  LET v == NewValue(latest[k], put, rev + 1) IN
  /\ ~serving
  /\ rev < MaxRev
  /\ put \/ latest[k].live
  /\ rev' = rev + 1
  /\ values' = [values EXCEPT ![rev + 1] = v]
  /\ key' = [key EXCEPT ![rev + 1] = k]
  /\ old_value' = [old_value EXCEPT ![rev + 1] = latest[k]]
  /\ latest' = [latest EXCEPT ![k] = v]
  /\ revisions' = [revisions EXCEPT ![k] = Append(revisions[k], rev + 1)]
  /\ tree_map' = tree_map \cup {k}
  /\ prefix_map' = prefix_map \cup {k}
  /\ UNCHANGED <<serving, earliest, required, lock, setterVars, rangerVars>>

\* Store::new returns the store.
Serve ==
  /\ ~serving
  /\ serving' = TRUE
  /\ UNCHANGED <<deque, history, items, setterVars, rangerVars>>

-----------------------------------------------------------------------------
SetStep(t) ==
  \/ SetBegin(t) \/ SetEntry(t) \/ SetIndex(t)
  \/ SetFail(t) \/ SetFailed(t) \/ SetPush(t) \/ SetPublish(t)

RangeStep(g) ==
  \/ \E r \in 0..MaxRev, n \in Limits : RangeBegin(g, r, n)
  \/ RangeOpen(g) \/ RangeRead(g) \/ RangePanic(g) \/ RangeEnd(g)

Next ==
  \/ \E t \in Setters : SetStep(t)
  \/ \E g \in Rangers : RangeStep(g)
  \/ \E c \in Revisions : Compact(c)
  \/ \E k \in Keys, put \in BOOLEAN : ReplaySet(k, put)
  \/ Serve

Spec == Init /\ [][Next]_vars

-----------------------------------------------------------------------------
(* Properties.                                                             *)

\* q is the last revision of k up to r, or 0 if there is none.
IsLastRev(q, k, r) ==
  /\ q = 0 \/ (q \in 1..r /\ key[q] = k)
  /\ \A p \in (q + 1)..r : key[p] # k

LastRev(k, r) == CHOOSE q \in 0..r : IsLastRev(q, k, r)

\* The value of k at revision r, whatever has been compacted.
ValueAt(k, r) == IF LastRev(k, r) = 0 THEN NoValue ELSE values[LastRev(k, r)]

\* The value that the write at revision r replaced.
Before(r) == ValueAt(key[r], r - 1)

\* The set that was given r has stored its value.
Published(r) ==
  r <= rev /\ \A t \in Setters : spc[t] = "pushed" => new_rev[t] # r

(***************************************************************************)
(* The versions of a key form one chain, in whatever order concurrent sets *)
(* of the key run: a write to a live key keeps its create_revision and     *)
(* raises its version by one; any other starts a new life at version 1,    *)
(* and is a put (deleting what does not exist commits nothing).            *)
(***************************************************************************)
VersionChain ==
  \A r \in Revisions : Published(r) =>
    /\ values[r] = NewValue(Before(r), values[r].live, r)
    /\ values[r].live \/ Before(r).live

(***************************************************************************)
(* A compare on mod_revision excludes every other writer: a set that       *)
(* required last revision m was applied to m itself, or with m = 0 to a    *)
(* key that was not there; so of several sets with one m one succeeds.     *)
(***************************************************************************)
CompareExcludes ==
  \A r \in Revisions : r <= rev =>
    LET q == required[r] IN
    q.compare = "EQUAL" =>
      /\ q.last > 0 => Before(r).live /\ Before(r).mod = q.last
      /\ q.last = 0 => ~Before(r).live

(***************************************************************************)
(* An item that nobody is writing agrees with values_by_revision: its      *)
(* latest_value is the value of its last revision, and its revisions are   *)
(* sorted, as the binary searches need, are all its own and miss none that *)
(* a read could still find.                                                *)
(***************************************************************************)
ItemsMatchLog ==
  \A k \in Keys : Unlocked(k) =>
    /\ latest[k] = ValueAt(k, rev)
    /\ \A i, j \in 1..Len(revisions[k]) : i < j => revisions[k][i] < revisions[k][j]
    /\ \A i \in 1..Len(revisions[k]) : key[revisions[k][i]] = k
    /\ \A r \in (earliest + 1)..rev :
         key[r] = k => \E i \in 1..Len(revisions[k]) : revisions[k][i] = r

(***************************************************************************)
(* An event never reports a stale prev_kv: old_value is empty or the value *)
(* that the write replaced, even when another set of the key came between  *)
(* the lookup in tree_map and the lock.                                    *)
(***************************************************************************)
PrevNotStale ==
  \A r \in Revisions : Published(r) => old_value[r] \in {NoValue, Before(r)}

(***************************************************************************)
(* Whatever is written and compacted while it runs, range returns only     *)
(* values the keys had at its revision, in key order and at most limit of  *)
(* them, and it stops listing them only at the limit.                      *)
(***************************************************************************)
RangeSound ==
  \A g \in Rangers : rpc[g] = "scan" =>
    /\ \A i \in 1..Len(kvs[g]) :
         /\ kvs[g][i][2] = ValueAt(kvs[g][i][1], at[g])
         /\ kvs[g][i][2].live
    /\ \A i, j \in 1..Len(kvs[g]) : i < j => kvs[g][i][1] < kvs[g][j][1]
    /\ Len(kvs[g]) = IF count[g] < limit[g] THEN count[g] ELSE limit[g]

(***************************************************************************)
(* A finished scan has counted every key of prefix_map that was live at    *)
(* its revision with a value that is not compacted by now, and has         *)
(* returned it unless the limit was reached.                               *)
(***************************************************************************)
RangeComplete ==
  \A g \in Rangers : rpc[g] = "scan" /\ todo[g] = {} =>
    LET due == {k \in prefix_map :
                  LastRev(k, at[g]) > earliest /\ ValueAt(k, at[g]).live}
    IN
    /\ count[g] >= Cardinality(due)
    /\ \A k \in due :
         Len(kvs[g]) = limit[g] \/ \E i \in 1..Len(kvs[g]) : kvs[g][i][1] = k

=============================================================================
