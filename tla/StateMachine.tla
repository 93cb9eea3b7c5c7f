---------------------------- MODULE StateMachine -----------------------------
(***************************************************************************)
(* The replicated state machine: StateMachineStore of src/src/raft.rs on   *)
(* every node, over the store it writes to, with export_snapshot_data and  *)
(* import_snapshot_data of src/src/store.rs.                               *)
(*                                                                         *)
(* openraft is external.  Here it is the log it agrees on, chosen, which   *)
(* only grows, and the order in which it calls the state machine of a      *)
(* node: apply and install_snapshot one after the other, build_snapshot in *)
(* a task of its own.  Module RaftStore opens it.                          *)
(*                                                                         *)
(* All writes of a Raft node come from apply, one at a time, so its store  *)
(* is the revision counter and the latest value of each key.  The bytes of *)
(* a value are known by the log index that carried them.                   *)
(***************************************************************************)
EXTENDS Versions, Sequences, FiniteSetsExt

CONSTANTS
  Nodes,
  NumKeys,       \* number of keys written
  MaxIndex,      \* bound: no log index beyond this one
  MaxSnapshots,  \* bound: no more than this many snapshots are built
  MaxRestarts    \* bound: no more than this many restarts

ASSUME StateMachineAssumption ==
  /\ NumKeys \in Nat
  /\ MaxIndex \in Nat
  /\ MaxSnapshots \in Nat
  /\ MaxRestarts \in Nat

Keys == 1..NumKeys

\* RaftRequest, and the entries that openraft writes for itself.
Blank == [op |-> "blank", key |-> 0]
Request == [op : {"set", "delete"}, key : Keys] \cup {Blank}

Item == [value : Value, by : Nat]
NoItem == [value |-> NoValue, by |-> 0]

\* What a Store holds.
StoreState == [rev : Nat, items : [Keys -> Item]]

\* FullSnapshotData.  clean and exact are history: nothing was being imported
\* when it was exported, and it gives its reader the revision of its builder.
Snapshot == [last : Nat, kvs : [Keys -> Item], clean : BOOLEAN, exact : BOOLEAN]
NoSnapshot == [last |-> 0, kvs |-> [k \in Keys |-> NoItem], clean |-> FALSE, exact |-> FALSE]

VARIABLES
  chosen,           \* external: the log that openraft agrees on
  states,           \* history: the store after 0, 1, 2... entries of chosen
  last_applied,     \* sm.last_applied_log, as an index
  store,            \* the Store of each node
  current_snapshot, \* current_snapshot
  building,         \* the snapshot build_snapshot has in hand
  installing,       \* the snapshot install_snapshot has in hand
  imported,         \* import_snapshot_data has returned
  clean,            \* history: no import of a snapshot that is not clean
  exact,            \* history: no import of a snapshot that is not exact
  builds, restarts  \* counted for the bounds

log == <<chosen, states>>
snapshots == <<current_snapshot, building>>
install == <<installing, imported>>
ghosts == <<clean, exact>>
counters == <<builds, restarts>>
vars == <<log, last_applied, store, snapshots, install, ghosts, counters>>

\* The store main serves: the key "~" has taken revision 1.
Fresh == [rev |-> 1, items |-> [k \in Keys |-> NoItem]]

TypeOK ==
  /\ chosen \in Seq(Request)
  /\ states \in Seq(StoreState) /\ Len(states) = Len(chosen) + 1
  /\ last_applied \in [Nodes -> 0..Len(chosen)]
  /\ store \in [Nodes -> StoreState]
  /\ current_snapshot \in [Nodes -> Snapshot]
  /\ building \in [Nodes -> Snapshot]
  /\ installing \in [Nodes -> Snapshot]
  /\ imported \in [Nodes -> BOOLEAN]
  /\ clean \in [Nodes -> BOOLEAN]
  /\ exact \in [Nodes -> BOOLEAN]
  /\ builds \in Nat
  /\ restarts \in Nat

Init ==
  /\ chosen = <<>>
  /\ states = <<Fresh>>
  /\ last_applied = [n \in Nodes |-> 0]
  /\ store = [n \in Nodes |-> Fresh]
  /\ current_snapshot = [n \in Nodes |-> NoSnapshot]
  /\ building = [n \in Nodes |-> NoSnapshot]
  /\ installing = [n \in Nodes |-> NoSnapshot]
  /\ imported = [n \in Nodes |-> FALSE]
  /\ clean = [n \in Nodes |-> TRUE]
  /\ exact = [n \in Nodes |-> TRUE]
  /\ builds = 0
  /\ restarts = 0

-----------------------------------------------------------------------------
(* What the operations compute.  The operators whose names start with      *)
(* Mutant are wrong variants, kept to show that the properties see them.   *)

Write(s, k, put, i) ==
  [rev   |-> s.rev + 1,
   items |-> [s.items EXCEPT ![k] =
                [value |-> NewValue(s.items[k].value, put, s.rev + 1), by |-> i]]]

\* The body of apply's loop, for the entry at index i: set requires nothing and
\* succeeds, delete of a key that is not there is an Err and changes nothing.
ApplyTo(s, req, i) ==
  IF req.op = "set" \/ (req.op = "delete" /\ s.items[req.key].value.live)
    THEN Write(s, req.key, req.op = "set", i)
    ELSE s

\* export_snapshot_data: deleted keys are left out.
Export(s) == [k \in Keys |-> IF s.items[k].value.live THEN s.items[k] ELSE NoItem]

\* max_mod_rev; the key "~" is in every snapshot.
MaxModRev(kvs) == Max({kvs[k].value.mod : k \in Keys} \cup {1})

\* Mutant: the slot of the last revision is not pushed.
MutantImport(kvs) == [rev |-> MaxModRev(kvs) - 1, items |-> kvs]

\* import_snapshot_data, once it has returned.
Import(kvs) == [rev |-> MaxModRev(kvs), items |-> kvs]

\* import_snapshot_data, once the maps and the deque are cleared.  The states
\* between the two, with some of the keys, are not told apart.
Cleared == [rev |-> 0, items |-> [k \in Keys |-> NoItem]]

Idle(n) == installing[n] = NoSnapshot

-----------------------------------------------------------------------------
(* The actions.                                                            *)

\* openraft agrees on one more entry.
Choose(req) ==
  /\ Len(chosen) < MaxIndex
  /\ chosen' = Append(chosen, req)
  /\ states' = Append(states, ApplyTo(states[Len(states)], req, Len(chosen) + 1))
  /\ UNCHANGED <<last_applied, store, snapshots, install, ghosts, counters>>

\* apply, one entry: under the write lock of sm, which build_snapshot waits for.
ApplyEntry(n, req) ==
  /\ Idle(n)
  /\ last_applied' = [last_applied EXCEPT ![n] = @ + 1]
  /\ store' = [store EXCEPT ![n] = ApplyTo(@, req, last_applied[n] + 1)]
  /\ UNCHANGED <<log, snapshots, install, ghosts, counters>>

Apply(n) ==
  /\ last_applied[n] < Len(chosen)
  /\ ApplyEntry(n, chosen[last_applied[n] + 1])

\* Mutant: last_applied_log is read again when the data has been written.
MutantBuilt(n) == [building[n] EXCEPT !.last = last_applied[n]]

\* The snapshot that build_snapshot stores.
Built(n) == building[n]

\* build_snapshot, while it holds the read lock of sm.  An import holds no lock
\* of sm: what is exported then is what the import has got to.
BuildExport(n) ==
  /\ building[n] = NoSnapshot
  /\ last_applied[n] > 0
  /\ builds < MaxSnapshots
  /\ builds' = builds + 1
  /\ building' = [building EXCEPT ![n] =
       [last  |-> last_applied[n],
        kvs   |-> Export(store[n]),
        clean |-> clean[n] /\ Idle(n),
        exact |-> exact[n] /\ Idle(n) /\ MaxModRev(Export(store[n])) = store[n].rev]]
  /\ UNCHANGED <<log, last_applied, store, current_snapshot, install, ghosts, restarts>>

\* build_snapshot, after the lock: the data has been serialized.
BuildStore(n) ==
  /\ building[n] # NoSnapshot
  /\ current_snapshot' = [current_snapshot EXCEPT ![n] = Built(n)]
  /\ building' = [building EXCEPT ![n] = NoSnapshot]
  /\ UNCHANGED <<log, last_applied, store, install, ghosts, counters>>

\* install_snapshot, with a snapshot that another node has as its current one
\* and that is ahead of this node: the store is cleared ...
InstallClear(n, s) ==
  /\ Idle(n)
  /\ s # NoSnapshot
  /\ s.last > last_applied[n]
  /\ installing' = [installing EXCEPT ![n] = s]
  /\ store' = [store EXCEPT ![n] = Cleared]
  /\ UNCHANGED <<log, last_applied, snapshots, imported, ghosts, counters>>

\* ... and filled, without the lock of sm ...
InstallImport(n) ==
  /\ ~Idle(n) /\ ~imported[n]
  /\ store' = [store EXCEPT ![n] = Import(installing[n].kvs)]
  /\ imported' = [imported EXCEPT ![n] = TRUE]
  /\ UNCHANGED <<log, last_applied, snapshots, installing, ghosts, counters>>

\* ... and then the metadata, under the lock, and current_snapshot are set.
InstallMetadata(n) ==
  /\ ~Idle(n) /\ imported[n]
  /\ last_applied' = [last_applied EXCEPT ![n] = installing[n].last]
  /\ current_snapshot' = [current_snapshot EXCEPT ![n] = installing[n]]
  /\ clean' = [clean EXCEPT ![n] = installing[n].clean]
  /\ exact' = [exact EXCEPT ![n] = installing[n].exact]
  /\ installing' = [installing EXCEPT ![n] = NoSnapshot]
  /\ imported' = [imported EXCEPT ![n] = FALSE]
  /\ UNCHANGED <<log, store, building, counters>>

\* The process is started again: nothing of a Raft node is kept.
Restart(n) ==
  /\ restarts < MaxRestarts
  /\ last_applied' = [last_applied EXCEPT ![n] = 0]
  /\ store' = [store EXCEPT ![n] = Fresh]
  /\ current_snapshot' = [current_snapshot EXCEPT ![n] = NoSnapshot]
  /\ building' = [building EXCEPT ![n] = NoSnapshot]
  /\ installing' = [installing EXCEPT ![n] = NoSnapshot]
  /\ imported' = [imported EXCEPT ![n] = FALSE]
  /\ clean' = [clean EXCEPT ![n] = TRUE]
  /\ exact' = [exact EXCEPT ![n] = TRUE]
  /\ restarts' = restarts + 1
  /\ UNCHANGED <<log, builds>>

-----------------------------------------------------------------------------
NodeStep(n) ==
  \/ Apply(n)
  \/ BuildExport(n) \/ BuildStore(n)
  \/ \E m \in Nodes : InstallClear(n, current_snapshot[m])
  \/ InstallImport(n) \/ InstallMetadata(n)
  \/ Restart(n)

Next ==
  \/ \E req \in Request : Choose(req)
  \/ \E n \in Nodes : NodeStep(n)

Spec == Init /\ [][Next]_vars

-----------------------------------------------------------------------------
(* Properties.                                                             *)

\* The keys that are there, with the log index their bytes come from.
Contents(items) == [k \in Keys |-> IF items[k].value.live THEN items[k].by ELSE -1]

(***************************************************************************)
(* Replicas agree: a node that is not importing holds, key for key, what a *)
(* single store holds after the entries up to last_applied_log, whichever  *)
(* of them it applied and whichever came in a snapshot; and so does every  *)
(* snapshot it keeps, at its last_log_id.  Snapshots exported while their  *)
(* node was importing, and the nodes that got one, are the exception.      *)
(***************************************************************************)
ReplicasAgree ==
  \A n \in Nodes :
    /\ Idle(n) /\ clean[n] =>
         Contents(store[n].items) = Contents(states[last_applied[n] + 1].items)
    /\ current_snapshot[n].clean =>
         Contents(current_snapshot[n].kvs) =
           Contents(states[current_snapshot[n].last + 1].items)

(***************************************************************************)
(* Replicas agree on revisions: the revision of the store and the          *)
(* mod_revision, create_revision and version of every key are those of a   *)
(* single store, unless the node descends from a snapshot that lost the    *)
(* counter, because the last revision before it was a delete.              *)
(***************************************************************************)
RevisionsAgree ==
  \A n \in Nodes : Idle(n) /\ exact[n] =>
    /\ store[n].rev = states[last_applied[n] + 1].rev
    /\ Export(store[n]) = Export(states[last_applied[n] + 1])

=============================================================================
