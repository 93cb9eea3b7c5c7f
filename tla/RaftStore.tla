------------------------------ MODULE RaftStore ------------------------------
(***************************************************************************)
(* A Raft cluster: MemLogStore of src/src/raft.rs on every node, under the *)
(* state machines of module StateMachine.                                  *)
(*                                                                         *)
(* openraft is external and modelled by what it stores: a candidate is     *)
(* elected by a quorum whose votes it collects, a leader appends, a        *)
(* follower takes over the leader's log, an entry that a quorum holds in   *)
(* the leader's term is committed.  A message is one step of its receiver. *)
(* A message or an answer that is lost (Unreachable) is a step not taken:  *)
(* openraft sends it again.                                                *)
(***************************************************************************)
EXTENDS StateMachine, Functions, TLC

CONSTANT MaxTerm  \* bound: no term beyond this one

ASSUME RaftAssumption == MaxTerm \in Nat

VARIABLES
  terms,        \* history: the terms of the entries of chosen
  leaders,      \* the nodes that take themselves for the leader
  vote,         \* MemLogStore.vote, as a term
  entries,      \* MemLogStore.log, by index
  last_purged,  \* MemLogStore.last_purged_log_id
  committed,    \* MemLogStore.committed, as an index
  snapshot_last \* external: the snapshot that openraft knows of

logVars == <<leaders, vote, entries, last_purged, committed, snapshot_last>>
raftVars == <<vars, terms, logVars>>

Indexes == 1..MaxIndex

LogId == [term : 0..MaxTerm, index : 0..MaxIndex]
NoLogId == [term |-> 0, index |-> 0]
Entry == [term : 1..MaxTerm, req : Request]

NoEntries == [i \in {} |-> 0]

RaftTypeOK ==
  /\ TypeOK
  /\ terms \in Seq(1..MaxTerm) /\ Len(terms) = Len(chosen)
  /\ leaders \in SUBSET Nodes
  /\ vote \in [Nodes -> 0..MaxTerm]
  /\ \A n \in Nodes :
       /\ DOMAIN entries[n] \subseteq Indexes
       /\ \A i \in DOMAIN entries[n] : entries[n][i] \in Entry
  /\ last_purged \in [Nodes -> LogId]
  /\ committed \in [Nodes -> 0..MaxIndex]
  /\ snapshot_last \in [Nodes -> 0..MaxIndex]

RaftInit ==
  /\ Init
  /\ terms = <<>>
  /\ leaders = {}
  /\ vote = [n \in Nodes |-> 0]
  /\ entries = [n \in Nodes |-> NoEntries]
  /\ last_purged = [n \in Nodes |-> NoLogId]
  /\ committed = [n \in Nodes |-> 0]
  /\ snapshot_last = [n \in Nodes |-> 0]

-----------------------------------------------------------------------------
(* MemLogStore.  The operators whose names start with Mutant are wrong     *)
(* variants, kept to show that the properties see them.                    *)

\* append
Appended(f, g) == [i \in DOMAIN f \cup DOMAIN g |-> IF i \in DOMAIN g THEN g[i] ELSE f[i]]

\* truncate: the entries from index i on are removed.
Truncated(f, i) == RestrictDomain(f, LAMBDA j : j < i)

\* purge: the entries up to index i are removed.
Purged(f, i) == RestrictDomain(f, LAMBDA j : j > i)

\* try_get_log_entries from behind index i on.
LogEntries(f, i) == RestrictDomain(f, LAMBDA j : j > i)

\* Mutant: a log that has been purged to its end counts as empty.
MutantLastLogId(n) ==
  IF entries[n] = NoEntries THEN NoLogId
  ELSE LET i == Max(DOMAIN entries[n]) IN [term |-> entries[n][i].term, index |-> i]

\* get_log_state
LastLogId(n) ==
  IF entries[n] = NoEntries THEN last_purged[n]
  ELSE LET i == Max(DOMAIN entries[n]) IN [term |-> entries[n][i].term, index |-> i]

\* The log ids of a node: those in its log and the last one purged.
LogIds(n) ==
  {[term |-> entries[n][i].term, index |-> i] : i \in DOMAIN entries[n]} \cup {last_purged[n]}

-----------------------------------------------------------------------------
(* openraft, as it uses the log store and the state machine.               *)

Quorum == {Q \in SUBSET Nodes : Cardinality(Q) = Cardinality(Nodes) \div 2 + 1}

AtLeast(a, b) == a.term > b.term \/ (a.term = b.term /\ a.index >= b.index)

NextEntry(n, req, t) == (LastLogId(n).index + 1 :> [term |-> t, req |-> req])

\* save_vote on every node of Q: n is the leader of term t and appends a blank
\* entry.  The term is a new one: while votes are kept that follows from the
\* quorum; that a restart could let a term be used twice is left out.
Elect(n, Q, t) ==
  /\ LastLogId(n).index < MaxIndex
  /\ n \in Q
  /\ \A q \in Q : AtLeast(LastLogId(n), LastLogId(q))
  /\ \A m \in Nodes : vote[m] < t
  /\ vote' = [q \in Nodes |-> IF q \in Q THEN t ELSE vote[q]]
  /\ leaders' = (leaders \ Q) \cup {n}
  /\ entries' = [entries EXCEPT ![n] = Appended(@, NextEntry(n, Blank, t))]
  /\ UNCHANGED <<vars, terms, last_purged, committed, snapshot_last>>

\* client_write on the leader.
Propose(n, req) ==
  /\ n \in leaders
  /\ LastLogId(n).index < MaxIndex
  /\ entries' = [entries EXCEPT ![n] = Appended(@, NextEntry(n, req, vote[n]))]
  /\ UNCHANGED <<vars, terms, leaders, vote, last_purged, committed, snapshot_last>>

\* append_entries from l to f: behind the last log id they share, f drops what
\* it has, takes what l has, and learns what is committed.
Replicate(l, f) ==
  /\ l \in leaders /\ l # f
  /\ vote[f] <= vote[l]
  /\ \E id \in LogIds(l) \cap LogIds(f) :
       /\ \A jd \in LogIds(l) \cap LogIds(f) : jd.index <= id.index
       /\ entries' = [entries EXCEPT ![f] = Appended(Truncated(@, id.index + 1),
                                                     LogEntries(entries[l], id.index))]
  /\ vote' = [vote EXCEPT ![f] = vote[l]]
  /\ leaders' = leaders \ {f}
  /\ committed' = [committed EXCEPT ![f] = IF committed[l] > @ THEN committed[l] ELSE @]
  /\ UNCHANGED <<vars, terms, last_purged, snapshot_last>>

\* save_committed for one more entry, when a quorum of the leader's term holds
\* an entry of that term at or behind it.
Commit(l) ==
  LET i == committed[l] + 1 IN
  /\ l \in leaders
  /\ \E j \in i..MaxIndex, Q \in Quorum :
       \A q \in Q : vote[q] = vote[l] /\ [term |-> vote[l], index |-> j] \in LogIds(q)
  /\ committed' = [committed EXCEPT ![l] = i]
  /\ IF i <= Len(chosen) /\ chosen[i] = entries[l][i].req /\ terms[i] = entries[l][i].term
       THEN UNCHANGED <<chosen, states, terms>>
       ELSE /\ chosen' = Append(SubSeq(chosen, 1, i - 1), entries[l][i].req)
            /\ terms' = Append(SubSeq(terms, 1, i - 1), entries[l][i].term)
            /\ states' = Append(SubSeq(states, 1, i),
                                ApplyTo(states[i], entries[l][i].req, i))
  /\ UNCHANGED <<last_applied, store, current_snapshot, building, installing, imported, clean,
                 exact, builds, restarts, leaders, vote, entries, last_purged, snapshot_last>>

\* apply, for an entry that is committed.
ApplyCommitted(n) ==
  LET i == last_applied[n] + 1 IN
  /\ i <= committed[n] /\ i \in DOMAIN entries[n]
  /\ ApplyEntry(n, entries[n][i].req)
  /\ UNCHANGED <<terms, logVars>>

BuildSnapshot(n) ==
  /\ \/ BuildExport(n) /\ UNCHANGED snapshot_last
     \/ /\ BuildStore(n)
        /\ snapshot_last' = [snapshot_last EXCEPT ![n] =
             IF building[n].last > @ THEN building[n].last ELSE @]
  /\ UNCHANGED <<terms, leaders, vote, entries, last_purged, committed>>

\* purge of what the snapshot holds.
Purge(n) ==
  LET i == snapshot_last[n] IN
  /\ i \in DOMAIN entries[n]
  /\ last_purged' = [last_purged EXCEPT ![n] = [term |-> entries[n][i].term, index |-> i]]
  /\ entries' = [entries EXCEPT ![n] = Purged(@, i)]
  /\ UNCHANGED <<vars, terms, leaders, vote, committed, snapshot_last>>

\* install_snapshot from l to f, which is behind what l has purged: f's log is
\* purged up to the snapshot, or dropped if it does not hold its log id.
InstallSnapshot(l, f) ==
  LET s == current_snapshot[l]
      id == [term |-> terms[s.last], index |-> s.last] IN
  /\ l \in leaders /\ l # f
  /\ vote[f] <= vote[l]
  /\ s.last > committed[f]
  /\ InstallClear(f, s)
  /\ vote' = [vote EXCEPT ![f] = vote[l]]
  /\ leaders' = leaders \ {f}
  /\ entries' = [entries EXCEPT ![f] = IF id \in LogIds(f) THEN Purged(@, s.last) ELSE NoEntries]
  /\ last_purged' = [last_purged EXCEPT ![f] = id]
  /\ committed' = [committed EXCEPT ![f] = s.last]
  /\ snapshot_last' = [snapshot_last EXCEPT ![f] = s.last]
  /\ UNCHANGED terms

Installing(n) ==
  /\ InstallImport(n) \/ InstallMetadata(n)
  /\ UNCHANGED <<terms, logVars>>

\* The process is started again, with MemLogStore::default().
RestartNode(n) ==
  /\ Restart(n)
  /\ leaders' = leaders \ {n}
  /\ vote' = [vote EXCEPT ![n] = 0]
  /\ entries' = [entries EXCEPT ![n] = NoEntries]
  /\ last_purged' = [last_purged EXCEPT ![n] = NoLogId]
  /\ committed' = [committed EXCEPT ![n] = 0]
  /\ snapshot_last' = [snapshot_last EXCEPT ![n] = 0]
  /\ UNCHANGED terms

-----------------------------------------------------------------------------
RaftStep(n) ==
  \/ \E Q \in Quorum, t \in 1..MaxTerm : Elect(n, Q, t)
  \/ \E req \in Request \ {Blank} : Propose(n, req)
  \/ \E f \in Nodes : Replicate(n, f) \/ InstallSnapshot(n, f)
  \/ Commit(n) \/ ApplyCommitted(n) \/ BuildSnapshot(n) \/ Purge(n) \/ Installing(n)

RaftNext == \E n \in Nodes : RaftStep(n)

\* A cluster whose nodes stay up, and one in which they may be restarted.
RaftSpec == RaftInit /\ [][RaftNext]_raftVars

RestartSpec == RaftInit /\ [][RaftNext \/ \E n \in Nodes : RestartNode(n)]_raftVars

-----------------------------------------------------------------------------
(* Properties.                                                             *)

(***************************************************************************)
(* The cluster implements module StateMachine: what is committed stays,    *)
(* and a node applies exactly the committed entries, in order, from its    *)
(* log or from snapshots, through elections, truncations and purges.       *)
(* (Spec, with the stuttering steps first.)                                *)
(***************************************************************************)
ImplementsStateMachine == Init /\ [][vars' = vars \/ Next]_vars

(***************************************************************************)
(* "acceptance of worst-case data loss (e.g., multi-node power loss)":     *)
(* what is committed stays committed when a single node is restarted.      *)
(***************************************************************************)
CommittedStays ==
  [][Len(chosen') >= Len(chosen) /\ SubSeq(chosen', 1, Len(chosen)) = chosen]_raftVars

=============================================================================
