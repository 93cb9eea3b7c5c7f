------------------------------ MODULE KvService ------------------------------
(***************************************************************************)
(* The KV service (src/src/kv_service.rs): put, delete_range, txn and      *)
(* range as sequences of calls of the store, composed with the replicated  *)
(* state machines of module StateMachine.  In Raft mode a write is         *)
(* proposed and applied later; in single-node mode it goes to the store.   *)
(*                                                                         *)
(* A call is one RPC, made once, on a node of its choice.  The calls of    *)
(* the store are atomic here (module Store opens them).  openraft is       *)
(* external: a proposal is chosen, or not, and an error may come before,   *)
(* after or instead of that.  ensure_leader reads its metrics, which may   *)
(* be out of date: it may let a call pass on any node and at any time.     *)
(* Snapshots are left to StateMachine and RaftStore.                       *)
(***************************************************************************)
EXTENDS Versions, Sequences, FiniteSets

CONSTANTS Nodes, NumKeys, MaxIndex, MaxSnapshots, MaxRestarts,  \* of StateMachine
          Calls,         \* the RPCs
          Kinds,         \* what they may be
          Requirements,  \* the SetRequired of a txn
          Modes          \* values of raft.is_some()

VARIABLES chosen, states, last_applied, store, current_snapshot, building, installing, imported,
          clean, exact, builds, restarts  \* of StateMachine

VARIABLES
  raft,       \* raft.is_some()
  server,     \* the node that serves in single-node mode
  proposals,  \* external: calls whose request client_write has, not yet chosen
  cpc,        \* where each call is
  call,       \* its arguments
  node,       \* the node that serves it
  earlier,    \* history: the calls that had succeeded when a range began
  seen,       \* the item that its first range found
  seen_at,    \* history: the index the node had applied by then
  entry,      \* history: the log index of its write
  reply       \* its answer

SM == INSTANCE StateMachine

smVars == <<chosen, states, last_applied, store, current_snapshot, building, installing,
            imported, clean, exact, builds, restarts>>
callVars == <<cpc, call, node, earlier, seen, seen_at, entry, reply>>
mode == <<raft, server>>
vars == <<smVars, mode, proposals, callVars>>

AllKinds == {"put", "put_prev_kv", "put_ignore_value", "delete", "txn_put", "txn_delete",
             "range", "unsupported"}

ASSUME KvServiceAssumption ==
  /\ Kinds \subseteq AllKinds
  /\ Modes \subseteq BOOLEAN
  /\ Requirements \subseteq [last : Int, version : Int, compare : Compares]

Call == [kind : Kinds, key : SM!Keys, required : Requirements \cup {Anything}]
NoCall == [kind |-> "none", key |-> 0, required |-> Anything]

\* refused is succeeded: false; rev is the revision of the header.
Reply == [status : {"none", "ok", "refused", "error"}, rev : Nat]
NoReply == [status |-> "none", rev |-> 0]

NoNode == "none"

TypeOK ==
  /\ SM!TypeOK
  /\ raft \in Modes
  /\ server \in Nodes \cup {NoNode}
  /\ proposals \in SUBSET {c \in Calls : entry[c] = 0}
  /\ cpc \in [Calls -> {"new", "read", "checked", "proposed", "done"}]
  /\ call \in [Calls -> Call \cup {NoCall}]
  /\ node \in [Calls -> Nodes \cup {NoNode}]
  /\ earlier \in [Calls -> SUBSET Calls]
  /\ seen \in [Calls -> SM!Item]
  /\ seen_at \in [Calls -> Nat]
  /\ entry \in [Calls -> 0..Len(chosen)]
  /\ reply \in [Calls -> Reply]

Init ==
  /\ SM!Init
  /\ raft \in Modes
  /\ server \in IF raft THEN {NoNode} ELSE Nodes
  /\ proposals = {}
  /\ cpc = [c \in Calls |-> "new"]
  /\ call = [c \in Calls |-> NoCall]
  /\ node = [c \in Calls |-> NoNode]
  /\ earlier = [c \in Calls |-> {}]
  /\ seen = [c \in Calls |-> SM!NoItem]
  /\ seen_at = [c \in Calls |-> 0]
  /\ entry = [c \in Calls |-> 0]
  /\ reply = [c \in Calls |-> NoReply]

-----------------------------------------------------------------------------
(* What the handlers compute.  The operators whose names start with Mutant *)
(* are wrong variants, kept to show that the properties see them.          *)

IsTxn(a) == a.kind \in {"txn_put", "txn_delete"}
IsPut(a) == a.kind \in {"put", "put_prev_kv", "put_ignore_value", "txn_put"}
IsWrite(a) == IsPut(a) \/ a.kind \in {"delete", "txn_delete"}

\* Mutant: a deleted key is found with its last revision.
MutantCurrent(n, k) == store[n].items[k]

\* What range(key, [], 0, Some(1)) finds.
Current(n, k) == SM!Export(store[n])[k]

\* Mutant: a key that is not there satisfies everything.
MutantCheckCompare(item, required) ==
  item.value.live =>
    /\ Satisfied(required.compare, item.value.mod, required.last)
    /\ Satisfied(required.compare, item.value.version, required.version)

\* check_compare
CheckCompare(item, required) ==
  IF item.value.live
    THEN /\ Satisfied(required.compare, item.value.mod, required.last)
         /\ Satisfied(required.compare, item.value.version, required.version)
    ELSE required.last <= 0 /\ required.version <= 0

\* Mutant: every write of the node that is in the log is answered.
MutantWaiting(n, i) == {c \in Calls : cpc[c] = "proposed" /\ node[c] = n /\ entry[c] >= i}

\* The calls that client_write answers when node n has applied entry i.
Waiting(n, i) == {c \in Calls : cpc[c] = "proposed" /\ node[c] = n /\ entry[c] = i}

\* The proposals left when that of c is chosen: client_write makes one.
Pending(c) == proposals \ {c}

\* The RaftRequest.
Write(a) == [op |-> IF IsPut(a) THEN "set" ELSE "delete", key |-> a.key]

Answer(c, status, r) ==
  /\ reply' = [reply EXCEPT ![c] = [status |-> status, rev |-> r]]
  /\ cpc' = [cpc EXCEPT ![c] = "done"]

Forget(c) ==
  /\ call' = [call EXCEPT ![c] = NoCall]
  /\ node' = [node EXCEPT ![c] = NoNode]
  /\ seen' = [seen EXCEPT ![c] = SM!NoItem]
  /\ seen_at' = [seen_at EXCEPT ![c] = 0]

\* An error ends the call, which leaves nothing behind.
Fail(c) == Answer(c, "error", 0) /\ Forget(c)

Goto(c, pc) == cpc' = [cpc EXCEPT ![c] = pc] /\ UNCHANGED reply

-----------------------------------------------------------------------------
(* The handlers, up to their write.                                        *)

\* The call comes to node n.
Arrives(c, n) == cpc[c] = "new" /\ (raft \/ n = server)

\* It goes on; a put that has read its key does so alike for ignore_value and
\* for prev_kv.
Begin(c, n, a) ==
  /\ Arrives(c, n)
  /\ call' = [call EXCEPT ![c] =
       [a EXCEPT !.kind = IF @ = "put_ignore_value" THEN "put_prev_kv" ELSE @]]
  /\ node' = [node EXCEPT ![c] = n]
  /\ earlier' = [earlier EXCEPT ![c] =
       IF a.kind = "range" THEN {d \in Calls : reply[d].status = "ok"} ELSE {}]
  /\ UNCHANGED <<smVars, mode, proposals, entry>>

\* It is answered with no effect.
Reject(c, n, status, r) ==
  /\ Arrives(c, n)
  /\ Answer(c, status, r)
  /\ UNCHANGED <<smVars, mode, proposals, call, node, earlier, seen, seen_at, entry>>

\* The item read first is remembered, unless it only served for a compare.
See(c, n, a) ==
  /\ seen' = [seen EXCEPT ![c] = IF IsTxn(a) THEN SM!NoItem ELSE Current(n, a.key)]
  /\ seen_at' = [seen_at EXCEPT ![c] = last_applied[n]]

\* delete_range with a range_end, txn of another shape: nothing is done.
Unsupported(c, n, a) ==
  /\ a.kind = "unsupported"
  /\ Reject(c, n, "error", 0)

\* range: from the store of this node, leader or not.
Range(c, n, a) ==
  /\ a.kind = "range"
  /\ Begin(c, n, a)
  /\ See(c, n, a)
  /\ Answer(c, "ok", store[n].rev)

\* put reads the key for prev_kv and ignore_value, delete_range always.
Read(c, n, a) ==
  /\ a.kind \in {"put", "put_prev_kv", "put_ignore_value", "delete"}
  /\ IF a.kind = "put_ignore_value" /\ ~Current(n, a.key).value.live
       THEN Reject(c, n, "error", 0)
       ELSE /\ Begin(c, n, a)
            /\ Goto(c, "read")
            /\ IF a.kind = "put" THEN UNCHANGED <<seen, seen_at>> ELSE See(c, n, a)

\* txn in Raft mode: the compare is checked on the store of this node.
TxnCheck(c, n, a) ==
  /\ raft
  /\ IsTxn(a)
  /\ \/ Reject(c, n, "error", 0)
     \/ /\ CheckCompare(Current(n, a.key), a.required)
        /\ Begin(c, n, a)
        /\ See(c, n, a)
        /\ Goto(c, "checked")
     \/ /\ ~CheckCompare(Current(n, a.key), a.required)
        /\ Reject(c, n, "refused", store[n].rev)

\* txn in single-node mode: the compare goes with the set.
TxnBegin(c, n, a) ==
  /\ ~raft
  /\ IsTxn(a)
  /\ Begin(c, n, a)
  /\ Goto(c, "checked")
  /\ UNCHANGED <<seen, seen_at>>

-----------------------------------------------------------------------------
(* Their write.                                                            *)

\* The store of the only node after a write; the log is its history.
Applied(n, req) ==
  /\ Len(chosen) < MaxIndex
  /\ chosen' = Append(chosen, req)
  /\ states' = Append(states, SM!ApplyTo(states[Len(states)], req, Len(chosen) + 1))
  /\ store' = [store EXCEPT ![n] = SM!ApplyTo(@, req, Len(chosen) + 1)]
  /\ last_applied' = [last_applied EXCEPT ![n] = @ + 1]
  /\ UNCHANGED <<current_snapshot, building, installing, imported, clean, exact, builds,
                 restarts>>

\* store.set or store.delete.  A delete of a key that is not there answers
\* with the revision so far.
Set(c) ==
  LET n == node[c]
      a == call[c]
      v == store[n].items[a.key].value IN
  /\ ~raft
  /\ cpc[c] \in {"read", "checked"}
  /\ IF Permits(v, IsPut(a), a.required)
       THEN /\ Applied(n, Write(a))
            /\ entry' = [entry EXCEPT ![c] = Len(chosen) + 1]
            /\ Answer(c, "ok", store[n].rev + 1)
       ELSE /\ Answer(c, IF IsTxn(a) THEN "refused" ELSE "ok", store[n].rev)
            /\ UNCHANGED <<smVars, entry>>
  /\ UNCHANGED <<mode, proposals, call, node, earlier, seen, seen_at>>

\* raft_write, after ensure_leader where it has not been called yet.
Propose(c) ==
  /\ raft
  /\ cpc[c] \in {"read", "checked"}
  /\ \/ /\ Goto(c, "proposed")
        /\ proposals' = proposals \cup {c}
        /\ UNCHANGED <<call, node, seen, seen_at>>
     \/ cpc[c] = "read" /\ Fail(c) /\ UNCHANGED proposals
  /\ UNCHANGED <<smVars, mode, earlier, entry>>

\* client_write gives an error; what was proposed may be dropped or not.
WriteFailed(c) ==
  /\ cpc[c] = "proposed"
  /\ \/ Fail(c) /\ proposals' = proposals \ {c}
     \/ /\ c \in proposals
        /\ Answer(c, "error", 0)
        /\ UNCHANGED <<proposals, call, node, seen, seen_at>>
  /\ UNCHANGED <<smVars, mode, earlier, entry>>

\* openraft: the proposal is in the log for good.
ChooseProposal(c) ==
  /\ c \in proposals
  /\ SM!Choose(Write(call[c]))
  /\ entry' = [entry EXCEPT ![c] = Len(chosen) + 1]
  /\ proposals' = Pending(c)
  /\ UNCHANGED <<mode, cpc, call, node, earlier, seen, seen_at, reply>>

\* A write of a call that is not followed here.
OtherWrite(req) ==
  /\ IF raft
       THEN SM!Choose(req)
       ELSE Applied(server, req)
  /\ UNCHANGED <<mode, proposals, callVars>>

\* apply: the call that waits for this entry gets the revision.
Apply(n) ==
  LET waiting == Waiting(n, last_applied[n] + 1) IN
  /\ SM!Apply(n)
  /\ cpc' = [c \in Calls |-> IF c \in waiting THEN "done" ELSE cpc[c]]
  /\ reply' = [c \in Calls |->
       IF c \in waiting
         THEN [status |-> "ok", rev |-> store'[n].rev]
         ELSE reply[c]]
  /\ UNCHANGED <<mode, proposals, call, node, earlier, seen, seen_at, entry>>

-----------------------------------------------------------------------------
Arguments == {a \in Call : (a.required # Anything) = IsTxn(a)}

Handler(c) ==
  \/ \E n \in Nodes, a \in Arguments :
       \/ Unsupported(c, n, a) \/ Range(c, n, a) \/ Read(c, n, a)
       \/ TxnCheck(c, n, a) \/ TxnBegin(c, n, a)
  \/ Set(c) \/ Propose(c) \/ WriteFailed(c) \/ ChooseProposal(c)

Next ==
  \/ \E c \in Calls : Handler(c)
  \/ \E req \in SM!Request \ {SM!Blank} : OtherWrite(req)
  \/ \E n \in Nodes : Apply(n)

Spec == Init /\ [][Next]_vars

-----------------------------------------------------------------------------
(* Properties.                                                             *)

Done(c) == cpc[c] = "done" /\ reply[c].status = "ok"

\* The write of c had an effect: it took a revision.
Effective(c) == entry[c] > 0 /\ states[entry[c] + 1].rev > states[entry[c]].rev

\* The item that the write of c met.
Before(c) == SM!Export(states[entry[c]])[call[c].key]

\* No other write of the key came between what c read and its own write.
Undisturbed(c) ==
  /\ seen_at[c] < entry[c]
  /\ \A i \in seen_at[c] + 1 .. entry[c] - 1 : chosen[i].key # call[c].key

\* How a value may compare with its target.
Signs == [EQUAL |-> {0}, GREATER |-> {1}, LESS |-> {-1}, NOT_EQUAL |-> {-1, 1}]

Sign(x) == IF x = 0 THEN 0 ELSE IF x > 0 THEN 1 ELSE -1

\* The compare of q holds of an item; of a key that is not there it holds if
\* no revision and no version above 0 is named.
Holds(item, q) ==
  /\ item.value.live /\ q.last >= 0 => Sign(item.value.mod - q.last) \in Signs[q.compare]
  /\ item.value.live /\ q.version >= 0 =>
       Sign(item.value.version - q.version) \in Signs[q.compare]
  /\ ~item.value.live => q.last <= 0 /\ q.version <= 0

(***************************************************************************)
(* A transaction that succeeded was entitled to its write: the value it    *)
(* met satisfied the compare.  In single-node mode always, because the     *)
(* compare goes with the set; in Raft mode if no other write of the key    *)
(* got between the compare and the log.                                    *)
(***************************************************************************)
TxnEntitled ==
  \A c \in Calls : Done(c) /\ IsTxn(call[c]) /\ (raft => Undisturbed(c)) =>
    Holds(Before(c), call[c].required)

(***************************************************************************)
(* What a put returns as prev_kv, what ignore_value writes again and what  *)
(* delete_range counts is the item that the write met, if no other write   *)
(* of the key came in between: the same bytes, revisions and version.      *)
(***************************************************************************)
PrevReplaced ==
  \A c \in Calls :
    /\ Done(c) /\ call[c].kind \in {"put_prev_kv", "delete"}
    /\ entry[c] > 0 /\ Undisturbed(c)
    => Before(c) = seen[c]

(***************************************************************************)
(* "Revisions are strictly increasing": of two acknowledged writes that    *)
(* had an effect, the later one in the log has the higher revision,        *)
(* whichever nodes answered.                                               *)
(***************************************************************************)
RevisionsIncrease ==
  \A c, d \in Calls :
    Done(c) /\ Done(d) /\ Effective(c) /\ Effective(d) /\ entry[c] < entry[d] =>
      reply[c].rev < reply[d].rev

(***************************************************************************)
(* A range on the node that acknowledged a write finds that write or a     *)
(* later one of the key, in Raft mode too, where range asks no one: what   *)
(* is acknowledged has been applied on the node that answers.              *)
(***************************************************************************)
ReadsOwnWrites ==
  \A c, d \in Calls :
    /\ Done(c) /\ Done(d) /\ c \in earlier[d] /\ node[c] = node[d]
    /\ Effective(c) /\ call[d].kind = "range" /\ call[c].key = call[d].key
    => seen[d].by >= entry[c] \/ ~seen[d].value.live

=============================================================================
