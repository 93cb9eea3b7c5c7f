-------------------------------- MODULE Wal ---------------------------------
(***************************************************************************)
(* The write-ahead log (src/src/wal.rs): append, called by the             *)
(* notification thread in revision order; the pool of writer threads that  *)
(* serve one file per key prefix; a crash; and load_wal_dir, which merges  *)
(* the files and replays them.                                             *)
(*                                                                         *)
(* A record is known by its revision.  A crash keeps what was fsynced and  *)
(* cuts the rest of each file anywhere, between records or within one.  A  *)
(* write that fails may have written a part of its batch: some records and *)
(* a fragment of the next one.  What follows a fragment in its file is     *)
(* read as something else: 0 stands for a fragment and for a record that   *)
(* was never written.                                                      *)
(***************************************************************************)
EXTENDS Integers, Sequences, Functions

CONSTANTS
  Prefixes,     \* key prefixes, one file each
  NoPersist,    \* those of prefix_modes_no_persist
  Threads,      \* the writer threads
  Sync,         \* WalMode::Sync; otherwise WalMode::Async
  MaxFailures,  \* bound: how often write and fsync fail
  MaxRev        \* bound: records appended

ASSUME WalAssumption ==
  /\ NoPersist \subseteq Prefixes
  /\ Sync \in BOOLEAN
  /\ MaxFailures \in Nat
  /\ MaxRev \in Nat

Revisions == 1..MaxRev

VARIABLES
  up,          \* "up", "down", "loading", "loaded" or "failed" to load
  rev,         \* revisions handed to append so far
  prefixOf,    \* history: the prefix of each revision
  appending,   \* whether append has yet to announce its record
  to_write,    \* to_write_rx of each prefix
  work,        \* writers_with_work_rx
  is_writing,  \* the flag of each PerPrefixWriter
  pc,          \* where each thread is
  on,          \* the prefix it serves
  batch,       \* the records it has taken
  file,        \* the records in each file
  durable,     \* how many of them have been fsynced
  torn,        \* whether the file ends in a part of a record, after a crash
  failures,    \* the prefixes of the writes and fsyncs that failed
  acked,       \* revisions whose waiter was notified
  pos,         \* records of each file that load_wal_dir has passed on
  replayed     \* records given to set_for_replay, in order

appendVars == <<rev, prefixOf, appending>>
poolVars == <<to_write, work, is_writing, pc, on, batch>>
diskVars == <<file, durable, torn, failures>>
loadVars == <<pos, replayed>>
vars == <<up, appendVars, poolVars, diskVars, acked, loadVars>>

TypeOK ==
  /\ up \in {"up", "down", "loading", "loaded", "failed"}
  /\ rev \in 0..MaxRev
  /\ prefixOf \in [Revisions -> Prefixes \cup {"none"}]
  /\ appending \in BOOLEAN
  /\ to_write \in [Prefixes -> Seq(Revisions)]
  /\ work \in Seq(Prefixes)
  /\ is_writing \in [Prefixes -> BOOLEAN]
  /\ pc \in [Threads -> {"recv", "claim", "batch", "written", "release", "recheck"}]
  /\ on \in [Threads -> Prefixes \cup {"none"}]
  /\ batch \in [Threads -> Seq(Revisions)]
  /\ file \in [Prefixes -> Seq(Revisions \cup {0})]
  /\ durable \in [Prefixes -> Nat]
  /\ \A p \in Prefixes : durable[p] <= Len(file[p])
  /\ torn \in [Prefixes -> {"no", "header", "body"}]
  /\ failures \in Seq(Prefixes)
  /\ acked \in SUBSET Revisions
  /\ pos \in [Prefixes -> Nat]
  /\ replayed \in Seq(Revisions \cup {0})

Init ==
  /\ up = "up"
  /\ rev = 0
  /\ prefixOf = [r \in Revisions |-> "none"]
  /\ appending = FALSE
  /\ to_write = [p \in Prefixes |-> <<>>]
  /\ work = <<>>
  /\ is_writing = [p \in Prefixes |-> FALSE]
  /\ pc = [t \in Threads |-> "recv"]
  /\ on = [t \in Threads |-> "none"]
  /\ batch = [t \in Threads |-> <<>>]
  /\ file = [p \in Prefixes |-> <<>>]
  /\ durable = [p \in Prefixes |-> 0]
  /\ torn = [p \in Prefixes |-> "no"]
  /\ failures = <<>>
  /\ acked = {}
  /\ pos = [p \in Prefixes |-> 0]
  /\ replayed = <<>>

-----------------------------------------------------------------------------
(* append, on the notification thread.  The operators whose names start    *)
(* with Mutant are wrong variants, kept to show that the properties see    *)
(* them.                                                                   *)

\* "append is to be called in rev order": the revision of the next record.
NextRev == rev + 1

\* A record of a prefix that is not persisted: its waiter is notified.
AppendSkipped(p) ==
  /\ up = "up"
  /\ ~appending
  /\ rev < MaxRev
  /\ p \in NoPersist
  /\ rev' = NextRev
  /\ prefixOf' = [prefixOf EXCEPT ![NextRev] = p]
  /\ acked' = acked \cup {NextRev}
  /\ UNCHANGED <<up, appending, poolVars, diskVars, loadVars>>

\* to_write_tx.send of the record ...
AppendRecord(p) ==
  /\ up = "up"
  /\ ~appending
  /\ rev < MaxRev
  /\ p \notin NoPersist
  /\ rev' = NextRev
  /\ prefixOf' = [prefixOf EXCEPT ![NextRev] = p]
  /\ to_write' = [to_write EXCEPT ![p] = Append(to_write[p], NextRev)]
  /\ appending' = TRUE
  /\ UNCHANGED <<up, work, is_writing, pc, on, batch, diskVars, acked, loadVars>>

\* ... and then writers_with_work_tx.send of its writer.
AppendWork ==
  /\ up = "up"
  /\ appending
  /\ work' = Append(work, prefixOf[rev])
  /\ appending' = FALSE
  /\ UNCHANGED <<up, rev, prefixOf, to_write, is_writing, pc, on, batch, diskVars, acked,
                 loadVars>>

-----------------------------------------------------------------------------
(* A writer thread.                                                        *)

\* rx.recv(); a writer without records is passed over.
RecvWork(t) ==
  /\ up = "up"
  /\ pc[t] = "recv"
  /\ work # <<>>
  /\ work' = Tail(work)
  /\ IF to_write[Head(work)] = <<>>
       THEN UNCHANGED <<pc, on>>
       ELSE /\ pc' = [pc EXCEPT ![t] = "claim"]
            /\ on' = [on EXCEPT ![t] = Head(work)]
  /\ UNCHANGED <<up, appendVars, to_write, is_writing, batch, diskVars, acked, loadVars>>

\* Mutant: the flag is set without looking at it.
MutantClaimed(t) == TRUE

\* is_writing.compare_exchange(false, true) succeeds.
Claimed(t) == ~is_writing[on[t]]

Claim(t) ==
  /\ up = "up"
  /\ pc[t] = "claim"
  /\ is_writing' = [is_writing EXCEPT ![on[t]] = TRUE]
  /\ pc' = [pc EXCEPT ![t] = IF Claimed(t) THEN "batch" ELSE "recv"]
  /\ on' = [on EXCEPT ![t] = IF Claimed(t) THEN on[t] ELSE "none"]
  /\ UNCHANGED <<up, appendVars, to_write, work, batch, diskVars, acked, loadVars>>

\* to_write_rx.recv_deadline: one more record for the batch.
TakeRecord(t) ==
  /\ up = "up"
  /\ pc[t] = "batch"
  /\ to_write[on[t]] # <<>>
  /\ batch' = [batch EXCEPT ![t] = Append(batch[t], Head(to_write[on[t]]))]
  /\ to_write' = [to_write EXCEPT ![on[t]] = Tail(to_write[on[t]])]
  /\ UNCHANGED <<up, appendVars, work, is_writing, pc, on, diskVars, acked, loadVars>>

MayFail == Len(failures) < MaxFailures

\* The batch is full or its time is up, with whatever it holds: write.
WriteBatch(t) ==
  /\ up = "up"
  /\ pc[t] = "batch"
  /\ file' = [file EXCEPT ![on[t]] = file[on[t]] \o batch[t]]
  /\ pc' = [pc EXCEPT ![t] = "written"]
  /\ UNCHANGED <<up, appendVars, to_write, work, is_writing, on, batch, durable, torn,
                 failures, acked, loadVars>>

\* write fails, maybe after a part of the buffer is written: the waiters are
\* notified all the same.
WriteFails(t) ==
  /\ up = "up"
  /\ pc[t] = "batch"
  /\ batch[t] # <<>>
  /\ MayFail
  /\ failures' = Append(failures, on[t])
  /\ \E n \in 0..Len(batch[t]) - 1, rest \in {<<>>, <<0>>} :
       file' = [file EXCEPT ![on[t]] = file[on[t]] \o SubSeq(batch[t], 1, n) \o rest]
  /\ acked' = acked \cup Range(batch[t])
  /\ batch' = [batch EXCEPT ![t] = <<>>]
  /\ pc' = [pc EXCEPT ![t] = "release"]
  /\ UNCHANGED <<up, appendVars, to_write, work, is_writing, on, durable, torn, loadVars>>

\* Mutant: fsync is left to the operating system.
MutantSynced(t) == durable[on[t]]

\* How much of the file is durable once fsync has returned.
Synced(t) == IF Sync THEN Len(file[on[t]]) ELSE durable[on[t]]

\* fsync in Sync mode, whose result nobody looks at; then the waiters.
SyncAndNotify(t) ==
  /\ up = "up"
  /\ pc[t] = "written"
  /\ \/ /\ durable' = [durable EXCEPT ![on[t]] = Synced(t)]
        /\ UNCHANGED failures
     \/ /\ Sync /\ MayFail
        /\ failures' = Append(failures, on[t])
        /\ UNCHANGED durable
  /\ acked' = acked \cup Range(batch[t])
  /\ batch' = [batch EXCEPT ![t] = <<>>]
  /\ pc' = [pc EXCEPT ![t] = "release"]
  /\ UNCHANGED <<up, appendVars, to_write, work, is_writing, on, file, torn, loadVars>>

\* is_writing.store(false)
Release(t) ==
  /\ up = "up"
  /\ pc[t] = "release"
  /\ is_writing' = [is_writing EXCEPT ![on[t]] = FALSE]
  /\ pc' = [pc EXCEPT ![t] = "recheck"]
  /\ UNCHANGED <<up, appendVars, to_write, work, on, batch, diskVars, acked, loadVars>>

\* Mutant: what came in meanwhile is left to the next append.
MutantMoreWork(t) == FALSE

\* The writer has records again, or still.
MoreWork(t) == to_write[on[t]] # <<>>

Recheck(t) ==
  /\ up = "up"
  /\ pc[t] = "recheck"
  /\ work' = IF MoreWork(t) THEN Append(work, on[t]) ELSE work
  /\ pc' = [pc EXCEPT ![t] = "recv"]
  /\ on' = [on EXCEPT ![t] = "none"]
  /\ UNCHANGED <<up, appendVars, to_write, is_writing, batch, diskVars, acked, loadVars>>

-----------------------------------------------------------------------------
(* A crash, and load_wal_dir in the next Store::new.                       *)

Crash ==
  /\ up = "up"
  /\ up' = "down"
  /\ \E cut \in [Prefixes -> 0..MaxRev + MaxFailures] :
       /\ \A p \in Prefixes : durable[p] <= cut[p] /\ cut[p] <= Len(file[p])
       /\ file' = [p \in Prefixes |-> SubSeq(file[p], 1, cut[p])]
       /\ \E end \in [Prefixes -> {"no", "header", "body"}] :
            /\ \A p \in Prefixes : cut[p] = Len(file[p]) => end[p] = "no"
            /\ torn' = end
  /\ appending' = FALSE
  /\ to_write' = [p \in Prefixes |-> <<>>]
  /\ work' = <<>>
  /\ is_writing' = [p \in Prefixes |-> FALSE]
  /\ pc' = [t \in Threads |-> "recv"]
  /\ on' = [t \in Threads |-> "none"]
  /\ batch' = [t \in Threads |-> <<>>]
  /\ UNCHANGED <<rev, prefixOf, durable, failures, acked, loadVars>>

(***************************************************************************)
(* What read_from may return with i records of the file behind it: at the  *)
(* end of the file nothing, also after a part of a header, and an error    *)
(* after a part of a body.  The bytes of a fragment and of what follows    *)
(* are taken for a record, or for the beginning of one.                    *)
(***************************************************************************)
ReadFrom(p, i) ==
  CASE i = Len(file[p]) -> IF torn[p] = "body" THEN {"error"} ELSE {"end"}
    [] i < Len(file[p]) /\ file[p][i + 1] # 0 -> {"record"}
    [] OTHER -> {"error", IF i + 1 = Len(file[p]) THEN "end" ELSE "record"}

\* The result res of the read leaves the reader before a record or at its end.
Position(p, i, res) == IF res = "end" THEN Len(file[p]) ELSE i

\* The first record of every file is read.
LoadBegin ==
  /\ up = "down"
  /\ \E res \in [Prefixes -> {"record", "end", "error"}] :
       /\ \A p \in Prefixes : res[p] \in ReadFrom(p, 0)
       /\ up' = IF \E p \in Prefixes : res[p] = "error" THEN "failed" ELSE "loading"
       /\ pos' = [p \in Prefixes |-> Position(p, 0, res[p])]
  /\ UNCHANGED <<appendVars, poolVars, diskVars, acked, replayed>>

\* Mutant: the heap gives the files one after the other.
MutantIsLeast(p) == pos[p] < Len(file[p])

\* heap.pop(): the file whose next record has the least revision.  The
\* revision of a record that was never written is anything.
IsLeast(p) ==
  /\ pos[p] < Len(file[p])
  /\ \A q \in Prefixes :
       (pos[q] < Len(file[q]) /\ file[q][pos[q] + 1] # 0) =>
         file[p][pos[p] + 1] <= file[q][pos[q] + 1]

\* on_entry, and the next record of the file.  After a fragment the reader
\* is within records, to the end.
LoadNext(p) ==
  /\ up = "loading"
  /\ IsLeast(p)
  /\ LET r == file[p][pos[p] + 1] IN
     /\ replayed' = Append(replayed, r)
     /\ \E res \in IF r = 0 THEN {"end", "error"} ELSE ReadFrom(p, pos[p] + 1) :
          /\ up' = IF res = "error" THEN "failed" ELSE "loading"
          /\ pos' = [pos EXCEPT ![p] = Position(p, pos[p] + 1, res)]
  /\ UNCHANGED <<appendVars, poolVars, diskVars, acked>>

LoadEnd ==
  /\ up = "loading"
  /\ \A p \in Prefixes : pos[p] = Len(file[p])
  /\ up' = "loaded"
  /\ UNCHANGED <<appendVars, poolVars, diskVars, acked, loadVars>>

-----------------------------------------------------------------------------
ThreadStep(t) ==
  \/ RecvWork(t) \/ Claim(t) \/ TakeRecord(t) \/ WriteBatch(t) \/ WriteFails(t)
  \/ SyncAndNotify(t) \/ Release(t) \/ Recheck(t)

Next ==
  \/ \E p \in Prefixes : AppendSkipped(p) \/ AppendRecord(p)
  \/ AppendWork
  \/ \E t \in Threads : ThreadStep(t)
  \/ Crash
  \/ LoadBegin
  \/ \E p \in Prefixes : LoadNext(p)
  \/ LoadEnd

Spec == Init /\ [][Next]_vars

(***************************************************************************)
(* The threads run for ever and append finishes what it began.  A thread   *)
(* with a batch open on records that are there takes one before its 500 us *)
(* are over, at least once in a while.                                     *)
(***************************************************************************)
Fairness ==
  /\ WF_vars(AppendWork)
  /\ \A t \in Threads : WF_vars(ThreadStep(t)) /\ SF_vars(TakeRecord(t))

FairSpec == Spec /\ Fairness

-----------------------------------------------------------------------------
(* Properties.                                                             *)

Increasing(s) == \A i, j \in 1..Len(s) : i < j => s[i] < s[j]

\* The records of s that were written are in order.
InOrder(s) == \A i, j \in 1..Len(s) : i < j /\ s[i] # 0 /\ s[j] # 0 => s[i] < s[j]

\* The batches of p not yet in its file.
Unwritten(p) == {t \in Threads : on[t] = p /\ pc[t] = "batch" /\ batch[t] # <<>>}

\* The prefixes whose writes and fsyncs have all succeeded.
Sound == (Prefixes \ NoPersist) \ Range(failures)

(***************************************************************************)
(* A record is in one place, and in order: the file of a prefix, the batch *)
(* on its way to it and the records still to be taken are, in this order,  *)
(* the revisions of the prefix, each once and none missing, although any   *)
(* thread of the pool may serve the prefix next and the writes of other    *)
(* prefixes fail.                                                          *)
(***************************************************************************)
RecordsInOrder ==
  up = "up" =>
    \A p \in Sound :
      \E b \in {<<>>} \cup {batch[t] : t \in Unwritten(p)} :
        LET all == file[p] \o b \o to_write[p] IN
        /\ b = <<>> => Unwritten(p) = {}
        /\ Increasing(all)
        /\ Range(all) = {r \in 1..rev : prefixOf[r] = p}

(***************************************************************************)
(* In Sync mode a waiter that has been notified finds its record after a   *)
(* crash: if load_wal_dir comes to its end it has replayed the record,     *)
(* unless the prefix is not persisted or a write or fsync of that prefix   *)
(* failed.  A fragment in one file costs nothing that is in another.       *)
(***************************************************************************)
AckedReplayed ==
  up = "loaded" /\ Sync => \A r \in acked : prefixOf[r] \in Sound => r \in Range(replayed)

(***************************************************************************)
(* The records that were written are replayed in revision order over all   *)
(* the files, so the last write of a key wins, also when a file holds a    *)
(* fragment.  Of every sound file the replay has a beginning: no record    *)
(* without the earlier ones.                                               *)
(***************************************************************************)
ReplayInOrder ==
  /\ InOrder(replayed)
  /\ up = "loaded" =>
       \A r \in Range(replayed) \ {0} : prefixOf[r] \in Sound =>
         \A q \in 1..r : prefixOf[q] = prefixOf[r] => q \in Range(replayed)

(***************************************************************************)
(* No wakeup is lost: every record is eventually written and its waiter    *)
(* notified, whichever threads found the writer busy or without records.   *)
(***************************************************************************)
EveryRecordHandled == \A r \in Revisions : rev >= r ~> (r \in acked \/ up # "up")

=============================================================================
