----------------------------- MODULE BlockDeque -----------------------------
(***************************************************************************)
(* The concurrent block array behind values_by_revision                    *)
(* (src/src/block_deque.rs).  blocks is guarded by an RwLock; length and   *)
(* start_offset are atomics, which latest_revision reads without the lock, *)
(* one after the other.                                                    *)
(*                                                                         *)
(* A pusher does what Store::set does with the deque: push a placeholder,  *)
(* then set its final value at the index it was given.  A slot holds the   *)
(* index its value was pushed for, so that a value in a wrong slot shows.  *)
(***************************************************************************)
EXTENDS Integers, Sequences

CONSTANTS
  Pushers,        \* threads that push
  Readers,        \* threads that call latest_revision
  BlockSize,      \* BLOCK_SIZE
  MaxIndex,       \* bound: no index beyond this one
  MaxRemoves      \* bound: calls of remove_before that find work to do

ASSUME BlockDequeAssumption ==
  /\ BlockSize \in Nat \ {0}
  /\ MaxIndex \in Nat
  /\ MaxRemoves \in Nat

Indices == 0..MaxIndex

NoIndex == MaxIndex + 1

\* Option<T>: None, a pushed placeholder or a final value.
Slot == [kind : {"none"}, of : {0}] \cup [kind : {"placeholder", "value"}, of : Indices]

None == [kind |-> "none", of |-> 0]

Block == [0..(BlockSize - 1) -> Slot]

VARIABLES
  blocks,        \* the Vec of blocks
  start_offset,  \* indices below it have been removed
  length,        \* number of elements
  pc,            \* where each pusher is
  index,         \* the index each pusher was given
  removing,      \* the argument of the remove_before that holds the write lock
  removes,       \* bound: calls of remove_before so far
  poisoned,      \* a panic left the lock poisoned: every later call panics
  rpc,           \* where each reader is
  half,          \* the length it has read
  low,           \* history: the end of the log when its call began
  calm,          \* history: no removal and no clear since then
  answer         \* what latest_revision returned

pushVars == <<pc, index>>
readVars == <<rpc, half, low, calm, answer>>
vars == <<blocks, start_offset, length, pushVars, removing, removes, poisoned, readVars>>

NotRemoving == MaxIndex + 2

TypeOK ==
  /\ blocks \in Seq(Block)
  /\ start_offset \in 0..(MaxIndex + 1)
  /\ length \in 0..(MaxIndex + 1)
  /\ pc \in [Pushers -> {"idle", "reserved", "grow", "pushed"}]
  /\ index \in [Pushers -> Indices \cup {NoIndex}]
  /\ removing \in 0..(MaxIndex + 1) \cup {NotRemoving}
  /\ removes \in 0..MaxRemoves
  /\ poisoned \in BOOLEAN
  /\ rpc \in [Readers -> {"idle", "half", "done"}]
  /\ half \in [Readers -> Nat]
  /\ low \in [Readers -> Nat]
  /\ calm \in [Readers -> BOOLEAN]
  /\ answer \in [Readers -> Nat]

Init ==
  /\ blocks = <<>>
  /\ start_offset = 0
  /\ length = 0
  /\ pc = [p \in Pushers |-> "idle"]
  /\ index = [p \in Pushers |-> NoIndex]
  /\ removing = NotRemoving
  /\ removes = 0
  /\ poisoned = FALSE
  /\ rpc = [r \in Readers |-> "idle"]
  /\ half = [r \in Readers |-> 0]
  /\ low = [r \in Readers |-> 0]
  /\ calm = [r \in Readers |-> FALSE]
  /\ answer = [r \in Readers |-> 0]

-----------------------------------------------------------------------------
(* The lock and the arithmetic.  The operators whose names start with      *)
(* Mutant are wrong variants, kept to show that the properties see them.   *)

\* blocks.read() and blocks.write() succeed.
CanRead == ~poisoned /\ removing = NotRemoving

CanWrite == CanRead /\ \A p \in Pushers : pc[p] # "reserved"

\* Mutant: blocks counted from start_offset instead of from its block.
MutantBlockIndex(i) == (i - start_offset) \div BlockSize

\* The block of index i; negative where the code's usize would wrap.
BlockIndex(i) == (i \div BlockSize) - (start_offset \div BlockSize)

\* blocks with the slot of index i overwritten.
Write(bs, i, slot) ==
  [bs EXCEPT ![BlockIndex(i) + 1] = [@ EXCEPT ![i % BlockSize] = slot]]

\* Mutant: the loop stops one block short.
MutantGrown(n) == blocks \o [i \in 1..(n - Len(blocks)) |-> [o \in 0..(BlockSize - 1) |-> None]]

\* blocks, long enough to have a block number n.
Grown(n) == blocks \o [i \in 1..(n + 1 - Len(blocks)) |-> [o \in 0..(BlockSize - 1) |-> None]]

\* get_with(i, f) under the read lock, without f.
GetWith(i) ==
  IF start_offset <= i /\ i < start_offset + length
    THEN blocks[BlockIndex(i) + 1][i % BlockSize] ELSE None

\* remove_before(n): the distance from the start of the first block.
Span(n) == n - (start_offset - (start_offset % BlockSize))

\* Mutant: the element at n goes too.
MutantKept(i, n) == i > n % BlockSize

\* Offset i of the block of n survives remove_before(n).
Kept(i, n) == i >= n % BlockSize

\* blocks once remove_before(n) is through: whole blocks are dropped, and
\* what the new first block holds before n is cleared.
Removed(n) ==
  LET rest == SubSeq(blocks, Span(n) \div BlockSize + 1, Len(blocks)) IN
  IF Span(n) % BlockSize = 0 THEN rest
  ELSE [rest EXCEPT ![1] = [i \in 0..(BlockSize - 1) |-> IF Kept(i, n) THEN rest[1][i] ELSE None]]

\* blocks_write.remove(0) on no block, or first_mut().unwrap() of none.
RemovePanics(n) ==
  \/ Len(blocks) < Span(n) \div BlockSize
  \/ Len(blocks) = Span(n) \div BlockSize /\ Span(n) % BlockSize > 0

-----------------------------------------------------------------------------
(* push, and the set that follows it.                                      *)

\* Mutant: start_offset is not added.
MutantNextIndex == length

\* length.fetch_add(1) + start_offset
NextIndex == start_offset + length

\* Under the read lock: the next index is this thread's.
PushReserve(p) ==
  /\ pc[p] = "idle"
  /\ CanRead
  /\ start_offset + length <= MaxIndex
  /\ index' = [index EXCEPT ![p] = NextIndex]
  /\ length' = length + 1
  /\ pc' = [pc EXCEPT ![p] = "reserved"]
  /\ UNCHANGED <<blocks, start_offset, removing, removes, poisoned, readVars>>

\* Still under the read lock: there is a block, the element goes in.
PushStore(p) ==
  /\ pc[p] = "reserved"
  /\ BlockIndex(index[p]) < Len(blocks)
  /\ blocks' = Write(blocks, index[p], [kind |-> "placeholder", of |-> index[p]])
  /\ pc' = [pc EXCEPT ![p] = "pushed"]
  /\ UNCHANGED <<start_offset, length, index, removing, removes, poisoned, readVars>>

\* There is no block yet: the read lock is released.
PushMiss(p) ==
  /\ pc[p] = "reserved"
  /\ BlockIndex(index[p]) >= Len(blocks)
  /\ pc' = [pc EXCEPT ![p] = "grow"]
  /\ UNCHANGED <<blocks, start_offset, length, index, removing, removes, poisoned, readVars>>

\* Under the write lock: blocks are added as needed and the element goes in.
PushGrow(p) ==
  /\ pc[p] = "grow"
  /\ CanWrite
  /\ BlockIndex(index[p]) >= 0
  /\ blocks' = Write(Grown(BlockIndex(index[p])), index[p],
                     [kind |-> "placeholder", of |-> index[p]])
  /\ pc' = [pc EXCEPT ![p] = "pushed"]
  /\ UNCHANGED <<start_offset, length, index, removing, removes, poisoned, readVars>>

\* The block of the index has been removed and the subtraction underflows: a
\* panic, or with wrapping arithmetic a loop that never lets go of the lock.
PushPanic(p) ==
  /\ pc[p] = "grow"
  /\ CanWrite
  /\ BlockIndex(index[p]) < 0
  /\ poisoned' = TRUE
  /\ UNCHANGED <<blocks, start_offset, length, pushVars, removing, removes, readVars>>

\* set(index, value), under the read lock; false for an index that is gone.
SetValue(p) ==
  /\ pc[p] = "pushed"
  /\ CanRead
  /\ blocks' = IF index[p] >= start_offset
                 THEN Write(blocks, index[p], [kind |-> "value", of |-> index[p]])
                 ELSE blocks
  /\ pc' = [pc EXCEPT ![p] = "idle"]
  /\ index' = [index EXCEPT ![p] = NoIndex]
  /\ UNCHANGED <<start_offset, length, removing, removes, poisoned, readVars>>

-----------------------------------------------------------------------------
(* remove_before, clear and latest_revision.                               *)

\* Mutant: what was removed before is subtracted again.
MutantLengthAfter(n) == length - n

\* length.fetch_sub(idx - start_offset)
LengthAfter(n) == length - (n - start_offset)

\* The write lock is taken, n is in range, and length is lowered.
RemoveBegin(n) ==
  /\ CanWrite
  /\ removes < MaxRemoves
  /\ start_offset < n /\ n < start_offset + length
  /\ length' = LengthAfter(n)
  /\ removing' = n
  /\ removes' = removes + 1
  /\ calm' = [r \in Readers |-> FALSE]
  /\ UNCHANGED <<blocks, start_offset, pushVars, poisoned, rpc, half, low, answer>>

\* The blocks are removed, start_offset is stored, the lock released.
RemoveEnd ==
  /\ removing # NotRemoving
  /\ ~poisoned
  /\ ~RemovePanics(removing)
  /\ blocks' = Removed(removing)
  /\ start_offset' = removing
  /\ removing' = NotRemoving
  /\ UNCHANGED <<length, pushVars, removes, poisoned, readVars>>

\* A block that was expected is not there; length stays lowered.
RemovePanic ==
  /\ removing # NotRemoving
  /\ ~poisoned
  /\ RemovePanics(removing)
  /\ poisoned' = TRUE
  /\ UNCHANGED <<blocks, start_offset, length, pushVars, removing, removes, readVars>>

\* clear, called by import_snapshot_data, which has no pusher beside it.
Clear ==
  /\ CanWrite
  /\ \A p \in Pushers : pc[p] = "idle"
  /\ blocks # <<>>
  /\ blocks' = <<>>
  /\ start_offset' = 0
  /\ length' = 0
  /\ calm' = [r \in Readers |-> FALSE]
  /\ UNCHANGED <<pushVars, removing, removes, poisoned, rpc, half, low, answer>>

\* The index after the last, as the operations under the lock leave it.
End == length + (IF removing = NotRemoving THEN start_offset ELSE removing)

\* length.load(), without the lock ...
LatestLength(r) ==
  /\ rpc[r] = "idle"
  /\ half' = [half EXCEPT ![r] = length]
  /\ low' = [low EXCEPT ![r] = End]
  /\ calm' = [calm EXCEPT ![r] = (removing = NotRemoving)]
  /\ rpc' = [rpc EXCEPT ![r] = "half"]
  /\ UNCHANGED <<blocks, start_offset, length, pushVars, removing, removes, poisoned, answer>>

\* Mutant: the number of elements is taken for the revision.
MutantLatest(r) == half[r]

\* length + start_offset
Latest(r) == half[r] + start_offset

\* ... and then start_offset.load(); the function returns.
LatestOffset(r) ==
  /\ rpc[r] = "half"
  /\ answer' = [answer EXCEPT ![r] = Latest(r)]
  /\ rpc' = [rpc EXCEPT ![r] = "done"]
  /\ half' = [half EXCEPT ![r] = 0]
  /\ low' = [low EXCEPT ![r] = 0]
  /\ calm' = [calm EXCEPT ![r] = FALSE]
  /\ UNCHANGED <<blocks, start_offset, length, pushVars, removing, removes, poisoned>>

\* The caller has its answer.
LatestReturn(r) ==
  /\ rpc[r] = "done"
  /\ rpc' = [rpc EXCEPT ![r] = "idle"]
  /\ answer' = [answer EXCEPT ![r] = 0]
  /\ UNCHANGED <<blocks, start_offset, length, pushVars, removing, removes, poisoned, half, low,
                 calm>>

-----------------------------------------------------------------------------
PushStep(p) ==
  \/ PushReserve(p) \/ PushStore(p) \/ PushMiss(p) \/ PushGrow(p) \/ PushPanic(p)
  \/ SetValue(p)

Next ==
  \/ \E p \in Pushers : PushStep(p)
  \/ \E n \in Indices : RemoveBegin(n)
  \/ RemoveEnd
  \/ RemovePanic
  \/ Clear
  \/ \E r \in Readers : LatestLength(r) \/ LatestOffset(r) \/ LatestReturn(r)

Spec == Init /\ [][Next]_vars

-----------------------------------------------------------------------------
(* Properties.                                                             *)

\* What index i holds, whoever has the lock; entries below a removal that is
\* under way are still there.
Entry(i) ==
  IF start_offset <= i /\ i < End /\ BlockIndex(i) < Len(blocks)
    THEN blocks[BlockIndex(i) + 1][i % BlockSize] ELSE None

(***************************************************************************)
(* The value found under an index is the one that was pushed for it, over  *)
(* all the block arithmetic of push, set, get_with and remove_before.      *)
(***************************************************************************)
EntriesInPlace ==
  ~poisoned => \A i \in Indices : Entry(i).kind # "none" => Entry(i).of = i

(***************************************************************************)
(* A push that has returned stays readable until it is removed: get_with   *)
(* finds a value under every index in range but those still being pushed,  *)
(* while remove_before drops and clears blocks in front of them.           *)
(***************************************************************************)
PushedReadable ==
  CanRead =>
    \A i \in start_offset..(start_offset + length - 1) :
      \/ \E p \in Pushers : index[p] = i /\ pc[p] \in {"reserved", "grow"}
      \/ GetWith(i).kind # "none"

(***************************************************************************)
(* A call panics and poisons the lock for one reason only: a removal went  *)
(* past an index whose push had released the read lock and not yet taken   *)
(* the write lock.  The block arithmetic alone never leads there.          *)
(***************************************************************************)
PanicsOnlyOvertaken ==
  poisoned =>
    \E p \in Pushers :
      /\ pc[p] = "grow"
      /\ index[p] < (IF removing = NotRemoving THEN start_offset ELSE removing)

(***************************************************************************)
(* "Returns the current revision": without a lock, latest_revision answers *)
(* with an end that the log had during the call, whatever was pushed in    *)
(* between, provided no removal and no clear ran beside it.                *)
(***************************************************************************)
LatestIsCurrent ==
  [][\A r \in Readers : rpc[r] = "half" /\ rpc'[r] = "done" /\ calm[r] =>
       low[r] <= answer'[r] /\ answer'[r] <= End]_vars

\* The deque as a RevisionLog.
Log == INSTANCE RevisionLog WITH
         first <- start_offset,
         end <- End,
         entry <- [i \in Indices |-> Entry(i).kind],
         index <- [p \in Pushers |-> IF pc[p] \in {"reserved", "grow"} THEN index[p]
                                                                     ELSE NoIndex]

(***************************************************************************)
(* The deque implements the atomic log: indices are given out once each    *)
(* and in order, set changes one entry, and remove_before drops what is    *)
(* before its argument and nothing else, whatever runs in between.         *)
(***************************************************************************)
ImplementsLog == Log!Spec

=============================================================================
