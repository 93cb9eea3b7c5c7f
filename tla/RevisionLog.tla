----------------------------- MODULE RevisionLog ----------------------------
(***************************************************************************)
(* What BlockDeque (src/src/block_deque.rs) promises the store: a log      *)
(* indexed from 0 that grows at its end, loses its beginning, and whose    *)
(* every entry is reserved by one thread, filled with the placeholder it   *)
(* pushes and then replaced by its final value.  Every operation is one    *)
(* step.                                                                   *)
(***************************************************************************)
EXTENDS Naturals

CONSTANTS
  Pushers,   \* threads that push
  MaxIndex   \* bound: no index beyond this one

VARIABLES
  first,   \* indices below it have been removed
  end,     \* the next index
  entry,   \* what each index holds
  index    \* the index each thread has reserved and not yet filled

logVars == <<first, end, entry, index>>

Indices == 0..MaxIndex

\* No index is reserved; a slot without a value.
NoIndex == MaxIndex + 1

Entry == {"none", "placeholder", "value"}

Init ==
  /\ first = 0
  /\ end = 0
  /\ entry = [i \in Indices |-> "none"]
  /\ index = [p \in Pushers |-> NoIndex]

\* push takes the next index, which no other thread has ...
Reserve(p) ==
  /\ index[p] = NoIndex
  /\ index' = [index EXCEPT ![p] = end]
  /\ end' = end + 1
  /\ UNCHANGED <<first, entry>>

\* ... and returns once the entry is there, or has been removed meanwhile.
Fill(p) ==
  /\ index[p] # NoIndex
  /\ entry' = [entry EXCEPT ![index[p]] = IF index[p] >= first THEN "placeholder"
                                                              ELSE "none"]
  /\ index' = [index EXCEPT ![p] = NoIndex]
  /\ UNCHANGED <<first, end>>

\* set
Replace(i) ==
  /\ entry[i] = "placeholder"
  /\ entry' = [entry EXCEPT ![i] = "value"]
  /\ UNCHANGED <<first, end, index>>

\* remove_before(n) forgets the entries below n and no other.
RemoveBefore(n) ==
  /\ first <= n /\ n <= end
  /\ first' = n
  /\ entry' = [i \in Indices |-> IF i < n THEN "none" ELSE entry[i]]
  /\ UNCHANGED <<end, index>>

\* clear
Clear ==
  /\ first' = 0
  /\ end' = 0
  /\ entry' = [i \in Indices |-> "none"]
  /\ UNCHANGED index

Next ==
  \/ \E p \in Pushers : Reserve(p) \/ Fill(p)
  \/ \E i \in Indices : Replace(i)
  \/ \E n \in 0..(MaxIndex + 1) : RemoveBefore(n)
  \/ Clear

Spec == Init /\ [][Next]_logVars

=============================================================================
