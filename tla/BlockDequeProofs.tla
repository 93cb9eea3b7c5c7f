--------------------------- MODULE BlockDequeProofs ---------------------------
(***************************************************************************)
(* Proofs about BlockDeque, for any threads, any block size and any        *)
(* bounds: the arithmetic of the blocks, the properties of the deque, and  *)
(* that it implements RevisionLog.                                         *)
(***************************************************************************)
EXTENDS BlockDeque, TLAPS

-----------------------------------------------------------------------------
(* The inductive invariant.                                                *)

\* There is a block for index i, and what its slot holds, also before
\* start_offset and at the end and beyond it.
Present(i) == 0 <= BlockIndex(i) /\ BlockIndex(i) < Len(blocks)

At(i) == blocks[BlockIndex(i) + 1][i % BlockSize]

\* A removal that is under way has lowered length by what it is about to remove.
BoundsOK ==
  /\ End <= MaxIndex + 1
  /\ removing # NotRemoving => start_offset < removing /\ removing < End

\* The push of p has been given index[p] and not yet filled it.
Unfilled(p) == pc[p] \in {"reserved", "grow"}

\* An index that was given out is below the end; its read lock keeps removals
\* away; a placeholder that was not removed is there until it is replaced.
PusherOK(p) ==
  /\ pc[p] # "idle" => index[p] \in Indices /\ index[p] < End
  /\ pc[p] = "reserved" => removing = NotRemoving /\ start_offset <= index[p]
  /\ pc[p] = "pushed" /\ start_offset <= index[p] =>
       Present(index[p]) /\ At(index[p]).kind = "placeholder"

\* No index is given out twice.
DistinctOK ==
  \A p, q \in Pushers : pc[p] # "idle" /\ pc[q] # "idle" /\ index[p] = index[q] => p = q

\* A slot holds what was pushed for its index, and nothing before that.
SlotOK(i) ==
  Present(i) => /\ At(i).kind # "none" => At(i).of = i
                /\ End <= i => At(i).kind = "none"

\* Every index in range is being pushed or has been filled.
FilledOK(i) ==
  start_offset <= i /\ i < End =>
    \/ \E p \in Pushers : index[p] = i /\ Unfilled(p)
    \/ Present(i) /\ At(i).kind # "none"

\* As long as nothing is removed, a reader that has the length can go on with
\* start_offset.
ReaderOK(r) ==
  rpc[r] = "half" /\ calm[r] =>
    /\ removing = NotRemoving
    /\ low[r] = half[r] + start_offset
    /\ low[r] <= End

IInv ==
  /\ TypeOK
  /\ BoundsOK
  /\ \A p \in Pushers : PusherOK(p)
  /\ DistinctOK
  /\ \A i \in Indices : SlotOK(i) /\ FilledOK(i)
  /\ \A r \in Readers : ReaderOK(r)
  /\ PanicsOnlyOvertaken

-----------------------------------------------------------------------------
(* The arithmetic of blocks.                                               *)

\* Division and remainder.
LEMMA DivMod ==
  ASSUME NEW i \in Nat
  PROVE  /\ i \div BlockSize \in Nat
         /\ i % BlockSize \in 0..(BlockSize - 1)
         /\ i = BlockSize * (i \div BlockSize) + (i % BlockSize)
  BY BlockDequeAssumption

\* They are the only numbers that make up i.
LEMMA MadeUp ==
  ASSUME NEW a \in Nat, NEW r \in 0..(BlockSize - 1)
  PROVE  /\ (BlockSize * a + r) \div BlockSize = a
         /\ (BlockSize * a + r) % BlockSize = r
  BY BlockDequeAssumption

\* What is made up of fewer blocks is smaller.
LEMMA FewerBlocks ==
  ASSUME NEW a \in Nat, NEW b \in Nat, NEW r \in 0..(BlockSize - 1), NEW s \in 0..(BlockSize - 1),
         a < b
  PROVE  BlockSize * a + r < BlockSize * b + s
<1>1. BlockSize * (a + 1) <= BlockSize * b
  BY BlockDequeAssumption
<1>2. BlockSize * (a + 1) = BlockSize * a + BlockSize
  BY BlockDequeAssumption
<1>3. BlockSize * a \in Nat /\ BlockSize * b \in Nat /\ BlockSize \in Nat
  BY BlockDequeAssumption
<1> QED
  BY <1>1, <1>2, <1>3

\* Indices are ordered by block and then by offset.
LEMMA BlockOrder ==
  ASSUME NEW i \in Nat, NEW j \in Nat
  PROVE  /\ i \div BlockSize < j \div BlockSize => i < j
         /\ i \div BlockSize = j \div BlockSize => (i < j <=> i % BlockSize < j % BlockSize)
<1>1. i \div BlockSize < j \div BlockSize => i < j
  BY DivMod, FewerBlocks
<1>2. ASSUME i \div BlockSize = j \div BlockSize
      PROVE  i < j <=> i % BlockSize < j % BlockSize
  <2>1. BlockSize * (i \div BlockSize) \in Nat
    BY DivMod, BlockDequeAssumption
  <2> QED
    BY <1>2, <2>1, DivMod
<1> QED
  BY <1>1, <1>2

\* remove_before measures from the start of the first block, which is there to
\* drop whole blocks and to clear the beginning of another.
LEMMA SpanFacts ==
  ASSUME NEW n \in Nat, start_offset \in Nat, start_offset <= n
  PROVE  /\ n \div BlockSize - start_offset \div BlockSize \in Nat
         /\ Span(n) \div BlockSize = n \div BlockSize - start_offset \div BlockSize
         /\ Span(n) % BlockSize = n % BlockSize
<1> DEFINE a == n \div BlockSize
           b == start_offset \div BlockSize
<1>1. /\ a \in Nat /\ b \in Nat /\ n % BlockSize \in 0..(BlockSize - 1)
      /\ n = BlockSize * a + (n % BlockSize)
      /\ start_offset - (start_offset % BlockSize) = BlockSize * b
  <2>1. start_offset % BlockSize \in Int /\ BlockSize * b \in Int
    BY DivMod, BlockDequeAssumption
  <2> QED
    BY <2>1, DivMod
<1>2. b <= a
  BY <1>1, BlockOrder
<1>3. a - b \in Nat
  BY <1>1, <1>2
<1>4. BlockSize * (a - b) = BlockSize * a - BlockSize * b
  BY <1>1, BlockDequeAssumption
<1>5. BlockSize * a \in Nat /\ BlockSize * b \in Nat /\ n % BlockSize \in Nat
  BY <1>1, BlockDequeAssumption
<1>6. Span(n) = BlockSize * (a - b) + (n % BlockSize)
  BY <1>1, <1>4, <1>5 DEF Span
<1> QED
  BY <1>1, <1>3, <1>6, MadeUp

\* The index before n is in the block of n, or in the one before it if n starts
\* a block.
LEMMA Predecessor ==
  ASSUME NEW n \in Nat \ {0}
  PROVE  /\ n % BlockSize > 0 => (n - 1) \div BlockSize = n \div BlockSize
         /\ n % BlockSize = 0 => (n - 1) \div BlockSize = n \div BlockSize - 1
<1> DEFINE a == n \div BlockSize
           r == n % BlockSize
<1>1. a \in Nat /\ r \in 0..(BlockSize - 1) /\ n = BlockSize * a + r /\ BlockSize \in Nat \ {0}
  BY DivMod, BlockDequeAssumption
<1> HIDE DEF a, r
<1>2. ASSUME r > 0
      PROVE  (n - 1) \div BlockSize = a
  <2>1. r - 1 \in 0..(BlockSize - 1)
    BY <1>1, <1>2
  <2>2. BlockSize * a \in Nat
    BY <1>1
  <2>3. n - 1 = BlockSize * a + (r - 1)
    BY <1>1, <2>2
  <2> QED
    BY <1>1, <2>1, <2>3, MadeUp
<1>3. ASSUME r = 0
      PROVE  (n - 1) \div BlockSize = a - 1
  <2>1. a # 0
    BY <1>1, <1>3
  <2>2. a - 1 \in Nat /\ BlockSize - 1 \in 0..(BlockSize - 1)
    BY <1>1, <2>1
  <2>3. BlockSize * (a - 1) = BlockSize * a - BlockSize
    BY <1>1
  <2>4. BlockSize * a \in Nat
    BY <1>1
  <2>5. n - 1 = BlockSize * (a - 1) + (BlockSize - 1)
    BY <1>1, <1>3, <2>3, <2>4
  <2> QED
    BY <2>2, <2>5, MadeUp
<1> QED
  BY <1>2, <1>3 DEF a, r

\* Block and offset of an index; different indices have different slots.
LEMMA BlockFacts ==
  ASSUME start_offset \in Nat, NEW i \in Nat
  PROVE  /\ BlockIndex(i) \in Int
         /\ i % BlockSize \in 0..(BlockSize - 1)
         /\ start_offset <= i => 0 <= BlockIndex(i)
         /\ \A j \in Nat : BlockIndex(i) = BlockIndex(j) /\ i % BlockSize = j % BlockSize => i = j
<1>1. /\ i \div BlockSize \in Nat /\ i % BlockSize \in 0..(BlockSize - 1)
      /\ start_offset \div BlockSize \in Nat
  BY DivMod
<1>2. start_offset <= i => start_offset \div BlockSize <= i \div BlockSize
  BY <1>1, BlockOrder
<1>3. ASSUME NEW j \in Nat, BlockIndex(i) = BlockIndex(j), i % BlockSize = j % BlockSize
      PROVE  i = j
  <2>1. j \div BlockSize \in Nat
    BY DivMod
  <2>2. i \div BlockSize = j \div BlockSize
    BY <1>1, <1>3, <2>1 DEF BlockIndex
  <2>3. i = BlockSize * (i \div BlockSize) + (i % BlockSize)
    BY DivMod
  <2>4. j = BlockSize * (j \div BlockSize) + (j % BlockSize)
    BY DivMod
  <2> QED
    BY <1>3, <2>2, <2>3, <2>4
<1> QED
  BY <1>1, <1>2, <1>3 DEF BlockIndex

-----------------------------------------------------------------------------
(* Blocks and slots.                                                       *)

\* The slots the code writes.
LEMMA SlotFacts ==
  /\ None \in Slot /\ None.kind = "none"
  /\ \A k \in {"placeholder", "value"}, i \in Indices :
       LET slot == [kind |-> k, of |-> i] IN slot \in Slot /\ slot.kind = k /\ slot.of = i
  BY DEF Slot, None

\* The types, for the provers.
LEMMA Types ==
  ASSUME TypeOK
  PROVE  /\ blocks \in Seq(Block) /\ Len(blocks) \in Nat
         /\ \A k \in 1..Len(blocks) : blocks[k] \in Block
         /\ start_offset \in Nat /\ length \in Nat /\ MaxIndex \in Nat /\ MaxRemoves \in Nat
         /\ removing \in Nat /\ removes \in Nat
         /\ \A i \in Indices : i \in Nat /\ i <= MaxIndex
  BY BlockDequeAssumption DEF TypeOK, NotRemoving, Indices

\* The blocks w are bs with another slot for index i.
Written(w, bs, i, slot) ==
  /\ w \in Seq(Block)
  /\ Len(w) = Len(bs)
  /\ \A k \in 1..Len(bs), o \in 0..(BlockSize - 1) :
       w[k][o] = IF k = BlockIndex(i) + 1 /\ o = i % BlockSize THEN slot ELSE bs[k][o]

\* A slot is overwritten and no other.
LEMMA WriteFacts ==
  ASSUME NEW bs \in Seq(Block), NEW i \in Nat, NEW slot \in Slot, start_offset \in Nat
  PROVE  Written(Write(bs, i, slot), bs, i, slot)
<1> DEFINE b == BlockIndex(i) + 1
           o1 == i % BlockSize
           ws == [bs EXCEPT ![b] = [@ EXCEPT ![o1] = slot]]
<1>2. Write(bs, i, slot) = ws
  BY DEF Write
<1> HIDE DEF b, o1
<1>3. \A k \in 1..Len(bs) : bs[k] \in [0..(BlockSize - 1) -> Slot]
  BY DEF Block
<1>4. DOMAIN ws = 1..Len(bs) /\ Len(bs) \in Nat
  OBVIOUS
<1>5. \A k \in 1..Len(bs) : ws[k] = IF k = b THEN [bs[k] EXCEPT ![o1] = slot] ELSE bs[k]
  OBVIOUS
<1>6. \A k \in 1..Len(bs) : ws[k] \in Block
  <2> SUFFICES ASSUME NEW k \in 1..Len(bs) PROVE ws[k] \in Block
    OBVIOUS
  <2>1. bs[k] \in [0..(BlockSize - 1) -> Slot]
    BY <1>3
  <2>2. [bs[k] EXCEPT ![o1] = slot] \in [0..(BlockSize - 1) -> Slot]
    BY <2>1, Zenon
  <2> QED
    BY <1>5, <2>1, <2>2, Zenon DEF Block
<1>7. ws \in Seq(Block) /\ Len(ws) = Len(bs)
  <2>1. ws = [k \in 1..Len(bs) |-> ws[k]]
    BY <1>4, Zenon
  <2> HIDE DEF ws
  <2> QED
    BY <1>4, <1>6, <2>1
<1> HIDE DEF ws
<1>8. ASSUME NEW k \in 1..Len(bs), NEW o \in 0..(BlockSize - 1)
      PROVE  ws[k][o] = IF k = b /\ o = o1 THEN slot ELSE bs[k][o]
  <2>1. bs[k] \in [0..(BlockSize - 1) -> Slot]
    BY <1>3
  <2>2. [bs[k] EXCEPT ![o1] = slot][o] = IF o = o1 THEN slot ELSE bs[k][o]
    BY <2>1, Zenon
  <2> QED
    BY <1>5, <2>2, Zenon
<1> QED
  BY <1>2, <1>7, <1>8, Zenon DEF b, o1, Written

\* Two sequences of blocks put together.
LEMMA ConcatFacts ==
  ASSUME NEW s \in Seq(Block), NEW u \in Seq(Block)
  PROVE  /\ s \o u \in Seq(Block) /\ Len(s \o u) = Len(s) + Len(u)
         /\ \A k \in 1..Len(s) : (s \o u)[k] = s[k]
         /\ \A k \in 1..Len(u) : (s \o u)[Len(s) + k] = u[k]
<1>1. Len(s) \in Nat /\ Len(u) \in Nat /\ s \o u \in Seq(Block) /\ Len(s \o u) = Len(s) + Len(u)
  OBVIOUS
<1>2. \A k \in 1..Len(s) : (s \o u)[k] = s[k]
  OBVIOUS
<1>3. \A k \in 1..Len(u) : (s \o u)[Len(s) + k] = u[k]
  OBVIOUS
<1> QED
  BY <1>1, <1>2, <1>3

\* Empty blocks are added until there is one with number n.
LEMMA GrownFacts ==
  ASSUME NEW n \in Nat, blocks \in Seq(Block)
  PROVE  /\ Grown(n) \in Seq(Block)
         /\ Len(Grown(n)) \in Nat /\ Len(blocks) <= Len(Grown(n)) /\ n < Len(Grown(n))
         /\ Len(Grown(n)) = Len(blocks) \/ Len(Grown(n)) = n + 1
         /\ \A k \in 1..Len(blocks) : Grown(n)[k] = blocks[k]
         /\ \A k \in (Len(blocks) + 1)..Len(Grown(n)), o \in 0..(BlockSize - 1) :
              Grown(n)[k][o] = None
<1> DEFINE m == n + 1 - Len(blocks)
           empty == [o \in 0..(BlockSize - 1) |-> None]
           added == [k \in 1..m |-> empty]
           l == IF m < 0 THEN 0 ELSE m
<1>1. Len(blocks) \in Nat /\ m \in Int /\ l \in Nat
  OBVIOUS
<1>2. empty \in Block
  BY SlotFacts DEF Block
<1>3. \A o \in 0..(BlockSize - 1) : empty[o] = None
  OBVIOUS
<1> HIDE DEF empty
<1>4. 1..m = 1..l
  BY <1>1
<1>5. added = [k \in 1..l |-> empty]
  BY <1>4
<1> HIDE DEF l, added
<1>6. added \in Seq(Block) /\ Len(added) = l /\ \A k \in 1..l : added[k] = empty
  BY <1>1, <1>2, <1>5
<1>7. Grown(n) = blocks \o added
  BY DEF Grown, added, empty
<1>8. /\ Grown(n) \in Seq(Block) /\ Len(Grown(n)) = Len(blocks) + l
      /\ \A k \in 1..Len(blocks) : Grown(n)[k] = blocks[k]
      /\ \A k \in 1..l : Grown(n)[Len(blocks) + k] = empty
  <2> DEFINE w == blocks \o added
  <2>1. /\ w \in Seq(Block) /\ Len(w) = Len(blocks) + Len(added)
        /\ \A k \in 1..Len(blocks) : w[k] = blocks[k]
        /\ \A k \in 1..Len(added) : w[Len(blocks) + k] = added[k]
    BY <1>6, ConcatFacts, Zenon
  <2> HIDE DEF w
  <2>2. Grown(n) = w
    BY <1>7 DEF w
  <2> QED
    BY <1>6, <2>1, <2>2, Zenon
<1>9. ASSUME NEW k \in (Len(blocks) + 1)..Len(Grown(n)), NEW o \in 0..(BlockSize - 1)
      PROVE  Grown(n)[k][o] = None
  <2>1. k - Len(blocks) \in 1..l /\ Len(blocks) + (k - Len(blocks)) = k
    BY <1>1, <1>8
  <2> QED
    BY <1>3, <1>8, <2>1
<1>10. /\ Len(Grown(n)) \in Nat /\ Len(blocks) <= Len(Grown(n)) /\ n < Len(Grown(n))
       /\ Len(Grown(n)) = Len(blocks) \/ Len(Grown(n)) = n + 1
  BY <1>1, <1>8 DEF l
<1> QED
  BY <1>8, <1>9, <1>10

\* The blocks that are left when d blocks are dropped.
LEMMA SuffixFacts ==
  ASSUME NEW bs \in Seq(Block), NEW d \in Nat, d <= Len(bs)
  PROVE  LET rest == SubSeq(bs, d + 1, Len(bs))
         IN  /\ rest \in Seq(Block) /\ Len(rest) = Len(bs) - d
             /\ \A k \in 1..Len(rest) : rest[k] = bs[k + d]
<1> DEFINE rest == SubSeq(bs, d + 1, Len(bs))
           l == Len(bs) - d
<1>1. l \in Nat
  OBVIOUS
<1>2. rest = [k \in 1..l |-> bs[k + d]]
  OBVIOUS
<1>3. \A k \in 1..l : bs[k + d] \in Block
  <2> SUFFICES ASSUME NEW k \in 1..l PROVE bs[k + d] \in Block
    OBVIOUS
  <2>1. k + d \in 1..Len(bs)
    OBVIOUS
  <2> QED
    BY <2>1
<1> HIDE DEF rest, l
<1>4. /\ rest \in Seq(Block) /\ Len(rest) = l
      /\ \A k \in 1..l : rest[k] = bs[k + d]
  BY <1>1, <1>2, <1>3
<1> QED
  BY <1>4, Zenon DEF rest, l

\* The blocks before that of n are dropped, and in its block what comes before n
\* is cleared.
LEMMA RemovedFacts ==
  ASSUME NEW n \in Nat, blocks \in Seq(Block), start_offset \in Nat, start_offset <= n,
         ~RemovePanics(n)
  PROVE  /\ Removed(n) \in Seq(Block)
         /\ BlockIndex(n) \in Nat /\ BlockIndex(n) <= Len(blocks)
         /\ Len(Removed(n)) = Len(blocks) - BlockIndex(n)
         /\ \A k \in 1..Len(Removed(n)), o \in 0..(BlockSize - 1) :
              Removed(n)[k][o] = IF k = 1 /\ o < n % BlockSize THEN None
                                 ELSE blocks[k + BlockIndex(n)][o]
<1> DEFINE d == BlockIndex(n)
           rest == SubSeq(blocks, d + 1, Len(blocks))
           first == [i \in 0..(BlockSize - 1) |-> IF Kept(i, n) THEN rest[1][i] ELSE None]
<1>1. /\ d \in Nat /\ Span(n) \div BlockSize = d /\ Span(n) % BlockSize = n % BlockSize
      /\ Len(blocks) \in Nat /\ n % BlockSize \in 0..(BlockSize - 1)
  BY SpanFacts, DivMod DEF BlockIndex
<1>2. d <= Len(blocks) /\ (n % BlockSize > 0 => d < Len(blocks))
  BY <1>1 DEF RemovePanics
<1>3. Removed(n) = IF n % BlockSize = 0 THEN rest ELSE [rest EXCEPT ![1] = first]
  BY <1>1, Zenon DEF Removed
<1> HIDE DEF d
<1>4. /\ rest \in Seq(Block) /\ Len(rest) = Len(blocks) - d
      /\ \A k \in 1..Len(rest) : rest[k] = blocks[k + d]
  BY <1>1, <1>2, SuffixFacts, Zenon
<1> HIDE DEF rest
<1>5. \A k \in 1..Len(rest) : rest[k] \in [0..(BlockSize - 1) -> Slot]
  BY <1>4 DEF Block
<1>6. CASE n % BlockSize = 0
  <2>1. Removed(n) = rest
    BY <1>3, <1>6
  <2>2. \A o \in 0..(BlockSize - 1) : ~(o < n % BlockSize)
    BY <1>6
  <2> QED
    BY <1>1, <1>2, <1>4, <2>1, <2>2 DEF d
<1>7. CASE n % BlockSize # 0
  <2>1. n % BlockSize > 0 /\ 1 \in 1..Len(rest)
    BY <1>1, <1>2, <1>4, <1>7
  <2>2. first \in Block
    <3>1. rest[1] \in [0..(BlockSize - 1) -> Slot] /\ None \in Slot
      BY <1>5, <2>1, SlotFacts, Zenon
    <3> QED
      BY <3>1, Zenon DEF Block
  <2>3. \A o \in 0..(BlockSize - 1) :
          first[o] = IF o < n % BlockSize THEN None ELSE rest[1][o]
    BY <1>1 DEF Kept
  <2> HIDE DEF first
  <2>4. Removed(n) = [rest EXCEPT ![1] = first]
    BY <1>3, <1>7
  <2>5. /\ Removed(n) \in Seq(Block) /\ Len(Removed(n)) = Len(rest)
        /\ \A k \in 1..Len(rest) : Removed(n)[k] = IF k = 1 THEN first ELSE rest[k]
    <3>1. /\ DOMAIN Removed(n) = 1..Len(rest) /\ Len(rest) \in Nat
          /\ \A k \in 1..Len(rest) : Removed(n)[k] = IF k = 1 THEN first ELSE rest[k]
      BY <1>4, <2>4
    <3>2. Removed(n) = [k \in 1..Len(rest) |-> Removed(n)[k]]
      BY <2>4, <3>1, Zenon
    <3>3. \A k \in 1..Len(rest) : Removed(n)[k] \in Block
      BY <1>4, <2>2, <3>1
    <3> QED
      BY <3>1, <3>2, <3>3
  <2>6. ASSUME NEW k \in 1..Len(Removed(n)), NEW o \in 0..(BlockSize - 1)
        PROVE  Removed(n)[k][o] = IF k = 1 /\ o < n % BlockSize THEN None
                                  ELSE blocks[k + d][o]
    <3>1. k \in 1..Len(rest) /\ rest[k] = blocks[k + d]
      BY <1>4, <2>5
    <3>2. CASE k = 1
      BY <2>3, <2>5, <3>1, <3>2
    <3>3. CASE k # 1
      BY <2>5, <3>1, <3>3
    <3> QED
      BY <3>2, <3>3
  <2> QED
    BY <1>1, <1>2, <1>4, <2>5, <2>6 DEF d
<1> QED
  BY <1>6, <1>7

-----------------------------------------------------------------------------
(* What the operations do to the slots.                                    *)

\* push and set write the slot of their index; a block that push adds is empty.
LEMMA WriteSlots ==
  ASSUME TypeOK, NEW bs \in Seq(Block), NEW i \in Nat, NEW slot \in Slot,
         Len(blocks) <= Len(bs), 0 <= BlockIndex(i), BlockIndex(i) < Len(bs),
         \A k \in 1..Len(blocks) : bs[k] = blocks[k],
         \A k \in (Len(blocks) + 1)..Len(bs), o \in 0..(BlockSize - 1) : bs[k][o] = None,
         blocks' = Write(bs, i, slot), start_offset' = start_offset
  PROVE  /\ blocks' \in Seq(Block) /\ Present(i)' /\ At(i)' = slot
         /\ \A j \in Nat : Present(j) => Present(j)'
         /\ \A j \in Nat : j # i /\ Present(j)' =>
              At(j)' = IF Present(j) THEN At(j) ELSE None
<1>0. start_offset \in Nat /\ Len(blocks) \in Nat /\ Len(bs) \in Nat
  BY Types
<1>1. /\ blocks' \in Seq(Block) /\ Len(blocks') = Len(bs)
      /\ \A k \in 1..Len(bs), o \in 0..(BlockSize - 1) :
           blocks'[k][o] = IF k = BlockIndex(i) + 1 /\ o = i % BlockSize THEN slot ELSE bs[k][o]
  <2> DEFINE w == Write(bs, i, slot)
  <2>1. Written(w, bs, i, slot)
    BY <1>0, WriteFacts, Zenon
  <2> HIDE DEF w
  <2>2. blocks' = w
    BY Zenon DEF w
  <2>3. Written(blocks', bs, i, slot)
    BY <2>1, <2>2, Zenon
  <2> QED
    BY <2>3, Zenon DEF Written
<1>2. \A j \in Nat : BlockIndex(j)' = BlockIndex(j)
  BY DEF BlockIndex
<1>3. \A j \in Nat : /\ BlockIndex(j) \in Int /\ j % BlockSize \in 0..(BlockSize - 1)
                     /\ Present(j)' <=> 0 <= BlockIndex(j) /\ BlockIndex(j) < Len(bs)
                     /\ At(j)' = blocks'[BlockIndex(j) + 1][j % BlockSize]
  BY <1>0, <1>1, <1>2, BlockFacts, Zenon DEF Present, At
<1>4. \A j \in Nat : Present(j)' => BlockIndex(j) + 1 \in 1..Len(bs)
  BY <1>0, <1>3
<1>5. Present(i)' /\ At(i)' = slot
  BY <1>1, <1>3, <1>4, Zenon
<1>6. ASSUME NEW j \in Nat, Present(j)
      PROVE  Present(j)'
  <2>1. BlockIndex(j) \in Int /\ 0 <= BlockIndex(j) /\ BlockIndex(j) < Len(blocks)
    BY <1>3, <1>6, Zenon DEF Present
  <2>2. BlockIndex(j) < Len(bs)
    BY <1>0, <2>1
  <2> QED
    BY <1>3, <2>1, <2>2, Zenon
<1>7. ASSUME NEW j \in Nat, j # i, Present(j)'
      PROVE  At(j)' = IF Present(j) THEN At(j) ELSE None
  <2>1. ~(BlockIndex(j) = BlockIndex(i) /\ j % BlockSize = i % BlockSize)
    BY <1>0, <1>7, BlockFacts, Zenon
  <2>0. BlockIndex(j) \in Int /\ BlockIndex(i) \in Int
    BY <1>3, Zenon
  <2>2. ~(BlockIndex(j) + 1 = BlockIndex(i) + 1 /\ j % BlockSize = i % BlockSize)
    BY <2>0, <2>1
  <2>3. At(j)' = bs[BlockIndex(j) + 1][j % BlockSize]
    BY <1>1, <1>3, <1>4, <1>7, <2>2, Zenon
  <2>4. CASE Present(j)
    <3>1. BlockIndex(j) + 1 \in 1..Len(blocks)
      BY <1>0, <2>0, <2>4 DEF Present
    <3> QED
      BY <2>3, <2>4, <3>1, Zenon DEF At
  <2>5. CASE ~Present(j)
    <3>0. 0 <= BlockIndex(j) /\ BlockIndex(j) < Len(bs)
      BY <1>3, <1>7, Zenon
    <3>1. BlockIndex(j) + 1 \in (Len(blocks) + 1)..Len(bs)
      BY <1>0, <2>0, <2>5, <3>0 DEF Present
    <3> QED
      BY <1>3, <2>3, <2>5, <3>1, Zenon
  <2> QED
    BY <2>4, <2>5
<1> QED
  BY <1>1, <1>5, <1>6, <1>7

\* remove_before(n) leaves the slots from n on as they were, where they were.
LEMMA RemoveSlots ==
  ASSUME TypeOK, NEW n \in Nat, start_offset <= n, ~RemovePanics(n),
         blocks' = Removed(n), start_offset' = n
  PROVE  /\ blocks' \in Seq(Block)
         /\ \A j \in Nat : n <= j /\ Present(j) => Present(j)'
         /\ \A j \in Nat : Present(j)' => Present(j) /\ At(j)' = IF j < n THEN None ELSE At(j)
<1>0. start_offset \in Nat /\ blocks \in Seq(Block) /\ Len(blocks) \in Nat
  BY Types
<1> DEFINE d == BlockIndex(n)
<1>1. /\ blocks' \in Seq(Block) /\ d \in Nat /\ d <= Len(blocks)
      /\ Len(blocks') = Len(blocks) - d
      /\ \A k \in 1..Len(blocks'), o \in 0..(BlockSize - 1) :
           blocks'[k][o] = IF k = 1 /\ o < n % BlockSize THEN None ELSE blocks[k + d][o]
  BY <1>0, RemovedFacts, Zenon
<1>2. ASSUME NEW j \in Nat
      PROVE  /\ BlockIndex(j) \in Int /\ j % BlockSize \in 0..(BlockSize - 1)
             /\ BlockIndex(j)' = BlockIndex(j) - d
             /\ BlockIndex(j) < d => j < n
             /\ BlockIndex(j) = d => (j < n <=> j % BlockSize < n % BlockSize)
             /\ d < BlockIndex(j) => n < j
  <2>1. /\ j \div BlockSize \in Nat /\ n \div BlockSize \in Nat
        /\ start_offset \div BlockSize \in Nat
        /\ j % BlockSize \in 0..(BlockSize - 1)
    BY <1>0, DivMod, Zenon
  <2>2. /\ j \div BlockSize < n \div BlockSize => j < n
        /\ j \div BlockSize = n \div BlockSize => (j < n <=> j % BlockSize < n % BlockSize)
        /\ n \div BlockSize < j \div BlockSize => n < j
    BY BlockOrder
  <2>3. /\ BlockIndex(j) = j \div BlockSize - start_offset \div BlockSize
        /\ d = n \div BlockSize - start_offset \div BlockSize
        /\ BlockIndex(j)' = j \div BlockSize - n \div BlockSize
    BY DEF BlockIndex
  <2> HIDE DEF d
  <2> QED
    BY <2>1, <2>2, <2>3
<1> HIDE DEF d
<1>3. ASSUME NEW j \in Nat, n <= j, Present(j)
      PROVE  Present(j)'
  <2>1. /\ BlockIndex(j) \in Int /\ 0 <= BlockIndex(j) /\ BlockIndex(j) < Len(blocks)
        /\ BlockIndex(j)' = BlockIndex(j) - d
        /\ BlockIndex(j) < d => j < n
    BY <1>2, <1>3, Zenon DEF Present
  <2>2. 0 <= BlockIndex(j)' /\ BlockIndex(j)' < Len(blocks')
    BY <1>0, <1>1, <1>3, <2>1
  <2> QED
    BY <2>2 DEF Present
<1>4. ASSUME NEW j \in Nat, Present(j)'
      PROVE  Present(j) /\ At(j)' = IF j < n THEN None ELSE At(j)
  <2>1. /\ BlockIndex(j)' + 1 \in 1..Len(blocks') /\ BlockIndex(j)' + 1 + d = BlockIndex(j) + 1
        /\ BlockIndex(j)' + 1 = 1 <=> BlockIndex(j) = d
        /\ Present(j) /\ d <= BlockIndex(j)
    <3>1. /\ BlockIndex(j) \in Int /\ BlockIndex(j)' = BlockIndex(j) - d
          /\ 0 <= BlockIndex(j)' /\ BlockIndex(j)' < Len(blocks')
      BY <1>2, <1>4, Zenon DEF Present
    <3>2. d \in Nat /\ Len(blocks') = Len(blocks) - d
      BY <1>1
    <3>3. 0 <= BlockIndex(j) /\ BlockIndex(j) < Len(blocks)
      BY <1>0, <3>1, <3>2
    <3> QED
      BY <1>0, <3>1, <3>2, <3>3 DEF Present
  <2>2. At(j)' = IF BlockIndex(j)' + 1 = 1 /\ j % BlockSize < n % BlockSize THEN None
                 ELSE blocks[BlockIndex(j)' + 1 + d][j % BlockSize]
    BY <1>1, <1>2, <2>1, Zenon DEF At
  <2>3. j < n <=> BlockIndex(j) = d /\ j % BlockSize < n % BlockSize
    <3>1. /\ BlockIndex(j) \in Int /\ d \in Nat
          /\ BlockIndex(j) = d => (j < n <=> j % BlockSize < n % BlockSize)
          /\ d < BlockIndex(j) => n < j
      BY <1>1, <1>2, Zenon
    <3> QED
      BY <2>1, <3>1
  <2> QED
    BY <2>1, <2>2, <2>3, Zenon DEF At
<1> QED
  BY <1>1, <1>3, <1>4

-----------------------------------------------------------------------------
(* The invariant, step by step.                                            *)

\* What the invariant says of the deque and its pushers.
DequeOK ==
  /\ BoundsOK
  /\ \A p \in Pushers : PusherOK(p)
  /\ DistinctOK
  /\ \A i \in Indices : SlotOK(i) /\ FilledOK(i)
  /\ PanicsOnlyOvertaken

\* The numbers and the end of the log.
LEMMA Numbers ==
  ASSUME TypeOK
  PROVE  /\ start_offset \in Nat /\ length \in Nat /\ removing \in Nat /\ End \in Nat
         /\ removing = NotRemoving => End = start_offset + length
         /\ removing # NotRemoving => End = removing + length
         /\ MaxIndex \in Nat /\ Indices \subseteq Nat /\ NoIndex \notin Indices
         /\ \A n \in Nat : n <= MaxIndex => n \in Indices
<1>1. /\ start_offset \in Nat /\ length \in Nat /\ removing \in Nat /\ MaxIndex \in Nat
  BY Types, Zenon
<1> QED
  BY <1>1 DEF End, Indices, NoIndex

\* The program counters and the indices are functions of the pushers.
LEMMA PusherTypes ==
  ASSUME TypeOK
  PROVE  /\ DOMAIN pc = Pushers /\ DOMAIN index = Pushers
         /\ pc \in [Pushers -> {"idle", "reserved", "grow", "pushed"}]
         /\ index \in [Pushers -> Indices \cup {NoIndex}]
  BY Zenon DEF TypeOK

\* A step that leaves the deque and its pushers as they were.
LEMMA QuietStep ==
  ASSUME DequeOK,
         UNCHANGED <<blocks, start_offset, length, pushVars, removing, poisoned>>
  PROVE  DequeOK'
  BY DEF DequeOK, BoundsOK, PusherOK, DistinctOK, SlotOK, FilledOK, PanicsOnlyOvertaken,
         Unfilled, Present, At, BlockIndex, End, pushVars

\* push is given the end of the log, which nobody has and nothing has filled.
LEMMA ReserveStep ==
  ASSUME TypeOK, DequeOK, NEW p \in Pushers, PushReserve(p)
  PROVE  DequeOK'
<1>0. /\ start_offset \in Nat /\ length \in Nat /\ removing = NotRemoving
      /\ End = start_offset + length /\ MaxIndex \in Nat /\ Indices \subseteq Nat /\ End \in Indices
  <2>1. removing = NotRemoving /\ start_offset + length <= MaxIndex
    BY Zenon DEF PushReserve, CanRead
  <2>2. /\ start_offset \in Nat /\ length \in Nat /\ End \in Nat
        /\ removing = NotRemoving => End = start_offset + length
        /\ MaxIndex \in Nat /\ Indices \subseteq Nat
        /\ \A n \in Nat : n <= MaxIndex => n \in Indices
    BY Numbers, Zenon
  <2> QED
    BY <2>1, <2>2
<1>1. /\ removing' = removing /\ start_offset' = start_offset /\ length' = length + 1
      /\ blocks' = blocks /\ poisoned' = poisoned /\ ~poisoned /\ pc[p] = "idle"
  BY Zenon DEF PushReserve, CanRead
<1>2. /\ pc'[p] = "reserved" /\ index'[p] = End
      /\ \A q \in Pushers : q # p => pc'[q] = pc[q] /\ index'[q] = index[q]
  BY <1>0, PusherTypes, Zenon DEF PushReserve, NextIndex
<1>3. End' = End + 1 /\ End' <= MaxIndex + 1
  BY <1>0, <1>1 DEF End, Indices
<1>4. \A i \in Indices : Present(i)' = Present(i) /\ At(i)' = At(i)
  BY <1>1 DEF Present, At, BlockIndex
<1>5. \A q \in Pushers : pc[q] # "idle" => index[q] \in Indices /\ index[q] < End
  BY Zenon DEF DequeOK, PusherOK
<1>6. BoundsOK'
  BY <1>0, <1>1, <1>3 DEF BoundsOK
<1>7. ASSUME NEW q \in Pushers
      PROVE  PusherOK(q)'
  <2>1. CASE q = p
    BY <1>0, <1>1, <1>2, <1>3, <2>1 DEF PusherOK
  <2>2. CASE q # p
    <3>1. pc'[q] = pc[q] /\ index'[q] = index[q] /\ PusherOK(q)
      BY <1>2, <2>2, Zenon DEF DequeOK
    <3>2. pc'[q] # "idle" => index'[q] \in Indices /\ index'[q] < End'
      <4>1. pc[q] # "idle" => index[q] \in Indices /\ index[q] < End
        BY <1>5
      <4> QED
        BY <1>0, <1>3, <3>1, <4>1 DEF Indices
    <3>3. pc'[q] = "pushed" /\ start_offset' <= index'[q] =>
            (\A i : i = index'[q] => Present(i)' /\ At(i)'.kind = "placeholder")
      BY <1>1, <1>4, <1>5, <3>1, Zenon DEF PusherOK
    <3> QED
      BY <1>1, <3>1, <3>2, <3>3, Zenon DEF PusherOK, Present, At, BlockIndex
  <2> QED
    BY <2>1, <2>2
<1>8. DistinctOK'
  <2>1. \A q \in Pushers : pc[q] # "idle" => index[q] # End
    BY <1>0, <1>5
  <2>2. DistinctOK
    BY Zenon DEF DequeOK
  <2>3. ASSUME NEW q \in Pushers, NEW r \in Pushers,
               pc'[q] # "idle", pc'[r] # "idle", index'[q] = index'[r]
        PROVE  q = r
    <3>1. CASE q = p \/ r = p
      BY <1>2, <2>1, <2>3, <3>1, Zenon
    <3>2. CASE q # p /\ r # p
      <4>1. pc[q] # "idle" /\ pc[r] # "idle" /\ index[q] = index[r]
        BY <1>2, <2>3, <3>2, Zenon
      <4> QED
        BY <2>2, <4>1, Zenon DEF DistinctOK
    <3> QED
      BY <3>1, <3>2
  <2> QED
    BY <2>3, Zenon DEF DistinctOK
<1>9. ASSUME NEW i \in Indices
      PROVE  SlotOK(i)' /\ FilledOK(i)'
  <2>1. SlotOK(i)'
    BY <1>0, <1>3, <1>4 DEF DequeOK, SlotOK
  <2>2. CASE i = End
    BY <1>2, <2>1, <2>2, Zenon DEF FilledOK, Unfilled
  <2>3. CASE i # End
    <3>1. start_offset' <= i /\ i < End' => start_offset <= i /\ i < End
      BY <1>0, <1>1, <1>3, <2>3
    <3>2. \A q \in Pushers : index[q] = i /\ Unfilled(q) => index'[q] = i /\ Unfilled(q)'
      BY <1>1, <1>2, Zenon DEF Unfilled
    <3>3. FilledOK(i)
      BY Zenon DEF DequeOK
    <3> QED
      BY <1>4, <2>1, <3>1, <3>2, <3>3, Zenon DEF FilledOK
  <2> QED
    BY <2>2, <2>3
<1>10. PanicsOnlyOvertaken'
  BY <1>1 DEF PanicsOnlyOvertaken
<1> QED
  BY <1>6, <1>7, <1>8, <1>9, <1>10, Zenon DEF DequeOK

\* The placeholder goes into the slot of its index, or beyond reach if the index
\* was removed meanwhile.
LEMMA FillStep ==
  ASSUME TypeOK, DequeOK, NEW p \in Pushers, Unfilled(p), pc[p] = "grow" => ~poisoned,
         NEW i \in Indices, i = index[p], i < End, Present(i)',
         At(i)' = [kind |-> "placeholder", of |-> i],
         \A j \in Nat : Present(j) => Present(j)',
         \A j \in Nat : j # i /\ Present(j)' => At(j)' = IF Present(j) THEN At(j) ELSE None,
         pc' = [pc EXCEPT ![p] = "pushed"],
         UNCHANGED <<start_offset, length, index, removing, poisoned>>
  PROVE  DequeOK'
<1>0. /\ start_offset \in Nat /\ removing \in Nat /\ End \in Nat /\ Indices \subseteq Nat
  BY Numbers, Zenon
<1>1. End' = End
  BY DEF End
<1>2. pc'[p] = "pushed" /\ \A q \in Pushers : q # p => pc'[q] = pc[q]
  BY PusherTypes, Zenon
<1>3. \A q \in Pushers : q # p /\ pc[q] # "idle" => index[q] # i
  BY Zenon DEF DequeOK, DistinctOK, Unfilled
<1>4. At(i)'.kind = "placeholder" /\ At(i)'.of = i /\ None.kind = "none"
  BY DEF None
<1>5. BoundsOK'
  BY <1>1, Zenon DEF DequeOK, BoundsOK
<1>6. ASSUME NEW q \in Pushers
      PROVE  PusherOK(q)'
  <2>1. PusherOK(q)
    BY Zenon DEF DequeOK
  <2>2. pc'[q] # "idle" => index'[q] \in Indices /\ index'[q] < End'
    BY <1>1, <1>2, <2>1, Zenon DEF PusherOK
  <2>3. pc'[q] = "reserved" => removing' = NotRemoving /\ start_offset' <= index'[q]
    BY <1>2, <2>1, Zenon DEF PusherOK
  <2>4. ASSUME NEW j, j = index'[q], pc'[q] = "pushed", start_offset' <= j
        PROVE  Present(j)' /\ At(j)'.kind = "placeholder"
    <3>1. CASE q = p
      BY <1>4, <2>4, <3>1, Zenon
    <3>2. CASE q # p
      <4>1. j \in Nat /\ j # i /\ Present(j) /\ At(j).kind = "placeholder"
        BY <1>0, <1>2, <1>3, <2>1, <2>4, <3>2, Zenon DEF PusherOK
      <4> QED
        BY <4>1, Zenon
    <3> QED
      BY <3>1, <3>2
  <2> QED
    BY <2>2, <2>3, <2>4 DEF PusherOK, Present, At, BlockIndex
<1>7. DistinctOK'
  <2>1. \A q \in Pushers : pc'[q] # "idle" => pc[q] # "idle"
    BY <1>2, Zenon DEF Unfilled
  <2>2. DistinctOK /\ index' = index
    BY Zenon DEF DequeOK
  <2> QED
    BY <2>1, <2>2, Zenon DEF DistinctOK
<1>8. ASSUME NEW j \in Indices
      PROVE  SlotOK(j)' /\ FilledOK(j)'
  <2>1. CASE j = i
    <3>1. ~(End <= i)
      BY <1>0
    <3> QED
      BY <1>1, <1>4, <2>1, <3>1, Zenon DEF SlotOK, FilledOK
  <2>2. CASE j # i
    <3>1. /\ SlotOK(j) /\ FilledOK(j) /\ j \in Nat
      BY <1>0, Zenon DEF DequeOK
    <3>2. SlotOK(j)'
      BY <1>1, <1>4, <2>2, <3>1, Zenon DEF SlotOK
    <3>3. \A q \in Pushers : index[q] = j /\ Unfilled(q) => index'[q] = j /\ Unfilled(q)'
      BY <1>2, <2>2, Zenon DEF Unfilled
    <3>4. FilledOK(j)'
      BY <1>1, <2>2, <3>1, <3>3, Zenon DEF FilledOK
    <3> QED
      BY <3>2, <3>4
  <2> QED
    BY <2>1, <2>2
<1>9. PanicsOnlyOvertaken'
  BY <1>2, Zenon DEF DequeOK, PanicsOnlyOvertaken
<1> QED
  BY <1>5, <1>6, <1>7, <1>8, <1>9, Zenon DEF DequeOK

\* What push does to the slots, with the read lock or with the write lock.
LEMMA PushSlots ==
  ASSUME TypeOK, DequeOK, NEW p \in Pushers, PushStore(p) \/ PushGrow(p),
         NEW i, i = index[p]
  PROVE  /\ i \in Indices /\ i < End /\ Unfilled(p)
         /\ blocks' \in Seq(Block) /\ Present(i)' /\ At(i)' = [kind |-> "placeholder", of |-> i]
         /\ \A j \in Nat : Present(j) => Present(j)'
         /\ \A j \in Nat : j # i /\ Present(j)' =>
              At(j)' = IF Present(j) THEN At(j) ELSE None
<1> DEFINE slot == [kind |-> "placeholder", of |-> i]
<1>0. /\ start_offset \in Nat /\ blocks \in Seq(Block) /\ Len(blocks) \in Nat
      /\ start_offset' = start_offset
  BY Types, Zenon DEF PushStore, PushGrow
<1>1. i \in Indices /\ i \in Nat /\ i < End /\ Unfilled(p)
  BY Numbers, Zenon DEF DequeOK, PusherOK, Unfilled, PushStore, PushGrow
<1>2. slot \in Slot
  BY <1>1, SlotFacts, Zenon
<1>3. BlockIndex(i) \in Int
  BY <1>0, <1>1, BlockFacts, Zenon
<1> HIDE DEF slot
<1>4. CASE PushStore(p)
  <2>1. /\ blocks' = Write(blocks, i, slot) /\ BlockIndex(i) < Len(blocks)
        /\ start_offset <= i
    BY <1>4, Zenon DEF PushStore, DequeOK, PusherOK, slot
  <2>2. 0 <= BlockIndex(i)
    BY <1>0, <1>1, <2>1, BlockFacts, Zenon
  <2>3. Len(blocks) <= Len(blocks) /\ \A k \in (Len(blocks) + 1)..Len(blocks) : FALSE
    BY <1>0
  <2> QED
    BY <1>0, <1>1, <1>2, <2>1, <2>2, <2>3, WriteSlots, Zenon DEF slot
<1>5. CASE PushGrow(p)
  <2> DEFINE n == BlockIndex(i)
             bs == Grown(n)
  <2>1. blocks' = Write(bs, i, slot) /\ n >= 0
    BY <1>5, Zenon DEF PushGrow, slot
  <2>2. n \in Nat /\ 0 <= n
    BY <1>3, <2>1
  <2>3. /\ bs \in Seq(Block) /\ Len(blocks) <= Len(bs) /\ n < Len(bs)
        /\ \A k \in 1..Len(blocks) : bs[k] = blocks[k]
        /\ \A k \in (Len(blocks) + 1)..Len(bs), o \in 0..(BlockSize - 1) : bs[k][o] = None
    BY <1>0, <2>2, GrownFacts, Zenon
  <2> HIDE DEF bs
  <2> QED
    BY <1>0, <1>1, <1>2, <2>1, <2>2, <2>3, WriteSlots, Zenon DEF slot
<1> QED
  BY <1>4, <1>5

\* The two ways push puts its placeholder in.
LEMMA PlaceStep ==
  ASSUME TypeOK, DequeOK, NEW p \in Pushers, PushStore(p) \/ PushGrow(p)
  PROVE  DequeOK'
<1>1. PICK i : i = index[p]
  OBVIOUS
<1>2. /\ pc' = [pc EXCEPT ![p] = "pushed"]
      /\ UNCHANGED <<start_offset, length, index, removing, poisoned>>
      /\ pc[p] = "grow" => ~poisoned
  BY Zenon DEF PushStore, PushGrow, CanWrite, CanRead
<1> QED
  BY <1>1, <1>2, PushSlots, FillStep, Zenon

\* A push that finds no block keeps its index.
LEMMA MissStep ==
  ASSUME TypeOK, DequeOK, NEW p \in Pushers, PushMiss(p)
  PROVE  DequeOK'
<1>1. /\ pc[p] = "reserved"
      /\ UNCHANGED <<blocks, start_offset, length, index, removing, poisoned>>
  BY Zenon DEF PushMiss
<1>2. pc'[p] = "grow" /\ \A q \in Pushers : q # p => pc'[q] = pc[q]
  BY PusherTypes, Zenon DEF PushMiss
<1>3. End' = End /\ \A i : (Present(i)' <=> Present(i)) /\ At(i)' = At(i)
  BY <1>1 DEF End, Present, At, BlockIndex
<1>4. BoundsOK' /\ DistinctOK' /\ PanicsOnlyOvertaken'
  BY <1>1, <1>2, <1>3, Zenon DEF DequeOK, BoundsOK, DistinctOK, PanicsOnlyOvertaken
<1>5. ASSUME NEW q \in Pushers
      PROVE  PusherOK(q)'
  <2>1. PusherOK(q) /\ (pc'[q] = pc[q] \/ (pc[q] = "reserved" /\ pc'[q] = "grow"))
    BY <1>1, <1>2, Zenon DEF DequeOK
  <2>2. /\ pc'[q] # "idle" => index'[q] \in Indices /\ index'[q] < End'
        /\ pc'[q] = "reserved" => removing' = NotRemoving /\ start_offset' <= index'[q]
    <3>1. /\ pc'[q] # "idle" => pc[q] # "idle"
          /\ pc'[q] = "reserved" => pc[q] = "reserved"
      BY <2>1
    <3> QED
      BY <1>1, <1>3, <2>1, <3>1, Zenon DEF PusherOK
  <2>3. ASSUME NEW j, j = index'[q], pc'[q] = "pushed", start_offset' <= j
        PROVE  Present(j)' /\ At(j)'.kind = "placeholder"
    BY <1>1, <1>3, <2>1, <2>3, Zenon DEF PusherOK
  <2> QED
    BY <2>2, <2>3 DEF PusherOK, Present, At, BlockIndex
<1>6. ASSUME NEW i \in Indices
      PROVE  SlotOK(i)' /\ FilledOK(i)'
  <2>1. \A q \in Pushers : Unfilled(q) => Unfilled(q)'
    BY <1>2, Zenon DEF Unfilled
  <2> QED
    BY <1>1, <1>3, <2>1, Zenon DEF DequeOK, SlotOK, FilledOK
<1> QED
  BY <1>4, <1>5, <1>6, Zenon DEF DequeOK

\* What set does to the slots.
LEMMA SetSlots ==
  ASSUME TypeOK, DequeOK, NEW p \in Pushers, SetValue(p), NEW i, i = index[p]
  PROVE  /\ i \in Indices /\ i < End /\ blocks' \in Seq(Block)
         /\ \A j \in Nat : Present(j) => Present(j)'
         /\ \A j \in Nat : j # i /\ Present(j)' => Present(j) /\ At(j)' = At(j)
         /\ start_offset <= i => /\ Present(i) /\ At(i).kind = "placeholder"
                                 /\ At(i)' = [kind |-> "value", of |-> i]
         /\ i < start_offset => blocks' = blocks
<1> DEFINE slot == [kind |-> "value", of |-> i]
<1>0. /\ start_offset \in Nat /\ blocks \in Seq(Block) /\ Len(blocks) \in Nat
      /\ start_offset' = start_offset /\ pc[p] = "pushed"
      /\ blocks' = IF i >= start_offset THEN Write(blocks, i, slot) ELSE blocks
  BY Types, Zenon DEF SetValue
<1>1. i \in Indices /\ i \in Nat /\ i < End
  BY <1>0, Numbers, Zenon DEF DequeOK, PusherOK
<1>2. slot \in Slot
  BY <1>1, SlotFacts, Zenon
<1> HIDE DEF slot
<1>3. CASE start_offset <= i
  <2>1. Present(i) /\ At(i).kind = "placeholder"
    BY <1>0, <1>3, Zenon DEF DequeOK, PusherOK
  <2>2. blocks' = Write(blocks, i, slot) /\ ~(i < start_offset)
    BY <1>0, <1>1, <1>3
  <2>3. Len(blocks) <= Len(blocks) /\ \A k \in (Len(blocks) + 1)..Len(blocks) : FALSE
    BY <1>0
  <2>4. /\ blocks' \in Seq(Block) /\ At(i)' = slot
        /\ \A j \in Nat : Present(j) => Present(j)'
    BY <1>0, <1>1, <1>2, <2>1, <2>2, <2>3, WriteSlots, Zenon DEF Present
  <2>5. Len(blocks') = Len(blocks)
    <3>1. Written(Write(blocks, i, slot), blocks, i, slot)
      BY <1>0, <1>1, <1>2, WriteFacts, Zenon
    <3> QED
      BY <2>2, <3>1, Zenon DEF Written
  <2>6. \A j \in Nat : Present(j)' => Present(j)
    BY <1>0, <2>5 DEF Present, BlockIndex
  <2>7. \A j \in Nat : j # i /\ Present(j)' => At(j)' = At(j)
    BY <1>0, <1>1, <1>2, <2>1, <2>2, <2>3, <2>6, WriteSlots, Zenon DEF Present
  <2> QED
    BY <1>1, <2>1, <2>2, <2>4, <2>6, <2>7, Zenon DEF slot
<1>4. CASE i < start_offset
  <2>1. blocks' = blocks /\ ~(start_offset <= i)
    BY <1>0, <1>1, <1>4
  <2> QED
    BY <1>0, <1>1, <2>1 DEF Present, At, BlockIndex
<1> QED
  BY <1>0, <1>1, <1>3, <1>4

\* The final value replaces the placeholder, if it was not removed.
LEMMA SetStep ==
  ASSUME TypeOK, DequeOK, NEW p \in Pushers, SetValue(p)
  PROVE  DequeOK'
<1>0. /\ start_offset \in Nat /\ removing \in Nat /\ End \in Nat /\ Indices \subseteq Nat
  BY Numbers, Zenon
<1>1. /\ pc[p] = "pushed" /\ removing = NotRemoving
      /\ UNCHANGED <<start_offset, length, removing, poisoned>>
  BY Zenon DEF SetValue, CanRead
<1>2. /\ pc'[p] = "idle"
      /\ \A q \in Pushers : q # p => pc'[q] = pc[q] /\ index'[q] = index[q]
  BY PusherTypes, Zenon DEF SetValue
<1>3. PICK i : i = index[p]
  OBVIOUS
<1>4. /\ i \in Indices /\ i < End
      /\ \A j \in Nat : Present(j) => Present(j)'
      /\ \A j \in Nat : j # i /\ Present(j)' => Present(j) /\ At(j)' = At(j)
      /\ start_offset <= i => /\ Present(i) /\ At(i).kind = "placeholder"
                              /\ At(i)' = [kind |-> "value", of |-> i]
      /\ i < start_offset => blocks' = blocks
  BY <1>3, SetSlots, Zenon
<1>5. End' = End
  BY <1>1 DEF End
<1>6. BoundsOK' /\ DistinctOK' /\ PanicsOnlyOvertaken'
  <2>1. BoundsOK'
    BY <1>1, <1>5, Zenon DEF DequeOK, BoundsOK
  <2>2. DistinctOK'
    BY <1>2, Zenon DEF DequeOK, DistinctOK
  <2>3. PanicsOnlyOvertaken'
    BY <1>1, <1>2, Zenon DEF DequeOK, PanicsOnlyOvertaken
  <2> QED
    BY <2>1, <2>2, <2>3
<1>7. ASSUME NEW q \in Pushers
      PROVE  PusherOK(q)'
  <2>1. CASE q = p
    BY <1>2, <2>1, Zenon DEF PusherOK
  <2>2. CASE q # p
    <3>1. PusherOK(q) /\ pc'[q] = pc[q] /\ index'[q] = index[q]
      BY <1>2, <2>2, Zenon DEF DequeOK
    <3>2. pc'[q] # "idle" => index'[q] \in Indices /\ index'[q] < End'
      BY <1>5, <3>1, Zenon DEF PusherOK
    <3>3. pc'[q] = "reserved" => removing' = NotRemoving /\ start_offset' <= index'[q]
      BY <1>1, <3>1, Zenon DEF PusherOK
    <3>4. ASSUME NEW j, j = index'[q], pc'[q] = "pushed", start_offset' <= j
          PROVE  Present(j)' /\ At(j)'.kind = "placeholder"
      <4>1. j \in Nat /\ j # i /\ Present(j) /\ At(j).kind = "placeholder"
        BY <1>0, <1>1, <1>3, <2>2, <3>1, <3>4, Zenon DEF DequeOK, DistinctOK, PusherOK
      <4> QED
        BY <1>4, <4>1, Zenon
    <3> QED
      BY <3>2, <3>3, <3>4 DEF PusherOK, Present, At, BlockIndex
  <2> QED
    BY <2>1, <2>2
<1>8. ASSUME NEW j \in Indices
      PROVE  SlotOK(j)' /\ FilledOK(j)'
  <2>0. SlotOK(j) /\ FilledOK(j) /\ j \in Nat
    BY <1>0, Zenon DEF DequeOK
  <2>1. \A q \in Pushers : index[q] = j /\ Unfilled(q) => index'[q] = j /\ Unfilled(q)'
    BY <1>1, <1>2, Zenon DEF Unfilled
  <2>2. CASE j = i /\ start_offset <= i
    <3>1. ~(End <= j) /\ At(j)'.kind = "value" /\ At(j)'.of = j /\ Present(j)'
      BY <1>0, <1>4, <2>0, <2>2
    <3> QED
      BY <1>5, <3>1 DEF SlotOK, FilledOK
  <2>3. CASE j # i \/ i < start_offset
    <3>1. Present(j)' <=> Present(j)
      BY <1>1, <1>4, <2>0, <2>3 DEF Present, BlockIndex
    <3>2. Present(j)' => At(j)' = At(j)
      BY <1>1, <1>4, <2>0, <2>3 DEF At, BlockIndex
    <3> QED
      BY <1>1, <1>5, <2>0, <2>1, <3>1, <3>2, Zenon DEF SlotOK, FilledOK
  <2> QED
    BY <1>0, <1>4, <2>2, <2>3
<1> QED
  BY <1>6, <1>7, <1>8, Zenon DEF DequeOK

\* A removal begins: the end of the log stays where it is.
LEMMA BeginStep ==
  ASSUME TypeOK, DequeOK, NEW n \in Indices, RemoveBegin(n)
  PROVE  DequeOK' /\ End' = End
<1>0. /\ start_offset \in Nat /\ length \in Nat /\ End \in Nat /\ n \in Nat /\ n # NotRemoving
  BY Numbers, BlockDequeAssumption DEF Indices, NotRemoving
<1>1. /\ ~poisoned /\ removing = NotRemoving /\ \A p \in Pushers : pc[p] # "reserved"
      /\ start_offset < n /\ n < start_offset + length
      /\ length' = LengthAfter(n) /\ removing' = n
      /\ UNCHANGED <<blocks, start_offset, pushVars, poisoned>>
  BY Zenon DEF RemoveBegin, CanWrite, CanRead
<1>2. End = start_offset + length /\ End' = End
  BY <1>0, <1>1 DEF End, LengthAfter
<1>3. \A i : (Present(i)' <=> Present(i)) /\ At(i)' = At(i)
  BY <1>1 DEF Present, At, BlockIndex
<1>4. BoundsOK'
  BY <1>0, <1>1, <1>2 DEF DequeOK, BoundsOK
<1>5. ASSUME NEW q \in Pushers
      PROVE  PusherOK(q)'
  <2>1. PusherOK(q) /\ pc' = pc /\ index' = index
    BY <1>1, Zenon DEF DequeOK, pushVars
  <2>2. ASSUME NEW j, j = index'[q], pc'[q] = "pushed", start_offset' <= j
        PROVE  Present(j)' /\ At(j)'.kind = "placeholder"
    BY <1>1, <1>3, <2>1, <2>2, Zenon DEF PusherOK
  <2>3. /\ pc'[q] # "idle" => index'[q] \in Indices /\ index'[q] < End'
        /\ pc'[q] # "reserved"
    BY <1>1, <1>2, <2>1, Zenon DEF PusherOK
  <2> QED
    BY <2>2, <2>3 DEF PusherOK, Present, At, BlockIndex
<1>6. DistinctOK' /\ PanicsOnlyOvertaken'
  BY <1>1, Zenon DEF DequeOK, DistinctOK, PanicsOnlyOvertaken, pushVars
<1>7. ASSUME NEW i \in Indices
      PROVE  SlotOK(i)' /\ FilledOK(i)'
  BY <1>1, <1>2, <1>3, Zenon DEF DequeOK, SlotOK, FilledOK, Unfilled, pushVars
<1> QED
  BY <1>2, <1>4, <1>5, <1>6, <1>7, Zenon DEF DequeOK

\* The removal is done: what is left in range is where it was.
LEMMA EndStep ==
  ASSUME TypeOK, DequeOK, RemoveEnd
  PROVE  DequeOK' /\ End' = End
<1> DEFINE n == removing
<1>0. /\ start_offset \in Nat /\ length \in Nat /\ n \in Nat /\ End \in Nat
      /\ Indices \subseteq Nat
  BY Numbers, Zenon
<1>1. /\ n # NotRemoving /\ ~poisoned /\ ~RemovePanics(n)
      /\ blocks' = Removed(n) /\ start_offset' = n /\ removing' = NotRemoving
      /\ UNCHANGED <<length, pushVars, poisoned>>
  BY Zenon DEF RemoveEnd
<1>2. /\ start_offset < n /\ n < End /\ start_offset <= n
  BY <1>0, <1>1 DEF DequeOK, BoundsOK
<1>3. End' = End
  BY <1>0, <1>1 DEF End
<1> HIDE DEF n
<1>4. /\ \A j \in Nat : n <= j /\ Present(j) => Present(j)'
      /\ \A j \in Nat : Present(j)' => Present(j) /\ At(j)' = IF j < n THEN None ELSE At(j)
  BY <1>0, <1>1, <1>2, RemoveSlots, Zenon
<1>5. \A j \in Nat : n <= j <=> ~(j < n)
  BY <1>0
<1>6. BoundsOK'
  BY <1>1, <1>3, Zenon DEF DequeOK, BoundsOK
<1>7. ASSUME NEW q \in Pushers
      PROVE  PusherOK(q)'
  <2>1. /\ PusherOK(q) /\ pc' = pc /\ index' = index /\ pc[q] # "reserved"
    BY <1>1, Zenon DEF DequeOK, PusherOK, pushVars, n
  <2>2. ASSUME NEW j, j = index'[q], pc'[q] = "pushed", start_offset' <= j
        PROVE  Present(j)' /\ At(j)'.kind = "placeholder"
    <3>1. j \in Indices /\ j \in Nat
      BY <1>0, <2>1, <2>2, Zenon DEF PusherOK
    <3>2. n <= j /\ ~(j < n) /\ start_offset <= j
      BY <1>0, <1>1, <1>2, <2>2, <3>1
    <3>3. Present(j) /\ At(j).kind = "placeholder"
      BY <2>1, <2>2, <3>2, Zenon DEF PusherOK
    <3> QED
      BY <1>4, <3>1, <3>2, <3>3, Zenon
  <2>3. pc'[q] # "idle" => index'[q] \in Indices /\ index'[q] < End'
    BY <1>3, <2>1, Zenon DEF PusherOK
  <2> QED
    BY <2>1, <2>2, <2>3 DEF PusherOK, Present, At, BlockIndex
<1>8. DistinctOK' /\ PanicsOnlyOvertaken'
  BY <1>1, Zenon DEF DequeOK, DistinctOK, PanicsOnlyOvertaken, pushVars
<1>9. ASSUME NEW i \in Indices
      PROVE  SlotOK(i)' /\ FilledOK(i)'
  <2>1. SlotOK(i) /\ FilledOK(i) /\ i \in Nat
    BY <1>0, Zenon DEF DequeOK
  <2>2. SlotOK(i)'
    BY <1>3, <1>4, <2>1, SlotFacts, Zenon DEF SlotOK
  <2>3. \A q \in Pushers : Unfilled(q)' <=> Unfilled(q)
    BY <1>1, Zenon DEF Unfilled, pushVars
  <2>4. start_offset' <= i /\ i < End' => start_offset <= i /\ i < End /\ n <= i /\ ~(i < n)
    BY <1>0, <1>1, <1>2, <1>3, <2>1
  <2>5. FilledOK(i)'
    <3>1. ASSUME start_offset' <= i, i < End'
          PROVE  \/ \E q \in Pushers : index[q] = i /\ Unfilled(q)
                 \/ Present(i) /\ At(i).kind # "none"
      BY <2>1, <2>4, <3>1, Zenon DEF FilledOK
    <3>2. index' = index
      BY <1>1, Zenon DEF pushVars
    <3>3. start_offset' <= i /\ i < End' /\ Present(i) => Present(i)' /\ At(i)' = At(i)
      BY <1>4, <2>1, <2>4, Zenon
    <3>4. (\E q \in Pushers : index[q] = i /\ Unfilled(q)) =>
            \E q \in Pushers : index'[q] = i /\ Unfilled(q)'
      BY <2>3, <3>2, Zenon
    <3>5. start_offset' <= i /\ i < End' /\ Present(i) /\ At(i).kind # "none" =>
            Present(i)' /\ At(i)'.kind # "none"
      BY <3>3, Zenon
    <3> QED
      BY <3>1, <3>4, <3>5, Zenon DEF FilledOK
  <2> QED
    BY <2>2, <2>5
<1> QED
  BY <1>3, <1>6, <1>7, <1>8, <1>9, Zenon DEF DequeOK

\* A panic poisons the lock and leaves the rest as it was.
LEMMA PoisonStep ==
  ASSUME DequeOK, UNCHANGED <<blocks, start_offset, length, pushVars, removing>>,
         PanicsOnlyOvertaken'
  PROVE  DequeOK'
  BY DEF DequeOK, BoundsOK, PusherOK, DistinctOK, SlotOK, FilledOK,
         Unfilled, Present, At, BlockIndex, End, pushVars

\* push panics only where a removal has overtaken it.
LEMMA PushPanicStep ==
  ASSUME TypeOK, DequeOK, NEW p \in Pushers, PushPanic(p)
  PROVE  DequeOK'
<1>1. /\ pc[p] = "grow" /\ removing = NotRemoving /\ BlockIndex(index[p]) < 0
      /\ UNCHANGED <<blocks, start_offset, length, pushVars, removing>>
  BY Zenon DEF PushPanic, CanWrite, CanRead
<1>2. PICK i : i = index[p]
  OBVIOUS
<1>3. /\ i \in Nat /\ start_offset \in Nat
      /\ BlockIndex(i) \in Int /\ (start_offset <= i => 0 <= BlockIndex(i))
  <2>1. i \in Nat /\ start_offset \in Nat
    BY <1>1, <1>2, Numbers, Zenon DEF DequeOK, PusherOK
  <2> QED
    BY <2>1, BlockFacts, Zenon
<1>4. i < start_offset
  <2>1. BlockIndex(i) < 0
    BY <1>1, <1>2
  <2> QED
    BY <1>3, <2>1
<1>5. PanicsOnlyOvertaken'
  BY <1>1, <1>2, <1>4, Zenon DEF PanicsOnlyOvertaken, pushVars
<1> QED
  BY <1>1, <1>5, PoisonStep, Zenon

\* remove_before misses a block only where a push that it overtakes has yet to
\* add it.
LEMMA RemovePanicStep ==
  ASSUME TypeOK, DequeOK, RemovePanic
  PROVE  DequeOK'
<1> DEFINE n == removing
<1>0. /\ start_offset \in Nat /\ n \in Nat /\ End \in Nat /\ Len(blocks) \in Nat
      /\ MaxIndex \in Nat /\ \A m \in Nat : m <= MaxIndex => m \in Indices
  BY Numbers, Types, Zenon
<1>1. /\ n # NotRemoving /\ RemovePanics(n)
      /\ UNCHANGED <<blocks, start_offset, length, pushVars, removing>>
  BY Zenon DEF RemovePanic
<1>2. start_offset < n /\ n < End /\ End <= MaxIndex + 1
  BY <1>1, Zenon DEF DequeOK, BoundsOK
<1> HIDE DEF n
<1>3. PICK i \in Nat : i = n - 1 /\ i \in Indices /\ start_offset <= i /\ i < End
  BY <1>0, <1>2
<1>4. ~Present(i)
  <2>1. /\ n \div BlockSize - start_offset \div BlockSize \in Nat
        /\ Span(n) \div BlockSize = n \div BlockSize - start_offset \div BlockSize
        /\ Span(n) % BlockSize = n % BlockSize
    BY <1>0, <1>2, SpanFacts
  <2>2. /\ n \div BlockSize \in Nat /\ start_offset \div BlockSize \in Nat
        /\ n % BlockSize \in Nat
    <3>1. /\ n \div BlockSize \in Nat /\ start_offset \div BlockSize \in Nat
          /\ n % BlockSize \in 0..(BlockSize - 1)
      BY <1>0, DivMod, Zenon
    <3> QED
      BY <3>1, BlockDequeAssumption
  <2>3. /\ n % BlockSize > 0 => i \div BlockSize = n \div BlockSize
        /\ n % BlockSize = 0 => i \div BlockSize = n \div BlockSize - 1
    BY <1>0, <1>2, <1>3, Predecessor
  <2> QED
    BY <1>0, <1>1, <2>1, <2>2, <2>3 DEF RemovePanics, Present, BlockIndex
<1>5. PICK p \in Pushers : index[p] = i /\ Unfilled(p)
  BY <1>3, <1>4, Zenon DEF DequeOK, FilledOK
<1>6. pc[p] = "grow"
  BY <1>1, <1>5, Zenon DEF DequeOK, PusherOK, Unfilled, n
<1>7. index[p] < n
  BY <1>0, <1>3, <1>5
<1>8. PanicsOnlyOvertaken'
  BY <1>1, <1>6, <1>7, Zenon DEF PanicsOnlyOvertaken, pushVars, n
<1> QED
  BY <1>1, <1>8, PoisonStep, Zenon

\* clear leaves nothing.
LEMMA ClearStep ==
  ASSUME TypeOK, DequeOK, Clear
  PROVE  DequeOK'
<1>0. MaxIndex \in Nat /\ Indices \subseteq Nat
  BY Numbers, Zenon
<1>1. /\ blocks' = <<>> /\ start_offset' = 0 /\ length' = 0
      /\ removing' = NotRemoving /\ ~poisoned' /\ \A p \in Pushers : pc'[p] = "idle"
  BY Zenon DEF Clear, CanWrite, CanRead, pushVars
<1>2. End' = 0
  BY <1>1 DEF End
<1>3. \A i \in Indices : ~Present(i)' /\ ~(i < 0)
  <2>1. Len(blocks') = 0
    BY <1>1
  <2>2. ASSUME NEW i \in Indices
        PROVE  BlockIndex(i)' \in Int /\ i \in Nat
    <3>1. i \in Nat /\ i \div BlockSize \in Nat /\ 0 \div BlockSize \in Nat
      BY <1>0, DivMod
    <3> QED
      BY <1>1, <3>1 DEF BlockIndex
  <2> QED
    BY <2>1, <2>2 DEF Present
<1>4. BoundsOK' /\ DistinctOK' /\ PanicsOnlyOvertaken'
  BY <1>0, <1>1, <1>2 DEF BoundsOK, DistinctOK, PanicsOnlyOvertaken
<1>5. \A p \in Pushers : PusherOK(p)'
  BY <1>1, Zenon DEF PusherOK
<1>6. \A i \in Indices : SlotOK(i)' /\ FilledOK(i)'
  BY <1>2, <1>3, Zenon DEF SlotOK, FilledOK
<1> QED
  BY <1>4, <1>5, <1>6, Zenon DEF DequeOK

\* The steps of push and of the set that follows it keep the types.
LEMMA PushTypes ==
  ASSUME TypeOK, DequeOK, NEW p \in Pushers, PushStep(p)
  PROVE  TypeOK'
<1>0. /\ start_offset \in Nat /\ length \in Nat /\ MaxIndex \in Nat
      /\ pc \in [Pushers -> {"idle", "reserved", "grow", "pushed"}]
      /\ index \in [Pushers -> Indices \cup {NoIndex}]
  BY Numbers, PusherTypes, Zenon
<1>1. UNCHANGED <<start_offset, removing, removes, readVars>>
  BY Zenon DEF PushStep, PushReserve, PushStore, PushMiss, PushGrow, PushPanic, SetValue
<1>2. poisoned' \in BOOLEAN
  BY Zenon DEF PushStep, PushReserve, PushStore, PushMiss, PushGrow, PushPanic, SetValue, TypeOK
<1>3. length' \in 0..(MaxIndex + 1)
  <2>1. CASE PushReserve(p)
    <3>1. start_offset + length <= MaxIndex /\ length' = length + 1
      BY <2>1, Zenon DEF PushReserve
    <3> QED
      BY <1>0, <3>1
  <2>2. CASE ~PushReserve(p)
    BY <2>2, Zenon DEF PushStep, PushStore, PushMiss, PushGrow, PushPanic, SetValue, TypeOK
  <2> QED
    BY <2>1, <2>2
<1>4. pc' \in [Pushers -> {"idle", "reserved", "grow", "pushed"}]
  <2>1. \/ UNCHANGED pc
        \/ \E x \in {"idle", "reserved", "grow", "pushed"} : pc' = [pc EXCEPT ![p] = x]
    BY Zenon
      DEF PushStep, PushReserve, PushStore, PushMiss, PushGrow, PushPanic, SetValue, pushVars
  <2> QED
    BY <1>0, <2>1
<1>5. index' \in [Pushers -> Indices \cup {NoIndex}]
  <2>1. CASE PushReserve(p)
    <3>1. /\ index' = [index EXCEPT ![p] = NextIndex] /\ start_offset + length <= MaxIndex
      BY <2>1, Zenon DEF PushReserve
    <3>2. NextIndex \in Indices
      BY <1>0, <3>1 DEF NextIndex, Indices
    <3> QED
      BY <1>0, <3>1, <3>2
  <2>2. CASE SetValue(p)
    <3>1. index' = [index EXCEPT ![p] = NoIndex]
      BY <2>2, Zenon DEF SetValue
    <3> QED
      BY <1>0, <3>1
  <2>3. CASE ~PushReserve(p) /\ ~SetValue(p)
    BY <1>0, <2>3, Zenon DEF PushStep, PushStore, PushMiss, PushGrow, PushPanic, pushVars
  <2> QED
    BY <2>1, <2>2, <2>3
<1>6. blocks' \in Seq(Block)
  <2>1. PICK i : i = index[p]
    OBVIOUS
  <2>2. CASE PushStore(p) \/ PushGrow(p)
    BY <2>1, <2>2, PushSlots, Zenon
  <2>3. CASE SetValue(p)
    BY <2>1, <2>3, SetSlots, Zenon
  <2>4. CASE PushReserve(p) \/ PushMiss(p) \/ PushPanic(p)
    BY <2>4, Types, Zenon DEF PushReserve, PushMiss, PushPanic
  <2> QED
    BY <2>2, <2>3, <2>4, Zenon DEF PushStep
<1> QED
  BY <1>1, <1>2, <1>3, <1>4, <1>5, <1>6, Zenon DEF TypeOK, readVars

\* So do the other steps.
LEMMA TypeStep == ASSUME TypeOK, DequeOK, [Next]_vars PROVE TypeOK'
<1>0. /\ start_offset \in Nat /\ length \in Nat /\ removing \in Nat /\ End \in Nat
      /\ MaxIndex \in Nat /\ MaxRemoves \in Nat /\ removes \in Nat
  BY Numbers, Types, Zenon
<1>1. ASSUME NEW p \in Pushers, PushStep(p)
      PROVE  TypeOK'
  BY <1>1, PushTypes, Zenon
<1>2. ASSUME NEW n \in Indices, RemoveBegin(n)
      PROVE  TypeOK'
  <2>1. /\ removes < MaxRemoves /\ start_offset < n /\ n < start_offset + length
        /\ length' = LengthAfter(n) /\ removing' = n /\ removes' = removes + 1
        /\ calm' = [r \in Readers |-> FALSE]
        /\ UNCHANGED <<blocks, start_offset, pushVars, poisoned, rpc, half, low, answer>>
    BY <1>2, Zenon DEF RemoveBegin
  <2>2. length' \in 0..(MaxIndex + 1)
    <3>1. length <= MaxIndex + 1
      BY DEF TypeOK
    <3> QED
      BY <1>0, <2>1, <3>1 DEF LengthAfter, Indices
  <2>3. removing' \in 0..(MaxIndex + 1) /\ removes' \in 0..MaxRemoves
    BY <1>0, <2>1 DEF Indices
  <2>4. calm' \in [Readers -> BOOLEAN]
    BY <2>1, Zenon
  <2> QED
    BY <2>1, <2>2, <2>3, <2>4, Zenon DEF TypeOK, pushVars
<1>3. CASE RemoveEnd
  <2>1. /\ removing # NotRemoving /\ ~RemovePanics(removing) /\ blocks' = Removed(removing)
        /\ start_offset' = removing /\ removing' = NotRemoving
        /\ UNCHANGED <<length, pushVars, removes, poisoned, readVars>>
    BY <1>3, Zenon DEF RemoveEnd
  <2>2. start_offset < removing /\ start_offset <= removing
    BY <1>0, <2>1 DEF DequeOK, BoundsOK
  <2>3. blocks' \in Seq(Block)
    BY <1>0, <2>1, <2>2, RemoveSlots, Zenon
  <2>4. start_offset' \in 0..(MaxIndex + 1)
    BY <2>1, Zenon DEF TypeOK
  <2> QED
    BY <2>1, <2>3, <2>4, Zenon DEF TypeOK, pushVars, readVars
<1>4. CASE RemovePanic
  BY <1>4, Zenon DEF RemovePanic, TypeOK, pushVars, readVars
<1>5. CASE Clear
  <2>1. <<>> \in Seq(Block) /\ 0 \in 0..(MaxIndex + 1)
    BY <1>0
  <2>2. /\ blocks' = <<>> /\ start_offset' = 0 /\ length' = 0
        /\ calm' = [r \in Readers |-> FALSE]
        /\ UNCHANGED <<pushVars, removing, removes, poisoned, rpc, half, low, answer>>
    BY <1>5, Zenon DEF Clear
  <2> QED
    BY <2>1, <2>2, Zenon DEF TypeOK, pushVars
<1>6. ASSUME NEW r \in Readers, LatestLength(r)
      PROVE  TypeOK'
  BY <1>0, <1>6, Zenon DEF LatestLength, TypeOK, pushVars
<1>7. ASSUME NEW r \in Readers, LatestOffset(r)
      PROVE  TypeOK'
  <2>1. Latest(r) \in Nat /\ 0 \in Nat
    <3>1. half[r] \in Nat
      BY Zenon DEF TypeOK
    <3> QED
      BY <1>0, <3>1 DEF Latest
  <2> QED
    BY <1>7, <2>1, Zenon DEF LatestOffset, TypeOK, pushVars
<1>8. ASSUME NEW r \in Readers, LatestReturn(r)
      PROVE  TypeOK'
  <2>1. 0 \in Nat
    OBVIOUS
  <2> QED
    BY <1>8, <2>1, Zenon DEF LatestReturn, TypeOK, pushVars
<1>9. CASE UNCHANGED vars
  BY <1>9, Zenon DEF TypeOK, vars, pushVars, readVars
<1> QED
  BY <1>1, <1>2, <1>3, <1>4, <1>5, <1>6, <1>7, <1>8, <1>9, Zenon DEF Next

\* Every step keeps what the invariant says of the deque and its pushers.
LEMMA DequeStep == ASSUME TypeOK, DequeOK, [Next]_vars PROVE DequeOK'
<1>1. ASSUME NEW p \in Pushers, PushStep(p)
      PROVE  DequeOK'
  BY <1>1, ReserveStep, PlaceStep, MissStep, PushPanicStep, SetStep, Zenon DEF PushStep
<1>2. ASSUME NEW n \in Indices, RemoveBegin(n)
      PROVE  DequeOK'
  BY <1>2, BeginStep, Zenon
<1>3. CASE RemoveEnd \/ RemovePanic \/ Clear
  BY <1>3, EndStep, RemovePanicStep, ClearStep, Zenon
<1>4. ASSUME NEW r \in Readers, LatestLength(r) \/ LatestOffset(r) \/ LatestReturn(r)
      PROVE  DequeOK'
  <2>1. UNCHANGED <<blocks, start_offset, length, pushVars, removing, poisoned>>
    BY <1>4, Zenon DEF LatestLength, LatestOffset, LatestReturn
  <2> QED
    BY <2>1, QuietStep, Zenon
<1>5. CASE UNCHANGED vars
  <2>1. UNCHANGED <<blocks, start_offset, length, pushVars, removing, poisoned>>
    BY <1>5, Zenon DEF vars
  <2> QED
    BY <2>1, QuietStep, Zenon
<1> QED
  BY <1>1, <1>2, <1>3, <1>4, <1>5, Zenon DEF Next

\* A push under way moves the end up at most, which a reader may miss.
LEMMA ReaderStep ==
  ASSUME TypeOK, TypeOK', DequeOK, [Next]_vars, \A r \in Readers : ReaderOK(r)
  PROVE  \A r \in Readers : ReaderOK(r)'
<1> SUFFICES ASSUME NEW r \in Readers PROVE ReaderOK(r)'
  OBVIOUS
<1>0. /\ start_offset \in Nat /\ length \in Nat /\ End \in Nat /\ End' \in Nat
      /\ removing = NotRemoving => End = start_offset + length
      /\ half[r] \in Nat /\ low[r] \in Nat /\ ReaderOK(r)
      /\ DOMAIN rpc = Readers /\ DOMAIN half = Readers /\ DOMAIN low = Readers
      /\ DOMAIN calm = Readers
  <2>1. End' \in Nat
    <3>1. /\ start_offset' \in 0..(MaxIndex + 1) /\ length' \in 0..(MaxIndex + 1)
          /\ removing' \in 0..(MaxIndex + 1) \/ removing' = NotRemoving
      BY Zenon DEF TypeOK
    <3>2. PICK s \in Nat, l \in Nat, n \in Nat : s = start_offset' /\ l = length' /\ n = removing'
      BY <3>1, BlockDequeAssumption DEF NotRemoving
    <3>3. End' = l + s \/ End' = l + n
      BY <3>2, Zenon DEF End
    <3>4. l + s \in Nat /\ l + n \in Nat
      OBVIOUS
    <3> QED
      BY <3>3, <3>4, Zenon
  <2> QED
    BY <2>1, Numbers, Zenon DEF TypeOK
<1>1. ASSUME /\ rpc'[r] = rpc[r] /\ half'[r] = half[r] /\ low'[r] = low[r] /\ calm'[r] = calm[r]
             /\ removing' = removing /\ start_offset' = start_offset /\ End <= End'
      PROVE  ReaderOK(r)'
  <2>1. low[r] <= End => low[r] <= End'
    BY <1>0, <1>1
  <2> QED
    BY <1>0, <1>1, <2>1, Zenon DEF ReaderOK
<1>2. ASSUME NEW p \in Pushers, PushStep(p)
      PROVE  ReaderOK(r)'
  <2>1. UNCHANGED <<start_offset, removing, readVars>> /\ (length' = length \/ length' = length + 1)
    BY <1>2, Zenon DEF PushStep, PushReserve, PushStore, PushMiss, PushGrow, PushPanic, SetValue
  <2>2. End <= End'
    <3>1. removing \in Nat
      BY Numbers, Zenon
    <3> QED
      BY <1>0, <2>1, <3>1 DEF End
  <2> QED
    BY <1>1, <2>1, <2>2, Zenon DEF readVars
<1>3. ASSUME \/ RemoveEnd \/ Clear
             \/ \E n \in Indices : RemoveBegin(n)
      PROVE  ReaderOK(r)'
  <2>1. \/ calm'[r] = FALSE
        \/ removing # NotRemoving /\ UNCHANGED readVars
    BY <1>3, Zenon DEF RemoveEnd, Clear, RemoveBegin
  <2> QED
    BY <1>0, <2>1, Zenon DEF ReaderOK, readVars
<1>4. ASSUME NEW g \in Readers, LatestLength(g)
      PROVE  ReaderOK(r)'
  <2>1. /\ half' = [half EXCEPT ![g] = length] /\ low' = [low EXCEPT ![g] = End]
        /\ calm' = [calm EXCEPT ![g] = (removing = NotRemoving)]
        /\ rpc' = [rpc EXCEPT ![g] = "half"]
        /\ UNCHANGED <<start_offset, length, removing>>
    BY <1>4, Zenon DEF LatestLength
  <2>2. End' = End /\ End <= End'
    BY <1>0, <2>1 DEF End
  <2>3. CASE r = g
    <3>1. /\ half'[r] = length /\ low'[r] = End /\ calm'[r] = (removing = NotRemoving)
      BY <1>0, <2>1, <2>3, Zenon
    <3>2. removing = NotRemoving => low'[r] = half'[r] + start_offset'
      BY <1>0, <2>1, <3>1
    <3> QED
      BY <2>1, <2>2, <3>1, <3>2, Zenon DEF ReaderOK
  <2>4. CASE r # g
    <3>1. rpc'[r] = rpc[r] /\ half'[r] = half[r] /\ low'[r] = low[r] /\ calm'[r] = calm[r]
      BY <1>0, <2>1, <2>4, Zenon
    <3> QED
      BY <1>1, <2>1, <2>2, <3>1, Zenon
  <2> QED
    BY <2>3, <2>4
<1>5. ASSUME NEW g \in Readers, LatestOffset(g) \/ LatestReturn(g)
      PROVE  ReaderOK(r)'
  <2>1. UNCHANGED <<start_offset, length, removing>>
    BY <1>5, Zenon DEF LatestOffset, LatestReturn
  <2>2. End <= End'
    BY <1>0, <2>1 DEF End
  <2>3. CASE r = g
    <3>1. rpc'[r] # "half"
      BY <1>0, <1>5, <2>3, Zenon DEF LatestOffset, LatestReturn
    <3> QED
      BY <3>1, Zenon DEF ReaderOK
  <2>4. CASE r # g
    <3>1. rpc'[r] = rpc[r] /\ half'[r] = half[r] /\ low'[r] = low[r] /\ calm'[r] = calm[r]
      BY <1>0, <1>5, <2>4, Zenon DEF LatestOffset, LatestReturn
    <3> QED
      BY <1>1, <2>1, <2>2, <3>1, Zenon
  <2> QED
    BY <2>3, <2>4
<1>6. CASE RemovePanic \/ UNCHANGED vars
  <2>1. UNCHANGED <<start_offset, length, removing, readVars>>
    BY <1>6, Zenon DEF RemovePanic, vars
  <2>2. End <= End'
    BY <1>0, <2>1 DEF End
  <2> QED
    BY <1>1, <2>1, <2>2, Zenon DEF readVars
<1> QED
  BY <1>2, <1>3, <1>4, <1>5, <1>6, Zenon DEF Next

-----------------------------------------------------------------------------
(* The theorems.                                                           *)

\* The empty deque satisfies the invariant.
LEMMA InvInit == ASSUME Init PROVE IInv
<1>0. MaxIndex \in Nat /\ MaxRemoves \in Nat /\ Indices \subseteq Nat
  BY BlockDequeAssumption DEF Indices
<1>1. TypeOK
  <2>1. /\ <<>> \in Seq(Block) /\ 0 \in 0..(MaxIndex + 1) /\ 0 \in 0..MaxRemoves /\ 0 \in Nat
    BY <1>0
  <2> QED
    BY <2>1, Zenon DEF Init, TypeOK
<1>2. End = 0
  BY DEF Init, End
<1>3. \A i \in Indices : ~Present(i) /\ ~(i < 0)
  <2>1. Len(blocks) = 0
    BY DEF Init
  <2>2. \A i \in Indices : BlockIndex(i) \in Int
    BY <1>0, <1>1, Types, BlockFacts, Zenon
  <2> QED
    BY <1>0, <2>1, <2>2 DEF Present
<1>4. BoundsOK
  BY <1>0, <1>2 DEF BoundsOK, Init
<1>5. \A i \in Indices : SlotOK(i) /\ FilledOK(i)
  BY <1>2, <1>3, Zenon DEF SlotOK, FilledOK
<1>6. /\ \A p \in Pushers : PusherOK(p)
      /\ DistinctOK /\ PanicsOnlyOvertaken
      /\ \A r \in Readers : ReaderOK(r)
  BY Zenon DEF Init, PusherOK, DistinctOK, PanicsOnlyOvertaken, ReaderOK
<1> QED
  BY <1>1, <1>4, <1>5, <1>6, Zenon DEF IInv

\* The invariant is inductive.
LEMMA InvStep == ASSUME IInv, [Next]_vars PROVE IInv'
<1>1. TypeOK /\ DequeOK /\ \A r \in Readers : ReaderOK(r)
  BY Zenon DEF IInv, DequeOK
<1>2. TypeOK' /\ DequeOK'
  BY <1>1, TypeStep, DequeStep, Zenon
<1>3. \A r \in Readers : ReaderOK(r)'
  BY <1>1, <1>2, ReaderStep, Zenon
<1> QED
  BY <1>2, <1>3, Zenon DEF IInv, DequeOK

\* What index i holds, by block and slot.
LEMMA EntryIs ==
  ASSUME TypeOK, NEW i \in Indices
  PROVE  Entry(i) = IF start_offset <= i /\ i < End /\ Present(i) THEN At(i) ELSE None
<1>1. start_offset <= i => 0 <= BlockIndex(i)
  BY Numbers, BlockFacts, Zenon
<1> QED
  BY <1>1, Zenon DEF Entry, Present, At

\* The invariant implies EntriesInPlace.
LEMMA InvInPlace == ASSUME IInv PROVE EntriesInPlace
<1> SUFFICES ASSUME NEW i \in Indices, Entry(i).kind # "none"
             PROVE  Entry(i).of = i
  BY DEF EntriesInPlace
<1>1. Entry(i) = IF start_offset <= i /\ i < End /\ Present(i) THEN At(i) ELSE None
  BY EntryIs, Zenon DEF IInv
<1>2. start_offset <= i /\ i < End /\ Present(i) /\ Entry(i) = At(i)
  BY <1>1, SlotFacts, Zenon
<1> QED
  BY <1>2, Zenon DEF IInv, SlotOK

\* The invariant implies PushedReadable.
LEMMA InvReadable == ASSUME IInv PROVE PushedReadable
<1> SUFFICES ASSUME CanRead, NEW i \in start_offset..(start_offset + length - 1)
             PROVE  \/ \E p \in Pushers : index[p] = i /\ pc[p] \in {"reserved", "grow"}
                    \/ GetWith(i).kind # "none"
  BY DEF PushedReadable
<1>0. /\ start_offset \in Nat /\ length \in Nat /\ MaxIndex \in Nat /\ End = start_offset + length
      /\ End <= MaxIndex + 1 /\ \A n \in Nat : n <= MaxIndex => n \in Indices
  BY Numbers, Zenon DEF CanRead, IInv, BoundsOK
<1>1. start_offset <= i /\ i < start_offset + length /\ i < End /\ i \in Indices
  BY <1>0
<1>2. FilledOK(i)
  BY <1>1, Zenon DEF IInv
<1> QED
  BY <1>1, <1>2, Zenon DEF FilledOK, Unfilled, GetWith, At

\* The invariant holds in every state of every run of push, set, remove_before,
\* clear and latest_revision.
THEOREM Invariance == Spec => []IInv
<1>1. Init => IInv
  BY InvInit
<1>2. IInv /\ [Next]_vars => IInv'
  BY InvStep
<1> QED
  BY <1>1, <1>2, PTL DEF Spec

\* Type correctness: the atomics of BlockDeque stay within their bounds and every
\* block has BLOCK_SIZE slots.
THEOREM TypeCorrect == Spec => []TypeOK
<1>1. IInv => TypeOK
  BY DEF IInv
<1> QED
  BY <1>1, Invariance, PTL

\* get_with(i) never finds the value of another index, whatever push, set and
\* remove_before did to the blocks.
THEOREM EntriesInPlaceCorrect == Spec => []EntriesInPlace
<1>1. IInv => EntriesInPlace
  BY InvInPlace
<1> QED
  BY <1>1, Invariance, PTL

\* What push has returned stays readable until remove_before or clear removes it.
THEOREM PushedReadableCorrect == Spec => []PushedReadable
<1>1. IInv => PushedReadable
  BY InvReadable
<1> QED
  BY <1>1, Invariance, PTL

\* push and remove_before panic only where a removal went past an index whose
\* push was between its read lock and its write lock.
THEOREM PanicsOnlyOvertakenCorrect == Spec => []PanicsOnlyOvertaken
<1>1. IInv => PanicsOnlyOvertaken
  BY DEF IInv
<1> QED
  BY <1>1, Invariance, PTL

\* latest_revision reads length and start_offset one after the other without the
\* lock, and still returns an end that the log had during the call, if nothing is
\* removed beside it.
THEOREM LatestIsCurrentCorrect == Spec => LatestIsCurrent
<1> DEFINE A == \A r \in Readers : rpc[r] = "half" /\ rpc'[r] = "done" /\ calm[r] =>
                  low[r] <= answer'[r] /\ answer'[r] <= End
<1>1. ASSUME IInv, [Next]_vars
      PROVE  A
  <2> SUFFICES ASSUME NEW r \in Readers, rpc[r] = "half", rpc'[r] = "done", calm[r]
               PROVE  low[r] <= answer'[r] /\ answer'[r] <= End
    OBVIOUS
  <2>1. TypeOK /\ ReaderOK(r) /\ low[r] \in Nat /\ End \in Nat
    BY <1>1, Numbers, Zenon DEF IInv, TypeOK
  <2>2. low[r] = half[r] + start_offset /\ low[r] <= End
    BY <2>1, Zenon DEF ReaderOK
  <2>3. LatestOffset(r)
    <3>1. ASSUME NEW p \in Pushers, PushStep(p)
          PROVE  rpc' = rpc
      BY <3>1, Zenon
        DEF PushStep, PushReserve, PushStore, PushMiss, PushGrow, PushPanic, SetValue, readVars
    <3>2. ASSUME NEW n \in Indices, RemoveBegin(n)
          PROVE  rpc' = rpc
      BY <3>2, Zenon DEF RemoveBegin
    <3>3. RemoveEnd \/ RemovePanic \/ Clear \/ UNCHANGED vars => rpc' = rpc
      BY Zenon DEF RemoveEnd, RemovePanic, Clear, vars, readVars
    <3>4. ASSUME NEW g \in Readers, g # r, LatestLength(g) \/ LatestOffset(g) \/ LatestReturn(g)
          PROVE  rpc'[r] = rpc[r]
      <4>1. DOMAIN rpc = Readers
        BY <2>1, Zenon DEF TypeOK
      <4> QED
        BY <3>4, <4>1, Zenon DEF LatestLength, LatestOffset, LatestReturn
    <3>5. ~LatestLength(r) /\ ~LatestReturn(r)
      BY DEF LatestLength, LatestReturn
    <3>6. rpc'[r] # rpc[r]
      OBVIOUS
    <3> QED
      BY <1>1, <3>1, <3>2, <3>3, <3>4, <3>5, <3>6, Zenon DEF Next
  <2>4. answer'[r] = half[r] + start_offset
    <3>1. DOMAIN answer = Readers
      BY <2>1, Zenon DEF TypeOK
    <3> QED
      BY <2>3, <3>1, Zenon DEF LatestOffset, Latest
  <2> QED
    BY <2>1, <2>2, <2>4
<1> HIDE DEF A
<1>2. Spec => [][A]_vars
  BY <1>1, Invariance, PTL DEF Spec
<1> QED
  BY <1>2 DEF LatestIsCurrent, A

-----------------------------------------------------------------------------
(* The deque implements RevisionLog.                                       *)

\* The entries and the reserved indices of the log, as Log maps them.
LogEntry == [i \in Indices |-> Entry(i).kind]

LogIndex == [p \in Pushers |-> IF Unfilled(p) THEN index[p] ELSE NoIndex]

\* The operations of the log, in terms of the deque.
LEMMA LogReserve ==
  ASSUME NEW p, LogIndex[p] = NoIndex, LogIndex' = [LogIndex EXCEPT ![p] = End],
         End' = End + 1, start_offset' = start_offset, LogEntry' = LogEntry
  PROVE  Log!Reserve(p)
  BY Zenon DEF Log!Reserve, Log!NoIndex, NoIndex, LogIndex, LogEntry, Unfilled

LEMMA LogFill ==
  ASSUME NEW p, LogIndex[p] # NoIndex,
         LogEntry' = [LogEntry EXCEPT ![LogIndex[p]] =
                        IF LogIndex[p] >= start_offset THEN "placeholder" ELSE "none"],
         LogIndex' = [LogIndex EXCEPT ![p] = NoIndex],
         End' = End, start_offset' = start_offset
  PROVE  Log!Fill(p)
  BY Zenon DEF Log!Fill, Log!NoIndex, NoIndex, LogIndex, LogEntry, Unfilled

LEMMA LogReplace ==
  ASSUME NEW i, LogEntry[i] = "placeholder", LogEntry' = [LogEntry EXCEPT ![i] = "value"],
         LogIndex' = LogIndex, End' = End, start_offset' = start_offset
  PROVE  Log!Replace(i)
  BY Zenon DEF Log!Replace, LogIndex, LogEntry, Unfilled, NoIndex

LEMMA LogRemove ==
  ASSUME NEW n, start_offset <= n, n <= End, start_offset' = n,
         LogEntry' = [i \in Indices |-> IF i < n THEN "none" ELSE LogEntry[i]],
         LogIndex' = LogIndex, End' = End
  PROVE  Log!RemoveBefore(n)
  BY Zenon DEF Log!RemoveBefore, Log!Indices, Indices, LogIndex, LogEntry, Unfilled, NoIndex

LEMMA LogClear ==
  ASSUME start_offset' = 0, End' = 0, LogEntry' = [i \in Indices |-> "none"],
         LogIndex' = LogIndex
  PROVE  Log!Clear
  BY Zenon DEF Log!Clear, Log!Indices, Indices, LogIndex, LogEntry, Unfilled, NoIndex

LEMMA LogStutter ==
  ASSUME start_offset' = start_offset, End' = End, LogEntry' = LogEntry, LogIndex' = LogIndex
  PROVE  UNCHANGED Log!logVars
  BY Zenon DEF Log!logVars, LogIndex, LogEntry, Unfilled, NoIndex

\* Index i is in the log and has a block.
InLog(i) == start_offset <= i /\ i < End /\ Present(i)

\* The entry of index i, by block and slot, before a step ...
LEMMA KindIs ==
  ASSUME TypeOK, NEW i \in Indices
  PROVE  LogEntry[i] = IF InLog(i) THEN At(i).kind ELSE "none"
<1>1. LogEntry[i] = Entry(i).kind
  BY Zenon DEF LogEntry
<1>2. Entry(i) = IF InLog(i) THEN At(i) ELSE None
  BY EntryIs, Zenon DEF InLog
<1>3. None.kind = "none"
  BY SlotFacts, Zenon
<1> QED
  BY <1>1, <1>2, <1>3

\* ... and after it.
LEMMA KindNext ==
  ASSUME TypeOK', NEW i \in Indices
  PROVE  LogEntry'[i] = IF InLog(i)' THEN At(i)'.kind ELSE "none"
<1>1. i \in Nat
  BY BlockDequeAssumption DEF Indices
<1>2. start_offset' \in Nat
  BY BlockDequeAssumption DEF TypeOK
<1>3. start_offset' <= i => 0 <= BlockIndex(i)'
  <2>1. PICK s \in Nat : s = start_offset'
    BY <1>2, Zenon
  <2>2. s <= i => ~(i \div BlockSize < s \div BlockSize)
    BY <1>1, BlockOrder
  <2>3. i \div BlockSize \in Nat /\ s \div BlockSize \in Nat
    BY <1>1, DivMod, Zenon
  <2>4. s <= i => 0 <= (i \div BlockSize) - (s \div BlockSize)
    BY <2>2, <2>3
  <2> QED
    BY <2>1, <2>4, Zenon DEF BlockIndex
<1>4. LogEntry'[i] = Entry(i)'.kind
  BY Zenon DEF LogEntry
<1>5. Entry(i)' = IF InLog(i)' THEN At(i)' ELSE None
  BY <1>3, Zenon DEF Entry, Present, At, InLog
<1>6. None.kind = "none"
  BY SlotFacts, Zenon
<1> QED
  BY <1>4, <1>5, <1>6

\* The entries after a step are equal to f if they are at every index.
LEMMA EntriesAre ==
  ASSUME NEW f, f = [i \in Indices |-> f[i]], \A i \in Indices : LogEntry'[i] = f[i]
  PROVE  LogEntry' = f
  BY Zenon DEF LogEntry

\* The entries are a function of the indices.
LEMMA EntriesFunction == LogEntry = [i \in Indices |-> LogEntry[i]]
  BY Zenon DEF LogEntry

\* The reserved indices after a step are equal to f if they are for every pusher.
LEMMA ReservedAre ==
  ASSUME NEW f, f = [p \in Pushers |-> f[p]], \A p \in Pushers : LogIndex'[p] = f[p]
  PROVE  LogIndex' = f
  BY Zenon DEF LogIndex

\* The reserved indices are a function of the pushers.
LEMMA ReservedFunction == LogIndex = [p \in Pushers |-> LogIndex[p]]
  BY Zenon DEF LogIndex

\* Steps that leave the blocks, the first index and the end alone leave the
\* entries alone.
LEMMA SameEntries ==
  ASSUME TypeOK, TypeOK', UNCHANGED <<blocks, start_offset>>, End' = End
  PROVE  LogEntry' = LogEntry
<1>1. ASSUME NEW i \in Indices
      PROVE  LogEntry'[i] = LogEntry[i]
  <2>1. InLog(i)' = InLog(i) /\ At(i)' = At(i)
    BY Zenon DEF InLog, Present, At, BlockIndex
  <2> QED
    BY <2>1, KindIs, KindNext, Zenon
<1> QED
  BY <1>1, EntriesAre, EntriesFunction, Zenon

\* push takes the end of the log, which holds nothing yet.
LEMMA RefineReserve ==
  ASSUME TypeOK, TypeOK', DequeOK, NEW p \in Pushers, PushReserve(p)
  PROVE  Log!Reserve(p)
<1>0. /\ start_offset \in Nat /\ length \in Nat /\ removing = NotRemoving
      /\ End = start_offset + length /\ Indices \subseteq Nat
  BY Numbers, Zenon DEF PushReserve, CanRead
<1>1. /\ removing' = removing /\ start_offset' = start_offset /\ length' = length + 1
      /\ blocks' = blocks /\ pc[p] = "idle"
  BY Zenon DEF PushReserve
<1>2. /\ pc'[p] = "reserved" /\ index'[p] = End
      /\ \A q \in Pushers : q # p => pc'[q] = pc[q] /\ index'[q] = index[q]
  BY <1>0, PusherTypes, Zenon DEF PushReserve, NextIndex
<1>3. End' = End + 1
  BY <1>0, <1>1 DEF End
<1>4. ASSUME NEW i \in Indices
      PROVE  LogEntry'[i] = LogEntry[i]
  <2>1. Present(i)' = Present(i) /\ At(i)' = At(i)
    BY <1>1, Zenon DEF Present, At, BlockIndex
  <2>2. SlotOK(i)
    BY Zenon DEF DequeOK
  <2>3. (i < End' => i < End \/ End <= i) /\ (i < End => i < End' /\ ~(End <= i))
    BY <1>0, <1>3
  <2>4. InLog(i) => InLog(i)'
    BY <1>1, <2>1, <2>3, Zenon DEF InLog
  <2>5. InLog(i)' /\ ~InLog(i) => At(i).kind = "none"
    BY <1>1, <2>1, <2>2, <2>3, Zenon DEF InLog, SlotOK
  <2> QED
    BY <2>1, <2>4, <2>5, KindIs, KindNext, Zenon
<1>5. LogEntry' = LogEntry
  BY <1>4, EntriesAre, EntriesFunction, Zenon
<1>6. LogIndex[p] = NoIndex
  BY <1>1, Zenon DEF LogIndex, Unfilled
<1>7. LogIndex' = [LogIndex EXCEPT ![p] = End]
  <2> DEFINE f == [LogIndex EXCEPT ![p] = End]
  <2>1. f = [q \in Pushers |-> f[q]]
    BY ReservedFunction, Zenon
  <2>2. ASSUME NEW q \in Pushers
        PROVE  LogIndex'[q] = f[q]
    <3>1. f[q] = IF q = p THEN End ELSE LogIndex[q]
      BY ReservedFunction, Zenon
    <3> HIDE DEF f
    <3> QED
      BY <1>2, <3>1, Zenon DEF LogIndex, Unfilled
  <2> HIDE DEF f
  <2>3. LogIndex' = f
    BY <2>1, <2>2, ReservedAre, Zenon
  <2> QED
    BY <2>3 DEF f
<1> QED
  BY <1>1, <1>3, <1>5, <1>6, <1>7, LogReserve, Zenon

\* The placeholder of a push becomes visible at its index, if that was not removed.
LEMMA RefineFill ==
  ASSUME TypeOK, TypeOK', DequeOK, NEW p \in Pushers, PushStore(p) \/ PushGrow(p)
  PROVE  Log!Fill(p)
<1>1. PICK i : i = index[p]
  OBVIOUS
<1>2. /\ i \in Indices /\ i < End /\ Unfilled(p)
      /\ Present(i)' /\ At(i)' = [kind |-> "placeholder", of |-> i]
      /\ \A j \in Nat : Present(j) => Present(j)'
      /\ \A j \in Nat : j # i /\ Present(j)' => At(j)' = IF Present(j) THEN At(j) ELSE None
  BY <1>1, PushSlots, Zenon
<1>3. /\ start_offset' = start_offset /\ length' = length /\ removing' = removing
      /\ index' = index /\ pc' = [pc EXCEPT ![p] = "pushed"]
  BY Zenon DEF PushStore, PushGrow
<1>4. End' = End
  BY <1>3, Zenon DEF End
<1>5. start_offset \in Nat /\ Indices \subseteq Nat /\ NoIndex \notin Indices
  BY Numbers, Zenon
<1>6. i >= start_offset <=> start_offset <= i
  BY <1>2, <1>5
<1>7. LogIndex[p] = i /\ LogIndex[p] # NoIndex
  BY <1>1, <1>2, <1>5, Zenon DEF LogIndex
<1>8. At(i)'.kind = "placeholder" /\ None.kind = "none"
  BY <1>2, SlotFacts
<1> DEFINE k == IF i >= start_offset THEN "placeholder" ELSE "none"
<1> DEFINE f == [LogEntry EXCEPT ![i] = k]
<1>9. f = [j \in Indices |-> f[j]] /\ \A j \in Indices : f[j] = IF j = i THEN k ELSE LogEntry[j]
  BY EntriesFunction, Zenon
<1>10. ASSUME NEW j \in Indices
       PROVE  LogEntry'[j] = f[j]
  <2>1. CASE j = i
    <3>1. InLog(i)' <=> start_offset <= i
      BY <1>2, <1>3, <1>4, Zenon DEF InLog
    <3>2. LogEntry'[i] = k
      BY <1>2, <1>6, <1>8, <3>1, KindNext, Zenon
    <3> HIDE DEF f, k
    <3> QED
      BY <1>9, <2>1, <3>2, Zenon
  <2>2. CASE j # i
    <3>1. j \in Nat
      BY <1>5, Zenon
    <3>2. InLog(j) => InLog(j)' /\ At(j)' = At(j)
      BY <1>2, <1>3, <1>4, <2>2, <3>1, Zenon DEF InLog
    <3>3. InLog(j)' /\ ~InLog(j) => At(j)' = None
      BY <1>2, <1>3, <1>4, <2>2, <3>1, Zenon DEF InLog
    <3>4. LogEntry'[j] = LogEntry[j]
      BY <1>8, <3>2, <3>3, KindIs, KindNext, Zenon
    <3> HIDE DEF f, k
    <3> QED
      BY <1>9, <2>2, <3>4, Zenon
  <2> QED
    BY <2>1, <2>2
<1>11. LogEntry' = f
  <2> HIDE DEF f
  <2> QED
    BY <1>9, <1>10, EntriesAre, Zenon
<1>12. LogIndex' = [LogIndex EXCEPT ![p] = NoIndex]
  <2> DEFINE g == [LogIndex EXCEPT ![p] = NoIndex]
  <2>1. /\ g = [q \in Pushers |-> g[q]]
        /\ \A q \in Pushers : g[q] = IF q = p THEN NoIndex ELSE LogIndex[q]
    BY ReservedFunction, Zenon
  <2>2. pc'[p] = "pushed" /\ \A q \in Pushers : q # p => pc'[q] = pc[q]
    BY <1>3, PusherTypes, Zenon
  <2> HIDE DEF g
  <2>3. ASSUME NEW q \in Pushers
        PROVE  LogIndex'[q] = g[q]
    BY <1>3, <2>1, <2>2, Zenon DEF LogIndex, Unfilled
  <2>4. LogIndex' = g
    BY <2>1, <2>3, ReservedAre, Zenon
  <2> QED
    BY <2>4 DEF g
<1> QED
  BY <1>3, <1>4, <1>7, <1>11, <1>12, LogFill, Zenon

\* A step that changes no pusher's reserved index, and neither block nor bound.
LEMMA RefineQuiet ==
  ASSUME TypeOK, TypeOK', UNCHANGED <<blocks, start_offset>>, End' = End,
         \A q \in Pushers : Unfilled(q)' = Unfilled(q) /\ (Unfilled(q) => index'[q] = index[q])
  PROVE  UNCHANGED Log!logVars
<1>1. LogEntry' = LogEntry
  BY SameEntries, Zenon
<1>2. \A q \in Pushers : LogIndex'[q] = LogIndex[q]
  BY Zenon DEF LogIndex
<1>3. LogIndex' = LogIndex
  BY <1>2, ReservedAre, ReservedFunction, Zenon
<1> QED
  BY <1>1, <1>3, LogStutter, Zenon

\* set replaces the placeholder of its index, or does nothing for one that is gone.
LEMMA RefineSet ==
  ASSUME TypeOK, TypeOK', DequeOK, NEW p \in Pushers, SetValue(p)
  PROVE  (\E i \in Indices : Log!Replace(i)) \/ UNCHANGED Log!logVars
<1>1. PICK i : i = index[p]
  OBVIOUS
<1>2. /\ i \in Indices /\ i < End
      /\ \A j \in Nat : Present(j) => Present(j)'
      /\ \A j \in Nat : j # i /\ Present(j)' => Present(j) /\ At(j)' = At(j)
      /\ start_offset <= i => /\ Present(i) /\ At(i).kind = "placeholder"
                              /\ At(i)' = [kind |-> "value", of |-> i]
      /\ i < start_offset => blocks' = blocks
  BY <1>1, SetSlots, Zenon
<1>3. /\ start_offset' = start_offset /\ length' = length /\ removing' = removing
      /\ index' = [index EXCEPT ![p] = NoIndex] /\ pc' = [pc EXCEPT ![p] = "idle"]
      /\ pc[p] = "pushed"
  BY Zenon DEF SetValue
<1>4. End' = End
  BY <1>3, Zenon DEF End
<1>5. start_offset \in Nat /\ Indices \subseteq Nat
  BY Numbers, Zenon
<1>6. \A q \in Pushers : Unfilled(q)' = Unfilled(q) /\ (Unfilled(q) => index'[q] = index[q])
  <2>1. pc'[p] = "idle" /\ \A q \in Pushers : q # p => pc'[q] = pc[q] /\ index'[q] = index[q]
    BY <1>3, PusherTypes, Zenon
  <2> QED
    BY <1>3, <2>1 DEF Unfilled
<1>7. CASE i < start_offset
  BY <1>2, <1>3, <1>4, <1>6, <1>7, RefineQuiet, Zenon
<1>8. CASE start_offset <= i
  <2>1. At(i)'.kind = "value"
    BY <1>2, <1>8, SlotFacts
  <2>2. i \in Nat /\ InLog(i) /\ InLog(i)'
    BY <1>2, <1>3, <1>4, <1>5, <1>8, Zenon DEF InLog
  <2>3. LogEntry[i] = "placeholder" /\ LogEntry'[i] = "value"
    <3>1. /\ LogEntry[i] = IF InLog(i) THEN At(i).kind ELSE "none"
          /\ LogEntry'[i] = IF InLog(i)' THEN At(i)'.kind ELSE "none"
      BY <1>2, KindIs, KindNext, Zenon
    <3>2. At(i).kind = "placeholder"
      BY <1>2, <1>8, Zenon
    <3> QED
      BY <2>1, <2>2, <3>1, <3>2, Zenon
  <2> DEFINE f == [LogEntry EXCEPT ![i] = "value"]
  <2>4. /\ f = [j \in Indices |-> f[j]]
        /\ \A j \in Indices : f[j] = IF j = i THEN "value" ELSE LogEntry[j]
    BY EntriesFunction, Zenon
  <2> HIDE DEF f
  <2>5. ASSUME NEW j \in Indices
        PROVE  LogEntry'[j] = f[j]
    <3>1. CASE j = i
      BY <2>3, <2>4, <3>1, Zenon
    <3>2. CASE j # i
      <4>1. j \in Nat
        BY <1>5, Zenon
      <4>2. InLog(j)' = InLog(j) /\ (InLog(j) => At(j)' = At(j))
        BY <1>2, <1>3, <1>4, <3>2, <4>1, Zenon DEF InLog
      <4>3. LogEntry'[j] = LogEntry[j]
        BY <4>2, KindIs, KindNext, Zenon
      <4> QED
        BY <2>4, <3>2, <4>3, Zenon
    <3> QED
      BY <3>1, <3>2
  <2>6. LogEntry' = f
    BY <2>4, <2>5, EntriesAre, Zenon
  <2>7. \A q \in Pushers : LogIndex'[q] = LogIndex[q]
    BY <1>6, Zenon DEF LogIndex
  <2>8. LogIndex' = LogIndex
    BY <2>7, ReservedAre, ReservedFunction, Zenon
  <2>9. Log!Replace(i)
    BY <1>3, <1>4, <2>3, <2>6, <2>8, LogReplace, Zenon DEF f
  <2> QED
    BY <1>2, <2>9, Zenon
<1>9. i < start_offset \/ start_offset <= i
  BY <1>2, <1>5
<1> QED
  BY <1>7, <1>8, <1>9, Zenon

\* remove_before, when it is through, has forgotten the entries below its argument.
LEMMA RefineRemove ==
  ASSUME TypeOK, TypeOK', DequeOK, RemoveEnd
  PROVE  \E n \in 0..(MaxIndex + 1) : Log!RemoveBefore(n)
<1>1. PICK n : n = removing
  OBVIOUS
<1>2. /\ start_offset \in Nat /\ n \in Nat /\ End \in Nat /\ Indices \subseteq Nat
  BY <1>1, Numbers, Zenon
<1>3. /\ n # NotRemoving /\ ~RemovePanics(n) /\ blocks' = Removed(n) /\ start_offset' = n
      /\ pc' = pc /\ index' = index
  BY <1>1, Zenon DEF RemoveEnd, pushVars
<1>4. n \in 0..(MaxIndex + 1)
  BY <1>1, <1>3, Zenon DEF TypeOK
<1>5. start_offset < n /\ n < End
  BY <1>1, <1>3, Zenon DEF DequeOK, BoundsOK
<1>6. start_offset <= n /\ n <= End /\ \A j \in Nat : n <= j => start_offset <= j /\ ~(j < n)
  BY <1>2, <1>5
<1>7. /\ \A j \in Nat : n <= j /\ Present(j) => Present(j)'
      /\ \A j \in Nat : Present(j)' => Present(j) /\ At(j)' = IF j < n THEN None ELSE At(j)
  BY <1>2, <1>3, <1>6, RemoveSlots, Zenon
<1>8. End' = End
  BY EndStep, Zenon
<1>9. \A j \in Nat : ~(n <= j) => j < n
  BY <1>2
<1> DEFINE f == [i \in Indices |-> IF i < n THEN "none" ELSE LogEntry[i]]
<1>10. /\ f = [i \in Indices |-> f[i]]
       /\ \A i \in Indices : f[i] = IF i < n THEN "none" ELSE LogEntry[i]
  BY Zenon
<1> HIDE DEF f
<1>11. ASSUME NEW j \in Indices
       PROVE  LogEntry'[j] = f[j]
  <2>1. j \in Nat
    BY <1>2, Zenon
  <2>2. CASE n <= j
    <3>1. start_offset <= j /\ ~(j < n)
      BY <1>6, <2>1, <2>2, Zenon
    <3>2. InLog(j)' = InLog(j) /\ (InLog(j) => At(j)' = At(j))
      BY <1>3, <1>7, <1>8, <2>1, <2>2, <3>1, Zenon DEF InLog
    <3>3. LogEntry'[j] = LogEntry[j]
      BY <3>2, KindIs, KindNext, Zenon
    <3> QED
      BY <1>10, <3>1, <3>3, Zenon
  <2>3. CASE ~(n <= j)
    <3>1. ~InLog(j)'
      BY <1>3, <2>3, Zenon DEF InLog
    <3>2. LogEntry'[j] = "none"
      BY <3>1, KindNext, Zenon
    <3> QED
      BY <1>9, <1>10, <2>1, <2>3, <3>2, Zenon
  <2> QED
    BY <2>2, <2>3
<1>12. LogEntry' = f
  BY <1>10, <1>11, EntriesAre, Zenon
<1>13. LogIndex' = LogIndex
  BY <1>3, Zenon DEF LogIndex, Unfilled
<1>14. Log!RemoveBefore(n)
  BY <1>3, <1>6, <1>8, <1>12, <1>13, LogRemove, Zenon DEF f
<1> QED
  BY <1>4, <1>14, Zenon

\* clear forgets every entry, and the indices start at 0 again.
LEMMA RefineClear ==
  ASSUME TypeOK, TypeOK', Clear
  PROVE  Log!Clear
<1>1. /\ start_offset' = 0 /\ length' = 0 /\ removing' = NotRemoving /\ pc' = pc /\ index' = index
  BY Zenon DEF Clear, CanWrite, CanRead, pushVars
<1>2. End' = 0
  BY <1>1 DEF End
<1>3. Indices \subseteq Nat
  BY Numbers, Zenon
<1> DEFINE f == [i \in Indices |-> "none"]
<1>4. f = [i \in Indices |-> f[i]] /\ \A i \in Indices : f[i] = "none"
  BY Zenon
<1> HIDE DEF f
<1>5. ASSUME NEW j \in Indices
      PROVE  LogEntry'[j] = f[j]
  <2>1. ~(j < 0)
    BY <1>3
  <2>2. ~InLog(j)'
    BY <1>2, <2>1, Zenon DEF InLog
  <2> QED
    BY <1>4, <2>2, KindNext, Zenon
<1>6. LogEntry' = f
  BY <1>4, <1>5, EntriesAre, Zenon
<1>7. LogIndex' = LogIndex
  BY <1>1, Zenon DEF LogIndex, Unfilled
<1> QED
  BY <1>1, <1>2, <1>6, <1>7, LogClear, Zenon DEF f

\* The initial states of the deque are initial states of the log.
LEMMA RefineInit == ASSUME Init PROVE Log!Init
<1>1. TypeOK
  BY InvInit, Zenon DEF IInv
<1>2. start_offset = 0 /\ length = 0 /\ removing = NotRemoving /\ pc = [p \in Pushers |-> "idle"]
  BY Zenon DEF Init
<1>3. End = 0
  BY <1>2 DEF End
<1>4. LogEntry = [i \in Indices |-> "none"]
  <2>1. ASSUME NEW i \in Indices
        PROVE  Entry(i).kind = "none"
    <3>1. ~(i < 0)
      BY BlockDequeAssumption DEF Indices
    <3>2. Entry(i) = None
      BY <1>3, <3>1, Zenon DEF Entry
    <3> QED
      BY <3>2, SlotFacts, Zenon
  <2> QED
    BY <2>1, Zenon DEF LogEntry
<1>5. LogIndex = [p \in Pushers |-> NoIndex]
  <2>1. \A p \in Pushers : ~Unfilled(p)
    BY <1>2, Zenon DEF Unfilled
  <2> QED
    BY <2>1, Zenon DEF LogIndex
<1> QED
  BY <1>2, <1>3, <1>4, <1>5, Zenon
    DEF Log!Init, Log!Indices, Log!NoIndex, Indices, NoIndex, LogEntry, LogIndex, Unfilled

\* Every step of the deque is a step of the log or changes nothing of it.
LEMMA RefineStep ==
  ASSUME TypeOK, TypeOK', DequeOK, [Next]_vars
  PROVE  [Log!Next]_(Log!logVars)
<1>1. ASSUME NEW p \in Pushers, PushStep(p)
      PROVE  \/ Log!Reserve(p) \/ Log!Fill(p) \/ (\E i \in Indices : Log!Replace(i))
             \/ UNCHANGED Log!logVars
  <2>1. CASE PushReserve(p)
    BY <2>1, RefineReserve, Zenon
  <2>2. CASE PushStore(p) \/ PushGrow(p)
    BY <2>2, RefineFill, Zenon
  <2>3. CASE SetValue(p)
    BY <2>3, RefineSet, Zenon
  <2>4. CASE PushMiss(p)
    <3>1. /\ pc[p] = "reserved" /\ pc' = [pc EXCEPT ![p] = "grow"]
          /\ UNCHANGED <<blocks, start_offset, length, index, removing>>
      BY <2>4, Zenon DEF PushMiss
    <3>2. End' = End
      BY <3>1, Zenon DEF End
    <3>3. pc'[p] = "grow" /\ \A q \in Pushers : q # p => pc'[q] = pc[q]
      BY <3>1, PusherTypes, Zenon
    <3>4. \A q \in Pushers : Unfilled(q)' = Unfilled(q) /\ (Unfilled(q) => index'[q] = index[q])
      BY <3>1, <3>3 DEF Unfilled
    <3> QED
      BY <3>1, <3>2, <3>4, RefineQuiet, Zenon
  <2>5. CASE PushPanic(p)
    <3>1. UNCHANGED <<blocks, start_offset, length, pc, index, removing>>
      BY <2>5, Zenon DEF PushPanic, pushVars
    <3>2. End' = End /\ \A q \in Pushers : Unfilled(q)' = Unfilled(q) /\ index'[q] = index[q]
      BY <3>1, Zenon DEF End, Unfilled
    <3> QED
      BY <3>1, <3>2, RefineQuiet, Zenon
  <2> QED
    BY <1>1, <2>1, <2>2, <2>3, <2>4, <2>5, Zenon DEF PushStep
<1>2. ASSUME NEW n \in Indices, RemoveBegin(n)
      PROVE  UNCHANGED Log!logVars
  <2>1. UNCHANGED <<blocks, start_offset, pc, index>>
    BY <1>2, Zenon DEF RemoveBegin, pushVars
  <2>2. End' = End
    BY <1>2, BeginStep, Zenon
  <2>3. \A q \in Pushers : Unfilled(q)' = Unfilled(q) /\ index'[q] = index[q]
    BY <2>1, Zenon DEF Unfilled
  <2> QED
    BY <2>1, <2>2, <2>3, RefineQuiet, Zenon
<1>3. ASSUME \/ RemovePanic \/ UNCHANGED vars
             \/ \E r \in Readers : LatestLength(r) \/ LatestOffset(r) \/ LatestReturn(r)
      PROVE  UNCHANGED Log!logVars
  <2>1. UNCHANGED <<blocks, start_offset, length, pc, index, removing>>
    BY <1>3, Zenon
      DEF RemovePanic, LatestLength, LatestOffset, LatestReturn, vars, pushVars
  <2>2. End' = End /\ \A q \in Pushers : Unfilled(q)' = Unfilled(q) /\ index'[q] = index[q]
    BY <2>1, Zenon DEF End, Unfilled
  <2> QED
    BY <2>1, <2>2, RefineQuiet, Zenon
<1>4. RemoveEnd => \E n \in 0..(MaxIndex + 1) : Log!RemoveBefore(n)
  BY RefineRemove, Zenon
<1>5. Clear => Log!Clear
  BY RefineClear, Zenon
<1>6. Log!Next \/ UNCHANGED Log!logVars
  BY <1>1, <1>2, <1>3, <1>4, <1>5, Zenon DEF Next, Log!Next, Log!Indices, Indices
<1> QED
  BY <1>6, Zenon

\* The block deque implements the atomic log: push, set, remove_before and clear
\* take effect in one step each, whatever the other threads do meanwhile.
THEOREM ImplementsLogCorrect == Spec => ImplementsLog
<1>1. Init => Log!Init
  BY RefineInit
<1>2. IInv /\ IInv' /\ [Next]_vars => [Log!Next]_(Log!logVars)
  BY RefineStep, Zenon DEF IInv, DequeOK
<1>3. Spec => Log!Spec
  BY <1>1, <1>2, Invariance, PTL DEF Spec, Log!Spec
<1> QED
  BY <1>3 DEF ImplementsLog

=============================================================================
