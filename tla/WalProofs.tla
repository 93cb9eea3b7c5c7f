------------------------------ MODULE WalProofs -------------------------------
(***************************************************************************)
(* Proofs about Wal, for any prefixes, any pool of writer threads, both    *)
(* modes and any bounds: the inductive invariant, sequences of records,    *)
(* the types, what a step does to the files, load_wal_dir, the pool of     *)
(* writer threads, the waiters, and the theorems.                          *)
(***************************************************************************)
EXTENDS Wal, TLAPS

-----------------------------------------------------------------------------
(* The inductive invariant.                                                *)

\* The records in S all come before those in T.
Precedes(S, T) == \A x \in S \ {0}, y \in T \ {0} : x < y

\* The records in S are among the first n, and f says that they are of prefix p.
Owned(S, p, n, f) == \A x \in S \ {0} : x \in 1..n /\ f[x] = p

Of(S, p) == Owned(S, p, rev, prefixOf)

\* The threads between the compare_exchange and the store of is_writing.
Writing(t) == pc[t] \in {"batch", "written", "release"}

\* A thread that writes has is_writing to itself.
ExclusionOK ==
  /\ \A t \in Threads : pc[t] # "recv" => on[t] \in Prefixes
  /\ \A t \in Threads : Writing(t) => is_writing[on[t]]
  /\ \A t, u \in Threads : Writing(t) /\ Writing(u) /\ on[t] = on[u] => t = u

\* A batch is empty unless it is being filled or written; it comes between the
\* file and what is still to be taken.
BatchOK(t) ==
  /\ pc[t] \notin {"batch", "written"} => batch[t] = <<>>
  /\ pc[t] = "batch" => /\ InOrder(batch[t]) /\ Of(Range(batch[t]), on[t])
                        /\ Precedes(Range(file[on[t]]), Range(batch[t]))
                        /\ Precedes(Range(batch[t]), Range(to_write[on[t]]))
  /\ pc[t] = "written" => /\ Of(Range(batch[t]), on[t])
                          /\ Range(batch[t]) \subseteq Range(file[on[t]])

QueueOK(p) ==
  /\ InOrder(to_write[p]) /\ Of(Range(to_write[p]), p)
  /\ Precedes(Range(file[p]), Range(to_write[p]))

\* Record r of prefix p is taken and not yet written.
Taken(p, r) == \E t \in Threads : pc[t] = "batch" /\ on[t] = p /\ r \in Range(batch[t])

\* Every record of a prefix whose writes all succeeded is in one of the three
\* places.
CoverOK(p) ==
  p \in Sound => \A r \in 1..rev :
    prefixOf[r] = p => \/ r \in Range(file[p]) \/ r \in Range(to_write[p])
                       \/ Taken(p, r)

PoolOK ==
  up = "up" =>
    /\ ExclusionOK
    /\ \A t \in Threads : BatchOK(t)
    /\ \A p \in Prefixes : QueueOK(p) /\ CoverOK(p)
    /\ appending => rev > 0 /\ prefixOf[rev] \in Prefixes

\* The records of a file are its own, in order; without a failure none of the
\* earlier ones is missing and no fragment is among them.
FileOK(p) ==
  /\ InOrder(file[p]) /\ Of(Range(file[p]), p)
  /\ p \in Sound =>
       /\ 0 \notin Range(file[p])
       /\ \A x \in Range(file[p]), q \in 1..rev :
            q <= x /\ prefixOf[q] = p => q \in Range(file[p])

\* What was acknowledged in Sync mode was fsynced first.
AckedOK ==
  /\ acked \subseteq 1..rev
  /\ Sync => \A r \in acked : prefixOf[r] \in Sound =>
               \E i \in 1..durable[prefixOf[r]] : file[prefixOf[r]][i] = r

\* The replay has passed on what is behind pos, and nothing that comes after
\* what is still ahead of it.
LoadOK ==
  /\ up \in {"up", "down"} => replayed = <<>>
  /\ InOrder(replayed)
  /\ \A x \in Range(replayed) \ {0} :
       prefixOf[x] \in Prefixes /\ x \in Range(file[prefixOf[x]])
  /\ up \in {"loading", "loaded"} => \A p \in Prefixes :
       /\ pos[p] <= Len(file[p])
       /\ \A x \in Range(replayed) \ {0}, j \in (pos[p] + 1)..Len(file[p]) :
            (\A m \in (pos[p] + 1)..j : file[p][m] # 0) => x < file[p][j]
       /\ p \in Sound => \A i \in 1..pos[p] : file[p][i] \in Range(replayed)
       /\ up = "loaded" => pos[p] = Len(file[p])

IInv ==
  /\ TypeOK
  /\ PoolOK
  /\ \A p \in Prefixes : FileOK(p)
  /\ AckedOK
  /\ LoadOK

-----------------------------------------------------------------------------
(* Sequences of records.                                                   *)

\* Records and fragments are numbers.
LEMMA RecordsNat == Revisions \cup {0} \subseteq Nat
  BY WalAssumption DEF Revisions

\* What is in a sequence.
LEMMA RangeIs ==
  ASSUME NEW S, NEW s \in Seq(S)
  PROVE  /\ Range(s) \subseteq S
         /\ \A x : x \in Range(s) <=> \E i \in 1..Len(s) : s[i] = x
  BY DEF Range

\* Nothing is in the empty one, which is in order.
LEMMA EmptyFacts == Range(<<>>) = {} /\ InOrder(<<>>) /\ Len(<<>>) = 0
  BY DEF Range, InOrder

\* A record added to a sequence.
LEMMA AppendRange ==
  ASSUME NEW S, NEW s \in Seq(S), NEW e \in S
  PROVE  Range(Append(s, e)) = Range(s) \cup {e}
<1> DEFINE u == Append(s, e)
<1>1. /\ u \in Seq(S) /\ Len(s) \in Nat /\ Len(u) = Len(s) + 1
      /\ \A i \in 1..Len(s) : u[i] = s[i]
      /\ u[Len(s) + 1] = e
  OBVIOUS
<1> HIDE DEF u
<1>2. \A i \in 1..Len(u) : i \in 1..Len(s) \/ i = Len(s) + 1
  BY <1>1
<1>3. \A i \in 1..Len(s) : i \in 1..Len(u)
  BY <1>1
<1>4. Len(s) + 1 \in 1..Len(u)
  BY <1>1
<1>5. \A x : x \in Range(u) <=> x \in Range(s) \cup {e}
  BY <1>1, <1>2, <1>3, <1>4, RangeIs
<1> QED
  BY <1>5 DEF u

\* It stays in order when the record comes after all the others.
LEMMA AppendOrder ==
  ASSUME NEW S, NEW s \in Seq(S), NEW e \in S, InOrder(s), Precedes(Range(s), {e})
  PROVE  InOrder(Append(s, e))
<1> DEFINE u == Append(s, e)
<1>1. /\ Len(s) \in Nat /\ Len(u) = Len(s) + 1 /\ u[Len(s) + 1] = e
      /\ \A i \in 1..Len(s) : u[i] = s[i]
  OBVIOUS
<1> HIDE DEF u
<1>2. ASSUME NEW i \in 1..Len(u), NEW j \in 1..Len(u), i < j, u[i] # 0, u[j] # 0
      PROVE  u[i] < u[j]
  <2>1. i \in 1..Len(s) /\ s[i] \in Range(s) /\ (j \in 1..Len(s) \/ j = Len(s) + 1)
    BY <1>1, <1>2, RangeIs
  <2> QED
    BY <1>1, <1>2, <2>1 DEF InOrder, Precedes
<1> QED
  BY <1>2, Zenon DEF InOrder, u

\* The first record taken from a sequence.
LEMMA TailFacts ==
  ASSUME NEW S, NEW s \in Seq(S), s # <<>>
  PROVE  /\ Head(s) \in S /\ Tail(s) \in Seq(S)
         /\ Range(s) = {Head(s)} \cup Range(Tail(s))
         /\ InOrder(s) => InOrder(Tail(s))
         /\ InOrder(s) => Precedes({Head(s)}, Range(Tail(s)))
<1> DEFINE u == Tail(s)
<1>1. /\ Head(s) \in S /\ Head(s) = s[1] /\ u \in Seq(S)
      /\ Len(s) \in Nat /\ Len(s) > 0 /\ Len(u) = Len(s) - 1
      /\ \A i \in 1..Len(u) : u[i] = s[i + 1]
  <2>1. Head(s) = s[1] /\ Len(s) \in Nat
    OBVIOUS
  <2>2. Len(s) > 0
    BY <2>1
  <2> QED
    BY <2>1, <2>2
<1> HIDE DEF u
<1>2. \A i \in 1..Len(u) : i + 1 \in 1..Len(s) /\ u[i] = s[i + 1]
  BY <1>1
<1>3. \A i \in 1..Len(s) : i = 1 \/ (i - 1 \in 1..Len(u) /\ u[i - 1] = s[i])
  BY <1>1
<1>4. 1 \in 1..Len(s)
  BY <1>1
<1>5. \A x : x \in Range(s) <=> x \in {Head(s)} \cup Range(u)
  <2>1. ASSUME NEW x \in Range(s)
        PROVE  x \in {Head(s)} \cup Range(u)
    <3>1. PICK i \in 1..Len(s) : s[i] = x
      BY RangeIs
    <3> QED
      BY <1>1, <1>3, <3>1, RangeIs, Zenon, SMT
  <2>2. ASSUME NEW x \in Range(u)
        PROVE  x \in Range(s)
    <3>1. PICK i \in 1..Len(u) : u[i] = x
      BY <1>1, RangeIs
    <3> QED
      BY <1>2, <3>1, RangeIs
  <2>3. Head(s) \in Range(s)
    BY <1>1, <1>4, RangeIs
  <2> QED
    BY <2>1, <2>2, <2>3
<1>6. ASSUME InOrder(s), NEW i \in 1..Len(u), NEW j \in 1..Len(u), i < j, u[i] # 0, u[j] # 0
      PROVE  u[i] < u[j]
  <2>1. i + 1 \in 1..Len(s) /\ j + 1 \in 1..Len(s) /\ i + 1 < j + 1
    BY <1>1, <1>6
  <2> QED
    BY <1>2, <1>6, <2>1, Zenon DEF InOrder
<1>7. ASSUME InOrder(s), Head(s) # 0, NEW y \in Range(u), y # 0
      PROVE  Head(s) < y
  <2>1. PICK i \in 1..Len(u) : u[i] = y
    BY <1>1, RangeIs
  <2>2. i + 1 \in 1..Len(s) /\ 1 < i + 1 /\ s[i + 1] = y
    BY <1>1, <1>2, <2>1
  <2> QED
    BY <1>1, <1>4, <1>7, <2>2 DEF InOrder
<1> QED
  BY <1>1, <1>5, <1>6, <1>7, Zenon DEF InOrder, Precedes, u

\* A fragment, or none.
LEMMA FragmentFacts ==
  ASSUME NEW rest \in {<<>>, << 0 >>}
  PROVE  /\ rest \in Seq(Revisions \cup {0}) /\ Range(rest) \subseteq {0}
         /\ InOrder(rest)
<1>1. CASE rest = <<>>
  BY <1>1, EmptyFacts
<1>2. CASE rest = << 0 >>
  <2>1. rest \in Seq(Revisions \cup {0}) /\ Len(rest) = 1 /\ rest[1] = 0
    BY <1>2
  <2>2. Range(rest) \subseteq {0}
    BY <2>1, RangeIs
  <2>3. InOrder(rest)
    BY <2>1 DEF InOrder
  <2> QED
    BY <2>1, <2>2, <2>3
<1> QED
  BY <1>1, <1>2

\* A batch written at the end of a file.
LEMMA ConcatFacts ==
  ASSUME NEW S, NEW s \in Seq(S), NEW u \in Seq(S)
  PROVE  /\ s \o u \in Seq(S) /\ Len(s) \in Nat /\ Len(s \o u) \in Nat
         /\ Len(s \o u) = Len(s) + Len(u) /\ Len(s \o u) >= Len(s)
         /\ \A i \in 1..Len(s) : (s \o u)[i] = s[i]
         /\ Range(s \o u) = Range(s) \cup Range(u)
         /\ InOrder(s) /\ InOrder(u) /\ Precedes(Range(s), Range(u)) => InOrder(s \o u)
<1> DEFINE w == s \o u
<1>1. /\ w \in Seq(S) /\ Len(s) \in Nat /\ Len(u) \in Nat /\ Len(w) = Len(s) + Len(u)
      /\ \A i \in 1..Len(w) : w[i] = IF i <= Len(s) THEN s[i] ELSE u[i - Len(s)]
  OBVIOUS
<1> HIDE DEF w
<1>2. Range(w) = Range(s) \cup Range(u)
  <2>1. \A i \in 1..Len(w) :
          \/ i \in 1..Len(s) /\ w[i] = s[i]
          \/ i - Len(s) \in 1..Len(u) /\ w[i] = u[i - Len(s)]
    BY <1>1
  <2>2. \A i \in 1..Len(s) : i \in 1..Len(w) /\ w[i] = s[i]
    BY <1>1
  <2>2a. ASSUME NEW i \in 1..Len(u)
         PROVE  i + Len(s) \in 1..Len(w) /\ w[i + Len(s)] = u[i]
    <3>1. PICK j \in 1..Len(w) : j = i + Len(s)
      BY <1>1
    <3>2. ~(j <= Len(s)) /\ j - Len(s) = i
      BY <1>1, <3>1
    <3> QED
      BY <1>1, <3>1, <3>2, Zenon
  <2>3. ASSUME NEW x
        PROVE  x \in Range(w) <=> x \in Range(s) \/ x \in Range(u)
    <3>1. /\ x \in Range(w) <=> \E i \in 1..Len(w) : w[i] = x
          /\ x \in Range(s) <=> \E i \in 1..Len(s) : s[i] = x
          /\ x \in Range(u) <=> \E i \in 1..Len(u) : u[i] = x
      BY <1>1, RangeIs, Zenon, SMT
    <3> QED
      BY <2>1, <2>2, <2>2a, <3>1, Zenon, SMT
  <2> QED
    BY <2>3
<1>3. ASSUME InOrder(s), InOrder(u), Precedes(Range(s), Range(u)),
             NEW i \in 1..Len(w), NEW j \in 1..Len(w), i < j, w[i] # 0, w[j] # 0
      PROVE  w[i] < w[j]
  <2>1. CASE j <= Len(s)
    <3>1. i \in 1..Len(s) /\ j \in 1..Len(s) /\ w[i] = s[i] /\ w[j] = s[j]
      BY <1>1, <1>3, <2>1
    <3> QED
      BY <1>3, <3>1, Zenon DEF InOrder
  <2>2. CASE i > Len(s)
    <3>1. /\ i - Len(s) \in 1..Len(u) /\ j - Len(s) \in 1..Len(u) /\ i - Len(s) < j - Len(s)
          /\ w[i] = u[i - Len(s)] /\ w[j] = u[j - Len(s)]
      BY <1>1, <1>3, <2>2
    <3> QED
      BY <1>3, <3>1, Zenon DEF InOrder
  <2>3. CASE i <= Len(s) /\ j > Len(s)
    <3>1. /\ i \in 1..Len(s) /\ j - Len(s) \in 1..Len(u)
          /\ w[i] = s[i] /\ w[j] = u[j - Len(s)]
      BY <1>1, <1>3, <2>3
    <3>2. s[i] \in Range(s) /\ u[j - Len(s)] \in Range(u)
      BY <3>1, RangeIs, Zenon
    <3> QED
      BY <1>3, <3>1, <3>2, Zenon DEF Precedes
  <2> QED
    BY <1>1, <2>1, <2>2, <2>3
<1>4. Len(w) \in Nat /\ Len(w) >= Len(s) /\ \A i \in 1..Len(s) : w[i] = s[i]
  BY <1>1
<1> QED
  BY <1>1, <1>2, <1>3, <1>4, Zenon DEF InOrder, w

\* Records written on to a file that they continue.
LEMMA WrittenOn ==
  ASSUME NEW s \in Seq(Revisions \cup {0}), NEW u \in Seq(Revisions \cup {0}),
         InOrder(s), InOrder(u), Precedes(Range(s), Range(u))
  PROVE  /\ s \o u \in Seq(Revisions \cup {0}) /\ Len(s \o u) \in Nat
         /\ Len(s \o u) >= Len(s)
         /\ \A i \in 1..Len(s) : (s \o u)[i] = s[i]
         /\ Range(s \o u) = Range(s) \cup Range(u)
         /\ InOrder(s \o u)
  BY ConcatFacts

\* A file cut after n records.
LEMMA CutFacts ==
  ASSUME NEW S, NEW s \in Seq(S), NEW n \in 0..Len(s)
  PROVE  /\ SubSeq(s, 1, n) \in Seq(S) /\ Len(SubSeq(s, 1, n)) = n
         /\ \A i \in 1..n : SubSeq(s, 1, n)[i] = s[i]
         /\ Range(SubSeq(s, 1, n)) \subseteq Range(s)
         /\ InOrder(s) => InOrder(SubSeq(s, 1, n))
<1> DEFINE u == SubSeq(s, 1, n)
<1>0. Len(s) \in Nat /\ n \in Nat
  OBVIOUS
<1>1. \A i \in 1..n : i \in 1..Len(s) /\ s[i] \in S
  BY <1>0
<1>2. /\ u \in Seq(S) /\ Len(u) = (IF 1 <= n THEN n - 1 + 1 ELSE 0)
      /\ \A i \in 1..(n - 1 + 1) : u[i] = s[1 + i - 1]
  BY <1>0, <1>1
<1> HIDE DEF u
<1>3. Len(u) = n /\ \A i \in 1..n : u[i] = s[i]
  BY <1>0, <1>2
<1>4. Range(u) \subseteq Range(s)
  BY <1>1, <1>2, <1>3, RangeIs
<1> QED
  BY <1>1, <1>2, <1>3, <1>4 DEF InOrder, u

-----------------------------------------------------------------------------
(* The types.                                                              *)

\* What is known of the variables, one by one.
LEMMA Types ==
  ASSUME TypeOK
  PROVE  /\ rev \in Nat /\ rev <= MaxRev /\ MaxRev \in Nat
         /\ \A p \in Prefixes :
              /\ to_write[p] \in Seq(Revisions) /\ file[p] \in Seq(Revisions \cup {0})
              /\ Len(file[p]) \in Nat /\ durable[p] \in Nat /\ durable[p] <= Len(file[p])
              /\ pos[p] \in Nat
         /\ \A t \in Threads : batch[t] \in Seq(Revisions)
         /\ replayed \in Seq(Revisions \cup {0})
         /\ rev < MaxRev => NextRev \in Revisions /\ NextRev \in Nat
  BY WalAssumption DEF TypeOK, Revisions, NextRev

\* The thread of a step serves a prefix.
LEMMA ServedFacts ==
  ASSUME IInv, up = "up", NEW t \in Threads, pc[t] # "recv"
  PROVE  on[t] \in Prefixes
  BY DEF IInv, PoolOK, ExclusionOK

\* Every variable starts within its type.
LEMMA TypeInit == ASSUME Init PROVE TypeOK
<1>1. <<>> \in Seq(Revisions) /\ <<>> \in Seq(Revisions \cup {0}) /\ <<>> \in Seq(Prefixes)
  OBVIOUS
<1>2. Len(<<>>) = 0
  OBVIOUS
<1>3. /\ file \in [Prefixes -> Seq(Revisions \cup {0})] /\ durable \in [Prefixes -> Nat]
      /\ \A p \in Prefixes : durable[p] <= Len(file[p])
  BY <1>1, <1>2 DEF Init
<1>4. is_writing \in [Prefixes -> BOOLEAN] /\ appending \in BOOLEAN
  BY Zenon DEF Init
<1>5. /\ to_write \in [Prefixes -> Seq(Revisions)] /\ batch \in [Threads -> Seq(Revisions)]
      /\ work \in Seq(Prefixes) /\ failures \in Seq(Prefixes)
      /\ replayed \in Seq(Revisions \cup {0})
  BY <1>1 DEF Init
<1>6. /\ up = "up" /\ rev \in 0..MaxRev /\ prefixOf \in [Revisions -> Prefixes \cup {"none"}]
      /\ pc \in [Threads -> {"recv"}] /\ on \in [Threads -> Prefixes \cup {"none"}]
      /\ torn \in [Prefixes -> {"no"}] /\ acked = {} /\ pos \in [Prefixes -> Nat]
  BY WalAssumption DEF Init
<1> QED
  BY <1>3, <1>4, <1>5, <1>6 DEF TypeOK

\* No step of append, of the pool, of the crash or of load_wal_dir leaves the
\* types; a file never gets shorter than what was fsynced.
LEMMA TypeStep == ASSUME IInv, [Next]_vars PROVE TypeOK'
<1> USE DEF appendVars, poolVars, diskVars, loadVars
<1>0. TypeOK
  BY DEF IInv
<1>1. ASSUME NEW p \in Prefixes, AppendSkipped(p)
      PROVE  TypeOK'
  <2>1. NextRev \in Revisions /\ rev' \in 0..MaxRev
    BY <1>0, <1>1, Types DEF AppendSkipped, Revisions
  <2> QED
    BY <1>0, <1>1, <2>1, Zenon DEF AppendSkipped, TypeOK
<1>2. ASSUME NEW p \in Prefixes, AppendRecord(p)
      PROVE  TypeOK'
  <2>1. NextRev \in Revisions /\ rev' \in 0..MaxRev
    BY <1>0, <1>2, Types DEF AppendRecord, Revisions
  <2>2. Append(to_write[p], NextRev) \in Seq(Revisions)
    BY <1>0, <2>1, Types
  <2> QED
    BY <1>0, <1>2, <2>1, <2>2, Zenon DEF AppendRecord, TypeOK
<1>3. CASE AppendWork
  <2>1. prefixOf[rev] \in Prefixes
    BY <1>3, Zenon DEF IInv, PoolOK, AppendWork
  <2>2. Append(work, prefixOf[rev]) \in Seq(Prefixes)
    BY <1>0, <2>1 DEF TypeOK
  <2> QED
    BY <1>0, <1>3, <2>2, Zenon, SMT DEF AppendWork, TypeOK
<1>4. ASSUME NEW t \in Threads, RecvWork(t)
      PROVE  TypeOK'
  <2>1. Head(work) \in Prefixes /\ Tail(work) \in Seq(Prefixes)
    BY <1>0, <1>4 DEF RecvWork, TypeOK
  <2> QED
    BY <1>0, <1>4, <2>1, Zenon, SMT DEF RecvWork, TypeOK
<1>5. ASSUME NEW t \in Threads, Claim(t)
      PROVE  TypeOK'
  BY <1>0, <1>5, Zenon, SMT DEF Claim, TypeOK
<1>6. ASSUME NEW t \in Threads, TakeRecord(t)
      PROVE  TypeOK'
  <2>1. on[t] \in Prefixes /\ to_write[on[t]] \in Seq(Revisions) /\ batch[t] \in Seq(Revisions)
    BY <1>0, <1>6, ServedFacts, Types, Zenon DEF TakeRecord
  <2>2. /\ Tail(to_write[on[t]]) \in Seq(Revisions)
        /\ Append(batch[t], Head(to_write[on[t]])) \in Seq(Revisions)
    BY <1>6, <2>1 DEF TakeRecord
  <2> QED
    BY <1>0, <1>6, <2>2, Zenon, SMT DEF TakeRecord, TypeOK
<1>7. ASSUME NEW t \in Threads, NEW p \in Prefixes, NEW s \in Seq(Revisions \cup {0}),
             p = on[t], file' = [file EXCEPT ![on[t]] = s], Len(s) >= Len(file[p])
      PROVE  /\ file' \in [Prefixes -> Seq(Revisions \cup {0})]
             /\ \A q \in Prefixes : durable[q] <= Len(file'[q])
  <2>1. Len(s) \in Nat
    OBVIOUS
  <2>2. file' \in [Prefixes -> Seq(Revisions \cup {0})]
    BY <1>0, <1>7, Zenon DEF TypeOK
  <2>3. ASSUME NEW q \in Prefixes
        PROVE  durable[q] <= Len(file'[q])
    <3>1. file'[q] = IF q = p THEN s ELSE file[q]
      BY <1>0, <1>7, Zenon DEF TypeOK
    <3>2. durable[q] \in Nat /\ Len(file[q]) \in Nat /\ durable[q] <= Len(file[q])
      BY <1>0, Types
    <3> QED
      BY <1>7, <2>1, <3>1, <3>2
  <2> QED
    BY <2>2, <2>3
<1>8. ASSUME NEW t \in Threads, WriteBatch(t)
      PROVE  TypeOK'
  <2>1. PICK p \in Prefixes : p = on[t]
    BY <1>8, ServedFacts, Zenon DEF WriteBatch
  <2>2. file[p] \in Seq(Revisions \cup {0}) /\ batch[t] \in Seq(Revisions \cup {0})
    BY <1>0, Types
  <2>3. file[p] \o batch[t] \in Seq(Revisions \cup {0}) /\ Len(file[p] \o batch[t]) >= Len(file[p])
    BY <2>2, ConcatFacts, Zenon, SMT
  <2>4. file' = [file EXCEPT ![on[t]] = file[p] \o batch[t]]
    BY <1>8, <2>1, Zenon DEF WriteBatch
  <2>5. /\ file' \in [Prefixes -> Seq(Revisions \cup {0})]
        /\ \A q \in Prefixes : durable[q] <= Len(file'[q])
    BY <1>7, <2>1, <2>3, <2>4, Zenon, SMT
  <2> QED
    BY <1>0, <1>8, <2>5, Zenon, SMT DEF WriteBatch, TypeOK
<1>9. ASSUME NEW t \in Threads, WriteFails(t)
      PROVE  TypeOK'
  <2>1. PICK p \in Prefixes : p = on[t]
    BY <1>9, ServedFacts, Zenon DEF WriteFails
  <2>2. file[p] \in Seq(Revisions \cup {0}) /\ batch[t] \in Seq(Revisions \cup {0})
    BY <1>0, Types, SMT, Z3
  <2>3. PICK n \in 0..Len(batch[t]) - 1, rest \in {<<>>, << 0 >>} :
          file' = [file EXCEPT ![on[t]] = file[p] \o SubSeq(batch[t], 1, n) \o rest]
    BY <1>9, <2>1, Zenon, SMT DEF WriteFails
  <2>4. /\ SubSeq(batch[t], 1, n) \in Seq(Revisions \cup {0})
        /\ rest \in Seq(Revisions \cup {0})
    <3>1. n \in 0..Len(batch[t])
      BY <2>2
    <3>2. rest \in Seq(Revisions \cup {0})
      BY <2>3, FragmentFacts, Zenon, SMT
    <3> QED
      BY <2>2, <3>1, <3>2, CutFacts
  <2> DEFINE u == file[p] \o SubSeq(batch[t], 1, n)
  <2>5. u \o rest \in Seq(Revisions \cup {0}) /\ Len(u \o rest) >= Len(file[p])
    <3>1. u \in Seq(Revisions \cup {0}) /\ Len(u) >= Len(file[p])
      BY <2>2, <2>4, ConcatFacts, Zenon, SMT
    <3> HIDE DEF u
    <3>2. /\ u \o rest \in Seq(Revisions \cup {0}) /\ Len(u \o rest) >= Len(u)
          /\ Len(u) \in Nat /\ Len(u \o rest) \in Nat
      BY <2>4, <3>1, ConcatFacts
    <3>3. Len(file[p]) \in Nat
      BY <2>2
    <3> QED
      BY <3>1, <3>2, <3>3
  <2>6. /\ file' \in [Prefixes -> Seq(Revisions \cup {0})]
        /\ \A q \in Prefixes : durable[q] <= Len(file'[q])
    BY <1>7, <2>1, <2>3, <2>5, Zenon, SMT
  <2>7. Range(batch[t]) \subseteq Revisions /\ <<>> \in Seq(Revisions)
    BY <1>0, Types, RangeIs
  <2>8. Append(failures, on[t]) \in Seq(Prefixes)
    BY <1>0, <2>1 DEF TypeOK
  <2> QED
    BY <1>0, <1>9, <2>6, <2>7, <2>8, Zenon, SMT DEF WriteFails, TypeOK
<1>10. ASSUME NEW t \in Threads, SyncAndNotify(t)
       PROVE  TypeOK'
  <2>1. on[t] \in Prefixes
    BY <1>10, ServedFacts, Zenon DEF SyncAndNotify
  <2>2. Synced(t) \in Nat /\ Synced(t) <= Len(file[on[t]])
    BY <1>0, <2>1, Types DEF Synced
  <2>3. Append(failures, on[t]) \in Seq(Prefixes)
    BY <1>0, <2>1 DEF TypeOK
  <2>4. Range(batch[t]) \subseteq Revisions /\ <<>> \in Seq(Revisions)
    BY <1>0, Types, RangeIs
  <2>5. failures' \in Seq(Prefixes)
    BY <1>0, <1>10, <2>3, Zenon, SMT DEF SyncAndNotify, TypeOK
  <2>6. durable' \in [Prefixes -> Nat] /\ \A q \in Prefixes : durable'[q] <= Len(file[q])
    BY <1>0, <1>10, <2>2, Zenon, SMT DEF SyncAndNotify, TypeOK
  <2> QED
    BY <1>0, <1>10, <2>4, <2>5, <2>6, Zenon, SMT DEF SyncAndNotify, TypeOK
<1>11. ASSUME NEW t \in Threads, Release(t)
       PROVE  TypeOK'
  BY <1>0, <1>11, Zenon, SMT DEF Release, TypeOK
<1>12. ASSUME NEW t \in Threads, Recheck(t)
       PROVE  TypeOK'
  <2>1. on[t] \in Prefixes
    BY <1>12, ServedFacts DEF Recheck
  <2>2. Append(work, on[t]) \in Seq(Prefixes)
    BY <1>0, <2>1 DEF TypeOK
  <2> QED
    BY <1>0, <1>12, <2>2, Zenon DEF Recheck, TypeOK
<1>13. CASE Crash
  <2>1. PICK cut \in [Prefixes -> 0..MaxRev + MaxFailures],
             end \in [Prefixes -> {"no", "header", "body"}] :
          /\ \A p \in Prefixes : durable[p] <= cut[p] /\ cut[p] <= Len(file[p])
          /\ file' = [p \in Prefixes |-> SubSeq(file[p], 1, cut[p])]
          /\ torn' = end
    BY <1>13, Zenon, SMT DEF Crash
  <2>2. ASSUME NEW p \in Prefixes
        PROVE  /\ SubSeq(file[p], 1, cut[p]) \in Seq(Revisions \cup {0})
               /\ durable[p] <= Len(SubSeq(file[p], 1, cut[p]))
    <3>1. cut[p] \in 0..Len(file[p]) /\ file[p] \in Seq(Revisions \cup {0})
      BY <1>0, <2>1, Types, WalAssumption
    <3> QED
      BY <2>1, <3>1, CutFacts
  <2>3. /\ file' \in [Prefixes -> Seq(Revisions \cup {0})]
        /\ \A p \in Prefixes : durable[p] <= Len(file'[p])
    BY <2>1, <2>2
  <2>4. <<>> \in Seq(Revisions) /\ <<>> \in Seq(Prefixes)
    OBVIOUS
  <2> QED
    BY <1>0, <1>13, <2>1, <2>3, <2>4, Zenon, SMT DEF Crash, TypeOK
<1>14. CASE LoadBegin
  <2>1. \A p \in Prefixes, x \in {"record", "end", "error"} : Position(p, 0, x) \in Nat
    BY <1>0, Types DEF Position
  <2>2. up' \in {"failed", "loading"} /\ pos' \in [Prefixes -> Nat]
    BY <1>14, <2>1 DEF LoadBegin
  <2> QED
    BY <1>0, <1>14, <2>2, Zenon DEF LoadBegin, TypeOK
<1>15. ASSUME NEW p \in Prefixes, LoadNext(p)
       PROVE  TypeOK'
  <2>1. file[p][pos[p] + 1] \in Revisions \cup {0}
    <3>1. pos[p] + 1 \in 1..Len(file[p]) /\ file[p] \in Seq(Revisions \cup {0})
      BY <1>0, <1>15, Types, SMT, Z3 DEF LoadNext, IsLeast
    <3> QED
      BY <3>1
  <2>2. replayed' \in Seq(Revisions \cup {0})
    BY <1>0, <1>15, <2>1, Types DEF LoadNext
  <2>3. \A x : Position(p, pos[p] + 1, x) \in Nat
    BY <1>0, Types DEF Position
  <2>4. up' \in {"failed", "loading"} /\ pos' \in [Prefixes -> Nat]
    BY <1>0, <1>15, <2>3 DEF LoadNext, TypeOK
  <2> QED
    BY <1>0, <1>15, <2>2, <2>4, Zenon DEF LoadNext, TypeOK
<1>16. CASE LoadEnd
  BY <1>0, <1>16, Zenon, SMT DEF LoadEnd, TypeOK
<1>17. CASE UNCHANGED vars
  BY <1>0, <1>17, Zenon DEF vars, TypeOK
<1> QED
  BY <1>1, <1>2, <1>3, <1>4, <1>5, <1>6, <1>8, <1>9, <1>10, <1>11, <1>12, <1>13, <1>14, <1>15,
     <1>16, <1>17 DEF Next, ThreadStep

-----------------------------------------------------------------------------
(* What no step takes back.                                                *)

\* A prefix of which a write or an fsync failed stays one.
LEMMA SoundStep == ASSUME IInv, [Next]_vars PROVE Sound' \subseteq Sound
<1> USE DEF appendVars, poolVars, diskVars, loadVars
<1>0. failures \in Seq(Prefixes)
  BY DEF IInv, TypeOK
<1>1. ASSUME NEW t \in Threads, WriteFails(t) \/ SyncAndNotify(t), failures' # failures
      PROVE  Range(failures') = Range(failures) \cup {on[t]}
  <2>1. PICK p \in Prefixes : p = on[t] /\ failures' = Append(failures, p)
    BY <1>1, ServedFacts, Zenon, SMT DEF WriteFails, SyncAndNotify
  <2>2. Range(Append(failures, p)) = Range(failures) \cup {p}
    BY <1>0, AppendRange, SMT, Z3
  <2> QED
    BY <2>1, <2>2
<1>2. failures' = failures \/ Range(failures) \subseteq Range(failures')
  BY <1>1, Zenon, SMT
  DEF Next, vars, ThreadStep, AppendSkipped, AppendRecord, AppendWork, RecvWork, Claim,
       TakeRecord, WriteBatch, Release, Recheck, Crash, LoadBegin, LoadNext, LoadEnd
<1> QED
  BY <1>2 DEF Sound

\* The prefix of a failed write is not sound.
LEMMA FailedUnsound ==
  ASSUME IInv, NEW t \in Threads, WriteFails(t)
  PROVE  on[t] \notin Sound'
<1>1. PICK p \in Prefixes : p = on[t] /\ failures' = Append(failures, p)
  BY ServedFacts, Zenon, SMT DEF WriteFails
<1>2. Range(Append(failures, p)) = Range(failures) \cup {p}
  BY AppendRange DEF IInv, TypeOK
<1> QED
  BY <1>1, <1>2 DEF Sound

\* The revisions handed out stay what they are: rev grows and the prefix of a
\* revision is set once.
LEMMA RevStep ==
  ASSUME IInv, [Next]_vars
  PROVE  /\ rev' \in Nat /\ rev \in Nat /\ rev <= rev'
         /\ \A x \in 1..rev : prefixOf'[x] = prefixOf[x]
<1> USE DEF appendVars, poolVars, diskVars, loadVars
<1>0. TypeOK /\ TypeOK'
  BY TypeStep DEF IInv
<1>1. ASSUME NEW p \in Prefixes, AppendSkipped(p) \/ AppendRecord(p)
      PROVE  /\ rev <= rev'
             /\ \A x \in 1..rev : prefixOf'[x] = prefixOf[x]
  <2>1. rev' = rev + 1 /\ prefixOf' = [prefixOf EXCEPT ![rev + 1] = p]
    BY <1>1, Zenon, SMT DEF AppendSkipped, AppendRecord, NextRev
  <2>2. \A x \in 1..rev : x \in Revisions /\ x # rev + 1
    BY <1>0, Types, SMT, Z3 DEF Revisions
  <2> QED
    BY <1>0, <2>1, <2>2, Types DEF TypeOK
<1>2. \/ rev' = rev /\ prefixOf' = prefixOf
      \/ \E p \in Prefixes : AppendSkipped(p) \/ AppendRecord(p)
  BY Zenon, SMT DEF Next, vars, ThreadStep, AppendWork, RecvWork, Claim, TakeRecord, WriteBatch,
       WriteFails, SyncAndNotify, Release, Recheck, Crash, LoadBegin, LoadNext, LoadEnd
<1>3. rev \in Nat /\ rev' \in Nat
  BY <1>0, WalAssumption DEF TypeOK
<1> QED
  BY <1>1, <1>2, <1>3

\* Records of a prefix stay records of that prefix.
LEMMA OwnedStep ==
  ASSUME IInv, [Next]_vars, NEW S, NEW p, Owned(S, p, rev, prefixOf)
  PROVE  Owned(S, p, rev', prefixOf')
  BY RevStep DEF Owned

\* Fewer of them, and a fragment among them.
LEMMA OwnedSubset ==
  ASSUME NEW S, NEW T, NEW p, NEW n, NEW f, Owned(S, p, n, f), T \subseteq S \cup {0}
  PROVE  Owned(T, p, n, f)
  BY DEF Owned

\* What write does to a file, whether it fails or not: what was in the file
\* stays where it was, and a part of the batch and at most a fragment follow.
LEMMA WriteFacts ==
  ASSUME IInv, NEW t \in Threads, WriteBatch(t) \/ WriteFails(t), NEW p \in Prefixes, p = on[t]
  PROVE  /\ pc[t] = "batch" /\ up = "up"
         /\ \A q \in Prefixes \ {p} : file'[q] = file[q]
         /\ Len(file'[p]) >= Len(file[p])
         /\ \A i \in 1..Len(file[p]) : file'[p][i] = file[p][i]
         /\ InOrder(file'[p])
         /\ Range(file'[p]) \subseteq Range(file[p]) \cup Range(batch[t]) \cup {0}
         /\ WriteBatch(t) => Range(file'[p]) = Range(file[p]) \cup Range(batch[t])
<1>1. pc[t] = "batch" /\ up = "up" /\ file \in [Prefixes -> Seq(Revisions \cup {0})]
  BY Zenon DEF WriteBatch, WriteFails, IInv, TypeOK
<1>2. /\ file[p] \in Seq(Revisions \cup {0}) /\ batch[t] \in Seq(Revisions \cup {0})
      /\ Len(file[p]) \in Nat /\ Len(batch[t]) \in Nat
  BY Types, SMT, Z3 DEF IInv
<1>3. /\ InOrder(file[p]) /\ InOrder(batch[t]) /\ Precedes(Range(file[p]), Range(batch[t]))
  BY <1>1, Zenon DEF IInv, FileOK, PoolOK, BatchOK
<1>4. CASE WriteBatch(t)
  <2>1. file' = [file EXCEPT ![p] = file[p] \o batch[t]]
    BY <1>4, Zenon DEF WriteBatch
  <2>2. file'[p] = file[p] \o batch[t] /\ \A q \in Prefixes \ {p} : file'[q] = file[q]
    BY <1>1, <2>1, Zenon, SMT
  <2> DEFINE b == batch[t]
             w == file[p] \o b
  <2> HIDE DEF b
  <2>3. /\ Len(w) >= Len(file[p]) /\ \A i \in 1..Len(file[p]) : w[i] = file[p][i]
        /\ Range(w) = Range(file[p]) \cup Range(b) /\ InOrder(w)
    <3>1. /\ b \in Seq(Revisions \cup {0}) /\ InOrder(b)
          /\ Precedes(Range(file[p]), Range(b))
      BY <1>2, <1>3, Zenon DEF b
    <3> QED
      BY <1>2, <1>3, <3>1, WrittenOn, Zenon
  <2> USE DEF b
  <2> HIDE DEF w
  <2>4. file'[p] = w
    BY <2>2, Zenon DEF w
  <2> QED
    BY <1>1, <2>2, <2>3, <2>4, Zenon
<1>5. CASE WriteFails(t)
  <2>1. PICK n \in 0..Len(batch[t]) - 1, rest \in {<<>>, << 0 >>} :
          file' = [file EXCEPT ![p] = file[p] \o SubSeq(batch[t], 1, n) \o rest]
    BY <1>5, Zenon, SMT DEF WriteFails
  <2> DEFINE b == SubSeq(batch[t], 1, n)
             w == file[p] \o b
  <2>2. /\ b \in Seq(Revisions \cup {0}) /\ Range(b) \subseteq Range(batch[t]) /\ InOrder(b)
    <3>1. n \in 0..Len(batch[t])
      BY <1>2
    <3> QED
      BY <1>2, <1>3, <3>1, CutFacts, Zenon
  <2>3. rest \in Seq(Revisions \cup {0}) /\ Range(rest) \subseteq {0} /\ InOrder(rest)
    BY FragmentFacts, Zenon, SMT
  <2>4. file'[p] = w \o rest /\ \A q \in Prefixes \ {p} : file'[q] = file[q]
    BY <1>1, <2>1, Zenon, SMT
  <2> HIDE DEF b
  <2>5. Precedes(Range(file[p]), Range(b))
    BY <1>3, <2>2, Zenon DEF Precedes
  <2>6. /\ w \in Seq(Revisions \cup {0}) /\ Len(w) \in Nat /\ Len(w) >= Len(file[p])
        /\ \A i \in 1..Len(file[p]) : w[i] = file[p][i]
        /\ Range(w) = Range(file[p]) \cup Range(b) /\ InOrder(w)
    BY <1>2, <1>3, <2>2, <2>5, WrittenOn, Zenon
  <2> HIDE DEF w
  <2>7. /\ Len(w \o rest) \in Nat /\ Len(w \o rest) >= Len(w)
        /\ \A i \in 1..Len(w) : (w \o rest)[i] = w[i]
        /\ Range(w \o rest) = Range(w) \cup Range(rest)
    BY <2>3, <2>6, ConcatFacts
  <2>8. InOrder(w \o rest)
    <3>1. Precedes(Range(w), Range(rest))
      BY <2>3 DEF Precedes
    <3> QED
      BY <2>3, <2>6, <3>1, ConcatFacts, Zenon, SMT
  <2>9. ~WriteBatch(t)
    BY <1>5, Zenon DEF WriteBatch, WriteFails, IInv, TypeOK
  <2> QED
    BY <1>1, <1>2, <2>2, <2>3, <2>4, <2>6, <2>7, <2>8, <2>9, SMT, Z3
<1> QED
  BY <1>4, <1>5, Zenon

\* The threads that write are on different prefixes.
LEMMA Alone ==
  ASSUME IInv, up = "up", NEW t \in Threads, NEW u \in Threads, u # t,
         Writing(t), Writing(u)
  PROVE  on[u] # on[t]
  BY DEF IInv, PoolOK, ExclusionOK

-----------------------------------------------------------------------------
(* The files.                                                              *)

\* A file that no one touches: what is appended later comes after it.
LEMMA SameFile ==
  ASSUME IInv, [Next]_vars, NEW p \in Prefixes, file'[p] = file[p]
  PROVE  FileOK(p)'
<1> DEFINE f == Range(file[p])
<1>1. InOrder(file[p]) /\ Owned(f, p, rev, prefixOf) /\ (p \in Sound' => p \in Sound)
  BY SoundStep, Zenon DEF IInv, FileOK, Of
<1>2. ASSUME p \in Sound
      PROVE  0 \notin f /\ \A x \in f, q \in 1..rev : q <= x /\ prefixOf[q] = p => q \in f
  BY <1>2 DEF IInv, FileOK
<1>3. Owned(f, p, rev', prefixOf')
  BY <1>1, OwnedStep
<1> HIDE DEF f
<1>4. ASSUME p \in Sound, NEW x \in f, NEW q \in 1..rev', q <= x, prefixOf'[q] = p
      PROVE  q \in f
  <2>1. x \in 1..rev
    BY <1>1, <1>2, <1>4 DEF Owned
  <2>2. q \in 1..rev
    BY <1>4, <2>1, RevStep
  <2> QED
    BY <1>2, <1>4, <2>2, RevStep
<1> QED
  BY <1>1, <1>2, <1>3, <1>4, Zenon DEF FileOK, Of, f

\* The file of the prefix that is written.
LEMMA WrittenFile ==
  ASSUME IInv, [Next]_vars, NEW t \in Threads, WriteBatch(t) \/ WriteFails(t),
         NEW p \in Prefixes, p = on[t]
  PROVE  FileOK(p)'
<1> USE DEF appendVars, poolVars, diskVars, loadVars
<1> DEFINE f == Range(file[p])
           b == Range(batch[t])
<1>1. /\ pc[t] = "batch" /\ up = "up" /\ InOrder(file'[p])
      /\ Range(file'[p]) \subseteq f \cup b \cup {0}
      /\ WriteBatch(t) => Range(file'[p]) = f \cup b
  BY WriteFacts, Zenon
<1>2. /\ TypeOK /\ rev \in Nat /\ BatchOK(t) /\ CoverOK(p) /\ FileOK(p)
  BY <1>1, Types, Zenon DEF IInv, PoolOK
<1>3. Owned(b, p, rev, prefixOf) /\ Owned(f, p, rev, prefixOf)
  BY <1>1, <1>2, Zenon DEF BatchOK, FileOK, Of
<1>4. Owned(Range(file'[p]), p, rev', prefixOf')
  <2>1. Owned(f \cup b, p, rev, prefixOf)
    BY <1>3 DEF Owned
  <2>2. Owned(Range(file'[p]), p, rev, prefixOf)
    BY <1>1, <2>1, OwnedSubset, Zenon, SMT
  <2>3. UNCHANGED <<rev, prefixOf>>
    BY Zenon, SMT DEF WriteBatch, WriteFails
  <2> QED
    BY <2>2, <2>3
<1>5. CASE WriteFails(t)
  BY <1>1, <1>4, <1>5, FailedUnsound, Zenon DEF FileOK, Of
<1>6. CASE WriteBatch(t)
  <2>1. UNCHANGED <<rev, prefixOf>> /\ (p \in Sound' => p \in Sound)
    BY <1>6, SoundStep, Zenon DEF WriteBatch
  <2>2. b \subseteq Revisions /\ 0 \notin Revisions
    BY <1>2, Types, RangeIs DEF Revisions
  <2>3. ASSUME p \in Sound, NEW x \in f \cup b, NEW q \in 1..rev, q <= x, prefixOf[q] = p
        PROVE  q \in f \cup b
    <3>1. CASE x \in f
      BY <1>2, <2>3, <3>1, Zenon DEF FileOK
    <3>2. CASE x \in b
      <4>1. \A r : Taken(p, r) => r \in b
        BY <1>1, Alone, Zenon DEF Taken, Writing
      <4>2. q \in f \/ q \in b \/ q \in Range(to_write[p])
        BY <1>2, <2>3, <4>1, Zenon DEF CoverOK
      <4>3. x \in Nat /\ q \in Nat /\ q # 0 /\ x # 0
        BY <1>2, <2>2, <3>2, RecordsNat, SMT, Z3
      <4>4. q \in Range(to_write[p]) => x < q
        BY <1>1, <1>2, <3>2, <4>3, Zenon DEF BatchOK, Precedes
      <4> QED
        BY <2>3, <4>2, <4>3, <4>4, SMT, Z3
    <3> QED
      BY <3>1, <3>2, Zenon
  <2>4. p \in Sound => 0 \notin f
    BY <1>2, Zenon DEF FileOK
  <2> HIDE DEF f, b
  <2> QED
    BY <1>1, <1>4, <1>6, <2>1, <2>2, <2>3, <2>4, Zenon DEF FileOK, Of
<1> QED
  BY <1>5, <1>6

\* A crash keeps a beginning of every file.
LEMMA CutFile ==
  ASSUME IInv, [Next]_vars, Crash, NEW p \in Prefixes
  PROVE  FileOK(p)'
<1> USE DEF appendVars, poolVars, diskVars, loadVars
<1>1. PICK n \in 0..Len(file[p]) : file'[p] = SubSeq(file[p], 1, n)
  <2>1. PICK cut \in [Prefixes -> 0..MaxRev + MaxFailures] :
          /\ \A q \in Prefixes : durable[q] <= cut[q] /\ cut[q] <= Len(file[q])
          /\ file' = [q \in Prefixes |-> SubSeq(file[q], 1, cut[q])]
    BY Zenon, SMT DEF Crash
  <2>2. cut[p] \in 0..Len(file[p])
    BY <2>1, Types, WalAssumption, SMT, Z3 DEF IInv
  <2> QED
    BY <2>1, <2>2, Zenon
<1> DEFINE s == file[p]
           u == SubSeq(s, 1, n)
<1>2. /\ s \in Seq(Revisions \cup {0}) /\ Len(s) \in Nat /\ InOrder(s)
      /\ Owned(Range(s), p, rev, prefixOf)
      /\ p \in Sound => /\ 0 \notin Range(s)
                        /\ \A x \in Range(s), q \in 1..rev :
                             q <= x /\ prefixOf[q] = p => q \in Range(s)
  BY Types, Zenon DEF IInv, FileOK, Of
<1>3. UNCHANGED <<rev, prefixOf>> /\ (p \in Sound' => p \in Sound)
  BY SoundStep, Zenon DEF Crash
<1>4. file'[p] = u /\ n \in 0..Len(s)
  BY <1>1
<1> HIDE DEF s
<1>5. /\ u \in Seq(Revisions \cup {0}) /\ Len(u) = n /\ \A i \in 1..n : u[i] = s[i]
      /\ Range(u) \subseteq Range(s) /\ InOrder(u)
  BY <1>2, <1>4, CutFacts
<1> HIDE DEF u
<1>6. Owned(Range(u), p, rev, prefixOf)
  BY <1>2, <1>5, OwnedSubset, Zenon
<1>7. ASSUME p \in Sound, NEW x \in Range(u), NEW q \in 1..rev, q <= x, prefixOf[q] = p
      PROVE  q \in Range(u)
  <2>1. PICK i \in 1..n : u[i] = x /\ s[i] = x
    BY <1>5, RangeIs
  <2>2. q \in Range(s)
    BY <1>2, <1>5, <1>7
  <2>3. PICK j \in 1..Len(s) : s[j] = q
    BY <1>2, <2>2, RangeIs
  <2>4. x \in Nat /\ x # 0 /\ q \in Nat /\ q # 0
    BY <1>2, <1>5, <1>7, RangeIs, RecordsNat
  <2>5. ~(i < j)
    <3>1. i \in 1..Len(s) /\ s[i] # 0 /\ s[j] # 0
      BY <1>2, <1>4, <2>1, <2>3, <2>4
    <3>2. i < j => s[i] < s[j]
      BY <1>2, <3>1, Zenon DEF InOrder
    <3> QED
      BY <1>7, <2>1, <2>3, <2>4, <3>2
  <2>6. j \in 1..n
    BY <1>4, <2>1, <2>3, <2>5
  <2> QED
    BY <1>5, <2>3, <2>6, RangeIs, Zenon
<1> QED
  BY <1>2, <1>3, <1>4, <1>5, <1>6, <1>7, Zenon DEF FileOK, Of

\* The files stay in order and, without a failure, without gaps.
LEMMA FileStep ==
  ASSUME IInv, [Next]_vars, NEW p \in Prefixes
  PROVE  FileOK(p)'
<1>1. ASSUME NEW t \in Threads, WriteBatch(t) \/ WriteFails(t)
      PROVE  FileOK(p)'
  <2>1. PICK q \in Prefixes : q = on[t]
    BY <1>1, ServedFacts, Zenon, SMT DEF WriteBatch, WriteFails
  <2>2. CASE p = q
    BY <1>1, <2>1, <2>2, WrittenFile
  <2>3. CASE p # q
    BY <1>1, <2>1, <2>3, WriteFacts, SameFile
  <2> QED
    BY <2>2, <2>3, Zenon, SMT
<1>2. CASE Crash
  BY <1>2, CutFile, Zenon, SMT
<1>3. \/ file' = file \/ Crash
      \/ \E t \in Threads : WriteBatch(t) \/ WriteFails(t)
  BY Zenon DEF Next, vars, ThreadStep, AppendSkipped, AppendRecord, AppendWork, RecvWork, Claim,
       TakeRecord, SyncAndNotify, Release, Recheck, LoadBegin, LoadNext, LoadEnd,
       appendVars, poolVars, diskVars, loadVars
<1> QED
  BY <1>1, <1>2, <1>3, SameFile

-----------------------------------------------------------------------------
(* load_wal_dir.                                                           *)

\* Before it runs nothing is replayed.
LEMMA NotLoading ==
  ASSUME replayed' = <<>>, up' \in {"up", "down", "failed"}
  PROVE  LoadOK'
  BY EmptyFacts, Zenon DEF LoadOK

\* The first read of every file: one that comes to an end at once is empty, or
\* a fragment.
LEMMA BeginStep == ASSUME IInv, LoadBegin PROVE LoadOK'
<1> USE DEF appendVars, poolVars, diskVars, loadVars
<1>1. /\ replayed = <<>> /\ UNCHANGED <<file, prefixOf, replayed, failures>>
      /\ up' \in {"failed", "loading"}
  BY Zenon, SMT DEF IInv, LoadOK, LoadBegin
<1>2. CASE up' = "failed"
  BY <1>1, <1>2, NotLoading
<1>3. CASE up' = "loading"
  <2>1. PICK res \in [Prefixes -> {"record", "end", "error"}] :
          /\ \A p \in Prefixes : res[p] \in ReadFrom(p, 0)
          /\ \A p \in Prefixes : res[p] # "error"
          /\ pos' = [p \in Prefixes |-> Position(p, 0, res[p])]
    BY <1>3 DEF LoadBegin
  <2>2. ASSUME NEW p \in Prefixes
        PROVE  /\ pos'[p] \in Nat /\ pos'[p] <= Len(file[p])
               /\ p \in Sound => pos'[p] = 0
    <3>1. /\ file[p] \in Seq(Revisions \cup {0}) /\ Len(file[p]) \in Nat
          /\ p \in Sound => 0 \notin Range(file[p])
      BY Types, Zenon DEF IInv, FileOK
    <3>2. pos'[p] = IF res[p] = "end" THEN Len(file[p]) ELSE 0
      BY <2>1 DEF Position
    <3>3. ASSUME res[p] = "end", Len(file[p]) # 0
          PROVE  p \notin Sound
      <4>1. res[p] \in ReadFrom(p, 0) /\ 0 < Len(file[p]) /\ 1 \in 1..Len(file[p])
        BY <2>1, <3>1, <3>3
      <4>2. file[p][1] = 0
        BY <3>1, <3>3, <4>1 DEF ReadFrom
      <4>3. 0 \in Range(file[p])
        BY <3>1, <4>1, <4>2, RangeIs
      <4> QED
        BY <3>1, <4>3
    <3> QED
      BY <3>1, <3>2, <3>3
  <2>3. Sound' = Sound
    BY <1>1 DEF Sound
  <2> QED
    BY <1>1, <1>3, <2>2, <2>3, EmptyFacts DEF LoadOK
<1> QED
  BY <1>1, <1>2, <1>3, Zenon, SMT

\* The next record of a file.
NextOf(p) == file[p][pos[p] + 1]

\* What the one that the heap gives is.
LEMMA NextRecord ==
  ASSUME IInv, up = "loading", NEW p \in Prefixes, IsLeast(p), NEW r, r = NextOf(p)
  PROVE  /\ pos[p] + 1 \in 1..Len(file[p]) /\ r \in Revisions \cup {0} /\ r \in Range(file[p])
         /\ r # 0 => prefixOf[r] = p
         /\ Precedes(Range(replayed), {r})
<1>1. /\ file[p] \in Seq(Revisions \cup {0}) /\ Len(file[p]) \in Nat /\ pos[p] \in Nat
      /\ pos[p] < Len(file[p])
  BY Types, Zenon DEF IInv, IsLeast
<1>2. /\ pos[p] + 1 \in 1..Len(file[p]) /\ pos[p] + 1 \in (pos[p] + 1)..Len(file[p])
      /\ \A m \in (pos[p] + 1)..(pos[p] + 1) : m = pos[p] + 1
  BY <1>1
<1>3. r \in Revisions \cup {0} /\ r \in Range(file[p])
  BY <1>1, <1>2, RangeIs DEF NextOf
<1>4. r # 0 => prefixOf[r] = p
  BY <1>3 DEF IInv, FileOK, Of, Owned
<1>5. \A x \in Range(replayed) \ {0} : r # 0 => x < r
  BY <1>2, Zenon DEF IInv, LoadOK, NextOf
<1> QED
  BY <1>2, <1>3, <1>4, <1>5, Zenon DEF Precedes

\* The record that is replayed comes before the ones that are ahead in the
\* other files.
LEMMA AheadOfOthers ==
  ASSUME IInv, up = "loading", NEW p \in Prefixes, IsLeast(p), NEW r, r = NextOf(p),
         r # 0, NEW q \in Prefixes, q # p, NEW j \in (pos[q] + 1)..Len(file[q]),
         \A m \in (pos[q] + 1)..j : file[q][m] # 0
  PROVE  r < file[q][j]
<1>1. /\ file[q] \in Seq(Revisions \cup {0}) /\ Len(file[q]) \in Nat /\ pos[q] \in Nat
  BY Types, Zenon DEF IInv
<1>2. /\ pos[q] + 1 \in (pos[q] + 1)..j /\ j \in (pos[q] + 1)..j
      /\ pos[q] + 1 \in 1..Len(file[q]) /\ j \in 1..Len(file[q]) /\ pos[q] < Len(file[q])
      /\ (pos[q] + 1 < j \/ j = pos[q] + 1)
  BY <1>1
<1> DEFINE f == file[q]
           h == f[pos[q] + 1]
<1>3. h # 0 /\ f[j] # 0 /\ h \in Nat /\ f[j] \in Nat /\ h \in Range(f)
  BY <1>1, <1>2, RecordsNat, RangeIs, SMT, Z3
<1>4. h = f[j] \/ h < f[j]
  BY <1>2, <1>3, Zenon DEF IInv, FileOK, InOrder
<1>5. r <= h
  BY <1>2, <1>3, Zenon DEF IsLeast, NextOf
<1>6. prefixOf[h] = q
  BY <1>3 DEF IInv, FileOK, Of, Owned
<1>7. prefixOf[r] = p /\ r \in Nat
  BY NextRecord, RecordsNat, Zenon, SMT
<1>8. r # h
  BY <1>6, <1>7, Zenon
<1> HIDE DEF h, f
<1> QED
  BY <1>3, <1>4, <1>5, <1>7, <1>8 DEF f

\* Where the reader of the file is after the record.
LEMMA ReaderMoves ==
  ASSUME IInv, NEW p \in Prefixes, LoadNext(p), up' = "loading"
  PROVE  /\ \A q \in Prefixes \ {p} : pos'[q] = pos[q]
         /\ \/ pos'[p] = pos[p] + 1 /\ file[p][pos[p] + 1] # 0
            \/ pos'[p] = Len(file[p])
         /\ p \in Sound => pos'[p] = pos[p] + 1
<1>1. /\ TypeOK /\ file[p] \in Seq(Revisions \cup {0}) /\ Len(file[p]) \in Nat
      /\ pos[p] \in Nat /\ pos[p] < Len(file[p])
      /\ p \in Sound => 0 \notin Range(file[p])
  BY Types, Zenon DEF IInv, FileOK, LoadNext, IsLeast
<1> DEFINE r == file[p][pos[p] + 1]
<1>2. PICK res \in IF r = 0 THEN {"end", "error"} ELSE ReadFrom(p, pos[p] + 1) :
        /\ res # "error"
        /\ pos' = [pos EXCEPT ![p] = Position(p, pos[p] + 1, res)]
  BY Zenon, SMT DEF LoadNext
<1>3. /\ pos'[p] = IF res = "end" THEN Len(file[p]) ELSE pos[p] + 1
      /\ \A q \in Prefixes \ {p} : pos'[q] = pos[q]
  BY <1>1, <1>2, Zenon DEF Position, TypeOK
<1>4. r = 0 => res = "end"
  BY <1>2
<1>5. ASSUME p \in Sound
      PROVE  pos'[p] = pos[p] + 1
  <2>1. \A i \in 1..Len(file[p]) : file[p][i] # 0
    BY <1>1, <1>5, RangeIs
  <2>2. r # 0
    BY <1>1, <2>1
  <2>3. res = "end" => pos[p] + 1 = Len(file[p])
    <3>1. res \in ReadFrom(p, pos[p] + 1)
      BY <1>2, <2>2
    <3>2. CASE pos[p] + 1 < Len(file[p])
      <4>1. pos[p] + 1 + 1 \in 1..Len(file[p])
        BY <1>1, <3>2
      <4>2. ReadFrom(p, pos[p] + 1) = {"record"}
        BY <1>1, <2>1, <3>2, <4>1, SMT, Z3 DEF ReadFrom
      <4> QED
        BY <3>1, <4>2
    <3> QED
      BY <1>1, <3>2
  <2> QED
    BY <1>3, <2>3
<1> QED
  BY <1>3, <1>4, <1>5, Zenon

\* A record is replayed.
LEMMA NextStep == ASSUME IInv, NEW p \in Prefixes, LoadNext(p) PROVE LoadOK'
<1> USE DEF appendVars, poolVars, diskVars, loadVars
<1>1. PICK r : r = NextOf(p) /\ r = file[p][pos[p] + 1]
  BY DEF NextOf
<1>2. /\ up = "loading" /\ IsLeast(p) /\ replayed' = Append(replayed, r)
      /\ UNCHANGED <<file, prefixOf, failures>> /\ up' \in {"failed", "loading"}
  BY <1>1, Zenon, SMT DEF LoadNext
<1>3. /\ pos[p] + 1 \in 1..Len(file[p]) /\ r \in Revisions \cup {0} /\ r \in Range(file[p])
      /\ r # 0 => prefixOf[r] = p
      /\ Precedes(Range(replayed), {r})
  BY <1>1, <1>2, NextRecord, Zenon, SMT
<1> DEFINE s == replayed
<1>4. s \in Seq(Revisions \cup {0}) /\ InOrder(s)
  BY Types, Zenon DEF IInv, LoadOK
<1>5. Range(replayed') = Range(replayed) \cup {r} /\ InOrder(replayed')
  <2>1. Precedes(Range(s), {r}) /\ replayed' = Append(s, r)
    BY <1>2, <1>3
  <2> HIDE DEF s
  <2>2. Range(Append(s, r)) = Range(s) \cup {r} /\ InOrder(Append(s, r))
    BY <1>3, <1>4, <2>1, AppendRange, AppendOrder, SMT, Z3
  <2> QED
    BY <2>1, <2>2 DEF s
<1>6. \A x \in Range(replayed') \ {0} : prefixOf[x] \in Prefixes /\ x \in Range(file[prefixOf[x]])
  BY <1>3, <1>5, Zenon DEF IInv, LoadOK
<1>7. Sound' = Sound
  BY <1>2 DEF Sound
<1>8. ASSUME up' = "loading", NEW q \in Prefixes
      PROVE  /\ pos'[q] <= Len(file[q])
             /\ \A x \in Range(replayed') \ {0}, j \in (pos'[q] + 1)..Len(file[q]) :
                  (\A m \in (pos'[q] + 1)..j : file[q][m] # 0) => x < file[q][j]
             /\ q \in Sound => \A i \in 1..pos'[q] : file[q][i] \in Range(replayed')
  <2>1. /\ file[q] \in Seq(Revisions \cup {0}) /\ Len(file[q]) \in Nat /\ pos[q] \in Nat
        /\ InOrder(file[q])
    BY Types, Zenon DEF IInv, FileOK
  <2>2. /\ pos[q] <= Len(file[q])
        /\ \A x \in Range(replayed) \ {0}, j \in (pos[q] + 1)..Len(file[q]) :
             (\A m \in (pos[q] + 1)..j : file[q][m] # 0) => x < file[q][j]
        /\ q \in Sound => \A i \in 1..pos[q] : file[q][i] \in Range(replayed)
    BY <1>2, Zenon DEF IInv, LoadOK
  <2>3. CASE q # p
    <3>1. pos'[q] = pos[q]
      BY <1>8, <2>3, ReaderMoves
    <3>2. ASSUME r # 0, NEW j \in (pos[q] + 1)..Len(file[q]),
                 \A m \in (pos[q] + 1)..j : file[q][m] # 0
          PROVE  r < file[q][j]
      BY <1>1, <1>2, <2>3, <3>2, AheadOfOthers, Zenon, SMT
    <3> QED
      BY <1>5, <2>2, <3>1, <3>2, Zenon
  <2>4. CASE q = p /\ pos'[p] = pos[p] + 1 /\ r # 0
    <3>1. pos'[q] <= Len(file[q])
      BY <1>3, <2>1, <2>4
    <3>2. ASSUME NEW x \in Range(replayed') \ {0}, NEW j \in (pos'[q] + 1)..Len(file[q]),
                 \A m \in (pos'[q] + 1)..j : file[q][m] # 0
          PROVE  x < file[q][j]
      <4>1. /\ j \in (pos[q] + 1)..Len(file[q]) /\ j \in 1..Len(file[q])
            /\ pos[q] + 1 \in 1..Len(file[q]) /\ pos[q] + 1 < j /\ j \in (pos'[q] + 1)..j
        BY <1>3, <2>1, <2>4, <3>2
      <4>2. \A m \in (pos[q] + 1)..j : file[q][m] # 0
        <5>1. \A m \in (pos[q] + 1)..j : m = pos[q] + 1 \/ m \in (pos'[q] + 1)..j
          BY <2>1, <2>4, <4>1, SMT, Z3
        <5> QED
          BY <1>1, <2>4, <3>2, <5>1, Zenon
      <4>3. CASE x = r
        BY <1>1, <2>1, <2>4, <3>2, <4>1, <4>3, Zenon DEF InOrder
      <4>4. CASE x \in Range(replayed)
        BY <2>2, <3>2, <4>1, <4>2, <4>4, Zenon
      <4> QED
        BY <1>5, <3>2, <4>3, <4>4
    <3>3. ASSUME q \in Sound, NEW i \in 1..pos'[q]
          PROVE  file[q][i] \in Range(replayed')
      <4>1. i \in 1..pos[q] \/ i = pos[q] + 1
        BY <2>1, <2>4, <3>3, SMT, Z3
      <4> QED
        BY <1>1, <1>5, <2>2, <2>4, <3>3, <4>1, Zenon
    <3> QED
      BY <3>1, <3>2, <3>3, Zenon
  <2>5. CASE q = p /\ pos'[p] = Len(file[p]) /\ ~(pos'[p] = pos[p] + 1 /\ r # 0)
    <3>1. (pos'[q] + 1)..Len(file[q]) = {}
      BY <2>1, <2>5
    <3>2. q \notin Sound
      <4>1. q \in Sound => pos'[p] = pos[p] + 1 /\ 0 \notin Range(file[p])
        BY <1>8, <2>5, ReaderMoves, Zenon DEF IInv, FileOK
      <4> QED
        BY <1>3, <2>5, <4>1
    <3> QED
      BY <2>1, <2>5, <3>1, <3>2
  <2> QED
    BY <1>1, <1>8, <2>3, <2>4, <2>5, ReaderMoves, Zenon
<1> QED
  BY <1>2, <1>5, <1>6, <1>7, <1>8, Zenon, SMT DEF LoadOK

\* load_wal_dir replays the files in order and completely.
LEMMA LoadStep == ASSUME IInv, [Next]_vars PROVE LoadOK'
<1> USE DEF appendVars, poolVars, diskVars, loadVars
<1>1. CASE up = "up"
  <2>1. replayed' = <<>> /\ up' \in {"up", "down"}
    BY <1>1, Zenon, SMT
    DEF Next, vars, ThreadStep, AppendSkipped, AppendRecord, AppendWork, RecvWork, Claim,
         TakeRecord, WriteBatch, WriteFails, SyncAndNotify, Release, Recheck, Crash, LoadBegin,
         LoadNext, LoadEnd, IInv, LoadOK
  <2> QED
    BY <2>1, NotLoading, Zenon, SMT
<1>2. CASE up # "up"
  <2>1. \/ LoadBegin \/ LoadEnd \/ UNCHANGED vars
        \/ \E p \in Prefixes : LoadNext(p)
    BY <1>2, Zenon, SMT
    DEF Next, ThreadStep, AppendSkipped, AppendRecord, AppendWork, RecvWork, Claim,
         TakeRecord, WriteBatch, WriteFails, SyncAndNotify, Release, Recheck, Crash
  <2>2. CASE LoadEnd
    <3>1. /\ up = "loading" /\ up' = "loaded"
          /\ UNCHANGED <<file, prefixOf, failures, pos, replayed>>
          /\ \A p \in Prefixes : pos[p] = Len(file[p])
      BY <2>2 DEF LoadEnd
    <3>2. Sound' = Sound /\ LoadOK
      BY <3>1 DEF Sound, IInv
    <3> QED
      BY <3>1, <3>2, Zenon, SMT DEF LoadOK
  <2>3. CASE UNCHANGED vars
    <3>1. UNCHANGED <<up, file, prefixOf, failures, pos, replayed>>
      BY <2>3 DEF vars
    <3>2. Sound' = Sound /\ LoadOK
      BY <3>1 DEF Sound, IInv
    <3> QED
      BY <3>1, <3>2 DEF LoadOK
  <2> QED
    BY <2>1, <2>2, <2>3, BeginStep, NextStep, Zenon, SMT
<1> QED
  BY <1>1, <1>2

-----------------------------------------------------------------------------
(* The pool.                                                               *)

\* is_writing keeps a prefix to one thread.
LEMMA ExclusionStep == ASSUME IInv, [Next]_vars, up' = "up" PROVE ExclusionOK'
<1> USE DEF appendVars, poolVars, diskVars, loadVars
<1>0. /\ up = "up" /\ ExclusionOK /\ DOMAIN pc = Threads /\ DOMAIN on = Threads
      /\ DOMAIN is_writing = Prefixes /\ is_writing \in [Prefixes -> BOOLEAN]
  <2>1. up = "up"
    BY Zenon, SMT
    DEF Next, vars, ThreadStep, AppendSkipped, AppendRecord, AppendWork, RecvWork, Claim,
         TakeRecord, WriteBatch, WriteFails, SyncAndNotify, Release, Recheck, Crash, LoadBegin,
         LoadNext, LoadEnd
  <2>2. TypeOK /\ ExclusionOK
    BY <2>1 DEF IInv, PoolOK
  <2>3. DOMAIN pc = Threads /\ DOMAIN on = Threads
    BY <2>2 DEF TypeOK
  <2>4. DOMAIN is_writing = Prefixes /\ is_writing \in [Prefixes -> BOOLEAN]
    BY <2>2, Zenon DEF TypeOK
  <2> QED
    BY <2>1, <2>2, <2>3, <2>4, Zenon, SMT
\* The claim, the release and the rest, for the thread that moves.
<1>1. ASSUME NEW t \in Threads, Claim(t)
      PROVE  ExclusionOK'
  <2>1. /\ pc[t] = "claim" /\ on[t] \in Prefixes
        /\ is_writing' = [is_writing EXCEPT ![on[t]] = TRUE]
        /\ pc' = [pc EXCEPT ![t] = IF Claimed(t) THEN "batch" ELSE "recv"]
        /\ on' = [on EXCEPT ![t] = IF Claimed(t) THEN on[t] ELSE "none"]
    BY <1>0, <1>1, Zenon DEF Claim, ExclusionOK
  <2>2. is_writing'[on[t]] /\ \A q \in Prefixes : is_writing[q] => is_writing'[q]
    BY <1>0, <2>1, Zenon
  <2>3. \A u \in Threads : u # t => pc'[u] = pc[u] /\ on'[u] = on[u]
    BY <1>0, <2>1
  <2>4. CASE Claimed(t)
    <3>1. pc'[t] = "batch" /\ on'[t] = on[t]
      BY <1>0, <2>1, <2>4
    <3>2. \A u \in Threads : Writing(u) => on[u] # on[t]
      BY <1>0, <2>4, Zenon DEF ExclusionOK, Claimed
    <3>3. \A u \in Threads : u # t => (Writing(u)' <=> Writing(u))
      BY <2>3 DEF Writing
    <3>4. \A u \in Threads : pc'[u] # "recv" => on'[u] \in Prefixes
      BY <1>0, <2>1, <2>3, <3>1, Zenon DEF ExclusionOK
    <3>5. \A u \in Threads : Writing(u)' => is_writing'[on'[u]]
      BY <1>0, <2>1, <2>2, <2>3, <3>1, <3>3, Zenon DEF ExclusionOK, Writing
    <3>6. \A u, v \in Threads : Writing(u)' /\ Writing(v)' /\ on'[u] = on'[v] => u = v
      BY <1>0, <2>3, <3>1, <3>2, <3>3, Zenon, SMT DEF ExclusionOK
    <3> QED
      BY <3>4, <3>5, <3>6 DEF ExclusionOK
  <2>5. CASE ~Claimed(t)
    <3>1. pc'[t] = "recv" /\ ~Writing(t)'
      BY <1>0, <2>1, <2>5 DEF Writing
    <3>2. \A u \in Threads : u # t => (Writing(u)' <=> Writing(u))
      BY <2>3 DEF Writing
    <3>3. \A u \in Threads : pc'[u] # "recv" => on'[u] \in Prefixes
      BY <1>0, <2>3, <3>1 DEF ExclusionOK
    <3>4. \A u \in Threads : Writing(u)' => is_writing'[on'[u]]
      <4>1. \A u \in Threads : Writing(u) => is_writing[on[u]] /\ on[u] \in Prefixes
        BY <1>0, Zenon DEF ExclusionOK, Writing
      <4> QED
        BY <2>2, <2>3, <3>1, <3>2, <4>1, Zenon
    <3>5. \A u, v \in Threads : Writing(u)' /\ Writing(v)' /\ on'[u] = on'[v] => u = v
      BY <1>0, <2>3, <3>1, <3>2, Zenon, SMT DEF ExclusionOK
    <3> QED
      BY <3>3, <3>4, <3>5 DEF ExclusionOK
  <2> QED
    BY <2>4, <2>5
<1>2. ASSUME NEW t \in Threads, Release(t)
      PROVE  ExclusionOK'
  <2>1. /\ Writing(t) /\ on[t] \in Prefixes /\ on' = on
        /\ is_writing' = [is_writing EXCEPT ![on[t]] = FALSE]
        /\ pc' = [pc EXCEPT ![t] = "recheck"]
    BY <1>0, <1>2, Zenon DEF Release, ExclusionOK, Writing
  <2>2. \A q \in Prefixes : q # on[t] /\ is_writing[q] => is_writing'[q]
    BY <1>0, <2>1, Zenon
  <2>3. /\ \A u \in Threads : u # t => (Writing(u)' <=> Writing(u)) /\ pc'[u] = pc[u]
        /\ ~Writing(t)'
    BY <1>0, <2>1 DEF Writing
  <2>4. \A u \in Threads : pc'[u] # "recv" => on'[u] \in Prefixes
    BY <1>0, <2>1, <2>3, Zenon DEF ExclusionOK
  <2>5. \A u \in Threads : Writing(u)' => is_writing'[on'[u]]
    <3>1. \A u \in Threads : Writing(u) => is_writing[on[u]] /\ on[u] \in Prefixes
      BY <1>0, Zenon DEF ExclusionOK, Writing
    <3>2. \A u \in Threads : Writing(u) /\ on[u] = on[t] => u = t
      BY <1>0, <2>1 DEF ExclusionOK
    <3> QED
      BY <2>1, <2>2, <2>3, <3>1, <3>2, Zenon
  <2>6. \A u, v \in Threads : Writing(u)' /\ Writing(v)' /\ on'[u] = on'[v] => u = v
    BY <1>0, <2>1, <2>3, Zenon DEF ExclusionOK
  <2> QED
    BY <2>4, <2>5, <2>6 DEF ExclusionOK
<1>3. ASSUME is_writing' = is_writing,
             \A u \in Threads : Writing(u)' => Writing(u) /\ on'[u] = on[u],
             \A u \in Threads : pc'[u] # "recv" => on'[u] \in Prefixes
      PROVE  ExclusionOK'
  BY <1>0, <1>3, Zenon DEF ExclusionOK
<1>4. ASSUME NEW t \in Threads, RecvWork(t)
      PROVE  ExclusionOK'
  <2>1. Head(work) \in Prefixes
    BY <1>4 DEF RecvWork, IInv, TypeOK
  <2>2. /\ is_writing' = is_writing
        /\ \A u \in Threads :
             \/ pc'[u] = pc[u] /\ on'[u] = on[u]
             \/ pc'[u] = "claim" /\ on'[u] = Head(work)
    BY <1>0, <1>4 DEF RecvWork
  <2> QED
    BY <1>0, <1>3, <2>1, <2>2, Zenon DEF Writing, ExclusionOK
<1>5. ASSUME NEW t \in Threads,
             WriteBatch(t) \/ WriteFails(t) \/ SyncAndNotify(t) \/ TakeRecord(t)
      PROVE  ExclusionOK'
  <2>1. is_writing' = is_writing /\ on' = on /\ Writing(t)
        /\ \A u \in Threads : u # t => pc'[u] = pc[u]
    BY <1>0, <1>5, Zenon, SMT DEF WriteBatch, WriteFails, SyncAndNotify, TakeRecord, Writing
  <2> QED
    BY <1>0, <1>3, <2>1, Zenon DEF Writing, ExclusionOK
<1>6. ASSUME NEW t \in Threads, Recheck(t)
      PROVE  ExclusionOK'
  <2>1. /\ is_writing' = is_writing /\ pc'[t] = "recv"
        /\ \A u \in Threads : u # t => pc'[u] = pc[u] /\ on'[u] = on[u]
    BY <1>0, <1>6 DEF Recheck
  <2> QED
    BY <1>0, <1>3, <2>1, Zenon DEF Writing, ExclusionOK
<1>7. ASSUME UNCHANGED <<is_writing, pc, on>>
      PROVE  ExclusionOK'
  BY <1>0, <1>7, <1>3, Zenon DEF Writing, ExclusionOK
<1>8. \/ UNCHANGED <<is_writing, pc, on>>
      \/ \E t \in Threads : ThreadStep(t)
  BY Zenon
    DEF Next, vars, AppendSkipped, AppendRecord, AppendWork, Crash, LoadBegin, LoadNext, LoadEnd
<1> QED
  BY <1>1, <1>2, <1>4, <1>5, <1>6, <1>7, <1>8 DEF ThreadStep

\* A step of the pool that leaves files, batches and channels alone, and the
\* threads that hold a batch where they are.
Quiet ==
  /\ UNCHANGED <<file, to_write, batch>>
  /\ \A t \in Threads :
       \/ pc'[t] = pc[t] /\ on'[t] = on[t]
       \/ pc[t] \notin {"batch", "written"} /\ pc'[t] # "written"
  /\ \A r \in 1..rev' : r \in 1..rev \/ prefixOf'[r] \in NoPersist

\* What the pool may do: nothing of interest, or one of the steps that move
\* records.
LEMMA PoolSteps ==
  ASSUME IInv, [Next]_vars, up' = "up"
  PROVE  /\ up = "up"
         /\ \/ Quiet
            \/ \E p \in Prefixes : AppendRecord(p)
            \/ \E t \in Threads :
                 TakeRecord(t) \/ WriteBatch(t) \/ WriteFails(t) \/ SyncAndNotify(t)
<1> USE DEF appendVars, poolVars, diskVars, loadVars
<1>0. TypeOK
  BY DEF IInv
<1>1. up = "up"
  BY Zenon, SMT
  DEF Next, vars, ThreadStep, AppendSkipped, AppendRecord, AppendWork, RecvWork, Claim,
       TakeRecord, WriteBatch, WriteFails, SyncAndNotify, Release, Recheck, Crash, LoadBegin,
       LoadNext, LoadEnd
<1>2. ASSUME NEW p \in Prefixes, AppendSkipped(p)
      PROVE  Quiet
  <2>1. rev' = rev + 1 /\ prefixOf'[rev + 1] = p /\ p \in NoPersist
    BY <1>0, <1>2, Types, Zenon DEF AppendSkipped, NextRev, TypeOK
  <2> QED
    BY <1>0, <1>2, <2>1, Types DEF AppendSkipped, Quiet
<1>3. ASSUME NEW t \in Threads, RecvWork(t) \/ Claim(t) \/ Release(t) \/ Recheck(t)
      PROVE  Quiet
  <2>1. UNCHANGED <<file, to_write, batch, rev>>
    BY <1>3, Zenon DEF RecvWork, Claim, Release, Recheck
  <2>2. /\ \A u \in Threads \ {t} : pc'[u] = pc[u] /\ on'[u] = on[u]
        /\ \/ pc'[t] = pc[t] /\ on'[t] = on[t]
           \/ pc[t] \notin {"batch", "written"} /\ pc'[t] # "written"
    BY <1>0, <1>3, Zenon, SMT DEF RecvWork, Claim, Release, Recheck, TypeOK
  <2> QED
    BY <2>1, <2>2 DEF Quiet
<1>4. CASE AppendWork \/ UNCHANGED vars
  BY <1>4, Zenon DEF AppendWork, vars, Quiet
<1> QED
  BY <1>1, <1>2, <1>3, <1>4, Zenon DEF Next, ThreadStep, Crash, LoadBegin, LoadNext, LoadEnd

\* A thread whose batch, channel and file no one touches.
LEMMA SameBatch ==
  ASSUME IInv, [Next]_vars, up = "up", NEW t \in Threads,
         pc'[t] = pc[t], on'[t] = on[t], batch'[t] = batch[t],
         pc[t] \in {"batch", "written"} =>
           file'[on[t]] = file[on[t]] /\ to_write'[on[t]] = to_write[on[t]]
  PROVE  BatchOK(t)'
<1>1. BatchOK(t)
  BY Zenon DEF IInv, PoolOK
<1>2. Of(Range(batch[t]), on[t]) => Owned(Range(batch[t]), on[t], rev', prefixOf')
  BY OwnedStep, Zenon DEF Of
<1> QED
  BY <1>1, <1>2, Zenon DEF BatchOK, Of

\* A thread without records.
LEMMA EmptyBatch ==
  ASSUME NEW t \in Threads, batch'[t] = <<>>, pc'[t] # "written"
  PROVE  BatchOK(t)'
  BY EmptyFacts, Zenon DEF BatchOK, Of, Owned, Precedes

\* A channel that no one touches.
LEMMA SameQueue ==
  ASSUME IInv, [Next]_vars, up = "up", NEW p \in Prefixes,
         file'[p] = file[p], to_write'[p] = to_write[p]
  PROVE  QueueOK(p)'
<1>1. QueueOK(p)
  BY DEF IInv, PoolOK
<1>2. Owned(Range(to_write[p]), p, rev', prefixOf')
  BY <1>1, OwnedStep DEF QueueOK, Of
<1> QED
  BY <1>1, <1>2 DEF QueueOK, Of

\* A prefix for which nothing is appended and whose batches stay.
LEMMA SameCover ==
  ASSUME IInv, [Next]_vars, up = "up", NEW p \in Prefixes,
         file'[p] = file[p], to_write'[p] = to_write[p],
         \A t \in Threads : pc[t] = "batch" /\ on[t] = p =>
           pc'[t] = "batch" /\ on'[t] = p /\ batch'[t] = batch[t],
         p \in Sound' => \A r \in 1..rev' : r \in 1..rev \/ prefixOf'[r] # p
  PROVE  CoverOK(p)'
<1>1. CoverOK(p)
  BY Zenon DEF IInv, PoolOK
<1>2. \A r : Taken(p, r) => Taken(p, r)'
  BY DEF Taken
<1>3. p \in Sound' => p \in Sound
  BY SoundStep
<1>4. \A r \in 1..rev : prefixOf'[r] = prefixOf[r]
  BY RevStep
<1> QED
  BY <1>1, <1>2, <1>3, <1>4, Zenon DEF CoverOK

\* Where the records of the pool are.
PoolData ==
  /\ \A t \in Threads : BatchOK(t)
  /\ \A p \in Prefixes : QueueOK(p) /\ CoverOK(p)

\* They stay where they are.
LEMMA QuietStep ==
  ASSUME IInv, [Next]_vars, up = "up", Quiet
  PROVE  PoolData'
<1>1. \A t \in Threads : BatchOK(t)
  BY DEF IInv, PoolOK
<1>2. ASSUME NEW t \in Threads
      PROVE  BatchOK(t)'
  <2>1. CASE pc'[t] = pc[t] /\ on'[t] = on[t]
    BY <2>1, SameBatch, Zenon DEF Quiet
  <2>2. CASE pc[t] \notin {"batch", "written"} /\ pc'[t] # "written"
    <3>1. batch'[t] = <<>>
      BY <1>1, <2>2, Zenon DEF BatchOK, Quiet
    <3> QED
      BY <2>2, <3>1, EmptyBatch
  <2> QED
    BY <2>1, <2>2 DEF Quiet
<1>3. ASSUME NEW p \in Prefixes
      PROVE  QueueOK(p)' /\ CoverOK(p)'
  <2>1. QueueOK(p)'
    BY SameQueue DEF Quiet
  <2>2. \A t \in Threads : pc[t] = "batch" /\ on[t] = p =>
          pc'[t] = "batch" /\ on'[t] = p /\ batch'[t] = batch[t]
    BY DEF Quiet
  <2>3. p \in Sound' => \A r \in 1..rev' : r \in 1..rev \/ prefixOf'[r] # p
    BY DEF Quiet, Sound
  <2>4. CoverOK(p)'
    BY <2>2, <2>3, SameCover, Zenon DEF Quiet
  <2> QED
    BY <2>1, <2>4
<1> QED
  BY <1>2, <1>3 DEF PoolData

\* The records of a set that are of a prefix come before the next revision.
LEMMA BeforeNext ==
  ASSUME NEW S, NEW p, rev \in Nat, Of(S, p)
  PROVE  Precedes(S, {NextRev})
  BY DEF Of, Owned, Precedes, NextRev

\* append adds the newest record at the end of a channel.
LEMMA AppendStep ==
  ASSUME IInv, [Next]_vars, up = "up", NEW p \in Prefixes, AppendRecord(p)
  PROVE  PoolData'
<1> USE DEF appendVars, poolVars, diskVars, loadVars
<1> DEFINE n == NextRev
<1>1. /\ TypeOK /\ \A t \in Threads : BatchOK(t)
      /\ QueueOK(p) /\ CoverOK(p) /\ FileOK(p)
  BY DEF IInv, PoolOK
<1>2. /\ n \in Revisions /\ n \in Nat /\ n > 0 /\ rev' = n /\ n = rev + 1 /\ rev \in Nat
      /\ prefixOf'[n] = p
  <2>1. rev < MaxRev /\ rev' = n /\ prefixOf' = [prefixOf EXCEPT ![n] = p]
    BY Zenon DEF AppendRecord
  <2>2. n \in Revisions /\ n \in Nat /\ rev \in Nat
    BY <1>1, <2>1, Types
  <2>3. DOMAIN prefixOf = Revisions
    BY <1>1 DEF TypeOK
  <2>4. prefixOf'[n] = p
    BY <2>1, <2>2, <2>3
  <2>5. n = rev + 1
    BY DEF NextRev
  <2> QED
    BY <2>1, <2>2, <2>4, <2>5
<1>3. /\ UNCHANGED <<file, batch, pc, on>>
      /\ to_write'[p] = Append(to_write[p], n)
      /\ \A q \in Prefixes \ {p} : to_write'[q] = to_write[q]
  BY <1>1, Zenon DEF AppendRecord, TypeOK
<1> HIDE DEF n
<1> DEFINE s == to_write[p]
<1>4. s \in Seq(Revisions) /\ InOrder(s) /\ Of(Range(s), p) /\ Precedes(Range(file[p]), Range(s))
  BY <1>1, Types, Zenon DEF QueueOK
<1> HIDE DEF s
<1>5. /\ Range(to_write'[p]) = Range(to_write[p]) \cup {n}
      /\ InOrder(to_write'[p])
  <2>1. Precedes(Range(s), {n})
    BY <1>2, <1>4, BeforeNext, Zenon, SMT DEF n
  <2>2. Range(Append(s, n)) = Range(s) \cup {n} /\ InOrder(Append(s, n))
    BY <1>2, <1>4, <2>1, AppendRange, AppendOrder
  <2> QED
    BY <1>3, <2>2 DEF s
<1>6. QueueOK(p)'
  <2>1. Precedes(Range(file[p]), {n})
    BY <1>1, <1>2, BeforeNext, Zenon, SMT DEF FileOK, n
  <2>2. Precedes(Range(file[p]), Range(s) \cup {n})
    BY <1>4, <2>1 DEF Precedes
  <2>3. Owned(Range(s), p, rev', prefixOf')
    BY <1>4, OwnedStep DEF Of
  <2>4. Owned(Range(s) \cup {n}, p, rev', prefixOf')
    BY <1>2, <2>3 DEF Owned
  <2> QED
    BY <1>3, <1>5, <2>2, <2>4, Zenon DEF QueueOK, Of, s
<1>7. CoverOK(p)'
  <2>1. \A r : Taken(p, r) => Taken(p, r)'
    BY <1>3, Zenon DEF Taken
  <2>2. p \in Sound' => p \in Sound
    BY SoundStep
  <2>3. \A r \in 1..rev : prefixOf'[r] = prefixOf[r]
    BY RevStep
  <2>4. \A r \in 1..rev' : r \in 1..rev \/ r = n
    BY <1>2, SMT, Z3
  <2> QED
    BY <1>1, <1>3, <1>5, <2>1, <2>2, <2>3, <2>4, Zenon DEF CoverOK
<1>8. ASSUME NEW q \in Prefixes, q # p
      PROVE  QueueOK(q)' /\ CoverOK(q)'
  <2>1. \A r \in 1..rev' : r \in 1..rev \/ prefixOf'[r] # q
    BY <1>2, <1>8
  <2> QED
    BY <1>3, <1>8, <2>1, SameQueue, SameCover, Zenon
<1>9. ASSUME NEW t \in Threads
      PROVE  BatchOK(t)'
  <2>1. CASE pc[t] = "batch" /\ on[t] = p
    <3> DEFINE b == batch[t]
    <3>1. InOrder(b) /\ Of(Range(b), p) /\ Precedes(Range(file[p]), Range(b))
          /\ Precedes(Range(b), Range(to_write[p]))
      BY <1>1, <2>1, Zenon DEF BatchOK
    <3> HIDE DEF b
    <3>2. Precedes(Range(b), {n})
      BY <1>2, <3>1, BeforeNext DEF n
    <3>3. Precedes(Range(b), Range(to_write[p]) \cup {n})
      BY <3>1, <3>2 DEF Precedes
    <3>4. Owned(Range(b), p, rev', prefixOf')
      BY <3>1, OwnedStep DEF Of
    <3> QED
      BY <1>3, <1>5, <2>1, <3>1, <3>3, <3>4, Zenon, SMT DEF BatchOK, Of, b
  <2>2. CASE pc[t] = "batch" /\ on[t] # p
    <3>1. on[t] \in Prefixes
      BY <2>2, ServedFacts
    <3> QED
      BY <1>3, <2>2, <3>1, SameBatch, Zenon
  <2>3. CASE pc[t] # "batch"
    <3>1. Of(Range(batch[t]), on[t]) => Owned(Range(batch[t]), on[t], rev', prefixOf')
      BY OwnedStep DEF Of
    <3> QED
      BY <1>1, <1>3, <2>3, <3>1, Zenon DEF BatchOK, Of
  <2> QED
    BY <2>1, <2>2, <2>3
<1> QED
  BY <1>6, <1>7, <1>8, <1>9 DEF PoolData

\* recv_deadline moves the oldest record of a channel to the end of a batch.
LEMMA TakeStep ==
  ASSUME IInv, [Next]_vars, up = "up", NEW t \in Threads, TakeRecord(t)
  PROVE  PoolData'
<1> USE DEF appendVars, poolVars, diskVars, loadVars
<1>1. PICK p \in Prefixes : p = on[t]
  BY ServedFacts, Zenon DEF TakeRecord
<1>2. /\ TypeOK /\ BatchOK(t) /\ QueueOK(p) /\ CoverOK(p)
  BY <1>1 DEF IInv, PoolOK
<1> DEFINE s == to_write[p]
           b == batch[t]
           h == Head(s)
<1>3. /\ pc[t] = "batch" /\ s # <<>>
      /\ s \in Seq(Revisions) /\ b \in Seq(Revisions)
      /\ InOrder(s) /\ Of(Range(s), p) /\ Precedes(Range(file[p]), Range(s))
      /\ InOrder(b) /\ Of(Range(b), p) /\ Precedes(Range(file[p]), Range(b))
      /\ Precedes(Range(b), Range(s))
  BY <1>1, <1>2, Types, Zenon DEF TakeRecord, BatchOK, QueueOK
<1>4. /\ UNCHANGED <<file, pc, on, rev, prefixOf, failures>>
      /\ to_write'[p] = Tail(s) /\ batch'[t] = Append(b, h)
      /\ \A q \in Prefixes \ {p} : to_write'[q] = to_write[q]
      /\ \A u \in Threads \ {t} : batch'[u] = batch[u]
  BY <1>1, <1>2, Zenon DEF TakeRecord, TypeOK
<1> HIDE DEF s, b
<1>5. /\ h \in Revisions /\ Range(s) = {h} \cup Range(Tail(s))
      /\ InOrder(Tail(s)) /\ Precedes({h}, Range(Tail(s)))
  BY <1>3, TailFacts, Zenon, SMT
<1> HIDE DEF h
<1>6. /\ Precedes(Range(b), {h}) /\ Precedes(Range(b), Range(Tail(s)))
      /\ Precedes(Range(file[p]), {h}) /\ Precedes(Range(file[p]), Range(Tail(s)))
  BY <1>3, <1>5, Zenon DEF Precedes
<1>7. Of(Range(Tail(s)), p) /\ Of({h}, p)
  BY <1>3, <1>5, Zenon DEF Of, Owned
<1>8. Range(Append(b, h)) = Range(b) \cup {h} /\ InOrder(Append(b, h))
  BY <1>3, <1>5, <1>6, AppendRange, AppendOrder, SMT, Z3
<1>9. BatchOK(t)'
  <2>1. /\ Precedes(Range(file[p]), Range(b) \cup {h})
        /\ Precedes(Range(b) \cup {h}, Range(Tail(s)))
    BY <1>3, <1>5, <1>6, Zenon DEF Precedes
  <2>2. Owned(Range(b) \cup {h}, p, rev, prefixOf)
    BY <1>3, <1>7, Zenon DEF Of, Owned
  <2> QED
    BY <1>1, <1>3, <1>4, <1>8, <2>1, <2>2, Zenon DEF BatchOK, Of
<1>10. QueueOK(p)'
  BY <1>4, <1>5, <1>6, <1>7, Zenon DEF QueueOK, Of
<1>11. CoverOK(p)'
  <2>1. \A r : Taken(p, r) => Taken(p, r)'
    BY <1>4, <1>8, Zenon, SMT DEF Taken, b
  <2>2. \A r : r = h => Taken(p, r)'
    BY <1>1, <1>3, <1>4, <1>8, Zenon, SMT DEF Taken
  <2>3. p \in Sound' => p \in Sound
    BY SoundStep
  <2> QED
    BY <1>2, <1>4, <1>5, <2>1, <2>2, <2>3, Zenon DEF CoverOK, s
<1>12. ASSUME NEW q \in Prefixes, q # p
       PROVE  QueueOK(q)' /\ CoverOK(q)'
  BY <1>1, <1>4, <1>12, SameQueue, SameCover, Zenon
<1>13. ASSUME NEW u \in Threads, u # t
       PROVE  BatchOK(u)'
  <2>1. CASE pc[u] \in {"batch", "written"}
    <3>1. on[u] # p /\ on[u] \in Prefixes
      BY <1>1, <1>3, <1>13, <2>1, Alone, ServedFacts, Zenon DEF Writing
    <3> QED
      BY <1>4, <1>13, <3>1, SameBatch, Zenon
  <2>2. CASE pc[u] \notin {"batch", "written"}
    BY <1>4, <1>13, <2>2, SameBatch, Zenon
  <2> QED
    BY <2>1, <2>2
<1> QED
  BY <1>9, <1>10, <1>11, <1>12, <1>13 DEF PoolData

\* The threads and prefixes that a write of thread t leaves alone.
LEMMA OthersStep ==
  ASSUME IInv, [Next]_vars, up = "up", NEW t \in Threads, Writing(t),
         UNCHANGED <<to_write, on, rev, prefixOf>>,
         \A q \in Prefixes \ {on[t]} : file'[q] = file[q],
         \A u \in Threads \ {t} : pc'[u] = pc[u] /\ batch'[u] = batch[u]
  PROVE  /\ \A u \in Threads \ {t} : BatchOK(u)'
         /\ \A q \in Prefixes \ {on[t]} : QueueOK(q)' /\ CoverOK(q)'
<1>1. ASSUME NEW u \in Threads \ {t}
      PROVE  BatchOK(u)'
  <2>1. CASE pc[u] \in {"batch", "written"}
    <3>1. on[u] # on[t] /\ on[u] \in Prefixes
      BY <2>1, Alone, ServedFacts, Zenon DEF Writing
    <3> QED
      BY <3>1, SameBatch, Zenon
  <2>2. CASE pc[u] \notin {"batch", "written"}
    BY <2>2, SameBatch, Zenon
  <2> QED
    BY <2>1, <2>2
<1>2. ASSUME NEW q \in Prefixes \ {on[t]}
      PROVE  QueueOK(q)' /\ CoverOK(q)'
  <2>1. \A u \in Threads : pc[u] = "batch" /\ on[u] = q =>
          pc'[u] = "batch" /\ on'[u] = q /\ batch'[u] = batch[u]
    OBVIOUS
  <2> QED
    BY <2>1, SameQueue, SameCover, Zenon
<1> QED
  BY <1>1, <1>2

\* write moves a batch to the end of the file.
LEMMA WriteStep ==
  ASSUME IInv, [Next]_vars, up = "up", NEW t \in Threads, WriteBatch(t)
  PROVE  PoolData'
<1> USE DEF appendVars, poolVars, diskVars, loadVars
<1>1. PICK p \in Prefixes : p = on[t]
  BY ServedFacts, Zenon DEF WriteBatch
<1>2. TypeOK /\ BatchOK(t) /\ QueueOK(p) /\ CoverOK(p)
  BY <1>1 DEF IInv, PoolOK
<1>3. /\ pc[t] = "batch" /\ \A q \in Prefixes \ {p} : file'[q] = file[q]
      /\ Range(file'[p]) = Range(file[p]) \cup Range(batch[t])
  BY <1>1, WriteFacts
<1>4. /\ UNCHANGED <<to_write, on, batch, rev, prefixOf, failures>>
      /\ pc'[t] = "written" /\ \A u \in Threads \ {t} : pc'[u] = pc[u]
  BY <1>2, Zenon DEF WriteBatch, TypeOK
<1>5. /\ \A u \in Threads \ {t} : BatchOK(u)'
      /\ \A q \in Prefixes \ {p} : QueueOK(q)' /\ CoverOK(q)'
  BY <1>1, <1>3, <1>4, OthersStep, Zenon DEF Writing
<1>6. BatchOK(t)'
  BY <1>1, <1>2, <1>3, <1>4, Zenon DEF BatchOK, Of
<1>7. QueueOK(p)'
  <2>1. Precedes(Range(file'[p]), Range(to_write[p]))
    BY <1>1, <1>2, <1>3, Zenon DEF BatchOK, QueueOK, Precedes
  <2> QED
    BY <1>2, <1>4, <2>1, Zenon DEF QueueOK, Of
<1>8. CoverOK(p)'
  <2>1. \A r : Taken(p, r) => r \in Range(batch[t])
    BY <1>1, <1>3, Alone, Zenon DEF Taken, Writing
  <2>2. p \in Sound' => p \in Sound
    BY SoundStep
  <2> QED
    BY <1>2, <1>3, <1>4, <2>1, <2>2, Zenon DEF CoverOK
<1> QED
  BY <1>5, <1>6, <1>7, <1>8 DEF PoolData

\* A write that fails loses records of its own prefix, which is not sound any
\* more.
LEMMA FailStep ==
  ASSUME IInv, [Next]_vars, up = "up", NEW t \in Threads, WriteFails(t)
  PROVE  PoolData'
<1> USE DEF appendVars, poolVars, diskVars, loadVars
<1>1. PICK p \in Prefixes : p = on[t]
  BY ServedFacts, Zenon DEF WriteFails
<1>2. TypeOK /\ BatchOK(t) /\ QueueOK(p)
  BY <1>1 DEF IInv, PoolOK
<1>3. /\ pc[t] = "batch" /\ \A q \in Prefixes \ {p} : file'[q] = file[q]
      /\ Range(file'[p]) \subseteq Range(file[p]) \cup Range(batch[t]) \cup {0}
  BY <1>1, WriteFacts
<1>4. /\ UNCHANGED <<to_write, on, rev, prefixOf>>
      /\ pc'[t] = "release" /\ batch'[t] = <<>>
      /\ \A u \in Threads \ {t} : pc'[u] = pc[u] /\ batch'[u] = batch[u]
  BY <1>2, Zenon DEF WriteFails, TypeOK
<1>5. /\ \A u \in Threads \ {t} : BatchOK(u)'
      /\ \A q \in Prefixes \ {p} : QueueOK(q)' /\ CoverOK(q)'
  BY <1>1, <1>3, <1>4, OthersStep, Zenon DEF Writing
<1>6. BatchOK(t)'
  BY <1>4, EmptyBatch
<1>7. QueueOK(p)'
  <2>1. Precedes(Range(file'[p]), Range(to_write[p]))
    BY <1>1, <1>2, <1>3, Zenon DEF BatchOK, QueueOK, Precedes
  <2> QED
    BY <1>2, <1>4, <2>1, Zenon DEF QueueOK, Of
<1>8. CoverOK(p)'
  BY <1>1, FailedUnsound DEF CoverOK
<1> QED
  BY <1>5, <1>6, <1>7, <1>8 DEF PoolData

\* The waiters are notified and the batch is empty again.
LEMMA NotifyStep ==
  ASSUME IInv, [Next]_vars, up = "up", NEW t \in Threads, SyncAndNotify(t)
  PROVE  PoolData'
<1> USE DEF appendVars, poolVars, diskVars, loadVars
<1>1. PICK p \in Prefixes : p = on[t]
  BY ServedFacts, Zenon DEF SyncAndNotify
<1>2. TypeOK /\ pc[t] = "written"
  BY Zenon DEF IInv, SyncAndNotify
<1>3. /\ UNCHANGED <<file, to_write, on, rev, prefixOf>>
      /\ pc'[t] = "release" /\ batch'[t] = <<>>
      /\ \A u \in Threads \ {t} : pc'[u] = pc[u] /\ batch'[u] = batch[u]
  BY <1>2 DEF SyncAndNotify, TypeOK
<1>4. \A u \in Threads \ {t} : BatchOK(u)'
  BY <1>2, <1>3, OthersStep, Zenon DEF Writing
<1>5. BatchOK(t)'
  BY <1>3, EmptyBatch
<1>6. ASSUME NEW q \in Prefixes
      PROVE  QueueOK(q)' /\ CoverOK(q)'
  <2>1. \A u \in Threads : pc[u] = "batch" /\ on[u] = q =>
          pc'[u] = "batch" /\ on'[u] = q /\ batch'[u] = batch[u]
    BY <1>2, <1>3
  <2> QED
    BY <1>3, <2>1, SameQueue, SameCover, Zenon
<1> QED
  BY <1>4, <1>5, <1>6 DEF PoolData

\* The pool keeps its records in order and loses none.
LEMMA PoolStep == ASSUME IInv, [Next]_vars PROVE PoolOK'
<1> USE DEF appendVars, poolVars, diskVars, loadVars
<1> SUFFICES ASSUME up' = "up"
             PROVE  /\ ExclusionOK' /\ PoolData'
                    /\ (appending => rev > 0 /\ prefixOf[rev] \in Prefixes)'
  BY DEF PoolOK, PoolData
<1>1. up = "up" /\ PoolData'
  BY PoolSteps, QuietStep, AppendStep, TakeStep, WriteStep, FailStep, NotifyStep
<1>2. ExclusionOK'
  BY ExclusionStep
<1>3. ASSUME appending'
      PROVE  rev' > 0 /\ prefixOf'[rev'] \in Prefixes
  <2>1. CASE \E p \in Prefixes : AppendRecord(p)
    <3>1. PICK p \in Prefixes : AppendRecord(p)
      BY <2>1
    <3>2. TypeOK
      BY DEF IInv
    <3>3. rev' = NextRev /\ NextRev \in Revisions /\ prefixOf'[NextRev] = p
      BY <3>1, <3>2, Types, Zenon, SMT DEF AppendRecord, TypeOK
    <3> QED
      BY <3>3 DEF Revisions
  <2>2. CASE UNCHANGED <<appending, rev, prefixOf>>
    BY <1>1, <1>3, <2>2 DEF IInv, PoolOK
  <2>3. ASSUME NEW t \in Threads, ThreadStep(t)
        PROVE  UNCHANGED <<appending, rev, prefixOf>>
    BY <2>3, Zenon
      DEF ThreadStep, RecvWork, Claim, TakeRecord, WriteBatch, WriteFails, SyncAndNotify,
          Release, Recheck
  <2>4. ASSUME \/ AppendWork \/ Crash \/ LoadBegin \/ LoadEnd
               \/ \E p \in Prefixes : AppendSkipped(p) \/ LoadNext(p)
        PROVE  FALSE
    BY <1>1, <1>3, <2>4, Zenon
      DEF AppendSkipped, AppendWork, Crash, LoadBegin, LoadNext, LoadEnd
  <2>5. UNCHANGED vars => UNCHANGED <<appending, rev, prefixOf>>
    BY Zenon DEF vars
  <2> QED
    BY <2>1, <2>2, <2>3, <2>4, <2>5, Zenon DEF Next
<1> QED
  BY <1>1, <1>2, <1>3

-----------------------------------------------------------------------------
(* The waiters.                                                            *)

\* What is fsynced stays: no write, no failure and no crash changes it.
LEMMA DurableStep ==
  ASSUME IInv, [Next]_vars, NEW p \in Prefixes
  PROVE  /\ durable[p] <= durable'[p]
         /\ \A i \in 1..durable[p] : file'[p][i] = file[p][i]
<1> USE DEF appendVars, poolVars, diskVars, loadVars
<1>0. /\ TypeOK /\ durable[p] \in Nat /\ Len(file[p]) \in Nat /\ durable[p] <= Len(file[p])
      /\ file[p] \in Seq(Revisions \cup {0})
  BY Types, Zenon DEF IInv
<1>1. ASSUME NEW t \in Threads, WriteBatch(t) \/ WriteFails(t)
      PROVE  durable' = durable /\ \A i \in 1..durable[p] : file'[p][i] = file[p][i]
  <2>1. durable' = durable
    BY <1>1, Zenon, SMT DEF WriteBatch, WriteFails
  <2>2. PICK q \in Prefixes : q = on[t]
    BY <1>1, ServedFacts, Zenon, SMT DEF WriteBatch, WriteFails
  <2>3. p = q => \A i \in 1..Len(file[p]) : file'[p][i] = file[p][i]
    BY <1>1, <2>2, WriteFacts, Zenon
  <2>4. p # q => file'[p] = file[p]
    BY <1>1, <2>2, WriteFacts
  <2>5. \A i \in 1..durable[p] : i \in 1..Len(file[p])
    BY <1>0
  <2> QED
    BY <2>1, <2>3, <2>4, <2>5, Zenon, SMT
<1>2. ASSUME NEW t \in Threads, SyncAndNotify(t)
      PROVE  file' = file /\ durable[p] <= durable'[p]
  <2>1. Synced(t) = Len(file[on[t]]) \/ Synced(t) = durable[on[t]]
    BY DEF Synced
  <2>2. /\ file' = file
        /\ \/ durable' = durable
           \/ durable' = [durable EXCEPT ![on[t]] = Synced(t)]
    BY <1>2, Zenon DEF SyncAndNotify
  <2>3. durable'[p] = durable[p] \/ (on[t] = p /\ durable'[p] = Synced(t))
    BY <1>0, <2>2, Zenon DEF TypeOK
  <2> QED
    BY <1>0, <2>1, <2>2, <2>3
<1>3. ASSUME Crash
      PROVE  durable' = durable /\ \A i \in 1..durable[p] : file'[p][i] = file[p][i]
  <2>1. PICK cut \in [Prefixes -> 0..MaxRev + MaxFailures] :
          /\ \A q \in Prefixes : durable[q] <= cut[q] /\ cut[q] <= Len(file[q])
          /\ file' = [q \in Prefixes |-> SubSeq(file[q], 1, cut[q])]
    BY <1>3, Zenon, SMT DEF Crash
  <2>2. cut[p] \in 0..Len(file[p]) /\ durable[p] <= cut[p] /\ cut[p] \in Nat
    BY <1>0, <2>1, WalAssumption
  <2>3. file'[p] = SubSeq(file[p], 1, cut[p])
    BY <2>1
  <2>4. \A i \in 1..cut[p] : file'[p][i] = file[p][i]
    BY <1>0, <2>2, <2>3, CutFacts
  <2>5. \A i \in 1..durable[p] : i \in 1..cut[p]
    BY <1>0, <2>2, SMT, Z3
  <2> QED
    BY <1>3, <2>4, <2>5, Zenon, SMT DEF Crash
<1>4. \/ UNCHANGED <<file, durable>> \/ Crash
      \/ \E t \in Threads : WriteBatch(t) \/ WriteFails(t) \/ SyncAndNotify(t)
  BY Zenon DEF Next, vars, ThreadStep, AppendSkipped, AppendRecord, AppendWork, RecvWork, Claim,
       TakeRecord, Release, Recheck, LoadBegin, LoadNext, LoadEnd
<1>5. CASE UNCHANGED <<file, durable>>
  BY <1>0, <1>5
<1> QED
  BY <1>0, <1>1, <1>2, <1>3, <1>4, <1>5, SMT, Z3

\* Record r of prefix p is fsynced.
Stored(p, r) == \E i \in 1..durable[p] : file[p][i] = r

\* The new acknowledgements: of a record that need not be stored, or of those
\* of a batch.
LEMMA NewlyAcked ==
  ASSUME IInv, [Next]_vars, NEW r \in acked', r \notin acked
  PROVE  /\ r \in 1..rev'
         /\ Sync /\ prefixOf'[r] \in Sound' => Stored(prefixOf[r], r)'
<1> USE DEF appendVars, poolVars, diskVars, loadVars
<1>0. TypeOK /\ Sync \in BOOLEAN
  BY WalAssumption DEF IInv
<1>1. ASSUME NEW p \in Prefixes, AppendSkipped(p)
      PROVE  r \in 1..rev' /\ prefixOf'[r] \notin Sound'
  <2>1. /\ r = NextRev /\ rev' = NextRev /\ NextRev \in Revisions /\ NextRev \in Nat
        /\ prefixOf'[NextRev] = p /\ p \in NoPersist
    BY <1>0, <1>1, Types, Zenon, SMT DEF AppendSkipped, TypeOK
  <2> QED
    BY <2>1, SMT, Z3 DEF Sound, Revisions
<1>2. ASSUME NEW t \in Threads, WriteFails(t) \/ SyncAndNotify(t)
      PROVE  /\ pc[t] \in {"batch", "written"} /\ on[t] \in Prefixes
             /\ r \in Range(batch[t]) /\ r \in 1..rev' /\ prefixOf'[r] = on[t]
  <2>1. /\ up = "up" /\ pc[t] \in {"batch", "written"} /\ r \in Range(batch[t])
        /\ UNCHANGED <<rev, prefixOf>>
    BY <1>2, Zenon, SMT DEF WriteFails, SyncAndNotify
  <2>2. r \in Revisions /\ r # 0
    BY <1>0, <2>1, Types, RangeIs, SMT, Z3 DEF Revisions
  <2>3. Of(Range(batch[t]), on[t])
    BY <2>1, Zenon DEF IInv, PoolOK, BatchOK
  <2> QED
    BY <2>1, <2>2, <2>3, ServedFacts, Zenon, SMT DEF Of, Owned
<1>3. ASSUME NEW t \in Threads, WriteFails(t)
      PROVE  r \in 1..rev' /\ prefixOf'[r] \notin Sound'
  BY <1>2, <1>3, FailedUnsound
<1>4. ASSUME NEW t \in Threads, SyncAndNotify(t)
      PROVE  r \in 1..rev' /\ (Sync /\ prefixOf'[r] \in Sound' => Stored(prefixOf[r], r)')
  <2>1. PICK p \in Prefixes : p = on[t]
    BY <1>2, <1>4
  <2>2. /\ pc[t] = "written" /\ up = "up" /\ file' = file /\ r \in Range(batch[t])
        /\ prefixOf'[r] = p /\ r \in 1..rev'
    BY <1>2, <1>4, <2>1, Zenon, SMT DEF SyncAndNotify
  <2>3. CASE durable' = [durable EXCEPT ![on[t]] = Synced(t)]
    <3>1. r \in Range(file[p])
      BY <2>1, <2>2, Zenon DEF IInv, PoolOK, BatchOK
    <3>2. PICK i \in 1..Len(file[p]) : file[p][i] = r
      BY <1>0, <3>1, Types, RangeIs
    <3>3. Sync => durable'[p] = Len(file[p])
      BY <1>0, <2>1, <2>3, Zenon DEF Synced, TypeOK
    <3> QED
      BY <2>2, <3>2, <3>3 DEF Stored
  <2>4. CASE failures' = Append(failures, on[t])
    <3>1. Range(failures') = Range(failures) \cup {p}
      BY <1>0, <2>1, <2>4, AppendRange, SMT, Z3 DEF TypeOK
    <3> QED
      BY <2>2, <3>1 DEF Sound
  <2> QED
    BY <1>4, <2>3, <2>4, Zenon DEF SyncAndNotify
<1>5. \/ \E p \in Prefixes : AppendSkipped(p)
      \/ \E t \in Threads : WriteFails(t) \/ SyncAndNotify(t)
  BY Zenon, SMT DEF Next, vars, ThreadStep, AppendRecord, AppendWork, RecvWork, Claim,
       TakeRecord, WriteBatch, Release, Recheck, Crash, LoadBegin, LoadNext, LoadEnd
<1> QED
  BY <1>1, <1>3, <1>4, <1>5

\* In Sync mode no waiter is told too early.
LEMMA AckedStep == ASSUME IInv, [Next]_vars PROVE AckedOK'
<1>0. acked \subseteq 1..rev
  BY DEF IInv, AckedOK
<1>1. \A r \in acked : r \in 1..rev /\ r \in 1..rev' /\ prefixOf'[r] = prefixOf[r]
  BY <1>0, RevStep
<1>2. ASSUME NEW r \in acked, Sync, prefixOf'[r] \in Sound'
      PROVE  Stored(prefixOf[r], r)'
  <2>1. PICK p \in Prefixes : p = prefixOf'[r] /\ p = prefixOf[r] /\ p \in Sound
    BY <1>1, <1>2, SoundStep DEF Sound
  <2>2. PICK i \in 1..durable[p] : file[p][i] = r
    BY <1>2, <2>1, Zenon DEF IInv, AckedOK
  <2>3. durable[p] \in Nat /\ durable'[p] \in Nat
    BY TypeStep, Zenon, SMT DEF IInv, TypeOK
  <2>4. i \in 1..durable'[p] /\ file'[p][i] = r
    BY <2>2, <2>3, DurableStep
  <2> QED
    BY <2>1, <2>4 DEF Stored
<1>3. acked' \subseteq 1..rev'
  BY <1>1, NewlyAcked
<1>4. ASSUME NEW r \in acked', Sync, prefixOf'[r] \in Sound'
      PROVE  Stored(prefixOf[r], r)'
  BY <1>2, <1>4, NewlyAcked
<1> QED
  BY <1>3, <1>4 DEF AckedOK, Stored

-----------------------------------------------------------------------------
(* The theorems.                                                           *)

\* An empty log satisfies the invariant.
LEMMA InvInit == ASSUME Init PROVE IInv
<1>1. TypeOK
  BY TypeInit
<1>2. rev = 0 /\ acked = {} /\ replayed = <<>> /\ up = "up" /\ appending = FALSE
  BY DEF Init
<1>3. \A p \in Prefixes : file[p] = <<>> /\ to_write[p] = <<>>
  BY DEF Init
<1>4. \A t \in Threads : pc[t] = "recv" /\ batch[t] = <<>>
  BY DEF Init
<1>5. ExclusionOK
  BY <1>4 DEF ExclusionOK, Writing
<1>6. \A t \in Threads : BatchOK(t)
  BY <1>4, Zenon DEF BatchOK
<1>7. \A p \in Prefixes : QueueOK(p) /\ FileOK(p) /\ CoverOK(p)
  BY <1>2, <1>3, EmptyFacts DEF QueueOK, FileOK, CoverOK, Of, Owned, Precedes
<1>8. AckedOK /\ LoadOK
  BY <1>2, EmptyFacts DEF AckedOK, LoadOK
<1> QED
  BY <1>1, <1>2, <1>5, <1>6, <1>7, <1>8 DEF IInv, PoolOK

\* Every step keeps it.
LEMMA InvStep == ASSUME IInv, [Next]_vars PROVE IInv'
<1>1. \A p \in Prefixes : FileOK(p)'
  BY FileStep
<1> QED
  BY <1>1, TypeStep, PoolStep, AckedStep, LoadStep DEF IInv

\* A sequence in order, without a fragment, is increasing.
LEMMA WithoutFragments ==
  ASSUME NEW S, NEW s \in Seq(S), InOrder(s), 0 \notin Range(s)
  PROVE  Increasing(s)
<1>1. \A i \in 1..Len(s) : s[i] # 0
  BY RangeIs
<1> QED
  BY <1>1 DEF InOrder, Increasing

\* The three places of the records of a prefix, one behind the other.
LEMMA Together ==
  ASSUME NEW S, NEW f \in Seq(S), NEW b \in Seq(S), NEW q \in Seq(S),
         InOrder(f), InOrder(b), InOrder(q),
         Precedes(Range(f), Range(b)), Precedes(Range(b), Range(q)), Precedes(Range(f), Range(q)),
         0 \notin Range(f) \cup Range(b) \cup Range(q)
  PROVE  /\ Increasing(f \o b \o q)
         /\ Range(f \o b \o q) = Range(f) \cup Range(b) \cup Range(q)
<1> DEFINE w == f \o b
<1>1. w \in Seq(S) /\ InOrder(w) /\ Range(w) = Range(f) \cup Range(b)
  BY ConcatFacts
<1> HIDE DEF w
<1>2. Precedes(Range(w), Range(q))
  BY <1>1 DEF Precedes
<1>3. w \o q \in Seq(S) /\ InOrder(w \o q) /\ Range(w \o q) = Range(w) \cup Range(q)
  <2>1. w \in Seq(S) /\ InOrder(w)
    BY <1>1
  <2> QED
    BY <1>2, <2>1, ConcatFacts
<1>4. Increasing(w \o q)
  BY <1>1, <1>3, WithoutFragments, Zenon, SMT
<1> QED
  BY <1>1, <1>3, <1>4 DEF w

\* The invariant says where every record of a prefix is.
LEMMA InvRecords == ASSUME IInv PROVE RecordsInOrder
<1> SUFFICES ASSUME up = "up", NEW p \in Sound
             PROVE  \E b \in {<<>>} \cup {batch[t] : t \in Unwritten(p)} :
                      LET all == file[p] \o b \o to_write[p] IN
                      /\ b = <<>> => Unwritten(p) = {}
                      /\ Increasing(all)
                      /\ Range(all) = {r \in 1..rev : prefixOf[r] = p}
  BY DEF RecordsInOrder
<1> DEFINE f == file[p]
           q == to_write[p]
           S == Revisions \cup {0}
<1>1. /\ p \in Prefixes /\ TypeOK /\ QueueOK(p) /\ CoverOK(p) /\ FileOK(p) /\ rev \in Nat
      /\ \A t \in Threads : BatchOK(t)
  BY Types DEF Sound, IInv, PoolOK
<1>2. f \in Seq(S) /\ q \in Seq(Revisions) /\ q \in Seq(S)
  BY <1>1, Types, SMT, Z3
<1>3. /\ InOrder(f) /\ InOrder(q) /\ Precedes(Range(f), Range(q))
      /\ Owned(Range(f), p, rev, prefixOf) /\ Owned(Range(q), p, rev, prefixOf)
      /\ 0 \notin Range(f)
  BY <1>1, Zenon DEF QueueOK, FileOK, Of
<1>4. 0 \notin Revisions
  BY DEF Revisions
<1>5. 0 \notin Range(q)
  BY <1>2, <1>4, RangeIs
\* A batch b that holds all that is taken stands between the file and the channel.
<1>6. ASSUME NEW b \in Seq(Revisions), InOrder(b), Owned(Range(b), p, rev, prefixOf),
             Precedes(Range(f), Range(b)), Precedes(Range(b), Range(q)),
             \A r : Taken(p, r) => r \in Range(b)
      PROVE  /\ Increasing(f \o b \o q)
             /\ Range(f \o b \o q) = {r \in 1..rev : prefixOf[r] = p}
  <2>1. b \in Seq(S) /\ 0 \notin Range(b)
    BY <1>4, <1>6, RangeIs
  <2>2. /\ Increasing(f \o b \o q)
        /\ Range(f \o b \o q) = Range(f) \cup Range(b) \cup Range(q)
    <3> HIDE DEF f, q, S
    <3>1. 0 \notin Range(f) \cup Range(b) \cup Range(q)
      BY <1>3, <1>5, <2>1
    <3> QED
      BY <1>2, <1>3, <1>6, <2>1, <3>1, Together
  <2>3. \A r \in Range(f) \cup Range(b) \cup Range(q) : r \in 1..rev /\ prefixOf[r] = p
    BY <1>3, <1>5, <1>6, <2>1, Zenon DEF Owned
  <2>4. \A r \in 1..rev : prefixOf[r] = p => r \in Range(f) \cup Range(b) \cup Range(q)
    BY <1>1, <1>6, Zenon DEF CoverOK
  <2> HIDE DEF f, q, S
  <2> QED
    BY <2>2, <2>3, <2>4
<1>7. CASE Unwritten(p) = {}
  <2>1. \A r : ~Taken(p, r)
    BY <1>7, EmptyFacts DEF Taken, Unwritten
  <2>2. <<>> \in Seq(Revisions)
    OBVIOUS
  <2>3. /\ Increasing(f \o <<>> \o q)
        /\ Range(f \o <<>> \o q) = {r \in 1..rev : prefixOf[r] = p}
    BY <1>6, <2>1, <2>2, EmptyFacts, Zenon DEF Owned, Precedes
  <2>4. <<>> \in {<<>>} \cup {batch[t] : t \in Unwritten(p)}
    BY Zenon
  <2> QED
    BY <1>7, <2>3, <2>4, Zenon
<1>8. ASSUME NEW t \in Unwritten(p)
      PROVE  \E b \in {<<>>} \cup {batch[u] : u \in Unwritten(p)} :
               LET all == file[p] \o b \o to_write[p] IN
               /\ b = <<>> => Unwritten(p) = {}
               /\ Increasing(all)
               /\ Range(all) = {r \in 1..rev : prefixOf[r] = p}
  <2>1. t \in Threads /\ on[t] = p /\ pc[t] = "batch" /\ batch[t] # <<>>
    BY DEF Unwritten
  <2>2. /\ batch[t] \in Seq(Revisions) /\ InOrder(batch[t])
        /\ Owned(Range(batch[t]), p, rev, prefixOf)
        /\ Precedes(Range(f), Range(batch[t])) /\ Precedes(Range(batch[t]), Range(q))
    BY <1>1, <2>1, Types, Zenon DEF BatchOK, Of
  <2>3. \A r : Taken(p, r) => r \in Range(batch[t])
    BY <2>1, Alone, Zenon, SMT DEF Taken, Writing
  <2>4. /\ Increasing(f \o batch[t] \o q)
        /\ Range(f \o batch[t] \o q) = {r \in 1..rev : prefixOf[r] = p}
    BY <1>6, <2>2, <2>3, Zenon, SMT
  <2> WITNESS batch[t] \in {<<>>} \cup {batch[u] : u \in Unwritten(p)}
  <2> QED
    BY <2>1, <2>4
<1> QED
  BY <1>7, <1>8, Zenon

\* ... and that what was fsynced is replayed, ...
LEMMA InvAcked == ASSUME IInv PROVE AckedReplayed
<1> SUFFICES ASSUME up = "loaded", Sync, NEW r \in acked, prefixOf[r] \in Sound
             PROVE  r \in Range(replayed)
  BY DEF AckedReplayed
<1>1. PICK p \in Prefixes : p = prefixOf[r] /\ p \in Sound
  BY DEF Sound
<1>2. PICK i \in 1..durable[p] : file[p][i] = r
  BY <1>1 DEF IInv, AckedOK
<1>3. pos[p] = Len(file[p]) /\ \A k \in 1..pos[p] : file[p][k] \in Range(replayed)
  BY <1>1, Zenon DEF IInv, LoadOK
<1>4. i \in 1..pos[p]
  BY <1>3, Types DEF IInv
<1> QED
  BY <1>2, <1>3, <1>4

\* ... in order, a beginning of every sound file.
LEMMA InvReplay == ASSUME IInv PROVE ReplayInOrder
<1>1. InOrder(replayed)
  BY Zenon DEF IInv, LoadOK
<1>2. ASSUME up = "loaded", NEW r \in Range(replayed) \ {0}, prefixOf[r] \in Sound,
             NEW q \in 1..r, prefixOf[q] = prefixOf[r]
      PROVE  q \in Range(replayed)
  <2>1. PICK p \in Prefixes : p = prefixOf[r] /\ p \in Sound /\ r \in Range(file[p])
    BY <1>2, Zenon DEF IInv, LoadOK
  <2>2. /\ Owned(Range(file[p]), p, rev, prefixOf)
        /\ \A x \in Range(file[p]), k \in 1..rev :
             k <= x /\ prefixOf[k] = p => k \in Range(file[p])
    BY <2>1, Zenon DEF IInv, FileOK, Of
  <2>3. r \in 1..rev /\ rev \in Nat
    BY <1>2, <2>1, <2>2, Types, Zenon DEF Owned, IInv
  <2>4. q \in Range(file[p])
    BY <1>2, <2>1, <2>2, <2>3
  <2>5. PICK i \in 1..Len(file[p]) : file[p][i] = q
    BY <2>4, Types, RangeIs, Zenon DEF IInv
  <2>6. pos[p] = Len(file[p]) /\ \A k \in 1..pos[p] : file[p][k] \in Range(replayed)
    BY <1>2, <2>1, Zenon DEF IInv, LoadOK
  <2> QED
    BY <2>5, <2>6
<1> QED
  BY <1>1, <1>2 DEF ReplayInOrder

\* The invariant holds of every log: append, the writer threads in any
\* interleaving, failed writes, a crash at any point and load_wal_dir.
THEOREM Invariance == Spec => []IInv
<1>1. Init => IInv
  BY InvInit
<1>2. IInv /\ [Next]_vars => IInv'
  BY InvStep
<1> QED
  BY <1>1, <1>2, PTL DEF Spec

\* Every variable of wal.rs keeps its type, and no more of a file is taken for
\* fsynced than it holds.
THEOREM TypeCorrect == Spec => []TypeOK
<1>1. IInv => TypeOK
  BY DEF IInv
<1> QED
  BY <1>1, Invariance, PTL

\* File, batch and channel of a prefix hold its records in order, each once and
\* none missing, whichever writer thread serves it next: is_writing is enough.
THEOREM RecordsInOrderCorrect == Spec => []RecordsInOrder
<1>1. IInv => RecordsInOrder
  BY InvRecords
<1> QED
  BY <1>1, Invariance, PTL

\* In Sync mode a waiter that was notified finds its record after a crash.
THEOREM AckedReplayedCorrect == Spec => []AckedReplayed
<1>1. IInv => AckedReplayed
  BY InvAcked
<1> QED
  BY <1>1, Invariance, PTL

\* load_wal_dir replays the files in revision order, of every sound file a
\* beginning.
THEOREM ReplayInOrderCorrect == Spec => []ReplayInOrder
<1>1. IInv => ReplayInOrder
  BY InvReplay
<1> QED
  BY <1>1, Invariance, PTL

\* A step keeps the fsynced part of every file.
KeepsFsynced ==
  \A p \in Prefixes : /\ durable[p] <= durable'[p]
                      /\ \A i \in 1..durable[p] : file'[p][i] = file[p][i]

\* What was fsynced stays what it was, over failed writes and a crash too.
THEOREM FsyncedStays == Spec => [][KeepsFsynced]_vars
<1>1. IInv /\ [Next]_vars => KeepsFsynced
  BY DurableStep, Zenon DEF KeepsFsynced
<1> QED
  BY <1>1, Invariance, PTL DEF Spec

=============================================================================
