-------------------------- MODULE WatchStreamProofs --------------------------
(***************************************************************************)
(* Proofs about WatchStream, for any number of writers and watchers, any   *)
(* capacity and any bound on revisions, from those about Notifier.         *)
(***************************************************************************)
EXTENDS WatchStream, NotifierProofs

-----------------------------------------------------------------------------
(* The inductive invariants.                                               *)

\* A watch of one key: its past changes come from one scan, and what it has
\* yielded is increasing and not above max_event_stream_rev.
OrderOK(t) ==
  /\ spc[t] \in {"new", "begun"} \/ todo[t] # {} => past[t] = <<>>
  /\ Increasing(past[t])
  /\ Increasing(sent[t])
  /\ \A i \in 1..Len(sent[t]) : sent[t][i] <= max_rev[t]

\* Every committed revision has its key.
StoreOK == \A r \in 1..rev : r \in Revisions /\ key[r] \in Keys

\* A stream is served while its watcher is registered, with its start_rev.
LinkOK(t) ==
  /\ spc[t] \in {"scan", "open", "polled"} => watcher[t] = "open" /\ start[t] = start_rev[t]
  /\ spc[t] \in {"new", "begun", "scan"} => got[t] = <<>>
  /\ since[t] <= rev

\* Revision r is in s or compacted.
Covered(r, s) == InSeq(r, s) \/ r <= earliest

\* The past changes cover what the watch asked for, up to its registration and
\* up to their own last revision.
PastOK(t) ==
  spc[t] = "scan" =>
    /\ asked[t] = 0 => todo[t] = {} /\ past[t] = <<>>
    /\ asked[t] > 0 /\ todo[t] = {} =>
         /\ \A r \in start_rev[t]..since[t] : Covered(r, past[t])
         /\ \A r \in start_rev[t]..MaxPast(t) : Covered(r, past[t])

\* So does what the stream has yielded; it covers what was received, and what
\* retain would drop if it came next.
SentOK(t) ==
  spc[t] \in {"open", "polled"} =>
    /\ asked[t] > 0 => \A r \in start_rev[t]..since[t] : Covered(r, sent[t])
    /\ \A i \in 1..Len(got[t]) : start_rev[t] <= got[t][i] => Covered(got[t][i], sent[t])
    /\ \A r \in start_rev[t]..max_rev[t] :
         (\A i \in 1..Len(got[t]) : got[t][i] < r) => Covered(r, sent[t])

\* What is in the channel came after the last progress request.
BarrierOK(t) ==
  /\ settled[t] < next_rev
  /\ \A i \in 1..Len(chan[t]) : settled[t] < chan[t][i]
  /\ spc[t] \in {"new", "begun", "scan"} => promised[t] = 0

-----------------------------------------------------------------------------
(* The steps of the notification path.                                     *)

\* No watch starts beyond the bound on revisions.
StartOK == rev \in 0..MaxRev /\ start_rev \in [Watchers -> 0..MaxRev]

LEMMA StartInit == ASSUME WatchInit PROVE StartOK
<1>1. rev = Base /\ start_rev = [t \in Watchers |-> 0]
  BY Zenon DEF WatchInit, Init
<1> QED
  BY <1>1, NotifierAssumption, WatchStreamAssumption DEF StartOK

\* Only a commit changes the revision, and only the begin of a watch its start.
LEMMA StartStep == ASSUME StartOK, [WatchNext]_watchVars PROVE StartOK'
<1>1. ASSUME NEW w \in Writers, NEW k \in Keys, CommitKey(w, k)
      PROVE  StartOK'
  <2>1. rev < MaxRev /\ rev' = rev + 1 /\ start_rev' = start_rev
    BY <1>1, Zenon DEF CommitKey, Commit, clientVars
  <2> QED
    BY <2>1, NotifierAssumption DEF StartOK
<1>2. ASSUME NEW t \in Watchers, NEW r \in 0..MaxRev, WatchBegin(t, r)
      PROVE  StartOK'
  <2>1. /\ rev' = rev
        /\ start_rev' = [start_rev EXCEPT ![t] = IF r = 0 THEN rev ELSE r]
    BY <1>2, Zenon DEF WatchBegin, vars, writerVars
  <2> QED
    BY <2>1, Zenon DEF StartOK
<1>3. ASSUME NotifierStep PROVE StartOK'
  <2>1. rev' = rev /\ start_rev' = start_rev
    BY <1>3, Zenon DEF NotifierStep, WriterStep, CollectWatchers, SendJob, Acknowledge,
      ThreadStep, SpoolJob, TakeJob, DoSend, PopSpool, PublishProgress, WalHandled,
      writerVars, clientVars
  <2> QED
    BY <2>1, Zenon DEF StartOK
<1>4. ASSUME NEW t \in Watchers,
             \/ \E r \in 0..MaxRev : WatchRefused(t, r)
             \/ WatchRegister(t) \/ WatchScan(t) \/ StreamOpen(t) \/ StreamReceive(t)
             \/ StreamPolled(t) \/ StreamProgress(t) \/ StreamClose(t)
      PROVE  StartOK'
  <2>1. rev' = rev /\ start_rev' = start_rev
    BY <1>4, Zenon DEF WatchRefused, WatchRegister, WatchScan, StreamOpen, StreamReceive,
      StreamPolled, StreamProgress, StreamClose, Watch, Receive, Unwatch, vars, writerVars
  <2> QED
    BY <2>1, Zenon DEF StartOK
<1>5. ASSUME \/ \E r \in Revisions : Compact(r)
             \/ UNCHANGED watchVars
      PROVE  StartOK'
  <2>1. rev' = rev /\ start_rev' = start_rev
    BY <1>5, Zenon DEF Compact, watchVars, clientVars, vars, writerVars
  <2> QED
    BY <2>1, Zenon DEF StartOK
<1> QED
  BY <1>1, <1>2, <1>3, <1>4, <1>5, Zenon DEF WatchNext, StreamStep

\* Every step is one of the notification path or leaves it alone.
LEMMA NotifierSteps == ASSUME StartOK, [WatchNext]_watchVars PROVE [Next]_vars
<1>1. ASSUME NEW w \in Writers, NEW k \in Keys, CommitKey(w, k)
      PROVE  Next
  BY <1>1, Zenon DEF CommitKey, Next
<1>2. NotifierStep => Next
  BY Zenon DEF NotifierStep, Next, Revisions
<1>3. ASSUME NEW t \in Watchers, WatchRegister(t)
      PROVE  Next
  <2>1. Watch(t, start_rev[t]) /\ start_rev[t] \in 0..MaxRev
    BY <1>3, Zenon DEF WatchRegister, StartOK
  <2> QED
    BY <2>1, Zenon DEF Next
<1>4. ASSUME NEW t \in Watchers, StreamReceive(t) \/ StreamClose(t)
      PROVE  Next
  BY <1>4, Zenon DEF StreamReceive, StreamClose, Next
<1>5. ASSUME NEW t \in Watchers,
             \/ \E r \in 0..MaxRev : WatchBegin(t, r) \/ WatchRefused(t, r)
             \/ WatchScan(t) \/ StreamOpen(t) \/ StreamPolled(t) \/ StreamProgress(t)
      PROVE  UNCHANGED vars
  BY <1>5, Zenon DEF WatchBegin, WatchRefused, WatchScan, StreamOpen, StreamPolled, StreamProgress
<1>6. (\E r \in Revisions : Compact(r)) \/ UNCHANGED watchVars => UNCHANGED vars
  BY Zenon DEF Compact, watchVars
<1> QED
  BY <1>1, <1>2, <1>3, <1>4, <1>5, <1>6, Zenon DEF WatchNext, StreamStep

\* The watches beside it leave the notification path as Notifier describes it.
THEOREM NotifierKept == WatchSpec => Spec
<1>1. WatchInit => StartOK
  BY StartInit
<1>2. StartOK /\ [WatchNext]_watchVars => StartOK'
  BY StartStep
<1>3. StartOK /\ [WatchNext]_watchVars => [Next]_vars
  BY NotifierSteps
<1>4. WatchInit => Init
  BY DEF WatchInit
<1> QED
  BY <1>1, <1>2, <1>3, <1>4, PTL DEF WatchSpec, Spec

-----------------------------------------------------------------------------
(* Types.                                                                  *)

\* The members of a finite set of revisions in order.
LEMMA InOrderFacts ==
  ASSUME rev \in Nat, NEW S, S \subseteq 1..rev, NEW s \in InOrder(S)
  PROVE  /\ s \in Seq(Nat) /\ Len(s) \in Nat
         /\ \A r \in S : InSeq(r, s)
         /\ \A i \in 1..Len(s) : s[i] \in S
         /\ Increasing(s)
<1>1. PICK n \in 0..rev : s \in [1..n -> S]
  BY Zenon DEF InOrder
<1>2. n \in Nat /\ S \subseteq Nat
  OBVIOUS
<1>3. s \in Seq(Nat) /\ Len(s) = n
  <2>1. s = [i \in 1..n |-> s[i]] /\ \A i \in 1..n : s[i] \in Nat
    BY <1>1, <1>2, Zenon
  <2> QED
    BY <1>2, <2>1
<1>4. (\A r \in S : InSeq(r, s)) /\ Increasing(s)
  BY Zenon DEF InOrder, InSeq
<1> QED
  BY <1>1, <1>2, <1>3, <1>4

\* The revision of the last of the past changes.
LEMMA MaxPastType ==
  ASSUME WatchTypeOK, NEW t \in Watchers
  PROVE  MaxPast(t) \in Nat
<1>1. past[t] \in Seq(Nat)
  BY Zenon DEF WatchTypeOK
<1>2. CASE past[t] = <<>>
  BY <1>2 DEF MaxPast
<1>3. CASE past[t] # <<>>
  <2>1. Len(past[t]) \in 1..Len(past[t])
    BY <1>1, <1>3, EmptySeq, LenProperties
  <2>2. past[t][Len(past[t])] \in Nat
    BY <1>1, <2>1, ElementOfSeq, Zenon
  <2> QED
    BY <1>3, <2>2, Zenon DEF MaxPast
<1> QED
  BY <1>2, <1>3, Zenon

\* The variables of the watches, beside those of the notification path.
ClientTypeOK ==
  /\ key \in [Revisions -> Keys \cup {0}]
  /\ earliest \in Nat
  /\ spc \in [Watchers -> {"new", "begun", "scan", "open", "polled", "closed"}]
  /\ asked \in [Watchers -> 0..MaxRev]
  /\ todo \in [Watchers -> SUBSET Keys]
  /\ past \in [Watchers -> Seq(Nat)]
  /\ max_rev \in [Watchers -> Nat]
  /\ sent \in [Watchers -> Seq(Nat)]
  /\ skipped \in [Watchers -> SUBSET Nat]
  /\ promised \in [Watchers -> Nat]
  /\ settled \in [Watchers -> Nat]

\* An event that is received is a revision.
LEMMA HeadOfChannel ==
  ASSUME TypeOK, NEW t \in Watchers, chan[t] # <<>>
  PROVE  Head(chan[t]) \in Nat /\ Tail(chan[t]) \in Seq(Nat) /\ chan[t] \in Seq(Nat)
<1>1. chan[t] \in Seq(Nat)
  BY Zenon DEF TypeOK
<1> QED
  BY <1>1, HeadTailProperties, Zenon

\* Every step keeps the variables of the watches in their types.
LEMMA ClientTypeStep ==
  ASSUME WatchTypeOK, [WatchNext]_watchVars
  PROVE  ClientTypeOK'
<1>0. ClientTypeOK /\ TypeOK
  BY Zenon DEF WatchTypeOK, ClientTypeOK
<1>1. ASSUME NEW w \in Writers, NEW k \in Keys, CommitKey(w, k)
      PROVE  ClientTypeOK'
  <2>1. key' = [key EXCEPT ![rev + 1] = k] /\ UNCHANGED <<earliest, clientVars>>
    BY <1>1, Zenon DEF CommitKey
  <2>2. key' \in [Revisions -> Keys \cup {0}]
    BY <1>0, <2>1, Zenon DEF ClientTypeOK
  <2> QED
    BY <1>0, <2>1, <2>2, Zenon DEF ClientTypeOK, clientVars
<1>2. ASSUME NotifierStep \/ UNCHANGED watchVars
      PROVE  ClientTypeOK'
  <2>1. UNCHANGED <<storeVars, clientVars>>
    BY <1>2, Zenon DEF NotifierStep, watchVars
  <2> QED
    BY <1>0, <2>1, Zenon DEF ClientTypeOK, storeVars, clientVars
<1>3. ASSUME NEW r \in Revisions, Compact(r)
      PROVE  ClientTypeOK'
  <2>1. r - 1 \in Nat
    BY NotifierAssumption DEF Revisions
  <2> QED
    BY <1>0, <1>3, <2>1, Zenon DEF ClientTypeOK, Compact, clientVars
<1>4. ASSUME NEW t \in Watchers, NEW r \in 0..MaxRev, WatchBegin(t, r) \/ WatchRefused(t, r)
      PROVE  ClientTypeOK'
  <2>1. CASE WatchBegin(t, r)
    BY <1>0, <2>1, Zenon DEF ClientTypeOK, WatchBegin, storeVars
  <2>2. CASE WatchRefused(t, r)
    BY <1>0, <2>2, Zenon DEF ClientTypeOK, WatchRefused, storeVars
  <2> QED
    BY <1>4, <2>1, <2>2, Zenon
<1>5. ASSUME NEW t \in Watchers, WatchRegister(t)
      PROVE  ClientTypeOK'
  <2>1. (IF asked[t] > 0 THEN Keys ELSE {}) \in SUBSET Keys
    BY Zenon
  <2> QED
    BY <1>0, <1>5, <2>1, Zenon DEF ClientTypeOK, WatchRegister, storeVars
<1>6. ASSUME NEW t \in Watchers, WatchScan(t)
      PROVE  ClientTypeOK'
  <2>0. PICK k \in todo[t] :
          /\ todo' = [todo EXCEPT ![t] = todo[t] \ {k}]
          /\ \E s \in InOrder({r \in 1..rev : Wanted(t, k, r)}) :
               past' = [past EXCEPT ![t] = past[t] \o s]
    BY <1>6, Zenon DEF WatchScan
  <2>1. PICK s \in InOrder({r \in 1..rev : Wanted(t, k, r)}) :
          past' = [past EXCEPT ![t] = past[t] \o s]
    BY <2>0, Zenon
  <2>2. rev \in Nat /\ past[t] \in Seq(Nat)
    BY <1>0, Zenon DEF TypeOK, ClientTypeOK
  <2>3. {r \in 1..rev : Wanted(t, k, r)} \subseteq 1..rev
    BY Zenon
  <2>4. s \in Seq(Nat)
    BY <2>2, <2>3, InOrderFacts, Zenon
  <2>5. past[t] \o s \in Seq(Nat)
    BY <2>2, <2>4, ConcatProperties, Zenon
  <2>6. past' \in [Watchers -> Seq(Nat)] /\ todo' \in [Watchers -> SUBSET Keys]
    BY <1>0, <2>0, <2>1, <2>5, Zenon DEF ClientTypeOK
  <2>7. UNCHANGED <<storeVars, spc, asked, max_rev, sent, skipped, promised, settled>>
    BY <1>6, Zenon DEF WatchScan
  <2> QED
    BY <1>0, <2>6, <2>7, Zenon DEF ClientTypeOK, storeVars
<1>7. ASSUME NEW t \in Watchers, StreamOpen(t)
      PROVE  ClientTypeOK'
  <2>1. <<>> \in Seq(Nat)
    BY EmptySeq, Zenon
  <2> QED
    BY <1>0, <1>7, <2>1, MaxPastType, Zenon DEF ClientTypeOK, StreamOpen, storeVars
<1>8. ASSUME NEW t \in Watchers, StreamReceive(t)
      PROVE  ClientTypeOK'
  <2>1. PICK r : r = Head(chan[t])
    BY Zenon
  <2>2. r \in Nat
    BY <1>0, <1>8, <2>1, HeadOfChannel, Zenon DEF StreamReceive, Receive
  <2>3. UNCHANGED <<storeVars, spc, asked, todo, past, promised, settled>>
    BY <1>8, Zenon DEF StreamReceive
  <2>4. CASE Fresh(t, r)
    <3>1. /\ sent' = [sent EXCEPT ![t] = Append(sent[t], r)]
          /\ max_rev' = [max_rev EXCEPT ![t] = IF r > max_rev[t] THEN r ELSE max_rev[t]]
          /\ UNCHANGED skipped
      BY <1>8, <2>1, <2>4, Zenon DEF StreamReceive
    <3>2. sent[t] \in Seq(Nat)
      BY <1>0, Zenon DEF ClientTypeOK
    <3>3. Append(sent[t], r) \in Seq(Nat)
      BY <2>2, <3>2, AppendProperties, Zenon
    <3> QED
      BY <1>0, <2>2, <2>3, <3>1, <3>3, Zenon DEF ClientTypeOK, storeVars
  <2>5. CASE ~Fresh(t, r)
    <3>1. /\ skipped' = [skipped EXCEPT ![t] = skipped[t] \cup {r}]
          /\ UNCHANGED <<sent, max_rev>>
      BY <1>8, <2>1, <2>5, Zenon DEF StreamReceive
    <3>2. skipped' \in [Watchers -> SUBSET Nat]
      BY <1>0, <2>2, <3>1, Zenon DEF ClientTypeOK
    <3> QED
      BY <1>0, <2>3, <3>1, <3>2, Zenon DEF ClientTypeOK, storeVars
  <2> QED
    BY <2>4, <2>5, Zenon
<1>9. ASSUME NEW t \in Watchers, StreamPolled(t) \/ StreamProgress(t) \/ StreamClose(t)
      PROVE  ClientTypeOK'
  <2>1. progress_rev \in Nat
    BY <1>0, Zenon DEF TypeOK
  <2>2. CASE StreamPolled(t)
    BY <1>0, <2>1, <2>2, Zenon DEF ClientTypeOK, StreamPolled, storeVars
  <2>3. CASE StreamProgress(t)
    BY <1>0, <2>1, <2>3, Zenon DEF ClientTypeOK, StreamProgress, storeVars
  <2>4. CASE StreamClose(t)
    BY <1>0, <2>4, Zenon DEF ClientTypeOK, StreamClose, storeVars
  <2> QED
    BY <1>9, <2>2, <2>3, <2>4, Zenon
<1> QED
  BY <1>1, <1>2, <1>3, <1>4, <1>5, <1>6, <1>7, <1>8, <1>9, Zenon DEF WatchNext, StreamStep

\* Every variable keeps its type.
THEOREM WatchTypeCorrect == WatchSpec => []WatchTypeOK
<1>1. WatchInit => ClientTypeOK
  <2>1. <<>> \in Seq(Nat)
    BY EmptySeq, Zenon
  <2>2. 0 \in Nat /\ 0 \in 0..MaxRev
    BY NotifierAssumption
  <2> QED
    BY <2>1, <2>2 DEF WatchInit, ClientTypeOK
<1>2. WatchTypeOK /\ [WatchNext]_watchVars => ClientTypeOK'
  BY ClientTypeStep
<1>3. TypeOK /\ StartOK /\ ClientTypeOK => WatchTypeOK
  <2>1. StartOK => rev <= MaxRev /\ start_rev \in [Watchers -> 0..MaxRev]
    BY NotifierAssumption DEF StartOK
  <2> QED
    BY <2>1, Zenon DEF WatchTypeOK, ClientTypeOK
<1>4. WatchInit => StartOK
  BY StartInit
<1>5. StartOK /\ [WatchNext]_watchVars => StartOK'
  BY StartStep
<1> QED
  BY <1>1, <1>2, <1>3, <1>4, <1>5, NotifierKept, TypeCorrect, PTL DEF WatchSpec

-----------------------------------------------------------------------------
(* What a step changes of one watch.                                       *)

AskKept(t) == asked'[t] = asked[t] /\ start_rev'[t] = start_rev[t]
ScanKept(t) == todo'[t] = todo[t] /\ past'[t] = past[t]
SentKept(t) == sent'[t] = sent[t] /\ max_rev'[t] = max_rev[t]
BarrierKept(t) == promised'[t] = promised[t] /\ settled'[t] = settled[t]
WatcherKept(t) == watcher'[t] = watcher[t] /\ start'[t] = start[t] /\ since'[t] = since[t]
GotKept(t) == got'[t] = got[t]

Kept(t) ==
  /\ spc'[t] = spc[t]
  /\ AskKept(t) /\ ScanKept(t) /\ SentKept(t) /\ BarrierKept(t)
  /\ WatcherKept(t) /\ GotKept(t)

\* Every step is one of the watch itself or leaves it alone.
LEMMA KeptOrStep ==
  ASSUME WatchTypeOK, [WatchNext]_watchVars, NEW t \in Watchers
  PROVE  Kept(t) \/ StreamStep(t)
<1> USE DEF Kept, AskKept, ScanKept, SentKept, BarrierKept, WatcherKept, GotKept
<1>1. ASSUME NEW w \in Writers, NEW k \in Keys, CommitKey(w, k)
      PROVE  Kept(t)
  BY <1>1, Zenon DEF CommitKey, Commit, clientVars, watcherVars, streamVars
<1>2. ASSUME NotifierStep
      PROVE  Kept(t)
  <2>1. UNCHANGED <<watcherVars, got, clientVars>>
    BY <1>2, Zenon DEF NotifierStep, WriterStep, CollectWatchers, SendJob, Acknowledge,
      ThreadStep, SpoolJob, TakeJob, DoSend, PopSpool, PublishProgress, WalHandled, streamVars
  <2> QED
    BY <2>1, Zenon DEF clientVars, watcherVars
<1>3. ASSUME (\E r \in Revisions : Compact(r)) \/ UNCHANGED watchVars
      PROVE  Kept(t)
  <2>1. UNCHANGED <<vars, clientVars>>
    BY <1>3, Zenon DEF Compact, watchVars
  <2> QED
    BY <2>1, Zenon DEF vars, clientVars, watcherVars, streamVars
<1>4. ASSUME NEW u \in Watchers, StreamStep(u), u # t
      PROVE  Kept(t)
  <2>0. /\ spc \in [Watchers -> {"new", "begun", "scan", "open", "polled", "closed"}]
        /\ asked \in [Watchers -> 0..MaxRev]
        /\ start_rev \in [Watchers -> 0..MaxRev]
        /\ todo \in [Watchers -> SUBSET Keys]
        /\ past \in [Watchers -> Seq(Nat)]
        /\ max_rev \in [Watchers -> Nat]
        /\ sent \in [Watchers -> Seq(Nat)]
        /\ promised \in [Watchers -> Nat]
        /\ settled \in [Watchers -> Nat]
    BY Zenon DEF WatchTypeOK
  <2>1. /\ watcher \in [Watchers -> {"new", "open", "closed"}]
        /\ start \in [Watchers -> Nat]
        /\ since \in [Watchers -> Nat]
        /\ got \in [Watchers -> Seq(Nat)]
    BY Zenon DEF WatchTypeOK, TypeOK
  <2>2. ASSUME NEW r \in 0..MaxRev, WatchBegin(u, r)
        PROVE  Kept(t)
    BY <1>4, <2>0, <2>2, Zenon DEF WatchBegin, vars, watcherVars, streamVars
  <2>3. ASSUME NEW r \in 0..MaxRev, WatchRefused(u, r)
        PROVE  Kept(t)
    BY <1>4, <2>0, <2>3, Zenon DEF WatchRefused, vars, watcherVars, streamVars
  <2>4. ASSUME WatchRegister(u)
        PROVE  Kept(t)
    BY <1>4, <2>0, <2>1, <2>4, Zenon DEF WatchRegister, Watch, streamVars
  <2>5. ASSUME WatchScan(u)
        PROVE  Kept(t)
    <3>1. PICK td, ps : /\ todo' = [todo EXCEPT ![u] = td]
                        /\ past' = [past EXCEPT ![u] = ps]
      BY <2>5, Zenon DEF WatchScan
    <3>2. UNCHANGED <<vars, spc, asked, start_rev, max_rev, sent, promised, settled>>
      BY <2>5, Zenon DEF WatchScan
    <3> QED
      BY <1>4, <2>0, <3>1, <3>2, Zenon DEF vars, watcherVars, streamVars
  <2>6. ASSUME StreamOpen(u)
        PROVE  Kept(t)
    BY <1>4, <2>0, <2>6, Zenon DEF StreamOpen, vars, watcherVars, streamVars
  <2>7. ASSUME StreamReceive(u)
        PROVE  Kept(t)
    <3>1. sent'[t] = sent[t] /\ max_rev'[t] = max_rev[t]
      BY <1>4, <2>0, <2>7, Zenon DEF StreamReceive
    <3>2. Receive(u) /\ UNCHANGED <<spc, asked, start_rev, todo, past, promised, settled>>
      BY <2>7, Zenon DEF StreamReceive
    <3> QED
      BY <1>4, <2>1, <3>1, <3>2, Zenon DEF Receive, watcherVars
  <2>8. ASSUME StreamPolled(u)
        PROVE  Kept(t)
    BY <1>4, <2>0, <2>8, Zenon DEF StreamPolled, vars, watcherVars, streamVars
  <2>9. ASSUME StreamProgress(u)
        PROVE  Kept(t)
    BY <1>4, <2>0, <2>9, Zenon DEF StreamProgress, vars, watcherVars, streamVars
  <2>10. ASSUME StreamClose(u)
         PROVE  Kept(t)
    BY <1>4, <2>0, <2>1, <2>10, Zenon DEF StreamClose, Unwatch
  <2> QED
    BY <1>4, <2>2, <2>3, <2>4, <2>5, <2>6, <2>7, <2>8, <2>9, <2>10, Zenon DEF StreamStep
<1> QED
  BY <1>1, <1>2, <1>3, <1>4, Zenon DEF WatchNext

\* What the steps of watch t do to it.
LEMMA Effects ==
  ASSUME WatchTypeOK, NEW t \in Watchers
  PROVE  /\ \A r : WatchBegin(t, r) =>
              /\ spc[t] = "new" /\ spc'[t] = "begun"
              /\ asked'[t] = r /\ start_rev'[t] = IF r = 0 THEN rev ELSE r
              /\ ScanKept(t) /\ SentKept(t) /\ BarrierKept(t) /\ WatcherKept(t) /\ GotKept(t)
         /\ \A r : WatchRefused(t, r) =>
              /\ spc[t] = "new" /\ spc'[t] = "closed"
              /\ AskKept(t) /\ ScanKept(t) /\ SentKept(t) /\ BarrierKept(t)
              /\ WatcherKept(t) /\ GotKept(t)
         /\ WatchRegister(t) =>
              /\ spc[t] = "begun" /\ spc'[t] = "scan"
              /\ todo'[t] = (IF asked[t] > 0 THEN Keys ELSE {}) /\ past'[t] = past[t]
              /\ watcher'[t] = "open" /\ start'[t] = start_rev[t] /\ since'[t] = rev
              /\ AskKept(t) /\ SentKept(t) /\ BarrierKept(t) /\ GotKept(t)
         /\ StreamOpen(t) =>
              /\ spc[t] = "scan" /\ spc'[t] = "open" /\ todo[t] = {}
              /\ todo'[t] = {} /\ past'[t] = <<>>
              /\ sent'[t] = past[t] /\ max_rev'[t] = MaxPast(t)
              /\ AskKept(t) /\ BarrierKept(t) /\ WatcherKept(t) /\ GotKept(t)
         /\ StreamPolled(t) =>
              /\ spc[t] = "open" /\ spc'[t] = "polled"
              /\ chan[t] = <<>> /\ settled'[t] = progress_rev /\ promised'[t] = promised[t]
              /\ AskKept(t) /\ ScanKept(t) /\ SentKept(t) /\ WatcherKept(t) /\ GotKept(t)
         /\ StreamProgress(t) =>
              /\ spc[t] = "polled" /\ spc'[t] = "open" /\ settled'[t] = settled[t]
              /\ AskKept(t) /\ ScanKept(t) /\ SentKept(t) /\ WatcherKept(t) /\ GotKept(t)
         /\ StreamClose(t) =>
              /\ spc[t] = "open" /\ spc'[t] = "closed" /\ chan'[t] = <<>>
              /\ watcher'[t] = "closed" /\ start'[t] = start[t] /\ since'[t] = since[t]
              /\ AskKept(t) /\ ScanKept(t) /\ SentKept(t) /\ BarrierKept(t) /\ GotKept(t)
<1> USE DEF AskKept, ScanKept, SentKept, BarrierKept, WatcherKept, GotKept
<1>0. /\ spc \in [Watchers -> {"new", "begun", "scan", "open", "polled", "closed"}]
      /\ asked \in [Watchers -> 0..MaxRev]
      /\ start_rev \in [Watchers -> 0..MaxRev]
      /\ todo \in [Watchers -> SUBSET Keys]
      /\ past \in [Watchers -> Seq(Nat)]
      /\ max_rev \in [Watchers -> Nat]
      /\ sent \in [Watchers -> Seq(Nat)]
      /\ promised \in [Watchers -> Nat]
      /\ settled \in [Watchers -> Nat]
  BY Zenon DEF WatchTypeOK
<1>1. /\ watcher \in [Watchers -> {"new", "open", "closed"}]
      /\ start \in [Watchers -> Nat]
      /\ since \in [Watchers -> Nat]
      /\ chan \in [Watchers -> Seq(Nat)]
  BY Zenon DEF WatchTypeOK, TypeOK
<1>2. ASSUME NEW r, WatchBegin(t, r)
      PROVE  /\ spc[t] = "new" /\ spc'[t] = "begun"
             /\ asked'[t] = r /\ start_rev'[t] = IF r = 0 THEN rev ELSE r
             /\ ScanKept(t) /\ SentKept(t) /\ BarrierKept(t) /\ WatcherKept(t) /\ GotKept(t)
  BY <1>0, <1>2, Zenon DEF WatchBegin, vars, watcherVars, streamVars
<1>3. ASSUME NEW r, WatchRefused(t, r)
      PROVE  /\ spc[t] = "new" /\ spc'[t] = "closed"
             /\ AskKept(t) /\ ScanKept(t) /\ SentKept(t) /\ BarrierKept(t)
             /\ WatcherKept(t) /\ GotKept(t)
  BY <1>0, <1>3, Zenon DEF WatchRefused, vars, watcherVars, streamVars
<1>4. ASSUME WatchRegister(t)
      PROVE  /\ spc[t] = "begun" /\ spc'[t] = "scan"
             /\ todo'[t] = (IF asked[t] > 0 THEN Keys ELSE {}) /\ past'[t] = past[t]
             /\ watcher'[t] = "open" /\ start'[t] = start_rev[t] /\ since'[t] = rev
             /\ AskKept(t) /\ SentKept(t) /\ BarrierKept(t) /\ GotKept(t)
  BY <1>0, <1>1, <1>4, Zenon DEF WatchRegister, Watch, streamVars
<1>5. ASSUME StreamOpen(t)
      PROVE  /\ spc[t] = "scan" /\ spc'[t] = "open" /\ todo[t] = {}
             /\ todo'[t] = {} /\ past'[t] = <<>>
             /\ sent'[t] = past[t] /\ max_rev'[t] = MaxPast(t)
             /\ AskKept(t) /\ BarrierKept(t) /\ WatcherKept(t) /\ GotKept(t)
  BY <1>0, <1>5, Zenon DEF StreamOpen, vars, watcherVars, streamVars
<1>6. ASSUME StreamPolled(t)
      PROVE  /\ spc[t] = "open" /\ spc'[t] = "polled"
             /\ chan[t] = <<>> /\ settled'[t] = progress_rev /\ promised'[t] = promised[t]
             /\ AskKept(t) /\ ScanKept(t) /\ SentKept(t) /\ WatcherKept(t) /\ GotKept(t)
  BY <1>0, <1>6, Zenon DEF StreamPolled, Idle, vars, watcherVars, streamVars
<1>7. ASSUME StreamProgress(t)
      PROVE  /\ spc[t] = "polled" /\ spc'[t] = "open" /\ settled'[t] = settled[t]
             /\ AskKept(t) /\ ScanKept(t) /\ SentKept(t) /\ WatcherKept(t) /\ GotKept(t)
  BY <1>0, <1>7, Zenon DEF StreamProgress, vars, watcherVars, streamVars
<1>8. ASSUME StreamClose(t)
      PROVE  /\ spc[t] = "open" /\ spc'[t] = "closed" /\ chan'[t] = <<>>
             /\ watcher'[t] = "closed" /\ start'[t] = start[t] /\ since'[t] = since[t]
             /\ AskKept(t) /\ ScanKept(t) /\ SentKept(t) /\ BarrierKept(t) /\ GotKept(t)
  BY <1>0, <1>1, <1>8, Zenon DEF StreamClose, Unwatch
<1> HIDE DEF AskKept, ScanKept, SentKept, BarrierKept, WatcherKept, GotKept
<1> QED
  BY <1>2, <1>3, <1>4, <1>5, <1>6, <1>7, <1>8, Zenon

\* One item is scanned.
LEMMA ScanEffect ==
  ASSUME WatchTypeOK, NEW t \in Watchers, WatchScan(t)
  PROVE  /\ spc[t] = "scan" /\ spc'[t] = "scan"
         /\ \E k \in todo[t] :
              /\ todo'[t] = todo[t] \ {k}
              /\ \E s \in InOrder({r \in 1..rev : Wanted(t, k, r)}) : past'[t] = past[t] \o s
         /\ AskKept(t) /\ SentKept(t) /\ BarrierKept(t) /\ WatcherKept(t) /\ GotKept(t)
         /\ UNCHANGED <<vars, storeVars>>
<1>0. todo \in [Watchers -> SUBSET Keys] /\ past \in [Watchers -> Seq(Nat)]
  BY Zenon DEF WatchTypeOK
<1>1. /\ spc[t] = "scan"
      /\ UNCHANGED <<vars, storeVars, spc, asked, start_rev, max_rev, sent, promised, settled>>
  BY Zenon DEF WatchScan
<1>2. \E k \in todo[t] :
        /\ todo'[t] = todo[t] \ {k}
        /\ \E s \in InOrder({r \in 1..rev : Wanted(t, k, r)}) : past'[t] = past[t] \o s
  BY <1>0, Zenon DEF WatchScan
<1>3. AskKept(t) /\ SentKept(t) /\ BarrierKept(t) /\ WatcherKept(t) /\ GotKept(t)
  BY <1>1, Zenon DEF AskKept, SentKept, BarrierKept, WatcherKept, GotKept, vars, watcherVars,
    streamVars
<1> QED
  BY <1>1, <1>2, <1>3, Zenon

\* An event is received.
LEMMA ReceiveEffect ==
  ASSUME WatchTypeOK, NEW t \in Watchers, StreamReceive(t)
  PROVE  /\ spc[t] = "open" /\ spc'[t] = "open"
         /\ chan[t] # <<>> /\ chan'[t] = Tail(chan[t])
         /\ got'[t] = Append(got[t], Head(chan[t]))
         /\ Fresh(t, Head(chan[t])) =>
              sent'[t] = Append(sent[t], Head(chan[t])) /\ max_rev'[t] = Head(chan[t])
         /\ ~Fresh(t, Head(chan[t])) => SentKept(t)
         /\ AskKept(t) /\ ScanKept(t) /\ BarrierKept(t) /\ WatcherKept(t)
         /\ UNCHANGED <<rev, storeVars>>
<1>0. /\ max_rev \in [Watchers -> Nat]
      /\ sent \in [Watchers -> Seq(Nat)]
      /\ chan \in [Watchers -> Seq(Nat)]
      /\ got \in [Watchers -> Seq(Nat)]
  BY Zenon DEF WatchTypeOK, TypeOK
<1>1. /\ spc[t] = "open" /\ Receive(t)
      /\ UNCHANGED <<storeVars, spc, asked, start_rev, todo, past, promised, settled>>
  BY Zenon DEF StreamReceive
<1>2. /\ chan[t] # <<>> /\ chan'[t] = Tail(chan[t])
      /\ got'[t] = Append(got[t], Head(chan[t]))
      /\ UNCHANGED <<rev, watcherVars>>
  BY <1>0, <1>1, Zenon DEF Receive, writerVars
<1>3. ASSUME Fresh(t, Head(chan[t]))
      PROVE  sent'[t] = Append(sent[t], Head(chan[t])) /\ max_rev'[t] = Head(chan[t])
  BY <1>0, <1>3, Zenon DEF StreamReceive, Fresh
<1>4. ASSUME ~Fresh(t, Head(chan[t]))
      PROVE  SentKept(t)
  BY <1>4, Zenon DEF StreamReceive, SentKept
<1>5. AskKept(t) /\ ScanKept(t) /\ BarrierKept(t) /\ WatcherKept(t)
  BY <1>1, <1>2, Zenon DEF AskKept, ScanKept, BarrierKept, WatcherKept, watcherVars
<1> QED
  BY <1>1, <1>2, <1>3, <1>4, <1>5, Zenon

-----------------------------------------------------------------------------
(* Once and in order.                                                      *)

\* The last member of an increasing sequence is the greatest.
LEMMA LastIsGreatest ==
  ASSUME NEW s \in Seq(Nat), Increasing(s), s # <<>>, NEW i \in 1..Len(s)
  PROVE  s[i] <= s[Len(s)]
<1>1. Len(s) \in Nat /\ Len(s) \in 1..Len(s)
  BY EmptySeq, LenProperties
<1>2. s[i] \in Nat /\ s[Len(s)] \in Nat
  BY <1>1, ElementOfSeq, Zenon
<1>3. i < Len(s) => s[i] < s[Len(s)]
  BY <1>1, Zenon DEF Increasing
<1> QED
  BY <1>1, <1>2, <1>3

\* A greater revision may follow.
LEMMA AppendGreater ==
  ASSUME NEW s \in Seq(Nat), Increasing(s),
         NEW m \in Nat, \A i \in 1..Len(s) : s[i] <= m,
         NEW r \in Nat, r > m
  PROVE  /\ Append(s, r) \in Seq(Nat)
         /\ Increasing(Append(s, r))
         /\ \A i \in 1..Len(Append(s, r)) : Append(s, r)[i] <= r
<1> DEFINE a == Append(s, r)
<1>1. /\ a \in Seq(Nat) /\ Len(a) = Len(s) + 1 /\ Len(s) \in Nat
      /\ \A i \in 1..Len(s) : a[i] = s[i]
      /\ a[Len(s) + 1] = r
  BY AppendProperties, LenProperties
<1>2. \A i \in 1..Len(s) : s[i] \in Nat
  BY ElementOfSeq, Zenon
<1>3. \A i, j \in 1..Len(s) : i < j => s[i] < s[j]
  BY Zenon DEF Increasing
<1>0. Len(a) = Len(s) + 1 /\ Len(s) \in Nat
  BY <1>1, Zenon
<1> HIDE DEF a
<1>4. Increasing(a)
  <2> SUFFICES ASSUME NEW i \in 1..Len(a), NEW j \in 1..Len(a), i < j
               PROVE  a[i] < a[j]
    BY Zenon DEF Increasing
  <2>1. i \in 1..Len(s)
    BY <1>0
  <2>2. CASE j = Len(s) + 1
    <3>1. a[i] = s[i] /\ a[j] = r /\ s[i] \in Nat /\ s[i] <= m
      BY <1>1, <1>2, <2>1, <2>2, Zenon
    <3> QED
      BY <3>1
  <2>3. CASE j # Len(s) + 1
    <3>1. j \in 1..Len(s)
      <4>1. PICK n \in Nat : n = Len(s)
        BY <1>0, Zenon
      <4>2. j \in 1..(n + 1) /\ j # n + 1
        BY <1>0, <2>3, <4>1, Zenon
      <4>3. j \in 1..n
        BY <4>2
      <4> QED
        BY <4>1, <4>3, Zenon
    <3>2. a[i] = s[i] /\ a[j] = s[j]
      BY <1>1, <2>1, <3>1, Zenon
    <3>3. s[i] < s[j]
      BY <1>3, <2>1, <3>1, Zenon
    <3> QED
      BY <3>2, <3>3, Zenon
  <2> QED
    BY <2>2, <2>3, Zenon
<1>5. ASSUME NEW i \in 1..Len(a)
      PROVE  a[i] <= r
  <2>1. CASE i = Len(s) + 1
    BY <1>1, <2>1
  <2>2. CASE i # Len(s) + 1
    <3>1. i \in 1..Len(s)
      BY <1>0, <2>2
    <3>2. a[i] = s[i] /\ s[i] \in Nat /\ s[i] <= m
      BY <1>1, <1>2, <3>1, Zenon
    <3> QED
      BY <3>2
  <2> QED
    BY <2>1, <2>2, Zenon
<1> QED
  BY <1>1, <1>4, <1>5, Zenon DEF a

\* The scan of the only key.
LEMMA ScanOne ==
  ASSUME WatchTypeOK, NumKeys = 1, NEW t \in Watchers, OrderOK(t), WatchScan(t)
  PROVE  /\ todo'[t] = {}
         /\ past'[t] \in InOrder({r \in 1..rev : Wanted(t, 1, r)})
         /\ past'[t] \in Seq(Nat) /\ Increasing(past'[t])
         /\ \A r \in 1..rev : Wanted(t, 1, r) => InSeq(r, past'[t])
         /\ \A i \in 1..Len(past'[t]) : past'[t][i] \in 1..rev
<1>1. PICK k \in todo[t] :
        /\ todo'[t] = todo[t] \ {k}
        /\ \E s \in InOrder({r \in 1..rev : Wanted(t, k, r)}) : past'[t] = past[t] \o s
  BY ScanEffect, Zenon
<1>2. Keys = {1}
  BY DEF Keys
<1>3. todo[t] \in SUBSET Keys /\ rev \in Nat
  BY Zenon DEF WatchTypeOK, TypeOK
<1>4. k = 1 /\ todo'[t] = {} /\ todo[t] # {}
  BY <1>1, <1>2, <1>3, Zenon
<1>5. past[t] = <<>>
  BY <1>4, Zenon DEF OrderOK
<1>6. PICK s \in InOrder({r \in 1..rev : Wanted(t, 1, r)}) : past'[t] = <<>> \o s
  BY <1>1, <1>4, <1>5, Zenon
<1> DEFINE S == {r \in 1..rev : Wanted(t, 1, r)}
<1>7. S \subseteq 1..rev
  BY Zenon
<1>8. s \in InOrder(S)
  BY <1>6, Zenon
<1>9. \A r \in 1..rev : Wanted(t, 1, r) => r \in S
  BY Zenon
<1> HIDE DEF S
<1>10. /\ s \in Seq(Nat) /\ Increasing(s)
       /\ \A r \in S : InSeq(r, s)
       /\ \A i \in 1..Len(s) : s[i] \in S
  BY <1>3, <1>7, <1>8, InOrderFacts, Zenon
<1>11. past'[t] = s
  BY <1>6, <1>10, ConcatEmptySeq, Zenon
<1> QED
  BY <1>4, <1>6, <1>7, <1>9, <1>10, <1>11, Zenon

\* Only the last step of a watch's begin reads past changes, and only an event
\* above max_event_stream_rev is yielded.
LEMMA OrderStep ==
  ASSUME WatchTypeOK, [WatchNext]_watchVars, NumKeys = 1, NEW t \in Watchers, OrderOK(t)
  PROVE  OrderOK(t)'
<1>0. /\ spc[t] \in {"new", "begun"} \/ todo[t] # {} => past[t] = <<>>
      /\ Increasing(past[t])
      /\ Increasing(sent[t])
      /\ \A i \in 1..Len(sent[t]) : sent[t][i] <= max_rev[t]
  BY Zenon DEF OrderOK
<1>1. past[t] \in Seq(Nat) /\ sent[t] \in Seq(Nat) /\ max_rev[t] \in Nat
  BY Zenon DEF WatchTypeOK
<1>2. ASSUME Kept(t)
      PROVE  OrderOK(t)'
  BY <1>0, <1>2, Zenon DEF Kept, ScanKept, SentKept, OrderOK
<1>3. ASSUME NEW r \in 0..MaxRev, WatchBegin(t, r) \/ WatchRefused(t, r)
      PROVE  OrderOK(t)'
  <2>1. spc[t] = "new" /\ ScanKept(t) /\ SentKept(t)
    BY <1>3, Effects, Zenon
  <2>2. past[t] = <<>>
    BY <1>0, <2>1, Zenon
  <2> QED
    BY <1>0, <2>1, <2>2, Zenon DEF ScanKept, SentKept, OrderOK
<1>4. ASSUME WatchRegister(t)
      PROVE  OrderOK(t)'
  <2>1. spc[t] = "begun" /\ past'[t] = past[t] /\ SentKept(t)
    BY <1>4, Effects, Zenon
  <2>2. past[t] = <<>>
    BY <1>0, <2>1, Zenon
  <2> QED
    BY <1>0, <2>1, <2>2, Zenon DEF SentKept, OrderOK
<1>5. ASSUME WatchScan(t)
      PROVE  OrderOK(t)'
  <2>1. spc'[t] = "scan" /\ SentKept(t)
    BY <1>5, ScanEffect, Zenon
  <2>2. todo'[t] = {} /\ Increasing(past'[t])
    BY <1>5, ScanOne, Zenon
  <2>3. spc'[t] \notin {"new", "begun"}
    BY <2>1
  <2> QED
    BY <1>0, <2>1, <2>2, <2>3, Zenon DEF SentKept, OrderOK
<1>6. ASSUME StreamOpen(t)
      PROVE  OrderOK(t)'
  <2>1. past'[t] = <<>> /\ sent'[t] = past[t] /\ max_rev'[t] = MaxPast(t)
    BY <1>6, Effects, Zenon
  <2>2. Increasing(<<>>)
    BY DEF Increasing
  <2>3. \A i \in 1..Len(past[t]) : past[t][i] <= MaxPast(t)
    <3>1. CASE past[t] = <<>>
      BY <3>1
    <3>2. CASE past[t] # <<>>
      BY <1>0, <1>1, <3>2, LastIsGreatest, Zenon DEF MaxPast
    <3> QED
      BY <3>1, <3>2, Zenon
  <2> QED
    BY <1>0, <2>1, <2>2, <2>3, Zenon DEF OrderOK
<1>7. ASSUME StreamReceive(t)
      PROVE  OrderOK(t)'
  <2>1. spc[t] = "open" /\ spc'[t] = "open" /\ ScanKept(t)
    BY <1>7, ReceiveEffect, Zenon
  <2>2. CASE Fresh(t, Head(chan[t]))
    <3>1. PICK r : r = Head(chan[t])
      BY Zenon
    <3>2. chan[t] # <<>> /\ TypeOK
      BY <1>7, ReceiveEffect, Zenon DEF WatchTypeOK
    <3>3. r \in Nat /\ r > max_rev[t]
      BY <2>2, <3>1, <3>2, HeadOfChannel, Zenon DEF Fresh
    <3>4. sent'[t] = Append(sent[t], r) /\ max_rev'[t] = r
      BY <1>7, <2>2, <3>1, ReceiveEffect, Zenon
    <3>5. Increasing(sent'[t]) /\ \A i \in 1..Len(sent'[t]) : sent'[t][i] <= max_rev'[t]
      BY <1>0, <1>1, <3>3, <3>4, AppendGreater, Zenon
    <3> QED
      BY <1>0, <2>1, <3>5, Zenon DEF ScanKept, OrderOK
  <2>3. CASE ~Fresh(t, Head(chan[t]))
    <3>1. SentKept(t)
      BY <1>7, <2>3, ReceiveEffect, Zenon
    <3> QED
      BY <1>0, <2>1, <3>1, Zenon DEF ScanKept, SentKept, OrderOK
  <2> QED
    BY <2>2, <2>3, Zenon
<1>8. ASSUME StreamPolled(t) \/ StreamProgress(t) \/ StreamClose(t)
      PROVE  OrderOK(t)'
  <2>1. /\ spc'[t] = "open" \/ spc'[t] = "polled" \/ spc'[t] = "closed"
        /\ ScanKept(t) /\ SentKept(t)
    BY <1>8, Effects, Zenon
  <2>2. spc'[t] \notin {"new", "begun"}
    BY <2>1
  <2> QED
    BY <1>0, <2>1, <2>2, Zenon DEF ScanKept, SentKept, OrderOK
<1> QED
  BY <1>2, <1>3, <1>4, <1>5, <1>6, <1>7, <1>8, KeptOrStep, Zenon DEF StreamStep

\* The client of a watch of one key gets every event once and in order: the past
\* changes in the order of the scan, and from the channel only what retain finds
\* above everything yielded before.
THEOREM OnceInOrderCorrect == WatchSpec => []OnceInOrder
<1> DEFINE Ordered == NumKeys = 1 => \A t \in Watchers : OrderOK(t)
<1>1. WatchInit => Ordered
  <2> SUFFICES ASSUME WatchInit, NEW t \in Watchers
               PROVE  OrderOK(t)
    BY Zenon
  <2>1. past[t] = <<>> /\ sent[t] = <<>>
    BY Zenon DEF WatchInit
  <2>2. Increasing(<<>>) /\ \A i \in 1..Len(<<>>) : <<>>[i] <= max_rev[t]
    BY DEF Increasing
  <2> QED
    BY <2>1, <2>2, Zenon DEF OrderOK
<1>2. WatchTypeOK /\ Ordered /\ [WatchNext]_watchVars => Ordered'
  BY OrderStep, Zenon
<1>3. Ordered => OnceInOrder
  BY Zenon DEF OrderOK, OnceInOrder
<1> HIDE DEF Ordered
<1> QED
  BY <1>1, <1>2, <1>3, WatchTypeCorrect, PTL DEF WatchSpec

-----------------------------------------------------------------------------
(* Nothing is missed.                                                      *)

\* Neither the revision nor the compaction goes back.
LEMMA Forward ==
  ASSUME WatchTypeOK, [WatchNext]_watchVars
  PROVE  /\ rev \in Nat /\ earliest \in Nat /\ rev' >= rev /\ earliest' >= earliest
         /\ rev' \in Nat /\ earliest' \in Nat
<1>0. rev \in Nat /\ earliest \in Nat
  BY Zenon DEF WatchTypeOK, TypeOK
<1>1. ASSUME NEW w \in Writers, NEW k \in Keys, CommitKey(w, k)
      PROVE  rev' = rev + 1 /\ earliest' = earliest
  BY <1>1, Zenon DEF CommitKey, Commit
<1>2. ASSUME NotifierStep \/ UNCHANGED watchVars
      PROVE  rev' = rev /\ earliest' = earliest
  BY <1>2, Zenon DEF NotifierStep, WriterStep, CollectWatchers, SendJob, Acknowledge,
    ThreadStep, SpoolJob, TakeJob, DoSend, PopSpool, PublishProgress, WalHandled, writerVars,
    watchVars, vars, storeVars
<1>3. ASSUME NEW r \in Revisions, Compact(r)
      PROVE  rev' = rev /\ earliest' > earliest /\ earliest' \in Nat
  <2>1. rev' = rev /\ r - 1 > earliest /\ earliest' = r - 1
    BY <1>3, Zenon DEF Compact, vars, writerVars
  <2> QED
    BY <1>0, <2>1, NotifierAssumption DEF Revisions
<1>4. ASSUME NEW t \in Watchers, StreamStep(t)
      PROVE  rev' = rev /\ earliest' = earliest
  BY <1>4, Zenon DEF StreamStep, WatchBegin, WatchRefused, WatchRegister, WatchScan, StreamOpen,
    StreamReceive, StreamPolled, StreamProgress, StreamClose, Watch, Receive, Unwatch, vars,
    writerVars, storeVars
<1>5. \/ rev' = rev + 1 /\ earliest' = earliest
      \/ rev' = rev /\ earliest' = earliest
      \/ rev' = rev /\ earliest' > earliest /\ earliest' \in Nat
  BY <1>1, <1>2, <1>3, <1>4, Zenon DEF WatchNext
<1> QED
  BY <1>0, <1>5

\* A commit gives its revision a key, and nothing changes it afterwards.
LEMMA StoreStep ==
  ASSUME WatchTypeOK, StoreOK, [WatchNext]_watchVars
  PROVE  StoreOK'
<1>1. ASSUME NEW w \in Writers, NEW k \in Keys, CommitKey(w, k)
      PROVE  StoreOK'
  <2>1. rev < MaxRev /\ rev' = rev + 1 /\ key' = [key EXCEPT ![rev + 1] = k]
    BY <1>1, Zenon DEF CommitKey, Commit
  <2>2. rev \in Nat /\ key \in [Revisions -> Keys \cup {0}]
    BY Zenon DEF WatchTypeOK, TypeOK
  <2> SUFFICES ASSUME NEW r \in 1..(rev + 1)
               PROVE  r \in Revisions /\ key'[r] \in Keys
    BY <2>1, Zenon DEF StoreOK
  <2>3. r \in Revisions
    BY <2>1, <2>2, NotifierAssumption DEF Revisions
  <2>4. CASE r = rev + 1
    BY <2>1, <2>2, <2>3, <2>4, Zenon
  <2>5. CASE r # rev + 1
    <3>1. r \in 1..rev
      BY <2>2, <2>5
    <3> QED
      BY <2>1, <2>2, <2>3, <2>5, <3>1, Zenon DEF StoreOK
  <2> QED
    BY <2>4, <2>5, Zenon
<1>2. ASSUME NotifierStep \/ UNCHANGED watchVars
      PROVE  rev' = rev /\ key' = key
  BY <1>2, Zenon DEF NotifierStep, WriterStep, CollectWatchers, SendJob, Acknowledge,
    ThreadStep, SpoolJob, TakeJob, DoSend, PopSpool, PublishProgress, WalHandled, writerVars,
    watchVars, vars, storeVars
<1>3. ASSUME NEW r \in Revisions, Compact(r)
      PROVE  rev' = rev /\ key' = key
  BY <1>3, Zenon DEF Compact, vars, writerVars
<1>4. ASSUME NEW t \in Watchers, StreamStep(t)
      PROVE  rev' = rev /\ key' = key
  BY <1>4, Zenon DEF StreamStep, WatchBegin, WatchRefused, WatchRegister, WatchScan, StreamOpen,
    StreamReceive, StreamPolled, StreamProgress, StreamClose, Watch, Receive, Unwatch, vars,
    writerVars, storeVars
<1>5. ASSUME rev' = rev, key' = key
      PROVE  StoreOK'
  BY <1>5, Zenon DEF StoreOK
<1> QED
  BY <1>1, <1>2, <1>3, <1>4, <1>5, Zenon DEF WatchNext

\* The stream and the watcher are registered and closed together.
LEMMA LinkStep ==
  ASSUME WatchTypeOK, [WatchNext]_watchVars, NEW t \in Watchers, LinkOK(t)
  PROVE  LinkOK(t)'
<1> DEFINE Served(s) == s \in {"scan", "open", "polled"}
           Early(s) == s \in {"new", "begun", "scan"}
<1>0. /\ Served(spc[t]) => watcher[t] = "open" /\ start[t] = start_rev[t]
      /\ Early(spc[t]) => got[t] = <<>>
      /\ since[t] <= rev
  BY Zenon DEF LinkOK
<1>1. since[t] \in Nat
  BY Zenon DEF WatchTypeOK, TypeOK
<1> SUFFICES /\ Served(spc'[t]) => watcher'[t] = "open" /\ start'[t] = start_rev'[t]
             /\ Early(spc'[t]) => got'[t] = <<>>
             /\ since'[t] <= rev'
  BY Zenon DEF LinkOK
<1>2. ~Served("new") /\ ~Served("begun") /\ ~Served("closed") /\ Served("scan")
      /\ Served("open") /\ Served("polled") /\ Early("new") /\ Early("begun") /\ Early("scan")
      /\ ~Early("open") /\ ~Early("polled") /\ ~Early("closed")
  OBVIOUS
<1> HIDE DEF Served, Early
<1>3. WatcherKept(t) => since'[t] <= rev'
  BY <1>0, <1>1, Forward DEF WatcherKept
<1>4. ASSUME Kept(t)
      PROVE  /\ Served(spc'[t]) => watcher'[t] = "open" /\ start'[t] = start_rev'[t]
             /\ Early(spc'[t]) => got'[t] = <<>>
             /\ since'[t] <= rev'
  BY <1>0, <1>3, <1>4, Zenon DEF Kept, AskKept, WatcherKept, GotKept
<1>5. ASSUME NEW r \in 0..MaxRev, WatchBegin(t, r) \/ WatchRefused(t, r)
      PROVE  /\ Served(spc'[t]) => watcher'[t] = "open" /\ start'[t] = start_rev'[t]
             /\ Early(spc'[t]) => got'[t] = <<>>
             /\ since'[t] <= rev'
  <2>1. /\ spc[t] = "new"
        /\ spc'[t] = "begun" \/ spc'[t] = "closed"
        /\ WatcherKept(t) /\ GotKept(t)
    BY <1>5, Effects, Zenon
  <2> QED
    BY <1>0, <1>2, <1>3, <2>1, Zenon DEF GotKept
<1>6. ASSUME WatchRegister(t)
      PROVE  /\ Served(spc'[t]) => watcher'[t] = "open" /\ start'[t] = start_rev'[t]
             /\ Early(spc'[t]) => got'[t] = <<>>
             /\ since'[t] <= rev'
  <2>1. /\ spc[t] = "begun" /\ spc'[t] = "scan"
        /\ watcher'[t] = "open" /\ start'[t] = start_rev[t] /\ since'[t] = rev
        /\ start_rev'[t] = start_rev[t] /\ got'[t] = got[t]
    BY <1>6, Effects, Zenon DEF AskKept, GotKept
  <2>2. since'[t] <= rev'
    BY <2>1, Forward
  <2> QED
    BY <1>0, <1>2, <2>1, <2>2, Zenon
<1>7. ASSUME WatchScan(t) \/ StreamPolled(t) \/ StreamProgress(t) \/ StreamOpen(t)
      PROVE  /\ Served(spc'[t]) => watcher'[t] = "open" /\ start'[t] = start_rev'[t]
             /\ Early(spc'[t]) => got'[t] = <<>>
             /\ since'[t] <= rev'
  <2>1. /\ \/ spc[t] = "scan" /\ spc'[t] = "scan"
           \/ spc[t] = "scan" /\ spc'[t] = "open"
           \/ spc[t] = "open" /\ spc'[t] = "polled"
           \/ spc[t] = "polled" /\ spc'[t] = "open"
        /\ AskKept(t) /\ WatcherKept(t) /\ GotKept(t)
    BY <1>7, Effects, ScanEffect, Zenon
  <2> QED
    BY <1>0, <1>2, <1>3, <2>1, Zenon DEF AskKept, WatcherKept, GotKept
<1>8. ASSUME StreamReceive(t)
      PROVE  /\ Served(spc'[t]) => watcher'[t] = "open" /\ start'[t] = start_rev'[t]
             /\ Early(spc'[t]) => got'[t] = <<>>
             /\ since'[t] <= rev'
  <2>1. spc[t] = "open" /\ spc'[t] = "open" /\ AskKept(t) /\ WatcherKept(t)
    BY <1>8, ReceiveEffect, Zenon
  <2> QED
    BY <1>0, <1>2, <1>3, <2>1, Zenon DEF AskKept, WatcherKept
<1>9. ASSUME StreamClose(t)
      PROVE  /\ Served(spc'[t]) => watcher'[t] = "open" /\ start'[t] = start_rev'[t]
             /\ Early(spc'[t]) => got'[t] = <<>>
             /\ since'[t] <= rev'
  <2>1. spc'[t] = "closed" /\ since'[t] = since[t]
    BY <1>9, Effects, Zenon
  <2>2. since'[t] <= rev'
    BY <1>0, <1>1, <2>1, Forward
  <2> QED
    BY <1>2, <2>1, <2>2, Zenon
<1> QED
  BY <1>4, <1>5, <1>6, <1>7, <1>8, <1>9, KeptOrStep, Zenon DEF StreamStep

\* What is covered stays so.
LEMMA CoveredStays ==
  ASSUME WatchTypeOK, [WatchNext]_watchVars, NEW r \in Int, NEW s, NEW z,
         Covered(r, s), InSeq(r, s) => InSeq(r, z)
  PROVE  InSeq(r, z) \/ r <= earliest'
<1>1. CASE r <= earliest
  BY <1>1, Forward
<1> QED
  BY <1>1, Zenon DEF Covered

\* The scan finds every revision from start_rev on that is not compacted.
LEMMA ScanCovers ==
  ASSUME WatchTypeOK, StoreOK, NumKeys = 1, NEW t \in Watchers, OrderOK(t), WatchScan(t),
         NEW r \in start_rev[t]..rev
  PROVE  InSeq(r, past'[t]) \/ r <= earliest'
<1>1. /\ rev \in Nat /\ earliest \in Nat /\ start_rev[t] \in 0..MaxRev
  BY Zenon DEF WatchTypeOK, TypeOK
<1>2. earliest' = earliest
  BY Zenon DEF WatchScan, storeVars
<1>3. CASE r <= earliest
  BY <1>2, <1>3, Zenon
<1>4. CASE r > earliest
  <2>1. r \in 1..rev /\ r >= start_rev[t]
    BY <1>1, <1>4
  <2>2. Keys = {1}
    BY DEF Keys
  <2>3. key[r] = 1
    BY <2>1, <2>2, Zenon DEF StoreOK
  <2>4. Wanted(t, 1, r)
    BY <1>4, <2>1, <2>3, Zenon DEF Wanted
  <2> QED
    BY <2>1, <2>4, ScanOne, Zenon
<1> QED
  BY <1>1, <1>3, <1>4

\* The last of the scanned revisions has been committed.
LEMMA ScanBelow ==
  ASSUME WatchTypeOK, NumKeys = 1, NEW t \in Watchers, OrderOK(t), WatchScan(t)
  PROVE  MaxPast(t)' \in 0..rev
<1>1. rev \in Nat
  BY Zenon DEF WatchTypeOK, TypeOK
<1>2. past'[t] \in Seq(Nat) /\ \A i \in 1..Len(past'[t]) : past'[t][i] \in 1..rev
  BY ScanOne, Zenon
<1>3. CASE past'[t] = <<>>
  BY <1>1, <1>3 DEF MaxPast
<1>4. CASE past'[t] # <<>>
  <2>1. Len(past'[t]) \in 1..Len(past'[t])
    BY <1>2, <1>4, EmptySeq, LenProperties
  <2>2. past'[t][Len(past'[t])] \in 1..rev
    BY <1>2, <2>1, Zenon
  <2>3. MaxPast(t)' = past'[t][Len(past'[t])]
    BY <1>4, Zenon DEF MaxPast
  <2> QED
    BY <1>1, <2>2, <2>3
<1> QED
  BY <1>3, <1>4, Zenon

\* The watcher is registered before the scan, so that the scan reads what was
\* committed before the registration.
LEMMA PastStep ==
  ASSUME WatchTypeOK, [WatchNext]_watchVars, NumKeys = 1, StoreOK,
         NEW t \in Watchers, OrderOK(t), LinkOK(t), PastOK(t)
  PROVE  PastOK(t)'
<1>0. /\ asked[t] \in 0..MaxRev /\ start_rev[t] \in 0..MaxRev /\ since[t] \in Nat
      /\ MaxPast(t) \in Nat
  BY MaxPastType, Zenon DEF WatchTypeOK, TypeOK
<1>1. ASSUME Kept(t), spc[t] = "scan"
      PROVE  PastOK(t)'
  <2>1. /\ asked[t] = 0 => todo[t] = {} /\ past[t] = <<>>
        /\ asked[t] > 0 /\ todo[t] = {} =>
             /\ \A r \in start_rev[t]..since[t] : Covered(r, past[t])
             /\ \A r \in start_rev[t]..MaxPast(t) : Covered(r, past[t])
    BY <1>1, Zenon DEF PastOK
  <2>2. /\ asked'[t] = asked[t] /\ start_rev'[t] = start_rev[t] /\ since'[t] = since[t]
        /\ todo'[t] = todo[t] /\ past'[t] = past[t] /\ MaxPast(t)' = MaxPast(t)
    BY <1>1, Zenon DEF Kept, AskKept, ScanKept, WatcherKept, MaxPast
  <2>3. ASSUME asked[t] > 0, todo[t] = {}, NEW r \in start_rev[t]..since[t]
        PROVE  Covered(r, past[t])'
    <3>1. r \in Int /\ Covered(r, past[t])
      BY <1>0, <2>1, <2>3
    <3> QED
      BY <2>2, <3>1, CoveredStays, Zenon DEF Covered
  <2>4. ASSUME asked[t] > 0, todo[t] = {}, NEW r \in start_rev[t]..MaxPast(t)
        PROVE  Covered(r, past[t])'
    <3>1. r \in Int /\ Covered(r, past[t])
      BY <1>0, <2>1, <2>4
    <3> QED
      BY <2>2, <3>1, CoveredStays, Zenon DEF Covered
  <2> QED
    BY <2>1, <2>2, <2>3, <2>4, Zenon DEF PastOK
<1>2. ASSUME WatchRegister(t)
      PROVE  PastOK(t)'
  <2>1. /\ spc[t] = "begun" /\ asked'[t] = asked[t] /\ past'[t] = past[t]
        /\ todo'[t] = IF asked[t] > 0 THEN Keys ELSE {}
    BY <1>2, Effects, Zenon DEF AskKept
  <2>2. past[t] = <<>>
    BY <2>1, Zenon DEF OrderOK
  <2>3. Keys = {1}
    BY DEF Keys
  <2>4. asked[t] > 0 => todo'[t] # {}
    BY <2>1, <2>3, Zenon
  <2>5. asked[t] = 0 => todo'[t] = {}
    BY <2>1
  <2> QED
    BY <2>1, <2>2, <2>4, <2>5, Zenon DEF PastOK
<1>3. ASSUME WatchScan(t)
      PROVE  PastOK(t)'
  <2>1. /\ spc[t] = "scan" /\ todo[t] # {} /\ AskKept(t) /\ WatcherKept(t)
    BY <1>3, ScanEffect, Zenon
  <2>2. asked'[t] = asked[t] /\ start_rev'[t] = start_rev[t] /\ since'[t] = since[t]
    BY <2>1, Zenon DEF AskKept, WatcherKept
  <2>3. asked[t] # 0
    BY <2>1, Zenon DEF PastOK
  <2>4. since[t] <= rev /\ rev \in Nat
    BY Forward, Zenon DEF LinkOK
  <2>5. ASSUME NEW r \in start_rev[t]..since[t]
        PROVE  Covered(r, past[t])'
    <3>1. r \in start_rev[t]..rev
      BY <1>0, <2>4
    <3> QED
      BY <1>3, <3>1, ScanCovers, Zenon DEF Covered
  <2>6. ASSUME NEW r \in start_rev[t]..MaxPast(t)'
        PROVE  Covered(r, past[t])'
    <3>1. MaxPast(t)' \in 0..rev
      BY <1>3, ScanBelow, Zenon
    <3>2. r \in start_rev[t]..rev
      BY <1>0, <2>4, <3>1
    <3> QED
      BY <1>3, <3>2, ScanCovers, Zenon DEF Covered
  <2> QED
    BY <2>2, <2>3, <2>5, <2>6, Zenon DEF PastOK
<1>4. ASSUME spc'[t] # "scan"
      PROVE  PastOK(t)'
  BY <1>4, Zenon DEF PastOK
<1>5. ASSUME Kept(t), spc[t] # "scan"
      PROVE  PastOK(t)'
  BY <1>4, <1>5, Zenon DEF Kept
<1>6. ASSUME \/ \E r \in 0..MaxRev : WatchBegin(t, r) \/ WatchRefused(t, r)
             \/ StreamOpen(t) \/ StreamPolled(t) \/ StreamProgress(t) \/ StreamClose(t)
             \/ StreamReceive(t)
      PROVE  PastOK(t)'
  <2>1. \/ spc'[t] = "begun" \/ spc'[t] = "closed" \/ spc'[t] = "open" \/ spc'[t] = "polled"
    BY <1>6, Effects, ReceiveEffect, Zenon
  <2>2. spc'[t] # "scan"
    BY <2>1
  <2> QED
    BY <1>4, <2>2, Zenon
<1> QED
  BY <1>1, <1>2, <1>3, <1>5, <1>6, KeptOrStep, Zenon DEF StreamStep

\* A sequence with one more revision.
LEMMA AppendFacts ==
  ASSUME NEW s \in Seq(Nat), NEW e \in Nat
  PROVE  /\ InSeq(e, Append(s, e))
         /\ \A r : InSeq(r, s) => InSeq(r, Append(s, e))
         /\ \A i \in 1..Len(Append(s, e)) :
              Append(s, e)[i] = e \/ (i \in 1..Len(s) /\ Append(s, e)[i] = s[i])
         /\ \A i \in 1..Len(s) : i \in 1..Len(Append(s, e)) /\ Append(s, e)[i] = s[i]
         /\ \E i \in 1..Len(Append(s, e)) : Append(s, e)[i] = e
<1> DEFINE a == Append(s, e)
<1>1. /\ Len(a) = Len(s) + 1
      /\ \A i \in 1..Len(s) : a[i] = s[i]
      /\ a[Len(s) + 1] = e
  BY AppendProperties
<1>2. PICK n \in Nat : n = Len(s)
  BY LenProperties, Zenon
<1> HIDE DEF a
<1>3. n + 1 \in 1..Len(a) /\ a[n + 1] = e
  BY <1>1, <1>2
<1>4. ASSUME NEW i \in 1..Len(s)
      PROVE  i \in 1..Len(a) /\ a[i] = s[i]
  <2>1. i \in 1..(n + 1)
    BY <1>2
  <2> QED
    BY <1>1, <1>2, <2>1, Zenon
<1>5. ASSUME NEW i \in 1..Len(a)
      PROVE  a[i] = e \/ (i \in 1..Len(s) /\ a[i] = s[i])
  <2>1. i \in 1..n \/ i = n + 1
    BY <1>1, <1>2
  <2> QED
    BY <1>2, <1>3, <1>4, <2>1, Zenon
<1> QED
  BY <1>3, <1>4, <1>5, Zenon DEF InSeq, a

\* What is received next is later than all that was received.
LEMMA HeadIsLater ==
  ASSUME TypeOK, WatchersInOrder, NEW t \in Watchers, chan[t] # <<>>,
         NEW i \in 1..Len(got[t])
  PROVE  got[t][i] < Head(chan[t])
<1>1. PICK m \in Nat, n \in Nat : m = Len(got[t]) /\ n = Len(chan[t])
  BY StreamType, Zenon
<1>2. chan[t] \in Seq(Nat)
  BY StreamType, Zenon
<1>3. Head(chan[t]) = chan[t][1] /\ n >= 1
  BY <1>1, <1>2, HeadTailProperties, EmptySeq
<1>4. i \in 1..(m + n) /\ (m + 1) \in 1..(m + n) /\ i < m + 1 /\ i <= m /\ ~(m + 1 <= m)
      /\ (m + 1) - m = 1
  <2>1. i \in 1..m /\ n >= 1
    BY <1>1, <1>3, Zenon
  <2> QED
    BY <2>1
<1>5. Len(Stream(t)) = m + n
  BY <1>1, StreamType, Zenon
<1>6. Stream(t)[i] = got[t][i] /\ Stream(t)[m + 1] = chan[t][1]
  <2>1. \A k \in 1..(m + n) :
          Stream(t)[k] = IF k <= m THEN got[t][k] ELSE chan[t][k - m]
    BY <1>1, <1>5, StreamType, Zenon
  <2>2. Stream(t)[i] = got[t][i]
    BY <1>4, <2>1, Zenon
  <2>3. Stream(t)[m + 1] = chan[t][(m + 1) - m]
    BY <1>4, <2>1, Zenon
  <2> QED
    BY <1>4, <2>2, <2>3, Zenon
<1>7. Stream(t)[i] < Stream(t)[m + 1]
  BY <1>4, <1>5, Zenon DEF WatchersInOrder, Increasing
<1> QED
  BY <1>3, <1>6, <1>7, Zenon

\* A received event is yielded, or retain drops it and it has been yielded as a
\* past change or compacted.
LEMMA ReceiveSent ==
  ASSUME WatchTypeOK, WatchersInOrder, NEW t \in Watchers, SentOK(t), StreamReceive(t)
  PROVE  SentOK(t)'
<1> DEFINE h == Head(chan[t])
           g == got[t]
           s == sent[t]
<1>1. /\ spc[t] = "open" /\ chan[t] # <<>> /\ got'[t] = Append(g, h)
      /\ Fresh(t, h) => sent'[t] = Append(s, h) /\ max_rev'[t] = h
      /\ ~Fresh(t, h) => sent'[t] = s /\ max_rev'[t] = max_rev[t]
      /\ asked'[t] = asked[t] /\ start_rev'[t] = start_rev[t] /\ since'[t] = since[t]
      /\ earliest' = earliest
  BY ReceiveEffect, Zenon DEF SentKept, AskKept, WatcherKept, storeVars
<1>2. /\ asked[t] > 0 => \A r \in start_rev[t]..since[t] : Covered(r, s)
      /\ \A i \in 1..Len(g) : start_rev[t] <= g[i] => Covered(g[i], s)
      /\ \A r \in start_rev[t]..max_rev[t] :
           (\A i \in 1..Len(g) : g[i] < r) => Covered(r, s)
  BY <1>1, Zenon DEF SentOK
<1>3. TypeOK /\ s \in Seq(Nat) /\ g \in Seq(Nat) /\ max_rev[t] \in Nat
      /\ start_rev[t] \in 0..MaxRev
  BY Zenon DEF WatchTypeOK, TypeOK
<1>4. h \in Nat
  BY <1>1, <1>3, HeadOfChannel, Zenon
<1>5. \A i \in 1..Len(g) : g[i] < h
  BY <1>1, <1>3, HeadIsLater, Zenon
<1>6. /\ \A i \in 1..Len(Append(g, h)) :
           Append(g, h)[i] = h \/ (i \in 1..Len(g) /\ Append(g, h)[i] = g[i])
      /\ \A i \in 1..Len(g) : i \in 1..Len(Append(g, h)) /\ Append(g, h)[i] = g[i]
      /\ \E i \in 1..Len(Append(g, h)) : Append(g, h)[i] = h
  BY <1>3, <1>4, AppendFacts, Zenon
<1> SUFFICES
      /\ asked[t] > 0 => \A r \in start_rev[t]..since[t] : Covered(r, sent'[t])
      /\ \A i \in 1..Len(Append(g, h)) :
           start_rev[t] <= Append(g, h)[i] => Covered(Append(g, h)[i], sent'[t])
      /\ \A r \in start_rev[t]..max_rev'[t] :
           (\A i \in 1..Len(Append(g, h)) : Append(g, h)[i] < r) => Covered(r, sent'[t])
  BY <1>1, Zenon DEF SentOK, Covered
<1> HIDE DEF h, g, s
<1>7. CASE Fresh(t, h)
  <2>1. sent'[t] = Append(s, h) /\ max_rev'[t] = h
    BY <1>1, <1>7, Zenon
  <2>2. /\ \A r : Covered(r, s) => Covered(r, sent'[t])
        /\ Covered(h, sent'[t])
    <3>1. InSeq(h, Append(s, h)) /\ \A r : InSeq(r, s) => InSeq(r, Append(s, h))
      BY <1>3, <1>4, AppendFacts, Zenon
    <3> QED
      BY <2>1, <3>1, Zenon DEF Covered
  <2>3. ASSUME NEW r \in start_rev[t]..max_rev'[t],
               \A i \in 1..Len(Append(g, h)) : Append(g, h)[i] < r
        PROVE  FALSE
    <3>1. h < r
      BY <1>6, <2>3, Zenon
    <3> QED
      BY <1>3, <1>4, <2>1, <3>1
  <2> QED
    BY <1>2, <1>6, <2>2, <2>3, Zenon
<1>8. CASE ~Fresh(t, h)
  <2>1. sent'[t] = s /\ max_rev'[t] = max_rev[t]
    BY <1>1, <1>8, Zenon
  <2>2. h <= max_rev[t]
    BY <1>3, <1>4, <1>8 DEF Fresh
  <2>3. ASSUME start_rev[t] <= h
        PROVE  Covered(h, s)
    <3>1. h \in start_rev[t]..max_rev[t]
      BY <1>3, <1>4, <2>2, <2>3
    <3> QED
      BY <1>2, <1>5, <3>1, Zenon
  <2>4. ASSUME NEW r \in start_rev[t]..max_rev[t],
               \A i \in 1..Len(Append(g, h)) : Append(g, h)[i] < r
        PROVE  Covered(r, s)
    <3>1. \A i \in 1..Len(g) : g[i] < r
      BY <1>6, <2>4, Zenon
    <3> QED
      BY <1>2, <2>4, <3>1, Zenon
  <2>5. ASSUME NEW i \in 1..Len(Append(g, h)), start_rev[t] <= Append(g, h)[i]
        PROVE  Covered(Append(g, h)[i], s)
    BY <1>2, <1>6, <2>3, <2>5, Zenon
  <2> QED
    BY <1>2, <2>1, <2>4, <2>5, Zenon
<1> QED
  BY <1>7, <1>8, Zenon

\* The stream starts with the past changes.
LEMMA OpenSent ==
  ASSUME WatchTypeOK, NEW t \in Watchers, LinkOK(t), PastOK(t), StreamOpen(t)
  PROVE  SentOK(t)'
<1>1. /\ spc[t] = "scan" /\ todo[t] = {} /\ sent'[t] = past[t] /\ max_rev'[t] = MaxPast(t)
      /\ asked'[t] = asked[t] /\ start_rev'[t] = start_rev[t] /\ since'[t] = since[t]
      /\ got'[t] = got[t]
  BY Effects, Zenon DEF AskKept, WatcherKept, GotKept
<1>2. earliest' = earliest
  BY Zenon DEF StreamOpen, storeVars
<1>3. got[t] = <<>>
  BY <1>1, Zenon DEF LinkOK
<1>4. asked[t] \in 0..MaxRev /\ start_rev[t] \in 0..MaxRev /\ earliest \in Nat
  BY Zenon DEF WatchTypeOK
<1>5. ASSUME asked[t] > 0
      PROVE  /\ \A r \in start_rev[t]..since[t] : Covered(r, past[t])
             /\ \A r \in start_rev[t]..MaxPast(t) : Covered(r, past[t])
  BY <1>1, <1>5, Zenon DEF PastOK
<1>6. ASSUME ~(asked[t] > 0), NEW r \in start_rev[t]..MaxPast(t)
      PROVE  Covered(r, past[t])
  <2>1. asked[t] = 0
    BY <1>4, <1>6, NotifierAssumption
  <2>2. past[t] = <<>>
    BY <1>1, <2>1, Zenon DEF PastOK
  <2>3. MaxPast(t) = 0
    BY <2>2, Zenon DEF MaxPast
  <2>4. r <= earliest
    BY <1>4, <1>6, <2>3, NotifierAssumption
  <2> QED
    BY <2>4, Zenon DEF Covered
<1>7. \A i \in 1..Len(got[t]) : FALSE
  BY <1>3
<1> QED
  BY <1>1, <1>2, <1>5, <1>6, <1>7, Zenon DEF SentOK, Covered

\* Every other step leaves what the stream has yielded as it is.
LEMMA SentStep ==
  ASSUME WatchTypeOK, WatchersInOrder, [WatchNext]_watchVars,
         NEW t \in Watchers, LinkOK(t), PastOK(t), SentOK(t)
  PROVE  SentOK(t)'
<1> DEFINE Serving(p) == p \in {"open", "polled"}
<1>0. ~Serving("new") /\ ~Serving("begun") /\ ~Serving("scan") /\ ~Serving("closed")
      /\ Serving("open") /\ Serving("polled")
  OBVIOUS
<1>1. ASSUME AskKept(t), SentKept(t), WatcherKept(t), GotKept(t),
             Serving(spc'[t]) => Serving(spc[t])
      PROVE  SentOK(t)'
  <2> SUFFICES ASSUME Serving(spc[t]) PROVE SentOK(t)'
    BY <1>1, Zenon DEF SentOK
  <2>1. /\ asked[t] > 0 => \A r \in start_rev[t]..since[t] : Covered(r, sent[t])
        /\ \A i \in 1..Len(got[t]) : start_rev[t] <= got[t][i] => Covered(got[t][i], sent[t])
        /\ \A r \in start_rev[t]..max_rev[t] :
             (\A i \in 1..Len(got[t]) : got[t][i] < r) => Covered(r, sent[t])
    BY Zenon DEF SentOK
  <2>2. /\ start_rev[t] \in Int /\ \A i \in 1..Len(got[t]) : got[t][i] \in Int
        /\ since[t] \in Int /\ max_rev[t] \in Int
    <3>1. /\ start_rev[t] \in 0..MaxRev /\ since[t] \in Nat /\ max_rev[t] \in Nat
          /\ got[t] \in Seq(Nat)
      BY Zenon DEF WatchTypeOK, TypeOK
    <3>2. \A i \in 1..Len(got[t]) : got[t][i] \in Nat
      BY <3>1, ElementOfSeq, Zenon
    <3> QED
      BY <3>1, <3>2
  <2>3. ASSUME NEW r \in Int, Covered(r, sent[t])
        PROVE  InSeq(r, sent[t]) \/ r <= earliest'
    BY <2>3, CoveredStays, Zenon
  <2>4. /\ \A r \in start_rev[t]..since[t] : r \in Int
        /\ \A r \in start_rev[t]..max_rev[t] : r \in Int
    BY <2>2
  <2>5. /\ asked'[t] = asked[t] /\ start_rev'[t] = start_rev[t] /\ sent'[t] = sent[t]
        /\ max_rev'[t] = max_rev[t] /\ since'[t] = since[t] /\ got'[t] = got[t]
    BY <1>1, Zenon DEF AskKept, SentKept, WatcherKept, GotKept
  <2> QED
    BY <2>1, <2>2, <2>3, <2>4, <2>5, Zenon DEF SentOK, Covered
<1>2. ASSUME ~Serving(spc'[t])
      PROVE  SentOK(t)'
  BY <1>2, Zenon DEF SentOK
<1> HIDE DEF Serving
<1>3. ASSUME Kept(t)
      PROVE  SentOK(t)'
  BY <1>1, <1>3, Zenon DEF Kept
<1>4. ASSUME StreamPolled(t) \/ StreamProgress(t)
      PROVE  SentOK(t)'
  <2>1. /\ spc[t] = "open" \/ spc[t] = "polled"
        /\ AskKept(t) /\ SentKept(t) /\ WatcherKept(t) /\ GotKept(t)
    BY <1>4, Effects, Zenon
  <2> QED
    BY <1>0, <1>1, <2>1, Zenon
<1>5. ASSUME \/ \E r \in 0..MaxRev : WatchBegin(t, r) \/ WatchRefused(t, r)
             \/ WatchRegister(t) \/ WatchScan(t) \/ StreamClose(t)
      PROVE  SentOK(t)'
  <2>1. spc'[t] = "begun" \/ spc'[t] = "closed" \/ spc'[t] = "scan"
    BY <1>5, Effects, ScanEffect, Zenon
  <2> QED
    BY <1>0, <1>2, <2>1, Zenon
<1> QED
  BY <1>3, <1>4, <1>5, KeptOrStep, ReceiveSent, OpenSent, Zenon DEF StreamStep

\* The state of a watch of one key that NothingMissed rests on.
CoverOK ==
  NumKeys = 1 => \A t \in Watchers : OrderOK(t) /\ PastOK(t) /\ SentOK(t)

LinksOK == StoreOK /\ \A t \in Watchers : LinkOK(t)

\* Before the first set there is nothing to miss.
LEMMA CoverInit ==
  ASSUME Base = 0, WatchInit
  PROVE  LinksOK /\ CoverOK
<1>1. rev = 0
  BY Zenon DEF WatchInit, Init
<1>2. StoreOK
  BY <1>1 DEF StoreOK
<1>3. ASSUME NEW t \in Watchers
      PROVE  LinkOK(t) /\ OrderOK(t) /\ PastOK(t) /\ SentOK(t)
  <2>1. /\ spc[t] = "new" /\ past[t] = <<>> /\ sent[t] = <<>>
    BY Zenon DEF WatchInit
  <2>2. got[t] = <<>> /\ since[t] = 0
    BY Zenon DEF WatchInit, Init
  <2>3. Increasing(<<>>) /\ \A i \in 1..Len(<<>>) : <<>>[i] <= max_rev[t]
    BY DEF Increasing
  <2>4. OrderOK(t)
    BY <2>1, <2>3, Zenon DEF OrderOK
  <2>5. spc[t] \notin {"scan", "open", "polled"} /\ since[t] <= rev
    BY <1>1, <2>1, <2>2
  <2> QED
    BY <2>2, <2>4, <2>5, Zenon DEF LinkOK, PastOK, SentOK
<1> QED
  BY <1>2, <1>3, Zenon DEF LinksOK, CoverOK

\* What has been published after the registration is in the channel or was
\* received, and what was committed before it has been scanned.
LEMMA CoverMeans ==
  ASSUME WatchTypeOK, LinksOK, CoverOK, ProgressCovers
  PROVE  NothingMissed
<1> SUFFICES ASSUME NumKeys = 1, NEW t \in Watchers, spc[t] \in {"open", "polled"},
                    NEW r \in start_rev[t]..progress_rev, asked[t] > 0 \/ r > since[t]
             PROVE  InSeq(r, sent[t]) \/ InSeq(r, chan[t]) \/ r \in dropped[t] \/ r <= earliest
  BY Zenon DEF NothingMissed
<1>0. /\ TypeOK /\ start_rev[t] \in 0..MaxRev /\ since[t] \in Nat /\ progress_rev \in Nat
  BY Zenon DEF WatchTypeOK, TypeOK
<1>1. /\ asked[t] > 0 => \A q \in start_rev[t]..since[t] : Covered(q, sent[t])
      /\ \A i \in 1..Len(got[t]) : start_rev[t] <= got[t][i] => Covered(got[t][i], sent[t])
  BY Zenon DEF CoverOK, SentOK
<1>2. spc[t] \in {"scan", "open", "polled"}
  BY Zenon
<1>3. watcher[t] = "open" /\ start[t] = start_rev[t]
  BY <1>2, Zenon DEF LinksOK, LinkOK
<1>4. r \in Nat /\ r >= start_rev[t] /\ start_rev[t] <= r
  BY <1>0
<1>5. CASE r > since[t]
  <2>1. r \in (since[t] + 1)..progress_rev
    BY <1>0, <1>4, <1>5
  <2>2. r \in dropped[t] \/ \E i \in 1..Len(Stream(t)) : Stream(t)[i] = r
    BY <1>3, <1>4, <2>1, Zenon DEF ProgressCovers
  <2>3. CASE r \in dropped[t]
    BY <2>3, Zenon
  <2>4. ASSUME NEW i \in 1..Len(Stream(t)), Stream(t)[i] = r
        PROVE  InSeq(r, chan[t]) \/ Covered(r, sent[t])
    <3>1. PICK m \in Nat, n \in Nat : m = Len(got[t]) /\ n = Len(chan[t])
      BY <1>0, StreamType, Zenon
    <3>2. Len(Stream(t)) = m + n
      BY <1>0, <3>1, StreamType, Zenon
    <3>3. r = IF i <= m THEN got[t][i] ELSE chan[t][i - m]
      BY <1>0, <2>4, <3>1, StreamType, Zenon
    <3>4. i \in 1..(m + n)
      BY <2>4, <3>2, Zenon
    <3>5. CASE i <= m
      <4>1. i \in 1..m
        BY <3>4, <3>5
      <4>2. r = got[t][i]
        BY <3>3, <3>5, Zenon
      <4> QED
        BY <1>1, <1>4, <3>1, <4>1, <4>2, Zenon
    <3>6. CASE ~(i <= m)
      <4>1. i - m \in 1..n
        BY <3>4, <3>6
      <4>2. r = chan[t][i - m]
        BY <3>3, <3>6, Zenon
      <4> QED
        BY <3>1, <4>1, <4>2, Zenon DEF InSeq
    <3> QED
      BY <3>5, <3>6, Zenon
  <2> QED
    BY <2>2, <2>3, <2>4, Zenon DEF Covered
<1>6. CASE ~(r > since[t])
  <2>1. r \in start_rev[t]..since[t]
    BY <1>0, <1>4, <1>6
  <2> QED
    BY <1>1, <1>6, <2>1, Zenon DEF Covered
<1> QED
  BY <1>5, <1>6, Zenon

\* The client of a watch of one key misses nothing: Store::watch registers the
\* watcher before it scans, retain drops only what the scan has found, and the
\* notification thread publishes no revision before its event is in the channel.
THEOREM NothingMissedCorrect ==
  ASSUME Base = 0
  PROVE  WatchSpec => []NothingMissed
<1>1. WatchInit => LinksOK /\ CoverOK
  BY CoverInit
<1>2. WatchTypeOK /\ LinksOK /\ [WatchNext]_watchVars => LinksOK'
  BY StoreStep, LinkStep, Zenon DEF LinksOK
<1>3. WatchTypeOK /\ WatchersInOrder /\ LinksOK /\ CoverOK /\ [WatchNext]_watchVars => CoverOK'
  BY OrderStep, PastStep, SentStep, Zenon DEF LinksOK, CoverOK
<1>4. WatchTypeOK /\ LinksOK /\ CoverOK /\ ProgressCovers => NothingMissed
  BY CoverMeans
<1>5. Spec => []WatchersInOrder
  BY WatchersInOrderCorrect
<1>6. Spec => []ProgressCovers
  BY ProgressCoversCorrect
<1> QED
  BY <1>1, <1>2, <1>3, <1>4, <1>5, <1>6, WatchTypeCorrect, NotifierKept, PTL DEF WatchSpec

-----------------------------------------------------------------------------
(* Progress responses.                                                     *)

\* Only the thread moves next_rev, and progress_rev stays behind it.
LEMMA ThreadForward ==
  ASSUME TypeOK, [Next]_vars, progress_rev < next_rev
  PROVE  /\ next_rev \in Nat /\ next_rev' \in Nat /\ next_rev' >= next_rev
         /\ progress_rev' < next_rev'
<1>0. next_rev \in Nat /\ progress_rev \in Nat
  BY DEF TypeOK
<1>1. CASE DoSend
  <2>1. next_rev' = next_rev + 1 /\ progress_rev' = progress_rev
    BY <1>1, Zenon DEF DoSend
  <2> QED
    BY <1>0, <2>1
<1>2. CASE PublishProgress
  <2>1. next_rev' = next_rev /\ progress_rev' = next_rev - 1
    BY <1>2, Zenon DEF PublishProgress, Written
  <2> QED
    BY <1>0, <2>1
<1>3. ASSUME \/ \E w \in Writers : Commit(w) \/ WriterStep(w)
             \/ SpoolJob \/ TakeJob \/ PopSpool
             \/ \E r \in 1..MaxRev : WalHandled(r)
             \/ \E t \in Watchers : (\E s \in 0..MaxRev : Watch(t, s)) \/ Receive(t) \/ Unwatch(t)
             \/ UNCHANGED vars
      PROVE  next_rev' = next_rev /\ progress_rev' = progress_rev
  BY <1>3, Zenon DEF Commit, WriterStep, CollectWatchers, SendJob, Acknowledge, SpoolJob, TakeJob,
    PopSpool, WalHandled, Watch, Receive, Unwatch, vars, threadVars
<1> QED
  BY <1>0, <1>1, <1>2, <1>3 DEF Next, ThreadStep

\* A channel changes by an event of do_send, by what its stream takes, or is
\* dropped with it.
LEMMA ChannelStep ==
  ASSUME WatchTypeOK, [WatchNext]_watchVars, NEW t \in Watchers
  PROVE  \/ chan'[t] = chan[t]
         \/ DoSend /\ chan'[t] = Append(chan[t], sending.rev)
         \/ StreamReceive(t)
         \/ chan'[t] = <<>>
<1>0. chan \in [Watchers -> Seq(Nat)]
  BY Zenon DEF WatchTypeOK, TypeOK
<1>1. ASSUME NEW w \in Writers, NEW k \in Keys, CommitKey(w, k)
      PROVE  chan' = chan
  BY <1>1, Zenon DEF CommitKey, Commit, streamVars
<1>2. ASSUME NotifierStep, ~DoSend
      PROVE  chan' = chan
  BY <1>2, Zenon DEF NotifierStep, WriterStep, CollectWatchers, SendJob, Acknowledge,
    ThreadStep, SpoolJob, TakeJob, PopSpool, PublishProgress, WalHandled, streamVars
<1>3. ASSUME DoSend
      PROVE  chan'[t] = chan[t] \/ chan'[t] = Append(chan[t], sending.rev)
  BY <1>3, Zenon DEF DoSend
<1>4. ASSUME (\E r \in Revisions : Compact(r)) \/ UNCHANGED watchVars
      PROVE  chan' = chan
  BY <1>4, Zenon DEF Compact, watchVars, vars, streamVars
<1>5. ASSUME NEW u \in Watchers,
             \/ \E r \in 0..MaxRev : WatchBegin(u, r) \/ WatchRefused(u, r)
             \/ WatchRegister(u) \/ WatchScan(u) \/ StreamOpen(u) \/ StreamPolled(u)
             \/ StreamProgress(u)
      PROVE  chan' = chan
  BY <1>5, Zenon DEF WatchBegin, WatchRefused, WatchRegister, Watch, WatchScan, StreamOpen,
    StreamPolled, StreamProgress, vars, streamVars
<1>6. ASSUME NEW u \in Watchers, StreamReceive(u)
      PROVE  u = t \/ chan'[t] = chan[t]
  BY <1>0, <1>6, Zenon DEF StreamReceive, Receive
<1>7. ASSUME NEW u \in Watchers, StreamClose(u)
      PROVE  chan'[t] = <<>> \/ chan'[t] = chan[t]
  BY <1>0, <1>7, Zenon DEF StreamClose, Unwatch
<1> QED
  BY <1>1, <1>2, <1>3, <1>4, <1>5, <1>6, <1>7, Zenon DEF WatchNext, StreamStep

\* Events sent after the channel was found empty have later revisions than those
\* that were complete then.
LEMMA BarrierStep ==
  ASSUME WatchTypeOK, [WatchNext]_watchVars, [Next]_vars, IInv, progress_rev < next_rev,
         NEW t \in Watchers, BarrierOK(t)
  PROVE  BarrierOK(t)'
<1>0. /\ settled[t] < next_rev
      /\ \A i \in 1..Len(chan[t]) : settled[t] < chan[t][i]
      /\ spc[t] \in {"new", "begun", "scan"} => promised[t] = 0
  BY Zenon DEF BarrierOK
<1>1. /\ TypeOK /\ settled[t] \in Nat /\ progress_rev \in Nat /\ chan[t] \in Seq(Nat)
  BY Zenon DEF WatchTypeOK, TypeOK
<1>2. next_rev \in Nat /\ next_rev' \in Nat /\ next_rev' >= next_rev
  BY <1>1, ThreadForward, Zenon
<1>3. \/ BarrierKept(t)
      \/ settled'[t] = settled[t] /\ spc'[t] = "open"
      \/ chan[t] = <<>> /\ settled'[t] = progress_rev /\ spc'[t] = "polled" /\ StreamPolled(t)
  BY KeptOrStep, Effects, ScanEffect, ReceiveEffect, Zenon DEF StreamStep, Kept, BarrierKept
<1>4. settled'[t] = settled[t] \/ (chan[t] = <<>> /\ settled'[t] = progress_rev)
  BY <1>3, Zenon DEF BarrierKept
<1>5. settled'[t] < next_rev'
  BY <1>0, <1>1, <1>2, <1>4
<1>6. \A i \in 1..Len(chan[t]) : settled'[t] < chan[t][i]
  <2>1. chan[t] = <<>> => \A i \in 1..Len(chan[t]) : FALSE
    OBVIOUS
  <2> QED
    BY <1>0, <1>4, <2>1, Zenon
<1>7. \A i \in 1..Len(chan'[t]) : settled'[t] < chan'[t][i]
  <2>1. CASE chan'[t] = chan[t]
    BY <1>6, <2>1, Zenon
  <2>2. CASE DoSend /\ chan'[t] = Append(chan[t], sending.rev)
    <3>1. sending.rev = next_rev
      BY <2>2, Zenon DEF DoSend, IInv, ThreadInv
    <3>2. settled'[t] < next_rev
      BY <1>0, <1>1, <1>2, <1>4
    <3>3. \A i \in 1..Len(Append(chan[t], next_rev)) :
            \/ Append(chan[t], next_rev)[i] = next_rev
            \/ i \in 1..Len(chan[t]) /\ Append(chan[t], next_rev)[i] = chan[t][i]
      BY <1>1, <1>2, AppendFacts, Zenon
    <3> QED
      BY <1>6, <2>2, <3>1, <3>2, <3>3, Zenon
  <2>3. CASE StreamReceive(t)
    <3>1. chan[t] # <<>> /\ chan'[t] = Tail(chan[t])
      BY <2>3, ReceiveEffect, Zenon
    <3>2. PICK n \in Nat : n = Len(chan[t]) /\ n >= 1
      BY <1>1, <3>1, EmptySeq, LenProperties
    <3>3. /\ Len(Tail(chan[t])) = n - 1
          /\ \A i \in 1..(n - 1) : Tail(chan[t])[i] = chan[t][i + 1]
      BY <1>1, <3>1, <3>2, HeadTailProperties, SMTT(20)
    <3>4. \A i \in 1..(n - 1) : i + 1 \in 1..n
      BY <3>2
    <3> QED
      BY <1>6, <3>1, <3>2, <3>3, <3>4, Zenon
  <2>4. CASE chan'[t] = <<>>
    BY <2>4
  <2> QED
    BY <2>1, <2>2, <2>3, <2>4, ChannelStep, Zenon
<1>8. spc'[t] \in {"new", "begun", "scan"} => promised'[t] = 0
  <2>1. \/ spc'[t] = spc[t] /\ BarrierKept(t)
        \/ spc[t] = "new" /\ BarrierKept(t)
        \/ spc[t] = "begun" /\ BarrierKept(t)
        \/ spc[t] = "scan" /\ BarrierKept(t)
        \/ spc'[t] = "open" \/ spc'[t] = "polled" \/ spc'[t] = "closed"
    BY KeptOrStep, Effects, ScanEffect, ReceiveEffect, Zenon DEF StreamStep, Kept
  <2>2. spc'[t] \in {"new", "begun", "scan"} =>
          ~(spc'[t] = "open" \/ spc'[t] = "polled" \/ spc'[t] = "closed")
    OBVIOUS
  <2> QED
    BY <1>0, <2>1, <2>2, Zenon DEF BarrierKept
<1> QED
  BY <1>5, <1>7, <1>8, Zenon DEF BarrierOK

\* What the stream yields is the head of its channel, except when it opens.
LEMMA YieldsHead ==
  ASSUME WatchTypeOK, [WatchNext]_watchVars, NEW t \in Watchers, BarrierOK(t),
         promised[t] > 0, Len(sent'[t]) > Len(sent[t])
  PROVE  sent'[t][Len(sent'[t])] > settled[t]
<1>0. sent[t] \in Seq(Nat) /\ chan[t] \in Seq(Nat) /\ TypeOK /\ settled[t] \in Nat
  BY Zenon DEF WatchTypeOK, TypeOK
<1>1. ASSUME sent'[t] = sent[t]
      PROVE  FALSE
  <2>1. Len(sent[t]) \in Nat
    BY <1>0, LenProperties, Zenon
  <2>2. Len(sent[t]) > Len(sent[t])
    BY <1>1, Zenon
  <2> QED
    BY <2>1, <2>2
<1>2. ASSUME StreamOpen(t)
      PROVE  FALSE
  <2>1. spc[t] = "scan"
    BY <1>2, Effects, Zenon
  <2>2. promised[t] = 0
    BY <2>1, Zenon DEF BarrierOK
  <2> QED
    BY <2>2
<1>3. ASSUME StreamReceive(t)
      PROVE  sent'[t][Len(sent'[t])] > settled[t]
  <2>1. PICK h : h = Head(chan[t])
    BY Zenon
  <2>2. chan[t] # <<>>
    BY <1>3, ReceiveEffect, Zenon
  <2>3. h \in Nat
    BY <1>0, <2>1, <2>2, HeadOfChannel, Zenon
  <2>4. sent'[t] = Append(sent[t], h)
    BY <1>1, <1>3, <2>1, ReceiveEffect, Zenon DEF SentKept
  <2>5. Append(sent[t], h)[Len(Append(sent[t], h))] = h
    BY <1>0, <2>3, AppendProperties
  <2>6. h = chan[t][1] /\ 1 \in 1..Len(chan[t])
    BY <1>0, <2>1, <2>2, HeadTailProperties, EmptySeq, LenProperties
  <2>7. settled[t] < h
    BY <2>6, Zenon DEF BarrierOK
  <2> QED
    BY <1>0, <2>3, <2>4, <2>5, <2>7
<1>4. sent'[t] = sent[t] \/ StreamOpen(t) \/ StreamReceive(t)
  BY KeptOrStep, Effects, ScanEffect, Zenon DEF StreamStep, Kept, SentKept
<1> QED
  BY <1>1, <1>2, <1>3, <1>4, Zenon

\* An event that follows a progress response is later than every revision whose
\* notifications were complete when the biased select found the channel empty.
THEOREM BarrierCorrect ==
  ASSUME Base = 0
  PROVE  WatchSpec => ProgressIsBarrier
<1> DEFINE Barriers == progress_rev < next_rev /\ \A t \in Watchers : BarrierOK(t)
           Yields == \A t \in Watchers :
                       (promised[t] > 0 /\ Len(sent'[t]) > Len(sent[t])) =>
                         sent'[t][Len(sent'[t])] > settled[t]
<1>1. WatchInit => Barriers
  <2> SUFFICES ASSUME WatchInit PROVE Barriers
    OBVIOUS
  <2>1. progress_rev = 0 /\ next_rev = 1
    BY Zenon DEF WatchInit, Init
  <2>2. ASSUME NEW t \in Watchers
        PROVE  settled[t] = 0 /\ promised[t] = 0 /\ chan[t] = <<>>
    BY Zenon DEF WatchInit, Init
  <2> QED
    BY <2>1, <2>2 DEF BarrierOK
<1>2. WatchTypeOK /\ IInv /\ Barriers /\ [WatchNext]_watchVars /\ [Next]_vars => Barriers'
  <2>1. WatchTypeOK => TypeOK
    BY Zenon DEF WatchTypeOK
  <2> QED
    BY <2>1, BarrierStep, ThreadForward, Zenon
<1>3. WatchTypeOK /\ Barriers /\ [WatchNext]_watchVars => Yields
  BY YieldsHead, Zenon
<1>4. Yields => [Yields]_watchVars
  OBVIOUS
<1>5. Spec => []IInv
  BY IInvCorrect
<1> HIDE DEF Barriers
<1> QED
  BY <1>1, <1>2, <1>3, <1>4, <1>5, WatchTypeCorrect, NotifierKept, PTL
    DEF WatchSpec, Spec, ProgressIsBarrier

=============================================================================
