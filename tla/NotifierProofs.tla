--------------------------- MODULE NotifierProofs ---------------------------
(***************************************************************************)
(* Proofs about Notifier, for every number of writers and watchers, every  *)
(* channel capacity and every bound on the revisions.                      *)
(***************************************************************************)
EXTENDS Notifier, SequenceTheorems, TLAPS

-----------------------------------------------------------------------------
(* Type correctness.                                                       *)

\* Every step of the notification path keeps every variable in its type, and
\* try_send never puts more than WATCH_CHANNEL_SIZE events in a channel.
THEOREM TypeCorrect == Spec => []TypeOK
<1> USE NotifierAssumption DEF Job, NoJob, writerVars, watcherVars, threadVars,
         streamVars, walVars
<1>1. Init => TypeOK
  BY SMTT(30) DEF Init, TypeOK
<1>2. TypeOK /\ [Next]_vars => TypeOK'
  <2> SUFFICES ASSUME TypeOK, [Next]_vars PROVE TypeOK'
    OBVIOUS
  <2> USE DEF TypeOK
  <2>1. ASSUME NEW w \in Writers, Commit(w) PROVE TypeOK'
    BY <2>1, SMTT(30) DEF Commit
  <2>2. ASSUME NEW w \in Writers, CollectWatchers(w) PROVE TypeOK'
    BY <2>2 DEF CollectWatchers
  <2>3. ASSUME NEW w \in Writers, SendJob(w) PROVE TypeOK'
    BY <2>3 DEF SendJob, AfterSend
  <2>4. ASSUME NEW w \in Writers, Acknowledge(w) PROVE TypeOK'
    BY <2>4 DEF Acknowledge
  <2>5. CASE SpoolJob
    <3>1. Head(notify_rx) \in Job /\ Tail(notify_rx) \in Seq(Job)
      BY <2>5, HeadTailProperties, Zenon DEF SpoolJob
    <3> HIDE DEF Job
    <3> QED
      BY <2>5, <3>1 DEF SpoolJob
  <2>6. CASE TakeJob
    BY <2>6, HeadTailProperties, Zenon DEF TakeJob
  <2>7. CASE DoSend
    BY <2>7, SMTT(30) DEF DoSend, Accepting, Refusing
  <2>8. CASE PopSpool
    BY <2>8 DEF PopSpool
  <2>9. CASE PublishProgress
    BY <2>9 DEF PublishProgress, Written
  <2>10. ASSUME NEW r \in 1..MaxRev, WalHandled(r) PROVE TypeOK'
    BY <2>10 DEF WalHandled
  <2>11. ASSUME NEW t \in Watchers, NEW s \in 0..MaxRev, Watch(t, s) PROVE TypeOK'
    BY <2>11, SMTT(30) DEF Watch
  <2>12. ASSUME NEW t \in Watchers, Receive(t) PROVE TypeOK'
    <3>1. /\ chan[t] \in Seq(Nat) /\ chan[t] # <<>>
          /\ got[t] \in Seq(Nat)
      BY <2>12 DEF Receive
    <3>2. /\ Head(chan[t]) \in Nat
          /\ Tail(chan[t]) \in Seq(Nat)
          /\ Len(Tail(chan[t])) = Len(chan[t]) - 1
          /\ Len(chan[t]) \in Nat
      BY <3>1, HeadTailProperties, LenProperties
    <3>3. Append(got[t], Head(chan[t])) \in Seq(Nat)
      BY <3>1, <3>2, AppendProperties
    <3>4. /\ got' \in [Watchers -> Seq(Nat)]
          /\ chan' \in [Watchers -> Seq(Nat)]
      BY <2>12, <3>2, <3>3 DEF Receive
    <3>5. \A u \in Watchers : Len(chan'[u]) <= Capacity
      BY <2>12, <3>2 DEF Receive
    <3> QED
      BY <2>12, <3>4, <3>5, Zenon DEF Receive
  <2>13. ASSUME NEW t \in Watchers, Unwatch(t) PROVE TypeOK'
    BY <2>13, SMTT(30) DEF Unwatch
  <2>14. CASE UNCHANGED vars
    BY <2>14 DEF vars
  <2> HIDE DEF TypeOK
  <2> QED
    BY <2>1, <2>2, <2>3, <2>4, <2>5, <2>6, <2>7, <2>8, <2>9, <2>10, <2>11,
       <2>12, <2>13, <2>14, Zenon DEF Next, WriterStep, ThreadStep
<1> QED
  BY <1>1, <1>2, PTL DEF Spec

-----------------------------------------------------------------------------
(* The thread sends revision after revision.                               *)

\* What the thread knows about its own state.
ThreadInv ==
  /\ Len(wal) = next_rev - 1
  /\ WalInOrder
  /\ thread = "send" => sending.rev = next_rev
  /\ First <= rev + 1
  /\ thread = "recv" => \A j \in job_spool : j.rev # next_rev

\* The inductive invariant: a job taken out of the channel is the next one
\* because no revision before First is anywhere else.
IInv == ThreadInv /\ JobsAccounted

\* Before the first set there is no job anywhere.
LEMMA InitIInv ==
  ASSUME Base = 0, Init
  PROVE  IInv
BY DEF Init, IInv, ThreadInv, JobsAccounted, JobsInRange, JobsDistinct,
       JobsCovered, WalInOrder, First, InFlight, NoJob

\* What the steps below need of the types.
LEMMA Types ==
  ASSUME TypeOK
  PROVE  /\ rev \in Nat /\ next_rev \in Nat \ {0} /\ First \in Nat
         /\ \A w \in Writers : job[w] \in Job /\ job[w].rev \in Nat
         /\ notify_rx \in Seq(Job) /\ Len(notify_rx) \in Nat
         /\ \A i \in 1..Len(notify_rx) : notify_rx[i] \in Job /\ notify_rx[i].rev \in Nat
         /\ \A j \in job_spool : j \in Job /\ j.rev \in Nat
         /\ sending.rev \in Nat
         /\ wal \in Seq(Nat) /\ Len(wal) \in Nat
<1>1. /\ rev \in Nat /\ next_rev \in Nat \ {0} /\ First \in Nat
      /\ \A w \in Writers : job[w] \in Job /\ job[w].rev \in Nat
      /\ \A j \in job_spool : j \in Job /\ j.rev \in Nat
      /\ sending.rev \in Nat
  BY DEF TypeOK, First, Job
<1>2. notify_rx \in Seq(Job) /\ wal \in Seq(Nat)
  BY DEF TypeOK
<1>3. Len(notify_rx) \in Nat /\ Len(wal) \in Nat
  BY <1>2, LenProperties
<1>4. \A i \in 1..Len(notify_rx) : notify_rx[i] \in Job
  BY <1>2, ElementOfSeq
<1>5. \A j \in Job : j.rev \in Nat
  BY DEF Job
<1> QED
  BY <1>1, <1>2, <1>3, <1>4, <1>5

\* The head of the job channel and what remains after it.
LEMMA JobChannel ==
  ASSUME TypeOK, notify_rx # <<>>
  PROVE  /\ Len(notify_rx) \in Nat \ {0}
         /\ Head(notify_rx) = notify_rx[1]
         /\ 1 \in 1..Len(notify_rx)
         /\ Tail(notify_rx) \in Seq(Job)
         /\ Len(Tail(notify_rx)) = Len(notify_rx) - 1
         /\ \A i \in 1..Len(Tail(notify_rx)) :
              i + 1 \in 1..Len(notify_rx) /\ Tail(notify_rx)[i] = notify_rx[i + 1]
         /\ \A i \in 1..Len(notify_rx) : i # 1 =>
              i - 1 \in 1..Len(Tail(notify_rx)) /\ Tail(notify_rx)[i - 1] = notify_rx[i]
<1>1. notify_rx \in Seq(Job)
  BY DEF TypeOK
<1>2. Len(notify_rx) \in Nat \ {0}
  BY <1>1, EmptySeq
<1>3. /\ Tail(notify_rx) \in Seq(Job)
      /\ Len(Tail(notify_rx)) = Len(notify_rx) - 1
      /\ \A i \in 1..Len(Tail(notify_rx)) : Tail(notify_rx)[i] = notify_rx[i + 1]
  BY <1>1, HeadTailProperties
<1>4. Head(notify_rx) = notify_rx[1]
  BY <1>1
<1> QED
  BY <1>2, <1>3, <1>4

\* A step that moves no job between writers, channel, spool and thread.
LEMMA FrameIInv ==
  ASSUME IInv,
         rev' = rev, notify_rx' = notify_rx, job_spool' = job_spool,
         thread' = thread, sending' = sending, next_rev' = next_rev, wal' = wal,
         \A v \in Writers : job'[v].rev = job[v].rev /\ (InFlight(v)' <=> InFlight(v))
  PROVE  IInv'
<1>1. First' = First
  BY DEF First
<1>2. ThreadInv'
  BY <1>1 DEF IInv, ThreadInv, WalInOrder
<1>3. JobsInRange'
  BY <1>1 DEF IInv, JobsAccounted, JobsInRange
<1>4. JobsDistinct'
  BY <1>1 DEF IInv, JobsAccounted, JobsDistinct
<1>5. JobsCovered'
  BY <1>1 DEF IInv, JobsAccounted, JobsCovered
<1> QED
  BY <1>2, <1>3, <1>4, <1>5 DEF IInv, JobsAccounted

\* A commit adds the revision rev + 1, which no job has, to a writer.
LEMMA CommitIInv ==
  ASSUME TypeOK, IInv, NEW w \in Writers, Commit(w)
  PROVE  IInv'
<1>1. /\ rev' = rev + 1 /\ notify_rx' = notify_rx /\ job_spool' = job_spool
      /\ thread' = thread /\ sending' = sending /\ next_rev' = next_rev /\ wal' = wal
      /\ First' = First
  BY DEF Commit, threadVars, walVars, First
<1>2. /\ InFlight(w)' /\ ~InFlight(w)
      /\ job'[w].rev = rev + 1
      /\ \A v \in Writers : v # w => job'[v] = job[v] /\ (InFlight(v)' <=> InFlight(v))
  BY DEF Commit, InFlight, TypeOK
<1>3. /\ ThreadInv /\ JobsInRange /\ JobsDistinct /\ JobsCovered
      /\ rev \in Nat /\ First \in Nat /\ First <= rev + 1
  BY Types DEF IInv, JobsAccounted, ThreadInv
<1>4. ThreadInv'
  BY <1>1, <1>3 DEF ThreadInv, WalInOrder
<1>5. JobsInRange'
  <2>1. ASSUME NEW v \in Writers, InFlight(v)' PROVE job'[v].rev \in First'..rev'
    <3>1. CASE v = w
      BY <3>1, <1>1, <1>2, <1>3
    <3>2. CASE v # w
      BY <3>2, <2>1, <1>1, <1>2, <1>3 DEF JobsInRange
    <3> QED
      BY <3>1, <3>2
  <2> QED
    BY <2>1, <1>1, <1>3 DEF JobsInRange
<1>6. JobsDistinct'
  <2>1. \A v \in Writers : InFlight(v) => job[v].rev # rev + 1
    BY <1>3 DEF JobsInRange
  <2>2. \A i \in 1..Len(notify_rx) : notify_rx[i].rev # rev + 1
    BY <1>3 DEF JobsInRange
  <2>3. \A j \in job_spool : j.rev # rev + 1
    BY <1>3 DEF JobsInRange
  <2> QED
    BY <2>1, <2>2, <2>3, <1>1, <1>2, <1>3 DEF JobsDistinct
<1>7. JobsCovered'
  <2> SUFFICES ASSUME NEW r \in First..(rev + 1)
               PROVE  \/ \E v \in Writers : InFlight(v)' /\ job'[v].rev = r
                      \/ \E i \in 1..Len(notify_rx) : notify_rx[i].rev = r
                      \/ \E j \in job_spool : j.rev = r
    BY <1>1 DEF JobsCovered
  <2>1. CASE r = rev + 1
    BY <2>1, <1>2
  <2>2. CASE r # rev + 1
    <3>1. r \in First..rev
      BY <2>2, <1>3
    <3> QED
      BY <3>1, <1>2, <1>3 DEF JobsCovered
  <2> QED
    BY <2>1, <2>2
<1> QED
  BY <1>4, <1>5, <1>6, <1>7 DEF IInv, JobsAccounted

\* A job moves from its writer to the end of the channel.
LEMMA SendIInv ==
  ASSUME TypeOK, IInv, NEW w \in Writers, SendJob(w)
  PROVE  IInv'
<1>1. /\ rev' = rev /\ job' = job /\ job_spool' = job_spool
      /\ thread' = thread /\ sending' = sending /\ next_rev' = next_rev /\ wal' = wal
      /\ First' = First
  BY DEF SendJob, threadVars, walVars, First
<1>2. /\ notify_rx \in Seq(Job) /\ job[w] \in Job
      /\ Len(notify_rx) \in Nat /\ First \in Nat
      /\ ThreadInv /\ JobsInRange /\ JobsDistinct /\ JobsCovered
  BY Types DEF IInv, JobsAccounted
<1>3. /\ Len(notify_rx') = Len(notify_rx) + 1
      /\ \A i \in 1..Len(notify_rx) : notify_rx'[i] = notify_rx[i]
      /\ notify_rx'[Len(notify_rx) + 1] = job[w]
      /\ \A i \in 1..Len(notify_rx') : i \in 1..Len(notify_rx) \/ i = Len(notify_rx) + 1
  BY <1>2, AppendProperties DEF SendJob
<1>4. /\ InFlight(w)
      /\ \A v \in Writers : InFlight(v)' <=> (InFlight(v) /\ v # w)
  BY DEF SendJob, AfterSend, InFlight, TypeOK
<1>5. ThreadInv'
  BY <1>1, <1>2 DEF ThreadInv, WalInOrder
<1>6. JobsInRange'
  <2>1. ASSUME NEW i \in 1..Len(notify_rx') PROVE notify_rx'[i].rev \in First'..rev'
    BY <1>1, <1>2, <1>3, <1>4 DEF JobsInRange
  <2> QED
    BY <2>1, <1>1, <1>2, <1>4 DEF JobsInRange
<1>7. JobsDistinct'
  <2>1. \A u, v \in Writers :
          InFlight(u)' /\ InFlight(v)' /\ job'[u].rev = job'[v].rev => u = v
    BY <1>1, <1>2, <1>4 DEF JobsDistinct
  <2>2. ASSUME NEW h \in 1..Len(notify_rx'), NEW i \in 1..Len(notify_rx'),
               notify_rx'[h].rev = notify_rx'[i].rev
        PROVE  h = i
    BY <2>2, <1>2, <1>3, <1>4, SMTT(30) DEF JobsDistinct
  <2>3. ASSUME NEW v \in Writers, NEW i \in 1..Len(notify_rx'), InFlight(v)'
        PROVE  notify_rx'[i].rev # job'[v].rev
    BY <2>3, <1>1, <1>2, <1>3, <1>4 DEF JobsDistinct
  <2>4. ASSUME NEW i \in 1..Len(notify_rx'), NEW j \in job_spool'
        PROVE  notify_rx'[i].rev # j.rev
    BY <1>1, <1>2, <1>3, <1>4 DEF JobsDistinct
  <2> QED
    BY <2>1, <2>2, <2>3, <2>4, <1>1, <1>2, <1>4 DEF JobsDistinct
<1>8. JobsCovered'
  <2> SUFFICES ASSUME NEW r \in First..rev
               PROVE  \/ \E v \in Writers : InFlight(v)' /\ job'[v].rev = r
                      \/ \E i \in 1..Len(notify_rx') : notify_rx'[i].rev = r
                      \/ \E j \in job_spool : j.rev = r
    BY <1>1 DEF JobsCovered
  <2>1. CASE \E v \in Writers : InFlight(v) /\ job[v].rev = r
    BY <2>1, <1>1, <1>2, <1>3, <1>4
  <2>2. CASE \E i \in 1..Len(notify_rx) : notify_rx[i].rev = r
    BY <2>2, <1>2, <1>3
  <2> QED
    BY <2>1, <2>2, <1>2 DEF JobsCovered
<1> QED
  BY <1>5, <1>6, <1>7, <1>8 DEF IInv, JobsAccounted

\* A job moves from the head of the channel to the spool.
LEMMA SpoolIInv ==
  ASSUME TypeOK, IInv, SpoolJob
  PROVE  IInv'
<1> DEFINE j0 == Head(notify_rx)
<1>1. /\ rev' = rev /\ job' = job /\ job_spool' = job_spool \cup {j0}
      /\ thread' = thread /\ sending' = sending /\ next_rev' = next_rev /\ wal' = wal
      /\ First' = First /\ notify_rx' = Tail(notify_rx) /\ notify_rx # <<>>
      /\ j0.rev > next_rev
  BY DEF SpoolJob, writerVars, walVars, First, Due
<1>2. /\ \A v \in Writers : InFlight(v)' <=> InFlight(v)
      /\ ThreadInv /\ JobsInRange /\ JobsDistinct /\ JobsCovered
      /\ next_rev \in Nat
  BY Types DEF SpoolJob, writerVars, InFlight, IInv, JobsAccounted
<1>3. /\ 1 \in 1..Len(notify_rx) /\ j0 = notify_rx[1]
      /\ Len(notify_rx) \in Nat \ {0} /\ Len(notify_rx') = Len(notify_rx) - 1
      /\ \A i \in 1..Len(notify_rx') :
           i + 1 \in 1..Len(notify_rx) /\ notify_rx'[i] = notify_rx[i + 1]
      /\ \A i \in 1..Len(notify_rx) : i # 1 =>
           i - 1 \in 1..Len(notify_rx') /\ notify_rx'[i - 1] = notify_rx[i]
  BY <1>1, JobChannel
<1> HIDE DEF j0
<1>4. ThreadInv'
  <2>1. \A j \in job_spool' : thread = "recv" => j.rev # next_rev
    BY <1>1, <1>2, <1>3, Types DEF ThreadInv
  <2> QED
    BY <2>1, <1>1, <1>2 DEF ThreadInv, WalInOrder
<1>5. JobsInRange'
  <2>1. \A i \in 1..Len(notify_rx') : notify_rx'[i].rev \in First'..rev'
    BY <1>1, <1>2, <1>3 DEF JobsInRange
  <2>2. \A j \in job_spool' : j.rev \in First'..rev'
    BY <1>1, <1>2, <1>3 DEF JobsInRange
  <2> QED
    BY <2>1, <2>2, <1>1, <1>2 DEF JobsInRange
<1>6. JobsDistinct'
  <2>1. ASSUME NEW h \in 1..Len(notify_rx'), NEW i \in 1..Len(notify_rx'),
               notify_rx'[h].rev = notify_rx'[i].rev
        PROVE  h = i
    BY <2>1, <1>2, <1>3 DEF JobsDistinct
  <2>2. ASSUME NEW j \in job_spool', NEW k \in job_spool', j.rev = k.rev
        PROVE  j = k
    BY <2>2, <1>1, <1>2, <1>3 DEF JobsDistinct
  <2>3. ASSUME NEW v \in Writers, NEW i \in 1..Len(notify_rx'), InFlight(v)'
        PROVE  notify_rx'[i].rev # job'[v].rev
    BY <2>3, <1>1, <1>2, <1>3 DEF JobsDistinct
  <2>4. ASSUME NEW v \in Writers, NEW j \in job_spool', InFlight(v)'
        PROVE  j.rev # job'[v].rev
    BY <2>4, <1>1, <1>2, <1>3 DEF JobsDistinct
  <2>5. ASSUME NEW i \in 1..Len(notify_rx'), NEW j \in job_spool'
        PROVE  notify_rx'[i].rev # j.rev
    BY <1>1, <1>2, <1>3 DEF JobsDistinct
  <2> QED
    BY <2>1, <2>2, <2>3, <2>4, <2>5, <1>1, <1>2 DEF JobsDistinct
<1>7. JobsCovered'
  <2> SUFFICES ASSUME NEW r \in First..rev
               PROVE  \/ \E v \in Writers : InFlight(v)' /\ job'[v].rev = r
                      \/ \E i \in 1..Len(notify_rx') : notify_rx'[i].rev = r
                      \/ \E j \in job_spool' : j.rev = r
    BY <1>1 DEF JobsCovered
  <2>1. ASSUME NEW i \in 1..Len(notify_rx), notify_rx[i].rev = r
        PROVE  \/ \E h \in 1..Len(notify_rx') : notify_rx'[h].rev = r
               \/ \E j \in job_spool' : j.rev = r
    <3>1. CASE i = 1
      BY <3>1, <2>1, <1>1, <1>3
    <3>2. CASE i # 1
      BY <3>2, <2>1, <1>3, SMTT(30)
    <3> QED
      BY <3>1, <3>2
  <2> QED
    BY <2>1, <1>1, <1>2 DEF JobsCovered
<1> QED
  BY <1>4, <1>5, <1>6, <1>7 DEF IInv, JobsAccounted

\* The thread takes the head of the channel: it is revision next_rev, since
\* no job of the channel is older.
LEMMA TakeIInv ==
  ASSUME TypeOK, IInv, TakeJob
  PROVE  IInv'
<1> DEFINE j0 == Head(notify_rx)
<1>1. /\ rev' = rev /\ job' = job /\ job_spool' = job_spool
      /\ thread = "recv" /\ thread' = "send" /\ sending' = j0
      /\ next_rev' = next_rev /\ wal' = wal
      /\ First = next_rev /\ First' = next_rev + 1
      /\ notify_rx' = Tail(notify_rx) /\ notify_rx # <<>>
      /\ ~(j0.rev > next_rev)
  BY DEF TakeJob, writerVars, walVars, First, Due
<1>2. /\ \A v \in Writers : InFlight(v)' <=> InFlight(v)
      /\ ThreadInv /\ JobsInRange /\ JobsDistinct /\ JobsCovered
      /\ next_rev \in Nat /\ rev \in Nat
  BY Types DEF TakeJob, writerVars, InFlight, IInv, JobsAccounted
<1>3. /\ 1 \in 1..Len(notify_rx) /\ j0 = notify_rx[1]
      /\ Len(notify_rx) \in Nat \ {0} /\ Len(notify_rx') = Len(notify_rx) - 1
      /\ \A i \in 1..Len(notify_rx') :
           i + 1 \in 1..Len(notify_rx) /\ notify_rx'[i] = notify_rx[i + 1]
      /\ \A i \in 1..Len(notify_rx) : i # 1 =>
           i - 1 \in 1..Len(notify_rx') /\ notify_rx'[i - 1] = notify_rx[i]
  BY <1>1, JobChannel
<1> HIDE DEF j0
<1>4. j0.rev = next_rev /\ next_rev <= rev
  BY <1>1, <1>2, <1>3 DEF JobsInRange
<1>5. ThreadInv'
  BY <1>1, <1>2, <1>4 DEF ThreadInv, WalInOrder
<1>6. JobsInRange'
  <2>1. ASSUME NEW v \in Writers, InFlight(v)' PROVE job'[v].rev \in First'..rev'
    <3>1. job[v].rev \in First..rev /\ job[v].rev # next_rev
      BY <2>1, <1>2, <1>3, <1>4 DEF JobsInRange, JobsDistinct
    <3> QED
      BY <3>1, <1>1, <1>2
  <2>2. ASSUME NEW i \in 1..Len(notify_rx') PROVE notify_rx'[i].rev \in First'..rev'
    <3>1. /\ i + 1 \in 1..Len(notify_rx) /\ notify_rx'[i] = notify_rx[i + 1]
          /\ i + 1 # 1
      BY <1>3
    <3>2. notify_rx[i + 1].rev \in First..rev /\ notify_rx[i + 1].rev # next_rev
      BY <3>1, <1>2, <1>3, <1>4 DEF JobsInRange, JobsDistinct
    <3> QED
      BY <3>1, <3>2, <1>1, <1>2
  <2>3. ASSUME NEW j \in job_spool' PROVE j.rev \in First'..rev'
    <3>1. j.rev \in First..rev /\ j.rev # next_rev
      BY <1>1, <1>2, <1>3, <1>4 DEF JobsInRange, JobsDistinct
    <3> QED
      BY <3>1, <1>1, <1>2
  <2> QED
    BY <2>1, <2>2, <2>3 DEF JobsInRange
<1>7. JobsDistinct'
  <2>1. ASSUME NEW h \in 1..Len(notify_rx'), NEW i \in 1..Len(notify_rx'),
               notify_rx'[h].rev = notify_rx'[i].rev
        PROVE  h = i
    BY <2>1, <1>2, <1>3 DEF JobsDistinct
  <2>2. ASSUME NEW v \in Writers, NEW i \in 1..Len(notify_rx'), InFlight(v)'
        PROVE  notify_rx'[i].rev # job'[v].rev
    BY <2>2, <1>1, <1>2, <1>3 DEF JobsDistinct
  <2>3. ASSUME NEW i \in 1..Len(notify_rx'), NEW j \in job_spool'
        PROVE  notify_rx'[i].rev # j.rev
    BY <1>1, <1>2, <1>3 DEF JobsDistinct
  <2> QED
    BY <2>1, <2>2, <2>3, <1>1, <1>2 DEF JobsDistinct
<1>8. JobsCovered'
  <2> SUFFICES ASSUME NEW r \in (next_rev + 1)..rev
               PROVE  \/ \E v \in Writers : InFlight(v)' /\ job'[v].rev = r
                      \/ \E i \in 1..Len(notify_rx') : notify_rx'[i].rev = r
                      \/ \E j \in job_spool' : j.rev = r
    BY <1>1, Zenon DEF JobsCovered
  <2>1. r \in First..rev /\ r # j0.rev
    BY <1>1, <1>2, <1>4
  <2>2. ASSUME NEW i \in 1..Len(notify_rx), notify_rx[i].rev = r
        PROVE  \E h \in 1..Len(notify_rx') : notify_rx'[h].rev = r
    BY <2>1, <2>2, <1>3
  <2> QED
    BY <2>1, <2>2, <1>1, <1>2 DEF JobsCovered
<1> QED
  BY <1>5, <1>6, <1>7, <1>8 DEF IInv, JobsAccounted

\* do_send hands revision next_rev to the WAL: First stays where it is.
LEMMA DoSendIInv ==
  ASSUME TypeOK, IInv, DoSend
  PROVE  IInv'
<1>1. /\ rev' = rev /\ job' = job /\ job_spool' = job_spool /\ notify_rx' = notify_rx
      /\ thread = "send" /\ thread' = "drain"
      /\ next_rev' = next_rev + 1 /\ wal' = Append(wal, sending.rev)
      /\ First' = First
  BY DEF DoSend, writerVars, First
<1>2. /\ \A v \in Writers : InFlight(v)' <=> InFlight(v)
      /\ ThreadInv /\ JobsInRange /\ JobsDistinct /\ JobsCovered
      /\ next_rev \in Nat \ {0} /\ sending.rev \in Nat
      /\ wal \in Seq(Nat) /\ Len(wal) \in Nat
  BY Types DEF DoSend, writerVars, InFlight, IInv, JobsAccounted
<1>3. ThreadInv'
  <2>1. /\ Len(wal') = Len(wal) + 1
        /\ \A i \in 1..Len(wal) : wal'[i] = wal[i]
        /\ wal'[Len(wal) + 1] = sending.rev
    BY <1>1, <1>2, AppendProperties
  <2>2. sending.rev = next_rev /\ Len(wal) = next_rev - 1 /\ WalInOrder
    BY <1>1, <1>2 DEF ThreadInv
  <2>3. WalInOrder'
    BY <2>1, <2>2, <1>2 DEF WalInOrder
  <2> QED
    BY <2>1, <2>2, <2>3, <1>1, <1>2 DEF ThreadInv
<1>4. JobsInRange'
  BY <1>1, <1>2 DEF JobsInRange
<1>5. JobsDistinct'
  BY <1>1, <1>2 DEF JobsDistinct
<1>6. JobsCovered'
  BY <1>1, <1>2 DEF JobsCovered
<1> QED
  BY <1>3, <1>4, <1>5, <1>6 DEF IInv, JobsAccounted

\* The thread takes revision next_rev out of the spool.
LEMMA PopIInv ==
  ASSUME TypeOK, IInv, PopSpool
  PROVE  IInv'
<1> PICK j0 \in job_spool : /\ j0.rev = next_rev
                            /\ sending' = j0
                            /\ job_spool' = job_spool \ {j0}
  BY DEF PopSpool
<1>1. /\ rev' = rev /\ job' = job /\ notify_rx' = notify_rx
      /\ thread = "drain" /\ thread' = "send"
      /\ next_rev' = next_rev /\ wal' = wal
      /\ First = next_rev /\ First' = next_rev + 1
  BY DEF PopSpool, writerVars, walVars, First
<1>2. /\ \A v \in Writers : InFlight(v)' <=> InFlight(v)
      /\ ThreadInv /\ JobsInRange /\ JobsDistinct /\ JobsCovered
      /\ next_rev \in Nat /\ rev \in Nat
  BY Types DEF PopSpool, writerVars, InFlight, IInv, JobsAccounted
<1>3. next_rev <= rev
  BY <1>1, <1>2 DEF JobsInRange
<1>4. ThreadInv'
  BY <1>1, <1>2, <1>3 DEF ThreadInv, WalInOrder
<1>5. JobsInRange'
  <2>1. ASSUME NEW v \in Writers, InFlight(v)' PROVE job'[v].rev \in First'..rev'
    <3>1. job[v].rev \in First..rev /\ job[v].rev # next_rev
      BY <2>1, <1>2 DEF JobsInRange, JobsDistinct
    <3> QED
      BY <3>1, <1>1, <1>2, SMTT(30)
  <2>2. ASSUME NEW i \in 1..Len(notify_rx') PROVE notify_rx'[i].rev \in First'..rev'
    <3>1. notify_rx[i].rev \in First..rev /\ notify_rx[i].rev # next_rev
      BY <1>1, <1>2 DEF JobsInRange, JobsDistinct
    <3> QED
      BY <3>1, <1>1, <1>2
  <2>3. ASSUME NEW j \in job_spool' PROVE j.rev \in First'..rev'
    <3>1. j.rev \in First..rev /\ j.rev # next_rev
      BY <1>2 DEF JobsInRange, JobsDistinct
    <3> QED
      BY <3>1, <1>1, <1>2
  <2> QED
    BY <2>1, <2>2, <2>3 DEF JobsInRange
<1>6. JobsDistinct'
  BY <1>1, <1>2 DEF JobsDistinct
<1>7. JobsCovered'
  <2> SUFFICES ASSUME NEW r \in (next_rev + 1)..rev
               PROVE  \/ \E v \in Writers : InFlight(v)' /\ job'[v].rev = r
                      \/ \E i \in 1..Len(notify_rx) : notify_rx[i].rev = r
                      \/ \E j \in job_spool' : j.rev = r
    BY <1>1 DEF JobsCovered
  <2>1. r \in First..rev /\ r # j0.rev
    BY <1>1, <1>2
  <2> QED
    BY <2>1, <1>1, <1>2, Zenon DEF JobsCovered
<1> QED
  BY <1>4, <1>5, <1>6, <1>7 DEF IInv, JobsAccounted

\* The thread leaves the drain loop: the least spooled job, hence every one,
\* is later than next_rev.
LEMMA PublishIInv ==
  ASSUME TypeOK, IInv, PublishProgress
  PROVE  IInv'
<1>1. /\ rev' = rev /\ job' = job /\ notify_rx' = notify_rx /\ job_spool' = job_spool
      /\ thread = "drain" /\ thread' = "recv"
      /\ next_rev' = next_rev /\ wal' = wal
      /\ First = next_rev /\ First' = next_rev
  BY DEF PublishProgress, writerVars, walVars, First
<1>2. /\ \A v \in Writers : InFlight(v)' <=> InFlight(v)
      /\ ThreadInv /\ JobsInRange /\ JobsDistinct /\ JobsCovered
      /\ next_rev \in Nat /\ rev \in Nat
      /\ \A j \in job_spool : j.rev \in Nat
  BY Types DEF PublishProgress, writerVars, InFlight, IInv, JobsAccounted
<1>3. ASSUME NEW j \in job_spool, j.rev = next_rev PROVE FALSE
  <2>1. \A k \in job_spool : j.rev <= k.rev
    BY <1>1, <1>2, <1>3 DEF JobsInRange
  <2> QED
    BY <2>1, <1>3 DEF PublishProgress, IsPeek
<1>4. ThreadInv'
  BY <1>1, <1>2, <1>3, SMTT(30) DEF ThreadInv, WalInOrder
<1>5. JobsInRange' /\ JobsDistinct' /\ JobsCovered'
  BY <1>1, <1>2 DEF JobsInRange, JobsDistinct, JobsCovered
<1> QED
  BY <1>4, <1>5 DEF IInv, JobsAccounted

\* One step per action: every step of the notification path keeps IInv.
LEMMA NextIInv ==
  ASSUME TypeOK, IInv, [Next]_vars
  PROVE  IInv'
<1> USE DEF writerVars, watcherVars, threadVars, streamVars, walVars
<1>1. ASSUME NEW w \in Writers, CollectWatchers(w) PROVE IInv'
  <2>1. \A v \in Writers : job'[v].rev = job[v].rev /\ (InFlight(v)' <=> InFlight(v))
    BY <1>1 DEF CollectWatchers, InFlight, TypeOK
  <2> QED
    BY <1>1, <2>1, FrameIInv DEF CollectWatchers
<1>2. ASSUME NEW w \in Writers, Acknowledge(w) PROVE IInv'
  <2>1. \A v \in Writers : job'[v].rev = job[v].rev /\ (InFlight(v)' <=> InFlight(v))
    BY <1>2 DEF Acknowledge, InFlight, TypeOK
  <2> QED
    BY <1>2, <2>1, FrameIInv DEF Acknowledge
<1>3. ASSUME writerVars' = writerVars, notify_rx' = notify_rx,
             threadVars' = threadVars, wal' = wal
      PROVE  IInv'
  <2>1. \A v \in Writers : job'[v].rev = job[v].rev /\ (InFlight(v)' <=> InFlight(v))
    BY <1>3 DEF InFlight
  <2> QED
    BY <1>3, <2>1, FrameIInv
<1>4. ASSUME NEW r \in 1..MaxRev, WalHandled(r) PROVE IInv'
  BY <1>3, <1>4 DEF WalHandled
<1>5. ASSUME NEW t \in Watchers, NEW s \in 0..MaxRev, Watch(t, s) PROVE IInv'
  BY <1>3, <1>5 DEF Watch
<1>6. ASSUME NEW t \in Watchers, Receive(t) PROVE IInv'
  BY <1>3, <1>6 DEF Receive
<1>7. ASSUME NEW t \in Watchers, Unwatch(t) PROVE IInv'
  BY <1>3, <1>7 DEF Unwatch
<1>8. CASE UNCHANGED vars
  BY <1>3, <1>8 DEF vars
<1> QED
  BY <1>1, <1>2, <1>4, <1>5, <1>6, <1>7, <1>8, CommitIInv, SendIInv, SpoolIInv,
     TakeIInv, DoSendIInv, PopIInv, PublishIInv DEF Next, WriterStep, ThreadStep

\* The inductive invariant holds in every state when the thread starts at the
\* first revision that set assigns.
THEOREM IInvCorrect ==
  ASSUME Base = 0
  PROVE  Spec => []IInv
<1>1. Init => IInv
  BY InitIInv
<1>2. TypeOK /\ IInv /\ [Next]_vars => IInv'
  BY NextIInv
<1> QED
  BY <1>1, <1>2, TypeCorrect, PTL DEF Spec

\* do_send is called for the revisions 1, 2, 3, ... in this order and the WAL
\* is handed each of them once, for any number of concurrent sets.
THEOREM WalOrderCorrect ==
  ASSUME Base = 0
  PROVE  Spec => []WalInOrder
<1>1. IInv => WalInOrder
  BY DEF IInv, ThreadInv
<1> QED
  BY <1>1, IInvCorrect, PTL

\* No job is lost or duplicated between the commit of a set and do_send.
THEOREM JobsAccountedCorrect ==
  ASSUME Base = 0
  PROVE  Spec => []JobsAccounted
<1>1. IInv => JobsAccounted
  BY DEF IInv
<1> QED
  BY <1>1, IInvCorrect, PTL

\* No job is left behind in the spool: whatever is spooled waits for a job
\* that its writer has yet to send or that the thread has yet to receive.
THEOREM SpoolJustifiedCorrect ==
  ASSUME Base = 0
  PROVE  Spec => []SpoolJustified
<1>1. TypeOK /\ IInv => SpoolJustified
  <2> SUFFICES ASSUME TypeOK, IInv, thread = "recv", NEW j \in job_spool
               PROVE  \/ \E w \in Writers : InFlight(w) /\ job[w].rev < j.rev
                      \/ \E i \in 1..Len(notify_rx) : notify_rx[i].rev < j.rev
    BY SMTT(30) DEF SpoolJustified
  <2>1. /\ JobsInRange /\ JobsCovered /\ First = next_rev
        /\ next_rev \in Nat /\ rev \in Nat
        /\ \A k \in job_spool : k.rev # next_rev
    BY Types DEF IInv, JobsAccounted, ThreadInv, First
  <2>2. j.rev \in next_rev..rev
    BY <2>1 DEF JobsInRange
  <2>3. next_rev < j.rev /\ next_rev \in First..rev
    BY <2>1, <2>2
  <2>4. \/ \E w \in Writers : InFlight(w) /\ job[w].rev = next_rev
        \/ \E i \in 1..Len(notify_rx) : notify_rx[i].rev = next_rev
    BY <2>1, <2>3 DEF JobsCovered
  <2> QED
    BY <2>3, <2>4
<1> QED
  BY <1>1, IInvCorrect, TypeCorrect, PTL

-----------------------------------------------------------------------------
(* What the watchers see.                                                  *)

\* Everything in a stream has been sent, in increasing order.
StreamInv ==
  \A t \in Watchers :
    /\ Increasing(Stream(t))
    /\ \A i \in 1..Len(Stream(t)) : Stream(t)[i] < next_rev

\* Two sequences of revisions put together.
LEMMA Concatenated ==
  ASSUME NEW g \in Seq(Nat), NEW c \in Seq(Nat)
  PROVE  /\ g \o c \in Seq(Nat)
         /\ Len(g \o c) = Len(g) + Len(c)
         /\ Len(g) \in Nat /\ Len(c) \in Nat
         /\ \A i \in 1..Len(g \o c) :
              (g \o c)[i] = IF i <= Len(g) THEN g[i] ELSE c[i - Len(g)]
<1>1. Len(g) \in Nat /\ Len(c) \in Nat
  BY LenProperties
<1>2. /\ g \o c \in Seq(Nat)
      /\ Len(g \o c) = Len(g) + Len(c)
  BY ConcatProperties
<1>3. \A i \in 1..(Len(g) + Len(c)) :
        (g \o c)[i] = IF i <= Len(g) THEN g[i] ELSE c[i - Len(g)]
  BY ConcatProperties
<1> QED
  BY <1>1, <1>2, <1>3, Zenon

\* What a watcher has received and will receive is a sequence of revisions.
LEMMA StreamType ==
  ASSUME TypeOK, NEW t \in Watchers
  PROVE  /\ got[t] \in Seq(Nat) /\ chan[t] \in Seq(Nat)
         /\ Stream(t) \in Seq(Nat) /\ Len(Stream(t)) \in Nat
         /\ Len(Stream(t)) = Len(got[t]) + Len(chan[t])
         /\ Len(got[t]) \in Nat /\ Len(chan[t]) \in Nat
         /\ \A i \in 1..Len(Stream(t)) :
              Stream(t)[i] = IF i <= Len(got[t]) THEN got[t][i]
                                                 ELSE chan[t][i - Len(got[t])]
<1>1. got[t] \in Seq(Nat) /\ chan[t] \in Seq(Nat)
  BY DEF TypeOK
<1> QED
  BY <1>1, Concatenated, Zenon DEF Stream

\* Moving the head of a sequence to the end of the one before it leaves both
\* together as they are.
LEMMA MoveHead ==
  ASSUME NEW g \in Seq(Nat), NEW c \in Seq(Nat), c # <<>>
  PROVE  Append(g, Head(c)) \o Tail(c) = g \o c
<1>1. /\ Head(c) \in Nat /\ Tail(c) \in Seq(Nat)
      /\ Len(c) \in Nat \ {0} /\ Head(c) = c[1]
  BY HeadTailProperties, EmptySeq
<1>2. <<Head(c)>> \in Seq(Nat)
  BY <1>1
<1>3. c = <<Head(c)>> \o Tail(c)
  <2>1. 1 \in 1..Len(c) /\ Len(c) \in 1..Len(c)
    BY <1>1
  <2>2. SubSeq(c, 1, Len(c)) = <<c[1]>> \o SubSeq(c, 1 + 1, Len(c))
    BY <2>1, SubSeqRecursiveFirst
  <2>3. SubSeq(c, 1, Len(c)) = c /\ SubSeq(c, 2, Len(c)) = Tail(c)
    BY SubSeqFull, TailIsSubSeq, SMTT(30)
  <2>4. 1 + 1 = 2
    OBVIOUS
  <2> QED
    BY <2>2, <2>3, <2>4, <1>1
<1>4. Append(g, Head(c)) = g \o <<Head(c)>>
  BY <1>1, AppendIsConcat
<1>5. (g \o <<Head(c)>>) \o Tail(c) = g \o (<<Head(c)>> \o Tail(c))
  BY <1>1, <1>2, ConcatAssociative, SMTT(30)
<1> QED
  BY <1>3, <1>4, <1>5, SMTT(30)

\* Appending to the second of two sequences appends to both together.
LEMMA AppendToSecond ==
  ASSUME NEW g \in Seq(Nat), NEW c \in Seq(Nat), NEW e \in Nat
  PROVE  g \o Append(c, e) = Append(g \o c, e)
<1>1. <<e>> \in Seq(Nat) /\ g \o c \in Seq(Nat)
  BY ConcatProperties
<1>2. Append(c, e) = c \o <<e>>
  BY AppendIsConcat
<1>3. Append(g \o c, e) = (g \o c) \o <<e>>
  BY <1>1, AppendIsConcat
<1>4. (g \o c) \o <<e>> = g \o (c \o <<e>>)
  BY <1>1, ConcatAssociative, SMTT(30)
<1> QED
  BY <1>2, <1>3, <1>4

\* Receiving leaves every stream as it is.
LEMMA ReceiveStream ==
  ASSUME TypeOK, NEW t \in Watchers, Receive(t), NEW u \in Watchers
  PROVE  Stream(u)' = Stream(u)
<1>1. /\ got[t] \in Seq(Nat) /\ chan[t] \in Seq(Nat) /\ chan[t] # <<>>
      /\ got'[u] = IF u = t THEN Append(got[t], Head(chan[t])) ELSE got[u]
      /\ chan'[u] = IF u = t THEN Tail(chan[t]) ELSE chan[u]
  BY DEF Receive, TypeOK
<1>2. Append(got[t], Head(chan[t])) \o Tail(chan[t]) = got[t] \o chan[t]
  BY <1>1, MoveHead, Zenon
<1> QED
  BY <1>1, <1>2, Zenon DEF Stream

\* do_send appends to the streams of the watchers that accept and to no other.
LEMMA DoSendStream ==
  ASSUME TypeOK, DoSend, NEW t \in Watchers
  PROVE  Stream(t)' = IF t \in Accepting(sending) THEN Append(Stream(t), sending.rev)
                                                   ELSE Stream(t)
<1>1. /\ got[t] \in Seq(Nat) /\ chan[t] \in Seq(Nat) /\ sending.rev \in Nat
      /\ got' = got
      /\ chan'[t] = IF t \in Accepting(sending) THEN Append(chan[t], sending.rev)
                                                 ELSE chan[t]
  BY Types, Zenon DEF DoSend, TypeOK
<1>2. got[t] \o Append(chan[t], sending.rev) = Append(got[t] \o chan[t], sending.rev)
  BY <1>1, AppendToSecond, Zenon
<1> QED
  BY <1>1, <1>2, Zenon DEF Stream

\* An index before one of the first part is an index of the first part.
LEMMA LeftPart ==
  ASSUME NEW m \in Nat, NEW n \in Nat, NEW i \in 1..m
  PROVE  i <= m /\ i \in 1..(m + n)
OBVIOUS

\* Every step keeps the streams increasing and below next_rev: only do_send
\* appends to one, and what it appends is next_rev.
LEMMA NextStreamInv ==
  ASSUME TypeOK, IInv, StreamInv, [Next]_vars
  PROVE  StreamInv'
<1> USE DEF writerVars, watcherVars, threadVars, streamVars, walVars
<1>1. ASSUME next_rev' = next_rev, \A t \in Watchers : Stream(t)' = Stream(t)
      PROVE  StreamInv'
  BY <1>1 DEF StreamInv, Increasing
<1>2. ASSUME chan' = chan, got' = got, next_rev' = next_rev PROVE StreamInv'
  BY <1>1, <1>2 DEF Stream
<1>3. CASE DoSend
  <2> SUFFICES ASSUME NEW t \in Watchers
               PROVE  /\ Increasing(Stream(t)')
                      /\ \A i \in 1..Len(Stream(t)') : Stream(t)'[i] < next_rev'
    BY DEF StreamInv, Increasing
  <2>1. /\ sending.rev = next_rev /\ next_rev' = next_rev + 1 /\ next_rev \in Nat
        /\ Stream(t) \in Seq(Nat) /\ Len(Stream(t)) \in Nat
        /\ \A i \in 1..Len(Stream(t)) : Stream(t)[i] \in Nat /\ Stream(t)[i] < next_rev
        /\ Increasing(Stream(t))
    BY <1>3, Types, StreamType, ElementOfSeq, Zenon DEF DoSend, IInv, ThreadInv, StreamInv
  <2>2. CASE t \in Accepting(sending)
    <3>1. /\ Len(Stream(t)') = Len(Stream(t)) + 1
          /\ \A i \in 1..Len(Stream(t)) : Stream(t)'[i] = Stream(t)[i]
          /\ Stream(t)'[Len(Stream(t)) + 1] = next_rev
      BY <2>1, <2>2, <1>3, DoSendStream, AppendProperties
    <3>2. \A i \in 1..Len(Stream(t)') : i \in 1..Len(Stream(t)) \/ i = Len(Stream(t)) + 1
      BY <2>1, <3>1
    <3>3. ASSUME NEW h \in 1..Len(Stream(t)'), NEW i \in 1..Len(Stream(t)'), h < i
          PROVE  Stream(t)'[h] < Stream(t)'[i]
      BY <3>3, <3>1, <3>2, <2>1, SMTT(30) DEF Increasing
    <3>4. ASSUME NEW i \in 1..Len(Stream(t)') PROVE Stream(t)'[i] < next_rev'
      BY <3>1, <3>2, <2>1
    <3> QED
      BY <3>3, <3>4 DEF Increasing
  <2>3. CASE t \notin Accepting(sending)
    <3>1. Stream(t)' = Stream(t)
      BY <2>3, <1>3, DoSendStream
    <3> QED
      BY <3>1, <2>1 DEF Increasing
  <2> QED
    BY <2>2, <2>3
<1>4. ASSUME NEW t \in Watchers, Receive(t) PROVE StreamInv'
  BY <1>1, <1>4, ReceiveStream, Zenon DEF Receive
<1>5. ASSUME NEW t \in Watchers, Unwatch(t) PROVE StreamInv'
  <2> SUFFICES ASSUME NEW u \in Watchers
               PROVE  /\ Increasing(Stream(u)')
                      /\ \A i \in 1..Len(Stream(u)') : Stream(u)'[i] < next_rev'
    BY DEF StreamInv, Increasing
  <2>1. next_rev' = next_rev /\ got' = got /\ (u # t => chan'[u] = chan[u])
        /\ chan'[t] = <<>>
    BY <1>5 DEF Unwatch, TypeOK
  <2>2. CASE u # t
    BY <2>1, <2>2, Zenon DEF StreamInv, Stream, Increasing
  <2>3. CASE u = t
    <3>1. Stream(u)' = got[u]
      BY <2>1, <2>3, StreamType, ConcatEmptySeq, ZenonT(30) DEF Stream
    <3>2. /\ Len(got[u]) \in Nat /\ Len(chan[u]) \in Nat
          /\ Len(Stream(u)) = Len(got[u]) + Len(chan[u])
          /\ \A i \in 1..Len(Stream(u)) :
               Stream(u)[i] = IF i <= Len(got[u]) THEN got[u][i]
                                                  ELSE chan[u][i - Len(got[u])]
      BY StreamType, Zenon
    <3>3. ASSUME NEW i \in 1..Len(got[u])
          PROVE  i \in 1..Len(Stream(u)) /\ Stream(u)[i] = got[u][i]
      <4>1. i <= Len(got[u]) /\ i \in 1..(Len(got[u]) + Len(chan[u]))
        BY <3>2, LeftPart, Zenon
      <4> QED
        BY <3>2, <4>1, Zenon
    <3> QED
      BY <3>1, <3>3, <2>1, Zenon DEF StreamInv, Increasing
  <2> QED
    BY <2>2, <2>3
<1> QED
  BY <1>2, <1>3, <1>4, <1>5, Zenon
     DEF Next, vars, WriterStep, ThreadStep, Commit, CollectWatchers, SendJob, Acknowledge,
         SpoolJob, TakeJob, PopSpool, PublishProgress, WalHandled, Watch

\* Every watcher sees increasing revisions, none of them twice, whatever the
\* order in which concurrent sets reach the notification thread.
THEOREM WatchersInOrderCorrect ==
  ASSUME Base = 0
  PROVE  Spec => []WatchersInOrder
<1>1. Init => StreamInv
  BY DEF Init, StreamInv, Stream, Increasing
<1>2. TypeOK /\ IInv /\ StreamInv /\ [Next]_vars => StreamInv'
  BY NextStreamInv
<1>3. StreamInv => WatchersInOrder
  BY DEF StreamInv, WatchersInOrder
<1> QED
  BY <1>1, <1>2, <1>3, IInvCorrect, TypeCorrect, PTL DEF Spec

-----------------------------------------------------------------------------
(* The answer of set in Sync mode.                                         *)

\* wal_handled is notified only for records that the WAL has been handed.
HandledInv == \A r \in handled : r <= Len(wal)

LEMMA NextHandledInv ==
  ASSUME TypeOK, IInv, HandledInv, [Next]_vars
  PROVE  HandledInv'
<1> USE DEF TypeOK, HandledInv
<1>1. CASE handled' = handled /\ wal' = wal
  BY <1>1
<1>2. CASE DoSend
  <2>1. wal \in Seq(Nat) /\ sending.rev \in Nat
    BY DEF Job
  <2>2. Len(wal') = Len(wal) + 1 /\ handled' = handled
    BY <1>2, <2>1, AppendProperties DEF DoSend
  <2> QED
    BY <2>1, <2>2, LenProperties
<1>3. ASSUME NEW r \in 1..MaxRev, WalHandled(r) PROVE HandledInv'
  <2>1. r <= Len(wal)
    BY <1>3 DEF WalHandled, IInv, WalInOrder, ThreadInv
  <2> QED
    BY <1>3, <2>1 DEF WalHandled
<1> QED
  BY <1>1, <1>2, <1>3, Zenon
     DEF Next, WriterStep, ThreadStep, Commit, CollectWatchers, SendJob, Acknowledge, SpoolJob,
         TakeJob, PopSpool, PublishProgress, Watch, Receive, Unwatch, vars, walVars

\* With a synchronous WAL set answers only after its own record has been handled
\* and the records of all earlier revisions have been handed to the WAL: of the
\* steps of notify_watchers only the end of the wait returns, and the records
\* before one that is handled are in the WAL because it is in revision order.
THEOREM SyncAckCorrect ==
  ASSUME Base = 0
  PROVE  Spec => SyncAckAfterWal
<1>1. Init => HandledInv
  BY DEF Init, HandledInv
<1>2. TypeOK /\ IInv /\ HandledInv /\ [Next]_vars => HandledInv'
  BY NextHandledInv
<1>3. TypeOK /\ HandledInv /\ [Next]_vars =>
       [\A w \in Writers :
          Sync /\ pc[w] # "idle" /\ pc'[w] = "idle" =>
            /\ job[w].rev \in handled
            /\ job[w].rev <= Len(wal)]_vars
  <2> DEFINE Ack(w) == Sync /\ pc[w] # "idle" /\ pc'[w] = "idle" =>
                         job[w].rev \in handled /\ job[w].rev <= Len(wal)
  <2> SUFFICES ASSUME TypeOK, HandledInv, Next, NEW v \in Writers PROVE Ack(v)
    BY Zenon
  <2>1. CASE pc' = pc
    BY <2>1
  <2>2. ASSUME NEW w \in Writers, Acknowledge(w) PROVE Ack(v)
    BY <2>2, Zenon DEF Acknowledge, TypeOK, HandledInv
  <2>3. ASSUME NEW w \in Writers, Commit(w) \/ CollectWatchers(w) \/ SendJob(w) PROVE Ack(v)
    BY <2>3 DEF Commit, CollectWatchers, SendJob, AfterSend, TypeOK
  <2> HIDE DEF Ack
  <2> QED
    BY <2>1, <2>2, <2>3, Zenon
       DEF Next, WriterStep, ThreadStep, SpoolJob, TakeJob, DoSend, PopSpool, PublishProgress,
           WalHandled, Watch, Receive, Unwatch, writerVars
<1> QED
  BY <1>1, <1>2, <1>3, IInvCorrect, TypeCorrect, PTL DEF Spec, SyncAckAfterWal

-----------------------------------------------------------------------------
(* What progress_rev promises to a watcher.                                *)

\* The job is for the watcher, unless its revision is older than the
\* registration or than start_revision.
Addressed(t, j) == j.rev > since[t] /\ j.rev >= start[t] => t \in j.watchers

\* Every job whose watchers have been collected names the open watchers that
\* wait for it: those that register later do so at a later revision.
AddressedInv ==
  \A t \in Watchers : watcher[t] = "open" =>
    /\ \A w \in Writers : pc[w] = "collected" => Addressed(t, job[w])
    /\ \A i \in 1..Len(notify_rx) : Addressed(t, notify_rx[i])
    /\ \A j \in job_spool : Addressed(t, j)
    /\ thread = "send" => Addressed(t, sending)

\* The watcher's full channel has refused the revision or its stream holds it.
Seen(t, r) ==
  \/ r \in dropped[t]
  \/ \E i \in 1..Len(Stream(t)) : Stream(t)[i] = r

\* The streams of the open watchers hold what the thread has sent.
SeenInv ==
  /\ progress_rev < next_rev
  /\ \A t \in Watchers : watcher[t] = "open" =>
       \A r \in (since[t] + 1)..(next_rev - 1) : r >= start[t] => Seen(t, r)

LEMMA NextAddressedInv ==
  ASSUME TypeOK, IInv, AddressedInv, [Next]_vars
  PROVE  AddressedInv'
<1> USE DEF writerVars, watcherVars, threadVars, streamVars, walVars
<1>1. CASE UNCHANGED <<watcherVars, pc, job, notify_rx, job_spool, thread, sending>>
  BY <1>1 DEF AddressedInv, Addressed
<1>2. ASSUME NEW w \in Writers, Commit(w) PROVE AddressedInv'
  BY <1>2 DEF Commit, AddressedInv, Addressed, TypeOK
<1>3. ASSUME NEW w \in Writers, CollectWatchers(w) PROVE AddressedInv'
  BY <1>3 DEF CollectWatchers, AddressedInv, Addressed, TypeOK
<1>4. ASSUME NEW w \in Writers, SendJob(w) PROVE AddressedInv'
  <2>1. notify_rx \in Seq(Job) /\ job[w] \in Job /\ Len(notify_rx) \in Nat
    BY Types
  <2>2. /\ Len(notify_rx') = Len(notify_rx) + 1
        /\ \A i \in 1..Len(notify_rx) : notify_rx'[i] = notify_rx[i]
        /\ notify_rx'[Len(notify_rx) + 1] = job[w]
    BY <1>4, <2>1, AppendProperties DEF SendJob
  <2>3. \A i \in 1..Len(notify_rx') : i \in 1..Len(notify_rx) \/ i = Len(notify_rx) + 1
    BY <2>1, <2>2
  <2>4. \A v \in Writers : pc'[v] = "collected" => pc[v] = "collected"
    BY <1>4 DEF SendJob, AfterSend, TypeOK
  <2>5. pc[w] = "collected" /\ UNCHANGED <<job, watcher, start, since, job_spool, thread, sending>>
    BY <1>4 DEF SendJob
  <2> QED
    BY <2>2, <2>3, <2>4, <2>5, Zenon DEF AddressedInv, Addressed
<1>5. ASSUME NEW w \in Writers, Acknowledge(w) PROVE AddressedInv'
  BY <1>5 DEF Acknowledge, AddressedInv, Addressed, TypeOK
<1>6. CASE SpoolJob \/ TakeJob
  <2>1. notify_rx # <<>> /\ notify_rx' = Tail(notify_rx)
    BY <1>6 DEF SpoolJob, TakeJob
  <2>2. /\ 1 \in 1..Len(notify_rx) /\ Head(notify_rx) = notify_rx[1]
        /\ \A i \in 1..Len(notify_rx') :
             i + 1 \in 1..Len(notify_rx) /\ notify_rx'[i] = notify_rx[i + 1]
    BY <2>1, JobChannel, Zenon
  <2>3. /\ UNCHANGED <<pc, job, watcher, start, since>>
        /\ job_spool' \in {job_spool, job_spool \cup {notify_rx[1]}}
        /\ thread' = "send" => sending' = notify_rx[1]
    BY <1>6, <2>2 DEF SpoolJob, TakeJob
  <2> QED
    BY <2>2, <2>3 DEF AddressedInv, Addressed
<1>7. CASE DoSend \/ PopSpool \/ PublishProgress
  BY <1>7 DEF DoSend, PopSpool, PublishProgress, AddressedInv, Addressed
<1>8. ASSUME NEW t \in Watchers, NEW s \in 0..MaxRev, Watch(t, s) PROVE AddressedInv'
  <2>1. /\ \A w \in Writers : pc[w] = "collected" => ~(job[w].rev > rev)
        /\ \A i \in 1..Len(notify_rx) : ~(notify_rx[i].rev > rev)
        /\ \A j \in job_spool : ~(j.rev > rev)
        /\ thread = "send" => ~(sending.rev > rev)
    <3>1. rev \in Nat /\ First \in Nat /\ next_rev \in Nat /\ JobsInRange
      BY Types DEF IInv, JobsAccounted
    <3>2. \A q \in First..rev : ~(q > rev)
      BY <3>1
    <3>3. thread = "send" => ~(sending.rev > rev)
      BY <3>1 DEF IInv, ThreadInv, First
    <3> QED
      BY <3>1, <3>2, <3>3, Zenon DEF JobsInRange, InFlight
  <2>2. /\ UNCHANGED <<pc, job, notify_rx, job_spool, thread, sending>>
        /\ since'[t] = rev
        /\ \A u \in Watchers : u # t =>
             watcher'[u] = watcher[u] /\ start'[u] = start[u] /\ since'[u] = since[u]
    BY <1>8 DEF Watch, TypeOK
  <2> SUFFICES ASSUME NEW u \in Watchers, watcher'[u] = "open"
               PROVE  /\ \A w \in Writers : pc'[w] = "collected" => Addressed(u, job[w])'
                      /\ \A i \in 1..Len(notify_rx') : Addressed(u, notify_rx[i])'
                      /\ \A j \in job_spool' : Addressed(u, j)'
                      /\ thread' = "send" => Addressed(u, sending)'
    BY Zenon DEF AddressedInv, Addressed
  <2>3. CASE u = t
    BY <2>1, <2>2, <2>3, Zenon DEF Addressed
  <2>4. CASE u # t
    BY <2>2, <2>4, Zenon DEF AddressedInv, Addressed
  <2> QED
    BY <2>3, <2>4
<1>9. ASSUME NEW t \in Watchers, Unwatch(t) PROVE AddressedInv'
  BY <1>9, Zenon DEF Unwatch, AddressedInv, Addressed, TypeOK
<1> QED
  BY <1>1, <1>2, <1>3, <1>4, <1>5, <1>6, <1>7, <1>8, <1>9, Zenon
     DEF Next, vars, WriterStep, ThreadStep, WalHandled, Receive

\* Only do_send advances next_rev, and it serves the watchers of the job.
LEMMA NextSeenInv ==
  ASSUME TypeOK, IInv, AddressedInv, SeenInv, [Next]_vars
  PROVE  SeenInv'
<1> USE DEF writerVars, watcherVars, threadVars, streamVars, walVars
<1>1. ASSUME UNCHANGED <<watcher, start, since, dropped, next_rev, progress_rev>>,
             \A t \in Watchers : Stream(t)' = Stream(t)
      PROVE  SeenInv'
  BY <1>1 DEF SeenInv, Seen
<1>2. CASE UNCHANGED <<watcherVars, streamVars, next_rev, progress_rev>>
  BY <1>1, <1>2 DEF Stream
<1>3. CASE DoSend
  <2>1. /\ sending.rev = next_rev /\ next_rev' = next_rev + 1 /\ next_rev \in Nat \ {0}
        /\ UNCHANGED <<watcher, start, since, progress_rev>>
        /\ progress_rev \in Nat
    BY <1>3, Types DEF DoSend, IInv, ThreadInv, TypeOK
  <2> SUFFICES ASSUME NEW t \in Watchers, watcher[t] = "open",
                      NEW r \in (since[t] + 1)..next_rev, r >= start[t]
               PROVE  Seen(t, r)'
    BY <2>1 DEF SeenInv
  <2>2. /\ Stream(t) \in Seq(Nat) /\ Len(Stream(t)) \in Nat
        /\ since[t] \in Nat /\ start[t] \in Nat /\ Len(chan[t]) \in Nat
    <3>1. Stream(t) \in Seq(Nat) /\ Len(Stream(t)) \in Nat /\ Len(chan[t]) \in Nat
      BY StreamType, Zenon
    <3>2. since \in [Watchers -> Nat] /\ start \in [Watchers -> Nat]
      BY Zenon DEF TypeOK
    <3> QED
      BY <3>1, <3>2, Zenon
  <2>3. Stream(t)' = IF t \in Accepting(sending) THEN Append(Stream(t), next_rev)
                                                  ELSE Stream(t)
    BY <1>3, <2>1, DoSendStream, Zenon
  <2>4. /\ Len(Stream(t)) <= Len(Stream(t)')
        /\ Len(Stream(t)') \in Nat
        /\ \A i \in 1..Len(Stream(t)) : Stream(t)'[i] = Stream(t)[i]
        /\ t \in Accepting(sending) =>
             /\ Len(Stream(t)') = Len(Stream(t)) + 1
             /\ Stream(t)'[Len(Stream(t)) + 1] = next_rev
    <3>1. CASE t \in Accepting(sending)
      <4>1. /\ Len(Stream(t)') = Len(Stream(t)) + 1
            /\ \A i \in 1..Len(Stream(t)) : Stream(t)'[i] = Stream(t)[i]
            /\ Stream(t)'[Len(Stream(t)) + 1] = next_rev
        BY <2>1, <2>2, <2>3, <3>1, AppendProperties
      <4> QED
        BY <2>2, <4>1
    <3>2. CASE t \notin Accepting(sending)
      <4>1. Stream(t)' = Stream(t)
        BY <2>3, <3>2, Zenon
      <4> QED
        BY <2>2, <3>2, <4>1
    <3> QED
      BY <3>1, <3>2, Zenon
  <2>5. dropped'[t] = IF t \in Refusing(sending) THEN dropped[t] \cup {next_rev}
                                                  ELSE dropped[t]
    BY <1>3, <2>1 DEF DoSend
  <2>6. CASE r < next_rev
    <3>1. Seen(t, r)
      BY <2>1, <2>2, <2>6 DEF SeenInv
    <3>2. \A i \in 1..Len(Stream(t)) : i \in 1..Len(Stream(t)')
      BY <2>2, <2>4
    <3> QED
      BY <3>1, <3>2, <2>4, <2>5, Zenon DEF Seen
  <2>7. CASE r = next_rev
    <3>1. t \in sending.watchers
      BY <1>3, <2>1, <2>2, <2>7, SMTT(30) DEF DoSend, AddressedInv, Addressed
    <3>2. t \in Accepting(sending) \/ t \in Refusing(sending)
      BY <3>1, <2>2, NotifierAssumption DEF Accepting, Refusing
    <3>3. Len(Stream(t)) + 1 \in 1..(Len(Stream(t)) + 1)
      BY <2>2
    <3> QED
      BY <3>2, <3>3, <2>4, <2>5, <2>7, Zenon DEF Seen
  <2> QED
    BY <2>1, <2>2, <2>6, <2>7
<1>4. CASE PublishProgress
  <2>1. progress_rev' < next_rev' /\ UNCHANGED <<watcherVars, streamVars, next_rev>>
    BY <1>4, Types DEF PublishProgress, Written
  <2>2. \A t \in Watchers : Stream(t)' = Stream(t)
    BY <2>1, Zenon DEF Stream
  <2> QED
    BY <2>1, <2>2 DEF SeenInv, Seen
<1>5. ASSUME NEW t \in Watchers, NEW s \in 0..MaxRev, Watch(t, s) PROVE SeenInv'
  <2>1. /\ UNCHANGED <<next_rev, progress_rev, dropped, chan, got>>
        /\ since'[t] = rev
        /\ \A u \in Watchers : u # t =>
             watcher'[u] = watcher[u] /\ start'[u] = start[u] /\ since'[u] = since[u]
    BY <1>5 DEF Watch, TypeOK
  <2>2. next_rev - 1 < rev + 1 /\ rev \in Nat /\ next_rev \in Nat
    BY Types, SMTT(30) DEF IInv, ThreadInv, First
  <2>3. \A u \in Watchers : Stream(u)' = Stream(u)
    BY <2>1 DEF Stream
  <2> QED
    BY <2>1, <2>2, <2>3 DEF SeenInv, Seen
<1>6. ASSUME NEW t \in Watchers, Receive(t) PROVE SeenInv'
  BY <1>1, <1>6, ReceiveStream, Zenon DEF Receive
<1>7. ASSUME NEW t \in Watchers, Unwatch(t) PROVE SeenInv'
  <2>1. /\ UNCHANGED <<start, since, next_rev, progress_rev, dropped, got>>
        /\ watcher'[t] = "closed"
        /\ \A u \in Watchers : u # t => watcher'[u] = watcher[u] /\ chan'[u] = chan[u]
    BY <1>7 DEF Unwatch, TypeOK
  <2>2. \A u \in Watchers : u # t => Stream(u)' = Stream(u)
    BY <2>1, Zenon DEF Stream
  <2> QED
    BY <2>1, <2>2 DEF SeenInv, Seen
<1> QED
  BY <1>2, <1>3, <1>4, <1>5, <1>6, <1>7, Zenon
     DEF Next, vars, WriterStep, ThreadStep, Commit, CollectWatchers, SendJob, Acknowledge,
         SpoolJob, TakeJob, PopSpool, WalHandled

\* progress_rev tells no watcher of a revision that is not in its stream: it is
\* published after the do_send calls of every revision up to it, and the jobs of
\* the revisions committed after Store::watch carry the watcher.
THEOREM ProgressCoversCorrect ==
  ASSUME Base = 0
  PROVE  Spec => []ProgressCovers
<1>1. Init => AddressedInv /\ SeenInv
  BY DEF Init, AddressedInv, SeenInv
<1>2. TypeOK /\ IInv /\ AddressedInv /\ SeenInv /\ [Next]_vars => AddressedInv' /\ SeenInv'
  BY NextAddressedInv, NextSeenInv
<1>3. TypeOK /\ SeenInv => ProgressCovers
  BY SMTT(30) DEF TypeOK, SeenInv, Seen, ProgressCovers
<1> QED
  BY <1>1, <1>2, <1>3, IInvCorrect, TypeCorrect, PTL DEF Spec

=============================================================================
