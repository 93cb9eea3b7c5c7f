------------------------------ MODULE Notifier ------------------------------
(***************************************************************************)
(* The notification path of the store (src/src/store.rs): notify_watchers, *)
(* run by every writer after it has released the item lock, and the        *)
(* notification thread of setup_notify_thread.                             *)
(*                                                                         *)
(* Writers get revisions in one order and reach the channel in another.    *)
(* The thread restores the revision order with a spool (a min-heap), hands *)
(* each job to the WAL and to the channels of the watchers the writer      *)
(* collected, and then publishes progress_rev.                             *)
(*                                                                         *)
(* One try_send per watcher is folded into DoSend: the channels are        *)
(* independent and no other thread looks at two of them.                   *)
(***************************************************************************)
EXTENDS Integers, Sequences

CONSTANTS
  Writers,     \* threads running Store::set
  Watchers,    \* watcher ids, each used for at most one stream
  Capacity,    \* WATCH_CHANNEL_SIZE
  Base,        \* revisions assigned by set_for_replay before the first set
  Sync,        \* the WAL's default mode is WalMode::Sync
  MaxRev       \* bound: no set commits a revision beyond this one

ASSUME NotifierAssumption ==
  /\ Capacity \in Nat \ {0}
  /\ Base \in Nat
  /\ Sync \in BOOLEAN
  /\ MaxRev \in Nat

VARIABLES
  rev,           \* the latest revision of values_by_revision
  pc,            \* where each writer is
  job,           \* the job of each writer
  watcher,       \* Store.watchers, and whether the receiver still exists
  start,         \* Watcher.start_revision
  since,         \* history: the revision at which the watcher registered
  notify_rx,     \* the unbounded channel of jobs
  thread,        \* where the notification thread is
  sending,       \* the job it is sending
  job_spool,     \* the spool
  next_rev,      \* next revision to send
  progress_rev,  \* Store.progress_rev
  chan,          \* the bounded channel of each watcher
  got,           \* history: what each watcher's stream has received
  dropped,       \* history: revisions whose try_send found the channel full
  wal,           \* history: revisions handed to WalManager::append, in order
  handled        \* revisions whose wal_handled has been notified

writerVars == <<rev, pc, job>>
watcherVars == <<watcher, start, since>>
threadVars == <<thread, sending, job_spool, next_rev, progress_rev>>
streamVars == <<chan, got, dropped>>
walVars == <<wal, handled>>
vars == <<writerVars, watcherVars, notify_rx, threadVars, streamVars, walVars>>

Job == [rev : Nat, watchers : SUBSET Watchers]

NoJob == [rev |-> 0, watchers |-> {}]

(***************************************************************************)
(* A writer in "committed" or "collected" holds the job of its revision:   *)
(* it has left the item lock and has not yet sent to the channel.          *)
(***************************************************************************)
InFlight(w) == pc[w] \in {"committed", "collected"}

TypeOK ==
  /\ rev \in Nat
  /\ pc \in [Writers -> {"idle", "committed", "collected", "waiting"}]
  /\ job \in [Writers -> Job]
  /\ watcher \in [Watchers -> {"new", "open", "closed"}]
  /\ start \in [Watchers -> Nat]
  /\ since \in [Watchers -> Nat]
  /\ notify_rx \in Seq(Job)
  /\ thread \in {"recv", "send", "drain"}
  /\ sending \in Job
  /\ job_spool \in SUBSET Job
  /\ next_rev \in Nat \ {0}
  /\ progress_rev \in Nat
  /\ chan \in [Watchers -> Seq(Nat)]
  /\ \A t \in Watchers : Len(chan[t]) <= Capacity
  /\ got \in [Watchers -> Seq(Nat)]
  /\ dropped \in [Watchers -> SUBSET Nat]
  /\ wal \in Seq(Nat)
  /\ handled \in SUBSET Nat

Init ==
  /\ rev = Base
  /\ pc = [w \in Writers |-> "idle"]
  /\ job = [w \in Writers |-> NoJob]
  /\ watcher = [t \in Watchers |-> "new"]
  /\ start = [t \in Watchers |-> 0]
  /\ since = [t \in Watchers |-> 0]
  /\ notify_rx = <<>>
  /\ thread = "recv"
  /\ sending = NoJob
  /\ job_spool = {}
  /\ next_rev = 1
  /\ progress_rev = 0
  /\ chan = [t \in Watchers |-> <<>>]
  /\ got = [t \in Watchers |-> <<>>]
  /\ dropped = [t \in Watchers |-> {}]
  /\ wal = <<>>
  /\ handled = {}

-----------------------------------------------------------------------------
(* Writers: the end of set, and notify_watchers.                           *)

\* The critical section of set: a new revision, and the item lock released.
Commit(w) ==
  /\ pc[w] = "idle"
  /\ rev < MaxRev
  /\ rev' = rev + 1
  /\ pc' = [pc EXCEPT ![w] = "committed"]
  /\ job' = [job EXCEPT ![w] = [rev |-> rev + 1, watchers |-> {}]]
  /\ UNCHANGED <<watcherVars, notify_rx, threadVars, streamVars, walVars>>

\* Under the read lock of watchers: those whose start_revision has come.
CollectWatchers(w) ==
  /\ pc[w] = "committed"
  /\ pc' = [pc EXCEPT ![w] = "collected"]
  /\ job' = [job EXCEPT ![w] =
       [rev |-> job[w].rev,
        watchers |-> {t \in Watchers :
                        watcher[t] = "open" /\ start[t] <= job[w].rev}]]
  /\ UNCHANGED <<rev, watcherVars, notify_rx, threadVars, streamVars, walVars>>

\* Mutant: wal_handled is never awaited.
MutantAfterSend == "idle"

\* Where notify_watchers goes on once the job is in the channel.
AfterSend == IF Sync THEN "waiting" ELSE "idle"

\* notify_tx.send, then the wait for wal_handled in Sync mode.
SendJob(w) ==
  /\ pc[w] = "collected"
  /\ notify_rx' = Append(notify_rx, job[w])
  /\ pc' = [pc EXCEPT ![w] = AfterSend]
  /\ UNCHANGED <<rev, job, watcherVars, threadVars, streamVars, walVars>>

\* wal_handled.notified() returns and set answers the client.
Acknowledge(w) ==
  /\ pc[w] = "waiting"
  /\ job[w].rev \in handled
  /\ pc' = [pc EXCEPT ![w] = "idle"]
  /\ UNCHANGED <<rev, job, watcherVars, notify_rx, threadVars, streamVars, walVars>>

-----------------------------------------------------------------------------
(* The notification thread.  The operators whose names start with Mutant   *)
(* are wrong variants, kept to show that the properties notice them.       *)

\* Mutant: every job is sent as it comes.
MutantDue(j) == TRUE

\* Mutant: the job of next_rev itself goes to the spool.
MutantNotYetDue(j) == j.rev < next_rev

\* The test that decides between the spool and do_send.
Due(j) == ~(j.rev > next_rev)

\* rx.blocking_recv() yields a job that is not due yet.
SpoolJob ==
  /\ thread = "recv"
  /\ notify_rx # <<>>
  /\ ~Due(Head(notify_rx))
  /\ job_spool' = job_spool \cup {Head(notify_rx)}
  /\ notify_rx' = Tail(notify_rx)
  /\ UNCHANGED <<writerVars, watcherVars, thread, sending, next_rev, progress_rev,
                 streamVars, walVars>>

\* rx.blocking_recv() yields the job that is due.
TakeJob ==
  /\ thread = "recv"
  /\ notify_rx # <<>>
  /\ Due(Head(notify_rx))
  /\ thread' = "send"
  /\ sending' = Head(notify_rx)
  /\ notify_rx' = Tail(notify_rx)
  /\ UNCHANGED <<writerVars, watcherVars, job_spool, next_rev, progress_rev,
                 streamVars, walVars>>

\* Mutant: a channel one event over its capacity is still written to.
MutantAccepting(j) ==
  {t \in j.watchers : watcher[t] = "open" /\ Len(chan[t]) <= Capacity}

\* The watchers of a job whose receiver exists and whose channel has room.
Accepting(j) ==
  {t \in j.watchers : watcher[t] = "open" /\ Len(chan[t]) < Capacity}

\* The watchers of a job whose receiver exists and whose channel is full.
Refusing(j) ==
  {t \in j.watchers : watcher[t] = "open" /\ Len(chan[t]) >= Capacity}

\* do_send: the WAL first, then every watcher; a full channel loses the event.
DoSend ==
  /\ thread = "send"
  /\ wal' = Append(wal, sending.rev)
  /\ chan' = [t \in Watchers |-> IF t \in Accepting(sending)
                                   THEN Append(chan[t], sending.rev) ELSE chan[t]]
  /\ dropped' = [t \in Watchers |-> IF t \in Refusing(sending)
                                   THEN dropped[t] \cup {sending.rev} ELSE dropped[t]]
  /\ next_rev' = next_rev + 1
  /\ thread' = "drain"
  /\ sending' = NoJob
  /\ UNCHANGED <<writerVars, watcherVars, notify_rx, job_spool, progress_rev, got,
                 handled>>

\* job_spool.peek(): a job of least revision.
IsPeek(j) == j \in job_spool /\ \A k \in job_spool : j.rev <= k.rev

\* The least spooled job has become due.
PopSpool ==
  /\ thread = "drain"
  /\ \E j \in job_spool :
       /\ IsPeek(j)
       /\ j.rev = next_rev
       /\ sending' = j
       /\ job_spool' = job_spool \ {j}
  /\ thread' = "send"
  /\ UNCHANGED <<writerVars, watcherVars, notify_rx, next_rev, progress_rev,
                 streamVars, walVars>>

\* Mutant: the revision to be sent next counts as sent.
MutantWritten == next_rev

\* The value stored in rev_written.
Written == next_rev - 1

\* Nothing else is due: publish the progress and wait for the next job.
PublishProgress ==
  /\ thread = "drain"
  /\ \A j \in job_spool : IsPeek(j) => j.rev # next_rev
  /\ progress_rev' = Written
  /\ thread' = "recv"
  /\ UNCHANGED <<writerVars, watcherVars, notify_rx, sending, job_spool, next_rev,
                 streamVars, walVars>>

\* The WAL writer of the record's prefix notifies wal_handled (module Wal).
WalHandled(r) ==
  /\ Sync
  /\ \E i \in 1..Len(wal) : wal[i] = r
  /\ r \notin handled
  /\ handled' = handled \cup {r}
  /\ UNCHANGED <<writerVars, watcherVars, notify_rx, threadVars, streamVars, wal>>

-----------------------------------------------------------------------------
(* Watchers.                                                               *)

\* Store::watch inserts the watcher.
Watch(t, s) ==
  /\ watcher[t] = "new"
  /\ watcher' = [watcher EXCEPT ![t] = "open"]
  /\ start' = [start EXCEPT ![t] = s]
  /\ since' = [since EXCEPT ![t] = rev]
  /\ UNCHANGED <<writerVars, notify_rx, threadVars, streamVars, walVars>>

\* The stream takes one event out of its channel.
Receive(t) ==
  /\ watcher[t] = "open"
  /\ chan[t] # <<>>
  /\ got' = [got EXCEPT ![t] = Append(got[t], Head(chan[t]))]
  /\ chan' = [chan EXCEPT ![t] = Tail(chan[t])]
  /\ UNCHANGED <<writerVars, watcherVars, notify_rx, threadVars, dropped, walVars>>

\* Store::unwatch, and the receiver dropped with what it still holds.
Unwatch(t) ==
  /\ watcher[t] = "open"
  /\ watcher' = [watcher EXCEPT ![t] = "closed"]
  /\ chan' = [chan EXCEPT ![t] = <<>>]
  /\ UNCHANGED <<writerVars, start, since, notify_rx, threadVars, got, dropped,
                 walVars>>

-----------------------------------------------------------------------------
ThreadStep == SpoolJob \/ TakeJob \/ DoSend \/ PopSpool \/ PublishProgress

WriterStep(w) == CollectWatchers(w) \/ SendJob(w) \/ Acknowledge(w)

Next ==
  \/ \E w \in Writers : Commit(w) \/ WriterStep(w)
  \/ ThreadStep
  \/ \E r \in 1..MaxRev : WalHandled(r)
  \/ \E t \in Watchers : (\E s \in 0..MaxRev : Watch(t, s)) \/ Receive(t) \/ Unwatch(t)

Spec == Init /\ [][Next]_vars

(***************************************************************************)
(* A set that has committed runs to its end, the thread is never stopped,  *)
(* and the WAL writers handle every record.  Nothing is assumed of the     *)
(* clients: neither new sets nor watchers that read their channel.         *)
(***************************************************************************)
Fairness ==
  /\ \A w \in Writers : WF_vars(WriterStep(w))
  /\ WF_vars(ThreadStep)
  /\ \A r \in 1..MaxRev : WF_vars(WalHandled(r))

FairSpec == Spec /\ Fairness

-----------------------------------------------------------------------------
(* Properties.                                                             *)

Increasing(s) == \A i, j \in 1..Len(s) : i < j => s[i] < s[j]

\* The revisions a watcher has received or still will, in order.
Stream(t) == got[t] \o chan[t]

(***************************************************************************)
(* The WAL is handed exactly the revisions 1, 2, 3, ... in this order, in  *)
(* whatever order the writers' jobs reach the thread (do_send is called    *)
(* once for each revision, in revision order).                             *)
(***************************************************************************)
WalInOrder == \A i \in 1..Len(wal) : wal[i] = i

(***************************************************************************)
(* A watcher sees revisions in increasing order, none of them twice: what  *)
(* its stream took out of the channel followed by what is still in it.     *)
(***************************************************************************)
WatchersInOrder == \A t \in Watchers : Increasing(Stream(t))

(***************************************************************************)
(* progress_rev is "only updated after all do_send() calls enqueue the     *)
(* message": an open watcher has in its stream every revision up to        *)
(* progress_rev that was committed after it registered and that it asked   *)
(* for, except those its full channel refused.                             *)
(***************************************************************************)
ProgressCovers ==
  \A t \in Watchers : watcher[t] = "open" =>
    \A r \in (since[t] + 1)..progress_rev :
      r >= start[t] =>
        \/ r \in dropped[t]
        \/ \E i \in 1..Len(Stream(t)) : Stream(t)[i] = r

\* The least revision the thread has neither sent nor holds.
First == IF thread = "send" THEN next_rev + 1 ELSE next_rev

\* Writers between commit and send, the channel and the spool hold no other
\* revisions than those from First to rev ...
JobsInRange ==
  /\ \A w \in Writers : InFlight(w) => job[w].rev \in First..rev
  /\ \A i \in 1..Len(notify_rx) : notify_rx[i].rev \in First..rev
  /\ \A j \in job_spool : j.rev \in First..rev

\* ... none of them twice ...
JobsDistinct ==
  /\ \A v, w \in Writers :
       InFlight(v) /\ InFlight(w) /\ job[v].rev = job[w].rev => v = w
  /\ \A h, i \in 1..Len(notify_rx) : notify_rx[h].rev = notify_rx[i].rev => h = i
  /\ \A j, k \in job_spool : j.rev = k.rev => j = k
  /\ \A w \in Writers, i \in 1..Len(notify_rx) :
       InFlight(w) => notify_rx[i].rev # job[w].rev
  /\ \A w \in Writers, j \in job_spool : InFlight(w) => j.rev # job[w].rev
  /\ \A i \in 1..Len(notify_rx), j \in job_spool : notify_rx[i].rev # j.rev

\* ... and all of them.
JobsCovered ==
  \A r \in First..rev :
    \/ \E w \in Writers : InFlight(w) /\ job[w].rev = r
    \/ \E i \in 1..Len(notify_rx) : notify_rx[i].rev = r
    \/ \E j \in job_spool : j.rev = r

(***************************************************************************)
(* No job is lost, duplicated or sent twice: every revision that the       *)
(* thread has neither sent nor holds is with exactly one of a writer, the  *)
(* channel and the spool.                                                  *)
(***************************************************************************)
JobsAccounted == JobsInRange /\ JobsDistinct /\ JobsCovered

(***************************************************************************)
(* The spool holds only jobs that wait for an earlier revision: while the  *)
(* thread waits for the channel, the job of some earlier revision is still *)
(* in the channel or with its writer.  Without it a job would stay in the  *)
(* spool for ever, with its watchers, its WAL record and its writer.       *)
(***************************************************************************)
SpoolJustified ==
  thread = "recv" =>
    \A j \in job_spool :
      \/ \E w \in Writers : InFlight(w) /\ job[w].rev < j.rev
      \/ \E i \in 1..Len(notify_rx) : notify_rx[i].rev < j.rev

(***************************************************************************)
(* In Sync mode set answers only after its own revision has been handled   *)
(* by the WAL and every earlier revision has been handed to it.            *)
(***************************************************************************)
SyncAckAfterWal ==
  [][\A w \in Writers :
       Sync /\ pc[w] # "idle" /\ pc'[w] = "idle" =>
         /\ job[w].rev \in handled
         /\ job[w].rev <= Len(wal)]_vars

(***************************************************************************)
(* Every committed revision is eventually sent, and progress_rev reaches   *)
(* it, whatever the watchers do.                                           *)
(***************************************************************************)
EveryCommitPublished == \A r \in 1..MaxRev : rev >= r ~> progress_rev >= r

(***************************************************************************)
(* Every set that has committed eventually answers, in Sync mode too.      *)
(***************************************************************************)
EverySetAnswers ==
  \A w \in Writers : pc[w] # "idle" ~> pc[w] = "idle"

=============================================================================
