---------------------------- MODULE WatchStream -----------------------------
(***************************************************************************)
(* A watch from its registration to its stream: Store::watch of            *)
(* src/src/store.rs and the stream of src/src/watch_service.rs, added to   *)
(* the notification path of module Notifier, whose steps go on while the   *)
(* past changes are read and the stream is served.                         *)
(*                                                                         *)
(* Every watcher watches the same range, of NumKeys keys in one prefix;    *)
(* writes to other keys do not reach its channel and are left out.  An     *)
(* event is known by its revision.  recv_many is taken one event at a      *)
(* time: the channel is increasing (WatchersInOrder of Notifier), so the   *)
(* filter treats the events of one batch as it treats them one by one.     *)
(***************************************************************************)
EXTENDS Notifier

CONSTANT NumKeys  \* keys in the range

ASSUME WatchStreamAssumption ==
  /\ NumKeys \in Nat
  /\ Base <= MaxRev

VARIABLES
  key,       \* TreeItem.revisions, as the key of each revision
  earliest,  \* start_offset: revisions up to this one are compacted
  spc,       \* where each watch is
  asked,     \* its start_revision argument
  start_rev, \* its start_rev
  todo,      \* keys whose past changes are still to be read
  past,      \* past_changes
  max_rev,   \* max_event_stream_rev
  sent,      \* the events yielded to the client
  skipped,   \* history: the events that retain dropped
  promised,  \* the revision of the last progress response
  settled    \* history: progress_rev when the stream last found its channel empty

clientVars == <<spc, asked, start_rev, todo, past, max_rev, sent, skipped, promised,
                settled>>
storeVars == <<key, earliest>>
watchVars == <<vars, storeVars, clientVars>>

Keys == 1..NumKeys

Revisions == 1..MaxRev

WatchTypeOK ==
  /\ TypeOK
  /\ rev <= MaxRev
  /\ key \in [Revisions -> Keys \cup {0}]
  /\ earliest \in Nat
  /\ spc \in [Watchers -> {"new", "begun", "scan", "open", "polled", "closed"}]
  /\ asked \in [Watchers -> 0..MaxRev]
  /\ start_rev \in [Watchers -> 0..MaxRev]
  /\ todo \in [Watchers -> SUBSET Keys]
  /\ past \in [Watchers -> Seq(Nat)]
  /\ max_rev \in [Watchers -> Nat]
  /\ sent \in [Watchers -> Seq(Nat)]
  /\ skipped \in [Watchers -> SUBSET Nat]
  /\ promised \in [Watchers -> Nat]
  /\ settled \in [Watchers -> Nat]

WatchInit ==
  /\ Init
  /\ key = [r \in Revisions |-> 0]
  /\ earliest = 0
  /\ spc = [t \in Watchers |-> "new"]
  /\ asked = [t \in Watchers |-> 0]
  /\ start_rev = [t \in Watchers |-> 0]
  /\ todo = [t \in Watchers |-> {}]
  /\ past = [t \in Watchers |-> <<>>]
  /\ max_rev = [t \in Watchers |-> 0]
  /\ sent = [t \in Watchers |-> <<>>]
  /\ skipped = [t \in Watchers |-> {}]
  /\ promised = [t \in Watchers |-> 0]
  /\ settled = [t \in Watchers |-> 0]

-----------------------------------------------------------------------------
(* The writers and the notification thread.                                *)

\* A set of key k commits: the item has its new revision when its lock is
\* released.
CommitKey(w, k) ==
  /\ Commit(w)
  /\ key' = [key EXCEPT ![rev + 1] = k]
  /\ UNCHANGED <<earliest, clientVars>>

NotifierStep ==
  /\ \/ \E w \in Writers : WriterStep(w)
     \/ ThreadStep
     \/ \E r \in Revisions : WalHandled(r)
  /\ UNCHANGED <<storeVars, clientVars>>

\* compact(r): the values before revision r are removed.
Compact(r) ==
  /\ r \in 1..rev
  /\ r - 1 > earliest
  /\ earliest' = r - 1
  /\ UNCHANGED <<vars, key, clientVars>>

-----------------------------------------------------------------------------
(* Store::watch.  The operators whose names start with Mutant are wrong    *)
(* variants, kept to show that the properties see them.                    *)

\* The revision asked for has been compacted.
Compacted(r) == r > 0 /\ r <= earliest

\* start_rev is fixed; a start_revision of 0 stands for the current one.
WatchBegin(t, r) ==
  /\ spc[t] = "new"
  /\ ~Compacted(r)
  /\ asked' = [asked EXCEPT ![t] = r]
  /\ start_rev' = [start_rev EXCEPT ![t] = IF r = 0 THEN rev ELSE r]
  /\ spc' = [spc EXCEPT ![t] = "begun"]
  /\ UNCHANGED <<vars, storeVars, todo, past, max_rev, sent, skipped, promised, settled>>

\* The stream is one response with the compact_revision.
WatchRefused(t, r) ==
  /\ spc[t] = "new"
  /\ Compacted(r)
  /\ spc' = [spc EXCEPT ![t] = "closed"]
  /\ UNCHANGED <<vars, storeVars, asked, start_rev, todo, past, max_rev, sent, skipped,
                 promised, settled>>

\* The watcher is inserted into watchers before the past changes are read.
WatchRegister(t) ==
  /\ spc[t] = "begun"
  /\ Watch(t, start_rev[t])
  /\ todo' = [todo EXCEPT ![t] = IF asked[t] > 0 THEN Keys ELSE {}]
  /\ spc' = [spc EXCEPT ![t] = "scan"]
  /\ UNCHANGED <<storeVars, asked, start_rev, past, max_rev, sent, skipped, promised, settled>>

\* Mutant: the binary search stops behind the revision asked for.
MutantWanted(t, k, r) == key[r] = k /\ r > earliest /\ r > start_rev[t]

\* A revision of the item with or after which the watch starts, and whose value
\* is still there.
Wanted(t, k, r) == key[r] = k /\ r > earliest /\ r >= start_rev[t]

\* The members of S from the least to the greatest.
InOrder(S) ==
  {s \in UNION {[1..n -> S] : n \in 0..rev} :
     /\ \A r \in S : \E i \in 1..Len(s) : s[i] = r
     /\ Increasing(s)}

\* One item, in key order and under its read lock: its revisions from
\* start_rev on are past changes.
WatchScan(t) ==
  /\ spc[t] = "scan"
  /\ \E k \in todo[t] :
       /\ \A j \in todo[t] : k <= j
       /\ todo' = [todo EXCEPT ![t] = todo[t] \ {k}]
       /\ \E s \in InOrder({r \in 1..rev : Wanted(t, k, r)}) :
            past' = [past EXCEPT ![t] = past[t] \o s]
  /\ UNCHANGED <<vars, storeVars, spc, asked, start_rev, max_rev, sent, skipped, promised,
                 settled>>

-----------------------------------------------------------------------------
(* The stream.                                                             *)

\* Mutant: nothing is remembered of the past changes.
MutantMaxPast(t) == 0

\* max_past_rev: the revision of the last of the past changes.
MaxPast(t) == IF past[t] = <<>> THEN 0 ELSE past[t][Len(past[t])]

\* The watch is confirmed and the past changes are yielded.
StreamOpen(t) ==
  /\ spc[t] = "scan"
  /\ todo[t] = {}
  /\ sent' = [sent EXCEPT ![t] = past[t]]
  /\ max_rev' = [max_rev EXCEPT ![t] = MaxPast(t)]
  /\ past' = [past EXCEPT ![t] = <<>>]
  /\ spc' = [spc EXCEPT ![t] = "open"]
  /\ UNCHANGED <<vars, storeVars, asked, start_rev, todo, skipped, promised, settled>>

\* The condition of read_many.retain.
Fresh(t, r) == r > max_rev[t]

\* An event is received: it is yielded, or dropped as one already sent.
StreamReceive(t) ==
  /\ spc[t] = "open"
  /\ Receive(t)
  /\ LET r == Head(chan[t]) IN
     IF Fresh(t, r)
       THEN /\ sent' = [sent EXCEPT ![t] = Append(sent[t], r)]
            /\ max_rev' = [max_rev EXCEPT ![t] = IF r > max_rev[t] THEN r ELSE max_rev[t]]
            /\ UNCHANGED skipped
       ELSE /\ skipped' = [skipped EXCEPT ![t] = skipped[t] \cup {r}]
            /\ UNCHANGED <<sent, max_rev>>
  /\ UNCHANGED <<storeVars, spc, asked, start_rev, todo, past, promised, settled>>

\* Mutant: the select is not biased.
MutantIdle(t) == TRUE

\* The biased select turns to the client only when the channel is empty.
Idle(t) == chan[t] = <<>>

\* It finds the channel empty and then a progress request ...
StreamPolled(t) ==
  /\ spc[t] = "open"
  /\ Idle(t)
  /\ settled' = [settled EXCEPT ![t] = progress_rev]
  /\ spc' = [spc EXCEPT ![t] = "polled"]
  /\ UNCHANGED <<vars, storeVars, asked, start_rev, todo, past, max_rev, sent, skipped,
                 promised>>

\* ... which is answered with the larger of progress_rev and the last event.
StreamProgress(t) ==
  /\ spc[t] = "polled"
  /\ promised' = [promised EXCEPT ![t] = IF progress_rev > max_rev[t] THEN progress_rev
                                                                     ELSE max_rev[t]]
  /\ spc' = [spc EXCEPT ![t] = "open"]
  /\ UNCHANGED <<vars, storeVars, asked, start_rev, todo, past, max_rev, sent, skipped,
                 settled>>

\* The client cancels or closes the stream.
StreamClose(t) ==
  /\ spc[t] = "open"
  /\ Unwatch(t)
  /\ spc' = [spc EXCEPT ![t] = "closed"]
  /\ UNCHANGED <<storeVars, asked, start_rev, todo, past, max_rev, sent, skipped, promised,
                 settled>>

-----------------------------------------------------------------------------
StreamStep(t) ==
  \/ \E r \in 0..MaxRev : WatchBegin(t, r) \/ WatchRefused(t, r)
  \/ WatchRegister(t) \/ WatchScan(t) \/ StreamOpen(t) \/ StreamReceive(t)
  \/ StreamPolled(t) \/ StreamProgress(t) \/ StreamClose(t)

WatchNext ==
  \/ \E w \in Writers, k \in Keys : CommitKey(w, k)
  \/ NotifierStep
  \/ \E r \in Revisions : Compact(r)
  \/ \E t \in Watchers : StreamStep(t)

WatchSpec == WatchInit /\ [][WatchNext]_watchVars

-----------------------------------------------------------------------------
(* Properties.                                                             *)

InSeq(r, s) == \E i \in 1..Len(s) : s[i] = r

(***************************************************************************)
(* A client that watches one key gets every event once and in order, past  *)
(* changes and channel together, although a write between the registration *)
(* and the scan is in both.                                                *)
(***************************************************************************)
OnceInOrder ==
  NumKeys = 1 => \A t \in Watchers : Increasing(sent[t])

(***************************************************************************)
(* A client that watches one key misses nothing: once the thread has       *)
(* published a revision that the watch asked for, the client has it, or it *)
(* waits in the channel, or the full channel refused it, or it has been    *)
(* compacted.                                                              *)
(***************************************************************************)
NothingMissed ==
  NumKeys = 1 =>
    \A t \in Watchers : spc[t] \in {"open", "polled"} =>
      \A r \in start_rev[t]..progress_rev :
        asked[t] > 0 \/ r > since[t] =>
          InSeq(r, sent[t]) \/ InSeq(r, chan[t]) \/ r \in dropped[t] \/ r <= earliest

(***************************************************************************)
(* What a progress response is good for: an event that the stream yields   *)
(* after it is later than every revision whose notifications were complete *)
(* when the channel was found empty.  Between that poll and the read of    *)
(* progress_rev more revisions may complete: the response names those too, *)
(* and their events follow it.                                             *)
(***************************************************************************)
ProgressIsBarrier ==
  [][\A t \in Watchers :
       (promised[t] > 0 /\ Len(sent'[t]) > Len(sent[t])) =>
         sent'[t][Len(sent'[t])] > settled[t]]_watchVars

(***************************************************************************)
(* What a comment of the stream claims and the code does not do:           *)
(* "duplicates (already sent in past_changes)": an event that retain drops *)
(* and that is not compacted has been sent.                                *)
(***************************************************************************)
SkippedWereSent ==
  \A t \in Watchers : \A r \in skipped[t] : r > earliest => InSeq(r, sent[t])

=============================================================================
