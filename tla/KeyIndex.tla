------------------------------ MODULE KeyIndex ------------------------------
(***************************************************************************)
(* Keys as bytes: how src/src/store.rs files a key under a prefix, which   *)
(* keys a range [start, end) lists and which a watcher of [start, end) is  *)
(* told of.  A range is answered from one entry of prefix_map, by          *)
(* comparing suffixes (prefix_and_range_of_key); a watcher is matched by   *)
(* comparing whole keys (notify_watchers).  A watch uses both: the first   *)
(* for its past changes, the second from then on.                          *)
(*                                                                         *)
(* A key is a sequence of bytes.  The eight letters of "registry" are one  *)
(* byte here.  Every key is set once: matching looks at nothing but the    *)
(* key and its revision.                                                   *)
(***************************************************************************)
EXTENDS Integers, SequencesExt

CONSTANTS Keys,     \* the keys that are set
          Starts,   \* the starts of ranges and watches
          Ends,     \* their ends
          Watches,  \* the calls of Store::watch
          MaxRev    \* bounds the number of sets

ASSUME KeyIndexAssumption ==
  /\ Keys \cup Starts \cup Ends \subseteq Seq(0..255)
  /\ MaxRev \in Nat

VARIABLES
  mod,        \* tree_map: the revision at which each key was set, 0 if absent
  prefix_map, \* each prefix's suffixes
  rev,        \* current_revision
  notifying,  \* keys whose set has committed and not yet called notify_watchers
  wpc,        \* where each watch is
  watchers,   \* the ids in the watchers map
  start, end, \* key_range_start, key_range_end
  asked,      \* the rev argument of each watch
  start_rev,  \* its start_revision
  past,       \* the keys of past_changes
  live        \* the keys sent to its channel

indexVars == <<mod, prefix_map, rev, notifying>>
vars == <<indexVars, wpc, watchers, start, end, asked, start_rev, past, live>>

-----------------------------------------------------------------------------
(* Keys and prefixes.                                                      *)

Dot == 46
Slash == 47
Zero == 48
Registry == <<Slash, 114, Slash>>

\* The order of Vec<u8>: lexicographic.
Less(a, b) ==
  \E n \in 0..Len(a) :
    /\ n < Len(b)
    /\ SubSeq(a, 1, n) = SubSeq(b, 1, n)
    /\ n = Len(a) \/ a[n + 1] < b[n + 1]

Slashes(k) == {i \in DOMAIN k : k[i] = Slash}

\* Where the n-th slash of k is: segments[n] begins after it.
SlashAt(k, n) ==
  CHOOSE i \in Slashes(k) : Cardinality({j \in Slashes(k) : j <= i}) = n

\* The second segment, after "/registry/", contains a period.
IsGroup(k) ==
  \E i \in DOMAIN k : k[i] = Dot /\ Cardinality({j \in Slashes(k) : j < i}) = 2

MutantLastSegment(k) == Min({Cardinality(Slashes(k)), 4})

LastSegment(k) == Min({Cardinality(Slashes(k)), IF IsGroup(k) THEN 4 ELSE 3})

\* The end that goes with a directory: its last byte plus one.
After(s) == Append(Front(s), Slash + 1)

\* The length of the first half of prefix_split, for every key in use.
PrefixEnd ==
  [k \in Keys \cup Starts \cup Ends \cup {After(s) : s \in Starts} |->
     IF IsPrefix(Registry, k) THEN SlashAt(k, LastSegment(k)) ELSE 0]

Prefix(k) == SubSeq(k, 1, PrefixEnd[k])

Suffix(k) == SubSeq(k, PrefixEnd[k] + 1, Len(k))

-----------------------------------------------------------------------------
(* Ranges.                                                                 *)

\* The end of a range over several prefixes names the one after the start's.
NextPrefix(s, e) ==
  /\ Suffix(e) # <<>>
  /\ Last(e) \in {Zero, 0}
  /\ Prefix(s) = Append(Front(e), Slash)

\* prefix_and_range_of_key returns Ok.
Ranged(s, e) == e \in {<<>>, <<0>>} \/ Prefix(s) = Prefix(e) \/ NextPrefix(s, e)

\* The upper bound that it returns is Unbounded.
ToTheEnd(s, e) == e = <<0>> \/ Prefix(s) # Prefix(e) \/ e = Append(s, 0)

MutantWithin(s, e, x) ==
  IF e = <<>> THEN x = Suffix(s)
  ELSE ~Less(x, Suffix(s)) /\ (ToTheEnd(s, e) \/ ~Less(Suffix(e), x))

\* The bounds that it returns hold suffix x.
Within(s, e, x) ==
  IF e = <<>> THEN x = Suffix(s)
  ELSE ~Less(x, Suffix(s)) /\ (ToTheEnd(s, e) \/ Less(x, Suffix(e)))

\* The keys that a range or the past changes of a watch go through.
Listed(s, e) ==
  {Prefix(s) \o x : x \in {y \in prefix_map[Prefix(s)] : Within(s, e, y)}}

MutantMatches(k, s, e) ==
  IF e = <<>> THEN k = s ELSE ~Less(k, s) /\ ~Less(e, k)

\* in_range of notify_watchers.
Matches(k, s, e) ==
  IF e = <<>> THEN k = s ELSE Less(k, e) /\ ~Less(k, s)

-----------------------------------------------------------------------------

Stored == {k \in Keys : mod[k] > 0}

FiledUnder == {Prefix(k) : k \in Keys \cup Starts}

TypeOK ==
  /\ rev \in 0..MaxRev
  /\ mod \in [Keys -> 0..MaxRev]
  /\ DOMAIN prefix_map = FiledUnder
  /\ notifying \subseteq Stored
  /\ wpc \in [Watches -> {"new", "begun", "registered", "open", "refused", "closed"}]
  /\ watchers \subseteq {w \in Watches : wpc[w] \in {"registered", "open", "refused"}}
  /\ start \in [Watches -> Starts \cup {<<>>}]
  /\ end \in [Watches -> Ends \cup {<<>>}]
  /\ asked \in [Watches -> 0..MaxRev]
  /\ start_rev \in [Watches -> 0..MaxRev]
  /\ past \in [Watches -> SUBSET Keys]
  /\ live \in [Watches -> SUBSET Keys]

Init ==
  /\ mod = [k \in Keys |-> 0]
  /\ prefix_map = [p \in FiledUnder |-> {}]
  /\ rev = 0
  /\ notifying = {}
  /\ wpc = [w \in Watches |-> "new"]
  /\ watchers = {}
  /\ start = [w \in Watches |-> <<>>]
  /\ end = [w \in Watches |-> <<>>]
  /\ asked = [w \in Watches |-> 0]
  /\ start_rev = [w \in Watches |-> 0]
  /\ past = [w \in Watches |-> {}]
  /\ live = [w \in Watches |-> {}]

\* set of a new key, up to the unlock of its item: the key is in tree_map,
\* its suffix in prefix_map and its revision in the item.
Set(k) ==
  /\ mod[k] = 0
  /\ rev < MaxRev
  /\ rev' = rev + 1
  /\ mod' = [mod EXCEPT ![k] = rev']
  /\ prefix_map' = [prefix_map EXCEPT ![Prefix(k)] = @ \cup {Suffix(k)}]
  /\ notifying' = notifying \cup {k}
  /\ UNCHANGED <<wpc, watchers, start, end, asked, start_rev, past, live>>

\* notify_watchers collects the watchers of the key; their channels get the
\* event from the notification thread (module Notifier).
NotifyWatchers(k) ==
  /\ k \in notifying
  /\ notifying' = notifying \ {k}
  /\ live' = [w \in Watches |->
                IF /\ w \in watchers
                   /\ start_rev[w] <= mod[k]
                   /\ Matches(k, start[w], end[w])
                THEN live[w] \cup {k} ELSE live[w]]
  /\ UNCHANGED <<mod, prefix_map, rev, wpc, watchers, start, end, asked, start_rev, past>>

\* Store::watch, up to its read of the current revision.
Begin(w, s, e, a) ==
  /\ wpc[w] = "new"
  /\ wpc' = [wpc EXCEPT ![w] = "begun"]
  /\ start' = [start EXCEPT ![w] = s]
  /\ end' = [end EXCEPT ![w] = e]
  /\ asked' = [asked EXCEPT ![w] = a]
  /\ start_rev' = [start_rev EXCEPT ![w] = IF a = 0 THEN rev ELSE a]
  /\ UNCHANGED <<indexVars, watchers, past, live>>

\* The watcher goes into the map, before its range is looked at.
Register(w) ==
  /\ wpc[w] = "begun"
  /\ wpc' = [wpc EXCEPT ![w] = "registered"]
  /\ watchers' = watchers \cup {w}
  /\ UNCHANGED <<indexVars, start, end, asked, start_rev, past, live>>

\* The past changes, or Err for a range over several prefixes: the watcher
\* stays in the map and nobody is left to remove it.
Scan(w) ==
  /\ wpc[w] = "registered"
  /\ LET s == start[w]
         e == end[w]
     IN \/ /\ asked[w] > 0 /\ ~Ranged(s, e)
           /\ wpc' = [wpc EXCEPT ![w] = "refused"]
           /\ UNCHANGED past
        \/ /\ asked[w] > 0 /\ Ranged(s, e)
           /\ wpc' = [wpc EXCEPT ![w] = "open"]
           /\ past' = [past EXCEPT ![w] =
                         {k \in Listed(s, e) : mod[k] >= start_rev[w]}]
        \/ /\ asked[w] = 0
           /\ wpc' = [wpc EXCEPT ![w] = "open"]
           /\ UNCHANGED past
  /\ UNCHANGED <<indexVars, watchers, start, end, asked, start_rev, live>>

MutantUnwatch(w) ==
  /\ wpc[w] = "open"
  /\ wpc' = [wpc EXCEPT ![w] = "closed"]
  /\ UNCHANGED <<indexVars, watchers, start, end, asked, start_rev, past, live>>

\* The stream ends and calls unwatch.
Unwatch(w) ==
  /\ wpc[w] = "open"
  /\ wpc' = [wpc EXCEPT ![w] = "closed"]
  /\ watchers' = watchers \ {w}
  /\ UNCHANGED <<indexVars, start, end, asked, start_rev, past, live>>

Next ==
  \/ \E k \in Keys : Set(k) \/ NotifyWatchers(k)
  \/ \E w \in Watches : \/ \E s \in Starts, e \in Ends, a \in 0..MaxRev : Begin(w, s, e, a)
                        \/ Register(w) \/ Scan(w) \/ Unwatch(w)

Spec == Init /\ [][Next]_vars

-----------------------------------------------------------------------------
(* Properties.                                                             *)

\* A directory of the layout that prefix_split is written for: a resource of
\* "/registry/", or of a group of it, or something below one.
Directories ==
  {s \in Starts :
     /\ IsPrefix(Registry, s) /\ Last(s) = Slash
     /\ Cardinality(Slashes(s)) > IF IsGroup(s) THEN 3 ELSE 2}

\* A range of a directory is never refused and lists every key below the
\* directory and no other, whatever prefixes the keys were filed under: what
\* the comment of prefix_split promises of resources, namespaces and groups.
DirectoriesListed ==
  \A s \in Directories :
    /\ Ranged(s, After(s))
    /\ Listed(s, After(s)) = {k \in Stored : IsPrefix(s, k)}

\* No range ends in a zero byte, which the range code reads as "to the end"
\* and the watch code does not.
Plain(e) == e = <<>> \/ Last(e) # 0

\* A watch and a range of the same bounds agree: when its set is over, a key
\* filed where the range looks has been reported by an open watch from an
\* earlier revision, in the past changes or on the channel, exactly if the
\* range lists it.
WatchAgreesWithRange ==
  \A w \in Watches :
    (wpc[w] = "open" /\ asked[w] > 0 /\ Plain(end[w])) =>
      \A k \in Stored \ notifying :
        (Prefix(k) = Prefix(start[w]) /\ mod[k] >= asked[w]) =>
          (k \in past[w] \cup live[w]) = (k \in Listed(start[w], end[w]))

\* A watch reports no key outside the bytes [start, end) that it asked for,
\* neither among the past changes, found by suffix, nor on the channel, and
\* none from before its first revision.
OnlyAskedFor ==
  \A w \in Watches : Plain(end[w]) =>
    \A k \in past[w] \cup live[w] :
      /\ mod[k] >= asked[w]
      /\ Matches(k, start[w], end[w])
=============================================================================
