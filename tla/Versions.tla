------------------------------ MODULE Versions -------------------------------
(***************************************************************************)
(* The values of src/src/store.rs and what a set makes of one: the part of *)
(* the store that its concurrent threads (module Store), the replicated    *)
(* state machine (StateMachine) and the KV service (KvService) share.      *)
(***************************************************************************)
EXTENDS Integers

Compares == {"EQUAL", "GREATER", "LESS", "NOT_EQUAL"}

\* required = None.
Anything == [last |-> -1, version |-> -1, compare |-> "EQUAL"]

\* Of the bytes of a value only is_some() is kept, as live.
Value == [create : Nat, mod : Nat, version : Nat, live : BOOLEAN]

\* The value of an item that was just made, and what stands for Err and None.
NoValue == [create |-> 0, mod |-> 0, version |-> 0, live |-> FALSE]

\* Mutant: a live item is overwritten whatever was required.
MutantSatisfied(compare, existing, target) == TRUE

\* cmp_satisfied, applied only to a target that was given.
Satisfied(compare, existing, target) ==
  \/ target < 0
  \/ compare = "EQUAL" /\ existing = target
  \/ compare = "GREATER" /\ existing > target
  \/ compare = "LESS" /\ existing < target
  \/ compare = "NOT_EQUAL" /\ existing # target

\* set gets past its checks on an item whose value is v: if it is live it
\* satisfies what is required; anything else can only be created, by a put that
\* requires no revision and no version.
Permits(v, put, required) ==
  IF v.live
    THEN /\ Satisfied(required.compare, v.mod, required.last)
         /\ Satisfied(required.compare, v.version, required.version)
    ELSE required.last <= 0 /\ required.version <= 0 /\ put

\* new_value, for an item whose value so far is v.
NewValue(v, put, r) ==
  [create  |-> IF v.live THEN v.create ELSE r,
   mod     |-> r,
   version |-> IF v.live THEN v.version + 1 ELSE 1,
   live    |-> put]

=============================================================================
