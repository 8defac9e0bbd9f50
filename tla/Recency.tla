------------------------------ MODULE Recency ------------------------------
(***************************************************************************)
(* What an LRU cache promises (docs/lru.md), from the history of its use:  *)
(* it holds the entries used last, as many as it has room for.  Reading    *)
(* an entry and setting one, new or not, are uses of it.                   *)
(***************************************************************************)
EXTENDS Sequences, SequencesExt

CONSTANTS Keys, Values

VARIABLES used,      \* the keys ever used, the one used last first
          cached,    \* the keys in the cache
          value,     \* the value of each
          capacity   \* never changes

vars == <<used, cached, value, capacity>>

Init == used = <<>> /\ cached = <<>> /\ value = <<>> /\ capacity \in Nat

Use(k) ==
    /\ used' = <<k>> \o RemoveFirst(used, k)
    /\ cached' = SubSeq(used', 1, IF Len(used') < capacity THEN Len(used') ELSE capacity)

Get(k) == k \in ToSet(cached) /\ UNCHANGED value

Set(k) == \E v \in Values : value' = [j \in ToSet(cached') |-> IF j = k THEN v ELSE value[j]]

Clear == used' = <<>> /\ cached' = <<>> /\ value' = <<>>

Next ==
    /\ Clear \/ \E k \in Keys : Use(k) /\ (Get(k) \/ Set(k))
    /\ UNCHANGED capacity

Spec == Init /\ [][Next]_vars

=============================================================================
