------------------------------- MODULE Vectors -------------------------------
(***************************************************************************)
(* Version vectors (lib/protocol/vector.go): one counter per device that   *)
(* ever changed the item.  A counter that is missing counts as zero.       *)
(***************************************************************************)
EXTENDS Integers

CONSTANT Counters   \* short device IDs

ASSUME CountersAssumption == Counters \subseteq Nat

EmptyVector == [i \in Counters |-> 0]

\* Vector.Compare. Concurrent vectors are ordered by the first counter in
\* which they differ.
Compare(v, w) ==
    LET differ == {i \in Counters : v[i] # w[i]}
        more == {i \in differ : v[i] > w[i]}
    IN  CASE differ = {} -> "equal"
          [] differ # {} /\ more = differ -> "greater"
          [] differ # {} /\ more = {} -> "lesser"
          [] OTHER ->
               IF \E i \in more : \A j \in differ : i <= j
                 THEN "concurrentGreater" ELSE "concurrentLesser"

\* updateWithNow: a counter is one more, or the time if that is later.
VectorUpdate(v, i, time) == [v EXCEPT ![i] = IF @ + 1 > time THEN @ + 1 ELSE time]

VectorMerge(v, w) == [i \in Counters |-> IF v[i] > w[i] THEN v[i] ELSE w[i]]

DropOthers(v, i) == [EmptyVector EXCEPT ![i] = v[i]]
=============================================================================
