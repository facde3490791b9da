----------------------------- MODULE DelayBucket -----------------------------
(***************************************************************************)
(* delaybucket<T>: a bag of values, each with the cycles left until it is  *)
(* due, which are negative for a value that is late.  The comparator of the*)
(* priority queue calls equal times ordered both ways, so which of several *)
(* values with the same time is at the top is left open.                   *)
(***************************************************************************)
EXTENDS Integers, Bags

(* add(), n times. *)
Add(pq, v, delay, n) ==
  IF n = 0 THEN pq ELSE pq (+) [e \in {[left |-> delay, val |-> v]} |-> n]

(* What get() may return. *)
Due(pq) ==
  {e \in BagToSet(pq) : e.left <= 0 /\ \A f \in BagToSet(pq) : e.left <= f.left}

Removed(pq, e) == pq (-) SetToBag({e})

(* A cycle goes by. *)
Elapsed(pq) ==
  [e \in {[f EXCEPT !.left = @ - 1] : f \in BagToSet(pq)} |-> pq[[e EXCEPT !.left = @ + 1]]]
=============================================================================
