------------------------------- MODULE LruSet -------------------------------
(***************************************************************************)
(* lruset<K,V>: at most `capacity` entries, the least recently used first. *)
(***************************************************************************)
EXTENDS Naturals, Sequences

Has(s, k) == \E i \in DOMAIN s : s[i].key = k

Find(s, k) == CHOOSE i \in DOMAIN s : s[i].key = k

(* get() of a key that is there: it goes to the end of the list, and those *)
(* behind it move up. The caller may write through the reference.          *)
Promote(s, k) ==
  [i \in DOMAIN s |-> IF i < Find(s, k) THEN s[i]
                      ELSE IF i < Len(s) THEN s[i + 1] ELSE s[Find(s, k)]]
Mark(s, k, v) == [i \in DOMAIN s |-> IF s[i].key = k THEN [s[i] EXCEPT !.val = v] ELSE s[i]]

Evicted(s, capacity)  == IF Len(s) = capacity THEN {Head(s)} ELSE {}

(* Slip: nothing makes room. *)
RemainingAll(s, capacity) == s

Remaining(s, capacity) == IF Len(s) = capacity THEN Tail(s) ELSE s

(* put(): it makes room first; the insertion fails if the key is there. *)
Put(s, capacity, k, v) ==
  LET r == Remaining(s, capacity)
  IN  IF Has(r, k) THEN r ELSE Append(r, [key |-> k, val |-> v])

IsLruSet(s, capacity, K, V) ==
  /\ s \in Seq([key : K, val : V])
  /\ Len(s) <= capacity
  /\ \A i, j \in DOMAIN s : s[i].key = s[j].key => i = j
=============================================================================
