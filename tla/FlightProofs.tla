----------------------------- MODULE FlightProofs -----------------------------
(***************************************************************************)
(* No micro-op is lost, duplicated or reordered between the decoder and    *)
(* Execute, and Execute's address check drops none, in any order of the    *)
(* processes within a cycle.  The order of the micro-ops of an instruction *)
(* that this rests on is the decoder's.  A program that computes in        *)
(* registers runs as if its instructions were executed one at a time.      *)
(***************************************************************************)
EXTENDS BackEndProofs, Refinement, Cracker, Induction, SequenceTheorems

(* The address after an instruction is another one. *)
LEMMA MovesOn ==
  ASSUME NEW a \in Word, NEW s \in 1 .. WordMod - 1
  PROVE  Trunc(a + s) # a
<1>1. WordMod \in Nat /\ WordMod > 0 /\ a \in Nat /\ a < WordMod /\ s \in Nat /\ s >= 1 /\ s < WordMod
  BY WordModAssumption DEF Word
<1>2. CASE a + s < WordMod
  <2>1. (a + s) % WordMod = a + s
    BY <1>1, <1>2, Z3
  <2> QED BY <1>1, <2>1 DEF Trunc
<1>3. CASE a + s >= WordMod
  <2>1. (a + s) % WordMod = a + s - WordMod
    BY <1>1, <1>3, Z3
  <2> QED BY <1>1, <2>1 DEF Trunc
<1> QED BY <1>1, <1>2, <1>3

-----------------------------------------------------------------------------
(* The code a queue holds. *)

(* Where control goes after a micro-op that redirects nothing. *)
After(u) == Trunc(u.address + u.opsize)

(* Micro-op u is the k-th of its instruction in program p. *)
IsAt(p, u, k) ==
  /\ u.address \in DOMAIN p
  /\ u.opsize = p[u.address].size
  /\ k \in 1 .. Len(p[u.address].uops)
  /\ u.opcode = p[u.address].uops[k].opcode

(* Micro-op v, the m-th of its instruction, comes after u, the k-th of its. *)
Succeeds(p, u, k, v, m) ==
  \/ v.address = u.address /\ m = k + 1
  \/ v.address = After(u) /\ k = Len(p[u.address].uops) /\ m = 1

(* q is the code of p from micro-op done + 1 of the instruction at pc up to *)
(* the one before next; idx numbers its entries within their instructions. *)
Numbers(p, q, idx, pc, done, next) ==
  /\ \A i \in 1 .. Len(q) : IsAt(p, q[i], idx[i])
  /\ \A i \in 1 .. Len(q) - 1 : Succeeds(p, q[i], idx[i], q[i + 1], idx[i + 1])
  /\ q = <<>> => next = pc /\ done = 0
  /\ q # <<>> => /\ q[1].address = pc /\ idx[1] = done + 1
                 /\ idx[Len(q)] = Len(p[q[Len(q)].address].uops)
                 /\ next = After(q[Len(q)])

Flows(p, q, pc, done, next) ==
  \E idx \in [1 .. Len(q) -> Nat] : Numbers(p, q, idx, pc, done, next)

(* What Dispatch and the patch loop leave of a micro-op. *)
Alike(q, r) ==
  /\ Len(r) = Len(q)
  /\ \A i \in 1 .. Len(q) : /\ r[i].address = q[i].address
                            /\ r[i].opcode = q[i].opcode
                            /\ r[i].opsize = q[i].opsize

(* Operands and registers say nothing of which code a queue holds.         *)
LEMMA AlikeFlows ==
  ASSUME NEW p, NEW q \in Seq(Uop), NEW r \in Seq(Uop), NEW pc, NEW done, NEW next,
         Alike(q, r), Flows(p, q, pc, done, next)
  PROVE  Flows(p, r, pc, done, next)
<1>1. PICK idx \in [1 .. Len(q) -> Nat] : Numbers(p, q, idx, pc, done, next)
  BY DEF Flows
<1>2. Len(q) = Len(r) /\ Len(q) \in Nat /\ (q = <<>> <=> r = <<>>)
  BY DEF Alike
<1>3. \A i \in 1 .. Len(r) : IsAt(p, r[i], idx[i])
  BY <1>1, <1>2 DEF Numbers, Alike, IsAt
<1>4. \A i \in 1 .. Len(r) - 1 : i \in 1 .. Len(q) /\ i + 1 \in 1 .. Len(q)
  BY <1>2
<1>5. \A i \in 1 .. Len(r) - 1 : Succeeds(p, r[i], idx[i], r[i + 1], idx[i + 1])
  BY <1>1, <1>2, <1>4 DEF Numbers, Alike, Succeeds, After
<1>6. r # <<>> => 1 \in 1 .. Len(q) /\ Len(q) \in 1 .. Len(q)
  BY <1>2
<1>7. r # <<>> => /\ r[1].address = pc /\ idx[1] = done + 1
                  /\ idx[Len(r)] = Len(p[r[Len(r)].address].uops)
                  /\ next = After(r[Len(r)])
  BY <1>1, <1>2, <1>6 DEF Numbers, Alike, After
<1>8. Numbers(p, r, idx, pc, done, next)
  BY <1>1, <1>2, <1>3, <1>5, <1>7 DEF Numbers
<1> QED BY <1>2, <1>8 DEF Flows

(* Two queues in a row, entry by entry. *)
LEMMA Joined ==
  ASSUME NEW q \in Seq(Uop), NEW f \in Seq(Uop)
  PROVE  /\ q \o f \in Seq(Uop) /\ Len(q \o f) = Len(q) + Len(f)
         /\ \A i \in 1 .. Len(q) + Len(f) :
              (q \o f)[i] = IF i <= Len(q) THEN q[i] ELSE f[i - Len(q)]
  OBVIOUS

(* The micro-ops of one more instruction continue the code. *)
LEMMA PushFlows ==
  ASSUME NEW p, IsProgram(p), NEW q \in Seq(Uop), NEW f \in Seq(Uop), NEW pc, NEW done,
         NEW next \in DOMAIN p,
         Len(f) = Len(p[next].uops),
         \A i \in 1 .. Len(f) : /\ f[i].address = next
                                /\ f[i].opcode = p[next].uops[i].opcode
                                /\ f[i].opsize = p[next].size,
         Flows(p, q, pc, done, next)
  PROVE  Flows(p, q \o f, pc, done, Trunc(next + p[next].size))
<1>1. PICK idx \in [1 .. Len(q) -> Nat] : Numbers(p, q, idx, pc, done, next)
  BY DEF Flows
<1>2. /\ Len(f) \in Nat /\ Len(f) > 0 /\ Len(q) \in Nat
      /\ p[next].uops \in Seq(Template)
  <2>1. p[next].uops \in Seq(Template) \ {<<>>}
    BY DEF IsProgram
  <2>2. Len(p[next].uops) \in Nat \ {0}
    BY <2>1, EmptySeq
  <2> QED BY <2>1, <2>2
<1> DEFINE r == q \o f
           new == [i \in 1 .. Len(q) + Len(f) |-> IF i <= Len(q) THEN idx[i] ELSE i - Len(q)]
<1>3. /\ r \in Seq(Uop) /\ Len(r) = Len(q) + Len(f)
      /\ \A i \in 1 .. Len(q) + Len(f) : r[i] = IF i <= Len(q) THEN q[i] ELSE f[i - Len(q)]
  BY Joined
<1>4. new \in [1 .. Len(r) -> Nat]
  BY <1>2, <1>3
<1>5. \A i \in 1 .. Len(q) + Len(f) : new[i] = IF i <= Len(q) THEN idx[i] ELSE i - Len(q)
  OBVIOUS
<1> HIDE DEF r, new
<1>6. \A i \in 1 .. Len(r) : IsAt(p, r[i], new[i])
  <2> TAKE i \in 1 .. Len(r)
  <2>1. CASE i <= Len(q)
    <3>1. i \in 1 .. Len(q) /\ i \in 1 .. Len(q) + Len(f)
      BY <1>2, <1>3, <2>1
    <3>2. r[i] = q[i] /\ new[i] = idx[i]
      BY <1>3, <1>5, <2>1, <3>1
    <3> QED BY <1>1, <3>1, <3>2 DEF Numbers
  <2>2. CASE i > Len(q)
    <3>1. i - Len(q) \in 1 .. Len(f) /\ i \in 1 .. Len(q) + Len(f) /\ ~(i <= Len(q))
      BY <1>2, <1>3, <2>2
    <3>2. r[i] = f[i - Len(q)] /\ new[i] = i - Len(q)
      BY <1>3, <1>5, <3>1
    <3> QED BY <3>1, <3>2 DEF IsAt
  <2> QED BY <1>2, <1>3, <2>1, <2>2
<1>7. \A i \in 1 .. Len(r) - 1 : Succeeds(p, r[i], new[i], r[i + 1], new[i + 1])
  <2> TAKE i \in 1 .. Len(r) - 1
  <2>1. i \in Nat /\ i \in 1 .. Len(q) + Len(f) /\ i + 1 \in 1 .. Len(q) + Len(f)
    BY <1>2, <1>3
  <2>2. /\ r[i] = IF i <= Len(q) THEN q[i] ELSE f[i - Len(q)]
        /\ new[i] = IF i <= Len(q) THEN idx[i] ELSE i - Len(q)
        /\ r[i + 1] = IF i + 1 <= Len(q) THEN q[i + 1] ELSE f[i + 1 - Len(q)]
        /\ new[i + 1] = IF i + 1 <= Len(q) THEN idx[i + 1] ELSE i + 1 - Len(q)
    BY <1>3, <1>5, <2>1
  <2>3. CASE i < Len(q)
    <3>1. i \in 1 .. Len(q) - 1 /\ i <= Len(q) /\ i + 1 <= Len(q)
      BY <1>2, <2>1, <2>3
    <3> QED BY <1>1, <2>2, <3>1 DEF Numbers
  <2>4. CASE i = Len(q)
    <3>1. ~(i + 1 <= Len(q)) /\ i + 1 - Len(q) = 1 /\ q # <<>> /\ 1 \in 1 .. Len(f) /\ i <= Len(q)
      BY <1>2, <2>1, <2>4
    <3>2. idx[Len(q)] = Len(p[q[Len(q)].address].uops) /\ next = After(q[Len(q)])
      BY <1>1, <3>1 DEF Numbers
    <3>3. r[i] = q[i] /\ new[i] = idx[i] /\ r[i + 1] = f[1] /\ new[i + 1] = 1
      BY <2>2, <3>1
    <3> QED BY <2>4, <3>1, <3>2, <3>3 DEF Succeeds
  <2>5. CASE i > Len(q)
    <3>1. /\ ~(i <= Len(q)) /\ ~(i + 1 <= Len(q)) /\ i - Len(q) \in 1 .. Len(f)
          /\ i + 1 - Len(q) \in 1 .. Len(f) /\ i + 1 - Len(q) = (i - Len(q)) + 1
      BY <1>2, <2>1, <2>5
    <3>2. /\ r[i] = f[i - Len(q)] /\ new[i] = i - Len(q)
          /\ r[i + 1] = f[i + 1 - Len(q)] /\ new[i + 1] = i + 1 - Len(q)
      BY <2>2, <3>1
    <3> QED BY <3>1, <3>2 DEF Succeeds
  <2> QED BY <1>2, <2>1, <2>3, <2>4, <2>5
<1>8. r # <<>>
  BY <1>2, <1>3
<1>9. r[1].address = pc /\ new[1] = done + 1
  <2>1. CASE q = <<>>
    <3>1. Len(q) = 0 /\ next = pc /\ done = 0
      BY <1>1, <2>1 DEF Numbers
    <3>2. r[1] = f[1] /\ new[1] = 1 /\ 1 \in 1 .. Len(f)
      BY <1>2, <1>3, <1>5, <3>1
    <3> QED BY <3>1, <3>2
  <2>2. CASE q # <<>>
    <3>1. 1 <= Len(q) /\ 1 \in 1 .. Len(q) + Len(f)
      BY <1>2, <2>2, EmptySeq
    <3>2. r[1] = q[1] /\ new[1] = idx[1]
      BY <1>3, <1>5, <3>1
    <3> QED BY <1>1, <2>2, <3>2 DEF Numbers
  <2> QED BY <2>1, <2>2
<1>10. /\ new[Len(r)] = Len(p[r[Len(r)].address].uops)
       /\ Trunc(next + p[next].size) = After(r[Len(r)])
  <2>1. /\ Len(r) \in 1 .. Len(q) + Len(f) /\ ~(Len(r) <= Len(q)) /\ Len(r) - Len(q) = Len(f)
        /\ Len(f) \in 1 .. Len(f)
    BY <1>2, <1>3
  <2>2. r[Len(r)] = f[Len(f)] /\ new[Len(r)] = Len(f)
    BY <1>3, <1>5, <2>1
  <2> QED BY <2>1, <2>2 DEF After
<1>11. Numbers(p, r, new, pc, done, Trunc(next + p[next].size))
  BY <1>6, <1>7, <1>8, <1>9, <1>10 DEF Numbers
<1>12. Flows(p, r, pc, done, Trunc(next + p[next].size))
  BY <1>4, <1>11 DEF Flows
<1> QED BY <1>12 DEF r

(* Taking the first micro-op away leaves the code that follows it. *)
LEMMA PopFlows ==
  ASSUME NEW p, NEW q \in Seq(Uop), NEW pc, NEW done \in Nat, NEW next,
         q # <<>>, Flows(p, q, pc, done, next)
  PROVE  LET last == done + 1 = Len(p[pc].uops)
         IN /\ IsAt(p, q[1], done + 1) /\ q[1].address = pc
            /\ Flows(p, Tail(q), IF last THEN After(q[1]) ELSE pc,
                     IF last THEN 0 ELSE done + 1, next)
<1>1. PICK idx \in [1 .. Len(q) -> Nat] : Numbers(p, q, idx, pc, done, next)
  BY DEF Flows
<1> DEFINE r == Tail(q)
           n == Len(p[pc].uops)
           last == done + 1 = n
           new == [i \in 1 .. Len(q) - 1 |-> idx[i + 1]]
           pc2 == IF last THEN After(q[1]) ELSE pc
           done2 == IF last THEN 0 ELSE done + 1
<1>2. Len(q) \in Nat /\ Len(q) > 0 /\ 1 \in 1 .. Len(q)
  BY EmptySeq
<1>3. Len(r) = Len(q) - 1 /\ \A i \in 1 .. Len(q) - 1 : r[i] = q[i + 1]
  BY HeadTailProperties
<1>4. r \in Seq(Uop) /\ new \in [1 .. Len(r) -> Nat]
  <2>1. \A i \in 1 .. Len(q) - 1 : i + 1 \in 1 .. Len(q)
    BY <1>2
  <2> QED BY <1>3, <2>1, HeadTailProperties
<1>5. \A i \in 1 .. Len(q) - 1 : new[i] = idx[i + 1]
  OBVIOUS
<1>6. q[1].address = pc /\ idx[1] = done + 1 /\ IsAt(p, q[1], done + 1)
  BY <1>1, <1>2 DEF Numbers
<1>7. done + 1 \in 1 .. n
  BY <1>6 DEF IsAt
<1> HIDE DEF r, new
<1>8. \A i \in 1 .. Len(r) : IsAt(p, r[i], new[i])
  <2>1. \A i \in 1 .. Len(r) : i + 1 \in 1 .. Len(q) /\ i \in 1 .. Len(q) - 1
    BY <1>2, <1>3
  <2> QED BY <1>1, <1>3, <1>5, <2>1 DEF Numbers
<1>9. \A i \in 1 .. Len(r) - 1 : Succeeds(p, r[i], new[i], r[i + 1], new[i + 1])
  <2> TAKE i \in 1 .. Len(r) - 1
  <2>1. i + 1 \in 1 .. Len(q) - 1 /\ i \in 1 .. Len(q) - 1
    BY <1>2, <1>3
  <2>2. Succeeds(p, q[i + 1], idx[i + 1], q[(i + 1) + 1], idx[(i + 1) + 1])
    BY <1>1, <2>1 DEF Numbers
  <2> QED BY <1>3, <1>5, <2>1, <2>2
<1>10. r = <<>> => next = pc2 /\ done2 = 0
  <2> SUFFICES ASSUME r = <<>> PROVE next = pc2 /\ done2 = 0
    OBVIOUS
  <2>1. Len(q) = 1
    BY <1>2, <1>3
  <2>2. idx[1] = Len(p[q[1].address].uops) /\ next = After(q[1])
    BY <1>1, <2>1 DEF Numbers
  <2> QED BY <1>6, <2>2
<1>11. r # <<>> => /\ r[1].address = pc2 /\ new[1] = done2 + 1
                   /\ new[Len(r)] = Len(p[r[Len(r)].address].uops)
                   /\ next = After(r[Len(r)])
  <2> SUFFICES ASSUME r # <<>>
               PROVE  /\ r[1].address = pc2 /\ new[1] = done2 + 1
                      /\ new[Len(r)] = Len(p[r[Len(r)].address].uops)
                      /\ next = After(r[Len(r)])
    OBVIOUS
  <2>1. Len(r) \in Nat /\ Len(r) > 0
    BY <1>4, EmptySeq
  <2>2. 1 \in 1 .. Len(q) - 1 /\ Len(r) \in 1 .. Len(q) - 1 /\ Len(r) + 1 = Len(q) /\ 1 + 1 = 2
    BY <1>2, <1>3, <2>1
  <2>3. r[1] = q[2] /\ new[1] = idx[2] /\ r[Len(r)] = q[Len(q)] /\ new[Len(r)] = idx[Len(q)]
    BY <1>3, <1>5, <2>2
  <2>4. Succeeds(p, q[1], idx[1], q[2], idx[2])
    BY <1>1, <2>2 DEF Numbers
  <2>5. idx[2] \in 1 .. Len(p[q[2].address].uops)
    BY <1>1, <1>2, <2>2 DEF Numbers, IsAt
  <2>6. r[1].address = pc2 /\ new[1] = done2 + 1
    <3>1. CASE q[2].address = pc /\ idx[2] = done + 2
      <4>1. ~last
        BY <1>7, <2>5, <3>1
      <4> QED BY <2>3, <3>1, <4>1
    <3>2. CASE q[2].address = After(q[1]) /\ last /\ idx[2] = 1
      BY <2>3, <3>2
    <3>3. \/ q[2].address = pc /\ idx[2] = (done + 1) + 1
          \/ q[2].address = After(q[1]) /\ last /\ idx[2] = 1
      BY <1>6, <2>4 DEF Succeeds
    <3> QED BY <3>1, <3>2, <3>3
  <2> QED BY <1>1, <2>3, <2>6 DEF Numbers
<1>12. Numbers(p, r, new, pc2, done2, next)
  BY <1>8, <1>9, <1>10, <1>11 DEF Numbers
<1>13. Flows(p, r, pc2, done2, next)
  BY <1>4, <1>12 DEF Flows
<1> QED BY <1>6, <1>13 DEF r

(* The last entry that opens an instruction, at or before entry i. *)
LEMMA BeginExists ==
  ASSUME NEW q, NEW i \in Nat \ {0}
  PROVE  /\ Begin(q, i) \in 1 .. i /\ Opens(q, Begin(q, i))
         /\ \A m \in Begin(q, i) + 1 .. i : ~Opens(q, m)
<1> DEFINE T == {d \in 0 .. i - 1 : Opens(q, i - d)}
<1>1. i - 1 \in T
  <2>1. i - (i - 1) = 1 /\ i - 1 \in 0 .. i - 1
    OBVIOUS
  <2>2. Opens(q, 1)
    BY DEF Opens
  <2>3. Opens(q, i - (i - 1))
    BY <2>1, <2>2
  <2> QED BY <2>1, <2>3
<1>2. T \subseteq Nat /\ T # {}
  <2>1. T \subseteq 0 .. i - 1
    BY Zenon
  <2>2. 0 .. i - 1 \subseteq Nat
    OBVIOUS
  <2>3. T # {}
    <3> HIDE DEF T
    <3> QED BY <1>1
  <2> HIDE DEF T
  <2> QED BY <2>1, <2>2, <2>3, Zenon
<1>3. PICK d \in T : \A e \in T : d <= e
  <2> HIDE DEF T
  <2> QED BY <1>2, LeastMember
<1>4. i - d \in 1 .. i /\ Opens(q, i - d) /\ d \in 0 .. i - 1
  BY <1>3
<1>5. \A m \in i - d + 1 .. i : ~Opens(q, m)
  <2> SUFFICES ASSUME NEW m \in i - d + 1 .. i, Opens(q, m) PROVE FALSE
    OBVIOUS
  <2>1. i - m \in 0 .. i - 1 /\ i - (i - m) = m /\ i - m < d
    BY <1>4
  <2>2. Opens(q, i - (i - m))
    BY <2>1
  <2>3. i - m \in T
    BY <2>1, <2>2
  <2>4. d <= i - m
    BY <1>3, <2>3
  <2> QED BY <1>4, <2>1, <2>4
<1> HIDE DEF T
<1>6. \E k \in 1 .. i : Opens(q, k) /\ \A m \in k + 1 .. i : ~Opens(q, m)
  BY <1>4, <1>5
<1> QED BY <1>6, Zenon DEF Begin

(* The numbering of the code is the one InFlight reads off the addresses. *)
LEMMA PlaceIsNumber ==
  ASSUME NEW p, IsProgram(p), NEW q \in Seq(Uop), NEW idx \in [1 .. Len(q) -> Nat],
         NEW pc, NEW next, arch_uops \in Nat,
         Numbers(p, q, idx, pc, arch_uops, next), NEW i \in 1 .. Len(q)
  PROVE  Place(q, i) = idx[i]
<1> DEFINE b == Begin(q, i)
           off == IF b = 1 THEN arch_uops ELSE 0
           T == {j \in b .. i : idx[j] # (j - b) + off + 1}
<1>1. Len(q) \in Nat /\ i \in Nat /\ i \in Nat \ {0} /\ i <= Len(q) /\ q # <<>>
  <2>1. Len(q) \in Nat
    BY EmptySeq
  <2>2. i \in Nat /\ i \in Nat \ {0} /\ i <= Len(q)
    BY <2>1
  <2> QED BY <2>1, <2>2
<1>2. b \in 1 .. i /\ Opens(q, b) /\ \A m \in b + 1 .. i : ~Opens(q, m)
  BY <1>1, BeginExists
<1>3. \A j \in 1 .. Len(q) : /\ q[j].address \in Word
                             /\ idx[j] \in Nat
                             /\ q[j].opsize \in 1 .. WordMod - 1
  <2> TAKE j \in 1 .. Len(q)
  <2>1. q[j] \in Uop /\ IsAt(p, q[j], idx[j])
    BY <1>1 DEF Numbers
  <2> QED BY <2>1 DEF Uop, IsAt, IsProgram
<1>4. off \in Nat
  OBVIOUS
<1>5. idx[b] = off + 1
  <2>1. CASE b = 1
    <3>1. idx[1] = arch_uops + 1
      BY <1>1 DEF Numbers
    <3> QED BY <2>1, <3>1
  <2>2. CASE b # 1
    <3>1. b - 1 \in 1 .. Len(q) - 1 /\ (b - 1) + 1 = b /\ b - 1 \in 1 .. Len(q)
      BY <1>1, <1>2, <2>2
    <3>2. Succeeds(p, q[b - 1], idx[b - 1], q[(b - 1) + 1], idx[(b - 1) + 1])
      BY <3>1 DEF Numbers
    <3>3. q[b].address # q[b - 1].address
      BY <1>2, <2>2 DEF Opens
    <3>4. idx[b] = 1
      BY <3>1, <3>2, <3>3 DEF Succeeds
    <3> QED BY <2>2, <3>4
  <2> QED BY <2>1, <2>2
<1> HIDE DEF b, off
<1>6. T = {}
  <2> SUFFICES ASSUME T # {} PROVE FALSE
    OBVIOUS
  <2>1. T \subseteq Nat
    BY <1>1, <1>2
  <2>2. PICK j \in T : \A k \in T : j <= k
    <3> HIDE DEF T
    <3> QED BY <2>1, LeastMember
  <2>3. j \in b .. i /\ idx[j] # (j - b) + off + 1 /\ j \in Nat
    BY <1>1, <1>2, <2>2
  <2>4. j # b
    BY <1>4, <1>5, <2>3
  <2>5. j \in b + 1 .. i /\ j - 1 \in b .. i /\ j - 1 \in 1 .. Len(q) - 1 /\ (j - 1) + 1 = j
        /\ j \in 1 .. Len(q) /\ j - 1 \in 1 .. Len(q) /\ j # 1
    BY <1>1, <1>2, <2>3, <2>4
  <2>6. j - 1 \notin T
    BY <2>2, <2>5
  <2>7. idx[j - 1] = ((j - 1) - b) + off + 1
    BY <2>5, <2>6
  <2>8. q[j].address = q[j - 1].address
    BY <1>2, <2>5 DEF Opens
  <2>9. Succeeds(p, q[j - 1], idx[j - 1], q[(j - 1) + 1], idx[(j - 1) + 1])
    BY <2>5 DEF Numbers
  <2>10. q[j].address # After(q[j - 1])
    BY <1>3, <2>5, <2>8, MovesOn DEF After
  <2>11. idx[j] = idx[j - 1] + 1
    BY <2>5, <2>9, <2>10 DEF Succeeds
  <2> QED BY <1>2, <1>4, <2>3, <2>7, <2>11
<1>7. i \in b .. i /\ i \notin T
  BY <1>1, <1>2, <1>6
<1>8. idx[i] = (i - b) + off + 1
  BY <1>7
<1> QED BY <1>8 DEF Place, b, off

(* The invariant InFlight, read off the numbering. *)
LEMMA FlowsInFlight ==
  ASSUME IsProgram(program), de_uop_queue \in Seq(Uop), dd_uop_queue \in Seq(Uop),
         arch_uops \in Nat,
         Flows(program, de_uop_queue \o dd_uop_queue, arch_pc, arch_uops, fetch_pc)
  PROVE  InFlight
<1> DEFINE q == de_uop_queue \o dd_uop_queue
<1>1. PICK idx \in [1 .. Len(q) -> Nat] :
        Numbers(program, q, idx, arch_pc, arch_uops, fetch_pc)
  BY DEF Flows
<1>2. q \in Seq(Uop)
  BY Joined
<1> HIDE DEF q
<1>3. Len(q) \in Nat
  BY <1>2, EmptySeq
<1>4. \A i \in 1 .. Len(q) : Place(q, i) = idx[i]
  BY <1>1, <1>2, PlaceIsNumber
<1>5. \A i \in 1 .. Len(q) : IsAt(program, q[i], idx[i])
  BY <1>1 DEF Numbers
<1>6. ASSUME NEW i \in 1 .. Len(q) - 1, Opens(q, i + 1)
      PROVE  q[i + 1].address = After(q[i]) /\ idx[i] = Len(program[q[i].address].uops)
  <2>1. Succeeds(program, q[i], idx[i], q[i + 1], idx[i + 1])
    BY <1>1 DEF Numbers
  <2>2. q[i + 1].address # q[i].address
    BY <1>3, <1>6 DEF Opens
  <2> QED BY <2>1, <2>2 DEF Succeeds
<1>7. q = <<>> => fetch_pc = arch_pc /\ arch_uops = 0
  BY <1>1 DEF Numbers
<1>8. q # <<>> => q[1].address = arch_pc /\ fetch_pc = Trunc(q[Len(q)].address + q[Len(q)].opsize)
  BY <1>1 DEF Numbers, After
<1>9. ASSUME NEW i \in 1 .. Len(q)
      PROVE  /\ Place(q, i) <= Len(program[q[i].address].uops)
             /\ q[i].opcode = program[q[i].address].uops[Place(q, i)].opcode
             /\ q[i].opsize = program[q[i].address].size
             /\ (i = Len(q) \/ Opens(q, i + 1)) => Place(q, i) = Len(program[q[i].address].uops)
             /\ Opens(q, i) /\ i > 1 =>
                  q[i].address = Trunc(q[i - 1].address + q[i - 1].opsize)
  <2>1. Place(q, i) = idx[i] /\ IsAt(program, q[i], idx[i])
    BY <1>4, <1>5
  <2>2. Place(q, i) <= Len(program[q[i].address].uops)
    <3>1. idx[i] \in 1 .. Len(program[q[i].address].uops) /\ idx[i] \in Nat
      BY <2>1 DEF IsAt
    <3>2. program[q[i].address].uops \in Seq(Template) \ {<<>>}
      BY <2>1 DEF IsAt, IsProgram
    <3> QED BY <2>1, <3>1, <3>2
  <2>3. i = Len(q) => idx[i] = Len(program[q[i].address].uops)
    <3>1. q # <<>>
      BY <1>2, <1>3
    <3> QED BY <1>1, <3>1 DEF Numbers
  <2>4. i # Len(q) => i \in 1 .. Len(q) - 1
    BY <1>3
  <2>5. (i = Len(q) \/ Opens(q, i + 1)) => idx[i] = Len(program[q[i].address].uops)
    BY <1>6, <2>3, <2>4
  <2>6. Opens(q, i) /\ i > 1 => q[i].address = After(q[i - 1])
    <3>1. i > 1 => i - 1 \in 1 .. Len(q) - 1 /\ (i - 1) + 1 = i
      BY <1>3
    <3> QED BY <1>6, <3>1
  <2> QED BY <2>1, <2>2, <2>5, <2>6 DEF IsAt, After
<1> QED BY <1>7, <1>8, <1>9 DEF InFlight, q

-----------------------------------------------------------------------------
(* No stage changes which micro-op an entry is. *)

SameUop(u, v) == v.address = u.address /\ v.opcode = u.opcode /\ v.opsize = u.opsize

(* Dispatch fills in operands and registers only. *)
LEMMA DispatchedSame ==
  ASSUME regfile \in RegFile, NEW u \in Uop
  PROVE  SameUop(u, Dispatched(u))
<1> DEFINE v == ReadOperands(u)
<1>1. SameUop(u, v) /\ DOMAIN v = DOMAIN u
  BY DEF ReadOperands, Uop, SameUop
<1> HIDE DEF v
<1>2. /\ ImpliedOperands(v).address = v.address
      /\ ImpliedOperands(v).opcode = v.opcode
      /\ ImpliedOperands(v).opsize = v.opsize
  <2>1. "address" \in DOMAIN v /\ "opcode" \in DOMAIN v /\ "opsize" \in DOMAIN v
    BY <1>1 DEF Uop
  <2> QED BY <2>1 DEF ImpliedOperands
<1> QED BY <1>1, <1>2 DEF SameUop, Dispatched, v

(* The patch loop and forwarding replace values only. *)
LEMMA ForwardedSame ==
  ASSUME NEW u \in Uop
  PROVE  SameUop(u, Forwarded(u)) /\ SameUop(u, PatchNewer(PatchOlder(u)))
<1>1. SameUop(u, Forwarded(u))
  BY DEF Forwarded, Uop, SameUop
<1>2. SameUop(u, PatchOlder(u)) /\ DOMAIN PatchOlder(u) = DOMAIN u
  BY DEF PatchOlder, Uop, SameUop
<1> DEFINE v == PatchOlder(u)
<1> HIDE DEF v
<1>3. "address" \in DOMAIN v /\ "opcode" \in DOMAIN v /\ "opsize" \in DOMAIN v
  BY <1>2 DEF Uop, v
<1>4. SameUop(v, PatchNewer(v))
  BY <1>3 DEF PatchNewer, SameUop
<1> QED BY <1>1, <1>2, <1>4 DEF SameUop, v

(* ... for every entry the loop of execute.cc reaches.                     *)
LEMMA PatchedSame ==
  ASSUME ex \in ExecuteMembers, NEW q \in Seq(Uop)
  PROVE  Alike(q, Patched(q))
<1>1. Len(Patched(q)) = Len(q)
  BY PatchedTyped
<1>2. ASSUME NEW i \in 1 .. Len(q) PROVE SameUop(q[i], Patched(q)[i])
  <2>1. q[i] \in Uop
    OBVIOUS
  <2>2. Patched(q)[i] = IF SameInstruction(q, i) THEN PatchNewer(PatchOlder(q[i])) ELSE q[i]
    BY DEF Patched
  <2>3. SameUop(q[i], PatchNewer(PatchOlder(q[i]))) /\ SameUop(q[i], q[i])
    BY <2>1, ForwardedSame DEF SameUop
  <2> QED BY <2>2, <2>3
<1> QED BY <1>1, <1>2 DEF Alike, SameUop

(* The switch of Execute leaves results and a destination. *)
LEMMA PerformedSame ==
  ASSUME NEW u \in Uop, NEW r
  PROVE  SameUop(u, Performed(u, r))
  BY DEF Performed, Uop, SameUop

(* Two queues in a row, the first without its head. *)
LEMMA PoppedAlike ==
  ASSUME NEW q \in Seq(Uop), NEW r \in Seq(Uop), NEW d \in Seq(Uop), q # <<>>,
         Len(r) = Len(q) - 1, \A i \in 1 .. Len(q) - 1 : SameUop(q[i + 1], r[i])
  PROVE  Alike(Tail(q \o d), r \o d) /\ q \o d # <<>> /\ (q \o d)[1] = q[1]
<1>1. Len(q) \in Nat /\ Len(q) > 0 /\ Len(d) \in Nat /\ Len(r) \in Nat
  BY EmptySeq
<1> DEFINE s == q \o d
           t == r \o d
<1>2. /\ s \in Seq(Uop) /\ Len(s) = Len(q) + Len(d)
      /\ \A i \in 1 .. Len(q) + Len(d) : s[i] = IF i <= Len(q) THEN q[i] ELSE d[i - Len(q)]
  BY Joined
<1>3. /\ t \in Seq(Uop) /\ Len(t) = Len(r) + Len(d)
      /\ \A i \in 1 .. Len(r) + Len(d) : t[i] = IF i <= Len(r) THEN r[i] ELSE d[i - Len(r)]
  BY Joined
<1> HIDE DEF s, t
<1>4. s # <<>> /\ s[1] = q[1]
  <2>1. 1 \in 1 .. Len(q) + Len(d) /\ 1 <= Len(q)
    BY <1>1
  <2>2. Len(s) # 0
    BY <1>1, <1>2
  <2> QED BY <1>2, <2>1, <2>2
<1>5. Len(Tail(s)) = Len(s) - 1 /\ \A i \in 1 .. Len(s) - 1 : Tail(s)[i] = s[i + 1]
  BY <1>2, <1>4, HeadTailProperties
<1>6. Len(t) = Len(Tail(s))
  BY <1>1, <1>2, <1>3, <1>5
<1>7. ASSUME NEW i \in 1 .. Len(Tail(s)) PROVE SameUop(Tail(s)[i], t[i])
  <2>1. /\ i \in 1 .. Len(s) - 1 /\ i + 1 \in 1 .. Len(q) + Len(d) /\ i \in 1 .. Len(r) + Len(d)
        /\ i <= Len(r) <=> i + 1 <= Len(q)
        /\ i - Len(r) = i + 1 - Len(q)
        /\ i <= Len(r) => i \in 1 .. Len(q) - 1
    BY <1>1, <1>2, <1>5
  <2>2. /\ Tail(s)[i] = IF i + 1 <= Len(q) THEN q[i + 1] ELSE d[i + 1 - Len(q)]
        /\ t[i] = IF i <= Len(r) THEN r[i] ELSE d[i - Len(r)]
    BY <1>2, <1>3, <1>5, <2>1
  <2> QED BY <2>1, <2>2 DEF SameUop
<1>8. Alike(Tail(s), t)
  BY <1>6, <1>7 DEF Alike, SameUop
<1> QED BY <1>4, <1>8 DEF s, t

(* Two queues in a row, the first replaced entry by entry. *)
LEMMA ReplacedAlike ==
  ASSUME NEW q \in Seq(Uop), NEW r \in Seq(Uop), NEW d \in Seq(Uop), Alike(q, r)
  PROVE  Alike(q \o d, r \o d)
<1>1. Len(q) \in Nat /\ Len(d) \in Nat /\ Len(r) = Len(q)
  BY EmptySeq DEF Alike
<1> DEFINE s == q \o d
           t == r \o d
<1>2. /\ s \in Seq(Uop) /\ Len(s) = Len(q) + Len(d)
      /\ \A i \in 1 .. Len(q) + Len(d) : s[i] = IF i <= Len(q) THEN q[i] ELSE d[i - Len(q)]
  BY Joined
<1>3. /\ t \in Seq(Uop) /\ Len(t) = Len(q) + Len(d)
      /\ \A i \in 1 .. Len(q) + Len(d) : t[i] = IF i <= Len(q) THEN r[i] ELSE d[i - Len(q)]
  <2>1. /\ t \in Seq(Uop) /\ Len(t) = Len(r) + Len(d)
        /\ \A i \in 1 .. Len(r) + Len(d) : t[i] = IF i <= Len(r) THEN r[i] ELSE d[i - Len(r)]
    BY Joined
  <2> HIDE DEF t
  <2> QED BY <1>1, <2>1
<1> HIDE DEF s, t
<1>4. ASSUME NEW i \in 1 .. Len(s) PROVE SameUop(s[i], t[i])
  <2>1. i \in 1 .. Len(q) + Len(d) /\ (i <= Len(q) => i \in 1 .. Len(q))
    BY <1>1, <1>2
  <2> QED BY <1>2, <1>3, <2>1 DEF Alike, SameUop
<1>5. Alike(s, t)
  BY <1>2, <1>3, <1>4 DEF Alike, SameUop
<1> QED BY <1>5 DEF s, t

(* A batch moved by Dispatch: the two queues in a row hold what the decode  *)
(* queue held.                                                             *)
LEMMA MovedAlike ==
  ASSUME regfile \in RegFile, NEW d \in Seq(Uop), NEW n \in 1 .. Len(d)
  PROVE  Alike(d, [i \in 1 .. n |-> Dispatched(d[i])] \o SubSeq(d, n + 1, Len(d)))
<1> DEFINE r == [i \in 1 .. n |-> Dispatched(d[i])]
           e == SubSeq(d, n + 1, Len(d))
           t == r \o e
<1>1. Len(d) \in Nat /\ n \in Nat /\ n <= Len(d) /\ n >= 1
  <2>1. Len(d) \in Nat
    BY EmptySeq
  <2> QED BY <2>1
<1>2. \A i \in 1 .. n : i \in 1 .. Len(d) /\ d[i] \in Uop /\ Dispatched(d[i]) \in Uop
  <2>1. \A i \in 1 .. n : i \in 1 .. Len(d) /\ d[i] \in Uop
    BY <1>1
  <2> QED BY <2>1, DispatchedTyped
<1>3. r \in Seq(Uop) /\ Len(r) = n /\ \A i \in 1 .. n : r[i] = Dispatched(d[i])
  BY <1>1, <1>2
<1>4. /\ e \in Seq(Uop) /\ Len(e) = Len(d) - n
      /\ \A i \in 1 .. Len(d) - n : e[i] = d[n + i]
  BY <1>1
<1> HIDE DEF r, e
<1>5. /\ t \in Seq(Uop) /\ Len(t) = Len(r) + Len(e)
      /\ \A i \in 1 .. Len(r) + Len(e) : t[i] = IF i <= Len(r) THEN r[i] ELSE e[i - Len(r)]
  BY <1>3, <1>4, Joined
<1> HIDE DEF t
<1>6. Len(t) = Len(d)
  BY <1>1, <1>3, <1>4, <1>5
<1>7. ASSUME NEW i \in 1 .. Len(d) PROVE SameUop(d[i], t[i])
  <2>1. i \in 1 .. Len(r) + Len(e) /\ i \in Nat
    BY <1>1, <1>3, <1>4
  <2>2. CASE i <= n
    <3>1. i \in 1 .. n /\ t[i] = Dispatched(d[i])
      BY <1>3, <1>5, <2>1, <2>2
    <3>2. d[i] \in Uop
      BY <1>2, <3>1
    <3> QED BY <3>1, <3>2, DispatchedSame
  <2>3. CASE ~(i <= n)
    <3>1. i - n \in 1 .. Len(d) - n /\ n + (i - n) = i
      BY <1>1, <2>3
    <3>2. t[i] = e[i - n] /\ e[i - n] = d[n + (i - n)]
      BY <1>3, <1>4, <1>5, <2>1, <2>3, <3>1
    <3> QED BY <3>1, <3>2 DEF SameUop
  <2> QED BY <2>2, <2>3
<1>8. Alike(d, t)
  BY <1>6, <1>7 DEF Alike, SameUop
<1> QED BY <1>8 DEF t, r, e

-----------------------------------------------------------------------------
(* What a call of Execute writes to the redirect signals and to its address *)
(* registers.                                                              *)

(* A jump that is taken drives change_RIP, clear and new_RIP together.     *)
LEMMA DrivenRedirect ==
  ASSUME nxt \in Signals, NEW op
  PROVE  /\ Driven(op).change_RIP <=> Redirects(op)
         /\ Driven(op).clear <=> (Redirects(op) \/ nxt.clear)
         /\ Redirects(op) => Driven(op).new_RIP = Target(op)
<1> DEFINE w == IF op.opcode \in Writes
                THEN [Quiet(TRUE) EXCEPT
                        !.d_op   = "WRITE",
                        !.d_addr = IF op.opcode = "store" THEN op.value2 ELSE op.value3,
                        !.d_dout = WriteData(op)]
                ELSE Quiet(TRUE)
<1>1. /\ w.change_RIP = FALSE /\ w.clear = nxt.clear
      /\ "change_RIP" \in DOMAIN w /\ "clear" \in DOMAIN w /\ "new_RIP" \in DOMAIN w
  BY DEF Quiet, Signals
<1> HIDE DEF w
<1>2. Driven(op) = IF Redirects(op)
                   THEN [w EXCEPT !.clear = TRUE, !.change_RIP = TRUE, !.new_RIP = Target(op)]
                   ELSE w
  BY DEF Driven, w
<1> QED BY <1>1, <1>2

(* The address registers of Execute. *)
SameAddresses(e, f) ==
  /\ f.expected_addr = e.expected_addr /\ f.prev_addr = e.prev_addr
  /\ f.firstrun = e.firstrun /\ f.rip_changed = e.rip_changed /\ f.state = e.state

(* What forwarding remembers (prev_reg1, prev_value1, ...) leaves the       *)
(* addresses alone.                                                        *)
LEMMA RememberedAddresses ==
  ASSUME NEW e \in ExecuteMembers, NEW r, NEW v
  PROVE  SameAddresses(e, Remember(e, r, v))
  BY DEF SameAddresses, Remember, ExecuteMembers

(* So do the results of a micro-op performed.                              *)
LEMMA NotedAddresses ==
  ASSUME NEW e \in ExecuteMembers, NEW op \in Uop
  PROVE  SameAddresses(e, Noted(e, op))
<1> DEFINE f == IF op.opcode \notin {"nop", "syscall"} /\ op.reg2 # "none"
                THEN Remember(e, op.reg2, op.value2) ELSE e
<1>1. SameAddresses(e, f) /\ DOMAIN f = DOMAIN e
  <2>1. SameAddresses(e, e)
    BY DEF SameAddresses
  <2>2. DOMAIN Remember(e, op.reg2, op.value2) = DOMAIN e
    BY DEF Remember
  <2> QED BY <2>1, <2>2, RememberedAddresses
<1> HIDE DEF f
<1>2. \E v, w : Noted(e, op) = [f EXCEPT !.stackpointer = v, !.offsetreg = w]
  BY DEF Noted, f
<1>3. PICK v, w : Noted(e, op) = [f EXCEPT !.stackpointer = v, !.offsetreg = w]
  BY <1>2
<1>4. /\ "expected_addr" \in DOMAIN f /\ "prev_addr" \in DOMAIN f /\ "firstrun" \in DOMAIN f
      /\ "rip_changed" \in DOMAIN f /\ "state" \in DOMAIN f
  BY <1>1 DEF ExecuteMembers
<1>5. SameAddresses(f, Noted(e, op))
  BY <1>3, <1>4 DEF SameAddresses
<1> QED BY <1>1, <1>5 DEF SameAddresses

(* The end of Execute::work moves the addresses on (execute.cc:774-791).   *)
LEMMA AdvancedAddresses ==
  ASSUME NEW e \in ExecuteMembers, NEW op, ~e.rip_changed
  PROVE  LET f == Advanced(e, op)
         IN /\ f.expected_addr = IF Redirects(op) THEN Target(op) ELSE After(op)
            /\ f.prev_addr = IF Redirects(op) THEN e.prev_addr ELSE op.address
            /\ ~f.rip_changed /\ f.firstrun = e.firstrun /\ f.state = e.state
<1> QED BY DEF Advanced, ExecuteMembers, After

-----------------------------------------------------------------------------
(* The inductive invariant.  While a redirect is on its way the queues hold *)
(* anything and only the history says where the program goes on; as soon as*)
(* it has arrived they hold the program again, from there.                 *)

(* A flush and the redirect of the front end go together. *)
RedirectSignals ==
  halted = "no" => /\ sig.change_RIP <=> sig.clear
                   /\ nxt.change_RIP <=> nxt.clear

Course ==
  halted = "no" =>
    /\ nxt.clear /\ ~sig.clear => arch_pc = nxt.new_RIP /\ arch_uops = 0
    /\ sig.clear => /\ arch_pc = sig.new_RIP /\ arch_uops = 0
                    /\ "frontend" \in ran => fetch_pc = sig.new_RIP
    /\ ~sig.clear /\ ~nxt.clear =>
         Flows(program, de_uop_queue \o dd_uop_queue, arch_pc, arch_uops, fetch_pc)

(* What Execute expects next is what is next: within an instruction by the  *)
(* address of the micro-op before, between two by expected_addr.           *)
Addresses ==
  halted = "no" =>
    /\ ~ex.rip_changed
    /\ arch_uops > 0 => ex.prev_addr = arch_pc /\ ~ex.firstrun
    /\ arch_uops = 0 /\ ex.state = "NORMAL" => ex.firstrun \/ ex.expected_addr = arch_pc
    /\ ex.state = "READ" => SameUop(Head(de_uop_queue), ex.Op) /\ ex.Op.opcode \in Reads

FlightInv == RedirectSignals /\ Course /\ Addresses

(* The shape crack_opcodes gives an instruction, read at one micro-op. *)
LEMMA ShapeAt ==
  ASSUME NEW p, IsProgram(p), NEW u, NEW k, IsAt(p, u, k)
  PROVE  /\ u.opcode \in Jumps \cup {"call", "ret", "pop"} => k = Len(p[u.address].uops)
         /\ u.opcode = "load" => k # 1 /\ k # Len(p[u.address].uops)
<1> DEFINE uops == p[u.address].uops
<1>1. WellCracked(uops) /\ uops \in Seq(Template)
  BY DEF IsAt, IsProgram
<1>2. k \in 1 .. Len(uops) /\ u.opcode = uops[k].opcode
  BY DEF IsAt
<1> HIDE DEF uops
<1>3. Len(uops) \in Nat
  BY <1>1, EmptySeq
<1>4. k # Len(uops) => k \in 1 .. Len(uops) - 1
  BY <1>2, <1>3
<1>5. /\ u.opcode \in Jumps \cup {"call", "ret", "pop"} => k = Len(uops)
      /\ u.opcode = "load" => k # 1 /\ k # Len(uops)
  BY <1>1, <1>2, <1>4 DEF WellCracked
<1> QED BY <1>5 DEF uops

(* The micro-op Execute is about to start is the next of the program. *)
LEMMA HeadIsNext ==
  ASSUME IInv, FlightInv, halted = "no", ~sig.clear, ~nxt.clear, de_uop_queue # <<>>
  PROVE  /\ de_uop_queue[1].address = arch_pc
         /\ IsAt(program, de_uop_queue[1], arch_uops + 1)
         /\ Head(de_uop_queue) = de_uop_queue[1] /\ de_uop_queue[1] \in Uop
<1> DEFINE q == de_uop_queue \o dd_uop_queue
<1>1. de_uop_queue \in Seq(Uop) /\ dd_uop_queue \in Seq(Uop) /\ arch_uops \in Nat
  BY DEF IInv, TypeOK, CommonTypeOK
<1>2. Len(de_uop_queue) \in Nat /\ Len(de_uop_queue) > 0 /\ Len(dd_uop_queue) \in Nat
  BY <1>1, EmptySeq
<1>3. q \in Seq(Uop) /\ q # <<>> /\ q[1] = de_uop_queue[1]
  <2>1. /\ q \in Seq(Uop) /\ Len(q) = Len(de_uop_queue) + Len(dd_uop_queue)
        /\ \A i \in 1 .. Len(de_uop_queue) + Len(dd_uop_queue) :
             q[i] = IF i <= Len(de_uop_queue) THEN de_uop_queue[i]
                    ELSE dd_uop_queue[i - Len(de_uop_queue)]
    BY <1>1, Joined
  <2> HIDE DEF q
  <2>2. 1 \in 1 .. Len(de_uop_queue) + Len(dd_uop_queue) /\ 1 <= Len(de_uop_queue) /\ Len(q) # 0
    BY <1>2, <2>1
  <2> QED BY <2>1, <2>2
<1> HIDE DEF q
<1>4. Flows(program, q, arch_pc, arch_uops, fetch_pc)
  BY DEF FlightInv, Course, q
<1>5. q[1].address = arch_pc /\ IsAt(program, q[1], arch_uops + 1)
  BY <1>1, <1>3, <1>4, PopFlows
<1>6. Head(de_uop_queue) = de_uop_queue[1] /\ de_uop_queue[1] \in Uop
  BY <1>1, <1>2
<1> QED BY <1>3, <1>5, <1>6

(* ... so the address check lets it pass. *)
LEMMA HeadExpected ==
  ASSUME IInv, FlightInv, MayRun("execute"), CanStart
  PROVE  ~Unexpected /\ Front.address = arch_pc
<1>1. halted = "no" /\ ~sig.clear /\ ~nxt.clear /\ de_uop_queue # <<>> /\ ex.state = "NORMAL"
  BY DEF MayRun, CanStart, IInv, ClearPhase
<1>2. de_uop_queue[1].address = arch_pc /\ Head(de_uop_queue) = de_uop_queue[1]
      /\ de_uop_queue[1] \in Uop
  BY <1>1, HeadIsNext
<1>3. Front.address = arch_pc
  BY <1>2, ForwardedSame DEF Front, SameUop
<1>4. arch_uops \in Nat
  BY DEF IInv, TypeOK
<1>5. ex.prev_addr = arch_pc \/ ex.firstrun \/ ex.expected_addr = arch_pc
  BY <1>1, <1>4 DEF FlightInv, Addresses
<1> QED BY <1>3, <1>5 DEF Unexpected, Expected

-----------------------------------------------------------------------------
(* Each step of Execute keeps the invariant. *)

(* A completed micro-op moves the history and the queues on together. *)
LEMMA CompletionCourse ==
  ASSUME IInv, FlightInv, RunExecute, ~sig.clear, de_uop_queue # <<>>,
         NEW op \in Uop, SameUop(de_uop_queue[1], op), ew_uop_queue' = Append(ew_uop_queue, op),
         de_uop_queue' \in Seq(Uop), Len(de_uop_queue') = Len(de_uop_queue) - 1,
         \A i \in 1 .. Len(de_uop_queue) - 1 : SameUop(de_uop_queue[i + 1], de_uop_queue'[i])
  PROVE  LET last == arch_uops + 1 = Len(program[arch_pc].uops)
         IN /\ op.address = arch_pc /\ IsAt(program, op, arch_uops + 1)
            /\ arch_uops' = IF last THEN 0 ELSE arch_uops + 1
            /\ arch_pc' = IF ~last THEN arch_pc
                          ELSE IF nxt'.change_RIP THEN nxt'.new_RIP ELSE After(op)
            /\ ~last \/ ~nxt'.change_RIP =>
                 Flows(program', de_uop_queue' \o dd_uop_queue', arch_pc', arch_uops', fetch_pc')
<1> DEFINE q == de_uop_queue \o dd_uop_queue
           r == de_uop_queue' \o dd_uop_queue
           last == arch_uops + 1 = Len(program[arch_pc].uops)
<1>1. /\ halted = "no" /\ ~nxt.clear /\ UNCHANGED <<program, fetch_pc, dd_uop_queue>>
  BY DEF RunExecute, Runs, MayRun, ExecuteWork, IInv, ClearPhase
<1>2. /\ de_uop_queue \in Seq(Uop) /\ dd_uop_queue \in Seq(Uop) /\ ew_uop_queue \in Seq(Uop)
      /\ arch_uops \in Nat
  BY DEF IInv, TypeOK, CommonTypeOK
<1>3. de_uop_queue[1].address = arch_pc /\ IsAt(program, de_uop_queue[1], arch_uops + 1)
  BY <1>1, HeadIsNext
<1>4. op.address = arch_pc /\ IsAt(program, op, arch_uops + 1) /\ After(op) = After(de_uop_queue[1])
  BY <1>3 DEF SameUop, IsAt, After
<1>5. Completed /\ ew_uop_queue'[Len(ew_uop_queue')] = op
  BY <1>2, AppendProperties DEF Completed
<1>6. /\ arch_uops' = IF last THEN 0 ELSE arch_uops + 1
      /\ arch_pc' = IF ~last THEN arch_pc
                    ELSE IF nxt'.change_RIP THEN nxt'.new_RIP ELSE After(op)
  BY <1>4, <1>5 DEF RunExecute, Record, After
<1>7. Alike(Tail(q), r) /\ q # <<>> /\ q[1] = de_uop_queue[1]
  BY <1>2, PoppedAlike
<1>8. q \in Seq(Uop) /\ r \in Seq(Uop)
  BY <1>2, Joined
<1>9. Flows(program, q, arch_pc, arch_uops, fetch_pc)
  BY <1>1 DEF FlightInv, Course
<1> HIDE DEF q, r
<1>10. Tail(q) \in Seq(Uop)
  BY <1>7, <1>8, HeadTailProperties
<1>11. Flows(program, Tail(q), IF last THEN After(q[1]) ELSE arch_pc,
             IF last THEN 0 ELSE arch_uops + 1, fetch_pc)
  BY <1>2, <1>7, <1>8, <1>9, PopFlows
<1>12. Flows(program, r, IF last THEN After(q[1]) ELSE arch_pc,
             IF last THEN 0 ELSE arch_uops + 1, fetch_pc)
  BY <1>7, <1>8, <1>10, <1>11, AlikeFlows
<1>13. ~last \/ ~nxt'.change_RIP => Flows(program', r, arch_pc', arch_uops', fetch_pc')
  <2>1. CASE ~last
    <3>1. arch_pc' = arch_pc /\ arch_uops' = arch_uops + 1
      BY <1>6, <2>1
    <3>2. Flows(program, r, arch_pc, arch_uops + 1, fetch_pc)
      BY <1>12, <2>1
    <3> QED BY <1>1, <3>1, <3>2
  <2>2. CASE last
    <3>1. ~nxt'.change_RIP => arch_pc' = After(op) /\ arch_uops' = 0
      BY <1>6, <2>2
    <3>2. Flows(program, r, After(q[1]), 0, fetch_pc)
      BY <1>12, <2>2
    <3> QED BY <1>1, <1>4, <1>7, <2>2, <3>1, <3>2
  <2> QED BY <2>1, <2>2
<1> QED BY <1>1, <1>4, <1>6, <1>13 DEF r

(* The tail of the queue, after the patch loop or not. *)
LEMMA TailSame ==
  ASSUME ex \in ExecuteMembers, NEW q \in Seq(Uop), q # <<>>, NEW r,
         r = Tail(q) \/ r = Tail(Patched(q))
  PROVE  /\ r \in Seq(Uop) /\ Len(r) = Len(q) - 1
         /\ \A i \in 1 .. Len(q) - 1 : SameUop(q[i + 1], r[i])
<1>1. Len(q) \in Nat /\ Len(q) > 0
  BY EmptySeq
<1>2. CASE r = Tail(q)
  <2>1. /\ r \in Seq(Uop) /\ Len(r) = Len(q) - 1
        /\ \A i \in 1 .. Len(q) - 1 : r[i] = q[i + 1]
    BY <1>2, HeadTailProperties
  <2> QED BY <2>1 DEF SameUop
<1>3. CASE r = Tail(Patched(q))
  <2> DEFINE p == Patched(q)
  <2>1. p \in Seq(Uop) /\ Len(p) = Len(q) /\ Alike(q, p)
    BY PatchedTyped, PatchedSame
  <2> HIDE DEF p
  <2>2. p # <<>>
    BY <1>1, <2>1
  <2>3. /\ Tail(p) \in Seq(Uop) /\ Len(Tail(p)) = Len(p) - 1
        /\ \A i \in 1 .. Len(p) - 1 : Tail(p)[i] = p[i + 1]
    BY <2>1, <2>2, HeadTailProperties
  <2>4. \A i \in 1 .. Len(q) - 1 : i + 1 \in 1 .. Len(q)
    BY <1>1
  <2>5. \A i \in 1 .. Len(q) - 1 : SameUop(q[i + 1], p[i + 1])
    BY <2>1, <2>4 DEF Alike, SameUop
  <2>6. r = Tail(p)
    BY <1>3 DEF p
  <2> QED BY <2>1, <2>3, <2>5, <2>6
<1> QED BY <1>2, <1>3

(* Calls that start nothing. *)
LEMMA WaitingFlight ==
  ASSUME IInv, FlightInv, RunExecute, ClearStage \/ AwaitData \/ Blocked
  PROVE  FlightInv'
<1>1. /\ halted = "no" /\ "execute" \notin ran /\ nxt.clear = sig.clear
      /\ nxt \in Signals /\ ew_uop_queue \in Seq(Uop) /\ ran' = ran \cup {"execute"}
      /\ UNCHANGED <<program, fetch_pc, dd_uop_queue, sig>>
  BY DEF RunExecute, Runs, MayRun, ExecuteWork, IInv, ClearPhase, TypeOK, CommonTypeOK
<1>2. UNCHANGED <<ew_uop_queue, ex, halted>>
  BY DEF ClearStage, AwaitData, Blocked, host
<1>3. UNCHANGED <<arch_pc, arch_uops>>
  <2>1. ~Completed
    BY <1>1, <1>2 DEF Completed
  <2> QED BY <2>1 DEF RunExecute, Record
<1> DEFINE full == sig.de_ready /\ Len(ew_uop_queue) > 1
<1>4. CASE ClearStage
  <2>1. sig.clear /\ nxt' = [Quiet(full) EXCEPT !.clear = FALSE]
    BY <1>4 DEF ClearStage
  <2> HIDE DEF full
  <2>2. nxt'.clear = FALSE /\ nxt'.change_RIP = FALSE
    BY <1>1, <2>1 DEF Quiet, Signals
  <2>3. ex.state # "READ"
    BY <2>1 DEF IInv, ReadPending
  <2>4. RedirectSignals'
    BY <1>1, <1>2, <2>2 DEF RedirectSignals, FlightInv
  <2>5. Course'
    BY <1>1, <1>2, <1>3, <2>1 DEF FlightInv, Course
  <2>6. Addresses'
    BY <1>1, <1>2, <1>3, <2>3 DEF FlightInv, Addresses
  <2> QED BY <2>4, <2>5, <2>6 DEF FlightInv
<1>5. CASE AwaitData \/ Blocked
  <2>1. ~sig.clear /\ de_uop_queue' = de_uop_queue /\ (nxt' = Quiet(FALSE) \/ nxt' = Quiet(full))
    BY <1>5 DEF AwaitData, Blocked
  <2> HIDE DEF full
  <2>2. nxt'.clear = nxt.clear /\ nxt'.change_RIP = FALSE
    BY <1>1, <2>1 DEF Quiet, Signals
  <2>3. RedirectSignals'
    BY <1>1, <1>2, <2>1, <2>2 DEF RedirectSignals, FlightInv
  <2>4. Course'
    BY <1>1, <1>2, <1>3, <2>1, <2>2 DEF FlightInv, Course
  <2>5. Addresses'
    BY <1>1, <1>2, <1>3, <2>1 DEF FlightInv, Addresses
  <2> QED BY <2>3, <2>4, <2>5 DEF FlightInv
<1> QED BY <1>4, <1>5

(* Issuing a read. *)
LEMMA IssueReadFlight ==
  ASSUME IInv, FlightInv, RunExecute, IssueRead
  PROVE  FlightInv'
<1>1. /\ halted = "no" /\ "execute" \notin ran /\ ~sig.clear /\ ~nxt.clear
      /\ de_uop_queue # <<>> /\ ex.state = "NORMAL" /\ ~Unexpected /\ MayRun("execute") /\ CanStart
      /\ nxt \in Signals /\ ex \in ExecuteMembers /\ CommonTypeOK /\ arch_uops \in Nat
      /\ UNCHANGED <<program, fetch_pc, dd_uop_queue, sig, ew_uop_queue, halted>>
      /\ de_uop_queue \in Seq(Uop) /\ dd_uop_queue \in Seq(Uop) /\ ew_uop_queue \in Seq(Uop)
  BY DEF RunExecute, Runs, MayRun, ExecuteWork, IInv, ClearPhase, TypeOK, CommonTypeOK,
         IssueRead, CanStart, host
<1>2. UNCHANGED <<arch_pc, arch_uops>>
  <2>1. ~Completed
    BY <1>1 DEF Completed
  <2> QED BY <2>1 DEF RunExecute, Record
<1>3. nxt'.clear = nxt.clear /\ nxt'.change_RIP = FALSE
  BY <1>1 DEF IssueRead, Quiet, Signals
<1>4. de_uop_queue' = Patched(de_uop_queue) /\ ex' = [Started EXCEPT !.state = "READ", !.Op = Front]
      /\ Front.opcode \in Reads
  BY DEF IssueRead
<1>5. Alike(de_uop_queue, Patched(de_uop_queue)) /\ Patched(de_uop_queue) \in Seq(Uop)
  BY <1>1, PatchedSame, PatchedTyped
<1>6. RedirectSignals'
  BY <1>1, <1>3 DEF RedirectSignals, FlightInv
<1>7. Course'
  <2>1. Flows(program, de_uop_queue \o dd_uop_queue, arch_pc, arch_uops, fetch_pc)
    BY <1>1 DEF FlightInv, Course
  <2>2. Alike(de_uop_queue \o dd_uop_queue, Patched(de_uop_queue) \o dd_uop_queue)
    BY <1>1, <1>5, ReplacedAlike
  <2>3. /\ de_uop_queue \o dd_uop_queue \in Seq(Uop)
        /\ Patched(de_uop_queue) \o dd_uop_queue \in Seq(Uop)
    BY <1>1, <1>5, Joined
  <2>4. Flows(program, Patched(de_uop_queue) \o dd_uop_queue, arch_pc, arch_uops, fetch_pc)
    BY <2>1, <2>2, <2>3, AlikeFlows
  <2> QED BY <1>1, <1>2, <1>3, <1>4, <2>4 DEF Course
<1>8. Addresses'
  <2>1. /\ de_uop_queue[1].address = arch_pc /\ Head(de_uop_queue) = de_uop_queue[1]
        /\ de_uop_queue[1] \in Uop
    BY <1>1, HeadIsNext
  <2>2. SameUop(de_uop_queue[1], Front) /\ Front.address = arch_pc
    BY <2>1, ForwardedSame DEF Front, SameUop
  <2>3. /\ Started \in ExecuteMembers /\ Started.firstrun = FALSE
        /\ Started.expected_addr = Expected(Front) /\ Started.prev_addr = ex.prev_addr
        /\ Started.rip_changed = ex.rip_changed
    <3>1. Started \in ExecuteMembers
      BY <1>1, FrontTyped
    <3> QED BY <1>1, <3>1 DEF Started, ExecuteMembers
  <2>4. /\ ex'.state = "READ" /\ ex'.Op = Front /\ ex'.firstrun = FALSE
        /\ ex'.prev_addr = ex.prev_addr /\ ex'.rip_changed = ex.rip_changed
    <3> DEFINE e == Started
    <3>1. /\ e \in ExecuteMembers /\ e.firstrun = FALSE
          /\ e.prev_addr = ex.prev_addr /\ e.rip_changed = ex.rip_changed
          /\ ex' = [e EXCEPT !.state = "READ", !.Op = Front]
      BY <1>4, <2>3
    <3> HIDE DEF e
    <3> QED BY <3>1 DEF ExecuteMembers
  <2>5. Head(Patched(de_uop_queue)) = Patched(de_uop_queue)[1]
        /\ SameUop(de_uop_queue[1], Patched(de_uop_queue)[1])
    <3>1. Len(de_uop_queue) \in Nat /\ Len(de_uop_queue) > 0
      BY <1>1, EmptySeq
    <3>2. 1 \in 1 .. Len(de_uop_queue)
      BY <3>1
    <3> QED BY <1>5, <3>2 DEF Alike, SameUop
  <2>6. SameUop(Head(de_uop_queue'), ex'.Op) /\ ex'.Op.opcode \in Reads
    BY <1>4, <2>2, <2>4, <2>5 DEF SameUop
  <2> QED BY <1>1, <1>2, <2>4, <2>6 DEF FlightInv, Addresses
<1> QED BY <1>6, <1>7, <1>8 DEF FlightInv

(* Completing a read: a load is followed by more of its instruction, pop and*)
(* ret end theirs.                                                         *)
LEMMA CompleteReadFlight ==
  ASSUME IInv, FlightInv, RunExecute, CompleteRead
  PROVE  FlightInv'
<1> DEFINE u == ex.Op
           popped == Trunc(u.value3 + SlotSize)
           idle == [ex EXCEPT !.state = "NORMAL", !.Op = NoUop]
           last == arch_uops + 1 = Len(program[arch_pc].uops)
<1>1. /\ halted = "no" /\ "execute" \notin ran /\ ~sig.clear /\ ~nxt.clear
      /\ ex.state = "READ" /\ de_uop_queue # <<>> /\ de_uop_queue' = Tail(de_uop_queue)
      /\ nxt \in Signals /\ ex \in ExecuteMembers /\ arch_uops \in Nat /\ IsProgram(program)
      /\ UNCHANGED <<program, fetch_pc, dd_uop_queue, sig, halted>>
      /\ de_uop_queue \in Seq(Uop) /\ ew_uop_queue \in Seq(Uop)
      /\ sig.d_data \in Word
  <2>1. /\ halted = "no" /\ "execute" \notin ran /\ ~sig.clear /\ ~nxt.clear
        /\ ex.state = "READ" /\ de_uop_queue # <<>> /\ de_uop_queue' = Tail(de_uop_queue)
        /\ UNCHANGED <<program, fetch_pc, dd_uop_queue, sig, halted>>
    BY DEF RunExecute, Runs, MayRun, ExecuteWork, IInv, ClearPhase, ReadPending,
           CompleteRead, Complete, host
  <2> QED BY <2>1 DEF IInv, TypeOK, CommonTypeOK, Signals
<1>2. u \in Uop /\ u.value3 \in Word /\ u.reg2 \in Reg
  BY <1>1 DEF ExecuteMembers, Uop
<1>3. popped \in Word
  <2>1. u.value3 + SlotSize \in Int
    BY <1>2, SlotAssumption DEF Word
  <2> QED BY <2>1, TruncWord
<1>4. SameUop(de_uop_queue[1], u)
  <2>1. Head(de_uop_queue) = de_uop_queue[1]
    BY <1>1
  <2> QED BY <1>1, <2>1 DEF FlightInv, Addresses
<1>5. idle \in ExecuteMembers /\ idle.state = "NORMAL" /\ SameAddresses([ex EXCEPT !.state = "NORMAL"], idle)
  <2>1. NoUop \in Uop
    BY WordConstants DEF NoUop, Uop, Opcode, SrcType, Reg
  <2> QED BY <1>1, <2>1 DEF ExecuteMembers, SameAddresses
<1>6. /\ idle.expected_addr = ex.expected_addr /\ idle.prev_addr = ex.prev_addr
      /\ idle.firstrun = ex.firstrun /\ idle.rip_changed = ex.rip_changed
  BY <1>1 DEF ExecuteMembers
<1> DEFINE op == CASE u.opcode = "ret"  -> [u EXCEPT !.value3 = popped]
                   [] u.opcode = "pop"  -> [u EXCEPT !.value2 = sig.d_data, !.value3 = popped]
                   [] u.opcode = "load" -> [u EXCEPT !.value2 = sig.d_data]
<1> HIDE DEF idle, u, popped
<1>7. /\ u.opcode \in {"ret", "pop", "load"}
      /\ op \in Uop /\ SameUop(u, op) /\ ew_uop_queue' = Append(ew_uop_queue, op)
  <2>1. u.opcode \in {"ret", "pop", "load"} /\ ew_uop_queue' = Append(ew_uop_queue, op)
    BY DEF CompleteRead, Complete, u, popped
  <2>2. op \in Uop /\ SameUop(u, op)
    BY <1>1, <1>2, <1>3, <2>1 DEF Uop, SameUop
  <2> QED BY <2>1, <2>2
<1> HIDE DEF op
<1>8. SameUop(de_uop_queue[1], op)
  BY <1>4, <1>7 DEF SameUop
<1>9. /\ de_uop_queue' \in Seq(Uop) /\ Len(de_uop_queue') = Len(de_uop_queue) - 1
      /\ \A i \in 1 .. Len(de_uop_queue) - 1 : SameUop(de_uop_queue[i + 1], de_uop_queue'[i])
  BY <1>1, TailSame
<1>10. /\ op.address = arch_pc /\ IsAt(program, op, arch_uops + 1)
       /\ arch_uops' = IF last THEN 0 ELSE arch_uops + 1
       /\ arch_pc' = IF ~last THEN arch_pc
                     ELSE IF nxt'.change_RIP THEN nxt'.new_RIP ELSE After(op)
       /\ ~last \/ ~nxt'.change_RIP =>
            Flows(program', de_uop_queue' \o dd_uop_queue', arch_pc', arch_uops', fetch_pc')
  BY <1>1, <1>7, <1>8, <1>9, CompletionCourse
<1>11. /\ op.opcode \in {"ret", "pop"} => last
       /\ op.opcode = "load" => ~last /\ arch_uops > 0
  <2>1. /\ op.opcode \in Jumps \cup {"call", "ret", "pop"} => last
        /\ op.opcode = "load" => arch_uops + 1 # 1 /\ ~last
    BY <1>1, <1>10, ShapeAt
  <2> QED BY <1>1, <2>1
<1>12. ~ex.rip_changed /\ (arch_uops > 0 => ex.prev_addr = arch_pc /\ ~ex.firstrun)
  BY <1>1 DEF FlightInv, Addresses
<1>13. op.opcode = u.opcode /\ After(op) = Trunc(u.address + u.opsize)
  BY <1>7 DEF SameUop, After
<1> HIDE DEF last
<1>14. CASE u.opcode = "ret"
  <2>1. /\ ex' = [idle EXCEPT !.expected_addr = sig.d_data, !.stackpointer = popped]
        /\ nxt' = [nxt EXCEPT !.ew_ready = TRUE, !.clear = TRUE,
                              !.change_RIP = TRUE, !.new_RIP = sig.d_data]
    BY <1>14 DEF CompleteRead, u, idle, popped
  <2>2. nxt'.clear = TRUE /\ nxt'.change_RIP = TRUE /\ nxt'.new_RIP = sig.d_data
    BY <1>1, <2>1 DEF Signals
  <2>3. ex'.expected_addr = sig.d_data /\ ex'.state = "NORMAL" /\ ex'.rip_changed = ex.rip_changed
    BY <1>5, <1>6, <2>1 DEF ExecuteMembers
  <2>4. arch_uops' = 0 /\ arch_pc' = sig.d_data
    BY <1>10, <1>11, <1>13, <1>14, <2>2
  <2>5. RedirectSignals'
    BY <1>1, <2>2 DEF FlightInv, RedirectSignals
  <2>6. Course'
    BY <1>1, <2>2, <2>4 DEF Course
  <2>7. Addresses'
    BY <1>12, <2>3, <2>4 DEF Addresses
  <2> QED BY <2>5, <2>6, <2>7 DEF FlightInv
<1> DEFINE noted == Remember(idle, u.reg2, sig.d_data)
<1>15. /\ noted \in ExecuteMembers /\ noted.state = "NORMAL"
       /\ noted.prev_addr = ex.prev_addr /\ noted.firstrun = ex.firstrun
       /\ noted.rip_changed = ex.rip_changed
  <2>1. noted \in ExecuteMembers
    BY <1>1, <1>2, <1>5, RememberTyped
  <2>2. SameAddresses(idle, noted)
    BY <1>5, RememberedAddresses
  <2> HIDE DEF noted
  <2> QED BY <1>5, <1>6, <2>1, <2>2 DEF SameAddresses
<1>16. u.opcode # "ret" => nxt'.clear = nxt.clear /\ nxt'.change_RIP = FALSE
  <2>1. u.opcode # "ret" => nxt' = Quiet(TRUE)
    BY DEF CompleteRead, u
  <2> QED BY <1>1, <2>1 DEF Quiet, Signals
<1>17. u.opcode # "ret" => RedirectSignals'
  BY <1>1, <1>16 DEF FlightInv, RedirectSignals
<1>18. u.opcode # "ret" => Course'
  BY <1>1, <1>10, <1>16 DEF Course
<1>19. CASE u.opcode = "pop"
  <2>1. ex' = [noted EXCEPT !.expected_addr = Trunc(u.address + u.opsize), !.stackpointer = popped]
    BY <1>19 DEF CompleteRead, u, idle, popped
  <2> HIDE DEF noted
  <2>2. /\ ex'.expected_addr = Trunc(u.address + u.opsize) /\ ex'.state = "NORMAL"
        /\ ex'.rip_changed = ex.rip_changed
    BY <1>15, <2>1 DEF ExecuteMembers
  <2>3. arch_uops' = 0 /\ arch_pc' = After(op)
    BY <1>10, <1>11, <1>13, <1>16, <1>19
  <2>4. Addresses'
    BY <1>12, <1>13, <2>2, <2>3 DEF Addresses
  <2> QED BY <1>17, <1>18, <1>19, <2>4 DEF FlightInv
<1>20. CASE u.opcode = "load"
  <2>1. ex' = noted
    BY <1>20 DEF CompleteRead, u, idle, popped
  <2> HIDE DEF noted
  <2>2. arch_uops' = arch_uops + 1 /\ arch_pc' = arch_pc /\ arch_uops > 0
    BY <1>10, <1>11, <1>13, <1>20
  <2>3. arch_uops' # 0
    BY <1>1, <2>2
  <2>4. Addresses'
    BY <1>12, <1>15, <2>1, <2>2, <2>3 DEF Addresses
  <2> QED BY <1>17, <1>18, <1>20, <2>4 DEF FlightInv
<1> QED BY <1>7, <1>14, <1>19, <1>20

(* A micro-op performed in its cycle, and what is common to those and to    *)
(* system calls: e is what forwarding remembers, op what is retired.       *)
LEMMA AdvanceFlight ==
  ASSUME IInv, FlightInv, RunExecute, CanStart, halted' = "no",
         NEW op \in Uop, SameUop(de_uop_queue[1], op), op.opcode \notin Reads,
         ew_uop_queue' = Append(ew_uop_queue, op), nxt' = Driven(op),
         de_uop_queue' = Tail(Patched(de_uop_queue)),
         NEW e \in ExecuteMembers, SameAddresses(Started, e),
         SameAddresses(Advanced(e, op), ex')
  PROVE  FlightInv'
<1> DEFINE last == arch_uops + 1 = Len(program[arch_pc].uops)
<1>1. /\ halted = "no" /\ ~sig.clear /\ ~nxt.clear /\ de_uop_queue # <<>>
      /\ nxt \in Signals /\ ex \in ExecuteMembers /\ ex.state = "NORMAL" /\ arch_uops \in Nat
      /\ IsProgram(program) /\ de_uop_queue \in Seq(Uop) /\ CommonTypeOK
      /\ UNCHANGED <<program, fetch_pc, dd_uop_queue, sig>>
  BY DEF RunExecute, Runs, MayRun, ExecuteWork, IInv, ClearPhase, TypeOK, CommonTypeOK, CanStart
<1>2. /\ de_uop_queue' \in Seq(Uop) /\ Len(de_uop_queue') = Len(de_uop_queue) - 1
      /\ \A i \in 1 .. Len(de_uop_queue) - 1 : SameUop(de_uop_queue[i + 1], de_uop_queue'[i])
  BY <1>1, TailSame
<1>3. /\ op.address = arch_pc /\ IsAt(program, op, arch_uops + 1)
      /\ arch_uops' = IF last THEN 0 ELSE arch_uops + 1
      /\ arch_pc' = IF ~last THEN arch_pc
                    ELSE IF nxt'.change_RIP THEN nxt'.new_RIP ELSE After(op)
      /\ ~last \/ ~nxt'.change_RIP =>
           Flows(program', de_uop_queue' \o dd_uop_queue', arch_pc', arch_uops', fetch_pc')
  BY <1>1, <1>2, CompletionCourse
<1>4. op.opcode \in Jumps \cup {"call"} => last
  BY <1>1, <1>3, ShapeAt
<1>5. /\ nxt'.change_RIP <=> Redirects(op)
      /\ nxt'.clear <=> Redirects(op)
      /\ Redirects(op) => nxt'.new_RIP = Target(op)
  BY <1>1, DrivenRedirect
<1>6. Redirects(op) => last
  BY <1>4 DEF Redirects
<1>7. /\ Started.firstrun = FALSE /\ Started.rip_changed = ex.rip_changed
      /\ Started.state = "NORMAL" /\ Started.prev_addr = ex.prev_addr
  BY <1>1 DEF Started, ExecuteMembers
<1>8. ~ex.rip_changed
  BY <1>1 DEF FlightInv, Addresses
<1>9. /\ e.firstrun = FALSE /\ ~e.rip_changed /\ e.state = "NORMAL"
  BY <1>7, <1>8 DEF SameAddresses
<1>10. /\ ex'.expected_addr = IF Redirects(op) THEN Target(op) ELSE After(op)
       /\ ~Redirects(op) => ex'.prev_addr = op.address
       /\ ~ex'.rip_changed /\ ~ex'.firstrun /\ ex'.state = "NORMAL"
  <2>1. LET f == Advanced(e, op)
        IN /\ f.expected_addr = IF Redirects(op) THEN Target(op) ELSE After(op)
           /\ f.prev_addr = IF Redirects(op) THEN e.prev_addr ELSE op.address
           /\ ~f.rip_changed /\ f.firstrun = e.firstrun /\ f.state = e.state
    BY <1>9, AdvancedAddresses
  <2> QED BY <1>9, <2>1 DEF SameAddresses
<1> HIDE DEF last
<1>11. RedirectSignals'
  BY <1>1, <1>5 DEF FlightInv, RedirectSignals
<1>12. Course'
  BY <1>1, <1>3, <1>5, <1>6 DEF Course
<1>13. Addresses'
  <2>1. CASE ~last
    <3>1. arch_uops' = arch_uops + 1 /\ arch_pc' = arch_pc /\ ~Redirects(op)
      BY <1>3, <1>6, <2>1
    <3>2. arch_uops' # 0
      BY <1>1, <3>1
    <3> QED BY <1>3, <1>10, <3>1, <3>2 DEF Addresses
  <2>2. CASE last
    <3>1. arch_uops' = 0 /\ arch_pc' = IF Redirects(op) THEN Target(op) ELSE After(op)
      BY <1>3, <1>5, <2>2
    <3> QED BY <1>10, <3>1 DEF Addresses
  <2> QED BY <2>1, <2>2
<1> QED BY <1>11, <1>12, <1>13 DEF FlightInv

(* A micro-op performed in its cycle. *)
LEMMA PerformFlight ==
  ASSUME IInv, FlightInv, RunExecute, Perform
  PROVE  FlightInv'
<1>1. /\ halted = "no" /\ ~sig.clear /\ ~nxt.clear /\ de_uop_queue # <<>> /\ CanStart
      /\ CommonTypeOK /\ de_uop_queue' = Tail(Patched(de_uop_queue)) /\ halted' = "no"
      /\ Front.opcode \notin Reads
  BY DEF RunExecute, Runs, MayRun, IInv, ClearPhase, TypeOK, Perform, CanStart, host
<1>2. PICK r \in Results(Front, ex.eflags) :
        /\ ew_uop_queue' = Append(ew_uop_queue, Performed(Front, r))
        /\ nxt' = Driven(Performed(Front, r))
        /\ ex' = [Noted(Advanced(Started, Performed(Front, r)), Performed(Front, r))
                   EXCEPT !.eflags = r.flags]
  BY DEF Perform
<1> DEFINE op == Performed(Front, r)
<1>3. op \in Uop /\ Front \in Uop /\ Started \in ExecuteMembers
  BY <1>1, FrontPerformed, FrontTyped
<1>4. SameUop(de_uop_queue[1], op) /\ op.opcode \notin Reads
  <2>1. Head(de_uop_queue) = de_uop_queue[1] /\ de_uop_queue[1] \in Uop
    BY <1>1, HeadIsNext
  <2>2. SameUop(de_uop_queue[1], Front)
    BY <2>1, ForwardedSame DEF Front
  <2>3. SameUop(Front, op)
    BY <1>3, PerformedSame
  <2> HIDE DEF op
  <2> QED BY <1>1, <2>2, <2>3 DEF SameUop
<1> HIDE DEF op
<1> DEFINE a == Advanced(Started, op)
           n == Noted(a, op)
<1>5. a \in ExecuteMembers /\ n \in ExecuteMembers
  BY <1>3, AdvancedTyped, NotedTyped
<1>6. SameAddresses(a, n)
  BY <1>3, <1>5, NotedAddresses
<1>7. ex' = [n EXCEPT !.eflags = r.flags]
  BY <1>2 DEF op
<1> HIDE DEF n
<1>8. SameAddresses(n, ex')
  BY <1>5, <1>7 DEF SameAddresses, ExecuteMembers
<1>9. SameAddresses(a, ex')
  BY <1>6, <1>8 DEF SameAddresses
<1>10. SameAddresses(Started, Started)
  BY DEF SameAddresses
<1>11. ew_uop_queue' = Append(ew_uop_queue, op) /\ nxt' = Driven(op)
  BY <1>2 DEF op
<1> QED BY <1>1, <1>3, <1>4, <1>9, <1>10, <1>11, AdvanceFlight

(* A system call. *)
LEMMA SyscallFlight ==
  ASSUME IInv, FlightInv, RunExecute, Syscall
  PROVE  FlightInv'
<1>1. /\ halted = "no" /\ ~sig.clear /\ ~nxt.clear /\ de_uop_queue # <<>> /\ CanStart
      /\ CommonTypeOK /\ de_uop_queue' = Tail(Patched(de_uop_queue))
      /\ Front.opcode = "syscall"
      /\ ew_uop_queue' = Append(ew_uop_queue, Front) /\ nxt' = Driven(Front)
  BY DEF RunExecute, Runs, MayRun, IInv, ClearPhase, TypeOK, Syscall, CanStart
<1>2. PICK s \in RequestedSyscall : ex' = Advanced(Remember(Started, "rax", s.ret), Front)
  BY DEF Syscall
<1>3. Front \in Uop /\ Started \in ExecuteMembers
  BY <1>1, FrontTyped
<1>4. SameUop(de_uop_queue[1], Front) /\ Front.opcode \notin Reads
  <2>1. Head(de_uop_queue) = de_uop_queue[1] /\ de_uop_queue[1] \in Uop
    BY <1>1, HeadIsNext
  <2> QED BY <1>1, <2>1, ForwardedSame DEF Front, Reads
<1> DEFINE e == Remember(Started, "rax", s.ret)
<1>5. e \in ExecuteMembers /\ SameAddresses(Started, e)
  <2>1. s.ret \in Word
    BY <1>1, RequestedTyped DEF EffectType
  <2>2. "rax" \in Reg
    BY GPRAssumption DEF Reg
  <2> QED BY <1>3, <2>1, <2>2, RememberTyped, RememberedAddresses
<1> HIDE DEF e
<1>6. SameAddresses(Advanced(e, Front), ex')
  BY <1>2 DEF e, SameAddresses
<1>7. CASE halted' = "no"
  BY <1>1, <1>3, <1>4, <1>5, <1>6, <1>7, AdvanceFlight
<1>8. CASE halted' # "no"
  BY <1>8 DEF FlightInv, RedirectSignals, Course, Addresses
<1> QED BY <1>7, <1>8

(* Every call of Execute. *)
LEMMA ExecuteFlight == ASSUME IInv, FlightInv, RunExecute PROVE FlightInv'
<1>1. ExecuteWork /\ MayRun("execute")
  BY DEF RunExecute, Runs
<1>2. CASE ClearStage \/ AwaitData \/ Blocked
  BY <1>2, WaitingFlight
<1>3. CASE CompleteRead
  BY <1>3, CompleteReadFlight
<1>4. ~DropUnexpected
  BY <1>1, HeadExpected DEF DropUnexpected
<1>5. CASE IssueRead
  BY <1>5, IssueReadFlight
<1>6. CASE Perform
  BY <1>6, PerformFlight
<1>7. CASE Syscall
  BY <1>7, SyscallFlight
<1>8. CASE Crash
  <2>1. halted' = "abort"
    BY <1>8 DEF Crash
  <2> QED BY <2>1 DEF FlightInv, RedirectSignals, Course, Addresses
<1> QED BY <1>1, <1>2, <1>3, <1>4, <1>5, <1>6, <1>7, <1>8 DEF ExecuteWork

-----------------------------------------------------------------------------
(* The other processes keep the invariant. *)

(* Steps that touch neither queue before Execute nor Execute itself. *)
LEMMA AsideFlight ==
  ASSUME FlightInv,
         UNCHANGED <<de_uop_queue, dd_uop_queue, sig, ex, program, fetch_pc, arch_pc, arch_uops>>,
         halted' = "no" => halted = "no",
         nxt'.clear = nxt.clear, nxt'.change_RIP = nxt.change_RIP, nxt'.new_RIP = nxt.new_RIP,
         ("frontend" \in ran') = ("frontend" \in ran)
  PROVE  FlightInv'
<1>1. RedirectSignals'
  BY DEF FlightInv, RedirectSignals
<1>2. Course'
  BY DEF FlightInv, Course
<1>3. Addresses'
  BY DEF FlightInv, Addresses
<1> QED BY <1>1, <1>2, <1>3 DEF FlightInv

(* Dispatch moves micro-ops from one queue to the other. *)
LEMMA DispatchFlight == ASSUME IInv, FlightInv, RunDispatch PROVE FlightInv'
<1>1. /\ DispatchWork /\ halted = "no" /\ ran' = ran \cup {"dispatch"}
      /\ UNCHANGED <<program, fetch_pc, arch_pc, arch_uops, sig, ex, halted>>
      /\ nxt \in Signals /\ dd_uop_queue \in Seq(Uop) /\ de_uop_queue \in Seq(Uop)
      /\ regfile \in RegFile
  BY DEF RunDispatch, Runs, MayRun, DispatchWork, history, host, IInv, TypeOK, CommonTypeOK
<1>2. /\ nxt'.clear = nxt.clear /\ nxt'.change_RIP = nxt.change_RIP
      /\ nxt'.new_RIP = nxt.new_RIP
  <2>1. PICK b \in BOOLEAN : DispatchReady(b)
    BY <1>1 DEF DispatchWork, ClearQueue, NothingToDispatch, ExecuteBusy, DispatchBatch
  <2> QED BY <1>1, <2>1 DEF DispatchReady, Signals
<1>3. ("frontend" \in ran') = ("frontend" \in ran)
  BY <1>1
<1>4. CASE NothingToDispatch \/ ExecuteBusy
  <2>1. UNCHANGED <<de_uop_queue, dd_uop_queue>>
    BY <1>4 DEF NothingToDispatch, ExecuteBusy
  <2> QED BY <1>1, <1>2, <1>3, <2>1, AsideFlight
<1>5. RedirectSignals'
  BY <1>1, <1>2 DEF FlightInv, RedirectSignals
<1>6. CASE ClearQueue
  <2>1. sig.clear /\ de_uop_queue' = de_uop_queue
    BY <1>6 DEF ClearQueue
  <2>2. Course'
    BY <1>1, <1>2, <1>3, <2>1 DEF FlightInv, Course
  <2>3. Addresses'
    BY <1>1, <2>1 DEF FlightInv, Addresses
  <2> QED BY <1>5, <2>2, <2>3 DEF FlightInv
<1>7. CASE DispatchBatch
  <2>1. PICK n \in 1 .. Len(dd_uop_queue) :
          /\ de_uop_queue' = [i \in 1 .. n |-> Dispatched(dd_uop_queue[i])]
          /\ dd_uop_queue' = SubSeq(dd_uop_queue, n + 1, Len(dd_uop_queue))
    BY <1>7 DEF DispatchBatch
  <2>2. ~sig.clear /\ de_uop_queue = <<>>
    BY <1>7 DEF DispatchBatch
  <2>3. Alike(dd_uop_queue, de_uop_queue' \o dd_uop_queue')
    BY <1>1, <2>1, MovedAlike
  <2>4. de_uop_queue \o dd_uop_queue = dd_uop_queue
    BY <1>1, <2>2, ConcatEmptySeq
  <2>5. de_uop_queue' \o dd_uop_queue' \in Seq(Uop)
    <3>1. CommonTypeOK'
      BY <1>1, DispatchTyped DEF IInv, TypeOK
    <3> QED BY <3>1, Joined DEF CommonTypeOK
  <2>6. Course'
    <3> SUFFICES ASSUME ~nxt.clear
                 PROVE  Course'
      BY <1>1, <1>2, <2>2 DEF FlightInv, Course
    <3>1. Flows(program, dd_uop_queue, arch_pc, arch_uops, fetch_pc)
      BY <1>1, <2>2, <2>4 DEF FlightInv, Course
    <3>2. Flows(program, de_uop_queue' \o dd_uop_queue', arch_pc, arch_uops, fetch_pc)
      BY <1>1, <2>3, <2>5, <3>1, AlikeFlows
    <3> QED BY <1>1, <1>2, <2>2, <3>2 DEF Course
  <2>7. ex.state # "READ"
    BY <2>2 DEF IInv, ReadPending
  <2>8. Addresses'
    BY <1>1, <2>7 DEF FlightInv, Addresses
  <2> QED BY <1>5, <2>6, <2>8 DEF FlightInv
<1> QED BY <1>1, <1>4, <1>6, <1>7 DEF DispatchWork

(* The decoder appends the instruction at fetch_pc. *)
LEMMA DeliverFlight == ASSUME IInv, FlightInv, DeliverInstruction PROVE FlightInv'
<1>1. /\ PushInstruction /\ halted = "no" /\ ~sig.clear /\ fetch_pc \in DOMAIN program
      /\ UNCHANGED <<ran, program, arch_pc, arch_uops, sig, ex, halted, de_uop_queue>>
      /\ nxt \in Signals /\ dd_uop_queue \in Seq(Uop) /\ de_uop_queue \in Seq(Uop)
      /\ IsProgram(program) /\ CommonTypeOK /\ fetch_pc \in Word
      /\ fetch_pc' = Trunc(fetch_pc + program[fetch_pc].size)
  BY DEF DeliverInstruction, MayRun, PushInstruction, history, host, IInv, TypeOK, CommonTypeOK
<1>2. PICK garbage \in Garbage : dd_uop_queue' = dd_uop_queue \o Fetched(fetch_pc, garbage)
  BY <1>1 DEF PushInstruction
<1> DEFINE f == Fetched(fetch_pc, garbage)
           uops == program[fetch_pc].uops
<1>3. /\ Len(f) = Len(uops)
      /\ \A i \in 1 .. Len(f) : /\ f[i].address = fetch_pc
                                /\ f[i].opcode = uops[i].opcode
                                /\ f[i].opsize = program[fetch_pc].size
  <2>1. Len(uops) \in Nat
    BY <1>1, EmptySeq DEF IsProgram
  <2> HIDE DEF uops
  <2> QED BY <2>1 DEF Fetched, uops
<1>4. f \in Seq(Uop)
  <2>1. /\ program[fetch_pc].size \in Nat /\ uops \in Seq(Template) /\ Len(uops) \in Nat
    BY <1>1, EmptySeq DEF IsProgram
  <2>2. \A i \in 1 .. Len(uops) : uops[i] \in Template
    BY <2>1
  <2>3. garbage \in Word
    BY GarbageAssumption
  <2>4. \A i \in 1 .. Len(uops) :
          [src |-> uops[i].src, address |-> fetch_pc, opcode |-> uops[i].opcode,
           reg1 |-> uops[i].reg1, value1 |-> garbage, reg2 |-> uops[i].reg2,
           value2 |-> garbage, reg3 |-> uops[i].reg3, value3 |-> garbage,
           immed |-> uops[i].immed, opsize |-> program[fetch_pc].size] \in Uop
    BY <1>1, <2>1, <2>2, <2>3 DEF Template, Uop
  <2>5. f \in [1 .. Len(uops) -> Uop]
    BY <2>4 DEF Fetched
  <2> HIDE DEF uops, f
  <2> QED BY <2>1, <2>5, FunctionIsSeq
<1> HIDE DEF f, uops
<1>5. /\ nxt'.clear = nxt.clear /\ nxt'.change_RIP = nxt.change_RIP
      /\ nxt'.new_RIP = nxt.new_RIP
  BY <1>1 DEF PushInstruction, Signals
<1>6. RedirectSignals'
  BY <1>1, <1>5 DEF FlightInv, RedirectSignals
<1>7. Addresses'
  BY <1>1 DEF FlightInv, Addresses
<1>8. Course'
  <2>1. CASE nxt.clear
    BY <1>1, <1>5, <2>1 DEF FlightInv, Course
  <2>2. CASE ~nxt.clear
    <3> DEFINE q == de_uop_queue \o dd_uop_queue
    <3>1. Flows(program, q, arch_pc, arch_uops, fetch_pc)
      BY <1>1, <2>2 DEF FlightInv, Course
    <3>2. q \in Seq(Uop)
      BY <1>1, Joined
    <3> HIDE DEF q
    <3>3. Flows(program, q \o f, arch_pc, arch_uops, fetch_pc')
      BY <1>1, <1>3, <1>4, <3>1, <3>2, PushFlows DEF uops
    <3>4. q \o f = de_uop_queue \o dd_uop_queue'
      BY <1>1, <1>2, <1>4, ConcatAssociative, SMTT(30) DEF q, f
    <3> QED BY <1>1, <1>5, <2>2, <3>3, <3>4 DEF Course
  <2> QED BY <2>1, <2>2
<1> QED BY <1>6, <1>7, <1>8 DEF FlightInv

(* The end of a call of the front end, at the target if it is redirected. *)
LEMMA FrontEndFlight == ASSUME IInv, FlightInv, RunFrontEnd PROVE FlightInv'
<1>1. /\ halted = "no" /\ ran' = ran \cup {"frontend"}
      /\ UNCHANGED <<program, arch_pc, arch_uops, sig, nxt, ex, halted, de_uop_queue, dd_uop_queue>>
      /\ IF sig.change_RIP THEN fetch_pc' = sig.new_RIP ELSE fetch_pc' = fetch_pc
  BY DEF RunFrontEnd, Runs, MayRun, FrontEndDone, Redirected, NothingMore, common, queues,
         host, history
<1>2. sig.change_RIP <=> sig.clear
  BY <1>1 DEF FlightInv, RedirectSignals
<1>3. RedirectSignals' /\ Addresses'
  BY <1>1 DEF FlightInv, RedirectSignals, Addresses
<1>4. Course'
  BY <1>1, <1>2 DEF FlightInv, Course
<1> QED BY <1>3, <1>4 DEF FlightInv

(* Writeback and Memory touch none of it. *)
LEMMA RetireFlight == ASSUME IInv, FlightInv, RunWriteback \/ RunMemory PROVE FlightInv'
<1>1. /\ UNCHANGED <<program, fetch_pc, arch_pc, arch_uops, sig, ex, de_uop_queue, dd_uop_queue>>
      /\ halted = "no" /\ nxt \in Signals
      /\ ("frontend" \in ran') = ("frontend" \in ran)
  <2>1. \E p \in {"writeback", "memory"} : ran' = ran \cup {p}
    BY DEF RunWriteback, RunMemory, Runs
  <2>2. /\ UNCHANGED <<program, fetch_pc, arch_pc, arch_uops, sig, ex, de_uop_queue, dd_uop_queue>>
        /\ halted = "no"
    BY DEF RunWriteback, RunMemory, Runs, MayRun, WritebackWork, DataMemoryWork, history, queues
  <2> QED BY <2>1, <2>2 DEF IInv, TypeOK, CommonTypeOK
<1>2. /\ nxt'.clear = nxt.clear /\ nxt'.change_RIP = nxt.change_RIP
      /\ nxt'.new_RIP = nxt.new_RIP
  <2>1. CASE RunWriteback
    BY <2>1 DEF RunWriteback, WritebackWork
  <2>2. CASE RunMemory /\ DeliverNothing
    BY <1>1, <2>2 DEF DeliverNothing, Signals
  <2>3. CASE RunMemory /\ \E a \in d_resp : Deliver(a)
    <3>1. PICK a \in d_resp : Deliver(a)
      BY <2>3
    <3> QED BY <1>1, <3>1 DEF Deliver, Signals
  <2> QED BY <2>1, <2>2, <2>3 DEF RunMemory, DataMemoryWork, PortWork
<1> QED BY <1>1, <1>2, AsideFlight

(* The next cycle: a redirect on its way arrives, one that has arrived is   *)
(* over and has left both queues empty.                                    *)
LEMMA TickFlight == ASSUME IInv, FlightInv, Tick PROVE FlightInv'
<1>1. /\ UNCHANGED <<dd_uop_queue, de_uop_queue, nxt, ex, halted, program, fetch_pc,
                     arch_pc, arch_uops>>
      /\ ran = Process /\ ran' = {} /\ sig' = nxt /\ halted = "no"
  BY DEF Tick, queues, host, history
<1>2. RedirectSignals'
  BY <1>1 DEF FlightInv, RedirectSignals
<1>3. Addresses'
  BY <1>1 DEF FlightInv, Addresses
<1>4. sig.clear => /\ dd_uop_queue = <<>> /\ de_uop_queue = <<>> /\ ~nxt.clear
                   /\ fetch_pc = arch_pc /\ arch_uops = 0
  BY <1>1 DEF IInv, ClearPhase, FlightInv, Course, Process
<1>5. CASE nxt.clear
  <2>1. ~sig.clear
    BY <1>4, <1>5
  <2> QED BY <1>1, <1>2, <1>3, <1>5, <2>1 DEF FlightInv, Course
<1>6. CASE ~nxt.clear /\ ~sig.clear
  <2>1. Course'
    BY <1>1, <1>6 DEF FlightInv, Course
  <2> QED BY <1>2, <1>3, <2>1 DEF FlightInv
<1>7. CASE ~nxt.clear /\ sig.clear
  <2>1. de_uop_queue \o dd_uop_queue = <<>> /\ Len(<<>>) = 0
    BY <1>4, <1>7
  <2>2. <<>> \in [1 .. Len(<<>>) -> Nat]
    BY <2>1
  <2>3. Numbers(program, <<>>, <<>>, arch_pc, arch_uops, fetch_pc)
    BY <1>4, <1>7, <2>1 DEF Numbers
  <2>4. Flows(program, <<>>, arch_pc, arch_uops, fetch_pc)
    BY <2>2, <2>3 DEF Flows
  <2>5. Course'
    BY <1>1, <1>7, <2>1, <2>4 DEF Course
  <2> QED BY <1>2, <1>3, <2>5 DEF FlightInv
<1> QED BY <1>5, <1>6, <1>7

(* After reset the queues are empty and Execute takes whatever comes first. *)
LEMMA InitFlight == ASSUME Init, ~ex.rip_changed PROVE FlightInv
<1>1. /\ de_uop_queue = <<>> /\ dd_uop_queue = <<>> /\ sig = IdleSignals /\ nxt = IdleSignals
      /\ fetch_pc = arch_pc /\ arch_uops = 0 /\ ex.firstrun = TRUE /\ ex.state = "NORMAL"
  BY DEF Init
<1>2. RedirectSignals
  BY <1>1 DEF RedirectSignals, IdleSignals
<1>3. Addresses
  BY <1>1 DEF Addresses
<1>4. Course
  <2>1. de_uop_queue \o dd_uop_queue = <<>> /\ Len(<<>>) = 0
    BY <1>1
  <2>2. <<>> \in [1 .. Len(<<>>) -> Nat]
    BY <2>1
  <2>3. Numbers(program, <<>>, <<>>, arch_pc, arch_uops, fetch_pc)
    BY <1>1, <2>1 DEF Numbers
  <2>4. Flows(program, <<>>, arch_pc, arch_uops, fetch_pc)
    BY <2>2, <2>3 DEF Flows
  <2> QED BY <1>1, <2>1, <2>4 DEF Course, IdleSignals
<1> QED BY <1>2, <1>3, <1>4 DEF FlightInv

(* The invariant holds in every reachable state, if rip_changed starts down.*)
THEOREM FlightInvariant == Spec /\ ~ex.rip_changed => []FlightInv
<1>1. Init /\ ~ex.rip_changed => FlightInv
  BY InitFlight
<1>2. IInv /\ FlightInv /\ [Next]_vars => FlightInv'
  <2> SUFFICES ASSUME IInv, FlightInv, [Next]_vars PROVE FlightInv'
    OBVIOUS
  <2>1. CASE DeliverInstruction
    BY <2>1, DeliverFlight
  <2>2. CASE RunFrontEnd
    BY <2>2, FrontEndFlight
  <2>3. CASE RunDispatch
    BY <2>3, DispatchFlight
  <2>4. CASE RunExecute
    BY <2>4, ExecuteFlight
  <2>5. CASE RunWriteback \/ RunMemory
    BY <2>5, RetireFlight
  <2>6. CASE Tick
    BY <2>6, TickFlight
  <2>7. CASE Stopped \/ UNCHANGED vars
    <3>1. UNCHANGED <<dd_uop_queue, de_uop_queue, sig, nxt, ex, halted, ran, program, fetch_pc,
                      arch_pc, arch_uops>>
      BY <2>7 DEF Stopped, vars, common, queues, host, history
    <3> QED BY <3>1, AsideFlight
  <2> QED BY <2>1, <2>2, <2>3, <2>4, <2>5, <2>6, <2>7 DEF Next
<1> QED BY <1>1, <1>2, Invariant, PTL DEF Spec

(* No micro-op is lost, duplicated or reordered on its way from the decoder *)
(* to Execute.                                                             *)
THEOREM InFlightCorrect == Spec /\ ~ex.rip_changed => []InFlight
<1>1. IInv /\ FlightInv => InFlight
  <2> SUFFICES ASSUME IInv, FlightInv PROVE InFlight
    OBVIOUS
  <2>1. /\ IsProgram(program) /\ de_uop_queue \in Seq(Uop) /\ dd_uop_queue \in Seq(Uop)
        /\ arch_uops \in Nat
    BY DEF IInv, TypeOK, CommonTypeOK
  <2>2. CASE ~nxt.change_RIP /\ ~sig.change_RIP /\ halted = "no"
    <3>1. ~nxt.clear /\ ~sig.clear
      BY <2>2 DEF FlightInv, RedirectSignals
    <3> QED BY <2>1, <2>2, <3>1, FlowsInFlight DEF FlightInv, Course
  <2>3. CASE ~(~nxt.change_RIP /\ ~sig.change_RIP /\ halted = "no")
    BY <2>3 DEF InFlight
  <2> QED BY <2>2, <2>3
<1> QED BY <1>1, Invariant, FlightInvariant, PTL

(* The address check of Execute drops nothing: a flush is complete before   *)
(* Execute starts the first micro-op of the target.                        *)
THEOREM NothingDroppedCorrect == Spec /\ ~ex.rip_changed => []NothingDropped
<1>1. IInv /\ FlightInv => NothingDropped
  BY HeadExpected DEF NothingDropped
<1> QED BY <1>1, Invariant, FlightInvariant, PTL

-----------------------------------------------------------------------------
(* The operands udis86 reports, and the instructions the decoder has a form*)
(* for.  What redirects has at most one operand; load and store are the    *)
(* decoder's own.                                                          *)
Operand ==
  [type : {"none", "reg", "imm", "jimm", "const", "mem"}, base : Reg, index : Reg,
   scale : {k \in Nat : k + 1 \in Word}, offset : 0 .. WordBits, lval : Word, size : 0 .. WordBits]

Redirecting == Jumps \cup {"call", "ret", "pop"}

HasForm(mnemonic, o) ==
  \/ o[1].type = "none" /\ o[2].type = "none"
  \/ o[1].type # "none" /\ mnemonic = "imul"
  \/ o[1].type = "reg" /\ o[2].type \in {"none", "reg", "const", "imm", "mem"}
  \/ o[1].type \in {"jimm", "mem"}
  \/ o[1].type \in {"imm", "const"} /\ o[2].type = "none"

Decodable(mnemonic, o) ==
  /\ o \in [1 .. 3 -> Operand]
  /\ mnemonic \in Opcode \ {"load", "store"} \/ (mnemonic = "lea" /\ o[1].type = "reg" /\ o[2].type = "mem")
  /\ mnemonic \in Redirecting => o[2].type = "none"
  /\ HasForm(mnemonic, o)

(* An extended immediate is a word. *)
LEMMA Extended ==
  ASSUME NEW v \in Word, NEW size \in 0 .. WordBits
  PROVE  sign_extend(v, size) \in Word
<1>1. 2 ^ size \in Int
  BY Powers
<1>2. \A n \in Int : Trunc(n) \in Word
  BY WordModAssumption DEF Trunc, Word
<1>3. v - 2 ^ size \in Int
  BY <1>1, WordModAssumption DEF Word
<1> QED BY <1>2, <1>3 DEF sign_extend

(* Micro-ops that may precede another one, a sequence that may begin those *)
(* of an instruction, and one that may end them.                           *)
Calm == {t \in Template : t.opcode \notin Redirecting}
Begins(s) == s \in Seq(Calm) /\ Len(s) > 0 /\ s[1].opcode # "load"
Finishes(s) ==
  /\ s \in Seq(Template) /\ Len(s) > 0 /\ s[Len(s)].opcode # "load"
  /\ \A i \in 1 .. Len(s) - 1 : s[i] \in Calm
Good(s) == s \in Seq(Template) \ {<<>>} /\ WellCracked(s)

(* A concatenation. *)
LEMMA Joins ==
  ASSUME NEW S, NEW s \in Seq(S), NEW t \in Seq(S)
  PROVE  /\ s \o t \in Seq(S) /\ Len(s \o t) = Len(s) + Len(t)
         /\ \A k \in 1 .. Len(s) : (s \o t)[k] = s[k]
         /\ \A k \in 1 .. Len(t) : (s \o t)[Len(s) + k] = t[k]
  OBVIOUS

(* Calm micro-ops. *)
LEMMA CalmIs ==
  ASSUME NEW s \in Seq(Calm)
  PROVE  s \in Seq(Template) /\ Len(s) \in Nat /\ \A i \in 1 .. Len(s) : s[i] \in Calm /\ s[i].opcode \notin Redirecting
<1>1. Calm \subseteq Template /\ \A t \in Calm : t.opcode \notin Redirecting
  BY DEF Calm
<1> HIDE DEF Calm
<1> QED BY <1>1

(* A beginning goes on with calm micro-ops. *)
LEMMA BeginsOn ==
  ASSUME NEW s, Begins(s), NEW t \in Seq(Calm)
  PROVE  Begins(s \o t)
<1> HIDE DEF Calm
<1>1. s \in Seq(Calm) /\ Len(s) \in Nat /\ Len(t) \in Nat /\ Len(s) > 0 /\ s[1].opcode # "load"
  BY CalmIs DEF Begins
<1>2. s \o t \in Seq(Calm) /\ Len(s \o t) = Len(s) + Len(t) /\ (s \o t)[1] = s[1]
  BY <1>1, Joins
<1> QED BY <1>1, <1>2 DEF Begins

(* Calm micro-ops may precede an end. *)
LEMMA FinishesOff ==
  ASSUME NEW s \in Seq(Calm), NEW t, Finishes(t)
  PROVE  Finishes(s \o t)
<1>1. /\ s \in Seq(Template) /\ t \in Seq(Template) /\ Len(s) \in Nat /\ Len(t) \in Nat
      /\ Len(t) > 0 /\ t[Len(t)].opcode # "load"
      /\ \A i \in 1 .. Len(s) : s[i] \in Calm
      /\ \A i \in 1 .. Len(t) - 1 : t[i] \in Calm
  BY CalmIs DEF Finishes
<1> DEFINE u == s \o t
<1>2. /\ u \in Seq(Template) /\ Len(u) = Len(s) + Len(t)
      /\ \A k \in 1 .. Len(s) : u[k] = s[k]
      /\ \A k \in 1 .. Len(t) : u[Len(s) + k] = t[k]
  BY <1>1, Joins
<1> HIDE DEF u
<1>3. u[Len(u)].opcode # "load"
  BY <1>1, <1>2
<1>4. ASSUME NEW i \in 1 .. Len(u) - 1 PROVE u[i] \in Calm
  <2>1. CASE i <= Len(s)
    BY <1>1, <1>2, <2>1, SMTT(40)
  <2>2. CASE i > Len(s)
    <3>1. i - Len(s) \in 1 .. Len(t) - 1 /\ i - Len(s) \in 1 .. Len(t) /\ Len(s) + (i - Len(s)) = i
      BY <1>1, <1>2, <2>2
    <3>2. u[i] = t[i - Len(s)]
      BY <1>2, <3>1
    <3> QED BY <1>1, <3>1, <3>2
  <2> QED BY <1>1, <2>1, <2>2
<1> QED BY <1>1, <1>2, <1>3, <1>4 DEF Finishes, u

(* A beginning and an end make an instruction. *)
LEMMA Fits ==
  ASSUME NEW s, Begins(s), NEW t, Finishes(t)
  PROVE  Good(s \o t)
<1>1. /\ s \in Seq(Template) /\ s \in Seq(Calm) /\ t \in Seq(Template)
      /\ Len(s) \in Nat /\ Len(t) \in Nat /\ Len(s) > 0 /\ Len(t) > 0 /\ s[1].opcode # "load"
  BY CalmIs DEF Begins, Finishes
<1> DEFINE u == s \o t
<1>2. Finishes(u)
  BY <1>1, FinishesOff
<1>3. Len(u) = Len(s) + Len(t) /\ u[1] = s[1]
  BY <1>1, Joins
<1> HIDE DEF u
<1>4. \A i \in 1 .. Len(u) - 1 : u[i].opcode \notin Redirecting
  BY <1>2 DEF Finishes, Calm
<1>5. u # <<>>
  BY <1>1, <1>3
<1>6. WellCracked(u)
  BY <1>1, <1>2, <1>3, <1>4 DEF WellCracked, Redirecting, Finishes
<1> QED BY <1>2, <1>5, <1>6 DEF Good, Finishes, u

(* A single micro-op. *)
LEMMA SingleIs ==
  ASSUME NEW e \in Template
  PROVE  /\ e \in Calm => <<e>> \in Seq(Calm)
         /\ e.opcode # "load" => Good(<<e>>) /\ Finishes(<<e>>) /\ (e \in Calm => Begins(<<e>>))
<1> HIDE DEF Calm
<1>1. <<e>> \in Seq(Template) /\ Len(<<e>>) = 1 /\ <<e>>[1] = e /\ (e \in Calm => <<e>> \in Seq(Calm))
  OBVIOUS
<1>2. e.opcode # "load" => Good(<<e>>)
  BY <1>1 DEF Good, WellCracked
<1>3. e.opcode # "load" => Finishes(<<e>>)
  BY <1>1 DEF Finishes
<1>4. e.opcode # "load" /\ e \in Calm => Begins(<<e>>)
  BY <1>1 DEF Begins
<1> QED BY <1>1, <1>2, <1>3, <1>4

(* One micro-op pushed. *)
LEMMA OpIs ==
  ASSUME NEW m \in Opcode, NEW r \in Reg, NEW s \in Reg, NEW immed \in Word, NEW src \in SrcType
  PROVE  /\ m \notin Redirecting => Op(m, r, s, immed, src) \in Seq(Calm)
         /\ m # "load" => /\ Good(Op(m, r, s, immed, src)) /\ Finishes(Op(m, r, s, immed, src))
                          /\ m \notin Redirecting => Begins(Op(m, r, s, immed, src))
<1> DEFINE e == [src |-> src, opcode |-> m, reg1 |-> r, reg2 |-> s, reg3 |-> "none", immed |-> immed]
<1>1. e \in Template /\ e.opcode = m /\ (m \notin Redirecting => e \in Calm)
  BY DEF Template, Reg, Calm
<1>2. Op(m, r, s, immed, src) = <<e>>
  BY DEF Op
<1> HIDE DEF e
<1> QED BY <1>1, <1>2, SingleIs

(* What the decoder puts in by itself. *)
LEMMA Constants ==
  /\ {"mov", "add", "imul", "load", "store"} \subseteq Opcode \ Redirecting
  /\ {"none", "scratchls", "loadstore"} \subseteq Reg
  /\ {"NO_SRC", "REG", "IMMED", "LOADMUL"} \subseteq SrcType
  /\ 0 \in Word /\ 1 \in Word
<1>1. 0 \in Word /\ 1 \in Word
  BY WordModAssumption DEF Word
<1> QED BY <1>1 DEF Opcode, Redirecting, Jumps, Reg, SrcType

(* What it takes from an operand. *)
LEMMA OperandIs ==
  ASSUME NEW x \in Operand
  PROVE  /\ x.base \in Reg /\ x.index \in Reg /\ x.scale \in Word /\ x.scale + 1 \in Word
         /\ sign_extend(x.lval, x.offset) \in Word /\ sign_extend(x.lval, x.size) \in Word
<1>1. /\ x.base \in Reg /\ x.index \in Reg /\ x.scale \in Nat /\ x.scale + 1 \in Word
      /\ x.lval \in Word /\ x.offset \in 0 .. WordBits /\ x.size \in 0 .. WordBits
  BY DEF Operand
<1>2. x.scale \in Word
  BY <1>1, WordModAssumption DEF Word
<1> QED BY <1>1, <1>2, Extended

(* The address of an operand. *)
LEMMA AddressIs ==
  ASSUME NEW x \in Operand
  PROVE  Begins(AddressOf(x))
<1>1. /\ x.base \in Reg /\ x.index \in Reg /\ x.scale \in Word /\ x.scale + 1 \in Word
      /\ sign_extend(x.lval, x.offset) \in Word
  BY OperandIs
<1>2. ASSUME NEW r \in Reg PROVE Begins(Move("mov", r, "loadstore")) /\ Move("add", r, "loadstore") \in Seq(Calm)
  BY Constants, OpIs DEF Move
<1>3. ASSUME NEW present \in BOOLEAN PROVE AddOffset(x, present) \in Seq(Calm)
  <2>1. Op("add", "none", "loadstore", sign_extend(x.lval, x.offset), "IMMED") \in Seq(Calm)
    BY <1>1, Constants, OpIs
  <2> QED BY <2>1 DEF AddOffset
<1>4. ASSUME NEW present \in BOOLEAN, NEW times \in Word PROVE Scaled(times, present) \in Seq(Calm)
  <2>1. Op("imul", "none", "loadstore", times, "LOADMUL") \in Seq(Calm)
    BY Constants, OpIs
  <2> QED BY <2>1 DEF Scaled
<1>5. CASE x.index = "none"
  <2>1. AddressOf(x) = Move("mov", x.base, "loadstore") \o AddOffset(x, sign_extend(x.lval, x.offset) # 0)
    BY <1>5 DEF AddressOf
  <2> QED BY <1>1, <1>2, <1>3, <2>1, BeginsOn
<1>6. CASE x.index # "none" /\ x.base = x.index
  <2>1. AddressOf(x) = Move("mov", x.base, "loadstore") \o Scaled(x.scale + 1, x.scale # 0)
                       \o AddOffset(x, x.offset # 0)
    BY <1>6 DEF AddressOf
  <2>2. Begins(Move("mov", x.base, "loadstore") \o Scaled(x.scale + 1, x.scale # 0))
    BY <1>1, <1>2, <1>4, BeginsOn
  <2> QED BY <1>3, <2>1, <2>2, BeginsOn
<1>7. CASE x.index # "none" /\ x.base # x.index
  <2> DEFINE added == IF x.base # "none" THEN Move("add", x.base, "loadstore") ELSE <<>>
  <2>1. AddressOf(x) = Move("mov", x.index, "loadstore") \o Scaled(x.scale, x.scale # 0)
                       \o added \o AddOffset(x, x.offset # 0)
    BY <1>7 DEF AddressOf
  <2>2. added \in Seq(Calm)
    BY <1>1, <1>2
  <2> HIDE DEF added
  <2>3. Begins(Move("mov", x.index, "loadstore") \o Scaled(x.scale, x.scale # 0))
    BY <1>1, <1>2, <1>4, BeginsOn
  <2>4. Begins(Move("mov", x.index, "loadstore") \o Scaled(x.scale, x.scale # 0) \o added)
    BY <2>2, <2>3, BeginsOn
  <2> QED BY <1>3, <2>1, <2>4, BeginsOn
<1> QED BY <1>5, <1>6, <1>7

(* What is done there. *)
LEMMA AccessIs ==
  ASSUME NEW mnemonic, NEW o, Decodable(mnemonic, o), NEW i \in {1, 2},
         i = 2 => mnemonic \notin Redirecting
  PROVE  Finishes(Access(mnemonic, o, i))
<1> DEFINE j == 3 - i
<1>1. j \in {1, 2} /\ j \in 1 .. 3
  OBVIOUS
<1>2. /\ o[1].base \in Reg /\ o[j].base \in Reg
      /\ sign_extend(o[j].lval, o[j].size) \in Word
  <2>1. o[1] \in Operand /\ o[j] \in Operand
    BY <1>1 DEF Decodable
  <2> QED BY <2>1, OperandIs
<1>3. Load \in Seq(Calm) /\ Finishes(Store)
  BY Constants, OpIs DEF Load, Store, Move
<1>4. CASE mnemonic = "lea"
  <2>1. Access(mnemonic, o, i) = Move("mov", "loadstore", o[1].base)
    BY <1>4 DEF Access
  <2>2. "mov" \in Opcode /\ "mov" # "load" /\ "loadstore" \in Reg /\ 0 \in Word /\ "REG" \in SrcType
    BY Constants
  <2>3. Finishes(Op("mov", "loadstore", o[1].base, 0, "REG"))
    BY <1>2, <2>2, OpIs
  <2> QED BY <2>1, <2>3 DEF Move
<1>5. CASE mnemonic # "lea"
  <2>1. mnemonic \in Opcode /\ mnemonic # "load"
    BY <1>5 DEF Decodable
  <2>2. ASSUME NEW r \in Reg, NEW s \in Reg
        PROVE  Finishes(Move(mnemonic, r, s)) /\ (mnemonic \notin Redirecting => Move(mnemonic, r, s) \in Seq(Calm))
    BY <2>1, Constants, OpIs DEF Move
  <2>3. /\ Finishes(Immediate(mnemonic, o[j], "scratchls"))
        /\ mnemonic \notin Redirecting => Immediate(mnemonic, o[j], "scratchls") \in Seq(Calm)
    BY <1>2, <2>1, Constants, OpIs DEF Immediate
  <2>4. CASE mnemonic \in {"cmp", "test"}
    <3> DEFINE last == IF o[j].base # "none" THEN Move(mnemonic, "scratchls", o[j].base)
                       ELSE Immediate(mnemonic, o[j], "scratchls")
    <3>1. Access(mnemonic, o, i) = Load \o last
      BY <2>4 DEF Access
    <3>2. Finishes(last)
      BY <1>2, <2>2, <2>3, Constants
    <3> HIDE DEF last
    <3> QED BY <1>3, <3>1, <3>2, FinishesOff
  <2>5. CASE mnemonic \notin {"cmp", "test"} /\ (i = 2 \/ o[2].type = "none")
    <3>1. Access(mnemonic, o, i) = Load \o Move(mnemonic, "scratchls", o[1].base)
      BY <1>5, <2>5 DEF Access
    <3>2. Finishes(Move(mnemonic, "scratchls", o[1].base))
      BY <1>2, <2>2, Constants
    <3> QED BY <1>3, <3>1, <3>2, FinishesOff
  <2>6. CASE mnemonic \notin {"cmp", "test"} /\ ~(i = 2 \/ o[2].type = "none")
    <3> DEFINE first == IF o[j].base # "none" \/ o[i].index = "none"
                        THEN Move(mnemonic, o[j].base, "scratchls")
                        ELSE Immediate(mnemonic, o[j], "scratchls")
    <3>1. Access(mnemonic, o, i) = first \o Store
      BY <1>5, <2>6 DEF Access
    <3>2. mnemonic \notin Redirecting
      BY <2>6 DEF Decodable
    <3>3. first \in Seq(Calm)
      BY <1>2, <2>2, <2>3, <3>2, Constants
    <3> HIDE DEF first
    <3> QED BY <1>3, <3>1, <3>3, FinishesOff
  <2> QED BY <2>4, <2>5, <2>6
<1> QED BY <1>4, <1>5

(* imul. *)
LEMMA ImulIs ==
  ASSUME NEW o \in [1 .. 3 -> Operand], o[1].type # "none"
  PROVE  Good(CrackImul(o))
<1>1. /\ o[1].base \in Reg /\ o[2].base \in Reg /\ o[3].base \in Reg
      /\ sign_extend(o[3].lval, o[3].size) \in Word
  BY OperandIs
<1>2. "none" \in Reg /\ 0 \in Word /\ "imul" \in Opcode /\ {"IMUL_1", "IMUL_2R", "IMUL_2I", "IMUL_3"} \subseteq SrcType
  BY Constants DEF SrcType
<1>3. ASSUME NEW r \in Reg, NEW s \in Reg, NEW t \in Reg, NEW immed \in Word,
             NEW src \in {"IMUL_1", "IMUL_2R", "IMUL_2I", "IMUL_3"}
      PROVE  Good(<<[src |-> src, opcode |-> "imul", reg1 |-> r, reg2 |-> s, reg3 |-> t, immed |-> immed]>>)
  <2> DEFINE e == [src |-> src, opcode |-> "imul", reg1 |-> r, reg2 |-> s, reg3 |-> t, immed |-> immed]
  <2>1. e \in Template /\ e.opcode # "load"
    BY <1>2 DEF Template, Reg
  <2> HIDE DEF e
  <2>2. Good(<<e>>)
    BY <2>1, SingleIs
  <2> QED BY <2>2 DEF e
<1> DEFINE third == o[3].type
           second == o[2].type
<1>4. CASE third = "reg"
  BY <1>1, <1>2, <1>3, <1>4 DEF CrackImul
<1>5. CASE third \notin {"none", "reg"}
  BY <1>1, <1>2, <1>3, <1>5 DEF CrackImul
<1>6. CASE third = "none" /\ second = "reg"
  BY <1>1, <1>2, <1>3, <1>6 DEF CrackImul
<1>7. CASE third = "none" /\ second \notin {"none", "reg"}
  BY <1>1, <1>2, <1>3, <1>7 DEF CrackImul
<1>8. CASE third = "none" /\ second = "none"
  BY <1>1, <1>2, <1>3, <1>8 DEF CrackImul
<1> QED BY <1>4, <1>5, <1>6, <1>7, <1>8

(* crack_opcodes() makes of every instruction it has a form for one        *)
(* micro-op or more, of which the last alone may redirect, and neither the *)
(* first nor the last loads (decoder.cc:147-507).                          *)
THEOREM CrackedWell ==
  ASSUME NEW mnemonic, NEW o, Decodable(mnemonic, o)
  PROVE  Good(Crack(mnemonic, o))
<1>1. /\ o \in [1 .. 3 -> Operand] /\ HasForm(mnemonic, o)
      /\ o[1] \in Operand /\ o[2] \in Operand
  BY DEF Decodable
<1>2. /\ o[1].base \in Reg /\ o[2].base \in Reg
      /\ sign_extend(o[1].lval, o[1].size) \in Word /\ sign_extend(o[2].lval, o[2].size) \in Word
  BY <1>1, OperandIs
<1>3. CASE o[1].type = "none" /\ o[2].type = "none"
  <2>1. Crack(mnemonic, o) = Op(mnemonic, "none", "none", 0, "NO_SRC")
    BY <1>3 DEF Crack
  <2>2. mnemonic \in Opcode /\ mnemonic # "load"
    BY <1>3 DEF Decodable
  <2> QED BY <2>1, <2>2, Constants, OpIs
<1>4. CASE o[1].type # "none" /\ mnemonic = "imul"
  <2>1. Crack(mnemonic, o) = CrackImul(o)
    BY <1>4 DEF Crack
  <2> QED BY <1>1, <1>4, <2>1, ImulIs
<1>5. CASE o[1].type # "none" /\ mnemonic # "imul"
  <2>1. Crack(mnemonic, o) = CrackForm(mnemonic, o)
    BY <1>5 DEF Crack
  <2> DEFINE target == o[1].type
             source == o[2].type
  <2>2. CASE target = "mem"
    <3>1. Crack(mnemonic, o) = AddressOf(o[1]) \o Access(mnemonic, o, 1)
      BY <2>1, <2>2 DEF CrackForm
    <3>2. Finishes(Access(mnemonic, o, 1))
      BY AccessIs
    <3> QED BY <1>1, <3>1, <3>2, AddressIs, Fits
  <2>3. CASE target = "reg" /\ source = "mem"
    <3>1. Crack(mnemonic, o) = AddressOf(o[2]) \o Access(mnemonic, o, 2)
      BY <2>1, <2>3 DEF CrackForm
    <3>2. mnemonic \notin Redirecting
      BY <2>3 DEF Decodable
    <3>3. Finishes(Access(mnemonic, o, 2))
      BY <3>2, AccessIs
    <3> QED BY <1>1, <3>1, <3>3, AddressIs, Fits
  <2>4. CASE target # "mem" /\ ~(target = "reg" /\ source = "mem")
    <3>1. mnemonic \in Opcode /\ mnemonic # "load"
      BY <2>4 DEF Decodable
    <3>2. ASSUME NEW m \in Opcode, m # "load", NEW r \in Reg, NEW s \in Reg, NEW immed \in Word
          PROVE  /\ Good(Move(m, r, s)) /\ Good(Op(m, r, s, immed, "IMMED"))
      BY <3>2, Constants, OpIs DEF Move
    <3>3. CASE target = "reg" /\ source = "reg"
      <4>1. Crack(mnemonic, o) = Move(mnemonic, o[2].base, o[1].base)
        BY <2>1, <3>3 DEF CrackForm
      <4> QED BY <1>2, <3>1, <3>2, <4>1, Constants
    <3>4. CASE target = "jimm"
      <4>1. Crack(mnemonic, o) = Immediate(mnemonic, o[1], "none")
        BY <2>1, <3>4 DEF CrackForm
      <4> QED BY <1>2, <3>1, <3>2, <4>1, Constants DEF Immediate
    <3>5. CASE target \notin {"jimm", "mem"} /\ source = "none"
      <4>1. Crack(mnemonic, o) = IF mnemonic = "pop" THEN Move("pop", "none", o[1].base)
                                 ELSE Move(mnemonic, o[1].base, "none")
        BY <2>1, <3>5 DEF CrackForm
      <4> QED BY <1>2, <3>1, <3>2, <4>1, Constants
    <3>6. CASE target = "reg" /\ source = "const"
      <4>1. Crack(mnemonic, o) = Op(mnemonic, "none", o[1].base, 1, "IMMED")
        BY <2>1, <3>6 DEF CrackForm
      <4> QED BY <1>2, <3>1, <3>2, <4>1, Constants
    <3>7. CASE target = "reg" /\ source = "imm"
      <4>1. Crack(mnemonic, o) = Immediate(mnemonic, o[2], o[1].base)
        BY <2>1, <3>7 DEF CrackForm
      <4> QED BY <1>2, <3>1, <3>2, <4>1, Constants DEF Immediate
    <3> QED BY <1>1, <1>5, <2>4, <3>3, <3>4, <3>5, <3>6, <3>7 DEF HasForm
  <2> QED BY <2>2, <2>3, <2>4
<1> QED BY <1>1, <1>3, <1>4, <1>5 DEF HasForm

(* So what the decoder assembles satisfies what BackEnd assumes of programs.*)
THEOREM CrackedProgram ==
  ASSUME NEW p, DOMAIN p \subseteq Word, DOMAIN p # {},
         \A a \in DOMAIN p : /\ p[a].size \in 1 .. WordMod - 1
                             /\ \E mnemonic, o : Decodable(mnemonic, o) /\ p[a].uops = Crack(mnemonic, o)
  PROVE  IsProgram(p)
<1>1. ASSUME NEW a \in DOMAIN p PROVE Good(p[a].uops)
  BY CrackedWell
<1> QED BY <1>1 DEF IsProgram, Good

-----------------------------------------------------------------------------
(* The instructions of a register program: one micro-op each, that computes *)
(* in registers or jumps, or does nothing.                                 *)
(* Their opcodes: of two operands, of one, ... *)
Plain == {"mov", "add", "sub", "and", "or", "xor", "test", "cmp"} \cup Cmovs \cup Shifts
Unary == {"inc", "dec", "neg"}

(* ... and the source operand: a value or a register. *)
HasSource(t) == t.src = "IMMED" \/ (t.src = "REG" /\ t.reg1 \in GPR)

(* A micro-op of the class ... *)
RegisterUop(t) ==
  \/ t.opcode \in {"nop", "cqo"} /\ t.src = "NO_SRC"
  \/ t.opcode \in Plain /\ HasSource(t) /\ t.reg2 \in GPR
  \/ t.opcode \in Unary /\ t.src = "REG" /\ t.reg1 \in GPR
  \/ t.opcode \in Jumps /\ HasSource(t) /\ t.reg2 = "none"
  \/ /\ t.opcode = "imul" /\ t.reg2 \in GPR
     /\ \/ t.src = "IMUL_2I"
        \/ t.src = "IMUL_2R" /\ t.reg1 \in GPR
        \/ t.src = "IMUL_3" /\ t.reg1 \in GPR /\ t.reg3 \in GPR \cup {"none"}

(* ... and a program of nothing else. *)
RegisterProgram(p) ==
  \A a \in DOMAIN p : Len(p[a].uops) = 1 /\ RegisterUop(p[a].uops[1])

-----------------------------------------------------------------------------
(* The registers of the program, read off the micro-ops on their way. *)
Settled(rf, q) ==
  CASE Len(q) = 0 -> rf
    [] Len(q) = 1 -> Retired(rf, q[1])
    [] OTHER -> Retired(Retired(rf, q[1]), q[2])

(* A micro-op that changes its destination and nothing else. *)
Simple(u) == /\ u.reg2 \in GPR \cup {"none"}
             /\ u.opcode \notin {"call", "ret", "pop"} /\ ~WritesRdx(u)

(* A register's value, by the forwarding registers or else v. *)
Remembered(r, v) == IF r = ex.prev_reg1 THEN ex.prev_value1
                    ELSE IF r = ex.prev_reg2 THEN ex.prev_value2 ELSE v

(* The forwarding registers know every result that is on its way, and give *)
(* the registers of the program.                                           *)
Forwarding ==
  /\ ex.prev_reg1 \in GPR \cup {"none"} /\ ex.prev_reg2 \in GPR \cup {"none"}
  /\ \A i \in 1 .. Len(ew_uop_queue) :
       /\ Simple(ew_uop_queue[i])
       /\ ew_uop_queue[i].reg2 \in {"none", ex.prev_reg1, ex.prev_reg2}
       /\ i = Len(ew_uop_queue) => ew_uop_queue[i].reg2 \in {"none", ex.prev_reg1}
  /\ \A r \in GPR : Settled(regfile, ew_uop_queue)[r] = Remembered(r, regfile[r])

(* Micro-op u is the one the program has at its address, operands aside. *)
FromProgram(u) ==
  /\ u.address \in DOMAIN program
  /\ LET t == program[u.address].uops[1]
     IN /\ u.opsize = program[u.address].size
        /\ u.src = t.src /\ u.opcode = t.opcode /\ u.immed = t.immed
        /\ u.reg1 = t.reg1 /\ u.reg2 = t.reg2 /\ u.reg3 = t.reg3

(* The decode queue holds the program's micro-ops at consecutive addresses, *)
(* and fetch goes on behind the last of them.                              *)
Decoded ==
  /\ \A i \in 1 .. Len(dd_uop_queue) : FromProgram(dd_uop_queue[i])
  /\ \A i \in 1 .. Len(dd_uop_queue) - 1 : dd_uop_queue[i + 1].address = After(dd_uop_queue[i])
  /\ halted = "no" /\ dd_uop_queue # <<>> /\ ~sig.clear =>
       fetch_pc = After(dd_uop_queue[Len(dd_uop_queue)])

(* The registers an instruction of a register program reads and writes. *)
TargetOf(t) == CASE t.opcode \in Jumps \cup {"nop"} -> "none"
                 [] t.opcode = "cqo"    -> "rdx"
                 [] t.opcode \in Unary  -> t.reg1
                 [] OTHER               -> t.reg2

(* The operands of t in the sequential machine. *)
First(t) == IF t.src \in {"IMMED", "IMUL_2I"} THEN t.immed
            ELSE IF t.opcode = "cqo" THEN ArchRegs["rax"] ELSE ArchRegs[t.reg1]
Second(t) == ArchRegs[t.reg2]
Third(t) == IF t.reg3 = "none" THEN t.immed ELSE ArchRegs[t.reg3]

(* v has the operands that matter to t. *)
HasOperands(v, t) ==
  /\ v.opcode = t.opcode /\ v.src = t.src
  /\ t.opcode # "nop" => v.value1 = First(t)
  /\ t.opcode \in Plain \cup {"imul"} => v.value2 = Second(t)
  /\ t.src = "IMUL_3" => v.value3 = Third(t)

(* Micro-op u, started now, would run as its instruction does in the        *)
(* sequential machine.                                                     *)
Ready(u) ==
  /\ u.address \in DOMAIN program
  /\ LET t == program[u.address].uops[1]
     IN /\ u.opsize = program[u.address].size
        /\ HasOperands(Forwarded(u), t)
        /\ (IF u.opcode \in Unary THEN u.reg1 ELSE u.reg2) = TargetOf(t)

(* Nothing is under way but the micro-ops: Execute is in no memory access,  *)
(* no instruction is half done and the data port is idle.                  *)
Quiescent ==
  /\ RegisterProgram(program)
  /\ ex.state = "NORMAL" /\ arch_uops = 0
  /\ sig.d_op = "NONE" /\ nxt.d_op = "NONE"

(* At most one micro-op waits for Execute, with the right operands. *)
Waits ==
  /\ Len(de_uop_queue) <= 1
  /\ de_uop_queue # <<>> => Ready(de_uop_queue[1])

(* The inductive invariant of a register program. *)
RegisterInv == Quiescent /\ Forwarding /\ Decoded /\ Waits

-----------------------------------------------------------------------------
(* The sequential machine on an instruction of one micro-op. *)

(* The machine Isa describes computes what Execute's switch computes. *)
LEMMA SameArithmetic ==
  ASSUME NEW u, NEW f
  PROVE  Abstract!Results(u, f) = Results(u, f) /\ Abstract!Taken(u, f) = Taken(u, f)
<1>1. Abstract!Results(u, f) = Results(u, f)
  BY DEF Abstract!Results, Results, Abstract!Trunc, Trunc, Abstract!Negative, Negative,
         Abstract!SignBit, SignBit, Abstract!Bitwise2, Bitwise2, Abstract!And, And,
         Abstract!Or, Or, Abstract!Xor, Xor, Abstract!CmpFlags, CmpFlags,
         Abstract!TestFlags, TestFlags, Abstract!Taken, Taken, Abstract!Shifts, Shifts,
         Abstract!Cmovs, Cmovs, Abstract!MulResults, MulResults,
         Abstract!ImulResults, ImulResults, Abstract!IdivResults, IdivResults,
         Abstract!DivResults, DivResults, Abstract!ShiftResults, ShiftResults,
         Abstract!Result, Result, Abstract!Signed, Signed, Abstract!Quotient, Quotient,
         Abstract!Remainder, Remainder, Abstract!Magnitude, Magnitude, Abstract!Bit, Bit,
         Abstract!LowHalf, LowHalf, Abstract!WithCarryOverflow, WithCarryOverflow,
         Abstract!Word, Word
<1>2. Abstract!Taken(u, f) = Taken(u, f)
  BY DEF Abstract!Taken, Taken
<1> QED BY <1>1, <1>2

(* An instruction of one micro-op, as Isa reads it. *)
LEMMA OneUop ==
  ASSUME NEW a, Len(program[a].uops) = 1
  PROVE  LET t == program[a].uops[1]
             u == Abstract!Instruction(a)
         IN /\ Len(u) = 1
            /\ u[1] = [src |-> t.src, address |-> a, opcode |-> t.opcode,
                       reg1 |-> t.reg1, value1 |-> 0, reg2 |-> t.reg2, value2 |-> 0,
                       reg3 |-> t.reg3, value3 |-> 0, immed |-> t.immed,
                       opsize |-> program[a].size]
  BY DEF Abstract!Instruction

(* Nothing comes before the only micro-op. *)
LEMMA NothingBefore ==
  ASSUME NEW m, NEW uops, Len(uops) = 1
  PROVE  Abstract!BeforeLast(m, uops) = m
<1> DEFINE TheOutcome(n, u) == CHOOSE r \in Abstract!Outcomes(n, u) : TRUE
           Body(g) == [i \in 0 .. Len(uops) - 1 |->
                         IF i = 0 THEN m
                         ELSE Abstract!Step(g[i - 1], uops[i], TheOutcome(g[i - 1], uops[i]))]
           run == CHOOSE g : g = Body(g)
<1>1. Abstract!BeforeLast(m, uops) = run[Len(uops) - 1]
  BY DEF Abstract!BeforeLast
<1>2. 0 .. Len(uops) - 1 = {0} /\ Len(uops) - 1 = 0
  OBVIOUS
<1> DEFINE h == [i \in {0} |-> m]
<1>3. h = Body(h)
  BY <1>2
<1>4. run = Body(run)
  BY <1>3
<1>5. Body(run)[0] = m
  <2> HIDE DEF run, TheOutcome
  <2> QED BY <1>2
<1> QED BY <1>1, <1>2, <1>4, <1>5

(* The micro-op of instruction a as Isa reads it, before its operands are. *)
Micro(a) ==
  LET t == program[a].uops[1]
  IN [src |-> t.src, address |-> a, opcode |-> t.opcode,
      reg1 |-> t.reg1, value1 |-> 0, reg2 |-> t.reg2, value2 |-> 0,
      reg3 |-> t.reg3, value3 |-> 0, immed |-> t.immed, opsize |-> program[a].size]

(* What the members of the class are not. *)
LEMMA Classified ==
  ASSUME NEW t, RegisterUop(t)
  PROVE  /\ t.opcode \notin {"mul", "div", "idiv", "load", "store", "push", "pushfq", "call",
                             "pop", "ret", "syscall"}
         /\ t.src # "IMUL_1" /\ t.src # "LOADMUL"
         /\ t.src = "IMUL_2I" => t.opcode = "imul"
         /\ t.src = "IMUL_3" => t.opcode = "imul"
         /\ TargetOf(t) \in GPR \cup {"none"}
         /\ TargetOf(t) = "none" <=> t.opcode \in Jumps \cup {"nop"}
<1>1. "rdx" \in GPR /\ "none" \notin GPR
  BY GPRAssumption, PseudoAssumption
<1>2. CASE t.opcode \in {"nop", "cqo"} /\ t.src = "NO_SRC"
  BY <1>1, <1>2 DEF TargetOf, Jumps, Unary
<1>3. CASE t.opcode \in Plain /\ HasSource(t) /\ t.reg2 \in GPR
  BY <1>1, <1>3 DEF TargetOf, Jumps, Unary, Plain, HasSource, Cmovs, Shifts
<1>4. CASE t.opcode \in Unary /\ t.src = "REG" /\ t.reg1 \in GPR
  BY <1>1, <1>4 DEF TargetOf, Jumps, Unary
<1>5. CASE t.opcode \in Jumps /\ HasSource(t) /\ t.reg2 = "none"
  BY <1>1, <1>5 DEF TargetOf, Jumps, Unary, HasSource
<1>6. CASE t.opcode = "imul" /\ t.reg2 \in GPR
           /\ (\/ t.src = "IMUL_2I"
               \/ t.src = "IMUL_2R" /\ t.reg1 \in GPR
               \/ t.src = "IMUL_3" /\ t.reg1 \in GPR /\ t.reg3 \in GPR \cup {"none"})
  BY <1>1, <1>6 DEF TargetOf, Jumps, Unary
<1> QED BY <1>2, <1>3, <1>4, <1>5, <1>6 DEF RegisterUop

(* What a register of the program holds for Isa. *)
LEMMA MachineValue ==
  ASSUME NEW u, NEW r \in GPR
  PROVE  Abstract!ValueOf(Abstract!Machine, u, r) = ArchRegs[r]
  BY PseudoAssumption DEF Abstract!ValueOf, Abstract!Machine

(* Isa reads the operands HasOperands speaks of. *)
LEMMA SequentialOperands ==
  ASSUME NEW a, RegisterUop(program[a].uops[1])
  PROVE  LET t == program[a].uops[1]
             v == Abstract!Operands(Abstract!Machine, Micro(a))
         IN /\ v.address = a /\ v.opsize = program[a].size /\ v.reg1 = t.reg1 /\ v.reg2 = t.reg2
            /\ HasOperands(v, t)
<1> DEFINE t == program[a].uops[1]
           u == Micro(a)
           m == Abstract!Machine
           v == Abstract!Operands(m, u)
<1>1. /\ u.src = t.src /\ u.address = a /\ u.opcode = t.opcode /\ u.reg1 = t.reg1
      /\ u.reg2 = t.reg2 /\ u.reg3 = t.reg3 /\ u.immed = t.immed /\ u.opsize = program[a].size
      /\ DOMAIN u = {"src", "address", "opcode", "reg1", "value1", "reg2", "value2", "reg3",
                     "value3", "immed", "opsize"}
  BY DEF Micro
<1> HIDE DEF u, m, t
<1>2. \A r \in GPR : Abstract!ValueOf(m, u, r) = ArchRegs[r]
  BY MachineValue DEF m
<1>3. /\ v.address = a /\ v.opsize = program[a].size /\ v.opcode = t.opcode /\ v.src = t.src
      /\ v.reg1 = t.reg1 /\ v.reg2 = t.reg2
      /\ v.value1 = IF Abstract!Immediate(u) THEN u.immed
                    ELSE Abstract!ValueOf(m, u, Abstract!Source(u))
      /\ v.value2 = Abstract!ValueOf(m, u, Abstract!Dest(u))
      /\ v.value3 = IF u.src = "IMUL_3" /\ u.reg3 = "none" THEN u.immed
                    ELSE Abstract!ValueOf(m, u, Abstract!Third(u))
  BY <1>1 DEF Abstract!Operands
<1> HIDE DEF v
<1>4. RegisterUop(t) /\ "rax" \in GPR
  BY GPRAssumption DEF t
<1>5. ~Abstract!Widening(u)
  BY <1>1, <1>4, Classified DEF Abstract!Widening
<1>6. t.opcode # "nop" => v.value1 = First(t)
  <2>1. CASE t.src \in {"IMMED", "IMUL_2I"}
    BY <1>1, <1>3, <2>1 DEF Abstract!Immediate, First
  <2>2. CASE t.opcode = "cqo"
    <3>1. t.src = "NO_SRC"
      BY <1>4, <2>2 DEF RegisterUop, Plain, Unary, Jumps, Cmovs, Shifts
    <3> QED BY <1>1, <1>2, <1>3, <1>4, <2>2, <3>1 DEF Abstract!Immediate, Abstract!Source, First
  <2>3. CASE t.src \notin {"IMMED", "IMUL_2I"} /\ t.opcode \notin {"nop", "cqo"}
    <3>1. t.reg1 \in GPR /\ t.src # "LOADMUL"
      BY <1>4, <2>3, Classified DEF RegisterUop, HasSource
    <3> QED BY <1>1, <1>2, <1>3, <2>3, <3>1 DEF Abstract!Immediate, Abstract!Source, First
  <2> QED BY <2>1, <2>2, <2>3
<1>7. t.opcode \in Plain \cup {"imul"} => v.value2 = Second(t)
  <2> SUFFICES ASSUME t.opcode \in Plain \cup {"imul"} PROVE v.value2 = Second(t)
    OBVIOUS
  <2>1. t.reg2 \in GPR /\ t.opcode \notin {"cqo", "dec", "inc", "neg"}
    BY <1>4 DEF RegisterUop, Plain, Cmovs, Shifts, Unary, Jumps
  <2>2. Abstract!Dest(u) = t.reg2
    BY <1>1, <1>5, <2>1 DEF Abstract!Dest
  <2> QED BY <1>2, <1>3, <2>1, <2>2 DEF Second
<1>8. t.src = "IMUL_3" => v.value3 = Third(t)
  <2> SUFFICES ASSUME t.src = "IMUL_3" PROVE v.value3 = Third(t)
    OBVIOUS
  <2>1. t.reg3 \in GPR \cup {"none"}
    BY <1>4 DEF RegisterUop, HasSource
  <2>2. Abstract!Third(u) = t.reg3
    BY <1>1, <1>5 DEF Abstract!Third
  <2> QED BY <1>1, <1>2, <1>3, <2>1, <2>2 DEF Third
<1>9. HasOperands(v, t)
  BY <1>3, <1>6, <1>7, <1>8 DEF HasOperands
<1> QED BY <1>3, <1>9 DEF v, u, m, t

(* The results with values in S, third operand c and flags f. *)
Handed(S, c, f) == {Result(x, c, f) : x \in S}

(* A third operand that is handed through changes nothing else. *)
LEMMA HandedThrough ==
  ASSUME NEW S, NEW f, NEW c, NEW d, NEW r \in Handed(S, c, f)
  PROVE  \E s \in Handed(S, d, f) : s.flags = r.flags /\ s.value2 = r.value2
<1>1. PICK x \in S : r = Result(x, c, f)
  BY DEF Handed
<1>2. Result(x, d, f).flags = r.flags /\ Result(x, d, f).value2 = r.value2
  BY <1>1 DEF Result
<1> QED BY <1>2 DEF Handed

(* ... nor does it with a single result. *)
LEMMA OneHandedThrough ==
  ASSUME NEW x, NEW f, NEW c, NEW d, NEW r \in {Result(x, c, f)}
  PROVE  \E s \in {Result(x, d, f)} : s.flags = r.flags /\ s.value2 = r.value2
  BY DEF Result

(* Micro-ops with the same operands have the same results; a jump and a nop *)
(* have none but the flags.                                                *)
LEMMA SameResults ==
  ASSUME NEW t, RegisterUop(t), NEW v, HasOperands(v, t), NEW w, HasOperands(w, t),
         NEW f, NEW r \in Results(v, f)
  PROVE  \E s \in Results(w, f) : /\ s.flags = r.flags
                                  /\ TargetOf(t) # "none" => s.value2 = r.value2
<1> DEFINE Single(x, g) == /\ Results(v, f) = {Result(x, v.value3, g)}
                           /\ Results(w, f) = {Result(x, w.value3, g)}
           Several(S) == /\ Results(v, f) = Handed(S, v.value3, f)
                         /\ Results(w, f) = Handed(S, w.value3, f)
<1>1. /\ v.opcode = t.opcode /\ w.opcode = t.opcode /\ v.src = t.src /\ w.src = t.src
      /\ t.opcode # "nop" => v.value1 = w.value1
      /\ t.opcode \in Plain \cup {"imul"} => v.value2 = w.value2
      /\ t.src = "IMUL_3" => v.value3 = w.value3
  BY DEF HasOperands
<1>2. ASSUME NEW x, NEW g, Single(x, g)
      PROVE  \E s \in Results(w, f) : s.flags = r.flags /\ s.value2 = r.value2
  BY <1>2, OneHandedThrough
<1>3. ASSUME NEW S, Several(S)
      PROVE  \E s \in Results(w, f) : s.flags = r.flags /\ s.value2 = r.value2
  BY <1>3, HandedThrough
<1>4. CASE t.opcode \in Jumps \cup {"nop"}
  <2>1. TargetOf(t) = "none"
    BY <1>4, Classified
  <2>2. /\ Results(v, f) = {Result(v.value2, v.value3, f)}
        /\ Results(w, f) = {Result(w.value2, w.value3, f)}
    BY <1>1, <1>4 DEF Results, Jumps, Cmovs, Shifts
  <2> QED BY <2>1, <2>2 DEF Result
<1>5. CASE t.opcode \in {"cqo"} \cup Unary
  <2> DEFINE a == v.value1
  <2>1. w.value1 = a
    BY <1>1, <1>5 DEF Unary
  <2>2. t.opcode = "cqo" => Single(IF Negative(a) THEN WordMod - 1 ELSE 0, f)
    BY <1>1, <2>1 DEF Results, Cmovs, Shifts
  <2>3. t.opcode = "inc" => Single(Trunc(a + 1), f)
    BY <1>1, <2>1 DEF Results, Cmovs, Shifts
  <2>4. t.opcode = "dec" => Single(Trunc(a - 1), f)
    BY <1>1, <2>1 DEF Results, Cmovs, Shifts
  <2>5. t.opcode = "neg" => Single(Trunc(-a), [f EXCEPT !.CF = a # 0])
    BY <1>1, <2>1 DEF Results, Cmovs, Shifts
  <2> HIDE DEF Single, a
  <2> QED BY <1>2, <1>5, <2>2, <2>3, <2>4, <2>5 DEF Unary
<1>6. CASE t.opcode \in Plain
  <2> DEFINE a == v.value1
             b == v.value2
  <2>1. w.value1 = a /\ w.value2 = b
    BY <1>1, <1>6 DEF Plain, Cmovs, Shifts
  <2>2. t.opcode = "mov" => Single(a, f)
    BY <1>1, <2>1 DEF Results, Cmovs, Shifts
  <2>3. t.opcode = "add" => Single(Trunc(b + a), f)
    BY <1>1, <2>1 DEF Results, Cmovs, Shifts
  <2>4. t.opcode = "sub" => Single(Trunc(b - a), f)
    BY <1>1, <2>1 DEF Results, Cmovs, Shifts
  <2>5. t.opcode = "and" => Several(Bitwise2(And, a, b))
    BY <1>1, <2>1 DEF Results, Cmovs, Shifts, Handed
  <2>6. t.opcode = "or" => Several(Bitwise2(Or, a, b))
    BY <1>1, <2>1 DEF Results, Cmovs, Shifts, Handed
  <2>7. t.opcode = "xor" => Several(Bitwise2(Xor, a, b))
    BY <1>1, <2>1 DEF Results, Cmovs, Shifts, Handed
  <2>8. t.opcode = "test" => Single(b, TestFlags(a, b))
    BY <1>1, <2>1 DEF Results, Cmovs, Shifts
  <2>9. t.opcode = "cmp" => Single(b, CmpFlags(a, b))
    BY <1>1, <2>1 DEF Results, Cmovs, Shifts
  <2>10. t.opcode \in Cmovs => Single(IF Taken(t.opcode, f) THEN a ELSE b, f)
    BY <1>1, <2>1 DEF Results, Cmovs, Shifts
  <2>11. t.opcode \in Shifts => \E x, g : Single(x, g)
    <3> SUFFICES ASSUME t.opcode \in Shifts PROVE \E x, g : Single(x, g)
      OBVIOUS
    <3>1. /\ Results(v, f) = ShiftResults(t.opcode, a, b, v.value3, f)
          /\ Results(w, f) = ShiftResults(t.opcode, a, b, w.value3, f)
      BY <1>1, <2>1 DEF Results, Shifts, Cmovs
    <3>2. \E x, g : \A c : ShiftResults(t.opcode, a, b, c, f) = {Result(x, c, g)}
      BY DEF ShiftResults
    <3> QED BY <3>1, <3>2
  <2> HIDE DEF Single, Several, a, b
  <2> QED BY <1>2, <1>3, <1>6, <2>2, <2>3, <2>4, <2>5, <2>6, <2>7, <2>8, <2>9, <2>10, <2>11
          DEF Plain
<1>7. CASE t.opcode = "imul"
  <2>1. v.value1 = w.value1 /\ v.value2 = w.value2
    BY <1>1, <1>7
  <2>2. /\ Results(v, f) = ImulResults(t.src, v.value1, v.value2, v.value3, f)
        /\ Results(w, f) = ImulResults(t.src, v.value1, v.value2, w.value3, f)
    BY <1>1, <1>7, <2>1 DEF Results, Cmovs, Shifts
  <2>3. CASE t.src \in {"IMUL_2R", "IMUL_2I"}
    <3> DEFINE x == Trunc(Signed(v.value2) * Signed(v.value1))
               g == WithCarryOverflow(f, Signed(x) * Signed(v.value1) # Signed(x))
    <3>1. \A c : ImulResults(t.src, v.value1, v.value2, c, f) = {Result(x, c, g)}
      BY <2>3 DEF ImulResults
    <3> HIDE DEF x, g
    <3> QED BY <1>2, <2>2, <3>1
  <2>4. CASE t.src = "IMUL_3"
    BY <1>1, <2>2, <2>4
  <2> QED BY <1>7, <2>3, <2>4 DEF RegisterUop, Plain, Unary, Jumps, Cmovs, Shifts
<1> QED BY <1>4, <1>5, <1>6, <1>7 DEF RegisterUop

(* Truncating an address before an offset is added changes nothing.        *)
LEMMA TruncTwice ==
  ASSUME NEW a \in Word, NEW s \in 1 .. WordMod - 1, NEW x \in Word
  PROVE  Trunc(Trunc(a + s) + x) = Trunc(a + s + x)
<1> DEFINE n == a + s
<1>1. /\ n \in Nat /\ n < 2 * WordMod /\ x \in Nat /\ x < WordMod /\ WordMod \in Nat /\ WordMod > 0
  BY WordModAssumption DEF Word
<1> HIDE DEF n
<1>2. CASE n < WordMod
  <2>1. n % WordMod = n
    BY <1>1, <1>2, Z3
  <2> QED BY <2>1 DEF Trunc, n
<1>3. CASE n >= WordMod
  <2>1. n % WordMod = n - WordMod
    BY <1>1, <1>3, Z3
  <2>2. (n - WordMod + x) % WordMod = (n + x) % WordMod
    <3> DEFINE z == n - WordMod + x
    <3>1. z \in Nat /\ z < 2 * WordMod /\ n + x = z + WordMod
      BY <1>1, <1>3
    <3> HIDE DEF z
    <3>2. CASE z < WordMod
      <4>1. z % WordMod = z /\ (z + WordMod) % WordMod = z
        BY <1>1, <3>1, <3>2, Z3
      <4> QED BY <3>1, <4>1 DEF z
    <3>3. CASE z >= WordMod
      <4>1. z % WordMod = z - WordMod /\ (z + WordMod) % WordMod = z - WordMod
        BY <1>1, <3>1, <3>3, Z3
      <4> QED BY <3>1, <4>1 DEF z
    <3> QED BY <1>1, <3>1, <3>2, <3>3
  <2> QED BY <2>1, <2>2 DEF Trunc, n
<1> QED BY <1>1, <1>2, <1>3

(* What Isa makes of the registers, the flags and the memory ...           *)
LEMMA SequentialStep ==
  ASSUME NEW a, RegisterUop(program[a].uops[1]), NEW s
  PROVE  LET t == program[a].uops[1]
             after == Abstract!Step(Abstract!Machine, Micro(a), s)
         IN /\ \A g \in GPR : after.regs[g] = IF g = TargetOf(t) THEN s.value2 ELSE ArchRegs[g]
            /\ after.flags = IF t.opcode = "nop" THEN ex.eflags ELSE s.flags
            /\ after.memory = ArchMem
<1> DEFINE t == program[a].uops[1]
           m == Abstract!Machine
           v == Abstract!Operands(m, Micro(a))
           d == Abstract!Dest(v)
<1>1. v.opcode = t.opcode /\ v.src = t.src /\ v.reg1 = t.reg1 /\ v.reg2 = t.reg2
  BY SequentialOperands DEF HasOperands
<1>2. /\ DOMAIN m = {"regs", "flags", "memory"} /\ m.flags = ex.eflags /\ m.memory = ArchMem
      /\ DOMAIN m.regs = GPR \cup {"scratchls", "loadstore"}
      /\ \A g \in GPR : m.regs[g] = ArchRegs[g]
  BY DEF Abstract!Machine, Abstract!Temporaries
<1> HIDE DEF v, m
<1>3. /\ v.opcode \notin {"mul", "div", "idiv", "load", "store", "push", "pushfq", "call",
                          "pop", "ret", "syscall"}
      /\ ~Abstract!Widening(v)
  BY <1>1, Classified DEF Abstract!Widening
<1>4. CASE t.opcode = "nop"
  <2>1. Abstract!Step(m, Micro(a), s) = m
    BY <1>1, <1>3, <1>4 DEF Abstract!Step, v, m
  <2>2. TargetOf(t) \notin GPR
    BY <1>4, Classified, PseudoAssumption
  <2> QED BY <1>2, <1>4, <2>1, <2>2 DEF m
<1>5. CASE t.opcode # "nop"
  <2>1. Abstract!Step(m, Micro(a), s) = [Abstract!WithReg(m, d, s.value2) EXCEPT !.flags = s.flags]
    BY <1>1, <1>3, <1>5 DEF Abstract!Step, v
  <2>2. d = TargetOf(t) /\ d \notin {"scratchls", "loadstore"}
    <3>1. TargetOf(t) \in GPR \cup {"none"}
      BY Classified
    <3>2. d = IF t.opcode = "cqo" THEN "rdx" ELSE IF t.opcode \in Unary THEN t.reg1 ELSE t.reg2
      BY <1>1, <1>3 DEF Abstract!Dest, Unary
    <3>3. t.opcode \in Jumps => t.reg2 = "none"
      BY DEF RegisterUop, Plain, Unary, Jumps, Cmovs, Shifts
    <3>4. d = TargetOf(t)
      BY <1>5, <3>2, <3>3 DEF TargetOf, Jumps, Unary
    <3> QED BY <3>1, <3>4, PseudoAssumption
  <2> HIDE DEF d
  <2>3. CASE d \in GPR
    <3>1. Abstract!WithReg(m, d, s.value2) = [m EXCEPT !.regs[d] = s.value2]
      BY <1>2, <2>3 DEF Abstract!WithReg
    <3> QED BY <1>2, <1>5, <2>1, <2>2, <2>3, <3>1 DEF m
  <2>4. CASE d \notin GPR
    <3>1. Abstract!WithReg(m, d, s.value2) = m
      BY <1>2, <2>2, <2>4 DEF Abstract!WithReg
    <3> QED BY <1>2, <1>5, <2>1, <2>2, <2>4, <3>1 DEF m
  <2> QED BY <2>3, <2>4
<1> QED BY <1>4, <1>5

(* The address after the instruction at a, or the one it jumps to. *)
Onward(a) ==
  LET t == program[a].uops[1]
      next == a + program[a].size
  IN IF t.opcode \in Jumps /\ Taken(t.opcode, ex.eflags)
     THEN IF t.src = "REG" THEN First(t) ELSE Trunc(next + First(t))
     ELSE Trunc(next)

(* ... and where it goes on. *)
LEMMA SequentialPc ==
  ASSUME NEW a \in Word, RegisterUop(program[a].uops[1]), program[a].size \in 1 .. WordMod - 1,
         First(program[a].uops[1]) \in Word \/ program[a].uops[1].opcode \notin Jumps
  PROVE  Abstract!NextPc(Abstract!Machine, Micro(a)) = Onward(a)
<1> DEFINE t == program[a].uops[1]
           m == Abstract!Machine
           v == Abstract!Operands(m, Micro(a))
           next == Abstract!Trunc(a + program[a].size)
<1>1. v.opcode = t.opcode /\ v.src = t.src /\ (t.opcode # "nop" => v.value1 = First(t))
  BY SequentialOperands DEF HasOperands
<1>2. m.flags = ex.eflags
  BY DEF Abstract!Machine
<1>3. Micro(a).address = a /\ Micro(a).opsize = program[a].size
  BY DEF Micro
<1>4. t.opcode \notin {"ret", "call"}
  BY Classified
<1>5. \A n : Abstract!Trunc(n) = Trunc(n)
  BY DEF Abstract!Trunc, Trunc
<1> HIDE DEF v, m
<1>6. Abstract!NextPc(m, Micro(a)) =
        IF v.opcode \in Abstract!Jumps /\ Abstract!Taken(v.opcode, m.flags)
        THEN IF v.src = "REG" THEN v.value1 ELSE Abstract!Trunc(next + v.value1)
        ELSE next
  BY <1>1, <1>3, <1>4 DEF Abstract!NextPc, v
<1>7. Abstract!Jumps = Jumps /\ "nop" \notin Jumps
  BY DEF Abstract!Jumps, Jumps
<1>8. Abstract!NextPc(m, Micro(a)) =
        IF t.opcode \in Jumps /\ Taken(t.opcode, ex.eflags)
        THEN IF t.src = "REG" THEN First(t) ELSE Trunc(Trunc(a + program[a].size) + First(t))
        ELSE Trunc(a + program[a].size)
  BY <1>1, <1>2, <1>5, <1>6, <1>7, SameArithmetic
<1>9. t.opcode \in Jumps => Trunc(Trunc(a + program[a].size) + First(t))
                            = Trunc(a + program[a].size + First(t))
  BY TruncTwice
<1> QED BY <1>8, <1>9 DEF Onward, m, t

(* A step that leaves what the sequential machine leaves is one of its.    *)
LEMMA SequentialExecute ==
  ASSUME arch_pc \in DOMAIN program, arch_pc \in Word, RegisterProgram(program),
         program[arch_pc].size \in 1 .. WordMod - 1,
         First(program[arch_pc].uops[1]) \in Word \/ program[arch_pc].uops[1].opcode \notin Jumps,
         NEW v, HasOperands(v, program[arch_pc].uops[1]), NEW r \in Results(v, ex.eflags),
         halted = "no", UNCHANGED <<program, brk_val, out, halted, ArchMem>>,
         arch_pc' = Onward(arch_pc), (ex').eflags = r.flags,
         ArchRegs' = [g \in GPR |-> IF g = TargetOf(program[arch_pc].uops[1]) THEN r.value2
                                    ELSE ArchRegs[g]]
  PROVE  Abstract!Next
<1> DEFINE a == arch_pc
           t == program[a].uops[1]
           m == Abstract!Machine
           w == Abstract!Operands(m, Micro(a))
<1>1. RegisterUop(t) /\ Len(program[a].uops) = 1
  BY DEF RegisterProgram
<1>2. Len(Abstract!Instruction(a)) = 1 /\ Abstract!Instruction(a)[1] = Micro(a)
  BY <1>1, OneUop DEF Micro
<1>3. Abstract!BeforeLast(m, Abstract!Instruction(a)) = m
  BY <1>2, NothingBefore
<1>4. HasOperands(w, t)
  BY <1>1, SequentialOperands
<1>5. PICK s \in Results(w, ex.eflags) :
        s.flags = r.flags /\ (TargetOf(t) # "none" => s.value2 = r.value2)
  BY <1>1, <1>4, SameResults
<1>6. s \in Abstract!Outcomes(m, Micro(a))
  <2>1. m.flags = ex.eflags
    BY DEF Abstract!Machine
  <2> HIDE DEF m
  <2> QED BY <1>5, <2>1, SameArithmetic DEF Abstract!Outcomes, w
<1> DEFINE after == Abstract!Step(m, Micro(a), s)
<1>7. /\ \A g \in GPR : after.regs[g] = IF g = TargetOf(t) THEN s.value2 ELSE ArchRegs[g]
      /\ after.flags = IF t.opcode = "nop" THEN ex.eflags ELSE s.flags
      /\ after.memory = ArchMem
  BY <1>1, SequentialStep
<1>8. Abstract!NextPc(m, Micro(a)) = Onward(a)
  BY <1>1, SequentialPc
<1> HIDE DEF after, m, w
<1>9. (ex').eflags = after.flags
  <2>1. CASE t.opcode = "nop"
    <3>1. w.opcode = "nop"
      BY <1>4, <2>1 DEF HasOperands
    <3>2. Results(w, ex.eflags) = {Result(w.value2, w.value3, ex.eflags)}
      BY <3>1 DEF Results, Cmovs, Shifts
    <3> QED BY <1>5, <1>7, <2>1, <3>2 DEF Result
  <2> QED BY <1>5, <1>7, <2>1
<1>10. ArchRegs' = [g \in GPR |-> after.regs[g]]
  <2>1. TargetOf(t) \in GPR \cup {"none"} /\ "none" \notin GPR
    BY <1>1, Classified, PseudoAssumption
  <2>2. \A g \in GPR : (IF g = TargetOf(t) THEN r.value2 ELSE ArchRegs[g]) = after.regs[g]
    BY <1>5, <1>7, <2>1
  <2> QED BY <2>2
<1>11. ~Abstract!IsSyscall(a)
  BY <1>1, Classified DEF Abstract!IsSyscall
<1>12. Abstract!Execute
  BY <1>2, <1>3, <1>6, <1>7, <1>8, <1>9, <1>10, <1>11 DEF Abstract!Execute, after, m
<1> QED BY <1>12 DEF Abstract!Next

(* Where the switch has no result, the machine has none. *)
LEMMA SequentialFault ==
  ASSUME arch_pc \in DOMAIN program, RegisterProgram(program),
         NEW v, HasOperands(v, program[arch_pc].uops[1]), Results(v, ex.eflags) = {},
         halted = "no", halted' = "abort",
         UNCHANGED <<program, arch_pc, brk_val, out, ArchMem, ArchRegs>>, (ex').eflags = ex.eflags
  PROVE  Abstract!Next
<1> DEFINE a == arch_pc
           t == program[a].uops[1]
           m == Abstract!Machine
           w == Abstract!Operands(m, Micro(a))
<1>1. RegisterUop(t) /\ Len(program[a].uops) = 1
  BY DEF RegisterProgram
<1>2. Len(Abstract!Instruction(a)) = 1 /\ Abstract!Instruction(a)[1] = Micro(a)
  BY <1>1, OneUop DEF Micro
<1>3. Abstract!BeforeLast(m, Abstract!Instruction(a)) = m
  BY <1>2, NothingBefore
<1>4. HasOperands(w, t)
  BY <1>1, SequentialOperands
<1>5. Results(w, ex.eflags) = {}
  BY <1>1, <1>4, SameResults
<1>6. Abstract!Outcomes(m, Micro(a)) = {}
  <2>1. m.flags = ex.eflags
    BY DEF Abstract!Machine
  <2> HIDE DEF m
  <2> QED BY <1>5, <2>1, SameArithmetic DEF Abstract!Outcomes, w
<1>7. ~Abstract!IsSyscall(a)
  BY <1>1, Classified DEF Abstract!IsSyscall
<1> HIDE DEF m, w
<1>8. Abstract!Fault
  BY <1>2, <1>3, <1>6, <1>7 DEF Abstract!Fault, m
<1> QED BY <1>8 DEF Abstract!Next

-----------------------------------------------------------------------------
(* The registers a program sees, while micro-ops are on their way. *)

(* A simple micro-op retires into its destination. *)
LEMMA RetiredSimple ==
  ASSUME NEW rf, NEW u, Simple(u), GPR \subseteq DOMAIN rf
  PROVE  /\ DOMAIN Retired(rf, u) = DOMAIN rf
         /\ \A r \in GPR : Retired(rf, u)[r] = IF r = u.reg2 THEN u.value2 ELSE rf[r]
  BY PseudoAssumption DEF Retired, Simple

(* The register file once the queue has drained, read recursively. *)
LEMMA RunIsSettled ==
  ASSUME NEW rf, NEW q, Len(q) \in 0 .. 2
  PROVE  LET run[i \in 0 .. Len(q)] == IF i = 0 THEN rf ELSE Retired(run[i - 1], q[i])
         IN run[Len(q)] = Settled(rf, q)
<1> DEFINE n == Len(q)
           Body(g) == [i \in 0 .. n |-> IF i = 0 THEN rf ELSE Retired(g[i - 1], q[i])]
           run == CHOOSE g : g = Body(g)
           h == [i \in 0 .. n |-> CASE i = 0 -> rf
                                    [] i = 1 -> Retired(rf, q[1])
                                    [] OTHER -> Retired(Retired(rf, q[1]), q[2])]
<1>1. h = Body(h)
  <2>1. ASSUME NEW i \in 0 .. n
        PROVE  h[i] = IF i = 0 THEN rf ELSE Retired(h[i - 1], q[i])
    <3>1. CASE i = 0
      BY <3>1
    <3>2. CASE i = 1
      <4>1. 0 \in 0 .. n /\ i - 1 = 0
        BY <3>2
      <4> QED BY <3>2, <4>1
    <3>3. CASE i = 2
      <4>1. 1 \in 0 .. n /\ i - 1 = 1
        BY <3>3
      <4> QED BY <3>3, <4>1
    <3> QED BY <3>1, <3>2, <3>3
  <2> QED BY <2>1
<1>2. run = Body(run)
  <2> HIDE DEF h
  <2> QED BY <1>1
<1>3. run[n] = Settled(rf, q)
  <2> HIDE DEF run, h
  <2>1. \A i \in 0 .. n : run[i] = IF i = 0 THEN rf ELSE Retired(run[i - 1], q[i])
    BY <1>2
  <2>2. run[0] = rf
    BY <2>1
  <2>3. CASE n = 0
    BY <2>2, <2>3 DEF Settled
  <2>4. n >= 1 => run[1] = Retired(rf, q[1])
    <3>1. n >= 1 => 1 \in 0 .. n /\ 1 - 1 = 0
      OBVIOUS
    <3> QED BY <2>1, <2>2, <3>1
  <2>5. CASE n = 1
    BY <2>4, <2>5 DEF Settled
  <2>6. CASE n = 2
    <3>1. 2 \in 0 .. n /\ 2 - 1 = 1
      BY <2>6
    <3>2. run[2] = Retired(Retired(rf, q[1]), q[2])
      BY <2>1, <2>4, <2>6, <3>1
    <3> QED BY <2>6, <3>2 DEF Settled
  <2> QED BY <2>3, <2>5, <2>6
<1> QED BY <1>3

(* With two results at most on their way, the registers of the program are  *)
(* those the micro-ops settle.                                             *)
LEMMA ArchRegsIs ==
  ASSUME Len(ew_uop_queue) \in 0 .. 2
  PROVE  ArchRegs = [r \in GPR |-> IF r = "rsp" /\ ex.stackpointer # 0 THEN ex.stackpointer
                                   ELSE Settled(regfile, ew_uop_queue)[r]]
<1> DEFINE run[i \in 0 .. Len(ew_uop_queue)] ==
             IF i = 0 THEN regfile ELSE Retired(run[i - 1], ew_uop_queue[i])
<1>1. run[Len(ew_uop_queue)] = Settled(regfile, ew_uop_queue)
  BY RunIsSettled
<1>2. ArchRegs = [r \in GPR |-> IF r = "rsp" /\ ex.stackpointer # 0 THEN ex.stackpointer
                                ELSE run[Len(ew_uop_queue)][r]]
  BY DEF ArchRegs
<1> HIDE DEF run
<1> QED BY <1>1, <1>2

(* Execute queues a result behind the others ... *)
LEMMA SettledAppend ==
  ASSUME NEW rf, NEW q \in Seq(Uop), Len(q) \in 0 .. 1, NEW u \in Uop
  PROVE  Settled(rf, Append(q, u)) = Retired(Settled(rf, q), u)
<1>1. /\ Len(Append(q, u)) = Len(q) + 1 /\ Append(q, u)[Len(q) + 1] = u
      /\ \A i \in 1 .. Len(q) : Append(q, u)[i] = q[i]
  BY AppendProperties
<1>2. CASE Len(q) = 0
  BY <1>1, <1>2 DEF Settled
<1>3. CASE Len(q) = 1
  <2> DEFINE p == Append(q, u)
  <2>1. Len(p) = 2 /\ p[1] = q[1] /\ p[2] = u
    BY <1>1, <1>3
  <2> HIDE DEF p
  <2>2. Settled(rf, p) = Retired(Retired(rf, q[1]), u)
    BY <2>1 DEF Settled
  <2>3. Settled(rf, q) = Retired(rf, q[1])
    BY <1>3 DEF Settled
  <2> HIDE DEF p
  <2> QED BY <2>2, <2>3 DEF p
<1> QED BY <1>2, <1>3

(* ... and Writeback retires the oldest: the registers are the same. *)
LEMMA SettledTail ==
  ASSUME NEW rf, NEW q \in Seq(Uop), Len(q) \in 1 .. 2
  PROVE  Settled(Retired(rf, Head(q)), Tail(q)) = Settled(rf, q)
<1>1. Head(q) = q[1] /\ Len(Tail(q)) = Len(q) - 1
      /\ (Len(q) = 2 => Tail(q)[1] = q[2])
  OBVIOUS
<1>2. CASE Len(q) = 1
  BY <1>1, <1>2 DEF Settled
<1>3. CASE Len(q) = 2
  BY <1>1, <1>3 DEF Settled
<1> QED BY <1>1, <1>2, <1>3

(* What is on the way is what forwarding gives.                            *)
LEMMA ForwardingComplete ==
  ASSUME Forwarding, Len(ew_uop_queue) \in 0 .. 2, NEW r \in GPR
  PROVE  Latest(r, regfile[r]) = ArchRegs[r]
  BY ArchRegsIs DEF Forwarding, Remembered, Latest

(* ... in the next state too.                                              *)
LEMMA ArchRegsNext ==
  ASSUME (Len(ew_uop_queue) \in 0 .. 2)'
  PROVE  ArchRegs' = [r \in GPR |-> IF r = "rsp" /\ ex'.stackpointer # 0 THEN ex'.stackpointer
                                    ELSE Settled(regfile', ew_uop_queue')[r]]
<1> DEFINE run[i \in 0 .. Len(ew_uop_queue')] ==
             IF i = 0 THEN regfile' ELSE Retired(run[i - 1], ew_uop_queue'[i])
<1>1. run[Len(ew_uop_queue')] = Settled(regfile', ew_uop_queue')
  BY RunIsSettled
<1>2. ArchRegs' = [r \in GPR |-> IF r = "rsp" /\ ex'.stackpointer # 0 THEN ex'.stackpointer
                                 ELSE run[Len(ew_uop_queue')][r]]
  BY DEF ArchRegs
<1> HIDE DEF run
<1> QED BY <1>1, <1>2

(* The queue before Writeback is short. *)
LEMMA QueueShort == ASSUME IInv PROVE Len(ew_uop_queue) \in 0 .. 2
<1>1. ew_uop_queue \in Seq(Uop) /\ Len(ew_uop_queue) <= 2
  BY DEF IInv, TypeOK, CommonTypeOK, Handshake
<1> DEFINE n == Len(ew_uop_queue)
<1>2. n \in Nat /\ n <= 2
  BY <1>1, EmptySeq
<1> HIDE DEF n
<1>3. n \in 0 .. 2
  BY <1>2
<1> QED BY <1>3 DEF n

(* ... in the next state too.                                              *)
LEMMA QueueShortNext == ASSUME IInv' PROVE (Len(ew_uop_queue) \in 0 .. 2)'
<1>1. ew_uop_queue' \in Seq(Uop) /\ Len(ew_uop_queue') <= 2
  BY DEF IInv, TypeOK, CommonTypeOK, Handshake
<1> DEFINE n == Len(ew_uop_queue')
<1>2. n \in Nat /\ n <= 2
  BY <1>1, EmptySeq
<1> HIDE DEF n
<1>3. n \in 0 .. 2
  BY <1>2
<1> QED BY <1>3 DEF n

-----------------------------------------------------------------------------
(* Every step is one of the sequential machine or leaves it alone.         *)

(* The sequential machine rests. *)
Stutters == UNCHANGED <<program, arch_pc, ArchRegs, ex.eflags, ArchMem, brk_val, out, halted>>

(* Nothing is ever written to memory. *)
LEMMA ArchMemIs ==
  ASSUME Quiescent
  PROVE  ArchMem = mem
  BY DEF ArchMem, WithWrite, Quiescent
(* ... in the next state too. *)
LEMMA ArchMemNext ==
  ASSUME (sig.d_op = "NONE" /\ nxt.d_op = "NONE")'
  PROVE  ArchMem' = mem'
  BY DEF ArchMem, WithWrite

(* A micro-op stays ready as long as Execute and the registers rest.       *)
LEMMA ReadyKept ==
  ASSUME NEW u, Ready(u), UNCHANGED <<program, ex, ArchRegs>>
  PROVE  Ready(u)'
<1> DEFINE t == program[u.address].uops[1]
           v == Forwarded(u)
<1>1. Forwarded(u)' = v
  BY DEF Forwarded, Latest, OrOffset
<1>2. u.address \in DOMAIN program /\ program' = program /\ u.opsize = program[u.address].size
      /\ HasOperands(v, t) /\ (IF u.opcode \in Unary THEN u.reg1 ELSE u.reg2) = TargetOf(t)
  BY DEF Ready
<1> HIDE DEF v, t
<1>3. First(t)' = First(t) /\ Second(t)' = Second(t) /\ Third(t)' = Third(t) /\ t' = t
  BY <1>2 DEF First, Second, Third, t
<1> QED BY <1>1, <1>2, <1>3 DEF Ready, HasOperands, t

(* Steps that leave the registers, the results on their way and memory.    *)
LEMMA KeptRegister ==
  ASSUME RegisterInv, IInv, IInv',
         UNCHANGED <<regfile, ew_uop_queue, ex, mem, program, arch_uops>>,
         (sig.d_op = "NONE" /\ nxt.d_op = "NONE")'
  PROVE  /\ UNCHANGED <<ArchRegs, ArchMem>>
         /\ Quiescent' /\ Forwarding'
         /\ de_uop_queue' = de_uop_queue => Waits'
<1>1. ArchRegs' = ArchRegs
  BY QueueShort, QueueShortNext, ArchRegsIs, ArchRegsNext
<1>2. ArchMem' = ArchMem
  BY ArchMemIs, ArchMemNext DEF RegisterInv
<1>3. Quiescent' /\ Forwarding'
  BY DEF RegisterInv, Quiescent, Forwarding, Remembered, RegisterProgram
<1>4. de_uop_queue' = de_uop_queue => Waits'
  BY <1>1, ReadyKept DEF RegisterInv, Waits
<1> QED BY <1>1, <1>2, <1>3, <1>4

(* Steps on the signals alone. *)
LEMMA AsideRegister ==
  ASSUME RegisterInv, IInv, IInv',
         UNCHANGED <<regfile, ew_uop_queue, dd_uop_queue, de_uop_queue, ex, mem, brk_val, out,
                     program, fetch_pc, arch_pc, arch_uops>>,
         (halted = "no")' => (halted = "no" /\ (sig.clear => sig'.clear \/ dd_uop_queue = <<>>)),
         (sig.d_op = "NONE" /\ nxt.d_op = "NONE")'
  PROVE  RegisterInv' /\ UNCHANGED <<ArchRegs, ArchMem>>
<1>1. UNCHANGED <<ArchRegs, ArchMem>> /\ Quiescent' /\ Forwarding' /\ Waits'
  BY KeptRegister
<1>2. Decoded'
  BY DEF RegisterInv, Decoded, FromProgram
<1> QED BY <1>1, <1>2 DEF RegisterInv

(* Writeback: the result moves from the queue to the register file.        *)
LEMMA RetireRegister ==
  ASSUME RegisterInv, IInv, IInv', RunWriteback
  PROVE  RegisterInv' /\ Stutters
<1>1. /\ WritebackWork /\ halted = "no"
      /\ UNCHANGED <<dd_uop_queue, de_uop_queue, ex, mem, brk_val, out, sig, nxt, halted,
                     program, fetch_pc, arch_pc, arch_uops>>
  BY DEF RunWriteback, Runs, MayRun, WritebackWork, host, history
<1>2. CASE NothingToRetire
  <2>1. UNCHANGED <<regfile, ew_uop_queue>>
    BY <1>2 DEF NothingToRetire
  <2>2. (sig.d_op = "NONE" /\ nxt.d_op = "NONE")'
    BY <1>1 DEF RegisterInv, Quiescent
  <2> QED BY <1>1, <2>1, <2>2, AsideRegister DEF Stutters
<1>3. CASE RetireUop
  <2> DEFINE q == ew_uop_queue
             u == Head(q)
  <2>1. /\ regfile' = Retired(regfile, u) /\ q' = Tail(q) /\ q # <<>>
        /\ regfile \in RegFile /\ q \in Seq(Uop) /\ Len(q) \in 1 .. 2
    <3>1. q # <<>> /\ regfile' = Retired(regfile, u) /\ q' = Tail(q)
      BY <1>3 DEF RetireUop
    <3>2. regfile \in RegFile /\ q \in Seq(Uop)
      BY DEF IInv, TypeOK, CommonTypeOK
    <3>3. Len(q) # 0
      BY <3>1, <3>2, EmptySeq
    <3> QED BY <3>1, <3>2, <3>3, QueueShort
  <2>2. Settled(regfile', q') = Settled(regfile, q)
    BY <2>1, SettledTail
  <2>3. ArchRegs' = ArchRegs
    BY <1>1, <2>2, QueueShort, QueueShortNext, ArchRegsIs, ArchRegsNext
  <2>4. u = q[1] /\ Len(q') = Len(q) - 1 /\ (\A i \in 1 .. Len(q) - 1 : q'[i] = q[i + 1])
    BY <2>1
  <2>5. Simple(u) /\ \A r \in GPR : regfile'[r] = IF r = u.reg2 THEN u.value2 ELSE regfile[r]
    <3>1. 1 \in 1 .. Len(q)
      BY <2>1
    <3>2. Simple(q[1])
      BY <3>1 DEF RegisterInv, Forwarding
    <3>3. Simple(u)
      BY <2>4, <3>2
    <3>4. GPR \subseteq DOMAIN regfile
      BY <2>1 DEF RegFile
    <3> QED BY <2>1, <3>3, <3>4, RetiredSimple
  <2>6. Forwarding'
    <3>1. \A i \in 1 .. Len(q') : i + 1 \in 1 .. Len(q) /\ (i = Len(q') => i + 1 = Len(q))
                                  /\ i \in 1 .. Len(q) - 1
      <4>1. PICK n \in 1 .. 2 : Len(q) = n
        BY <2>1
      <4>2. Len(q') = n - 1
        BY <2>4, <4>1
      <4>3. \A i \in 1 .. n - 1 : i + 1 \in 1 .. n /\ (i = n - 1 => i + 1 = n)
        OBVIOUS
      <4> QED BY <4>1, <4>2, <4>3
    <3>2. \A i \in 1 .. Len(q') : /\ Simple(q'[i])
                                  /\ q'[i].reg2 \in {"none", ex.prev_reg1, ex.prev_reg2}
                                  /\ i = Len(q') => q'[i].reg2 \in {"none", ex.prev_reg1}
      BY <2>4, <3>1 DEF RegisterInv, Forwarding
    <3>3. u.reg2 \in {"none", ex.prev_reg1, ex.prev_reg2}
      <4>1. 1 \in 1 .. Len(q)
        BY <2>1
      <4>2. q[1].reg2 \in {"none", ex.prev_reg1, ex.prev_reg2}
        BY <4>1 DEF RegisterInv, Forwarding
      <4> QED BY <2>4, <4>2
    <3>4. \A r \in GPR : Settled(regfile', q')[r] =
                           IF r = ex.prev_reg1 THEN ex.prev_value1
                           ELSE IF r = ex.prev_reg2 THEN ex.prev_value2 ELSE regfile'[r]
      <4>1. \A r \in GPR : Settled(regfile, q)[r] =
                             IF r = ex.prev_reg1 THEN ex.prev_value1
                             ELSE IF r = ex.prev_reg2 THEN ex.prev_value2 ELSE regfile[r]
        BY DEF RegisterInv, Forwarding, Remembered
      <4>2. "none" \notin GPR
        BY PseudoAssumption
      <4> QED BY <2>2, <2>5, <3>3, <4>1, <4>2
    <3> QED BY <1>1, <3>2, <3>4 DEF RegisterInv, Forwarding, Remembered
  <2>7. Quiescent' /\ Decoded'
    BY <1>1 DEF RegisterInv, Quiescent, RegisterProgram, Decoded, FromProgram
  <2>8. Waits'
    BY <1>1, <2>3, ReadyKept DEF RegisterInv, Waits
  <2>9. ArchMem' = ArchMem
    BY <1>1, <2>7, ArchMemIs, ArchMemNext DEF RegisterInv, Quiescent
  <2> QED BY <1>1, <2>3, <2>6, <2>7, <2>8, <2>9 DEF RegisterInv, Stutters
<1> QED BY <1>1, <1>2, <1>3 DEF WritebackWork

-----------------------------------------------------------------------------
(* The processes other than Execute. *)

(* The operands Dispatch reads and forwarding corrects are those of the     *)
(* sequential machine.                                                     *)
LEMMA DispatchedReady ==
  ASSUME RegisterInv, IInv, NEW u \in Uop, FromProgram(u)
  PROVE  Ready(Dispatched(u))
<1> DEFINE t == program[u.address].uops[1]
           x == ReadOperands(u)
           w == Dispatched(u)
           v == Forwarded(w)
<1>1. RegisterUop(t) /\ u.address \in DOMAIN program /\ u.opsize = program[u.address].size
      /\ u.src = t.src /\ u.opcode = t.opcode /\ u.immed = t.immed
      /\ u.reg1 = t.reg1 /\ u.reg2 = t.reg2 /\ u.reg3 = t.reg3
  BY DEF FromProgram, RegisterInv, Quiescent, RegisterProgram
<1>2. Len(ew_uop_queue) \in 0 .. 2
  BY QueueShort
<1>3. \A r \in GPR : Latest(r, OrOffset(r, regfile[r])) = ArchRegs[r] /\ Latest(r, regfile[r]) = ArchRegs[r]
  <2>1. \A r \in GPR : OrOffset(r, regfile[r]) = regfile[r]
    BY PseudoAssumption DEF OrOffset
  <2> QED BY <1>2, <2>1, ForwardingComplete DEF RegisterInv
<1>4. \A z : Latest("scratch", OrOffset("scratch", z)) = z /\ Latest("scratch", z) = z
  BY PseudoAssumption DEF Latest, OrOffset, RegisterInv, Forwarding
<1>5. "rax" \in GPR /\ "rdx" \in GPR
  BY GPRAssumption
<1>6. /\ x.src = t.src /\ x.address = u.address /\ x.opcode = t.opcode /\ x.immed = t.immed
      /\ x.opsize = u.opsize /\ x.reg2 = t.reg2 /\ x.reg3 = t.reg3
      /\ t.src \in {"IMMED", "IMUL_2I"} => x.reg1 = "scratch" /\ x.value1 = t.immed
      /\ t.src \in {"NO_SRC", "REG", "IMUL_2R", "IMUL_3"} => x.reg1 = t.reg1
      /\ t.src \in {"REG", "IMUL_2R", "IMUL_3"} /\ t.reg1 \in GPR => x.value1 = regfile[t.reg1]
      /\ t.reg2 \in GPR => x.value2 = regfile[t.reg2]
      /\ t.reg3 \in GPR => x.value3 = regfile[t.reg3]
      /\ DOMAIN x = DOMAIN u
  BY <1>1, PseudoAssumption DEF ReadOperands, Read, Uop
<1>7. DOMAIN x = {"src", "address", "opcode", "reg1", "value1", "reg2", "value2", "reg3",
                  "value3", "immed", "opsize"}
  BY <1>6 DEF Uop
<1>8. w = ImpliedOperands(x)
  BY DEF Dispatched
<1> HIDE DEF x, w, v, t
<1>9. /\ w \in Uop /\ w.address = u.address /\ w.opcode = t.opcode /\ w.opsize = u.opsize
  <2>1. regfile \in RegFile
    BY DEF IInv, TypeOK, CommonTypeOK
  <2> QED BY <1>1, <2>1, DispatchedTyped, DispatchedSame DEF w, t, SameUop
<1>10. /\ v.opcode = w.opcode /\ v.src = w.src
       /\ v.value1 = Latest(w.reg1, OrOffset(w.reg1, w.value1))
       /\ v.value2 = Latest(w.reg2, OrOffset(w.reg2, w.value2))
       /\ v.value3 = Latest(w.reg3, w.value3)
  BY <1>9 DEF v, Forwarded, Uop
<1>11. /\ RegisterUop(t)
       /\ t.opcode \notin {"call", "ret", "pop", "push", "pushfq", "mul", "div", "idiv"}
       /\ t.src # "IMUL_1"
       /\ t.src \in {"IMUL_2I", "IMUL_3"} => t.opcode = "imul"
  BY <1>1, Classified DEF t
<1>12. SUFFICES HasOperands(v, t) /\ (IF w.opcode \in Unary THEN w.reg1 ELSE w.reg2) = TargetOf(t)
  BY <1>1, <1>9 DEF Ready, v, t, w
<1>13. CASE t.opcode = "nop"
  <2>1. w.src = t.src /\ w.reg2 = "none"
    BY <1>6, <1>7, <1>8, <1>13 DEF ImpliedOperands
  <2>2. t.src = "NO_SRC"
    BY <1>11, <1>13 DEF RegisterUop, Plain, Unary, Jumps, Cmovs, Shifts
  <2> QED BY <1>9, <1>10, <1>13, <2>1, <2>2
          DEF HasOperands, TargetOf, Plain, Unary, Jumps, Cmovs, Shifts
<1>14. CASE t.opcode = "cqo"
  <2>1. w.src = t.src /\ w.reg2 = "rdx" /\ w.reg1 = "rax" /\ w.value1 = regfile["rax"]
    BY <1>6, <1>7, <1>8, <1>14 DEF ImpliedOperands
  <2>2. t.src = "NO_SRC"
    BY <1>11, <1>14 DEF RegisterUop, Plain, Unary, Jumps, Cmovs, Shifts
  <2>3. v.value1 = First(t)
    BY <1>3, <1>5, <1>10, <1>14, <2>1, <2>2 DEF First
  <2> QED BY <1>9, <1>10, <1>14, <2>1, <2>2, <2>3
          DEF HasOperands, TargetOf, Plain, Unary, Jumps, Cmovs, Shifts
<1>15. CASE t.opcode \notin {"nop", "cqo"}
  <2>1. /\ w.src = t.src /\ w.reg1 = x.reg1 /\ w.value1 = x.value1
        /\ w.reg2 = x.reg2 /\ w.value2 = x.value2
        /\ t.src = "IMUL_3" /\ t.reg3 = "none" => w.reg3 = "scratch" /\ w.value3 = t.immed
        /\ t.src = "IMUL_3" /\ t.reg3 # "none" => w.reg3 = x.reg3 /\ w.value3 = x.value3
    <3>1. CASE t.src = "IMUL_3" /\ t.reg3 = "none"
      BY <1>6, <1>7, <1>8, <1>11, <3>1 DEF ImpliedOperands
    <3>2. CASE ~(t.src = "IMUL_3" /\ t.reg3 = "none")
      <4>1. w = x
        BY <1>6, <1>8, <1>11, <1>15, <3>2 DEF ImpliedOperands
      <4> QED BY <1>6, <3>2, <4>1
    <3> QED BY <3>1, <3>2
  <2>2. v.value1 = First(t)
    <3>1. CASE t.src \in {"IMMED", "IMUL_2I"}
      BY <1>4, <1>6, <1>10, <2>1, <3>1 DEF First
    <3>2. CASE t.src \notin {"IMMED", "IMUL_2I"}
      <4>1. t.src \in {"REG", "IMUL_2R", "IMUL_3"} /\ t.reg1 \in GPR
        BY <1>11, <1>15, <3>2 DEF RegisterUop, HasSource
      <4>2. v.value1 = ArchRegs[t.reg1]
        BY <1>3, <1>6, <1>10, <2>1, <4>1
      <4> QED BY <1>15, <3>2, <4>2 DEF First
    <3> QED BY <3>1, <3>2
  <2>3. t.opcode \in Plain \cup {"imul"} => v.value2 = Second(t)
    <3> SUFFICES ASSUME t.opcode \in Plain \cup {"imul"} PROVE v.value2 = Second(t)
      OBVIOUS
    <3>1. t.reg2 \in GPR
      BY <1>11 DEF RegisterUop, Plain, Unary, Jumps, Cmovs, Shifts
    <3> QED BY <1>3, <1>6, <1>10, <2>1, <3>1 DEF Second
  <2>4. t.src = "IMUL_3" => v.value3 = Third(t)
    <3> SUFFICES ASSUME t.src = "IMUL_3" PROVE v.value3 = Third(t)
      OBVIOUS
    <3>1. t.reg3 \in GPR \cup {"none"}
      BY <1>11 DEF RegisterUop, HasSource
    <3>2. CASE t.reg3 = "none"
      BY <1>4, <1>10, <2>1, <3>2 DEF Third
    <3>3. CASE t.reg3 # "none"
      BY <1>3, <1>6, <1>10, <2>1, <3>1, <3>3 DEF Third
    <3> QED BY <3>2, <3>3
  <2>5. (IF w.opcode \in Unary THEN w.reg1 ELSE w.reg2) = TargetOf(t)
    <3>1. CASE t.opcode \in Unary
      <4>1. t.src = "REG" /\ t.opcode \notin Jumps
        BY <1>11, <3>1 DEF RegisterUop, Plain, Unary, Jumps, Cmovs, Shifts
      <4> QED BY <1>6, <1>9, <1>15, <2>1, <3>1, <4>1 DEF TargetOf
    <3>2. CASE t.opcode \in Jumps
      <4>1. t.reg2 = "none" /\ t.opcode \notin Unary
        BY <1>11, <3>2 DEF RegisterUop, Plain, Unary, Jumps, Cmovs, Shifts
      <4> QED BY <1>6, <1>9, <1>15, <2>1, <3>2, <4>1 DEF TargetOf
    <3>3. CASE t.opcode \notin Unary \cup Jumps
      BY <1>6, <1>9, <1>15, <2>1, <3>3 DEF TargetOf
    <3> QED BY <3>1, <3>2, <3>3
  <2> QED BY <1>9, <1>10, <2>1, <2>2, <2>3, <2>4, <2>5 DEF HasOperands
<1> QED BY <1>13, <1>14, <1>15

(* Dispatch moves one instruction, or flushes.                             *)
LEMMA DispatchRegister ==
  ASSUME RegisterInv, IInv, IInv', RunDispatch
  PROVE  RegisterInv' /\ Stutters
<1>1. /\ DispatchWork /\ halted = "no" /\ nxt \in Signals /\ dd_uop_queue \in Seq(Uop)
      /\ UNCHANGED <<regfile, ew_uop_queue, ex, mem, brk_val, out, sig, halted, program,
                     fetch_pc, arch_pc, arch_uops>>
      /\ sig.d_op = "NONE" /\ nxt.d_op = "NONE" /\ IsProgram(program)
  BY DEF RunDispatch, Runs, MayRun, DispatchWork, history, host, IInv, TypeOK, CommonTypeOK,
         RegisterInv, Quiescent
<1>2. (sig.d_op = "NONE" /\ nxt.d_op = "NONE")'
  BY <1>1 DEF DispatchWork, ClearQueue, NothingToDispatch, ExecuteBusy, DispatchBatch,
              DispatchReady, Signals
<1>3. /\ UNCHANGED <<ArchRegs, ArchMem>> /\ Quiescent' /\ Forwarding'
      /\ de_uop_queue' = de_uop_queue => Waits'
  BY <1>1, <1>2, KeptRegister
<1>4. CASE ClearQueue
  <2>1. dd_uop_queue' = <<>> /\ de_uop_queue' = de_uop_queue
    BY <1>4 DEF ClearQueue
  <2>2. Len(dd_uop_queue') = 0
    BY <2>1
  <2>3. Decoded'
    BY <2>1, <2>2 DEF Decoded
  <2> QED BY <1>1, <1>3, <2>1, <2>3 DEF RegisterInv, Stutters
<1>5. CASE NothingToDispatch \/ ExecuteBusy
  <2>1. UNCHANGED <<dd_uop_queue, de_uop_queue>>
    BY <1>5 DEF NothingToDispatch, ExecuteBusy
  <2>2. Decoded'
    BY <1>1, <2>1 DEF RegisterInv, Decoded, FromProgram
  <2> QED BY <1>1, <1>3, <2>1, <2>2 DEF RegisterInv, Stutters
<1>6. CASE DispatchBatch
  <2> DEFINE q == dd_uop_queue
             w == Dispatched(q[1])
  <2>1. PICK n \in 1 .. Len(q) :
          /\ IsBatch(q, n)
          /\ de_uop_queue' = [i \in 1 .. n |-> Dispatched(q[i])]
          /\ q' = SubSeq(q, n + 1, Len(q))
    BY <1>6 DEF DispatchBatch
  <2>2. Len(q) \in Nat /\ Len(q) >= 1 /\ 1 \in 1 .. Len(q) /\ ~sig.clear /\ q[1] \in Uop
    <3>1. q # <<>> /\ ~sig.clear
      BY <1>6 DEF DispatchBatch
    <3>2. Len(q) \in Nat /\ Len(q) >= 1
      BY <1>1, <3>1, EmptySeq
    <3> QED BY <1>1, <3>1, <3>2
  <2>3. n = 1
    <3> SUFFICES ASSUME n # 1 PROVE FALSE
      OBVIOUS
    <3>1. 1 \in 0 .. (n - 1) /\ 1 \in 1 .. Len(q) - 1 /\ n > 1
      BY <2>1, <2>2
    <3>2. q[1 + 1].address = q[1].address
      BY <2>1, <3>1 DEF IsBatch, Continues
    <3>3. q[1 + 1].address = After(q[1]) /\ FromProgram(q[1])
      BY <2>2, <3>1 DEF RegisterInv, Decoded
    <3>4. q[1].address \in Word /\ q[1].opsize \in 1 .. WordMod - 1
      BY <1>1, <2>2, <3>3 DEF FromProgram, IsProgram, Uop
    <3> QED BY <3>2, <3>3, <3>4, MovesOn DEF After
  <2>4. Len(de_uop_queue') = 1 /\ de_uop_queue'[1] = w
    BY <2>1, <2>3
  <2>5. Ready(w)
    BY <2>2, DispatchedReady DEF RegisterInv, Decoded
  <2> HIDE DEF w
  <2>6. Ready(de_uop_queue[1])'
    BY <1>1, <1>3, <2>4, <2>5
       DEF Ready, HasOperands, First, Second, Third, Forwarded, Latest, OrOffset
  <2>7. Waits'
    BY <2>4, <2>6 DEF Waits
  <2>8. Decoded'
    <3>1. /\ Len(q') = Len(q) - 1
          /\ \A i \in 1 .. Len(q) - 1 : q'[i] = q[i + 1] /\ i + 1 \in 1 .. Len(q)
      BY <1>1, <2>1, <2>2, <2>3
    <3>2. /\ \A i \in 1 .. Len(q) : FromProgram(q[i])
          /\ \A i \in 1 .. Len(q) - 1 : q[i + 1].address = After(q[i])
          /\ fetch_pc = After(q[Len(q)])
      BY <1>1, <2>2 DEF RegisterInv, Decoded
    <3>3. \A i \in 1 .. Len(q') : FromProgram(q'[i])
      BY <3>1, <3>2
    <3>4. \A i \in 1 .. Len(q') - 1 : q'[i + 1].address = After(q'[i])
      <4>1. ASSUME NEW i \in 1 .. Len(q') - 1 PROVE q'[i + 1].address = After(q'[i])
        <5>1. i \in 1 .. Len(q) - 1 /\ i + 1 \in 1 .. Len(q) - 1
          BY <2>2, <3>1
        <5> QED BY <3>1, <3>2, <5>1
      <4> QED BY <4>1
    <3>5. q' # <<>> => fetch_pc = After(q'[Len(q')])
      <4> SUFFICES ASSUME q' # <<>> PROVE fetch_pc = After(q'[Len(q')])
        OBVIOUS
      <4>1. q' \in Seq(Uop) /\ Len(q') # 0
        <5>1. q' \in Seq(Uop)
          BY DEF IInv, TypeOK, CommonTypeOK
        <5> QED BY <5>1, EmptySeq
      <4>2. Len(q') \in 1 .. Len(q) - 1 /\ Len(q') + 1 = Len(q)
        BY <2>2, <3>1, <4>1
      <4> QED BY <3>1, <3>2, <4>2
    <3> QED BY <1>1, <3>3, <3>4, <3>5 DEF Decoded, FromProgram
  <2> QED BY <1>1, <1>3, <2>7, <2>8 DEF RegisterInv, Stutters
<1> QED BY <1>1, <1>4, <1>5, <1>6 DEF DispatchWork

(* The decoder delivers one instruction more. *)
LEMMA DeliverRegister ==
  ASSUME RegisterInv, IInv, IInv', DeliverInstruction
  PROVE  RegisterInv' /\ Stutters
<1> DEFINE q == dd_uop_queue
           a == fetch_pc
<1>1. /\ PushInstruction /\ halted = "no" /\ nxt \in Signals /\ q \in Seq(Uop)
      /\ UNCHANGED <<regfile, ew_uop_queue, de_uop_queue, ex, mem, brk_val, out, sig, halted,
                     program, arch_pc, arch_uops>>
      /\ sig.d_op = "NONE" /\ nxt.d_op = "NONE" /\ IsProgram(program) /\ q' \in Seq(Uop)
      /\ a \in DOMAIN program /\ ~sig.clear
      /\ a' = Trunc(a + program[a].size)
  BY DEF DeliverInstruction, MayRun, PushInstruction, history, host, IInv, TypeOK, CommonTypeOK,
         RegisterInv, Quiescent
<1>2. (sig.d_op = "NONE" /\ nxt.d_op = "NONE")'
  BY <1>1 DEF PushInstruction, Signals
<1>3. /\ UNCHANGED <<ArchRegs, ArchMem>> /\ Quiescent' /\ Forwarding' /\ Waits'
  BY <1>1, <1>2, KeptRegister
<1>4. PICK garbage \in Garbage : q' = q \o Fetched(a, garbage)
  BY <1>1 DEF PushInstruction
<1> DEFINE f == Fetched(a, garbage)
<1>5. Len(program[a].uops) = 1
  BY <1>1 DEF RegisterInv, Quiescent, RegisterProgram
<1>6. /\ f \in Seq(Uop) /\ Len(f) = 1 /\ FromProgram(f[1])
      /\ f[1].address = a /\ f[1].opsize = program[a].size
  <2>1. /\ program[a].uops[1] \in Template /\ program[a].size \in Nat /\ a \in Word
        /\ garbage \in Word
    BY <1>1, <1>5, GarbageAssumption DEF IsProgram
  <2>2. f = [i \in 1 .. 1 |->
               [src |-> program[a].uops[i].src, address |-> a, opcode |-> program[a].uops[i].opcode,
                reg1 |-> program[a].uops[i].reg1, value1 |-> garbage,
                reg2 |-> program[a].uops[i].reg2, value2 |-> garbage,
                reg3 |-> program[a].uops[i].reg3, value3 |-> garbage,
                immed |-> program[a].uops[i].immed, opsize |-> program[a].size]]
    BY <1>5 DEF Fetched
  <2> HIDE DEF f
  <2>3. Len(f) = 1 /\ DOMAIN f = 1 .. 1
    BY <2>2
  <2> DEFINE t == program[a].uops[1]
             u == f[1]
  <2>4. u = [src |-> t.src, address |-> a, opcode |-> t.opcode,
             reg1 |-> t.reg1, value1 |-> garbage, reg2 |-> t.reg2, value2 |-> garbage,
             reg3 |-> t.reg3, value3 |-> garbage, immed |-> t.immed, opsize |-> program[a].size]
    BY <2>2
  <2> HIDE DEF u
  <2>5. u \in Uop
    BY <2>1, <2>4 DEF Template, Uop
  <2>6. u.address = a /\ u.opsize = program[a].size /\ FromProgram(u)
    BY <1>1, <2>4 DEF FromProgram
  <2>7. f \in [1 .. 1 -> Uop]
    BY <2>2, <2>3, <2>5 DEF u
  <2>8. f \in Seq(Uop)
    BY <2>7, FunctionIsSeq
  <2> QED BY <2>3, <2>6, <2>8 DEF u
<1> HIDE DEF f
<1>7. /\ Len(q) \in Nat /\ Len(q') = Len(q) + 1
      /\ q'[Len(q) + 1] = f[1]
      /\ \A i \in 1 .. Len(q) : q'[i] = q[i]
  <2>1. Len(q) \in Nat
    BY <1>1, EmptySeq
  <2>2. /\ Len(q \o f) = Len(q) + Len(f)
        /\ \A i \in 1 .. Len(q) + Len(f) : (q \o f)[i] = IF i <= Len(q) THEN q[i] ELSE f[i - Len(q)]
    BY <1>1, <1>6, Joined
  <2>3. Len(q) + 1 - Len(q) = 1 /\ Len(q) + 1 \in 1 .. Len(q) + 1 /\ ~(Len(q) + 1 <= Len(q))
        /\ \A i \in 1 .. Len(q) : i \in 1 .. Len(q) + 1 /\ i <= Len(q)
    BY <2>1
  <2> QED BY <1>4, <1>6, <2>1, <2>2, <2>3 DEF f
<1>8. /\ \A i \in 1 .. Len(q) : FromProgram(q[i])
      /\ \A i \in 1 .. Len(q) - 1 : q[i + 1].address = After(q[i])
      /\ Len(q) # 0 => a = After(q[Len(q)])
  BY <1>1 DEF RegisterInv, Decoded
<1>9. \A i \in 1 .. Len(q') : FromProgram(q'[i])
  <2>1. ASSUME NEW i \in 1 .. Len(q') PROVE FromProgram(q'[i])
    <3>1. i \in 1 .. Len(q) \/ i = Len(q) + 1
      BY <1>7
    <3> QED BY <1>6, <1>7, <1>8, <3>1
  <2> QED BY <2>1
<1>10. \A i \in 1 .. Len(q') - 1 : q'[i + 1].address = After(q'[i])
  <2>1. ASSUME NEW i \in 1 .. Len(q') - 1 PROVE q'[i + 1].address = After(q'[i])
    <3>1. CASE i \in 1 .. Len(q) - 1
      <4>1. i \in 1 .. Len(q) /\ i + 1 \in 1 .. Len(q)
        BY <1>7, <3>1
      <4> QED BY <1>7, <1>8, <3>1, <4>1
    <3>2. CASE i = Len(q)
      <4>1. Len(q) # 0 /\ i \in 1 .. Len(q)
        BY <1>7, <3>2
      <4> QED BY <1>6, <1>7, <1>8, <3>2, <4>1
    <3> QED BY <1>7, <3>1, <3>2
  <2> QED BY <2>1
<1>11. fetch_pc' = After(q'[Len(q')])
  BY <1>1, <1>6, <1>7 DEF After
<1>12. Decoded'
  BY <1>1, <1>9, <1>10, <1>11 DEF Decoded, FromProgram
<1> QED BY <1>1, <1>3, <1>12 DEF RegisterInv, Stutters

(* The front end goes on, or where Execute sends it. *)
LEMMA FrontEndRegister ==
  ASSUME RegisterInv, IInv, IInv', FlightInv, RunFrontEnd
  PROVE  RegisterInv' /\ Stutters
<1>1. /\ halted = "no" /\ FrontEndDone
      /\ UNCHANGED <<regfile, ew_uop_queue, dd_uop_queue, de_uop_queue, ex, mem, brk_val, out,
                     sig, nxt, halted, program, arch_pc, arch_uops>>
      /\ sig.d_op = "NONE" /\ nxt.d_op = "NONE"
  BY DEF RunFrontEnd, Runs, MayRun, FrontEndDone, common, queues, host, history, RegisterInv,
         Quiescent
<1>2. /\ UNCHANGED <<ArchRegs, ArchMem>> /\ Quiescent' /\ Forwarding' /\ Waits'
  BY <1>1, KeptRegister
<1>3. ~sig.clear => fetch_pc' = fetch_pc
  BY <1>1 DEF FrontEndDone, Redirected, NothingMore, FlightInv, RedirectSignals
<1>4. Decoded'
  BY <1>1, <1>3 DEF RegisterInv, Decoded, FromProgram
<1> QED BY <1>1, <1>2, <1>4 DEF RegisterInv, Stutters

(* Nothing is asked of memory. *)
LEMMA MemoryRegister ==
  ASSUME RegisterInv, IInv, IInv', RunMemory
  PROVE  RegisterInv' /\ Stutters
<1>1. /\ DataMemoryWork /\ halted = "no" /\ nxt \in Signals
      /\ UNCHANGED <<regfile, ew_uop_queue, dd_uop_queue, de_uop_queue, ex, brk_val, out, sig,
                     program, fetch_pc, arch_pc, arch_uops>>
      /\ sig.d_op = "NONE" /\ nxt.d_op = "NONE"
  BY DEF RunMemory, Runs, MayRun, DataMemoryWork, queues, history, IInv, TypeOK, CommonTypeOK,
         RegisterInv, Quiescent
<1>2. Requested = {}
  BY <1>1 DEF Requested
<1>3. UNCHANGED <<mem, halted>>
  BY <1>1, <1>2 DEF DataMemoryWork, PortWork, AcceptRequest, RejectRequest
<1>4. nxt'.d_op = "NONE"
  BY <1>1 DEF DataMemoryWork, PortWork, Deliver, DeliverNothing, Signals
<1> QED BY <1>1, <1>3, <1>4, AsideRegister DEF Stutters

(* The signals change, and a flush is over only with an empty queue.       *)
LEMMA TickRegister ==
  ASSUME RegisterInv, IInv, IInv', Tick
  PROVE  RegisterInv' /\ Stutters
<1>1. /\ halted = "no" /\ ran = Process /\ sig' = nxt
      /\ UNCHANGED <<regfile, ew_uop_queue, dd_uop_queue, de_uop_queue, ex, mem, brk_val, out,
                     nxt, halted, program, fetch_pc, arch_pc, arch_uops>>
      /\ sig.d_op = "NONE" /\ nxt.d_op = "NONE"
  BY DEF Tick, queues, host, history, RegisterInv, Quiescent
<1>2. sig.clear => dd_uop_queue = <<>>
  BY <1>1 DEF IInv, ClearPhase, Process
<1> QED BY <1>1, <1>2, AsideRegister DEF Stutters

(* Nothing moves once the run has ended. *)
LEMMA StillRegister ==
  ASSUME RegisterInv, IInv, IInv', UNCHANGED vars
  PROVE  RegisterInv' /\ Stutters
<1>1. UNCHANGED <<regfile, ew_uop_queue, dd_uop_queue, de_uop_queue, ex, mem, brk_val, out,
                  sig, nxt, halted, program, fetch_pc, arch_pc, arch_uops>>
  BY DEF vars, common, queues, host, history
<1>2. sig.d_op = "NONE" /\ nxt.d_op = "NONE"
  BY DEF RegisterInv, Quiescent
<1> QED BY <1>1, <1>2, AsideRegister DEF Stutters

-----------------------------------------------------------------------------
(* Execute. *)

(* The micro-op about to start is the instruction whose turn it is, with    *)
(* its operands.                                                           *)
LEMMA FrontIsReady ==
  ASSUME RegisterInv, IInv, FlightInv, MayRun("execute"), CanStart
  PROVE  LET t == program[arch_pc].uops[1]
         IN /\ halted = "no" /\ ~Unexpected /\ Front \in Uop /\ Len(de_uop_queue) = 1
            /\ arch_pc \in DOMAIN program /\ arch_pc \in Word
            /\ program[arch_pc].size \in 1 .. WordMod - 1 /\ RegisterUop(t)
            /\ Front.address = arch_pc /\ Front.opsize = program[arch_pc].size
            /\ HasOperands(Front, t)
            /\ (IF Front.opcode \in Unary THEN Front.reg1 ELSE Front.reg2) = TargetOf(t)
            /\ First(t) \in Word \/ t.opcode = "nop"
<1> DEFINE t == program[arch_pc].uops[1]
           u == de_uop_queue[1]
<1>1. /\ halted = "no" /\ ~sig.clear /\ ~nxt.clear /\ de_uop_queue # <<>>
      /\ CommonTypeOK /\ IsProgram(program) /\ de_uop_queue \in Seq(Uop)
      /\ arch_uops = 0
  BY DEF MayRun, CanStart, IInv, ClearPhase, TypeOK, CommonTypeOK, RegisterInv, Quiescent
<1>2. Len(de_uop_queue) = 1
  <2>1. Len(de_uop_queue) # 0 /\ Len(de_uop_queue) \in Nat
    BY <1>1, EmptySeq
  <2>2. Len(de_uop_queue) <= 1
    BY DEF RegisterInv, Waits
  <2> QED BY <2>1, <2>2
<1>3. u.address = arch_pc /\ IsAt(program, u, 1) /\ Head(de_uop_queue) = u /\ u \in Uop
  BY <1>1, HeadIsNext
<1>4. Front = Forwarded(u) /\ Front \in Uop
  BY <1>1, <1>3, FrontTyped DEF Front
<1>5. Ready(u)
  BY <1>1 DEF RegisterInv, Waits
<1>6. /\ Front.address = u.address /\ Front.opsize = u.opsize /\ Front.opcode = u.opcode
      /\ Front.reg1 = u.reg1 /\ Front.reg2 = u.reg2
  BY <1>3, <1>4 DEF Forwarded, Uop
<1>7. /\ arch_pc \in DOMAIN program /\ Front.opsize = program[arch_pc].size
      /\ HasOperands(Front, t)
      /\ (IF Front.opcode \in Unary THEN Front.reg1 ELSE Front.reg2) = TargetOf(t)
  BY <1>3, <1>4, <1>5, <1>6 DEF Ready
<1>8. arch_pc \in Word /\ program[arch_pc].size \in 1 .. WordMod - 1 /\ RegisterUop(t)
  BY <1>1, <1>7 DEF IsProgram, RegisterInv, Quiescent, RegisterProgram
<1>9. First(t) \in Word \/ t.opcode = "nop"
  BY <1>4, <1>7 DEF HasOperands, Uop
<1>10. ~Unexpected /\ Front.address = arch_pc
  BY HeadExpected
<1> QED BY <1>1, <1>2, <1>4, <1>7, <1>8, <1>9, <1>10

(* What is left when Execute starts nothing. *)
LEMMA WaitRegister ==
  ASSUME RegisterInv, IInv, IInv', RunExecute, ClearStage \/ Blocked
  PROVE  RegisterInv' /\ Stutters
<1>1. /\ halted = "no" /\ nxt \in Signals /\ Record
      /\ UNCHANGED <<regfile, ew_uop_queue, dd_uop_queue, ex, mem, brk_val, out, sig, halted,
                     program, fetch_pc>>
      /\ de_uop_queue' = de_uop_queue \/ de_uop_queue' = <<>>
      /\ sig.d_op = "NONE" /\ nxt.d_op = "NONE"
  BY DEF RunExecute, Runs, MayRun, ExecuteWork, ClearStage, Blocked, host, IInv, TypeOK,
         CommonTypeOK, RegisterInv, Quiescent
<1>2. nxt'.d_op = "NONE"
  BY <1>1 DEF ClearStage, Blocked, Quiet, Signals
<1>3. ~Completed
  <2>1. Len(ew_uop_queue) \in 0 .. 2
    BY QueueShort
  <2> QED BY <1>1, <2>1 DEF Completed
<1>4. UNCHANGED <<arch_pc, arch_uops>>
  BY <1>1, <1>3 DEF Record
<1>5. /\ UNCHANGED <<ArchRegs, ArchMem>> /\ Quiescent' /\ Forwarding'
      /\ de_uop_queue' = de_uop_queue => Waits'
  BY <1>1, <1>2, <1>4, KeptRegister
<1>6. Waits'
  <2>1. de_uop_queue' = <<>> => Len(de_uop_queue') = 0
    OBVIOUS
  <2> QED BY <1>1, <1>5, <2>1 DEF Waits
<1>7. Decoded'
  BY <1>1 DEF RegisterInv, Decoded, FromProgram
<1> QED BY <1>1, <1>4, <1>5, <1>6, <1>7 DEF RegisterInv, Stutters

(* A division the host refuses is one the sequential machine refuses.      *)
LEMMA CrashRegister ==
  ASSUME RegisterInv, IInv, IInv', FlightInv, RunExecute, Crash
  PROVE  RegisterInv' /\ Abstract!Next
<1> DEFINE t == program[arch_pc].uops[1]
<1>1. /\ MayRun("execute") /\ CanStart /\ Record /\ halted' = "abort"
      /\ UNCHANGED <<regfile, ew_uop_queue, dd_uop_queue, de_uop_queue, ex, mem, brk_val, out,
                     sig, nxt, program, fetch_pc>>
      /\ sig.d_op = "NONE" /\ nxt.d_op = "NONE" /\ RegisterProgram(program)
  BY DEF RunExecute, Runs, ExecuteWork, Crash, RegisterInv, Quiescent
<1>2. /\ halted = "no" /\ arch_pc \in DOMAIN program /\ RegisterUop(t) /\ HasOperands(Front, t)
  BY <1>1, FrontIsReady
<1>3. Front.opcode # "syscall"
  BY <1>2, Classified DEF HasOperands
<1>4. Results(Front, ex.eflags) = {}
  BY <1>3 DEF Crash
<1>5. ~Completed
  <2>1. Len(ew_uop_queue) \in 0 .. 2
    BY QueueShort
  <2> QED BY <1>1, <2>1 DEF Completed
<1>6. UNCHANGED <<arch_pc, arch_uops>>
  BY <1>1, <1>5 DEF Record
<1>7. /\ UNCHANGED <<ArchRegs, ArchMem>> /\ Quiescent' /\ Forwarding' /\ Waits'
  BY <1>1, <1>6, KeptRegister
<1>8. Decoded'
  BY <1>1 DEF RegisterInv, Decoded, FromProgram
<1>9. Abstract!Next
  BY <1>1, <1>2, <1>4, <1>6, <1>7, SequentialFault
<1> QED BY <1>7, <1>8, <1>9 DEF RegisterInv

(* What Execute remembers of a micro-op that changes its destination only. *)
LEMMA NotedRegister ==
  ASSUME ex \in ExecuteMembers, NEW op \in Uop, NEW f,
         op.opcode \notin Pushes \cup {"syscall"}, op.reg2 \in GPR \cup {"none"},
         op.opcode = "nop" => op.reg2 = "none"
  PROVE  LET e == [Noted(Advanced(Started, op), op) EXCEPT !.eflags = f]
         IN /\ e.state = ex.state /\ e.eflags = f
            /\ e.prev_reg1 = IF op.reg2 = "none" THEN ex.prev_reg1 ELSE op.reg2
            /\ e.prev_value1 = IF op.reg2 = "none" THEN ex.prev_value1 ELSE op.value2
            /\ e.prev_reg2 = IF op.reg2 = "none" THEN ex.prev_reg2 ELSE ex.prev_reg1
            /\ e.prev_value2 = IF op.reg2 = "none" THEN ex.prev_value2 ELSE ex.prev_value1
            /\ e.stackpointer = IF op.reg2 = "rsp" THEN op.value2 ELSE ex.stackpointer
<1> DEFINE a == Advanced(Started, op)
           Same(d) == /\ d.state = ex.state /\ d.stackpointer = ex.stackpointer
                      /\ DOMAIN d = DOMAIN ex
           Old(d) == /\ d.prev_reg1 = ex.prev_reg1 /\ d.prev_value1 = ex.prev_value1
                     /\ d.prev_reg2 = ex.prev_reg2 /\ d.prev_value2 = ex.prev_value2
           b == Remember(a, op.reg2, op.value2)
<1>1. Same(a) /\ Old(a)
  BY DEF Advanced, Started, ExecuteMembers
<1> HIDE DEF a
<1>2. /\ Same(b)
      /\ b.prev_reg1 = op.reg2 /\ b.prev_value1 = op.value2
      /\ b.prev_reg2 = ex.prev_reg1 /\ b.prev_value2 = ex.prev_value1
  BY <1>1 DEF Remember, ExecuteMembers
<1> HIDE DEF b
<1>3. op.reg2 # "loadstore" /\ "none" # "rsp"
  BY PseudoAssumption
<1>4. CASE op.reg2 = "none"
  <2>1. Noted(a, op) = [a EXCEPT !.stackpointer = ex.stackpointer, !.offsetreg = a.offsetreg]
    BY <1>1, <1>3, <1>4 DEF Noted
  <2> QED BY <1>1, <1>3, <1>4, <2>1 DEF ExecuteMembers, a
<1>5. CASE op.reg2 # "none"
  <2>1. Noted(a, op) = [b EXCEPT !.stackpointer = IF op.reg2 = "rsp" THEN op.value2
                                                  ELSE ex.stackpointer,
                                 !.offsetreg = b.offsetreg]
    BY <1>2, <1>3, <1>5 DEF Noted, b
  <2> QED BY <1>2, <1>3, <1>5, <2>1 DEF ExecuteMembers, a
<1> QED BY <1>4, <1>5

(* A micro-op performed is an instruction of the sequential machine.       *)
LEMMA PerformRegister ==
  ASSUME RegisterInv, IInv, IInv', FlightInv, RunExecute, Perform
  PROVE  RegisterInv' /\ Abstract!Next
<1> DEFINE t == program[arch_pc].uops[1]
           q == ew_uop_queue
<1>1. /\ MayRun("execute") /\ CanStart /\ Record /\ CommonTypeOK /\ nxt \in Signals
      /\ UNCHANGED <<regfile, dd_uop_queue, mem, brk_val, out, halted, sig, program, fetch_pc>>
      /\ de_uop_queue' = Tail(Patched(de_uop_queue))
      /\ sig.d_op = "NONE" /\ nxt.d_op = "NONE" /\ RegisterProgram(program) /\ arch_uops = 0
      /\ ex.state = "NORMAL" /\ ex \in ExecuteMembers /\ q \in Seq(Uop) /\ regfile \in RegFile
      /\ de_uop_queue \in Seq(Uop) /\ de_uop_queue # <<>>
  BY DEF RunExecute, Runs, ExecuteWork, Perform, CanStart, host, RegisterInv, Quiescent, IInv,
         TypeOK, CommonTypeOK
<1>2. /\ halted = "no" /\ Front \in Uop /\ Len(de_uop_queue) = 1
      /\ arch_pc \in DOMAIN program /\ arch_pc \in Word
      /\ program[arch_pc].size \in 1 .. WordMod - 1 /\ RegisterUop(t)
      /\ Front.address = arch_pc /\ Front.opsize = program[arch_pc].size
      /\ HasOperands(Front, t)
      /\ (IF Front.opcode \in Unary THEN Front.reg1 ELSE Front.reg2) = TargetOf(t)
      /\ First(t) \in Word \/ t.opcode = "nop"
  BY <1>1, FrontIsReady
<1>3. PICK r \in Results(Front, ex.eflags) :
        /\ ew_uop_queue' = Append(ew_uop_queue, Performed(Front, r))
        /\ nxt' = Driven(Performed(Front, r))
        /\ ex' = [Noted(Advanced(Started, Performed(Front, r)), Performed(Front, r))
                    EXCEPT !.eflags = r.flags]
  BY DEF Perform
<1> DEFINE op == Performed(Front, r)
<1>4. /\ op \in Uop /\ op.address = arch_pc /\ op.opsize = program[arch_pc].size
      /\ op.opcode = t.opcode /\ op.src = t.src /\ op.value1 = Front.value1
      /\ op.value2 = r.value2 /\ op.reg2 = TargetOf(t)
  <2>1. op \in Uop
    BY <1>1, FrontPerformed
  <2>2. /\ op.address = Front.address /\ op.opsize = Front.opsize /\ op.opcode = Front.opcode
        /\ op.src = Front.src /\ op.value1 = Front.value1 /\ op.value2 = r.value2
        /\ op.reg2 = IF Front.opcode \in Unary THEN Front.reg1 ELSE Front.reg2
    BY <1>2 DEF Performed, Uop, Unary
  <2> QED BY <1>2, <2>1, <2>2 DEF HasOperands
<1>5. /\ t.opcode \notin {"mul", "div", "idiv", "load", "store", "push", "pushfq", "call",
                          "pop", "ret", "syscall"}
      /\ t.src # "IMUL_1" /\ TargetOf(t) \in GPR \cup {"none"}
      /\ TargetOf(t) = "none" <=> t.opcode \in Jumps \cup {"nop"}
  BY <1>2, Classified
<1> HIDE DEF op, t
<1>6. Simple(op)
  BY <1>4, <1>5 DEF Simple, WritesRdx
<1>7. /\ Len(q) \in 0 .. 1 /\ Len(q') = Len(q) + 1 /\ q'[Len(q')] = op
      /\ \A i \in 1 .. Len(q) : q'[i] = q[i]
  <2>1. Len(q) \in 0 .. 2 /\ Len(q) <= 1
    BY <1>1, QueueShort DEF CanStart
  <2>2. Len(q) \in 0 .. 1
    BY <2>1
  <2>3. /\ Len(Append(q, op)) = Len(q) + 1 /\ Append(q, op)[Len(q) + 1] = op
        /\ \A i \in 1 .. Len(q) : Append(q, op)[i] = q[i]
    BY <1>1, <1>4, AppendProperties
  <2> QED BY <1>3, <2>2, <2>3 DEF op
<1>8. Completed
  BY <1>7 DEF Completed
<1>9. Len(program[arch_pc].uops) = 1 /\ arch_uops + 1 = 1
  BY <1>1, <1>2 DEF RegisterProgram
<1>10. /\ arch_uops' = 0
       /\ arch_pc' = IF nxt'.change_RIP THEN nxt'.new_RIP ELSE Trunc(op.address + op.opsize)
  BY <1>1, <1>4, <1>7, <1>8, <1>9 DEF Record
<1>11. arch_pc' = Onward(arch_pc)
  <2>1. /\ nxt'.change_RIP <=> (t.opcode \in Jumps /\ Taken(t.opcode, ex.eflags))
        /\ nxt'.change_RIP => nxt'.new_RIP = Target(op)
    <3>1. Redirects(op) <=> t.opcode \in Jumps /\ Taken(t.opcode, ex.eflags)
      BY <1>4, <1>5 DEF Redirects
    <3> QED BY <1>1, <1>3, <3>1, DrivenRedirect DEF op
  <2>2. t.opcode \in Jumps => op.value1 = First(t)
    BY <1>2, <1>4 DEF HasOperands, Jumps, t
  <2> QED BY <1>4, <1>10, <2>1, <2>2 DEF Target, Onward, t
<1>12. nxt'.d_op = "NONE"
  <2>1. op.opcode \notin Writes
    BY <1>4, <1>5 DEF Writes, Pushes
  <2> QED BY <1>1, <1>3, <2>1 DEF Driven, Quiet, Signals, op
<1>13. /\ ex'.state = "NORMAL" /\ ex'.eflags = r.flags
       /\ ex'.prev_reg1 = IF op.reg2 = "none" THEN ex.prev_reg1 ELSE op.reg2
       /\ ex'.prev_value1 = IF op.reg2 = "none" THEN ex.prev_value1 ELSE op.value2
       /\ ex'.prev_reg2 = IF op.reg2 = "none" THEN ex.prev_reg2 ELSE ex.prev_reg1
       /\ ex'.prev_value2 = IF op.reg2 = "none" THEN ex.prev_value2 ELSE ex.prev_value1
       /\ ex'.stackpointer = IF op.reg2 = "rsp" THEN op.value2 ELSE ex.stackpointer
  <2>1. op.opcode \notin Pushes \cup {"syscall"} /\ op.reg2 \in GPR \cup {"none"}
        /\ (op.opcode = "nop" => op.reg2 = "none")
    BY <1>4, <1>5 DEF Pushes
  <2> QED BY <1>1, <1>3, <1>4, <2>1, NotedRegister DEF op
<1>14. \A g \in GPR : Settled(regfile', q')[g] = IF g = op.reg2 THEN op.value2
                                                 ELSE Settled(regfile, q)[g]
  <2>1. Settled(regfile', q') = Retired(Settled(regfile, q), op)
    BY <1>1, <1>3, <1>4, <1>7, SettledAppend DEF op
  <2>2. GPR \subseteq DOMAIN Settled(regfile, q)
    <3>1. GPR \subseteq DOMAIN regfile
      BY <1>1 DEF RegFile
    <3>2. DOMAIN Retired(regfile, q[1]) = DOMAIN regfile
      BY DEF Retired
    <3> QED BY <1>7, <3>1, <3>2 DEF Settled
  <2> QED BY <1>6, <2>1, <2>2, RetiredSimple
<1>15. ArchRegs' = [g \in GPR |-> IF g = TargetOf(t) THEN r.value2 ELSE ArchRegs[g]]
  <2>1. ArchRegs = [g \in GPR |-> IF g = "rsp" /\ ex.stackpointer # 0 THEN ex.stackpointer
                                  ELSE Settled(regfile, q)[g]]
    BY QueueShort, ArchRegsIs
  <2>2. ArchRegs' = [g \in GPR |-> IF g = "rsp" /\ ex'.stackpointer # 0 THEN ex'.stackpointer
                                   ELSE Settled(regfile', q')[g]]
    BY QueueShortNext, ArchRegsNext
  <2>3. \A g \in GPR : (IF g = "rsp" /\ ex'.stackpointer # 0 THEN ex'.stackpointer
                        ELSE Settled(regfile', q')[g])
                       = IF g = TargetOf(t) THEN r.value2 ELSE ArchRegs[g]
    BY <1>4, <1>13, <1>14, <2>1
  <2> QED BY <2>2, <2>3
<1>16. ArchMem' = ArchMem
  BY <1>1, <1>12, ArchMemIs, ArchMemNext DEF RegisterInv
<1>17. Forwarding'
  <2>1. /\ ex.prev_reg1 \in GPR \cup {"none"} /\ ex.prev_reg2 \in GPR \cup {"none"}
        /\ \A i \in 1 .. Len(q) : Simple(q[i]) /\ q[i].reg2 \in {"none", ex.prev_reg1}
        /\ \A g \in GPR : Settled(regfile, q)[g] = Remembered(g, regfile[g])
    <3>1. \A i \in 1 .. Len(q) : i = Len(q)
      BY <1>7
    <3> QED BY <3>1 DEF RegisterInv, Forwarding
  <2>2. /\ ex'.prev_reg1 \in GPR \cup {"none"} /\ ex'.prev_reg2 \in GPR \cup {"none"}
        /\ op.reg2 \in {"none", ex'.prev_reg1}
        /\ ex.prev_reg1 \in {ex'.prev_reg1, ex'.prev_reg2}
    BY <1>4, <1>5, <1>13, <2>1
  <2>3. \A i \in 1 .. Len(q') :
          /\ Simple(q'[i])
          /\ q'[i].reg2 \in {"none", ex'.prev_reg1, ex'.prev_reg2}
          /\ i = Len(q') => q'[i].reg2 \in {"none", ex'.prev_reg1}
    <3>1. ASSUME NEW i \in 1 .. Len(q')
          PROVE  /\ Simple(q'[i])
                 /\ q'[i].reg2 \in {"none", ex'.prev_reg1, ex'.prev_reg2}
                 /\ i = Len(q') => q'[i].reg2 \in {"none", ex'.prev_reg1}
      <4>1. CASE i = Len(q')
        BY <1>6, <1>7, <2>2, <4>1
      <4>2. CASE i # Len(q')
        <5>1. i \in 1 .. Len(q)
          BY <1>7, <4>2
        <5> QED BY <1>7, <2>1, <2>2, <4>2, <5>1
      <4> QED BY <4>1, <4>2
    <3> QED BY <3>1
  <2>4. \A g \in GPR : g # ex.prev_reg1 => Settled(regfile, q)[g] = regfile[g]
    <3>1. CASE Len(q) = 0
      BY <3>1 DEF Settled
    <3>2. CASE Len(q) = 1
      <4>1. GPR \subseteq DOMAIN regfile /\ Simple(q[1]) /\ q[1].reg2 \in {"none", ex.prev_reg1}
        BY <1>1, <2>1, <3>2 DEF RegFile
      <4>2. "none" \notin GPR
        BY PseudoAssumption
      <4>3. Settled(regfile, q) = Retired(regfile, q[1])
        BY <3>2 DEF Settled
      <4> QED BY <4>1, <4>2, <4>3, RetiredSimple
    <3> QED BY <1>7, <3>1, <3>2
  <2>5. \A g \in GPR : Settled(regfile', q')[g] =
                         IF g = ex'.prev_reg1 THEN ex'.prev_value1
                         ELSE IF g = ex'.prev_reg2 THEN ex'.prev_value2 ELSE regfile'[g]
    <3>1. \A g \in GPR : Settled(regfile, q)[g] =
                           IF g = ex.prev_reg1 THEN ex.prev_value1
                           ELSE IF g = ex.prev_reg2 THEN ex.prev_value2 ELSE regfile[g]
      BY <2>1 DEF Remembered
    <3>2. "none" \notin GPR
      BY PseudoAssumption
    <3>3. CASE op.reg2 = "none"
      BY <1>1, <1>13, <1>14, <3>1, <3>2, <3>3
    <3>4. CASE op.reg2 # "none"
      BY <1>1, <1>13, <1>14, <2>4, <3>1, <3>2, <3>4
    <3> QED BY <3>3, <3>4
  <2> QED BY <2>2, <2>3, <2>5 DEF Forwarding, Remembered
<1>18. Waits'
  <2>1. Patched(de_uop_queue) \in Seq(Uop) /\ Len(Patched(de_uop_queue)) = 1
    BY <1>1, <1>2, PatchedTyped
  <2>2. Len(de_uop_queue') = 0 /\ de_uop_queue' = <<>>
    BY <1>1, <2>1
  <2> QED BY <2>2 DEF Waits
<1>19. Quiescent' /\ Decoded'
  <2>1. Quiescent'
    BY <1>1, <1>10, <1>12, <1>13 DEF Quiescent, RegisterProgram
  <2>2. Decoded'
    BY <1>1 DEF RegisterInv, Decoded, FromProgram
  <2> QED BY <2>1, <2>2
<1>20. Abstract!Next
  <2>1. First(t) \in Word \/ t.opcode \notin Jumps
    BY <1>2 DEF Jumps
  <2> QED BY <1>1, <1>2, <1>11, <1>13, <1>15, <1>16, <2>1, SequentialExecute DEF t
<1> QED BY <1>17, <1>18, <1>19, <1>20 DEF RegisterInv

(* Execute starts the next instruction, or waits. *)
LEMMA ExecuteRegister ==
  ASSUME RegisterInv, IInv, IInv', FlightInv, RunExecute
  PROVE  RegisterInv' /\ (Stutters \/ Abstract!Next)
<1>1. ExecuteWork /\ MayRun("execute") /\ ex.state = "NORMAL"
  BY DEF RunExecute, Runs, RegisterInv, Quiescent
<1>2. CASE ClearStage \/ Blocked
  BY <1>2, WaitRegister
<1>3. CASE Perform
  BY <1>3, PerformRegister
<1>4. CASE Crash
  BY <1>4, CrashRegister
<1>5. ~AwaitData /\ ~CompleteRead
  BY <1>1 DEF AwaitData, CompleteRead
<1>6. CanStart => ~Unexpected /\ Front.opcode \notin Reads \cup {"syscall"}
  <2> SUFFICES ASSUME CanStart PROVE ~Unexpected /\ Front.opcode \notin Reads \cup {"syscall"}
    OBVIOUS
  <2>1. ~Unexpected /\ RegisterUop(program[arch_pc].uops[1])
        /\ HasOperands(Front, program[arch_pc].uops[1])
    BY <1>1, FrontIsReady
  <2> QED BY <2>1, Classified DEF HasOperands, Reads
<1>7. ~DropUnexpected /\ ~IssueRead /\ ~Syscall
  BY <1>6 DEF DropUnexpected, IssueRead, Syscall
<1> QED BY <1>1, <1>2, <1>3, <1>4, <1>5, <1>7 DEF ExecuteWork

-----------------------------------------------------------------------------
(* The refinement. *)

(* Reset. *)
LEMMA InitRegister ==
  ASSUME Init, RegisterProgram(program)
  PROVE  RegisterInv /\ Abstract!Init
<1>1. /\ ew_uop_queue = <<>> /\ dd_uop_queue = <<>> /\ de_uop_queue = <<>>
      /\ sig = IdleSignals /\ nxt = IdleSignals /\ arch_uops = 0 /\ halted = "no" /\ out = <<>>
      /\ ex.state = "NORMAL" /\ ex.prev_reg1 = "none" /\ ex.prev_reg2 = "none"
      /\ arch_pc \in DOMAIN program
  BY DEF Init
<1>2. Len(ew_uop_queue) = 0 /\ Len(dd_uop_queue) = 0 /\ Len(de_uop_queue) = 0
  BY <1>1
<1>3. Quiescent
  BY <1>1 DEF Quiescent, IdleSignals
<1>4. Forwarding
  <2>1. Settled(regfile, ew_uop_queue) = regfile
    BY <1>2 DEF Settled
  <2> QED BY <1>1, <1>2, <2>1, PseudoAssumption DEF Forwarding, Remembered
<1>5. Decoded
  BY <1>1, <1>2 DEF Decoded
<1>6. Waits
  BY <1>1, <1>2 DEF Waits
<1>7. Abstract!Init
  BY <1>1 DEF Abstract!Init
<1> QED BY <1>3, <1>4, <1>5, <1>6, <1>7 DEF RegisterInv

(* Every step of the core is one of the sequential machine or none.        *)
LEMMA StepRegister ==
  ASSUME RegisterInv, IInv, IInv', FlightInv, [Next]_vars
  PROVE  RegisterInv' /\ [Abstract!Next]_(Abstract!isa)
<1>1. RegisterInv' /\ (Stutters \/ Abstract!Next)
  <2>1. CASE DeliverInstruction
    BY <2>1, DeliverRegister
  <2>2. CASE RunFrontEnd
    BY <2>2, FrontEndRegister
  <2>3. CASE RunDispatch
    BY <2>3, DispatchRegister
  <2>4. CASE RunExecute
    BY <2>4, ExecuteRegister
  <2>5. CASE RunWriteback
    BY <2>5, RetireRegister
  <2>6. CASE RunMemory
    BY <2>6, MemoryRegister
  <2>7. CASE Tick
    BY <2>7, TickRegister
  <2>8. CASE Stopped \/ UNCHANGED vars
    BY <2>8, StillRegister DEF Stopped
  <2> QED BY <2>1, <2>2, <2>3, <2>4, <2>5, <2>6, <2>7, <2>8 DEF Next
<1>2. Stutters => UNCHANGED Abstract!isa
  BY DEF Stutters, Abstract!isa
<1> QED BY <1>1, <1>2

(* The core runs a register program as if its instructions were executed one*)
(* at a time, whatever the order of the processes, the pace of fetch and the*)
(* word size (dispatch.cc:57, execute.cc:301-321, 774-791, writeback.cc).  *)
(* stackpointer and the value fields may hold anything at reset; only      *)
(* rip_changed must be clear.                                              *)
THEOREM RegistersSequential ==
  Spec /\ ~ex.rip_changed /\ RegisterProgram(program) => RunsSequentially
<1>1. Init /\ ~ex.rip_changed /\ RegisterProgram(program) => RegisterInv /\ Abstract!Init
  BY InitRegister
<1>2. IInv /\ IInv' /\ FlightInv /\ RegisterInv /\ [Next]_vars
        => RegisterInv' /\ [Abstract!Next]_(Abstract!isa)
  BY StepRegister
<1>3. Spec => []IInv
  BY Invariant
<1>4. Spec /\ ~ex.rip_changed => []FlightInv
  BY FlightInvariant
<1> QED BY <1>1, <1>2, <1>3, <1>4, PTL DEF Spec, RunsSequentially, Abstract!Spec

-----------------------------------------------------------------------------
(* Instructions without a memory operand that the decoder cracks into a    *)
(* micro-op of the class; imul has two or three operands.                  *)
RegisterForm(mnemonic, o) ==
  LET IsRegister(k) == o[k].type = "reg" /\ o[k].base \in GPR
      IsSource(k)   == IsRegister(k) \/ o[k].type = "imm"
      Ends(k)       == o[k].type = "none"
  IN \/ mnemonic \in {"nop", "cqo"} /\ Ends(1) /\ Ends(2)
     \/ mnemonic \in Plain /\ IsRegister(1) /\ (IsSource(2) \/ o[2].type = "const")
     \/ mnemonic \in Unary /\ IsRegister(1) /\ Ends(2)
     \/ mnemonic \in Jumps /\ (o[1].type = "jimm" \/ (IsRegister(1) /\ Ends(2)))
     \/ /\ mnemonic = "imul" /\ IsRegister(1) /\ IsSource(2)
        /\ Ends(3) \/ (IsRegister(2) /\ IsSource(3))

(* The decoder cracks such an instruction into one micro-op of the class   *)
(* (decoder.cc:142-280): the program of the theorem is what it delivers.    *)
THEOREM CrackedRegister ==
  ASSUME NEW mnemonic, NEW o, RegisterForm(mnemonic, o)
  PROVE  Len(Crack(mnemonic, o)) = 1 /\ RegisterUop(Crack(mnemonic, o)[1])
<1> DEFINE c == Crack(mnemonic, o)
<1>1. CASE mnemonic \in {"nop", "cqo"} /\ o[1].type = "none" /\ o[2].type = "none"
  <2>1. c = Op(mnemonic, "none", "none", 0, "NO_SRC")
    BY <1>1 DEF Crack
  <2> QED BY <1>1, <2>1 DEF Op, RegisterUop
<1>2. CASE /\ mnemonic \in Plain /\ o[1].type = "reg" /\ o[1].base \in GPR
           /\ \/ o[2].type = "reg" /\ o[2].base \in GPR
              \/ o[2].type \in {"imm", "const"}
  <2>1. mnemonic # "imul" /\ c = CrackForm(mnemonic, o)
    BY <1>2 DEF Crack, Plain, Cmovs, Shifts
  <2>2. \/ c = Move(mnemonic, o[2].base, o[1].base) /\ o[2].base \in GPR
        \/ \E v : c = Op(mnemonic, "none", o[1].base, v, "IMMED")
    <3>1. CASE o[2].type = "reg" /\ o[2].base \in GPR
      BY <1>2, <2>1, <3>1 DEF CrackForm
    <3>2. CASE o[2].type = "imm"
      BY <1>2, <2>1, <3>2 DEF CrackForm, Immediate
    <3>3. CASE o[2].type = "const"
      BY <1>2, <2>1, <3>3 DEF CrackForm
    <3> QED BY <1>2, <3>1, <3>2, <3>3
  <2> QED BY <1>2, <2>2 DEF Move, Op, RegisterUop, HasSource
<1>3. CASE mnemonic \in Unary /\ o[1].type = "reg" /\ o[1].base \in GPR /\ o[2].type = "none"
  <2>1. mnemonic \notin {"imul", "pop"} /\ c = CrackForm(mnemonic, o)
    BY <1>3 DEF Crack, Unary
  <2>2. c = Move(mnemonic, o[1].base, "none")
    BY <1>3, <2>1 DEF CrackForm
  <2> QED BY <1>3, <2>2 DEF Move, Op, RegisterUop
<1>4. CASE mnemonic \in Jumps /\ o[1].type = "jimm"
  <2>1. mnemonic # "imul" /\ c = CrackForm(mnemonic, o)
    BY <1>4 DEF Crack, Jumps
  <2>2. c = Immediate(mnemonic, o[1], "none")
    BY <1>4, <2>1 DEF CrackForm
  <2> QED BY <1>4, <2>2 DEF Immediate, Op, RegisterUop, HasSource
<1>5. CASE mnemonic \in Jumps /\ o[1].type = "reg" /\ o[1].base \in GPR /\ o[2].type = "none"
  <2>1. mnemonic \notin {"imul", "pop"} /\ c = CrackForm(mnemonic, o)
    BY <1>5 DEF Crack, Jumps
  <2>2. c = Move(mnemonic, o[1].base, "none")
    BY <1>5, <2>1 DEF CrackForm
  <2> QED BY <1>5, <2>2 DEF Move, Op, RegisterUop, HasSource
<1>6. CASE /\ mnemonic = "imul" /\ o[1].type = "reg" /\ o[1].base \in GPR
           /\ (o[2].type = "reg" /\ o[2].base \in GPR) \/ o[2].type = "imm"
           /\ \/ o[3].type = "none"
              \/ /\ o[2].type = "reg" /\ o[2].base \in GPR
                 /\ (o[3].type = "reg" /\ o[3].base \in GPR) \/ o[3].type = "imm"
  <2>1. c = CrackImul(o)
    BY <1>6 DEF Crack
  <2>2. CASE o[3].type = "none"
    BY <1>6, <2>1, <2>2 DEF CrackImul, RegisterUop
  <2>3. CASE o[3].type = "reg"
    BY <1>6, <2>1, <2>3 DEF CrackImul, RegisterUop
  <2>4. CASE o[3].type = "imm"
    BY <1>6, <2>1, <2>4 DEF CrackImul, RegisterUop
  <2> QED BY <1>6, <2>2, <2>3, <2>4
<1> QED BY <1>1, <1>2, <1>3, <1>4, <1>5, <1>6 DEF RegisterForm

(* Code of such instructions runs sequentially.                            *)
THEOREM RegisterCodeSequential ==
  /\ Spec /\ ~ex.rip_changed
  /\ \A a \in DOMAIN program :
       \E mnemonic, o : RegisterForm(mnemonic, o) /\ program[a].uops = Crack(mnemonic, o)
  => RunsSequentially
<1> DEFINE Code == \A a \in DOMAIN program :
              \E mnemonic, o : RegisterForm(mnemonic, o) /\ program[a].uops = Crack(mnemonic, o)
<1>1. Code => RegisterProgram(program)
  BY CrackedRegister DEF RegisterProgram
<1> HIDE DEF Code
<1>2. Spec /\ ~ex.rip_changed /\ Code => RunsSequentially
  BY <1>1, RegistersSequential
<1> QED BY <1>2 DEF Code
===============================================================================
