---------------------------- MODULE FragmentProofs ----------------------------
(***************************************************************************)
(* For every word size: the jumps after a comparison, signed division and  *)
(* small products; and that the micro-ops of an instruction with an operand*)
(* in memory do what the instruction does.  The second part runs them on a *)
(* machine St(R, f, c) of registers, flags and memory: what casts may be   *)
(* left out of a sum or product, what each micro-op does (Step...), where  *)
(* an address is left (AddressLeft), what the instruction does (Effect...),*)
(* and that they agree (...Done).                                          *)
(***************************************************************************)
EXTENDS MCAlu, AluProofs

(* The cast of a difference of two words. *)
LEMMA TruncSmall == ASSUME NEW n \in Int, 0 <= n, n < WordMod PROVE Trunc(n) = n
  BY WordModAssumption DEF Trunc

(* A negative number wraps around once. *)
LEMMA TruncBelow == ASSUME NEW n \in Int, -WordMod <= n, n < 0 PROVE Trunc(n) = n + WordMod
  BY WordModAssumption DEF Trunc

(* The sign bit is half the number of values of a word. *)
LEMMA SignHalf == SignBit \in Nat /\ WordMod = 2 * SignBit
  BY WordModAssumption, EvenWord DEF SignBit

(* cmp changes the flags and nothing else (execute.cc). *)
LEMMA CmpResult ==
  ASSUME NEW a, NEW b, NEW c, NEW f
  PROVE  Results(Operation("cmp", a, b, c), f) = {Result(b, c, CmpFlags(a, b))}
  BY DEF Results, Operation, Cmovs, Shifts

(* The sign of the truncated difference, where the difference fits.        *)
LEMMA DifferenceSign ==
  ASSUME NEW a \in Word, NEW b \in Word, Fits(Signed(b) - Signed(a))
  PROVE  Negative(Trunc(b - a)) <=> Signed(b) < Signed(a)
<1> DEFINE H == SignBit
<1>1. /\ a \in Int /\ b \in Int /\ 0 <= a /\ 0 <= b /\ a < 2 * H /\ b < 2 * H
      /\ H \in Nat /\ WordMod = 2 * H
  BY SignHalf DEF Word
<1>2. Trunc(b - a) = IF a <= b THEN b - a ELSE b - a + 2 * H
  BY <1>1, TruncSmall, TruncBelow
<1>3. /\ Signed(a) = IF a >= H THEN a - 2 * H ELSE a
      /\ Signed(b) = IF b >= H THEN b - 2 * H ELSE b
      /\ -H <= Signed(b) - Signed(a) /\ Signed(b) - Signed(a) < H
      /\ Negative(Trunc(b - a)) <=> Trunc(b - a) >= H
  BY <1>1 DEF Signed, Negative, Fits
<1> HIDE DEF H
<1> QED BY <1>1, <1>2, <1>3

(* Words are equal when their signed values are. *)
LEMMA SameSigned ==
  ASSUME NEW a \in Word, NEW b \in Word
  PROVE  Signed(a) = Signed(b) <=> a = b
  BY SignHalf DEF Word, Signed, Negative

(* What the flags of cmp say of its operands. *)
LEMMA UnsignedOrder ==
  ASSUME NEW a \in Word, NEW b \in Word, flags = CmpFlags(a, b)
  PROVE  /\ Taken("ja", flags) <=> b > a
         /\ Taken("jb", flags) <=> b < a
         /\ Taken("jz", flags) <=> b = a
         /\ Taken("jnz", flags) <=> b # a
<1>1. /\ Taken("ja", flags) <=> ~flags.CF /\ ~flags.ZF
      /\ Taken("jb", flags) <=> flags.CF
      /\ Taken("jz", flags) <=> flags.ZF
      /\ Taken("jnz", flags) <=> ~flags.ZF
  BY DEF Taken
<1>2. (flags.CF <=> b < a) /\ (flags.ZF <=> a = b)
  BY DEF CmpFlags
<1>3. a \in Int /\ b \in Int
  BY SignedInt
<1> QED BY <1>1, <1>2, <1>3

(* What the flags of cmp say of the signed order. *)
LEMMA SignedFlags ==
  ASSUME rax \in Word, operand \in Word, flags = CmpFlags(operand, rax),
         Fits(Signed(rax) - Signed(operand))
  PROVE  SignedOrder
<1> DEFINE lower == Signed(rax) < Signed(operand)
           same  == Signed(rax) = Signed(operand)
<1>1. /\ flags.SF = Negative(Trunc(rax - operand)) /\ flags.ZF = (operand = rax)
      /\ flags.OF = FALSE
  BY DEF CmpFlags
<1>2. (flags.SF <=> lower) /\ (flags.ZF <=> same) /\ (flags.SF = flags.OF <=> ~lower)
  <2>1. Negative(Trunc(rax - operand)) <=> lower
    BY DifferenceSign
  <2>2. operand = rax <=> same
    BY SameSigned
  <2>3. flags.SF \in BOOLEAN
    BY <1>1 DEF Negative
  <2>4. flags.SF <=> lower
    BY <1>1, <2>1
  <2>5. flags.ZF <=> same
    BY <1>1, <2>2
  <2> HIDE DEF lower, same
  <2>6. flags.SF = flags.OF <=> ~lower
    BY <1>1, <2>3, <2>4
  <2> QED BY <2>4, <2>5, <2>6
<1>3. /\ Taken("jl", flags) <=> flags.SF # flags.OF
      /\ Taken("jle", flags) <=> flags.SF # flags.OF \/ flags.ZF
      /\ Taken("jg", flags) <=> flags.SF = flags.OF /\ ~flags.ZF
      /\ Taken("jge", flags) <=> flags.SF = flags.OF
      /\ Taken("cmovg", flags) <=> flags.SF = flags.OF /\ ~flags.ZF
  BY DEF Taken
<1>4. /\ Signed(rax) \in Int /\ Signed(operand) \in Int
  BY SignedInt
<1>5. /\ Signed(rax) <= Signed(operand) <=> lower \/ same
      /\ Signed(rax) > Signed(operand) <=> ~lower /\ ~same
      /\ Signed(rax) >= Signed(operand) <=> ~lower
  BY <1>4
<1> HIDE DEF lower, same
<1>6. /\ Taken("jl", flags) <=> lower
      /\ Taken("jle", flags) <=> lower \/ same
      /\ Taken("jg", flags) <=> ~lower /\ ~same
      /\ Taken("jge", flags) <=> ~lower
      /\ Taken("cmovg", flags) <=> ~lower /\ ~same
  BY <1>2, <1>3
<1> QED BY <1>5, <1>6 DEF SignedOrder, lower, same

-----------------------------------------------------------------------------
(* Division and products, said once: the prover does no non-linear         *)
(* arithmetic by itself.                                                   *)
LEMMA DivMod ==
  ASSUME NEW m \in Nat, NEW k \in Nat, k > 0
  PROVE  m \div k \in Nat /\ k * (m \div k) <= m /\ m < k * (m \div k) + k
  BY Z3

(* Signs move out of products. *)
LEMMA NegatedProduct ==
  ASSUME NEW x \in Int, NEW y \in Int
  PROVE  (-x) * y = -(x * y) /\ x * (-y) = -(x * y) /\ x * y = y * x
  BY Z3

(* Zero divided is zero. *)
LEMMA ZeroDivided == ASSUME NEW k \in Nat, k > 0 PROVE 0 \div k = 0
  BY Z3

(* A number below the word size has no upper half. *)
LEMMA SmallDivided == ASSUME NEW n \in Nat, n < WordMod PROVE n \div WordMod = 0
  BY WordModAssumption, Z3

(* A value that fits survives the cast to a word and back. *)
LEMMA CastFits == ASSUME NEW n \in Int, Fits(n) PROVE Signed(Trunc(n)) = n
<1>1. SignBit \in Nat /\ WordMod = 2 * SignBit /\ SignBit > 0
  BY SignHalf, WordModAssumption
<1>2. Trunc(n) = IF 0 <= n THEN n ELSE n + WordMod
  BY <1>1, TruncSmall, TruncBelow DEF Fits
<1> QED BY <1>1, <1>2 DEF Signed, Negative, Fits

(* The division of C++: towards zero, the remainder below the divisor and  *)
(* with the sign of the dividend.                                          *)
LEMMA Truncated ==
  ASSUME NEW n \in Int, NEW d \in Int, d # 0
  PROVE  LET q == Quotient(n, d)
             r == Remainder(n, d)
         IN /\ q \in Int /\ r \in Int /\ n = q * d + r
            /\ Magnitude(r) < Magnitude(d)
            /\ r = 0 \/ (r < 0) = (n < 0)
<1> DEFINE qm == Magnitude(n) \div Magnitude(d)
           p == Magnitude(d) * qm
           q == Quotient(n, d)
<1>1. Magnitude(n) \in Nat /\ Magnitude(d) \in Nat /\ Magnitude(d) > 0
  BY DEF Magnitude
<1>2. qm \in Nat /\ p <= Magnitude(n) /\ Magnitude(n) < p + Magnitude(d) /\ p \in Int
  <2>1. \A m \in Nat, k \in Nat : k > 0 =>
          /\ m \div k \in Nat /\ k * (m \div k) <= m /\ m < k * (m \div k) + k
          /\ k * (m \div k) \in Int
    BY DivMod, ProductInt
  <2> HIDE DEF q
  <2> QED BY <1>1, <2>1, Zenon
<1>3. q = IF (n < 0) = (d < 0) THEN qm ELSE -qm
  BY DEF Quotient
<1>4. Magnitude(d) = IF d < 0 THEN -d ELSE d
  BY DEF Magnitude
<1> HIDE DEF qm, q
<1>5. d * q = IF n < 0 THEN -p ELSE p
  <2>1. d * qm = IF d < 0 THEN -p ELSE p
    <3>1. (-d) * qm = -(d * qm) /\ d * qm \in Int
      BY <1>2, NegatedProduct, ProductInt
    <3> QED BY <1>4, <3>1
  <2>2. d * (-qm) = -(d * qm) /\ d * qm \in Int
    BY <1>2, NegatedProduct, ProductInt
  <2>3. CASE (n < 0) = (d < 0)
    BY <1>3, <2>1, <2>3
  <2>4. CASE (n < 0) # (d < 0)
    BY <1>2, <1>3, <2>1, <2>2, <2>4
  <2> QED BY <2>3, <2>4
<1> HIDE DEF p
<1>6. q \in Int /\ Remainder(n, d) = n - d * q /\ q * d = d * q
  BY <1>2, <1>3, NegatedProduct DEF Remainder, q
<1> DEFINE r == Remainder(n, d)
<1>7. r = IF n < 0 THEN n + p ELSE n - p
  BY <1>2, <1>5, <1>6
<1>8. /\ r \in Int
      /\ r = 0 \/ (r < 0) = (n < 0)
      /\ Magnitude(r) < Magnitude(d) /\ n = q * d + r
  BY <1>2, <1>5, <1>6, <1>7 DEF Magnitude
<1> QED BY <1>6, <1>8 DEF q
-----------------------------------------------------------------------------
(* What each instruction of a fragment computes. *)
LEMMA CqoResult ==
  ASSUME NEW a, NEW b, NEW c, NEW f
  PROVE  Results(Operation("cqo", a, b, c), f)
           = {Result(IF Negative(a) THEN WordMod - 1 ELSE 0, c, f)}
  BY DEF Results, Operation, Cmovs, Shifts

(* What idiv leaves in its two results (execute.cc). *)
LEMMA IdivResult ==
  ASSUME NEW a, NEW b, NEW c, NEW f, c = 0 \/ Negative(b),
         NEW r \in Results(Operation("idiv", a, b, c), f)
  PROVE  /\ a # 0
         /\ r.value2 = Trunc(Quotient(Signed(b), Signed(a)))
         /\ r.value3 = Trunc(Remainder(Signed(b), Signed(a)))
<1>1. r \in IdivResults(a, b, c, f)
  BY DEF Results, Operation, Cmovs, Shifts
<1> QED BY <1>1 DEF IdivResults, Result

(* What mul leaves in its two results (execute.cc). *)
LEMMA MulResult ==
  ASSUME NEW a, NEW b, NEW c, NEW f, NEW r \in Results(Operation("mul", a, b, c), f)
  PROVE  IF a = 0 \/ b = 0 THEN r.value2 = 0
         ELSE LET product == Signed(a) * Signed(b)
              IN /\ r.value2 = Trunc(product)
                 /\ r.value3 \in {Trunc(product \div WordMod), 0}
<1>1. r \in MulResults(a, b, c, f)
  BY DEF Results, Operation, Cmovs, Shifts
<1> QED BY <1>1 DEF MulResults, Result

(* idiv of two words, back in signed arithmetic. *)
LEMMA DivisionOf ==
  ASSUME NEW a \in Word, NEW b \in Word, a # 0,
         Fits(Quotient(Signed(b), Signed(a)))
  PROVE  /\ Signed(Trunc(Quotient(Signed(b), Signed(a)))) = Quotient(Signed(b), Signed(a))
         /\ Signed(Trunc(Remainder(Signed(b), Signed(a)))) = Remainder(Signed(b), Signed(a))
<1>1. Signed(a) \in Int /\ Signed(b) \in Int /\ Signed(a) # 0
  BY SignedInt, SignedNonzero
<1> DEFINE q == Quotient(Signed(b), Signed(a))
           r == Remainder(Signed(b), Signed(a))
<1>2. q \in Int /\ r \in Int /\ Magnitude(r) < Magnitude(Signed(a))
  BY <1>1, Truncated
<1>3. Magnitude(Signed(a)) <= SignBit /\ SignBit \in Int
  BY SignHalf DEF Signed, Negative, Magnitude, Word
<1> HIDE DEF q, r
<1>4. Fits(r)
  <2>1. Magnitude(Signed(a)) \in Int
    BY <1>1 DEF Magnitude
  <2> QED BY <1>2, <1>3, <2>1 DEF Fits, Magnitude
<1>5. Fits(q)
  BY DEF q
<1>6. Signed(Trunc(q)) = q /\ Signed(Trunc(r)) = r
  BY <1>2, <1>4, <1>5, CastFits
<1> QED BY <1>6 DEF q, r

(* test changes the flags and nothing else (execute.cc). *)
LEMMA TestResult ==
  ASSUME NEW a, NEW b, NEW c, NEW f
  PROVE  Results(Operation("test", a, b, c), f) = {Result(b, c, TestFlags(a, b))}
  BY DEF Results, Operation, Cmovs, Shifts

(* The bits two words share, and the flag test makes of them. *)
LEMMA SharedBits ==
  ASSUME NEW a \in Word, NEW b \in Word
  PROVE  TestFlags(a, b).ZF <=> \A i \in 0 .. WordBits - 1 : Bit(b, i) * Bit(a, i) = 0
<1>1. \A i \in 0 .. WordBits - 1 : 2 ^ i \in Nat /\ 2 ^ i > 0
  BY WordBitsAssumption, Powers
<1>2. \A i \in 0 .. WordBits - 1 : Bit(0, i) = 0
  BY <1>1, ZeroDivided DEF Bit
<1>3. \A i \in 0 .. WordBits - 1 : Bit(a, i) \in Int /\ Bit(b, i) \in Int
  <2>1. TAKE i \in 0 .. WordBits - 1
  <2>2. a \div 2 ^ i \in Int /\ b \div 2 ^ i \in Int
    BY <1>1, DivMod DEF Word
  <2> QED BY <2>2 DEF Bit
<1>4. \A i \in 0 .. WordBits - 1 : Bit(a, i) * Bit(b, i) = Bit(b, i) * Bit(a, i)
  BY <1>3, NegatedProduct
<1>5. 0 \in Bitwise2(And, a, b) <=> \A i \in 0 .. WordBits - 1 : Bit(0, i) = Bit(a, i) * Bit(b, i)
  BY WordConstants DEF Bitwise2, And
<1>6. TestFlags(a, b).ZF <=> 0 \in Bitwise2(And, a, b)
  BY DEF TestFlags
<1> HIDE DEF Bit
<1> QED BY <1>2, <1>4, <1>5, <1>6

(* A product of small words, in either branch of mul. *)
LEMMA ProductOf ==
  ASSUME NEW a \in Word, NEW b \in Word, ~Negative(a), ~Negative(b), b * a < WordMod
  PROVE  Trunc(Signed(a) * Signed(b)) = b * a /\ Trunc((Signed(a) * Signed(b)) \div WordMod) = 0
<1>1. Signed(a) = a /\ Signed(b) = b /\ a \in Nat /\ b \in Nat
  BY DEF Signed, Word
<1>2. a * b \in Nat /\ b * a = a * b
  BY <1>1, Z3
<1> DEFINE p == a * b
<1>3. p \in Nat /\ p < WordMod
  BY <1>2
<1>4. Signed(a) * Signed(b) = p /\ b * a = p
  BY <1>1, <1>2
<1> HIDE DEF p
<1>5. Trunc(p) = p /\ p \div WordMod = 0 /\ Trunc(0) = 0
  BY <1>3, TruncSmall, SmallDivided, WordModAssumption
<1> QED BY <1>4, <1>5

(* Words before the fragment, and the flags of its operands after cmp.     *)
FragmentInv ==
  /\ done = <<>> => rax \in Word /\ operand \in Word /\ rax0 = rax
  /\ Compared => rax \in Word /\ operand \in Word /\ flags = CmpFlags(operand, rax)
  /\ done = <<"test">> => rax \in Word /\ operand \in Word /\ flags = TestFlags(operand, rax)
  /\ done = <<"cqo">> => /\ rax \in Word /\ operand \in Word /\ rax0 = rax
                         /\ rdx = 0 \/ Negative(rax)
  /\ done = <<"cqo", "idiv">> =>
       /\ rax0 \in Word /\ operand \in Word /\ operand # 0
       /\ rax = Trunc(Quotient(Signed(rax0), Signed(operand)))
       /\ rdx = Trunc(Remainder(Signed(rax0), Signed(operand)))
  /\ done = <<"mul">> =>
       /\ rax0 \in Word /\ operand \in Word
       /\ IF operand = 0 \/ rax0 = 0 THEN rax = 0
          ELSE LET product == Signed(operand) * Signed(rax0)
               IN /\ rax = Trunc(product)
                  /\ rdx \in {Trunc(product \div WordMod), 0}

(* Every step of a fragment keeps the invariant. *)
LEMMA FragmentStep == ASSUME FragmentInv, [Next]_fragment PROVE FragmentInv'
<1>1. CASE Compare
  <2>1. done = <<>> /\ UNCHANGED <<rax, operand>> /\ done' = <<"cmp">>
    BY <1>1 DEF Compare
  <2>2. flags' = CmpFlags(operand, rax)
    BY <1>1, CmpResult DEF Compare, Result
  <2> QED BY <2>1, <2>2 DEF FragmentInv, Compared
<1>2. CASE AccessMemory
  <2>1. done' = <<"access">>
    BY <1>2 DEF AccessMemory
  <2> QED BY <2>1 DEF FragmentInv, Compared
<1>3. CASE Test
  <2>1. done = <<>> /\ UNCHANGED <<rax, operand>> /\ done' = <<"test">>
    BY <1>3 DEF Test
  <2>2. flags' = TestFlags(operand, rax)
    BY <1>3, TestResult DEF Test, Result
  <2> QED BY <2>1, <2>2 DEF FragmentInv, Compared
<1>4. CASE SignExtend
  <2>1. done = <<>> /\ UNCHANGED <<rax, operand, rax0>> /\ done' = <<"cqo">>
    BY <1>4 DEF SignExtend
  <2>2. rdx' = IF Negative(rax) THEN WordMod - 1 ELSE 0
    BY <1>4, CqoResult DEF SignExtend, Result
  <2> QED BY <2>1, <2>2 DEF FragmentInv, Compared
<1>5. CASE Divide
  <2>1. done = <<"cqo">> /\ UNCHANGED <<operand, rax0>> /\ done' = <<"cqo", "idiv">>
    BY <1>5 DEF Divide
  <2>2. /\ rax \in Word /\ operand \in Word /\ rax0 = rax
        /\ rdx = 0 \/ Negative(rax)
    BY <2>1 DEF FragmentInv
  <2>3. PICK r \in Results(Operation("idiv", operand, rax, rdx), flags) :
          rax' = r.value2 /\ rdx' = r.value3
    BY <1>5 DEF Divide
  <2>4. /\ operand # 0
        /\ rax' = Trunc(Quotient(Signed(rax), Signed(operand)))
        /\ rdx' = Trunc(Remainder(Signed(rax), Signed(operand)))
    BY <2>2, <2>3, IdivResult
  <2> QED BY <2>1, <2>2, <2>4 DEF FragmentInv, Compared
<1>6. CASE Multiply
  <2>1. done = <<>> /\ UNCHANGED <<operand, rax0>> /\ done' = <<"mul">>
    BY <1>6 DEF Multiply
  <2>2. rax \in Word /\ operand \in Word /\ rax0 = rax
    BY <2>1 DEF FragmentInv
  <2>3. PICK r \in Results(Operation("mul", operand, rax, rdx), flags) :
          rax' = r.value2 /\ rdx' = r.value3
    BY <1>6 DEF Multiply
  <2>4. IF operand = 0 \/ rax = 0 THEN rax' = 0
        ELSE LET product == Signed(operand) * Signed(rax)
             IN /\ rax' = Trunc(product)
                /\ rdx' \in {Trunc(product \div WordMod), 0}
    BY <2>3, MulResult
  <2> QED BY <2>1, <2>2, <2>4 DEF FragmentInv, Compared
<1>7. CASE UNCHANGED fragment
  BY <1>7 DEF fragment, FragmentInv, Compared
<1> QED BY <1>1, <1>2, <1>3, <1>4, <1>5, <1>6, <1>7 DEF Next

(* The invariant holds before the first instruction. *)
LEMMA FragmentInit == ASSUME Init PROVE FragmentInv
  BY DEF Init, FragmentInv, Compared

(* What the finished part of a fragment left in the registers and eflags   *)
(* (execute.cc:405-701), in every reachable state.                         *)
THEOREM FragmentInvariant == Spec => []FragmentInv
  BY FragmentInit, FragmentStep, PTL DEF Spec

(* ja, jb, jz and jnz after cmp go by the unsigned order of its operands   *)
(* (execute.cc:649-696), for every word size.                              *)
THEOREM UnsignedJumps == Spec => []UnsignedBranches
<1>1. FragmentInv => UnsignedBranches
  BY UnsignedOrder DEF FragmentInv, UnsignedBranches
<1> QED BY <1>1, FragmentInvariant, PTL

(* The signed jumps and cmovg after cmp go by the signed order of its      *)
(* operands (execute.cc:649-754), as long as their difference fits a word. *)
THEOREM SignedJumps == Spec => []SignedBranches
<1>1. FragmentInv => SignedBranches
  BY SignedFlags DEF FragmentInv, SignedBranches
<1> QED BY <1>1, FragmentInvariant, PTL

(* The jumps and moves after test go by the bits its operands share, for   *)
(* every word size (execute.cc:632-754).                                   *)
THEOREM TestJumps == Spec => []TestBranches
<1>1. ASSUME FragmentInv PROVE TestBranches
  <2>1. SUFFICES ASSUME done = <<"test">> PROVE TestBranches
    BY DEF TestBranches
  <2>2. rax \in Word /\ operand \in Word /\ flags = TestFlags(operand, rax)
    BY <1>1, <2>1 DEF FragmentInv
  <2> DEFINE disjoint == \A i \in 0 .. WordBits - 1 : Bit(rax, i) * Bit(operand, i) = 0
  <2>3. flags.ZF <=> disjoint
    BY <2>2, SharedBits
  <2>4. ~flags.SF /\ ~flags.OF /\ (flags.SF <=> flags.OF)
    BY <2>2 DEF TestFlags
  <2>5. /\ Taken("jz", flags) <=> flags.ZF
        /\ Taken("jnz", flags) <=> ~flags.ZF
        /\ ~Taken("jl", flags) /\ Taken("jge", flags) /\ Taken("cmovns", flags)
        /\ Taken("jle", flags) <=> flags.ZF
        /\ Taken("jg", flags) <=> ~flags.ZF
    BY <2>2 DEF TestFlags, Taken
  <2> HIDE DEF disjoint
  <2>6. /\ Taken("jz", flags) <=> disjoint
        /\ Taken("jnz", flags) <=> ~disjoint
        /\ ~Taken("jl", flags) /\ Taken("jge", flags) /\ Taken("cmovns", flags)
        /\ Taken("jle", flags) <=> disjoint
        /\ Taken("jg", flags) <=> ~disjoint
    BY <2>3, <2>5
  <2> QED BY <2>6 DEF TestBranches, disjoint
<1> QED BY <1>1, FragmentInvariant, PTL

(* cqo; idiv is the signed division of a word whenever its quotient fits   *)
(* (execute.cc:405-411, 445-458), for every word size.                     *)
THEOREM SignedDivisions == Spec => []SignedDivision
<1>1. ASSUME FragmentInv PROVE SignedDivision
  <2>1. SUFFICES ASSUME done = <<"cqo", "idiv">>,
                        Fits(Quotient(Signed(rax0), Signed(operand)))
                 PROVE  /\ Signed(rax0) = Signed(rax) * Signed(operand) + Signed(rdx)
                        /\ Magnitude(Signed(rdx)) < Magnitude(Signed(operand))
                        /\ \/ Signed(rdx) = 0
                           \/ (Signed(rdx) < 0) = (Signed(rax0) < 0)
    BY DEF SignedDivision
  <2>2. /\ rax0 \in Word /\ operand \in Word /\ operand # 0
        /\ rax = Trunc(Quotient(Signed(rax0), Signed(operand)))
        /\ rdx = Trunc(Remainder(Signed(rax0), Signed(operand)))
    BY <1>1, <2>1 DEF FragmentInv
  <2>3. /\ Signed(rax) = Quotient(Signed(rax0), Signed(operand))
        /\ Signed(rdx) = Remainder(Signed(rax0), Signed(operand))
    BY <2>1, <2>2, DivisionOf
  <2>4. Signed(rax0) \in Int /\ Signed(operand) \in Int /\ Signed(operand) # 0
    BY <2>2, SignedInt, SignedNonzero
  <2>5. LET q == Quotient(Signed(rax0), Signed(operand))
            r == Remainder(Signed(rax0), Signed(operand))
        IN /\ Signed(rax0) = q * Signed(operand) + r
           /\ Magnitude(r) < Magnitude(Signed(operand))
           /\ r = 0 \/ (r < 0) = (Signed(rax0) < 0)
    BY <2>4, Truncated, Zenon
  <2> QED BY <2>3, <2>5, Zenon
<1> QED BY <1>1, FragmentInvariant, PTL

(* mul of two small words is exact in rax, in whichever branch the leading-*)
(* zero counts choose, and clears rdx unless an operand is zero            *)
(* (execute.cc:412-430), for every word size.                              *)
THEOREM ExactProducts == Spec => []SmallProducts
<1>1. ASSUME FragmentInv PROVE SmallProducts
  <2>1. SUFFICES ASSUME done = <<"mul">>, ~Negative(rax0), ~Negative(operand),
                        rax0 * operand < WordMod
                 PROVE  rax = rax0 * operand /\ (rax # 0 => rdx = 0)
    BY DEF SmallProducts
  <2>2. rax0 \in Word /\ operand \in Word
    BY <1>1, <2>1 DEF FragmentInv
  <2>3. CASE operand = 0 \/ rax0 = 0
    <3>1. rax0 * operand = 0 /\ rax = 0
      BY <1>1, <2>1, <2>2, <2>3, SignedInt DEF FragmentInv
    <3> QED BY <3>1
  <2>4. CASE ~(operand = 0 \/ rax0 = 0)
    <3>1. /\ rax = Trunc(Signed(operand) * Signed(rax0))
          /\ rdx \in {Trunc((Signed(operand) * Signed(rax0)) \div WordMod), 0}
      BY <1>1, <2>1, <2>4 DEF FragmentInv
    <3> QED BY <2>1, <2>2, <3>1, ProductOf
  <2> QED BY <2>3, <2>4
<1> QED BY <1>1, FragmentInvariant, PTL

-----------------------------------------------------------------------------
(* What a remainder leaves is a multiple. *)
LEMMA Remaindered ==
  ASSUME NEW n \in Int
  PROVE  \E q \in Int : n = WordMod * q + Trunc(n) /\ Trunc(n) \in Word
<1>1. WordMod \in Nat /\ WordMod > 0
  BY WordConstants
<1>2. \A k \in Nat, m \in Int : k > 0 => m = k * (m \div k) + (m % k) /\ m \div k \in Int
  BY Z3
<1> QED BY <1>1, <1>2, TruncWord DEF Trunc

(* Two words that differ by a multiple of the word size are one. *)
LEMMA SameWord ==
  ASSUME NEW x \in Word, NEW y \in Word, NEW q \in Int, x = y + WordMod * q
  PROVE  x = y
<1>1. WordMod \in Nat /\ WordMod > 0 /\ x \in Nat /\ y \in Nat /\ x < WordMod /\ y < WordMod
  BY WordConstants DEF Word
<1>2. \A k \in Nat, p \in Int : k > 0 => (p > 0 => k * p >= k) /\ (p < 0 => k * p <= -k)
                                 /\ k * p \in Int /\ (p = 0 => k * p = 0)
  BY Z3
<1> QED BY <1>1, <1>2

(* Equal casts. *)
LEMMA Congruent ==
  ASSUME NEW m \in Int, NEW n \in Int, NEW k \in Int, m = n + WordMod * k
  PROVE  Trunc(m) = Trunc(n)
<1>1. PICK p \in Int : m = WordMod * p + Trunc(m) /\ Trunc(m) \in Word
  BY Remaindered
<1>2. PICK q \in Int : n = WordMod * q + Trunc(n) /\ Trunc(n) \in Word
  BY Remaindered
<1>3. WordMod * (q + k - p) = WordMod * q + WordMod * k - WordMod * p
      /\ WordMod * q \in Int /\ WordMod * k \in Int /\ WordMod * p \in Int
  BY WordConstants, Z3
<1>4. Trunc(m) \in Int /\ Trunc(n) \in Int
  BY <1>1, <1>2 DEF Word
<1>5. Trunc(m) = Trunc(n) + WordMod * (q + k - p) /\ q + k - p \in Int
  BY <1>1, <1>2, <1>3, <1>4
<1> QED BY <1>1, <1>2, <1>5, SameWord

(* A sum may be cast on the way. *)
LEMMA CastSum ==
  ASSUME NEW a \in Int, NEW b \in Int
  PROVE  Trunc(Trunc(a) + b) = Trunc(a + b) /\ Trunc(b + Trunc(a)) = Trunc(a + b)
<1>1. PICK q \in Int : a = WordMod * q + Trunc(a) /\ Trunc(a) \in Word
  BY Remaindered
<1>2. Trunc(a) \in Int /\ WordMod * q \in Int
  BY <1>1, WordConstants, ProductInt DEF Word
<1>3. a + b = (Trunc(a) + b) + WordMod * q /\ Trunc(a) + b = b + Trunc(a)
  BY <1>1, <1>2
<1>4. Trunc(a + b) = Trunc(Trunc(a) + b)
  <2>1. Trunc(a) + b \in Int /\ a + b \in Int
    BY <1>2
  <2> QED BY <2>1, <1>3, Congruent
<1> QED BY <1>3, <1>4

(* The difference two multiples make to a product. *)
LEMMA ProductShift ==
  ASSUME NEW w \in Int, NEW a \in Int, NEW b \in Int, NEW p \in Int, NEW q \in Int
  PROVE  a * b = (a - w * p) * (b - w * q) + w * (a * q + p * b - w * (p * q))
<1>1. (a - w * p) * (b - w * q) = a * b - a * (w * q) - (w * p) * b + (w * p) * (w * q)
  BY Z3
<1>2. w * (a * q + p * b - w * (p * q)) = w * (a * q) + w * (p * b) - w * (w * (p * q))
  BY Z3
<1>3. a * (w * q) = w * (a * q) /\ (w * p) * b = w * (p * b)
      /\ (w * p) * (w * q) = w * (w * (p * q))
  BY Z3
<1> QED BY <1>1, <1>2, <1>3, ProductInt

(* The signed reading of a number differs from it by a multiple.           *)
LEMMA SignedShift == ASSUME NEW a \in Int PROVE \E p \in Int : Signed(a) = a - WordMod * p
<1>1. WordMod * 0 = 0 /\ WordMod * 1 = WordMod /\ WordMod \in Int
  BY WordConstants, Z3
<1>2. Signed(a) = a - WordMod * 0 \/ Signed(a) = a - WordMod * 1
  BY <1>1 DEF Signed
<1> QED BY <1>2

(* A product of signed words is that of the words. *)
LEMMA CastProduct ==
  ASSUME NEW a \in Int, NEW b \in Int
  PROVE  Trunc(Signed(a) * Signed(b)) = Trunc(a * b)
<1>1. PICK p \in Int : Signed(a) = a - WordMod * p
  BY SignedShift
<1>2. PICK q \in Int : Signed(b) = b - WordMod * q
  BY SignedShift
<1> DEFINE k == a * q + p * b - WordMod * (p * q)
<1>3. a * b = (a - WordMod * p) * (b - WordMod * q) + WordMod * k
  BY WordConstants, ProductShift
<1>4. k \in Int /\ a * b \in Int /\ (a - WordMod * p) * (b - WordMod * q) \in Int
  BY WordConstants
<1> HIDE DEF k
<1> QED BY <1>1, <1>2, <1>3, <1>4, Congruent

(* So may a factor. *)
LEMMA CastFactor ==
  ASSUME NEW a \in Int, NEW b \in Int
  PROVE  Trunc(Trunc(a) * b) = Trunc(a * b)
<1>1. PICK q \in Int : a = WordMod * q + Trunc(a) /\ Trunc(a) \in Word
  BY Remaindered
<1>2. Trunc(a) \in Int /\ q * b \in Int /\ a * b \in Int /\ Trunc(a) * b \in Int
  BY <1>1, ProductInt DEF Word
<1>3. (WordMod * q + Trunc(a)) * b = Trunc(a) * b + WordMod * (q * b)
  BY <1>2, WordConstants, Z3
<1> QED BY <1>1, <1>2, <1>3, Congruent

-----------------------------------------------------------------------------
(* f goes through n micro-ops of s, from machine m. *)
Course(m, s, n, f) ==
  f = [k \in 0 .. n |-> IF k = 0 THEN m ELSE OneStep(f[k - 1], Whole(s[k]))]

(* There is a course of any length. *)
LEMMA CourseExists ==
  ASSUME NEW m, NEW s, NEW n \in Nat
  PROVE  \E f : Course(m, s, n, f)
<1> DEFINE T == {i \in Nat : \E f : Course(m, s, i, f)}
<1>1. 0 \in T
  <2> DEFINE g == [k \in 0 .. 0 |-> m]
  <2>1. g = [k \in 0 .. 0 |-> IF k = 0 THEN m ELSE OneStep(g[k - 1], Whole(s[k]))]
    OBVIOUS
  <2>2. Course(m, s, 0, g)
    BY <2>1, Zenon DEF Course
  <2> QED BY <2>2
<1>2. ASSUME NEW i \in 0 + 1 .. n, i - 1 \in T PROVE i \in T
  <2>1. PICK h : Course(m, s, i - 1, h)
    BY <1>2
  <2> DEFINE g == [k \in 0 .. i |-> IF k = i THEN OneStep(h[i - 1], Whole(s[i])) ELSE h[k]]
  <2>2. \A k \in 0 .. i - 1 : h[k] = IF k = 0 THEN m ELSE OneStep(h[k - 1], Whole(s[k]))
    BY <2>1 DEF Course
  <2>3. ASSUME NEW k \in 0 .. i
        PROVE  g[k] = IF k = 0 THEN m ELSE OneStep(g[k - 1], Whole(s[k]))
    <3>1. CASE k = i
      <4>1. k # 0 /\ k - 1 = i - 1 /\ i - 1 \in 0 .. i /\ i - 1 # i
        BY <3>1
      <4> QED BY <3>1, <4>1
    <3>2. CASE k # i
      <4>1. k \in 0 .. i - 1 /\ (k # 0 => k - 1 \in 0 .. i /\ k - 1 # i)
        BY <3>2
      <4> QED BY <2>2, <3>2, <4>1
    <3> QED BY <3>1, <3>2
  <2>4. g = [k \in 0 .. i |-> IF k = 0 THEN m ELSE OneStep(g[k - 1], Whole(s[k]))]
    BY <2>3
  <2>5. Course(m, s, i, g)
    <3> HIDE DEF g
    <3> QED BY <2>4 DEF Course
  <2> QED BY <2>5
<1>3. n \in T
  <2> HIDE DEF T
  <2>1. n \in 0 .. n
    OBVIOUS
  <2> QED BY <1>1, <1>2, <2>1, UpTo
<1> QED BY <1>3

(* Two courses agree as far as their micro-ops do. *)
LEMMA CourseUnique ==
  ASSUME NEW m, NEW s, NEW t, NEW n \in Nat, NEW l \in Nat, NEW f, NEW g,
         Course(m, s, n, f), Course(m, t, l, g), n <= l, \A k \in 1 .. n : s[k] = t[k]
  PROVE  f[n] = g[n]
<1> DEFINE T == {i \in 0 .. n : f[i] = g[i]}
<1>1. 0 \in T
  BY DEF Course
<1>2. ASSUME NEW i \in 0 + 1 .. n, i - 1 \in T PROVE i \in T
  <2>1. i \in 0 .. n /\ i \in 0 .. l /\ i # 0 /\ s[i] = t[i] /\ f[i - 1] = g[i - 1]
    BY <1>2
  <2>2. f[i] = OneStep(f[i - 1], Whole(s[i])) /\ g[i] = OneStep(g[i - 1], Whole(t[i]))
    BY <2>1 DEF Course
  <2> QED BY <2>1, <2>2
<1>3. n \in T
  <2> HIDE DEF T
  <2>1. n \in 0 .. n
    OBVIOUS
  <2> QED BY <1>1, <1>2, <2>1, UpTo
<1> QED BY <1>3

(* Run is the end of the course through all of a sequence. *)
LEMMA RunIs ==
  ASSUME NEW m, NEW s, Len(s) \in Nat
  PROVE  \E f : Course(m, s, Len(s), f) /\ Run(m, s) = f[Len(s)]
<1> DEFINE h == CHOOSE f : Course(m, s, Len(s), f)
<1>1. Course(m, s, Len(s), h)
  BY CourseExists
<1>2. Run(m, s) = h[Len(s)]
  BY Zenon DEF Run, Course
<1> QED BY <1>1, <1>2

(* Nothing to run. *)
LEMMA RunEmpty == ASSUME NEW m PROVE Run(m, <<>>) = m
<1>1. PICK f : Course(m, <<>>, 0, f) /\ Run(m, <<>>) = f[0]
  BY RunIs
<1> QED BY <1>1 DEF Course

(* One micro-op more. *)
LEMMA RunNext ==
  ASSUME NEW m, NEW S, NEW s \in Seq(S), NEW u \in S
  PROVE  Run(m, s \o <<u>>) = OneStep(Run(m, s), Whole(u))
<1> DEFINE t == s \o <<u>>
           n == Len(s)
<1>1. t \in Seq(S) /\ Len(t) = n + 1 /\ n \in Nat /\ t[n + 1] = u /\ \A k \in 1 .. n : s[k] = t[k]
  OBVIOUS
<1> HIDE DEF t
<1>2. PICK f : Course(m, s, n, f) /\ Run(m, s) = f[n]
  BY <1>1, RunIs
<1>3. PICK g : Course(m, t, n + 1, g) /\ Run(m, t) = g[n + 1]
  BY <1>1, RunIs
<1>4. f[n] = g[n]
  <2>1. n + 1 \in Nat /\ n <= n + 1
    BY <1>1
  <2> QED BY <1>1, <1>2, <1>3, <2>1, CourseUnique
<1>5. g[n + 1] = OneStep(g[n], Whole(t[n + 1]))
  <2>1. n + 1 \in 0 .. n + 1 /\ n + 1 # 0 /\ (n + 1) - 1 = n
    BY <1>1
  <2> QED BY <1>3, <2>1 DEF Course
<1> QED BY <1>1, <1>2, <1>3, <1>4, <1>5 DEF t

(* One micro-op alone. *)
LEMMA RunOne ==
  ASSUME NEW m, NEW u
  PROVE  Run(m, <<u>>) = OneStep(m, Whole(u))
<1> DEFINE S == {u}
<1>1. <<>> \in Seq(S) /\ u \in S
  OBVIOUS
<1>2. <<>> \o <<u>> = <<u>>
  BY <1>1
<1> HIDE DEF S
<1>3. Run(m, <<>> \o <<u>>) = OneStep(Run(m, <<>>), Whole(u))
  BY <1>1, RunNext
<1> QED BY <1>2, <1>3, RunEmpty

(* Two micro-ops more. *)
LEMMA RunPair ==
  ASSUME NEW m, NEW S, NEW s \in Seq(S), NEW u \in S, NEW v \in S
  PROVE  Run(m, s \o (<<u>> \o <<v>>)) = OneStep(OneStep(Run(m, s), Whole(u)), Whole(v))
<1>1. s \o (<<u>> \o <<v>>) = (s \o <<u>>) \o <<v>> /\ s \o <<u>> \in Seq(S)
  OBVIOUS
<1>2. Run(m, s \o <<u>>) = OneStep(Run(m, s), Whole(u))
  BY RunNext
<1> DEFINE t == s \o <<u>>
<1>3. Run(m, t \o <<v>>) = OneStep(Run(m, t), Whole(v))
  <2> HIDE DEF t
  <2>1. t \in Seq(S)
    BY <1>1 DEF t
  <2> QED BY <2>1, RunNext
<1> QED BY <1>1, <1>2, <1>3

-----------------------------------------------------------------------------
(* The arithmetic Isa shares with Execute, for the opcodes of the forms    *)
(* below.                                                                  *)
LEMMA SharedCasts ==
  ASSUME NEW n
  PROVE  /\ Sequential!Trunc(n) = Trunc(n) /\ Sequential!Signed(n) = Signed(n)
         /\ Sequential!Negative(n) = Negative(n)
  BY Zenon DEF Sequential!Trunc, Trunc, Sequential!Negative, Negative, Sequential!SignBit,
               SignBit, Sequential!Signed, Signed

(* What mov, add and sub compute in Isa. *)
LEMMA MoveOutcome ==
  ASSUME NEW u, NEW f
  PROVE  /\ u.opcode = "mov" => Sequential!Results(u, f) = {Result(u.value1, u.value3, f)}
         /\ u.opcode = "add" =>
              Sequential!Results(u, f) = {Result(Trunc(u.value2 + u.value1), u.value3, f)}
         /\ u.opcode = "sub" =>
              Sequential!Results(u, f) = {Result(Trunc(u.value2 - u.value1), u.value3, f)}
  BY DEF Sequential!Results, Sequential!Cmovs, Sequential!Shifts,
         Sequential!Result, Result, Sequential!Trunc, Trunc

(* The multiplication of an index by its scale. *)
LEMMA ScaleOutcome ==
  ASSUME NEW u, NEW f, u.opcode = "imul", u.src = "LOADMUL"
  PROVE  Sequential!Results(u, f)
           = {Result(Trunc(Signed(u.value2) * Signed(u.value1)), u.value3, f)}
<1>1. Sequential!Results(u, f)
        = Sequential!ImulResults(u.src, u.value1, u.value2, u.value3, f)
  BY DEF Sequential!Results, Sequential!Cmovs, Sequential!Shifts
<1>2. Sequential!ImulResults(u.src, u.value1, u.value2, u.value3, f)
        = {Result(Trunc(Signed(u.value2) * Signed(u.value1)), u.value3, f)}
  BY SharedCasts DEF Sequential!ImulResults, Sequential!Result, Result
<1> QED BY <1>1, <1>2

(* What cmp and test compute in Isa. *)
LEMMA FlagOutcome ==
  ASSUME NEW u, NEW f
  PROVE  /\ u.opcode = "cmp" =>
              Sequential!Results(u, f)
                = {Result(u.value2, u.value3, CmpFlags(u.value1, u.value2))}
         /\ u.opcode = "test" =>
              Sequential!Results(u, f)
                = {Result(u.value2, u.value3, TestFlags(u.value1, u.value2))}
<1>1. \A a, b : Sequential!CmpFlags(a, b) = CmpFlags(a, b)
  BY SharedCasts DEF Sequential!CmpFlags, CmpFlags
<1>2. \A a, b : Sequential!TestFlags(a, b) = TestFlags(a, b)
  BY Zenon DEF Sequential!TestFlags, TestFlags, Sequential!Bitwise2, Bitwise2, Sequential!And,
      And, Sequential!Bit, Bit, Sequential!Word, Word
<1> QED BY <1>1, <1>2 DEF Sequential!Results, Sequential!Cmovs, Sequential!Shifts,
                           Sequential!Result, Result

(* What mul leaves in rax. *)
LEMMA MulOutcome ==
  ASSUME NEW u, NEW f, u.opcode = "mul", NEW r \in Sequential!Results(u, f)
  PROVE  /\ r.value2 = IF u.value1 = 0 \/ u.value2 = 0 THEN 0
                       ELSE Trunc(Signed(u.value1) * Signed(u.value2))
         /\ r.flags = f
<1>1. r \in Sequential!MulResults(u.value1, u.value2, u.value3, f)
  BY DEF Sequential!Results, Sequential!Cmovs, Sequential!Shifts
<1> QED BY <1>1, SharedCasts DEF Sequential!MulResults, Sequential!Result

(* The registers of a machine of Isa, the machine, and a micro-op.         *)
Names == {"rax", "rcx", "rdx", "rsp", "scratchls", "loadstore"}
RegFile == [Names -> Word]
Core == [Word -> Word]
St(R, f, c) == [regs |-> R, flags |-> f, memory |-> c]
Uop(mnemonic, reg1, reg2, immed, src) ==
  [src |-> src, opcode |-> mnemonic, reg1 |-> reg1, reg2 |-> reg2, reg3 |-> "none",
   immed |-> immed]
Written(R, b, v) == [R EXCEPT ![b] = v]
FileValue(R, r) == IF r = "rip" THEN Trunc(NextAddress) ELSE IF r \in Names THEN R[r] ELSE 0

(* The values a micro-op finds in its operands. *)
LEMMA OperandsOf ==
  ASSUME NEW R \in RegFile, NEW f, NEW c, NEW op, NEW a, NEW b, NEW i, NEW s,
         op \notin {"cqo", "dec", "inc", "neg"}, s \in {"REG", "IMMED", "LOADMUL"}
  PROVE  LET t == Whole(Uop(op, a, b, i, s))
             u == Sequential!Operands(St(R, f, c), t)
         IN /\ u.opcode = op /\ u.src = s /\ u.reg2 = b
            /\ u.value1 = IF s = "REG" THEN FileValue(R, a) ELSE i
            /\ u.value2 = FileValue(R, IF op \in {"mul", "div", "idiv"} THEN "rax" ELSE b)
<1> DEFINE t == Whole(Uop(op, a, b, i, s))
           u == Sequential!Operands(St(R, f, c), t)
<1>1. \A r : Sequential!ValueOf(St(R, f, c), t, r) = FileValue(R, r)
  <2>1. t.address + t.opsize = NextAddress
    BY DEF Whole, Uop, NextAddress
  <2>2. DOMAIN (St(R, f, c).regs) = Names /\ St(R, f, c).regs = R
    BY DEF St, RegFile
  <2> HIDE DEF t
  <2> QED BY <2>1, <2>2, SharedCasts DEF Sequential!ValueOf, FileValue
<1>2. /\ t.opcode = op /\ t.src = s /\ t.reg1 = a /\ t.reg2 = b /\ t.reg3 = "none" /\ t.immed = i
  BY DEF Whole, Uop
<1>3. /\ u.opcode = t.opcode /\ u.src = t.src /\ u.reg2 = t.reg2
      /\ u.value1 = IF Sequential!Immediate(t) THEN t.immed
                    ELSE Sequential!ValueOf(St(R, f, c), t, Sequential!Source(t))
      /\ u.value2 = Sequential!ValueOf(St(R, f, c), t, Sequential!Dest(t))
  BY DEF Sequential!Operands, Whole
<1>4. /\ Sequential!Immediate(t) <=> s # "REG"
      /\ Sequential!Source(t) = a
      /\ Sequential!Dest(t) = IF op \in {"mul", "div", "idiv"} THEN "rax" ELSE b
  BY <1>2 DEF Sequential!Immediate, Sequential!Source, Sequential!Dest, Sequential!Widening
<1> HIDE DEF t, u
<1> QED BY <1>1, <1>2, <1>3, <1>4 DEF t, u

(* Writing a register, and the flags. *)
LEMMA SetReg ==
  ASSUME NEW R \in RegFile, NEW f, NEW c, NEW b \in Names, NEW v
  PROVE  Sequential!WithReg(St(R, f, c), b, v) = St(Written(R, b, v), f, c)
<1> DEFINE m == St(R, f, c)
<1>1. m.regs = R /\ DOMAIN R = Names /\ m = [regs |-> R, flags |-> f, memory |-> c]
  BY DEF St, RegFile
<1>2. Sequential!WithReg(m, b, v) = [m EXCEPT !.regs[b] = v]
  BY <1>1 DEF Sequential!WithReg
<1>3. [m EXCEPT !.regs[b] = v] = [regs |-> [R EXCEPT ![b] = v], flags |-> f, memory |-> c]
  BY <1>1
<1> QED BY <1>2, <1>3 DEF St, Written

(* Writing the flags. *)
LEMMA SetFlags ==
  ASSUME NEW R, NEW f, NEW c, NEW g
  PROVE  [St(R, f, c) EXCEPT !.flags = g] = St(R, g, c)
  BY DEF St

(* A micro-op that only computes, with one outcome. *)
LEMMA StepOf ==
  ASSUME NEW R \in RegFile, NEW f, NEW c, NEW op, NEW a, NEW b, NEW i, NEW s,
         op \in {"mov", "add", "sub", "imul", "cmp", "test"}, s \in {"REG", "IMMED", "LOADMUL"},
         b \in Names, NEW v, NEW x, NEW g,
         LET u == Sequential!Operands(St(R, f, c), Whole(Uop(op, a, b, i, s)))
         IN Sequential!Results(u, f) = {Result(v, x, g)}
  PROVE  OneStep(St(R, f, c), Whole(Uop(op, a, b, i, s))) = St(Written(R, b, v), g, c)
<1> DEFINE m == St(R, f, c)
           t == Whole(Uop(op, a, b, i, s))
           u == Sequential!Operands(m, t)
           r == CHOOSE y \in Sequential!Outcomes(m, t) : TRUE
<1>1. u.opcode = op /\ u.src = s /\ u.reg2 = b
  BY OperandsOf
<1>2. Sequential!Outcomes(m, t) = {Result(v, x, g)}
  BY DEF Sequential!Outcomes, St
<1>3. r = Result(v, x, g)
  BY <1>2
<1>4. OneStep(m, t) = Sequential!Step(m, t, r)
  BY DEF OneStep
<1>5. ~Sequential!Widening(u) /\ Sequential!Dest(u) = b
  BY <1>1 DEF Sequential!Widening, Sequential!Dest
<1>6. m.regs = R /\ DOMAIN (m.regs) = Names /\ m.flags = f /\ m.memory = c
  BY DEF St, RegFile
<1>7. r.value2 = v /\ r.flags = g
  <2> HIDE DEF r
  <2> QED BY <1>3 DEF Result
<1>8. Sequential!Step(m, t, r)
        = [Sequential!WithReg(m, Sequential!Dest(u), r.value2) EXCEPT !.flags = r.flags]
  <2>1. u = Sequential!Operands(m, t)
    OBVIOUS
  <2> HIDE DEF u, r, t, m
  <2> QED BY <1>1, <1>5, <2>1 DEF Sequential!Step
<1>9. [Sequential!WithReg(m, b, v) EXCEPT !.flags = g] = St(Written(R, b, v), g, c)
  BY SetReg, SetFlags
<1> HIDE DEF u, r, t
<1> QED BY <1>4, <1>5, <1>7, <1>8, <1>9 DEF t

(* What each micro-op does to registers, flags and memory (execute.cc).    *)
Given(R, a, i, s) == IF s = "REG" THEN FileValue(R, a) ELSE i

(* mov, add and sub, of a register or an immediate. *)
LEMMA StepMove ==
  ASSUME NEW R \in RegFile, NEW f, NEW c, NEW a, NEW b \in Names, NEW i,
         NEW s \in {"REG", "IMMED"}
  PROVE  /\ OneStep(St(R, f, c), Whole(Uop("mov", a, b, i, s)))
              = St(Written(R, b, Given(R, a, i, s)), f, c)
         /\ OneStep(St(R, f, c), Whole(Uop("add", a, b, i, s)))
              = St(Written(R, b, Trunc(R[b] + Given(R, a, i, s))), f, c)
         /\ OneStep(St(R, f, c), Whole(Uop("sub", a, b, i, s)))
              = St(Written(R, b, Trunc(R[b] - Given(R, a, i, s))), f, c)
<1> DEFINE u(op) == Sequential!Operands(St(R, f, c), Whole(Uop(op, a, b, i, s)))
<1>1. \A op \in {"mov", "add", "sub"} : /\ u(op).opcode = op
         /\ u(op).value1 = Given(R, a, i, s) /\ u(op).value2 = R[b]
  <2>1. FileValue(R, b) = R[b]
    BY DEF FileValue, Names
  <2>2. TAKE op \in {"mov", "add", "sub"}
  <2> QED BY <2>1, OperandsOf DEF Given
<1>2. /\ Sequential!Results(u("mov"), f) = {Result(Given(R, a, i, s), u("mov").value3, f)}
      /\ Sequential!Results(u("add"), f)
           = {Result(Trunc(R[b] + Given(R, a, i, s)), u("add").value3, f)}
      /\ Sequential!Results(u("sub"), f)
           = {Result(Trunc(R[b] - Given(R, a, i, s)), u("sub").value3, f)}
  <2> HIDE DEF u
  <2> QED BY <1>1, MoveOutcome
<1> HIDE DEF u
<1>3. OneStep(St(R, f, c), Whole(Uop("mov", a, b, i, s)))
        = St(Written(R, b, Given(R, a, i, s)), f, c)
  BY <1>2, StepOf DEF u
<1>4. OneStep(St(R, f, c), Whole(Uop("add", a, b, i, s)))
        = St(Written(R, b, Trunc(R[b] + Given(R, a, i, s))), f, c)
  BY <1>2, StepOf DEF u
<1>5. OneStep(St(R, f, c), Whole(Uop("sub", a, b, i, s)))
        = St(Written(R, b, Trunc(R[b] - Given(R, a, i, s))), f, c)
  BY <1>2, StepOf DEF u
<1> QED BY <1>3, <1>4, <1>5

(* The multiplication of an index. *)
LEMMA StepScale ==
  ASSUME NEW R \in RegFile, NEW f, NEW c, NEW b \in Names, NEW i
  PROVE  OneStep(St(R, f, c), Whole(Uop("imul", "none", b, i, "LOADMUL")))
           = St(Written(R, b, Trunc(Signed(R[b]) * Signed(i))), f, c)
<1> DEFINE u == Sequential!Operands(St(R, f, c), Whole(Uop("imul", "none", b, i, "LOADMUL")))
<1>1. u.opcode = "imul" /\ u.src = "LOADMUL" /\ u.value1 = i /\ u.value2 = R[b]
  <2>1. FileValue(R, b) = R[b]
    BY DEF FileValue, Names
  <2> QED BY <2>1, OperandsOf
<1>2. Sequential!Results(u, f) = {Result(Trunc(Signed(R[b]) * Signed(i)), u.value3, f)}
  <2> HIDE DEF u
  <2> QED BY <1>1, ScaleOutcome
<1> QED BY <1>2, StepOf

(* cmp and test. *)
LEMMA StepCompare ==
  ASSUME NEW R \in RegFile, NEW f, NEW c, NEW a, NEW b \in Names, NEW i,
         NEW s \in {"REG", "IMMED"}
  PROVE  /\ OneStep(St(R, f, c), Whole(Uop("cmp", a, b, i, s)))
              = St(R, CmpFlags(Given(R, a, i, s), R[b]), c)
         /\ OneStep(St(R, f, c), Whole(Uop("test", a, b, i, s)))
              = St(R, TestFlags(Given(R, a, i, s), R[b]), c)
<1> DEFINE u(op) == Sequential!Operands(St(R, f, c), Whole(Uop(op, a, b, i, s)))
<1>1. \A op \in {"cmp", "test"} : /\ u(op).opcode = op
         /\ u(op).value1 = Given(R, a, i, s) /\ u(op).value2 = R[b]
  <2>1. FileValue(R, b) = R[b]
    BY DEF FileValue, Names
  <2>2. TAKE op \in {"cmp", "test"}
  <2> QED BY <2>1, OperandsOf DEF Given
<1>2. /\ Sequential!Results(u("cmp"), f)
           = {Result(R[b], u("cmp").value3, CmpFlags(Given(R, a, i, s), R[b]))}
      /\ Sequential!Results(u("test"), f)
           = {Result(R[b], u("test").value3, TestFlags(Given(R, a, i, s), R[b]))}
  <2> HIDE DEF u
  <2> QED BY <1>1, FlagOutcome
<1>3. Written(R, b, R[b]) = R
  BY DEF RegFile, Written
<1> QED BY <1>2, <1>3, StepOf

(* load, store and push. *)
LEMMA StepLoad ==
  ASSUME NEW R \in RegFile, NEW f, NEW c
  PROVE  OneStep(St(R, f, c), Whole(Uop("load", "loadstore", "scratchls", 0, "REG")))
           = St(Written(R, "scratchls", c[R["loadstore"]]), f, c)
<1> DEFINE m == St(R, f, c)
           t == Whole(Uop("load", "loadstore", "scratchls", 0, "REG"))
           u == Sequential!Operands(m, t)
<1>1. u.opcode = "load" /\ u.src = "REG" /\ u.reg2 = "scratchls" /\ u.value1 = R["loadstore"]
  <2>1. FileValue(R, "loadstore") = R["loadstore"]
    BY DEF FileValue, Names
  <2> QED BY <2>1, OperandsOf
<1>2. \A r : Sequential!Step(m, t, r) = Sequential!WithReg(m, u.reg2, m.memory[u.value1])
  <2>1. u = Sequential!Operands(m, t)
    OBVIOUS
  <2>2. TAKE r
  <2> HIDE DEF u, t, m
  <2> QED BY <1>1, <2>1 DEF Sequential!Step, Sequential!Widening
<1>3. m.memory = c
  BY DEF St
<1>4. "scratchls" \in Names
  BY DEF Names
<1> HIDE DEF u
<1> QED BY <1>1, <1>2, <1>3, <1>4, SetReg DEF OneStep

(* store writes the word in scratchls at the address in loadstore. *)
LEMMA StepStore ==
  ASSUME NEW R \in RegFile, NEW f, NEW c \in Core
  PROVE  OneStep(St(R, f, c), Whole(Uop("store", "scratchls", "loadstore", 0, "REG")))
           = St(R, f, Written(c, R["loadstore"], R["scratchls"]))
<1> DEFINE m == St(R, f, c)
           t == Whole(Uop("store", "scratchls", "loadstore", 0, "REG"))
           u == Sequential!Operands(m, t)
<1>1. u.opcode = "store" /\ u.src = "REG" /\ u.value1 = R["scratchls"] /\ u.value2 = R["loadstore"]
  <2>1. FileValue(R, "loadstore") = R["loadstore"] /\ FileValue(R, "scratchls") = R["scratchls"]
    BY DEF FileValue, Names
  <2> QED BY <2>1, OperandsOf
<1>2. \A r : Sequential!Step(m, t, r) = Sequential!WithMem(m, u.value2, u.value1)
  <2>1. u = Sequential!Operands(m, t)
    OBVIOUS
  <2>2. TAKE r
  <2> HIDE DEF u, t, m
  <2> QED BY <1>1, <2>1 DEF Sequential!Step, Sequential!Widening
<1>3. \A x, v : Sequential!WithMem(m, x, v) = St(R, f, Written(c, x, v))
  BY DEF St, Written, Sequential!WithMem
<1> HIDE DEF u, m
<1> QED BY <1>1, <1>2, <1>3 DEF OneStep, m

(* push moves rsp before it writes. *)
LEMMA StepPush ==
  ASSUME NEW R \in RegFile, NEW f, NEW c \in Core, NEW b
  PROVE  LET sp == Trunc(R["rsp"] - 1)
         IN OneStep(St(R, f, c), Whole(Uop("push", "scratchls", b, 0, "REG")))
              = St(Written(R, "rsp", sp), f, Written(c, sp, R["scratchls"]))
<1> DEFINE m == St(R, f, c)
           t == Whole(Uop("push", "scratchls", b, 0, "REG"))
           u == Sequential!Operands(m, t)
           sp == Trunc(R["rsp"] - 1)
<1>1. u.opcode = "push" /\ u.src = "REG" /\ u.value1 = R["scratchls"]
  <2>1. FileValue(R, "scratchls") = R["scratchls"]
    BY DEF FileValue, Names
  <2> QED BY <2>1, OperandsOf
<1>2. m.regs["rsp"] = R["rsp"]
  BY DEF St
<1>3. \A r : Sequential!Step(m, t, r)
               = Sequential!WithMem(Sequential!WithReg(m, "rsp", sp), sp, u.value1)
  <2>1. u = Sequential!Operands(m, t)
    OBVIOUS
  <2>2. TAKE r
  <2> HIDE DEF u, t, m
  <2> QED BY <1>1, <1>2, <2>1, SharedCasts DEF Sequential!Step, Sequential!Widening
<1>4. Sequential!WithReg(m, "rsp", sp) = St(Written(R, "rsp", sp), f, c)
  <2>1. "rsp" \in Names
    BY DEF Names
  <2> QED BY <2>1, SetReg
<1>5. \A S, x, v : Sequential!WithMem(St(S, f, c), x, v) = St(S, f, Written(c, x, v))
  BY DEF St, Written, Sequential!WithMem
<1> HIDE DEF u, m
<1> QED BY <1>1, <1>3, <1>4, <1>5 DEF OneStep, m

(* mul, but for the high half. *)
LEMMA StepMul ==
  ASSUME NEW R \in RegFile, NEW f, NEW c, NEW b, R["rax"] \in Word, R["scratchls"] \in Word
  PROVE  \E v : OneStep(St(R, f, c), Whole(Uop("mul", "scratchls", b, 0, "REG")))
           = St(Written(Written(R, "rax", Trunc(Signed(R["rax"]) * Signed(R["scratchls"]))),
                      "rdx", v), f, c)
<1> DEFINE m == St(R, f, c)
           t == Whole(Uop("mul", "scratchls", b, 0, "REG"))
           u == Sequential!Operands(m, t)
           r == CHOOSE y \in Sequential!Outcomes(m, t) : TRUE
           p == Trunc(Signed(R["rax"]) * Signed(R["scratchls"]))
<1>1. u.opcode = "mul" /\ u.value1 = R["scratchls"] /\ u.value2 = R["rax"]
  <2>1. FileValue(R, "scratchls") = R["scratchls"] /\ FileValue(R, "rax") = R["rax"]
    BY DEF FileValue, Names
  <2> QED BY <2>1, OperandsOf
<1>2. r \in Sequential!Results(u, f)
  <2>1. Sequential!Outcomes(m, t) = Sequential!Results(u, f)
    BY DEF Sequential!Outcomes, St
  <2>2. Sequential!Results(u, f) # {}
    <3> HIDE DEF u
    <3>1. Sequential!Results(u, f)
            = Sequential!MulResults(u.value1, u.value2, u.value3, f)
      BY <1>1 DEF Sequential!Results, Sequential!Cmovs, Sequential!Shifts
    <3> QED BY <3>1 DEF Sequential!MulResults
  <2> HIDE DEF u
  <2> QED BY <2>1, <2>2
<1>3. r.value2 = p /\ r.flags = f
  <2>1. /\ r.value2 = IF R["scratchls"] = 0 \/ R["rax"] = 0 THEN 0
                      ELSE Trunc(Signed(R["scratchls"]) * Signed(R["rax"]))
        /\ r.flags = f
    <3> HIDE DEF u, r
    <3> QED BY <1>1, <1>2, MulOutcome
  <2>2. Signed(R["scratchls"]) * Signed(R["rax"]) = Signed(R["rax"]) * Signed(R["scratchls"])
    BY SignedInt
  <2>3. R["scratchls"] = 0 \/ R["rax"] = 0 => p = 0
    <3>1. Signed(0) = 0 /\ Trunc(0) = 0
      BY TruncSmall, SignHalf, WordModAssumption DEF Signed, Negative
    <3>2. \A n \in Int : n * 0 = 0 /\ 0 * n = 0
      BY Z3
    <3> QED BY <3>1, <3>2, SignedInt
  <2> HIDE DEF r
  <2> QED BY <2>1, <2>2, <2>3
<1>4. Sequential!Step(m, t, r)
        = [Sequential!WithReg(Sequential!WithReg(m, "rax", r.value2), "rdx", r.value3)
             EXCEPT !.flags = r.flags]
  <2>1. u = Sequential!Operands(m, t)
    OBVIOUS
  <2> HIDE DEF u, r, t, m
  <2> QED BY <1>1, <2>1 DEF Sequential!Step, Sequential!Widening
<1>5. "rax" \in Names /\ "rdx" \in Names /\ Written(R, "rax", p) \in RegFile
  <2>1. p \in Word
    BY SignedInt, ProductInt, TruncWord
  <2> QED BY <2>1 DEF Names, RegFile, Written
<1>6. Sequential!Step(m, t, r)
        = St(Written(Written(R, "rax", p), "rdx", r.value3), f, c)
  <2>1. Sequential!WithReg(m, "rax", p) = St(Written(R, "rax", p), f, c)
    BY <1>5, SetReg
  <2>2. Sequential!WithReg(St(Written(R, "rax", p), f, c), "rdx", r.value3)
          = St(Written(Written(R, "rax", p), "rdx", r.value3), f, c)
    <3> HIDE DEF p, r, m, t, u
    <3> QED BY <1>5, SetReg
  <2> HIDE DEF m, r, p, t
  <2> QED BY <1>3, <1>4, <2>1, <2>2, SetFlags
<1> QED BY <1>6 DEF OneStep

(* The registers of an address, the addresses whose cracking is right (see *)
(* MCAlu), and where they are.                                             *)
GPRs == {"rax", "rcx", "rdx", "rsp"}
RegOf(R, r) == IF r = "none" THEN 0 ELSE IF r = "rip" THEN NextAddress ELSE R[r]
Times(s) == IF s = 0 THEN 1 ELSE s
EaOf(R, x) == Trunc(RegOf(R, x.base) + RegOf(R, x.index) * Times(x.scale)
                    + AsSigned(x.lval, x.offset))
Address(b, i, s, d, l) ==
  /\ b \in GPRs \cup {"none", "rip"} /\ i \in GPRs \cup {"none"} /\ s \in Nat
  /\ d \in 0 .. WordBits /\ l \in Nat /\ l < 2 ^ d
  /\ b = "none" => i # "none"
  /\ b = i => s # 0
Ends == Names \cup {"none", "rip"}
MicroOps == {Uop(op, a, b, i, s) : op \in {"mov", "add", "imul"}, a \in Ends, b \in Ends, i \in Int,
                                   s \in {"REG", "IMMED", "LOADMUL"}}

(* Words are their own casts. *)
LEMMA CastWord == ASSUME NEW x \in Word PROVE Trunc(x) = x
  BY TruncSmall, WordConstants DEF Word

(* An extended displacement adds what the signed one does. *)
LEMMA Displaced ==
  ASSUME NEW d \in 0 .. WordBits, NEW l \in Nat, l < 2 ^ d
  PROVE  /\ sign_extend(l, d) \in Int /\ AsSigned(l, d) \in Int
         /\ d = 0 => sign_extend(l, d) = 0 /\ AsSigned(l, d) = 0
         /\ \A n \in Int : Trunc(n + sign_extend(l, d)) = Trunc(n + AsSigned(l, d))
<1>1. CASE d = 0
  <2>1. l = 0
    BY <1>1, PowerAssumption
  <2> QED BY <1>1, <2>1 DEF sign_extend, AsSigned
<1>2. CASE d # 0
  <2>1. d - 1 \in 0 .. WordBits /\ d > 0
    BY <1>2, WordBitsAssumption
  <2>2. 2 ^ d \in Nat /\ 2 ^ (d - 1) \in Nat
    BY <2>1, Powers
  <2>3. /\ sign_extend(l, d) = IF 2 ^ (d - 1) <= l THEN Trunc(l - 2 ^ d) ELSE l
        /\ AsSigned(l, d) = IF 2 ^ (d - 1) <= l THEN l - 2 ^ d ELSE l
    BY <1>2, <2>1, <2>2 DEF sign_extend, AsSigned
  <2> DEFINE e == l - 2 ^ d
  <2>4. e \in Int /\ Trunc(e) \in Int
    BY <2>2, TruncWord DEF Word
  <2>5. \A n \in Int : Trunc(n + Trunc(e)) = Trunc(n + e)
    <3> HIDE DEF e
    <3>1. TAKE n \in Int
    <3>2. e + n = n + e
      BY <2>4
    <3> QED BY <2>4, <3>2, CastSum
  <2> HIDE DEF e
  <2> QED BY <1>2, <2>3, <2>4, <2>5 DEF e
<1> QED BY <1>1, <1>2

(* A register read as an operand, and as part of an address. *)
LEMMA ReadRegister ==
  ASSUME NEW R \in RegFile, NEW b \in GPRs \cup {"rip"}
  PROVE  /\ FileValue(R, b) = Trunc(RegOf(R, b)) /\ RegOf(R, b) \in Int
         /\ FileValue(R, b) \in Word
<1>1. CASE b = "rip"
  <2>1. NextAddress \in Int
    BY DEF NextAddress
  <2> QED BY <1>1, <2>1, TruncWord DEF FileValue, RegOf
<1>2. CASE b # "rip"
  <2>1. b \in Names /\ R[b] \in Word /\ b # "none"
    BY <1>2 DEF GPRs, Names, RegFile
  <2>2. FileValue(R, b) = R[b] /\ RegOf(R, b) = R[b]
    BY <1>2, <2>1 DEF FileValue, RegOf
  <2>3. R[b] \in Int
    BY <2>1 DEF Word
  <2> QED BY <2>1, <2>2, <2>3, CastWord
<1> QED BY <1>1, <1>2

-----------------------------------------------------------------------------
(* Steps towards an address, and their sequences. *)
Left(R, v) == Written(R, "loadstore", v)

(* An address left in loadstore leaves the other registers alone. *)
LEMMA LeftTyped ==
  ASSUME NEW R \in RegFile, NEW v \in Word, NEW w
  PROVE  /\ Left(R, v) \in RegFile /\ Left(R, v)["loadstore"] = v
         /\ Left(Left(R, v), w) = Left(R, w) /\ "loadstore" \in Names
         /\ \A b \in GPRs \cup {"rip"} : FileValue(Left(R, v), b) = FileValue(R, b)
  BY DEF Left, Written, RegFile, Names, FileValue, GPRs

(* The first micro-op of an address moves a register to loadstore. *)
LEMMA AddressBegins ==
  ASSUME NEW R \in RegFile, NEW f, NEW c, NEW b
  PROVE  OneStep(St(R, f, c), Whole(Uop("mov", b, "loadstore", 0, "REG")))
           = St(Left(R, FileValue(R, b)), f, c)
<1>1. Given(R, b, 0, "REG") = FileValue(R, b) /\ "loadstore" \in Names
  BY DEF Given, Names
<1> QED BY <1>1, StepMove DEF Left

(* The next ones add a register, an immediate or a multiple to it. *)
LEMMA AddressStep ==
  ASSUME NEW R \in RegFile, NEW f, NEW c, NEW v \in Word, NEW i \in Int,
         NEW b \in GPRs \cup {"rip"}
  PROVE  /\ OneStep(St(Left(R, v), f, c), Whole(Uop("add", b, "loadstore", 0, "REG")))
              = St(Left(R, Trunc(v + FileValue(R, b))), f, c)
         /\ OneStep(St(Left(R, v), f, c), Whole(Uop("add", "none", "loadstore", i, "IMMED")))
              = St(Left(R, Trunc(v + i)), f, c)
         /\ OneStep(St(Left(R, v), f, c), Whole(Uop("imul", "none", "loadstore", i, "LOADMUL")))
              = St(Left(R, Trunc(v * i)), f, c)
<1> DEFINE L == Left(R, v)
<1>1. /\ L \in RegFile /\ L["loadstore"] = v /\ "loadstore" \in Names
      /\ \A w : Left(L, w) = Left(R, w) /\ Written(L, "loadstore", w) = Left(L, w)
      /\ FileValue(L, b) = FileValue(R, b)
  BY LeftTyped DEF Left
<1>2. Given(L, b, 0, "REG") = FileValue(R, b)
      /\ Given(L, "none", i, "IMMED") = i
  BY <1>1 DEF Given
<1> HIDE DEF L
<1>4. OneStep(St(L, f, c), Whole(Uop("add", b, "loadstore", 0, "REG")))
        = St(Left(R, Trunc(v + FileValue(R, b))), f, c)
  BY <1>1, <1>2, StepMove
<1>5. OneStep(St(L, f, c), Whole(Uop("add", "none", "loadstore", i, "IMMED")))
        = St(Left(R, Trunc(v + i)), f, c)
  BY <1>1, <1>2, StepMove
<1>6. Trunc(Signed(v) * Signed(i)) = Trunc(v * i)
  BY CastProduct DEF Word
<1>7. OneStep(St(L, f, c), Whole(Uop("imul", "none", "loadstore", i, "LOADMUL")))
        = St(Left(R, Trunc(v * i)), f, c)
  <2>1. OneStep(St(L, f, c), Whole(Uop("imul", "none", "loadstore", i, "LOADMUL")))
          = St(Written(L, "loadstore", Trunc(Signed(L["loadstore"]) * Signed(i))), f, c)
    BY <1>1, StepScale
  <2> QED BY <1>1, <1>6, <2>1
<1> QED BY <1>4, <1>5, <1>7 DEF L

(* A micro-op that may be left out. *)
LEMMA RunMaybe ==
  ASSUME NEW m, NEW s \in Seq(MicroOps), NEW u \in MicroOps, NEW p \in BOOLEAN
  PROVE  LET t == s \o (IF p THEN <<u>> ELSE <<>>)
         IN /\ Run(m, t) = IF p THEN OneStep(Run(m, s), Whole(u)) ELSE Run(m, s)
            /\ t \in Seq(MicroOps)
<1>1. CASE p
  <2>1. s \o <<u>> \in Seq(MicroOps)
    OBVIOUS
  <2> QED BY <1>1, <2>1, RunNext
<1>2. CASE ~p
  <2>1. s \o <<>> = s
    OBVIOUS
  <2> QED BY <1>2, <2>1
<1> QED BY <1>1, <1>2

(* The pieces of an address computation are micro-ops. *)
LEMMA Pieces ==
  /\ \A i \in Int : Uop("add", "none", "loadstore", i, "IMMED") \in MicroOps
  /\ \A i \in Int : Uop("imul", "none", "loadstore", i, "LOADMUL") \in MicroOps
  /\ \A b \in GPRs \cup {"rip", "none"} : /\ Uop("add", b, "loadstore", 0, "REG") \in MicroOps
                                        /\ Uop("mov", b, "loadstore", 0, "REG") \in MicroOps
<1>1. "none" \in Ends /\ "loadstore" \in Ends /\ GPRs \cup {"rip", "none"} \subseteq Ends
  BY DEF Ends, Names, GPRs
<1> QED BY <1>1 DEF MicroOps

(* The micro-ops push2q() makes. *)
LEMMA Cracked ==
  /\ \A op, a, b : Move(op, a, b) = <<Uop(op, a, b, 0, "REG")>>
  /\ \A op, o, b : Immediate(op, o, b)
                     = <<Uop(op, "none", b, sign_extend(o.lval, o.size), "IMMED")>>
  /\ \A x, p : AddOffset(x, p)
                 = IF p THEN <<Uop("add", "none", "loadstore", sign_extend(x.lval, x.offset),
                                   "IMMED")>> ELSE <<>>
  /\ \A n, p : Scaled(n, p)
                 = IF p THEN <<Uop("imul", "none", "loadstore", n, "LOADMUL")>> ELSE <<>>
  BY DEF Move, Immediate, Op, Uop, AddOffset, Scaled

(* The last piece adds the displacement, or need not. *)
LEMMA OffsetLeft ==
  ASSUME NEW R \in RegFile, NEW f, NEW c, NEW m, NEW s \in Seq(MicroOps), NEW n \in Int,
         Run(m, s) = St(Left(R, Trunc(n)), f, c),
         NEW d \in 0 .. WordBits, NEW l \in Nat, l < 2 ^ d, NEW p \in BOOLEAN,
         ~p => sign_extend(l, d) = 0
  PROVE  LET t == s \o (IF p THEN <<Uop("add", "none", "loadstore", sign_extend(l, d), "IMMED")>>
                        ELSE <<>>)
         IN Run(m, t) = St(Left(R, Trunc(n + AsSigned(l, d))), f, c) /\ t \in Seq(MicroOps)
<1> DEFINE e == sign_extend(l, d)
           u == Uop("add", "none", "loadstore", e, "IMMED")
           t == s \o (IF p THEN <<u>> ELSE <<>>)
<1>1. e \in Int /\ AsSigned(l, d) \in Int /\ Trunc(n + e) = Trunc(n + AsSigned(l, d))
  BY Displaced
<1>2. u \in MicroOps
  <2> HIDE DEF e
  <2> QED BY <1>1, Pieces
<1>3. Run(m, t) = (IF p THEN OneStep(Run(m, s), Whole(u)) ELSE Run(m, s)) /\ t \in Seq(MicroOps)
  <2> HIDE DEF u
  <2> QED BY <1>2, RunMaybe
<1>4. Trunc(n) \in Word /\ "rax" \in GPRs \cup {"rip"}
  BY TruncWord DEF GPRs
<1>5. OneStep(St(Left(R, Trunc(n)), f, c), Whole(u)) = St(Left(R, Trunc(Trunc(n) + e)), f, c)
  <2> HIDE DEF e
  <2> QED BY <1>1, <1>4, AddressStep
<1>6. Trunc(Trunc(n) + e) = Trunc(n + e)
  <2> HIDE DEF e
  <2> QED BY <1>1, CastSum
<1>7. CASE p
  BY <1>1, <1>3, <1>5, <1>6, <1>7
<1>8. CASE ~p
  <2>1. e = 0 /\ n + 0 = n
    BY <1>8
  <2> HIDE DEF e
  <2> QED BY <1>1, <1>3, <1>8, <2>1
<1> QED BY <1>7, <1>8

(* A number, or its multiple. *)
Multiple(p, n, k) == IF p THEN n * k ELSE n

(* A piece that takes the index more than once. *)
LEMMA ScaleLeft ==
  ASSUME NEW R \in RegFile, NEW f, NEW c, NEW m, NEW s \in Seq(MicroOps), NEW n \in Int,
         Run(m, s) = St(Left(R, Trunc(n)), f, c), NEW k \in Int, NEW p \in BOOLEAN
  PROVE  LET t == s \o (IF p THEN <<Uop("imul", "none", "loadstore", k, "LOADMUL")>> ELSE <<>>)
         IN /\ Run(m, t) = St(Left(R, Trunc(Multiple(p, n, k))), f, c)
            /\ t \in Seq(MicroOps)
<1> DEFINE u == Uop("imul", "none", "loadstore", k, "LOADMUL")
           t == s \o (IF p THEN <<u>> ELSE <<>>)
<1>2. u \in MicroOps
  BY Pieces
<1>3. Run(m, t) = (IF p THEN OneStep(Run(m, s), Whole(u)) ELSE Run(m, s)) /\ t \in Seq(MicroOps)
  <2> HIDE DEF u
  <2> QED BY <1>2, RunMaybe
<1>4. Trunc(n) \in Word /\ "rax" \in GPRs \cup {"rip"}
  BY TruncWord DEF GPRs
<1>5. OneStep(St(Left(R, Trunc(n)), f, c), Whole(u)) = St(Left(R, Trunc(Trunc(n) * k)), f, c)
  BY <1>4, AddressStep
<1>6. Trunc(Trunc(n) * k) = Trunc(n * k)
  BY CastFactor
<1>7. CASE p
  BY <1>3, <1>5, <1>6, <1>7 DEF Multiple
<1>8. CASE ~p
  BY <1>3, <1>8 DEF Multiple
<1> QED BY <1>7, <1>8

(* A piece that adds the base. *)
LEMMA BaseLeft ==
  ASSUME NEW R \in RegFile, NEW f, NEW c, NEW m, NEW s \in Seq(MicroOps), NEW n \in Int,
         Run(m, s) = St(Left(R, Trunc(n)), f, c), NEW b \in GPRs \cup {"none", "rip"}
  PROVE  LET t == s \o (IF b # "none" THEN <<Uop("add", b, "loadstore", 0, "REG")>> ELSE <<>>)
         IN /\ Run(m, t) = St(Left(R, Trunc(RegOf(R, b) + n)), f, c)
            /\ t \in Seq(MicroOps)
<1> DEFINE u == Uop("add", b, "loadstore", 0, "REG")
           t == s \o (IF b # "none" THEN <<u>> ELSE <<>>)
<1>2. u \in MicroOps
  BY Pieces
<1>3. /\ Run(m, t) = IF b # "none" THEN OneStep(Run(m, s), Whole(u)) ELSE Run(m, s)
      /\ t \in Seq(MicroOps)
  <2> HIDE DEF u
  <2> QED BY <1>2, RunMaybe
<1>4. Trunc(n) \in Word
  BY TruncWord
<1>7. CASE b # "none"
  <2>1. b \in GPRs \cup {"rip"} /\ 0 \in Int
    BY <1>7
  <2>2. OneStep(St(Left(R, Trunc(n)), f, c), Whole(u))
          = St(Left(R, Trunc(Trunc(n) + FileValue(R, b))), f, c)
    BY <1>4, <2>1, AddressStep
  <2>3. FileValue(R, b) = Trunc(RegOf(R, b)) /\ RegOf(R, b) \in Int /\ FileValue(R, b) \in Int
    BY <2>1, ReadRegister DEF Word
  <2> DEFINE g == RegOf(R, b)
  <2>4. Trunc(Trunc(n) + Trunc(g)) = Trunc(g + n)
    <3> HIDE DEF g
    <3>1. g \in Int /\ Trunc(g) \in Int
      BY <2>3 DEF g
    <3>2. Trunc(Trunc(n) + Trunc(g)) = Trunc(n + Trunc(g))
      BY <3>1, CastSum
    <3>3. Trunc(n + Trunc(g)) = Trunc(g + n)
      BY <3>1, CastSum
    <3> QED BY <3>2, <3>3
  <2> QED BY <1>3, <1>7, <2>2, <2>3, <2>4
<1>8. CASE b = "none"
  <2>1. RegOf(R, b) + n = n
    BY <1>8 DEF RegOf
  <2> QED BY <1>3, <1>8, <2>1
<1> QED BY <1>7, <1>8

(* The parts of an operand in memory. *)
LEMMA MemoryParts ==
  ASSUME NEW b, NEW i, NEW s, NEW d, NEW l
  PROVE  LET x == InMemory(b, i, s, d, l)
         IN /\ x.type = "mem" /\ x.base = b /\ x.index = i /\ x.scale = s /\ x.offset = d
            /\ x.lval = l
  BY DEF InMemory, NoOperand

(* AddressOf leaves base + index * scale + displacement in loadstore and   *)
(* changes nothing else.                                                   *)
LEMMA AddressLeft ==
  ASSUME NEW R \in RegFile, NEW f, NEW c, NEW b, NEW i, NEW s, NEW d, NEW l,
         Address(b, i, s, d, l)
  PROVE  LET x == InMemory(b, i, s, d, l)
         IN /\ Run(St(R, f, c), AddressOf(x)) = St(Left(R, EaOf(R, x)), f, c)
            /\ AddressOf(x) \in Seq(MicroOps)
<1> DEFINE x == InMemory(b, i, s, d, l)
           m == St(R, f, c)
           e == sign_extend(l, d)
           Offset(p) == IF p THEN <<Uop("add", "none", "loadstore", e, "IMMED")>> ELSE <<>>
           Index(k, p) == IF p THEN <<Uop("imul", "none", "loadstore", k, "LOADMUL")>> ELSE <<>>
           Base == IF b # "none" THEN <<Uop("add", b, "loadstore", 0, "REG")>> ELSE <<>>
           MoveOf(r) == <<Uop("mov", r, "loadstore", 0, "REG")>>
           Sum(n) == Trunc(n + AsSigned(l, d))
<1>1. /\ x.type = "mem" /\ x.base = b /\ x.index = i /\ x.scale = s /\ x.offset = d /\ x.lval = l
  BY MemoryParts
<1>2. /\ b \in GPRs \cup {"none", "rip"} /\ i \in GPRs \cup {"none"} /\ s \in Nat
      /\ d \in 0 .. WordBits /\ l \in Nat /\ l < 2 ^ d
      /\ (b = "none" => i # "none") /\ (b = i => s # 0)
  BY DEF Address
<1>3. EaOf(R, x) = Sum(RegOf(R, b) + RegOf(R, i) * Times(s))
  BY <1>1 DEF EaOf
<1>4. \A r \in GPRs \cup {"rip"} :
        /\ Run(m, MoveOf(r)) = St(Left(R, Trunc(RegOf(R, r))), f, c)
        /\ MoveOf(r) \in Seq(MicroOps) /\ RegOf(R, r) \in Int
  <2>1. TAKE r \in GPRs \cup {"rip"}
  <2> DEFINE u == Uop("mov", r, "loadstore", 0, "REG")
  <2>2. u \in MicroOps
    BY Pieces
  <2>3. Run(m, <<u>>) = OneStep(m, Whole(u))
    BY RunOne
  <2>4. OneStep(m, Whole(u)) = St(Left(R, FileValue(R, r)), f, c)
    BY AddressBegins
  <2>5. FileValue(R, r) = Trunc(RegOf(R, r)) /\ RegOf(R, r) \in Int
    BY ReadRegister
  <2>6. <<u>> \in Seq(MicroOps)
    <3> HIDE DEF u
    <3> QED BY <2>2
  <2> QED BY <2>3, <2>4, <2>5, <2>6
<1>5. \A w \in Seq(MicroOps), n \in Int, p \in BOOLEAN :
        Run(m, w) = St(Left(R, Trunc(n)), f, c) /\ (~p => e = 0)
          => Run(m, w \o Offset(p)) = St(Left(R, Sum(n)), f, c) /\ w \o Offset(p) \in Seq(MicroOps)
  <2> HIDE DEF m
  <2> QED BY <1>2, OffsetLeft
<1>10. \A w \in Seq(MicroOps), n \in Int, k \in Int, p \in BOOLEAN :
        Run(m, w) = St(Left(R, Trunc(n)), f, c)
          => /\ Run(m, w \o Index(k, p)) = St(Left(R, Trunc(Multiple(p, n, k))), f, c)
             /\ w \o Index(k, p) \in Seq(MicroOps)
  <2> HIDE DEF m
  <2> QED BY ScaleLeft
<1>11. \A r \in GPRs \cup {"rip"} : RegOf(R, r) \in Int
  BY <1>4
<1>6. d = 0 => e = 0
  BY <1>2, Displaced
<1>7. CASE i = "none"
  <2>1. AddressOf(x) = MoveOf(b) \o Offset(e # 0)
    BY <1>1, <1>7, Cracked DEF AddressOf
  <2>2. b \in GPRs \cup {"rip"} /\ RegOf(R, i) = 0
    BY <1>2, <1>7 DEF RegOf
  <2>3. RegOf(R, b) + RegOf(R, i) * Times(s) = RegOf(R, b)
    <3>1. Times(s) \in Int /\ RegOf(R, b) \in Int
      BY <1>2, <1>11, <2>2 DEF Times
    <3>2. 0 * Times(s) = 0
      BY <3>1
    <3> QED BY <2>2, <3>1, <3>2
  <2>4. /\ Run(m, MoveOf(b) \o Offset(e # 0)) = St(Left(R, Sum(RegOf(R, b))), f, c)
        /\ MoveOf(b) \o Offset(e # 0) \in Seq(MicroOps)
    <3> HIDE DEF m, MoveOf, Offset, e, Sum
    <3> QED BY <1>4, <1>5, <2>2
  <2> QED BY <1>3, <2>1, <2>3, <2>4
<1>8. CASE i # "none" /\ b = i
  <2>1. AddressOf(x) = MoveOf(b) \o Index(s + 1, s # 0) \o Offset(d # 0)
    BY <1>1, <1>8, Cracked DEF AddressOf
  <2>2. b \in GPRs \cup {"rip"} /\ s # 0 /\ Times(s) = s /\ s + 1 \in Int
    BY <1>2, <1>8 DEF Times
  <2> DEFINE n == RegOf(R, b)
             w == MoveOf(b) \o Index(s + 1, s # 0)
  <2>3. n + RegOf(R, i) * Times(s) = n * (s + 1) /\ n \in Int /\ n * (s + 1) \in Int
    <3>1. n \in Int /\ RegOf(R, i) = n
      BY <1>4, <1>8, <2>2
    <3> HIDE DEF n
    <3>2. n + n * s = n * (s + 1)
      BY <3>1, <1>2, Z3
    <3> QED BY <2>2, <3>1, <3>2, ProductInt
  <2>4. Run(m, w) = St(Left(R, Trunc(n * (s + 1))), f, c) /\ w \in Seq(MicroOps)
    <3>1. Run(m, MoveOf(b)) = St(Left(R, Trunc(n)), f, c) /\ MoveOf(b) \in Seq(MicroOps)
      BY <1>4, <2>2
    <3>2. /\ Run(m, w) = St(Left(R, Trunc(Multiple(s # 0, n, s + 1))), f, c)
          /\ w \in Seq(MicroOps)
      <4> HIDE DEF m, MoveOf, n, Index
      <4> QED BY <1>10, <2>2, <2>3, <3>1
    <3> QED BY <2>2, <3>2 DEF Multiple
  <2>5. /\ Run(m, w \o Offset(d # 0)) = St(Left(R, Sum(n * (s + 1))), f, c)
        /\ w \o Offset(d # 0) \in Seq(MicroOps)
    <3> HIDE DEF m, w, n, Offset, e, Sum
    <3> QED BY <1>5, <1>6, <2>3, <2>4
  <2> QED BY <1>3, <2>1, <2>3, <2>5
<1>9. CASE i # "none" /\ b # i
  <2>1. AddressOf(x) = MoveOf(i) \o Index(s, s # 0) \o Base \o Offset(d # 0)
    BY <1>1, <1>9, Cracked DEF AddressOf
  <2> DEFINE n == RegOf(R, i)
             v == MoveOf(i) \o Index(s, s # 0)
             w == v \o Base
             k == Multiple(s # 0, n, s)
  <2>2. i \in GPRs \cup {"rip"} /\ s \in Int
    BY <1>2, <1>9
  <2>3. n \in Int /\ k \in Int /\ n * Times(s) = k /\ RegOf(R, b) \in Int
    <3>1. n \in Int
      BY <1>4, <2>2
    <3> HIDE DEF n
    <3>2. n * s \in Int /\ n * 1 = n
      BY <2>2, <3>1, ProductInt
    <3>3. RegOf(R, b) \in Int
      BY <1>2, <1>11 DEF RegOf
    <3> QED BY <3>1, <3>2, <3>3 DEF Times, Multiple
  <2>4. Run(m, v) = St(Left(R, Trunc(k)), f, c) /\ v \in Seq(MicroOps)
    <3>1. Run(m, MoveOf(i)) = St(Left(R, Trunc(n)), f, c) /\ MoveOf(i) \in Seq(MicroOps)
      BY <1>4, <2>2
    <3> HIDE DEF m, MoveOf, n, Index
    <3> QED BY <1>10, <2>2, <2>3, <3>1
  <2>5. Run(m, w) = St(Left(R, Trunc(RegOf(R, b) + k)), f, c) /\ w \in Seq(MicroOps)
    <3> HIDE DEF m, v, k
    <3> QED BY <1>2, <2>3, <2>4, BaseLeft
  <2>6. /\ Run(m, w \o Offset(d # 0)) = St(Left(R, Sum(RegOf(R, b) + k)), f, c)
        /\ w \o Offset(d # 0) \in Seq(MicroOps)
    <3>1. RegOf(R, b) + k \in Int
      <4> HIDE DEF k
      <4> QED BY <2>3
    <3> HIDE DEF m, w, k, Offset, e, Sum
    <3> QED BY <1>5, <1>6, <2>5, <3>1
  <2> QED BY <1>3, <2>1, <2>3, <2>6
<1> QED BY <1>7, <1>8, <1>9

(* The rest of an instruction runs where its address is in loadstore. *)
LEMMA AfterAddress ==
  ASSUME NEW R \in RegFile, NEW f, NEW c, NEW b, NEW i, NEW s, NEW d, NEW l,
         Address(b, i, s, d, l), NEW u, NEW v
  PROVE  LET x == InMemory(b, i, s, d, l)
             n == St(Left(R, EaOf(R, x)), f, c)
         IN /\ Run(St(R, f, c), AddressOf(x) \o <<u>>) = OneStep(n, Whole(u))
            /\ Run(St(R, f, c), AddressOf(x) \o (<<u>> \o <<v>>))
                 = OneStep(OneStep(n, Whole(u)), Whole(v))
<1> DEFINE x == InMemory(b, i, s, d, l)
           m == St(R, f, c)
           n == St(Left(R, EaOf(R, x)), f, c)
           a == AddressOf(x)
           S == MicroOps \cup {u, v}
<1>1. Run(m, a) = n /\ a \in Seq(MicroOps)
  BY AddressLeft
<1>2. a \in Seq(S) /\ u \in S /\ v \in S
  <2>1. \A T, U : T \subseteq U => Seq(T) \subseteq Seq(U)
    OBVIOUS
  <2> HIDE DEF a
  <2> QED BY <1>1, <2>1
<1> HIDE DEF a, m, n, S
<1>3. Run(m, a \o <<u>>) = OneStep(Run(m, a), Whole(u))
  BY <1>2, RunNext
<1>4. Run(m, a \o (<<u>> \o <<v>>)) = OneStep(OneStep(Run(m, a), Whole(u)), Whole(v))
  BY <1>2, RunPair
<1> QED BY <1>1, <1>3, <1>4 DEF a, m, n

(* The machine once the word at an address has been loaded. *)
Loaded(R, x, c) == Written(Left(R, EaOf(R, x)), "scratchls", c[EaOf(R, x)])
Loading == Uop("load", "loadstore", "scratchls", 0, "REG")
Storing == Uop("store", "scratchls", "loadstore", 0, "REG")

(* An address is a word. *)
LEMMA EaTyped ==
  ASSUME NEW R \in RegFile, NEW b, NEW i, NEW s, NEW d, NEW l, Address(b, i, s, d, l)
  PROVE  LET x == InMemory(b, i, s, d, l)
         IN EaOf(R, x) \in Word /\ Left(R, EaOf(R, x)) \in RegFile
<1> DEFINE x == InMemory(b, i, s, d, l)
<1>1. x.base = b /\ x.index = i /\ x.scale = s /\ x.offset = d /\ x.lval = l
  BY MemoryParts
<1>2. AsSigned(l, d) \in Int
  BY Displaced DEF Address
<1>3. RegOf(R, b) \in Int /\ RegOf(R, i) \in Int
  <2>1. \A r \in GPRs \cup {"rip"} : RegOf(R, r) \in Int
    BY ReadRegister
  <2> QED BY <2>1 DEF Address, RegOf
<1>4. RegOf(R, i) * Times(s) \in Int
  <2>1. Times(s) \in Int
    BY DEF Address, Times
  <2> QED BY <1>3, <2>1, ProductInt
<1>5. EaOf(R, x) \in Word
  <2>1. EaOf(R, x) = Trunc(RegOf(R, b) + RegOf(R, i) * Times(s) + AsSigned(l, d))
    BY <1>1 DEF EaOf
  <2> DEFINE p == RegOf(R, i) * Times(s)
  <2> HIDE DEF p
  <2>2. RegOf(R, b) + p + AsSigned(l, d) \in Int
    BY <1>2, <1>3, <1>4 DEF p
  <2> QED BY <2>1, <2>2, TruncWord DEF p
<1> QED BY <1>5, LeftTyped

(* What is in its registers. *)
LEMMA LoadedTyped ==
  ASSUME NEW R \in RegFile, NEW c \in Core, NEW b, NEW i, NEW s, NEW d, NEW l,
         Address(b, i, s, d, l), NEW f
  PROVE  LET x == InMemory(b, i, s, d, l)
             a == EaOf(R, x)
             S == Loaded(R, x, c)
         IN /\ S \in RegFile /\ S["scratchls"] = c[a] /\ c[a] \in Word
            /\ \A g \in GPRs : S[g] = R[g]
            /\ OneStep(St(Left(R, a), f, c), Whole(Loading)) = St(S, f, c)
<1> DEFINE x == InMemory(b, i, s, d, l)
           a == EaOf(R, x)
           L == Left(R, a)
           S == Loaded(R, x, c)
<1>1. a \in Word /\ L \in RegFile /\ L["loadstore"] = a /\ \A g \in GPRs : L[g] = R[g]
  <2>1. a \in Word /\ L \in RegFile
    BY EaTyped
  <2> HIDE DEF a
  <2> QED BY <2>1 DEF Left, Written, RegFile, Names, GPRs
<1>2. c[a] \in Word
  BY <1>1 DEF Core
<1>3. S = Written(L, "scratchls", c[a])
  BY DEF Loaded
<1> HIDE DEF S, L, a
<1>4. S \in RegFile /\ S["scratchls"] = c[a] /\ \A g \in GPRs : S[g] = R[g]
  BY <1>1, <1>2, <1>3 DEF Written, RegFile, Names, GPRs
<1>5. OneStep(St(L, f, c), Whole(Loading)) = St(S, f, c)
  BY <1>1, <1>3, StepLoad DEF Loading
<1> QED BY <1>2, <1>4, <1>5 DEF S, L, a

(* sub of two words (execute.cc). *)
LEMMA SubResult ==
  ASSUME NEW a, NEW b, NEW c, NEW f
  PROVE  Results(Operation("sub", a, b, c), f) = {Result(Trunc(b - a), c, f)}
  BY DEF Results, Operation, Cmovs, Shifts

-----------------------------------------------------------------------------
(* What an instruction does, form by form. *)
LEMMA OperandParts ==
  /\ \A g : /\ Register(g).type = "reg" /\ Register(g).base = g
            /\ Register(g).index = "none"
  /\ \A v, z : /\ Imm(v, z).type = "imm" /\ Imm(v, z).lval = v /\ Imm(v, z).size = z
               /\ Imm(v, z).base = "none"
  /\ NoOperand.type = "none" /\ NoOperand.base = "none"
  BY DEF Register, Imm, NoOperand

SetR(m, g, v) == [m EXCEPT !.regs[g] = v]
SetM(m, a, v) == [m EXCEPT !.memory[a] = v]
SetF(m, h) == [m EXCEPT !.flags = h]

(* They are the edits of a machine in its parts. *)
LEMMA Edited ==
  ASSUME NEW R, NEW f, NEW c, NEW g, NEW v
  PROVE  /\ SetR(St(R, f, c), g, v) = St(Written(R, g, v), f, c)
         /\ SetM(St(R, f, c), g, v) = St(R, f, Written(c, g, v))
         /\ SetF(St(R, f, c), v) = St(R, v, c)
  BY DEF St, Written, SetR, SetM, SetF

(* The choice from one outcome. *)
LEMMA TheOnly == ASSUME NEW e PROVE (CHOOSE y \in {e} : TRUE) = e
  OBVIOUS

(* The operands of an instruction. *)
LEMMA ReadOperand ==
  ASSUME NEW R, NEW f, NEW c, NEW x
  PROVE  /\ Ea(St(R, f, c), x) = EaOf(R, x)
         /\ x.type = "mem" => Val(St(R, f, c), x) = c[EaOf(R, x)]
         /\ x.type = "imm" => Val(St(R, f, c), x) = Trunc(AsSigned(x.lval, x.size))
         /\ x.type = "reg" /\ x.base \notin {"none", "rip"} => Val(St(R, f, c), x) = R[x.base]
<1>1. Ea(St(R, f, c), x) = EaOf(R, x)
  BY DEF Ea, EaOf, Reg, RegOf, St, Times
<1> QED BY <1>1 DEF Val, St, Reg

(* Writing one. *)
LEMMA WriteOperand ==
  ASSUME NEW R, NEW f, NEW c, NEW x, NEW v
  PROVE  /\ x.type = "mem" => Put(St(R, f, c), x, v) = St(R, f, Written(c, EaOf(R, x), v))
         /\ x.type = "reg" => Put(St(R, f, c), x, v) = St(Written(R, x.base, v), f, c)
<1>1. Ea(St(R, f, c), x) = EaOf(R, x)
  BY ReadOperand
<1>2. St(R, f, c) = [regs |-> R, flags |-> f, memory |-> c]
  BY DEF St
<1>3. x.type = "mem" => Put(St(R, f, c), x, v) = [St(R, f, c) EXCEPT !.memory[EaOf(R, x)] = v]
  BY <1>1 DEF Put
<1>4. x.type = "reg" => Put(St(R, f, c), x, v) = [St(R, f, c) EXCEPT !.regs[x.base] = v]
  BY DEF Put
<1>5. [St(R, f, c) EXCEPT !.memory[EaOf(R, x)] = v] = St(R, f, Written(c, EaOf(R, x), v))
  BY DEF St, Written
<1>6. [St(R, f, c) EXCEPT !.regs[x.base] = v] = St(Written(R, x.base, v), f, c)
  BY DEF St, Written
<1> QED BY <1>3, <1>4, <1>5, <1>6

(* sub, cmp and test of two values. *)
LEMMA OutcomeOf ==
  ASSUME NEW a, NEW b, NEW f
  PROVE  /\ Outcome("sub", a, b, f).value2 = Trunc(b - a) /\ Outcome("sub", a, b, f).flags = f
         /\ Outcome("cmp", a, b, f).flags = CmpFlags(a, b)
         /\ Outcome("test", a, b, f).flags = TestFlags(a, b)
<1>1. /\ Outcome("sub", a, b, f) = Result(Trunc(b - a), 0, f)
      /\ Outcome("cmp", a, b, f) = Result(b, 0, CmpFlags(a, b))
      /\ Outcome("test", a, b, f) = Result(b, 0, TestFlags(a, b))
  BY SubResult, CmpResult, TestResult, TheOnly DEF Outcome
<1> QED BY <1>1 DEF Result

(* What an instruction does, in these terms. *)
LEMMA EffectOf ==
  ASSUME NEW m, NEW o
  PROVE  LET r(op) == Outcome(op, Val(m, o[2]), Val(m, o[1]), m.flags)
             sp == Trunc(m.regs["rsp"] - 1)
         IN /\ Effect(m, "lea", o) = Put(m, o[1], Ea(m, o[2]))
            /\ Effect(m, "mov", o) = Put(m, o[1], Val(m, o[2]))
            /\ Effect(m, "sub", o) = SetF(Put(m, o[1], r("sub").value2), r("sub").flags)
            /\ Effect(m, "cmp", o) = SetF(m, r("cmp").flags)
            /\ Effect(m, "test", o) = SetF(m, r("test").flags)
            /\ Effect(m, "push", o) = SetR(SetM(m, sp, Val(m, o[1])), "rsp", sp)
            /\ Effect(m, "mul", o)
                 = SetR(m, "rax", Trunc(Signed(m.regs["rax"]) * Signed(Val(m, o[1]))))
  BY DEF Effect, SetR, SetM, SetF

(* What an instruction that reads its operand in memory does. *)
LEMMA EffectLoads ==
  ASSUME NEW R \in RegFile, NEW f, NEW c, NEW x, x.type = "mem", NEW g \in GPRs
  PROVE  LET o == <<Register(g), x, NoOperand>>
             m == St(R, f, c)
             a == EaOf(R, x)
         IN /\ Effect(m, "lea", o) = St(Written(R, g, a), f, c)
            /\ Effect(m, "mov", o) = St(Written(R, g, c[a]), f, c)
            /\ Effect(m, "sub", o) = St(Written(R, g, Trunc(R[g] - c[a])), f, c)
            /\ Effect(m, "cmp", o) = St(R, CmpFlags(c[a], R[g]), c)
            /\ Effect(m, "test", o) = St(R, TestFlags(c[a], R[g]), c)
<1> DEFINE o == <<Register(g), x, NoOperand>>
           m == St(R, f, c)
           a == EaOf(R, x)
<1>1. /\ o[1] = Register(g) /\ o[2] = x /\ Register(g).type = "reg" /\ Register(g).base = g
      /\ g \notin {"none", "rip"} /\ m.flags = f
  BY OperandParts DEF GPRs, St
<1>2. Val(m, x) = c[a] /\ Ea(m, x) = a /\ Val(m, Register(g)) = R[g]
  BY <1>1, ReadOperand
<1>3. /\ Put(m, Register(g), a) = St(Written(R, g, a), f, c)
      /\ Put(m, Register(g), c[a]) = St(Written(R, g, c[a]), f, c)
      /\ Put(m, Register(g), Trunc(R[g] - c[a])) = St(Written(R, g, Trunc(R[g] - c[a])), f, c)
  BY <1>1, WriteOperand
<1>4. \A h : SetF(m, h) = St(R, h, c)
  <2>1. TAKE h
  <2> QED BY Edited
<1>5. SetF(St(Written(R, g, Trunc(R[g] - c[a])), f, c), f)
        = St(Written(R, g, Trunc(R[g] - c[a])), f, c)
  BY Edited
<1>6. /\ Outcome("sub", c[a], R[g], f).value2 = Trunc(R[g] - c[a])
      /\ Outcome("sub", c[a], R[g], f).flags = f
      /\ Outcome("cmp", c[a], R[g], f).flags = CmpFlags(c[a], R[g])
      /\ Outcome("test", c[a], R[g], f).flags = TestFlags(c[a], R[g])
  BY OutcomeOf
<1>7. /\ Effect(m, "lea", o) = Put(m, o[1], Ea(m, o[2]))
      /\ Effect(m, "mov", o) = Put(m, o[1], Val(m, o[2]))
      /\ Effect(m, "sub", o)
           = SetF(Put(m, o[1], Outcome("sub", Val(m, o[2]), Val(m, o[1]), m.flags).value2),
                  Outcome("sub", Val(m, o[2]), Val(m, o[1]), m.flags).flags)
      /\ Effect(m, "cmp", o) = SetF(m, Outcome("cmp", Val(m, o[2]), Val(m, o[1]), m.flags).flags)
      /\ Effect(m, "test", o) = SetF(m, Outcome("test", Val(m, o[2]), Val(m, o[1]), m.flags).flags)
  <2> HIDE DEF m, o
  <2> QED BY EffectOf
<1> HIDE DEF m, o, a
<1> QED BY <1>1, <1>2, <1>3, <1>4, <1>5, <1>6, <1>7 DEF m, o, a

(* What one does that writes it, or compares it with an immediate. *)
LEMMA EffectStores ==
  ASSUME NEW R \in RegFile, NEW f, NEW c, NEW x, x.type = "mem", NEW g \in GPRs,
         NEW v, NEW z
  PROVE  LET m == St(R, f, c)
             a == EaOf(R, x)
             k == Trunc(AsSigned(v, z))
             imm == <<x, Imm(v, z), NoOperand>>
         IN /\ Effect(m, "mov", <<x, Register(g), NoOperand>>) = St(R, f, Written(c, a, R[g]))
            /\ Effect(m, "mov", imm) = St(R, f, Written(c, a, k))
            /\ Effect(m, "cmp", imm) = St(R, CmpFlags(k, c[a]), c)
            /\ Effect(m, "test", imm) = St(R, TestFlags(k, c[a]), c)
<1> DEFINE o == <<x, Register(g), NoOperand>>
           imm == <<x, Imm(v, z), NoOperand>>
           m == St(R, f, c)
           a == EaOf(R, x)
           k == Trunc(AsSigned(v, z))
<1>1. /\ o[2] = Register(g) /\ o[1] = x /\ Register(g).type = "reg" /\ Register(g).base = g
      /\ imm[2] = Imm(v, z) /\ imm[1] = x /\ Imm(v, z).type = "imm" /\ Imm(v, z).lval = v
      /\ Imm(v, z).size = z /\ g \notin {"none", "rip"} /\ m.flags = f
  BY OperandParts DEF GPRs, St
<1>2. Val(m, x) = c[a] /\ Val(m, Register(g)) = R[g] /\ Val(m, Imm(v, z)) = k
  BY <1>1, ReadOperand
<1>3. Put(m, x, R[g]) = St(R, f, Written(c, a, R[g])) /\ Put(m, x, k) = St(R, f, Written(c, a, k))
  BY WriteOperand
<1>4. \A h : SetF(m, h) = St(R, h, c)
  <2>1. TAKE h
  <2> QED BY Edited
<1>5. /\ Outcome("cmp", k, c[a], f).flags = CmpFlags(k, c[a])
      /\ Outcome("test", k, c[a], f).flags = TestFlags(k, c[a])
  BY OutcomeOf
<1>6. /\ Effect(m, "mov", o) = Put(m, o[1], Val(m, o[2]))
      /\ Effect(m, "mov", imm) = Put(m, imm[1], Val(m, imm[2]))
      /\ Effect(m, "cmp", imm)
           = SetF(m, Outcome("cmp", Val(m, imm[2]), Val(m, imm[1]), m.flags).flags)
      /\ Effect(m, "test", imm)
           = SetF(m, Outcome("test", Val(m, imm[2]), Val(m, imm[1]), m.flags).flags)
  <2> HIDE DEF m, o, imm
  <2> QED BY EffectOf
<1> HIDE DEF m, o, a, imm, k
<1> QED BY <1>1, <1>2, <1>3, <1>4, <1>5, <1>6 DEF m, o, a, imm, k

(* What push and mul do. *)
LEMMA EffectAlone ==
  ASSUME NEW R \in RegFile, NEW f, NEW c, NEW x, x.type = "mem"
  PROVE  LET m == St(R, f, c)
             a == EaOf(R, x)
             o == <<x, NoOperand, NoOperand>>
             sp == Trunc(R["rsp"] - 1)
         IN /\ Effect(m, "push", o) = St(Written(R, "rsp", sp), f, Written(c, sp, c[a]))
            /\ Effect(m, "mul", o)
                 = St(Written(R, "rax", Trunc(Signed(R["rax"]) * Signed(c[a]))), f, c)
<1> DEFINE o == <<x, NoOperand, NoOperand>>
           m == St(R, f, c)
           a == EaOf(R, x)
           sp == Trunc(R["rsp"] - 1)
           p == Trunc(Signed(R["rax"]) * Signed(c[a]))
<1>1. o[1] = x /\ m.regs = R
  BY DEF St
<1>2. Val(m, x) = c[a]
  BY ReadOperand
<1>3. /\ Effect(m, "push", o)
           = SetR(SetM(m, Trunc(m.regs["rsp"] - 1), Val(m, o[1])), "rsp", Trunc(m.regs["rsp"] - 1))
      /\ Effect(m, "mul", o)
           = SetR(m, "rax", Trunc(Signed(m.regs["rax"]) * Signed(Val(m, o[1]))))
  <2> HIDE DEF m, o
  <2> QED BY EffectOf
<1>4. SetM(m, sp, c[a]) = St(R, f, Written(c, sp, c[a]))
  BY Edited
<1>5. SetR(St(R, f, Written(c, sp, c[a])), "rsp", sp)
        = St(Written(R, "rsp", sp), f, Written(c, sp, c[a]))
  BY Edited
<1>6. SetR(m, "rax", p) = St(Written(R, "rax", p), f, c)
  BY Edited
<1> HIDE DEF m, o, a
<1> QED BY <1>1, <1>2, <1>3, <1>4, <1>5, <1>6 DEF m, o, a

-----------------------------------------------------------------------------
(* The micro-ops of an instruction with an operand in memory. *)
LEMMA CrackedLoads ==
  ASSUME NEW x, x.type = "mem", NEW g \in GPRs
  PROVE  LET o == <<Register(g), x, NoOperand>>
         IN /\ Crack("lea", o) = AddressOf(x) \o <<Uop("mov", "loadstore", g, 0, "REG")>>
            /\ \A op \in {"mov", "sub", "cmp", "test"} :
                 Crack(op, o) = AddressOf(x)
                                  \o (<<Loading>> \o <<Uop(op, "scratchls", g, 0, "REG")>>)
<1> DEFINE o == <<Register(g), x, NoOperand>>
<1>1. /\ o[1].type = "reg" /\ o[2] = x /\ x.type = "mem" /\ o[1].base = g /\ g # "none"
  BY OperandParts DEF GPRs
<1>2. \A p, q, r : Move(p, q, r) = <<Uop(p, q, r, 0, "REG")>>
  BY Cracked
<1>3. Load = <<Loading>>
  BY <1>2 DEF Load, Loading
<1> HIDE DEF o
<1>4. \A op \in {"lea", "mov", "sub", "cmp", "test"} :
        Crack(op, o) = AddressOf(x) \o Access(op, o, 2)
  <2>1. TAKE op \in {"lea", "mov", "sub", "cmp", "test"}
  <2>2. Crack(op, o) = CrackForm(op, o)
    BY <1>1 DEF Crack
  <2>3. CrackForm(op, o) = AddressOf(x) \o Access(op, o, 2)
    BY <1>1 DEF CrackForm
  <2> QED BY <2>2, <2>3
<1>5. Access("lea", o, 2) = <<Uop("mov", "loadstore", g, 0, "REG")>>
  BY <1>1, <1>2 DEF Access
<1>0. 3 - 2 = 1
  OBVIOUS
<1>6. \A op \in {"cmp", "test"} :
        Access(op, o, 2) = <<Loading>> \o <<Uop(op, "scratchls", g, 0, "REG")>>
  <2>1. TAKE op \in {"cmp", "test"}
  <2>2. Access(op, o, 2) = Load \o Move(op, "scratchls", o[1].base)
    BY <1>0, <1>1 DEF Access
  <2> QED BY <2>2, <1>1, <1>2, <1>3
<1>7. \A op \in {"mov", "sub"} :
        Access(op, o, 2) = <<Loading>> \o <<Uop(op, "scratchls", g, 0, "REG")>>
  BY <1>1, <1>2, <1>3 DEF Access
<1> QED BY <1>4, <1>5, <1>6, <1>7 DEF o

(* A register stored. *)
LEMMA CrackedStores ==
  ASSUME NEW x, x.type = "mem", NEW g \in GPRs
  PROVE  Crack("mov", <<x, Register(g), NoOperand>>)
           = AddressOf(x) \o (<<Uop("mov", g, "scratchls", 0, "REG")>> \o <<Storing>>)
<1> DEFINE o == <<x, Register(g), NoOperand>>
<1>1. o[1] = x /\ o[2].type = "reg" /\ o[2].base = g /\ g # "none" /\ 3 - 1 = 2
  BY OperandParts DEF GPRs
<1>2. \A p, q, r : Move(p, q, r) = <<Uop(p, q, r, 0, "REG")>>
  BY Cracked
<1>3. Store = <<Storing>>
  BY <1>2 DEF Store, Storing
<1> HIDE DEF o
<1>4. Crack("mov", o) = AddressOf(x) \o Access("mov", o, 1)
  BY <1>1 DEF Crack, CrackForm
<1>5. Access("mov", o, 1) = Move("mov", o[2].base, "scratchls") \o Store
  BY <1>1 DEF Access
<1> QED BY <1>1, <1>2, <1>3, <1>4, <1>5 DEF o

(* An immediate stored or compared. *)
LEMMA CrackedImmediates ==
  ASSUME NEW x, x.type = "mem", NEW v, NEW z
  PROVE  LET o == <<x, Imm(v, z), NoOperand>>
             e == sign_extend(v, z)
         IN /\ x.index # "none" =>
                 Crack("mov", o)
                   = AddressOf(x) \o (<<Uop("mov", "none", "scratchls", e, "IMMED")>>
                                     \o <<Storing>>)
            /\ \A op \in {"cmp", "test"} :
                 Crack(op, o)
                   = AddressOf(x) \o (<<Loading>> \o <<Uop(op, "none", "scratchls", e, "IMMED")>>)
<1> DEFINE o == <<x, Imm(v, z), NoOperand>>
           e == sign_extend(v, z)
<1>1. /\ o[1] = x /\ o[2].type = "imm" /\ o[2].base = "none" /\ o[2].lval = v /\ o[2].size = z
      /\ 3 - 1 = 2
  BY OperandParts
<1>2. \A p, q, r : Move(p, q, r) = <<Uop(p, q, r, 0, "REG")>>
  BY Cracked
<1>3. Load = <<Loading>> /\ Store = <<Storing>>
  BY <1>2 DEF Load, Loading, Store, Storing
<1>4. \A p, r : Immediate(p, o[2], r) = <<Uop(p, "none", r, e, "IMMED")>>
  <2> HIDE DEF o
  <2> QED BY <1>1, Cracked
<1> HIDE DEF o, e
<1>5. \A op \in {"mov", "cmp", "test"} : Crack(op, o) = AddressOf(x) \o Access(op, o, 1)
  BY <1>1 DEF Crack, CrackForm
<1>6. x.index # "none" => Access("mov", o, 1)
                            = <<Uop("mov", "none", "scratchls", e, "IMMED")>> \o <<Storing>>
  <2>1. x.index # "none" => Access("mov", o, 1) = Immediate("mov", o[2], "scratchls") \o Store
    BY <1>1 DEF Access
  <2> QED BY <2>1, <1>3, <1>4
<1>7. \A op \in {"cmp", "test"} : Access(op, o, 1)
                                    = <<Loading>> \o <<Uop(op, "none", "scratchls", e, "IMMED")>>
  <2>1. TAKE op \in {"cmp", "test"}
  <2>2. Access(op, o, 1) = Load \o Immediate(op, o[2], "scratchls")
    BY <1>1 DEF Access
  <2> QED BY <2>2, <1>3, <1>4
<1> QED BY <1>5, <1>6, <1>7 DEF o, e

(* push and mul. *)
LEMMA CrackedAlone ==
  ASSUME NEW x, x.type = "mem"
  PROVE  LET o == <<x, NoOperand, NoOperand>>
         IN \A op \in {"push", "mul"} :
              Crack(op, o) = AddressOf(x)
                               \o (<<Loading>> \o <<Uop(op, "scratchls", x.base, 0, "REG")>>)
<1> DEFINE o == <<x, NoOperand, NoOperand>>
<1>1. /\ o[1] = x /\ o[2].type = "none"
  BY OperandParts
<1>2. \A p, q, r : Move(p, q, r) = <<Uop(p, q, r, 0, "REG")>>
  BY Cracked
<1>3. Load = <<Loading>>
  BY <1>2 DEF Load, Loading
<1> HIDE DEF o
<1>4. \A op \in {"push", "mul"} : Crack(op, o) = AddressOf(x) \o Access(op, o, 1)
  BY <1>1 DEF Crack, CrackForm
<1>5. \A op \in {"push", "mul"} :
        Access(op, o, 1) = <<Loading>> \o <<Uop(op, "scratchls", x.base, 0, "REG")>>
  BY <1>1, <1>2, <1>3 DEF Access
<1> QED BY <1>4, <1>5 DEF o

-----------------------------------------------------------------------------
(* Registers that agree but for the temporaries.                           *)
Agree(S, R) == \A g \in GPRs : S[g] = R[g]

(* Both sides of an agreement may be written. *)
LEMMA AgreeWritten ==
  ASSUME NEW S, NEW R, DOMAIN S = Names, DOMAIN R = Names, Agree(S, R), NEW g \in Names, NEW v
  PROVE  Agree(Written(S, g, v), Written(R, g, v))
  BY DEF Agree, Written, GPRs, Names

(* A machine does what an instruction does when it has its flags, its     *)
(* memory and its registers.                                               *)
LEMMA DoesBy ==
  ASSUME NEW m, NEW op, NEW o, NEW S, NEW R, NEW f, NEW c, Effect(m, op, o) = St(R, f, c)
  PROVE  /\ Agree(S, R) => Does(St(S, f, c), m, [mnemonic |-> op, o |-> o])
         /\ op = "mul" /\ (\A g \in GPRs \ {"rdx"} : S[g] = R[g]) =>
              Does(St(S, f, c), m, [mnemonic |-> op, o |-> o])
  BY DEF Does, St, Agree, GPRs

(* An instruction that reads its operand in memory. *)
LEMMA LoadsDone ==
  ASSUME NEW R \in RegFile, NEW f, NEW c \in Core, NEW b, NEW i, NEW s, NEW d, NEW l,
         Address(b, i, s, d, l), NEW g \in GPRs
  PROVE  LET o == <<Register(g), InMemory(b, i, s, d, l), NoOperand>>
         IN \A op \in {"lea", "mov", "sub", "cmp", "test"} :
              Does(Run(St(R, f, c), Crack(op, o)), St(R, f, c), [mnemonic |-> op, o |-> o])
<1> DEFINE x == InMemory(b, i, s, d, l)
           o == <<Register(g), x, NoOperand>>
           m == St(R, f, c)
           a == EaOf(R, x)
           L == Left(R, a)
           n == St(L, f, c)
           S == Loaded(R, x, c)
           u(op) == Uop(op, "scratchls", g, 0, "REG")
           lea == Uop("mov", "loadstore", g, 0, "REG")
           After(op) == Run(m, Crack(op, o))
<1>1. x.type = "mem" /\ g \in Names /\ "loadstore" \in Names /\ "scratchls" \in Names
  BY MemoryParts DEF GPRs, Names
<1>2. a \in Word /\ L \in RegFile /\ S \in RegFile /\ S["scratchls"] = c[a]
      /\ Agree(L, R) /\ Agree(S, R) /\ S[g] = R[g] /\ L["loadstore"] = a
      /\ OneStep(n, Whole(Loading)) = St(S, f, c)
  <2>1. a \in Word /\ L \in RegFile
    BY EaTyped
  <2>2. Agree(L, R) /\ L["loadstore"] = a
    <3> HIDE DEF a
    <3> QED BY <2>1 DEF Left, Written, RegFile, Names, GPRs, Agree
  <2>3. /\ S \in RegFile /\ S["scratchls"] = c[a] /\ \A h \in GPRs : S[h] = R[h]
        /\ OneStep(n, Whole(Loading)) = St(S, f, c)
    BY LoadedTyped
  <2> QED BY <2>1, <2>2, <2>3 DEF Agree
<1>3. /\ After("lea") = OneStep(n, Whole(lea))
      /\ \A op \in {"mov", "sub", "cmp", "test"} : After(op) = OneStep(St(S, f, c), Whole(u(op)))
  <2>1. /\ Crack("lea", o) = AddressOf(x) \o <<lea>>
        /\ \A op \in {"mov", "sub", "cmp", "test"} :
             Crack(op, o) = AddressOf(x) \o (<<Loading>> \o <<u(op)>>)
    BY <1>1, CrackedLoads
  <2>2. Run(m, AddressOf(x) \o <<lea>>) = OneStep(n, Whole(lea))
    BY AfterAddress
  <2>3. \A v : Run(m, AddressOf(x) \o (<<Loading>> \o <<v>>))
                 = OneStep(OneStep(n, Whole(Loading)), Whole(v))
    <3>1. TAKE v
    <3> QED BY AfterAddress
  <2>4. After("lea") = OneStep(n, Whole(lea))
    BY <2>1, <2>2
  <2>5. ASSUME NEW op \in {"mov", "sub", "cmp", "test"}
        PROVE  After(op) = OneStep(St(S, f, c), Whole(u(op)))
    <3> DEFINE p == AddressOf(x) \o (<<Loading>> \o <<u(op)>>)
    <3>1. Run(m, p) = OneStep(OneStep(n, Whole(Loading)), Whole(u(op)))
      BY <2>3
    <3>2. After(op) = Run(m, p)
      BY <2>1
    <3> HIDE DEF p, S, n, u, After
    <3> QED BY <1>2, <3>1, <3>2
  <2> QED BY <2>4, <2>5
<1>4. /\ Given(L, "loadstore", 0, "REG") = a
      /\ Given(S, "scratchls", 0, "REG") = c[a]
  <2> HIDE DEF L, S, a
  <2> QED BY <1>1, <1>2 DEF Given, FileValue, Names
<1>5. DOMAIN R = Names /\ DOMAIN L = Names /\ DOMAIN S = Names
  <2> HIDE DEF L, S
  <2> QED BY <1>2 DEF RegFile
<1>6. \A v : Agree(Written(L, g, v), Written(R, g, v)) /\ Agree(Written(S, g, v), Written(R, g, v))
  <2>1. TAKE v
  <2> HIDE DEF L, S
  <2> QED BY <1>1, <1>2, <1>5, AgreeWritten
<1>7. /\ After("lea") = St(Written(L, g, a), f, c)
      /\ After("mov") = St(Written(S, g, c[a]), f, c)
      /\ After("sub") = St(Written(S, g, Trunc(R[g] - c[a])), f, c)
      /\ After("cmp") = St(S, CmpFlags(c[a], R[g]), c)
      /\ After("test") = St(S, TestFlags(c[a], R[g]), c)
  <2>1. OneStep(n, Whole(lea)) = St(Written(L, g, Given(L, "loadstore", 0, "REG")), f, c)
    <3> HIDE DEF L
    <3> QED BY <1>1, <1>2, StepMove
  <2>2. /\ OneStep(St(S, f, c), Whole(u("mov")))
             = St(Written(S, g, Given(S, "scratchls", 0, "REG")), f, c)
        /\ OneStep(St(S, f, c), Whole(u("sub")))
             = St(Written(S, g, Trunc(S[g] - Given(S, "scratchls", 0, "REG"))), f, c)
        /\ OneStep(St(S, f, c), Whole(u("cmp")))
             = St(S, CmpFlags(Given(S, "scratchls", 0, "REG"), S[g]), c)
        /\ OneStep(St(S, f, c), Whole(u("test")))
             = St(S, TestFlags(Given(S, "scratchls", 0, "REG"), S[g]), c)
    <3> HIDE DEF S
    <3> QED BY <1>1, <1>2, StepMove, StepCompare
  <2> HIDE DEF After, L, S, a, n, u, lea
  <2> QED BY <1>2, <1>3, <1>4, <2>1, <2>2
<1>8. /\ Effect(m, "lea", o) = St(Written(R, g, a), f, c)
      /\ Effect(m, "mov", o) = St(Written(R, g, c[a]), f, c)
      /\ Effect(m, "sub", o) = St(Written(R, g, Trunc(R[g] - c[a])), f, c)
      /\ Effect(m, "cmp", o) = St(R, CmpFlags(c[a], R[g]), c)
      /\ Effect(m, "test", o) = St(R, TestFlags(c[a], R[g]), c)
  BY <1>1, EffectLoads
<1> HIDE DEF o, m, a, L, S, After
<1>9. /\ Does(After("lea"), m, [mnemonic |-> "lea", o |-> o])
      /\ Does(After("mov"), m, [mnemonic |-> "mov", o |-> o])
      /\ Does(After("sub"), m, [mnemonic |-> "sub", o |-> o])
      /\ Does(After("cmp"), m, [mnemonic |-> "cmp", o |-> o])
      /\ Does(After("test"), m, [mnemonic |-> "test", o |-> o])
  BY <1>2, <1>6, <1>7, <1>8, DoesBy
<1> QED BY <1>9 DEF o, m, After, x

(* An immediate is its signed value, as a word. *)
LEMMA ImmediateWord ==
  ASSUME NEW z \in 0 .. WordBits, NEW v \in Word, v < 2 ^ z
  PROVE  sign_extend(v, z) = Trunc(AsSigned(v, z))
<1>1. v \in Nat /\ WordBits \in Nat
  BY WordBitsAssumption DEF Word
<1>2. /\ sign_extend(v, z) \in Int /\ AsSigned(v, z) \in Int
      /\ Trunc(0 + sign_extend(v, z)) = Trunc(0 + AsSigned(v, z))
  BY <1>1, Displaced
<1>3. sign_extend(v, z) \in Word
  <2>1. 2 ^ z \in Nat
    BY Powers
  <2> QED BY <1>1, <2>1, TruncWord DEF sign_extend
<1>4. Trunc(sign_extend(v, z)) = sign_extend(v, z)
  BY <1>3, CastWord
<1> QED BY <1>2, <1>4

(* An instruction that writes its operand in memory, or compares it with  *)
(* an immediate.                                                           *)
LEMMA StoresDone ==
  ASSUME NEW R \in RegFile, NEW f, NEW c \in Core, NEW b, NEW i, NEW s, NEW d, NEW l,
         Address(b, i, s, d, l), NEW g \in GPRs,
         NEW z \in 0 .. WordBits, NEW v \in Word, v < 2 ^ z
  PROVE  LET x == InMemory(b, i, s, d, l)
             o == <<x, Register(g), NoOperand>>
             imm == <<x, Imm(v, z), NoOperand>>
             m == St(R, f, c)
         IN /\ Does(Run(m, Crack("mov", o)), m, [mnemonic |-> "mov", o |-> o])
            /\ i # "none" => Does(Run(m, Crack("mov", imm)), m, [mnemonic |-> "mov", o |-> imm])
            /\ \A op \in {"cmp", "test"} :
                 Does(Run(m, Crack(op, imm)), m, [mnemonic |-> op, o |-> imm])
<1> DEFINE x == InMemory(b, i, s, d, l)
           o == <<x, Register(g), NoOperand>>
           imm == <<x, Imm(v, z), NoOperand>>
           e == sign_extend(v, z)
           m == St(R, f, c)
           a == EaOf(R, x)
           L == Left(R, a)
           n == St(L, f, c)
           S == Loaded(R, x, c)
           move == Uop("mov", g, "scratchls", 0, "REG")
           set == Uop("mov", "none", "scratchls", e, "IMMED")
           u(op) == Uop(op, "none", "scratchls", e, "IMMED")
           W(w) == Written(L, "scratchls", w)
           After(op) == Run(m, Crack(op, imm))
<1>1. /\ x.type = "mem" /\ x.index = i /\ g \in Names /\ g # "rip"
      /\ "loadstore" \in Names /\ "scratchls" \in Names
  BY MemoryParts DEF GPRs, Names
<1>2. a \in Word /\ L \in RegFile /\ L["loadstore"] = a /\ (\A h \in GPRs : L[h] = R[h])
      /\ S \in RegFile /\ S["scratchls"] = c[a] /\ Agree(S, R)
      /\ OneStep(n, Whole(Loading)) = St(S, f, c)
  <2>1. a \in Word /\ L \in RegFile
    BY EaTyped
  <2>2. L["loadstore"] = a /\ \A h \in GPRs : L[h] = R[h]
    <3> HIDE DEF a
    <3> QED BY <2>1 DEF Left, Written, RegFile, Names, GPRs
  <2>3. /\ S \in RegFile /\ S["scratchls"] = c[a] /\ \A h \in GPRs : S[h] = R[h]
        /\ OneStep(n, Whole(Loading)) = St(S, f, c)
    BY LoadedTyped
  <2> QED BY <2>1, <2>2, <2>3 DEF Agree
<1>3. e = Trunc(AsSigned(v, z)) /\ e \in Word /\ R[g] \in Word
  <2>1. e = Trunc(AsSigned(v, z)) /\ AsSigned(v, z) \in Int
    BY ImmediateWord, Displaced, WordBitsAssumption DEF Word
  <2> QED BY <1>1, <2>1, TruncWord DEF RegFile
<1>4. ASSUME NEW w \in Word
      PROVE  /\ W(w) \in RegFile /\ W(w)["loadstore"] = a /\ W(w)["scratchls"] = w
             /\ Agree(W(w), R)
             /\ OneStep(St(W(w), f, c), Whole(Storing)) = St(W(w), f, Written(c, a, w))
  <2>1. W(w) \in RegFile /\ W(w)["loadstore"] = a /\ W(w)["scratchls"] = w /\ Agree(W(w), R)
    <3> HIDE DEF L, a
    <3> QED BY <1>2 DEF Written, RegFile, Names, GPRs, Agree
  <2> HIDE DEF W, a
  <2>2. OneStep(St(W(w), f, c), Whole(Storing)) = St(W(w), f, Written(c, a, w))
    BY <2>1, StepStore DEF Storing
  <2> QED BY <2>1, <2>2
<1>5. /\ OneStep(n, Whole(move)) = St(W(R[g]), f, c)
      /\ OneStep(n, Whole(set)) = St(W(e), f, c)
  <2>1. Given(L, g, 0, "REG") = R[g] /\ Given(L, "none", e, "IMMED") = e
    <3> HIDE DEF L, e
    <3> QED BY <1>1, <1>2 DEF Given, FileValue
  <2>2. /\ OneStep(n, Whole(move)) = St(Written(L, "scratchls", Given(L, g, 0, "REG")), f, c)
        /\ OneStep(n, Whole(set)) = St(Written(L, "scratchls", Given(L, "none", e, "IMMED")), f, c)
    <3> HIDE DEF L, e
    <3> QED BY <1>1, <1>2, StepMove
  <2> QED BY <2>1, <2>2
<1>6. Run(m, Crack("mov", o)) = St(W(R[g]), f, Written(c, a, R[g]))
  <2> DEFINE p == AddressOf(x) \o (<<move>> \o <<Storing>>)
  <2>1. Crack("mov", o) = p
    BY <1>1, CrackedStores
  <2>2. Run(m, p) = OneStep(OneStep(n, Whole(move)), Whole(Storing))
    BY AfterAddress
  <2> HIDE DEF p, n, W, o
  <2> QED BY <1>3, <1>4, <1>5, <2>1, <2>2
<1>7. i # "none" => After("mov") = St(W(e), f, Written(c, a, e))
  <2> DEFINE p == AddressOf(x) \o (<<set>> \o <<Storing>>)
  <2>1. i # "none" => Crack("mov", imm) = p
    BY <1>1, CrackedImmediates, ZenonT(60)
  <2>2. Run(m, p) = OneStep(OneStep(n, Whole(set)), Whole(Storing))
    BY AfterAddress
  <2> HIDE DEF p, n, W, imm, e
  <2> QED BY <1>3, <1>4, <1>5, <2>1, <2>2
<1>8. /\ After("cmp") = St(S, CmpFlags(e, c[a]), c)
      /\ After("test") = St(S, TestFlags(e, c[a]), c)
  <2>1. \A op \in {"cmp", "test"} : After(op) = OneStep(St(S, f, c), Whole(u(op)))
    <3>1. TAKE op \in {"cmp", "test"}
    <3> DEFINE p == AddressOf(x) \o (<<Loading>> \o <<u(op)>>)
    <3>2. Crack(op, imm) = p
      BY <1>1, CrackedImmediates, ZenonT(60)
    <3>3. Run(m, p) = OneStep(OneStep(n, Whole(Loading)), Whole(u(op)))
      BY AfterAddress
    <3> HIDE DEF p, n, imm, u, S
    <3> QED BY <1>2, <3>2, <3>3
  <2>2. Given(S, "none", e, "IMMED") = e
    BY DEF Given
  <2>3. /\ OneStep(St(S, f, c), Whole(u("cmp")))
             = St(S, CmpFlags(Given(S, "none", e, "IMMED"), S["scratchls"]), c)
        /\ OneStep(St(S, f, c), Whole(u("test")))
             = St(S, TestFlags(Given(S, "none", e, "IMMED"), S["scratchls"]), c)
    <3> HIDE DEF S, e
    <3> QED BY <1>1, <1>2, StepCompare
  <2> HIDE DEF After, S, u, e, a
  <2> QED BY <1>2, <2>1, <2>2, <2>3
<1>9. /\ Effect(m, "mov", o) = St(R, f, Written(c, a, R[g]))
      /\ Effect(m, "mov", imm) = St(R, f, Written(c, a, e))
      /\ Effect(m, "cmp", imm) = St(R, CmpFlags(e, c[a]), c)
      /\ Effect(m, "test", imm) = St(R, TestFlags(e, c[a]), c)
  <2> DEFINE k == Trunc(AsSigned(v, z))
  <2>1. /\ Effect(m, "mov", o) = St(R, f, Written(c, a, R[g]))
        /\ Effect(m, "mov", imm) = St(R, f, Written(c, a, k))
        /\ Effect(m, "cmp", imm) = St(R, CmpFlags(k, c[a]), c)
        /\ Effect(m, "test", imm) = St(R, TestFlags(k, c[a]), c)
    BY <1>1, EffectStores
  <2>2. k = e
    BY <1>3
  <2> HIDE DEF k, e, o, imm, m, a
  <2> QED BY <2>1, <2>2
<1>10. Agree(W(R[g]), R) /\ Agree(W(e), R)
  BY <1>3, <1>4
<1> HIDE DEF W, S, e, a, After, imm, o, m
<1>11. /\ Does(Run(m, Crack("mov", o)), m, [mnemonic |-> "mov", o |-> o])
       /\ i # "none" => Does(After("mov"), m, [mnemonic |-> "mov", o |-> imm])
       /\ Does(After("cmp"), m, [mnemonic |-> "cmp", o |-> imm])
       /\ Does(After("test"), m, [mnemonic |-> "test", o |-> imm])
  BY <1>2, <1>6, <1>7, <1>8, <1>9, <1>10, DoesBy
<1> QED BY <1>11 DEF o, imm, m, After, x

(* push and mul of an operand in memory. *)
LEMMA AloneDone ==
  ASSUME NEW R \in RegFile, NEW f, NEW c \in Core, NEW b, NEW i, NEW s, NEW d, NEW l,
         Address(b, i, s, d, l)
  PROVE  LET o == <<InMemory(b, i, s, d, l), NoOperand, NoOperand>>
         IN \A op \in {"push", "mul"} :
              Does(Run(St(R, f, c), Crack(op, o)), St(R, f, c), [mnemonic |-> op, o |-> o])
<1> DEFINE x == InMemory(b, i, s, d, l)
           o == <<x, NoOperand, NoOperand>>
           m == St(R, f, c)
           a == EaOf(R, x)
           n == St(Left(R, a), f, c)
           S == Loaded(R, x, c)
           u(op) == Uop(op, "scratchls", x.base, 0, "REG")
           sp == Trunc(R["rsp"] - 1)
           k == Trunc(Signed(R["rax"]) * Signed(c[a]))
           After(op) == Run(m, Crack(op, o))
<1>1. x.type = "mem" /\ "rsp" \in Names /\ "rax" \in Names
  BY MemoryParts DEF Names
<1>2. /\ S \in RegFile /\ S["scratchls"] = c[a] /\ c[a] \in Word /\ Agree(S, R)
      /\ S["rsp"] = R["rsp"] /\ S["rax"] = R["rax"] /\ R["rax"] \in Word
      /\ OneStep(n, Whole(Loading)) = St(S, f, c)
  <2>1. /\ S \in RegFile /\ S["scratchls"] = c[a] /\ c[a] \in Word /\ \A h \in GPRs : S[h] = R[h]
        /\ OneStep(n, Whole(Loading)) = St(S, f, c)
    BY LoadedTyped
  <2> HIDE DEF S, a
  <2> QED BY <2>1, <1>1 DEF Agree, GPRs, RegFile
<1>3. \A op \in {"push", "mul"} : After(op) = OneStep(St(S, f, c), Whole(u(op)))
  <2>1. TAKE op \in {"push", "mul"}
  <2> DEFINE p == AddressOf(x) \o (<<Loading>> \o <<u(op)>>)
  <2>2. Crack(op, o) = p
    BY <1>1, CrackedAlone
  <2>3. Run(m, p) = OneStep(OneStep(n, Whole(Loading)), Whole(u(op)))
    BY AfterAddress
  <2> HIDE DEF p, n, o, u, S
  <2> QED BY <1>2, <2>2, <2>3
<1>4. After("push") = St(Written(S, "rsp", sp), f, Written(c, sp, c[a]))
  <2>1. OneStep(St(S, f, c), Whole(u("push")))
          = St(Written(S, "rsp", Trunc(S["rsp"] - 1)), f,
               Written(c, Trunc(S["rsp"] - 1), S["scratchls"]))
    <3> HIDE DEF S
    <3> QED BY <1>2, StepPush
  <2> HIDE DEF After, S, u, a
  <2> QED BY <1>2, <1>3, <2>1
<1>5. PICK w : After("mul") = St(Written(Written(S, "rax", k), "rdx", w), f, c)
  <2>1. \E w : OneStep(St(S, f, c), Whole(u("mul")))
                 = St(Written(Written(S, "rax", Trunc(Signed(S["rax"]) * Signed(S["scratchls"]))),
                              "rdx", w), f, c)
    <3> HIDE DEF S, a
    <3> QED BY <1>2, StepMul
  <2> HIDE DEF After, S, u, a
  <2> QED BY <1>2, <1>3, <2>1
<1>6. /\ Effect(m, "push", o) = St(Written(R, "rsp", sp), f, Written(c, sp, c[a]))
      /\ Effect(m, "mul", o) = St(Written(R, "rax", k), f, c)
  BY <1>1, EffectAlone
<1>7. DOMAIN R = Names /\ DOMAIN S = Names
  <2> HIDE DEF S
  <2> QED BY <1>2 DEF RegFile
<1>8. Agree(Written(S, "rsp", sp), Written(R, "rsp", sp))
  <2> HIDE DEF S, sp
  <2> QED BY <1>1, <1>2, <1>7, AgreeWritten
<1>9. \A h \in GPRs \ {"rdx"} : Written(Written(S, "rax", k), "rdx", w)[h] = Written(R, "rax", k)[h]
  <2> HIDE DEF S, k
  <2> QED BY <1>2, <1>7 DEF Written, Agree, GPRs, Names
<1> HIDE DEF o, m, After, sp, k, S, a
<1>10. /\ Does(After("push"), m, [mnemonic |-> "push", o |-> o])
       /\ Does(After("mul"), m, [mnemonic |-> "mul", o |-> o])
  BY <1>4, <1>5, <1>6, <1>8, <1>9, DoesBy
<1> QED BY <1>10 DEF o, m, After, x

-----------------------------------------------------------------------------
(* The instructions with an operand in memory that are cracked into what  *)
(* they do: their addresses, their immediates and their forms.             *)
IsAddress(x) == \E b, i, s, d, l : Address(b, i, s, d, l) /\ x = InMemory(b, i, s, d, l)
IsConstant(y) == \E z \in 0 .. WordBits, v \in Word : v < 2 ^ z /\ y = Imm(v, z)
Accesses(op, o) ==
  \E x, y, g :
    /\ g \in GPRs /\ IsAddress(x) /\ IsConstant(y)
    /\ \/ o = <<Register(g), x, NoOperand>> /\ op \in {"lea", "mov", "sub", "cmp", "test"}
       \/ o = <<x, Register(g), NoOperand>> /\ op = "mov"
       \/ o = <<x, y, NoOperand>> /\ op \in {"cmp", "test"}
       \/ o = <<x, y, NoOperand>> /\ op = "mov" /\ x.index # "none"
       \/ o = <<x, NoOperand, NoOperand>> /\ op \in {"push", "mul"}

(* crack_opcodes (decoder.cc:65-508): from any registers, flags and memory, *)
(* the micro-ops of such an instruction do what the instruction does,      *)
(* whatever its base, index, scale, displacement and immediate.            *)
THEOREM MemoryOperands ==
  ASSUME NEW R \in RegFile, NEW f, NEW c \in Core, NEW op, NEW o, Accesses(op, o)
  PROVE  Does(Run(St(R, f, c), Crack(op, o)), St(R, f, c), [mnemonic |-> op, o |-> o])
<1>1. PICK x, y, g :
        /\ g \in GPRs /\ IsAddress(x) /\ IsConstant(y)
        /\ \/ o = <<Register(g), x, NoOperand>> /\ op \in {"lea", "mov", "sub", "cmp", "test"}
           \/ o = <<x, Register(g), NoOperand>> /\ op = "mov"
           \/ o = <<x, y, NoOperand>> /\ op \in {"cmp", "test"}
           \/ o = <<x, y, NoOperand>> /\ op = "mov" /\ x.index # "none"
           \/ o = <<x, NoOperand, NoOperand>> /\ op \in {"push", "mul"}
  BY DEF Accesses
<1>2. PICK b, i, s, d, l : Address(b, i, s, d, l) /\ x = InMemory(b, i, s, d, l)
  BY <1>1 DEF IsAddress
<1>3. PICK z \in 0 .. WordBits, v \in Word : v < 2 ^ z /\ y = Imm(v, z)
  BY <1>1 DEF IsConstant
<1>4. x.index = i
  BY <1>2, MemoryParts
<1>5. CASE o = <<Register(g), x, NoOperand>> /\ op \in {"lea", "mov", "sub", "cmp", "test"}
  BY <1>1, <1>2, <1>5, LoadsDone, ZenonT(60)
<1>6. CASE o = <<x, Register(g), NoOperand>> /\ op = "mov"
  BY <1>1, <1>2, <1>3, <1>6, StoresDone, ZenonT(60)
<1>7. CASE o = <<x, y, NoOperand>> /\ op \in {"cmp", "test"}
  BY <1>1, <1>2, <1>3, <1>7, StoresDone, ZenonT(60)
<1>8. CASE o = <<x, y, NoOperand>> /\ op = "mov" /\ x.index # "none"
  BY <1>1, <1>2, <1>3, <1>4, <1>8, StoresDone, ZenonT(60)
<1>9. CASE o = <<x, NoOperand, NoOperand>> /\ op \in {"push", "mul"}
  BY <1>2, <1>9, AloneDone
<1> QED BY <1>1, <1>5, <1>6, <1>7, <1>8, <1>9

(* The first powers of two. *)
LEMMA FirstPowers ==
  ASSUME WordBits >= 4
  PROVE  /\ 2 ^ 0 = 1 /\ 2 ^ 2 = 4 /\ 2 ^ 4 = 16 /\ 0 \in 0 .. WordBits
         /\ 2 \in 0 .. WordBits /\ 4 \in 0 .. WordBits
         /\ 0 \in Word /\ 2 \in Word /\ 3 \in Word /\ 6 \in Word
<1>1. \A i \in 0 .. 3 : i \in 0 .. WordBits - 1
  BY WordBitsAssumption
<1>2. 2 ^ (0 + 1) = 2 * 2 ^ 0 /\ 2 ^ (1 + 1) = 2 * 2 ^ 1 /\ 2 ^ (2 + 1) = 2 * 2 ^ 2
      /\ 2 ^ (3 + 1) = 2 * 2 ^ 3 /\ 2 ^ 0 = 1
  BY <1>1, PowerAssumption
<1>3. 2 ^ 1 = 2 /\ 2 ^ 2 = 4 /\ 2 ^ 3 = 8 /\ 2 ^ 4 = 16
  BY <1>2
<1>4. WordMod >= 16
  <2> DEFINE T == {k \in Nat : 2 ^ k \in Nat /\ 2 ^ k >= 16}
  <2>1. 4 \in T
    BY <1>3
  <2>2. ASSUME NEW k \in 4 + 1 .. WordBits, k - 1 \in T PROVE k \in T
    <3>1. k - 1 \in 0 .. WordBits - 1 /\ k \in Nat /\ (k - 1) + 1 = k
      BY WordBitsAssumption
    <3>2. 2 ^ k = 2 * 2 ^ (k - 1)
      BY <3>1, PowerAssumption
    <3> QED BY <2>2, <3>1, <3>2
  <2>3. \A k \in 4 .. WordBits : k \in T
    <3> HIDE DEF T
    <3> QED BY <2>1, <2>2, WordBitsAssumption, UpTo
  <2> QED BY <2>3, WordBitsAssumption, WordSizeAssumption
<1> QED BY <1>2, <1>3, <1>4, WordBitsAssumption, WordModAssumption DEF Word

(* The machine the instructions run on, and the instructions.              *)
LEMMA AccessedMachine ==
  ASSUME WordBits >= 4, rax \in Word, rdx \in Word, operand \in Word
  PROVE  \E R \in RegFile, c \in Core : Sequential!Machine = St(R, flags, c)
<1> DEFINE regs == [rax |-> rax, rdx |-> rdx, rcx |-> operand, rsp |-> 6]
           R == [r \in GPRs \cup {"scratchls", "loadstore"} |-> IF r \in GPRs THEN regs[r] ELSE 0]
           c == [a \in Word |-> Trunc(7 * a + 3)]
<1>1. Sequential!Machine = St(R, flags, c)
  BY DEF Sequential!Machine, Sequential!Temporaries, St, GPRs
<1>2. R \in RegFile
  <2>1. 0 \in Word /\ 6 \in Word
    BY FirstPowers
  <2>2. \A r \in GPRs : regs[r] \in Word
    BY <2>1 DEF GPRs
  <2> HIDE DEF regs
  <2> QED BY <2>1, <2>2 DEF RegFile, Names, GPRs
<1>3. c \in Core
  <2>1. ASSUME NEW a \in Word PROVE Trunc(7 * a + 3) \in Word
    BY TruncWord DEF Word
  <2> QED BY <2>1 DEF Core
<1> QED BY <1>1, <1>2, <1>3

(* Every instruction of the run is of a form above. *)
LEMMA AccessedForms ==
  ASSUME WordBits >= 4, NEW i \in MemoryInstructions
  PROVE  Accesses(i.mnemonic, i.o) /\ i = [mnemonic |-> i.mnemonic, o |-> i.o]
<1>1. "rcx" \in GPRs /\ IsConstant(Imm(3, 2)) /\ IsConstant(Imm(2, 2))
  <2>1. \A v \in {2, 3} : v \in Word /\ v < 2 ^ 2
    BY FirstPowers
  <2>2. 2 \in 0 .. WordBits
    BY FirstPowers
  <2> QED BY <2>1, <2>2 DEF GPRs, IsConstant
<1>2. ASSUME NEW x \in Modes PROVE IsAddress(x)
  <2> DEFINE Fit(d) == d[1] \in 0 .. WordBits /\ d[2] \in Nat /\ d[2] < 2 ^ d[1]
  <2>0. Fit(<<0, 0>>) /\ Fit(<<2, 1>>) /\ Fit(<<2, 2>>) /\ Fit(<<2, 3>>) /\ Fit(<<4, 6>>)
    BY FirstPowers
  <2>1. \A b \in {"rax", "rip"}, d \in Displacements : Address(b, "none", 0, d[1], d[2])
    <3>1. TAKE b \in {"rax", "rip"}, d \in Displacements
    <3>2. Fit(d)
      <4> HIDE DEF Fit
      <4> QED BY <2>0 DEF Displacements
    <3> QED BY <3>2 DEF Address, GPRs
  <2>2. \A s \in {0, 2, 4}, d \in {<<0, 0>>, <<2, 3>>} : Address("rax", "rdx", s, d[1], d[2])
    <3>1. TAKE s \in {0, 2, 4}, d \in {<<0, 0>>, <<2, 3>>}
    <3>2. Fit(d)
      <4> HIDE DEF Fit
      <4> QED BY <2>0
    <3> QED BY <3>2 DEF Address, GPRs
  <2>3. /\ Address("none", "rdx", 4, 4, 6) /\ Address("rax", "rax", 2, 0, 0)
        /\ Address("rax", "rax", 2, 2, 2)
    BY <2>0 DEF Address, GPRs
  <2> QED BY <2>1, <2>2, <2>3 DEF Modes, IsAddress
<1>3. PICK op, t, s, x :
        /\ i = I(op, t, s) /\ x \in Modes
        /\ \/ op \in {"lea", "mov", "sub", "cmp", "test"} /\ t = Register("rcx") /\ s = x
           \/ op = "mov" /\ t = x /\ s = Register("rcx")
           \/ op = "mov" /\ t = x /\ s = Imm(3, 2) /\ x.index # "none"
           \/ op = "cmp" /\ t = x /\ s = Imm(2, 2)
           \/ op \in {"push", "mul"} /\ t = x /\ s = NoOperand
  BY DEF MemoryInstructions
<1>4. i.mnemonic = op /\ i.o = <<t, s, NoOperand>> /\ i = [mnemonic |-> i.mnemonic, o |-> i.o]
  BY <1>3 DEF I
<1>5. IsAddress(x)
  BY <1>2, <1>3
<1>6. Accesses(op, <<t, s, NoOperand>>)
  <2>1. CASE op \in {"lea", "mov", "sub", "cmp", "test"} /\ t = Register("rcx") /\ s = x
    BY <1>1, <1>5, <2>1 DEF Accesses
  <2>2. CASE op = "mov" /\ t = x /\ s = Register("rcx")
    BY <1>1, <1>5, <2>2 DEF Accesses
  <2>3. CASE op = "mov" /\ t = x /\ s = Imm(3, 2) /\ x.index # "none"
    BY <1>1, <1>5, <2>3 DEF Accesses
  <2>4. CASE op = "cmp" /\ t = x /\ s = Imm(2, 2)
    BY <1>1, <1>5, <2>4 DEF Accesses
  <2>5. CASE op \in {"push", "mul"} /\ t = x /\ s = NoOperand
    BY <1>1, <1>5, <2>5 DEF Accesses
  <2> QED BY <1>3, <2>1, <2>2, <2>3, <2>4, <2>5
<1> QED BY <1>4, <1>6

(* Words before the fragment; what an instruction left after it.           *)
AccessInv ==
  /\ done = <<>> => rax \in Word /\ rdx \in Word /\ operand \in Word
  /\ done # <<"access">> => accessed = {}
  /\ CracksMemory

(* Every step keeps the invariant. *)
LEMMA AccessStep == ASSUME WordBits >= 4, AccessInv, [Next]_fragment PROVE AccessInv'
<1>1. CASE AccessMemory
  <2>1. /\ done = <<>> /\ done' = <<"access">> /\ UNCHANGED <<rax, rdx, operand, flags>>
        /\ \E i \in MemoryInstructions : accessed'
             = {[instruction |-> i, after |-> Run(Sequential!Machine, Crack(i.mnemonic, i.o))]}
    BY <1>1 DEF AccessMemory
  <2>2. PICK R \in RegFile, c \in Core : Sequential!Machine = St(R, flags, c)
    BY <2>1, AccessedMachine DEF AccessInv
  <2>3. Sequential!Machine' = Sequential!Machine
    BY <2>1 DEF Sequential!Machine
  <2>4. PICK i \in MemoryInstructions : accessed'
          = {[instruction |-> i, after |-> Run(Sequential!Machine, Crack(i.mnemonic, i.o))]}
    BY <2>1
  <2>5. Does(Run(Sequential!Machine, Crack(i.mnemonic, i.o)), Sequential!Machine, i)
    BY <2>2, AccessedForms, MemoryOperands
  <2>6. CracksMemory'
    BY <2>3, <2>4, <2>5 DEF CracksMemory
  <2> QED BY <2>1, <2>6 DEF AccessInv
<1>2. CASE Compare \/ Test \/ SignExtend \/ Divide \/ Multiply
  <2>1. done # <<"access">> /\ done' # <<>> /\ accessed' = accessed
    BY <1>2 DEF Compare, Test, SignExtend, Divide, Multiply
  <2> QED BY <2>1 DEF AccessInv, CracksMemory
<1>3. CASE UNCHANGED fragment
  <2>1. UNCHANGED <<rax, rdx, operand, flags, done, accessed>>
    BY <1>3 DEF fragment
  <2>2. Sequential!Machine' = Sequential!Machine
    BY <2>1 DEF Sequential!Machine
  <2> QED BY <2>1, <2>2 DEF AccessInv, CracksMemory
<1> QED BY <1>1, <1>2, <1>3 DEF Next

(* An instruction with an operand in memory does what it should, in every  *)
(* state and for every word size the displacements of the run fit          *)
(* (decoder.cc:65-508).                                                    *)
THEOREM MemoryCracked == WordBits >= 4 /\ Spec => []CracksMemory
<1>1. SUFFICES ASSUME WordBits >= 4 PROVE Spec => []CracksMemory
  OBVIOUS
<1>2. Init => AccessInv
  BY DEF Init, AccessInv, CracksMemory
<1>3. AccessInv /\ [Next]_fragment => AccessInv'
  BY <1>1, AccessStep
<1>4. AccessInv => CracksMemory
  BY DEF AccessInv
<1> QED BY <1>2, <1>3, <1>4, PTL DEF Spec
=============================================================================
