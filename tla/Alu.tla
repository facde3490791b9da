-------------------------------- MODULE Alu --------------------------------
(***************************************************************************)
(* The arithmetic of Execute::work(): what each opcode of its switch       *)
(* computes from the three operand values of a micro-op and what it does   *)
(* to the flags register `eflags`.                                         *)
(*                                                                         *)
(* A 64-bit machine word is an integer 0 .. WordMod-1 with WordMod a power *)
(* of two; the code's casts between long long and unsigned long long are   *)
(* Signed and Trunc.  The four flags the code ever sets are a record.      *)
(*                                                                         *)
(* Results(op, flags) is a SET of results: it has one member where the     *)
(* code is deterministic, several where the build may choose (the undefined*)
(* __builtin_clz(0) of UD_Imul), none where the host raises SIGFPE.        *)
(***************************************************************************)
EXTENDS Integers

CONSTANTS
  WordBits,  \* bits of a machine word (64 in the code)
  WordMod    \* 2^WordBits

ASSUME WordBitsAssumption == WordBits \in Nat /\ WordBits >= 2
ASSUME WordModAssumption  == WordMod \in Nat /\ WordMod >= 4
ASSUME WordSizeAssumption == WordMod = 2 ^ WordBits
\* Said for the proofs: the prover knows no more of 2^i than that it is an integer.
ASSUME PowerAssumption    == 2 ^ 0 = 1 /\ \A i \in 0 .. WordBits - 1 : 2 ^ (i + 1) = 2 * 2 ^ i

Word  == 0 .. (WordMod - 1)
Flags == [CF : BOOLEAN, ZF : BOOLEAN, SF : BOOLEAN, OF : BOOLEAN]

(* (unsigned long long) of a wider or negative integer. *)
Trunc(n) == n % WordMod

(* The bit tested by `x & (1ULL<<63)`, and the word read as a long long. *)
SignBit     == WordMod \div 2
Negative(x) == x >= SignBit
Signed(x)   == IF Negative(x) THEN x - WordMod ELSE x

Bit(x, i) == (x \div 2 ^ i) % 2

(* &, | and ^ on words, given by what they do to every bit. *)
Bitwise2(Combine(_, _), x, y) ==
  {z \in Word : \A i \in 0 .. (WordBits - 1) :
                   Bit(z, i) = Combine(Bit(x, i), Bit(y, i))}

And(b, c) == b * c
Or(b, c)  == b + c - b * c
Xor(b, c) == (b + c) % 2

(* C++ division truncates towards zero. *)
Magnitude(n) == IF n < 0 THEN -n ELSE n
Quotient(n, d) ==
  LET q == Magnitude(n) \div Magnitude(d)
  IN IF (n < 0) = (d < 0) THEN q ELSE -q
Remainder(n, d) == n - d * Quotient(n, d)

-----------------------------------------------------------------------------
(* A result: the values written back to value2 and value3, and eflags. *)
Result(v2, v3, flags) == [value2 |-> v2, value3 |-> v3, flags |-> flags]

(* imul sets CF and OF together. *)
WithCarryOverflow(flags, b) == [flags EXCEPT !.CF = b, !.OF = b]

(* __builtin_clz looks at the low half of a word only. *)
LowHalf(x) == x % 2 ^ (WordBits \div 2)
(* Slip: the product is shifted by half a word. *)
MulHalfShift(v1, v2, v3, flags) ==
  LET product == Signed(v1) * Signed(v2)
  IN IF v1 = 0 \/ v2 = 0 THEN {Result(0, v3, flags)}
     ELSE {Result(Trunc(product), Trunc(product \div 2 ^ (WordBits \div 2)), flags)}

(* UD_Imul: rdx:rax := rax * src.  The signed 128-bit product is taken for *)
(* the wide branch, which two operands with a non-zero low half always     *)
(* take; either branch may be taken when clz is given zero.                *)
MulResults(v1, v2, v3, flags) ==
  LET product == Signed(v1) * Signed(v2)
      wide    == Result(Trunc(product), Trunc(product \div WordMod), flags)
      narrow  == Result(Trunc(product), 0, flags)
  IN IF v1 = 0 \/ v2 = 0 THEN {Result(0, v3, flags)}
     ELSE IF LowHalf(v1) = 0 \/ LowHalf(v2) = 0 THEN {wide, narrow}
     ELSE {wide}

(* UD_Idiv: the cast of the 128-bit dividend to unsigned long long leaves  *)
(* rax alone in both branches.                                             *)
DivResults(v1, v2, flags) ==
  IF v1 = 0 THEN {} ELSE {Result(v2 \div v1, v2 % v1, flags)}

(* Slip: rdx is taken to be the high half whatever its sign and rax. *)
IdivUnsignedHigh(v1, v2, v3, flags) ==
  LET dividend == v3 * WordMod + v2
  IN IF v1 = 0 THEN {}
     ELSE {Result(Trunc(Quotient(dividend, Signed(v1))),
                  Trunc(Remainder(dividend, Signed(v1))), flags)}

(* UD_Iidiv: with rdx = 0 a 64-bit division of rax; otherwise rax is       *)
(* sign-extended before it is or-ed under rdx, so a negative rax hides rdx.*)
IdivResults(v1, v2, v3, flags) ==
  LET dividend == IF v3 = 0 \/ Negative(v2) THEN Signed(v2)
                  ELSE Signed(v3) * WordMod + v2
      overflow == v3 = 0 /\ v2 = SignBit /\ v1 = WordMod - 1
  IN IF v1 = 0 \/ overflow THEN {}
     ELSE {Result(Trunc(Quotient(dividend, Signed(v1))),
                  Trunc(Remainder(dividend, Signed(v1))), flags)}

(* UD_Iimul in its four forms. The two-operand form computes its flags     *)
(* from value2 after value2 has been overwritten with the product.         *)
ImulResults(src, v1, v2, v3, flags) ==
  LET Narrow(a) == Trunc(Signed(a) * Signed(v1))
      high      == Trunc((Signed(v2) * Signed(v1)) \div WordMod)
  IN CASE src = "IMUL_1" ->
            {Result(Narrow(v2), high, WithCarryOverflow(flags, high # 0))}
       [] src \in {"IMUL_2R", "IMUL_2I"} ->
            LET r == Narrow(v2)
            IN {Result(r, v3, WithCarryOverflow(flags,
                                Signed(r) * Signed(v1) # Signed(r)))}
       [] src = "IMUL_3" ->
            LET r == Narrow(v3)
            IN {Result(r, v3, WithCarryOverflow(flags,
                                Signed(v3) * Signed(v1) # Signed(r)))}
       [] src = "LOADMUL" -> {Result(Narrow(v2), v3, flags)}
       [] OTHER -> {Result(v2, v3, flags)}

(* do_shift(): the loop shifts one bit at a time and leaves the last bit   *)
(* shifted out in CF.  The test of line 99 is `value1 & (63 == 1)`, always *)
(* false, so OF is never touched.                                          *)
ShiftResults(opcode, v1, v2, v3, flags) ==
  LET count   == v1 % WordBits
      left    == opcode \in {"shl", "sal"}
      shifted == CASE left           -> Trunc(v2 * 2 ^ count)
                   [] opcode = "sar" -> Trunc(Signed(v2) \div 2 ^ count)
                   [] OTHER          -> v2 \div 2 ^ count
      lastOut == IF left THEN Bit(v2, WordBits - count) ELSE Bit(v2, count - 1)
  IN {Result(shifted, v3,
             IF count = 0 THEN flags ELSE [flags EXCEPT !.CF = lastOut = 1])}

(* Slip: the flag tells equal operands, as for cmp. *)
TestEqual(v1, v2) ==
  [CF |-> FALSE, OF |-> FALSE, SF |-> FALSE, ZF |-> v1 = v2]

(* UD_Itest: SF is reset whatever the result (the mask is compared to 1).  *)
TestFlags(v1, v2) ==
  [CF |-> FALSE, OF |-> FALSE, SF |-> FALSE, ZF |-> 0 \in Bitwise2(And, v1, v2)]

(* Slip: the operands of the borrow are swapped. *)
CmpBorrowSwapped(v1, v2) ==
  [ZF |-> v1 = v2, SF |-> Negative(Trunc(v2 - v1)), CF |-> v1 < v2, OF |-> FALSE]
(* Slip: the sign is taken from the difference the other way round. *)
CmpSignSwapped(v1, v2) ==
  [ZF |-> v1 = v2, SF |-> Negative(Trunc(v1 - v2)), CF |-> v2 < v1, OF |-> FALSE]

(* UD_Icmp: OF is reset whatever the operands (the sign bits are truncated *)
(* to int).                                                                *)
CmpFlags(v1, v2) ==
  [ZF |-> v1 = v2, SF |-> Negative(Trunc(v2 - v1)), CF |-> v2 < v1, OF |-> FALSE]

(* The conditions of the jcc and cmovcc cases. *)
Taken(opcode, flags) ==
  CASE opcode = "jmp"                -> TRUE
    [] opcode = "ja"                 -> ~flags.CF /\ ~flags.ZF
    [] opcode = "jz"                 -> flags.ZF
    [] opcode \in {"jnz", "cmovnz"}  -> ~flags.ZF
    [] opcode = "jb"                 -> flags.CF
    [] opcode = "jl"                 -> flags.SF # flags.OF
    [] opcode = "jle"                -> flags.SF # flags.OF \/ flags.ZF
    [] opcode \in {"jg", "cmovg"}    -> flags.SF = flags.OF /\ ~flags.ZF
    [] opcode = "jge"                -> flags.SF = flags.OF
    [] opcode = "cmovns"             -> ~flags.SF
    [] OTHER                         -> FALSE

(* The word pushfq stores: the four flags, packed. *)
FlagsWord(flags) ==
  LET B(b) == IF b THEN 1 ELSE 0
  IN Trunc(B(flags.CF) + 2 * B(flags.ZF) + 4 * B(flags.SF) + 8 * B(flags.OF))

-----------------------------------------------------------------------------
Jumps == {"jmp", "ja", "jz", "jnz", "jb", "jl", "jle", "jg", "jge"}
Cmovs == {"cmovnz", "cmovns", "cmovg"}
Shifts == {"shr", "sar", "shl", "sal"}

(* The switch of Execute::work() for the opcodes that only compute. Every  *)
(* other opcode leaves the values and the flags as they are.               *)
Results(u, flags) ==
  LET v1 == u.value1
      v2 == u.value2
      v3 == u.value3
      Only(v)      == {Result(v, v3, flags)}
      OneOf(values) == {Result(v, v3, flags) : v \in values}
  IN CASE u.opcode = "mov"  -> Only(v1)
       [] u.opcode = "cqo"  -> Only(IF Negative(v1) THEN WordMod - 1 ELSE 0)
       [] u.opcode = "add"  -> Only(Trunc(v2 + v1))
       [] u.opcode = "sub"  -> Only(Trunc(v2 - v1))
       [] u.opcode = "dec"  -> Only(Trunc(v1 - 1))
       [] u.opcode = "inc"  -> Only(Trunc(v1 + 1))
       [] u.opcode = "neg"  -> {Result(Trunc(-v1), v3, [flags EXCEPT !.CF = v1 # 0])}
       [] u.opcode = "mul"  -> MulResults(v1, v2, v3, flags)
       [] u.opcode = "div"  -> DivResults(v1, v2, flags)
       [] u.opcode = "idiv" -> IdivResults(v1, v2, v3, flags)
       [] u.opcode = "imul" -> ImulResults(u.src, v1, v2, v3, flags)
       [] u.opcode = "and"  -> OneOf(Bitwise2(And, v1, v2))
       [] u.opcode = "or"   -> OneOf(Bitwise2(Or, v1, v2))
       [] u.opcode = "xor"  -> OneOf(Bitwise2(Xor, v1, v2))
       [] u.opcode = "test" -> {Result(v2, v3, TestFlags(v1, v2))}
       [] u.opcode = "cmp"  -> {Result(v2, v3, CmpFlags(v1, v2))}
       [] u.opcode \in Cmovs  -> Only(IF Taken(u.opcode, flags) THEN v1 ELSE v2)
       [] u.opcode \in Shifts -> ShiftResults(u.opcode, v1, v2, v3, flags)
       [] OTHER -> Only(v2)
=============================================================================
