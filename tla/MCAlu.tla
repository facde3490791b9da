------------------------------- MODULE MCAlu -------------------------------
(***************************************************************************)
(* The arithmetic of Execute over all the words of a small machine, in the *)
(* fragments a compiler emits: a comparison before a conditional jump, cqo *)
(* before idiv, mul, and one instruction with an operand in memory.        *)
(***************************************************************************)
EXTENDS Cracker

VARIABLES
  rax, rdx, operand,  \* the operands of the fragment
  rax0,               \* rax before it
  flags,              \* eflags
  done,               \* the opcodes run so far
  accessed            \* the instruction with a memory operand, and its effect

fragment == <<rax, rdx, operand, rax0, flags, done, accessed>>

Operation(op, v1, v2, v3) ==
  [opcode |-> op, src |-> "REG", value1 |-> v1, value2 |-> v2, value3 |-> v3]

AnyFlags == {[CF |-> b, ZF |-> b, SF |-> b, OF |-> b] : b \in BOOLEAN}

Init == /\ rax \in Word /\ rdx \in Word /\ operand \in Word /\ flags \in AnyFlags
        /\ rax0 = rax /\ done = <<>> /\ accessed = {}

Compare ==
  /\ done = <<>>
  /\ \E r \in Results(Operation("cmp", operand, rax, rdx), flags) : flags' = r.flags
  /\ done' = <<"cmp">>
  /\ UNCHANGED <<rax, rdx, operand, rax0, accessed>>

Test ==
  /\ done = <<>>
  /\ \E r \in Results(Operation("test", operand, rax, rdx), flags) : flags' = r.flags
  /\ done' = <<"test">>
  /\ UNCHANGED <<rax, rdx, operand, rax0, accessed>>

SignExtend ==
  /\ done = <<>>
  /\ \E r \in Results(Operation("cqo", rax, 0, 0), flags) : rdx' = r.value2
  /\ done' = <<"cqo">>
  /\ UNCHANGED <<rax, operand, rax0, flags, accessed>>

Divide ==
  /\ done = <<"cqo">>
  /\ \E r \in Results(Operation("idiv", operand, rax, rdx), flags) :
       /\ rax' = r.value2 /\ rdx' = r.value3 /\ flags' = r.flags
  /\ done' = <<"cqo", "idiv">>
  /\ UNCHANGED <<operand, rax0, accessed>>

Multiply ==
  /\ done = <<>>
  /\ \E r \in Results(Operation("mul", operand, rax, rdx), flags) :
       /\ rax' = r.value2 /\ rdx' = r.value3 /\ flags' = r.flags
  /\ done' = <<"mul">>
  /\ UNCHANGED <<operand, rax0, accessed>>

-----------------------------------------------------------------------------
(* Instructions with an operand in memory, run as the micro-ops they are   *)
(* cracked into.  The code cracks some forms in ways that are no such      *)
(* instruction, and they are left out: cmp of a register with a memory     *)
(* target, whose operands are swapped; arithmetic on a memory target; an   *)
(* immediate stored without an index; an address with neither base nor     *)
(* index; a register that is base and index of scale 1.                    *)
Displacements == {<<0, 0>>, <<2, 1>>, <<2, 3>>, <<4, 6>>}
Modes ==
  {InMemory(b, "none", 0, d[1], d[2]) : b \in {"rax", "rip"}, d \in Displacements}
  \cup {InMemory("rax", "rdx", s, d[1], d[2]) : s \in {0, 2, 4}, d \in {<<0, 0>>, <<2, 3>>}}
  \cup {InMemory("none", "rdx", 4, 4, 6), InMemory("rax", "rax", 2, 0, 0),
        InMemory("rax", "rax", 2, 2, 2)}

I(mnemonic, target, source) == [mnemonic |-> mnemonic, o |-> <<target, source, NoOperand>>]

MemoryInstructions ==
  {I(op, Register("rcx"), m) : op \in {"lea", "mov", "sub", "cmp", "test"}, m \in Modes}
  \cup {I("mov", m, Register("rcx")) : m \in Modes}
  \cup {I("mov", m, Imm(3, 2)) : m \in {n \in Modes : n.index # "none"}}
  \cup {I("cmp", m, Imm(2, 2)) : m \in Modes}
  \cup {I(op, m, NoOperand) : op \in {"push", "mul"}, m \in Modes}

NextAddress == 11

Sequential == INSTANCE Isa WITH
  GPR <- {"rax", "rcx", "rdx", "rsp"}, SlotSize <- 1, SysNo <- <<>>, Clock <- {},
  program <- [a \in {NextAddress - 2} |-> [size |-> 2, uops |-> <<>>]], pc <- NextAddress - 2,
  regs <- [rax |-> rax, rdx |-> rdx, rcx |-> operand, rsp |-> 6],
  memory <- [a \in Word |-> Trunc(7 * a + 3)], brk <- 0, output <- <<>>, stopped <- "no"

(* Every micro-op runs as Isa has it. *)
Whole(t) ==
  [src |-> t.src, address |-> NextAddress - 2, opcode |-> t.opcode,
   reg1 |-> t.reg1, value1 |-> 0, reg2 |-> t.reg2, value2 |-> 0,
   reg3 |-> t.reg3, value3 |-> 0, immed |-> t.immed, opsize |-> 2]
OneStep(m, u) == Sequential!Step(m, u, CHOOSE r \in Sequential!Outcomes(m, u) : TRUE)
Run(m, uops) ==
  LET run[k \in 0 .. Len(uops)] ==
        IF k = 0 THEN m ELSE OneStep(run[k - 1], Whole(uops[k]))
  IN run[Len(uops)]

AccessMemory ==
  /\ done = <<>> /\ operand = 5 /\ ~flags.CF
  /\ \E i \in MemoryInstructions :
       accessed' = {[instruction |-> i, after |-> Run(Sequential!Machine, Crack(i.mnemonic, i.o))]}
  /\ done' = <<"access">>
  /\ UNCHANGED <<rax, rdx, operand, rax0, flags>>

Next == Compare \/ Test \/ SignExtend \/ Divide \/ Multiply \/ AccessMemory

Spec == Init /\ [][Next]_fragment

-----------------------------------------------------------------------------
Compared == done = <<"cmp">>
Fits(n)  == -SignBit <= n /\ n < SignBit

(* cmp and the unsigned and equality jumps (execute.cc:649-696) agree with  *)
(* the order of the operands, whatever the flags held before.              *)
UnsignedBranches ==
  Compared => /\ Taken("ja", flags) <=> rax > operand
              /\ Taken("jb", flags) <=> rax < operand
              /\ Taken("jz", flags) <=> rax = operand
              /\ Taken("jnz", flags) <=> rax # operand

(* cmp and the signed jumps and cmovg (execute.cc:649-754) agree with the   *)
(* order of the operands as long as their difference fits a word.          *)
SignedOrder ==
  /\ Taken("jl", flags)  <=> Signed(rax) < Signed(operand)
  /\ Taken("jle", flags) <=> Signed(rax) <= Signed(operand)
  /\ Taken("jg", flags)  <=> Signed(rax) > Signed(operand)
  /\ Taken("jge", flags) <=> Signed(rax) >= Signed(operand)
  /\ Taken("cmovg", flags) <=> Signed(rax) > Signed(operand)
SignedBranches == Compared /\ Fits(Signed(rax) - Signed(operand)) => SignedOrder

(* README:4: "faithfully simulates flag manipulation only for cmp, test and *)
(* neg": a signed jump after cmp is taken as on the processor, also when   *)
(* the subtraction overflows.                                              *)
CmpIsFaithful == Compared => SignedOrder

(* test and the jumps and moves that follow it (execute.cc:632-754) go by   *)
(* the bits the operands share, whatever the flags held before, as long as *)
(* these are not negative: SF is always reset.                             *)
TestBranches ==
  done = <<"test">> =>
    LET disjoint == \A i \in 0 .. WordBits - 1 : Bit(rax, i) * Bit(operand, i) = 0
    IN /\ Taken("jz", flags) <=> disjoint
       /\ Taken("jnz", flags) <=> ~disjoint
       /\ ~(Negative(rax) /\ Negative(operand)) =>
            /\ ~Taken("jl", flags) /\ Taken("jge", flags) /\ Taken("cmovns", flags)
            /\ Taken("jle", flags) <=> disjoint
            /\ Taken("jg", flags) <=> ~disjoint

(* cqo; idiv is the signed division of a word, rounded towards zero, though *)
(* idiv rebuilds the dividend from the halves by or-ing a sign-extended rax*)
(* (execute.cc:445-458).                                                   *)
SignedDivision ==
  done = <<"cqo", "idiv">> =>
    LET n == Signed(rax0)
        d == Signed(operand)
        q == Signed(rax)
        r == Signed(rdx)
    IN \/ ~Fits(Quotient(n, d))
       \/ /\ n = q * d + r
          /\ Magnitude(r) < Magnitude(d)
          /\ r = 0 \/ (r < 0) = (n < 0)

(* mul of two non-negative words whose product fits a word is exact in rax, *)
(* in whichever branch the leading-zero counts choose, and clears the old  *)
(* rdx unless an operand is zero (execute.cc:412-430).                     *)
SmallProducts ==
  done = <<"mul">> /\ ~Negative(rax0) /\ ~Negative(operand) /\ rax0 * operand < WordMod =>
    /\ rax = rax0 * operand
    /\ rax # 0 => rdx = 0

(* What an instruction does to the registers, the flags and the memory, in *)
(* one step: its address is base + index * scale + displacement.           *)
AsSigned(v, bits) == IF bits > 0 /\ v >= 2 ^ (bits - 1) THEN v - 2 ^ bits ELSE v

Outcome(op, v1, v2, f) == CHOOSE r \in Results(Operation(op, v1, v2, 0), f) : TRUE

Reg(m, r) == IF r = "none" THEN 0 ELSE IF r = "rip" THEN NextAddress ELSE m.regs[r]
Ea(m, x) == Trunc(Reg(m, x.base) + Reg(m, x.index) * (IF x.scale = 0 THEN 1 ELSE x.scale)
                  + AsSigned(x.lval, x.offset))
Val(m, x) == CASE x.type = "mem" -> m.memory[Ea(m, x)]
               [] x.type = "imm" -> Trunc(AsSigned(x.lval, x.size))
               [] OTHER -> Reg(m, x.base)
Put(m, x, v) == IF x.type = "mem" THEN [m EXCEPT !.memory[Ea(m, x)] = v]
                ELSE [m EXCEPT !.regs[x.base] = v]

Effect(m, mnemonic, o) ==
  LET sp == Trunc(m.regs["rsp"] - 1)
      r == Outcome(mnemonic, Val(m, o[2]), Val(m, o[1]), m.flags)
      product == Signed(m.regs["rax"]) * Signed(Val(m, o[1]))
  IN CASE mnemonic = "lea" -> Put(m, o[1], Ea(m, o[2]))
       [] mnemonic = "mov" -> Put(m, o[1], Val(m, o[2]))
       [] mnemonic = "push" -> [m EXCEPT !.memory[sp] = Val(m, o[1]), !.regs["rsp"] = sp]
       [] mnemonic = "sub" -> [Put(m, o[1], r.value2) EXCEPT !.flags = r.flags]
       [] mnemonic \in {"cmp", "test"} -> [m EXCEPT !.flags = r.flags]
       [] mnemonic = "mul" -> [m EXCEPT !.regs["rax"] = Trunc(product)]

(* `after` is what an instruction makes of machine m. The high half of mul *)
(* is SmallProducts'.                                                      *)
Does(after, m, i) ==
  LET e == Effect(m, i.mnemonic, i.o)
  IN /\ after.memory = e.memory /\ after.flags = e.flags
     /\ \A g \in {"rax", "rcx", "rsp"} : after.regs[g] = e.regs[g]
     /\ i.mnemonic # "mul" => after.regs["rdx"] = e.regs["rdx"]

(* crack_opcodes and sign_extend (decoder.cc:65-508) turn an instruction    *)
(* with a memory operand into micro-ops that, one after the other, do what *)
(* the instruction does: every addressing mode, with and without a         *)
(* displacement of either sign.                                            *)
CracksMemory == \A x \in accessed : Does(x.after, Sequential!Machine, x.instruction)
=============================================================================
