--------------------------------- MODULE Isa ---------------------------------
(***************************************************************************)
(* What the core promises: the program's instructions, as the decoder has  *)
(* cracked them into micro-ops, run one after the other, each seeing the   *)
(* registers, flags and memory the previous one left.  There are no stages,*)
(* queues or signals here.                                                 *)
(*                                                                         *)
(* The arithmetic is Alu's: this module specifies in which state every     *)
(* micro-op runs and what becomes of its results, not what x86 defines the *)
(* result to be.                                                           *)
(***************************************************************************)
EXTENDS Alu, Sequences

CONSTANTS GPR, SlotSize, SysNo, Clock

VARIABLES
  program,  \* address |-> [size, uops]
  pc,
  regs,     \* GPR -> Word
  flags,
  memory,
  brk,
  output,
  stopped

isa == <<program, pc, regs, flags, memory, brk, output, stopped>>

(* The machine state an instruction's micro-ops are folded over; the       *)
(* scratch registers live for one instruction only.                        *)
Temporaries == {"scratchls", "loadstore"}
Machine == [regs |-> [r \in GPR \cup Temporaries |-> IF r \in GPR THEN regs[r] ELSE 0],
            flags |-> flags, memory |-> memory]

Immediate(u) == u.src \in {"IMMED", "IMUL_2I", "LOADMUL"}
Widening(u)  == u.opcode \in {"mul", "div", "idiv"} \/ u.src = "IMUL_1"

(* The registers an opcode names or implies: source, destination, third. *)
Source(u) == IF u.opcode = "cqo" THEN "rax" ELSE u.reg1
Dest(u)   == IF Widening(u) THEN "rax"
             ELSE IF u.opcode = "cqo" THEN "rdx"
             ELSE IF u.opcode \in {"dec", "inc", "neg"} THEN u.reg1
             ELSE u.reg2
Third(u)  == IF Widening(u) THEN "rdx" ELSE u.reg3

ValueOf(m, u, r) == IF r = "rip" THEN Trunc(u.address + u.opsize)
                    ELSE IF r \in DOMAIN m.regs THEN m.regs[r] ELSE 0

Operands(m, u) ==
  [u EXCEPT !.value1 = IF Immediate(u) THEN u.immed ELSE ValueOf(m, u, Source(u)),
            !.value2 = ValueOf(m, u, Dest(u)),
            !.value3 = IF u.src = "IMUL_3" /\ u.reg3 = "none" THEN u.immed
                       ELSE ValueOf(m, u, Third(u))]

WithReg(m, r, v) == IF r \in DOMAIN m.regs THEN [m EXCEPT !.regs[r] = v] ELSE m
WithMem(m, a, v) == [m EXCEPT !.memory[a] = v]

(* One micro-op with result r, without its effect on pc and on the host. *)
Outcomes(m, template) == Results(Operands(m, template), m.flags)

Step(m, template, r) ==
  LET u  == Operands(m, template)
      sp == m.regs["rsp"]
      Pushed(v) == WithMem(WithReg(m, "rsp", Trunc(sp - SlotSize)), Trunc(sp - SlotSize), v)
      Popped(reg) == WithReg(WithReg(m, reg, m.memory[sp]), "rsp", Trunc(sp + SlotSize))
  IN CASE u.opcode = "load"   -> WithReg(m, u.reg2, m.memory[u.value1])
       [] u.opcode = "store"  -> WithMem(m, u.value2, u.value1)
       [] u.opcode = "push"   -> Pushed(u.value1)
       [] u.opcode = "pushfq" -> Pushed(FlagsWord(m.flags))
       [] u.opcode = "call"   -> Pushed(Trunc(u.address + u.opsize))
       [] u.opcode = "pop"    -> Popped(u.reg2)
       [] u.opcode = "ret"    -> Popped("none")
       [] u.opcode \in {"syscall", "nop"} -> m
       [] Widening(u) ->
            [WithReg(WithReg(m, "rax", r.value2), "rdx", r.value3) EXCEPT !.flags = r.flags]
       [] OTHER -> [WithReg(m, Dest(u), r.value2) EXCEPT !.flags = r.flags]

(* The machine before the last micro-op of a sequence: those before it      *)
(* compute an address or move a temporary and have one outcome.             *)
BeforeLast(m, uops) ==
  LET TheOutcome(n, u) == CHOOSE r \in Outcomes(n, u) : TRUE
      run[i \in 0 .. Len(uops) - 1] ==
        IF i = 0 THEN m ELSE Step(run[i - 1], uops[i], TheOutcome(run[i - 1], uops[i]))
  IN run[Len(uops) - 1]

(* Where control goes after the last micro-op u. *)
NextPc(m, u) ==
  LET v == Operands(m, u)
      next == Trunc(u.address + u.opsize)
  IN IF v.opcode = "ret" THEN m.memory[m.regs["rsp"]]
     ELSE IF v.opcode = "call" \/ (v.opcode \in Jumps /\ Taken(v.opcode, m.flags))
     THEN IF v.src = "REG" THEN v.value1 ELSE Trunc(next + v.value1)
     ELSE next

(* The micro-ops of the instruction at an address. *)
Instruction(a) ==
  [i \in 1 .. Len(program[a].uops) |->
     LET t == program[a].uops[i]
     IN [src |-> t.src, address |-> a, opcode |-> t.opcode,
         reg1 |-> t.reg1, value1 |-> 0, reg2 |-> t.reg2, value2 |-> 0,
         reg3 |-> t.reg3, value3 |-> 0, immed |-> t.immed, opsize |-> program[a].size]]

IsSyscall(a) == program[a].uops[1].opcode = "syscall"

(* An instruction that is no system call. *)
Execute ==
  /\ pc \in DOMAIN program /\ ~IsSyscall(pc)
  /\ LET uops   == Instruction(pc)
         before == BeforeLast(Machine, uops)
         last   == uops[Len(uops)]
     IN \E r \in Outcomes(before, last) :
          LET after == Step(before, last, r)
          IN /\ pc' = NextPc(before, last)
             /\ regs' = [g \in GPR |-> after.regs[g]]
             /\ flags' = after.flags
             /\ memory' = after.memory
  /\ UNCHANGED <<program, brk, output, stopped>>

(* A system call takes its number from rax and returns its result there;   *)
(* write prints a2 words from a1 or is refused.                            *)
Syscall ==
  LET a0 == regs["rdi"]
      a1 == regs["rsi"]
      a2 == regs["rdx"]
      Return(v) == regs' = [regs EXCEPT !["rax"] = v]
      Calls(name) == regs["rax"] = SysNo[name]
  IN
  /\ pc \in DOMAIN program /\ IsSyscall(pc)
  /\ pc' = Trunc(pc + program[pc].size)
  /\ \/ /\ Calls("write")
        /\ Return(a2)
        /\ output' = Append(output, [k \in 1 .. a2 |-> memory[Trunc(a1 + k - 1)]])
        /\ UNCHANGED <<memory, brk, stopped>>
     \/ /\ Calls("write")
        /\ Return(WordMod - 1)
        /\ UNCHANGED <<memory, brk, output, stopped>>
     \/ /\ Calls("brk")
        /\ brk' = IF brk < a0 THEN a0 ELSE brk
        /\ Return(brk')
        /\ UNCHANGED <<memory, output, stopped>>
     \/ /\ Calls("ioctl") /\ Return(0)
        /\ UNCHANGED <<memory, brk, output, stopped>>
     \/ /\ Calls("exit") /\ Return(0)
        /\ stopped' = "exit"
        /\ UNCHANGED <<memory, brk, output>>
     \/ /\ Calls("clock_gettime") /\ Return(0)
        /\ \E t \in Clock :
             memory' = [memory EXCEPT ![a1] = t, ![Trunc(a1 + SlotSize)] = 0]
        /\ UNCHANGED <<brk, output, stopped>>
  /\ UNCHANGED <<program, flags>>

Init ==
  /\ pc \in DOMAIN program
  /\ stopped = "no"
  /\ output = <<>>

(* A division the host refuses and an unknown system call end the run. *)
Fault ==
  /\ pc \in DOMAIN program
  /\ IF IsSyscall(pc)
     THEN \A name \in {"write", "brk", "ioctl", "exit", "clock_gettime"} :
            regs["rax"] # SysNo[name]
     ELSE LET uops == Instruction(pc)
          IN Outcomes(BeforeLast(Machine, uops), uops[Len(uops)]) = {}
  /\ stopped' = "abort"
  /\ UNCHANGED <<program, pc, regs, flags, memory, brk, output>>

Next == stopped = "no" /\ (Execute \/ Syscall \/ Fault)

Spec == Init /\ [][Next]_isa
=============================================================================
