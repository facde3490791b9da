------------------------------ MODULE MCBackEnd ------------------------------
(***************************************************************************)
(* Model values for the back end: small programs of instructions, as        *)
(* Decoder::crack_opcodes cracks them.                                     *)
(***************************************************************************)
EXTENDS Refinement, Cracker

Instr(op, target, source) == Crack(op, <<target, source, NoOperand>>)
At(b, offset) == InMemory(b, "none", 0, IF offset = 0 THEN 0 ELSE WordBits, offset)

RegOp(op, s, d)  == Instr(op, Register(d), Register(s))
ImmOp(op, i, d)  == Instr(op, Register(d), Imm(i, WordBits))
UnaryOp(op, r)   == Instr(op, Register(r), NoOperand)
Jump(op, i)      == Instr(op, JumpImm(i, WordBits), NoOperand)
Bare(op)         == Instr(op, NoOperand, NoOperand)
LoadTo(op, m, r) == Instr(op, Register(r), m)
StoreFrom(r, m)  == Instr("mov", m, Register(r))

(* Straight-line code: instruction i of a sequence at address i. *)
Assemble(code) == [a \in DOMAIN code |-> [size |-> 1, uops |-> code[a]]]

MCGPR == {"rax", "rcx", "rdx", "rsp", "rdi", "rsi"}
MCRegs == {[rax |-> 3, rcx |-> 5, rdx |-> 2, rsp |-> 12, rdi |-> 6, rsi |-> 8, rip |-> 0]}
MCSysNo == [write |-> 1, brk |-> 2, ioctl |-> 3, exit |-> 4, clock_gettime |-> 7]
MCClock == {11}
MCGarbage == {14}
AnyAddr == Word
Zero == {0}
False == {FALSE}
AnyOrder == {}
(* The order of a kernel that runs the processes of one class of object     *)
(* latest constructed first.                                               *)
KernelOrder == {<<"memory", "writeback">>, <<"writeback", "dispatch">>,
                <<"dispatch", "frontend">>, <<"frontend", "execute">>}

(* All the code of n instructions from a menu that satisfies a condition. *)
Code(n, menu, Allowed(_)) == {c \in [1 .. n -> menu] : Allowed(c)}
Any(c) == TRUE
Assembled(codes) == {Assemble(c) : c \in codes}

RegisterMenu ==
  {RegOp("mov", "rax", "rcx"), RegOp("add", "rcx", "rax"), ImmOp("mov", 7, "rax"),
   UnaryOp("dec", "rcx"), RegOp("cmp", "rax", "rcx"), Jump("jz", 1), Jump("jmp", 1)}
MemoryMenu ==
  {LoadTo("mov", At("rax", 0), "rcx"), StoreFrom("rax", At("rcx", 2)), LoadTo("mov", At("rcx", 2), "rcx"),
   UnaryOp("dec", "rcx"), Jump("jz", 1)}
(* Instructions of four to six micro-ops.  A register compared with memory *)
(* is left out: see the run cmp_memory.                                    *)
IndexedMenu ==
  LET indexed == InMemory("rdx", "rcx", 2, WordBits, 15)
  IN {LoadTo("mov", indexed, "rcx"), LoadTo("lea", InMemory("rcx", "rcx", 2, 0, 0), "rdx"),
      StoreFrom("rax", indexed), Instr("cmp", indexed, Imm(11, WordBits)), Jump("jz", 1)}
StackMenu ==
  {UnaryOp("push", "rcx"), UnaryOp("pop", "rcx"), Jump("call", 1), Bare("ret")}
WideMenu ==
  {UnaryOp("mul", "rcx"), UnaryOp("idiv", "rsi"), Bare("cqo"), RegOp("mov", "rdx", "rcx"),
   UnaryOp("neg", "rdx"), Crack("imul", <<Register("rdx"), Register("rax"), Imm(3, WordBits)>>), Bare("pushfq")}
SyscallMenu ==
  {ImmOp("mov", 1, "rax"), ImmOp("mov", 2, "rax"), ImmOp("mov", 4, "rax"),
   ImmOp("mov", 7, "rax"), ImmOp("mov", 9, "rdi"), UnaryOp("dec", "rdx"), Bare("syscall")}

(* Left out: a pop or ret right behind a push.  With the latencies of the   *)
(* data port open, an old answer for the stack slot could arrive in between*)
Opcode1(c, i) == c[i][1].opcode
NoPushPop(c) == \A i \in DOMAIN c \ {1} : Opcode1(c, i - 1) # "push" \/ Opcode1(c, i) \notin {"pop", "ret"}
(* rdx written right before a double-width operation and followed by more: *)
(* see the run stale_remainder.                                            *)
WritesRdx1(c, i) == c[i][1].opcode = "cqo" \/ "rdx" \in {c[i][1].reg1, c[i][1].reg2}
NoStaleRdx(c) == \A i \in 2 .. Len(c) - 1 : Opcode1(c, i) \in {"mul", "idiv"} => ~WritesRdx1(c, i - 1)

MCPrograms == Assembled(
  Code(3, RegisterMenu, Any) \cup Code(3, MemoryMenu, Any) \cup Code(3, IndexedMenu, Any)
  \cup Code(4, StackMenu, NoPushPop)
  \cup Code(3, StackMenu \cup {UnaryOp("dec", "rsp")}, NoPushPop)
  \cup Code(3, WideMenu, NoStaleRdx) \cup Code(3, SyscallMenu, Any)
  \cup Code(3, {ImmOp("mov", 7, "rax"), UnaryOp("push", "rcx"), Bare("syscall")}, Any))
FewMenu == {RegOp("add", "rcx", "rax"), UnaryOp("dec", "rcx"), RegOp("cmp", "rax", "rcx"), Jump("jz", 1)}
ShortPrograms == Assembled(Code(3, FewMenu, Any) \cup Code(2, MemoryMenu, Any))

(* Programs the host or Memory's assertions stop, and a loop. *)
HarshMenu ==
  {LoadTo("mov", At("rcx", 0), "rax"), StoreFrom("rsi", At("rax", 0)),
   UnaryOp("idiv", "rdx"), UnaryOp("dec", "rdx"), Bare("syscall"), Jump("jmp", 14)}
HarshPrograms == Assembled(Code(2, HarshMenu, Any))
HarshRegs == {[r \in MCGPR \cup {"rip"} |-> IF r \in {"rdx", "rcx"} THEN 1 ELSE 8],
              [r \in MCGPR \cup {"rip"} |-> IF r = "rax" THEN 4 ELSE 15]}
LowAddr == 0 .. 8

(* mov %rax,(%rdi); cmp (%rdi),%rcx; mov %rcx,%rdx; nop; nop *)
CmpMemoryPrograms == Assembled({<<
  StoreFrom("rax", At("rdi", 0)), LoadTo("cmp", At("rdi", 0), "rcx"),
  RegOp("mov", "rcx", "rdx"), Bare("nop"), Bare("nop")>>})
(* cqo; idiv %rsi; mov %rdx,%rcx *)
RemainderPrograms == Assembled({<<Bare("cqo"), UnaryOp("idiv", "rsi"), RegOp("mov", "rdx", "rcx")>>})
(* mov $7,%rax; imul %rcx; mov %rax,%rdi *)
ImulPrograms == Assembled({<<ImmOp("mov", 7, "rax"), UnaryOp("imul", "rcx"), RegOp("mov", "rax", "rdi")>>})
AnyFlag == BOOLEAN
AnyStack == {0, 9}
=============================================================================
