----------------------------- MODULE Refinement -----------------------------
(***************************************************************************)
(* The back end against the sequential machine of Isa: the state a program *)
(* sees is spread over the register file, the micro-ops on their way to    *)
(* Writeback, Execute's stackpointer and a write still on the data port.   *)
(***************************************************************************)
EXTENDS BackEnd

(* The register file once everything Execute has completed has retired.    *)
(* push and pushfq never reach regfile.rsp: stackpointer has the last word.*)
ArchRegs ==
  LET run[i \in 0 .. Len(ew_uop_queue)] ==
        IF i = 0 THEN regfile ELSE Retired(run[i - 1], ew_uop_queue[i])
      rf == run[Len(ew_uop_queue)]
  IN [r \in GPR |-> IF r = "rsp" /\ ex.stackpointer # 0 THEN ex.stackpointer ELSE rf[r]]

(* A write is in force once Execute has driven it. *)
WithWrite(m, s) == IF s.d_op = "WRITE" THEN [m EXCEPT ![s.d_addr] = s.d_dout] ELSE m
ArchMem == WithWrite(WithWrite(mem, sig), nxt)

Abstract == INSTANCE Isa WITH
  pc <- arch_pc, regs <- ArchRegs, flags <- ex.eflags, memory <- ArchMem,
  brk <- brk_val, output <- out, stopped <- halted

(* Whatever the pace of fetch and memory, the program runs as if its        *)
(* instructions were executed one at a time: forwarding, flushing on taken *)
(* jumps and the wait for loads are invisible (common.h, dispatch.cc,      *)
(* execute.cc, writeback.cc together).                                     *)
RunsSequentially == Abstract!Spec
=============================================================================
