------------------------------- MODULE Common -------------------------------
(***************************************************************************)
(* What the five stages of the core share: the micro-op record, the global *)
(* register file and micro-op queues of common.cc, the signals that wire   *)
(* the stages together, and the private members of Execute.                *)
(*                                                                         *)
(* A value written to an sc_signal is read back one delta later, that is in*)
(* the next clock cycle: `sig` holds what every stage reads in this cycle  *)
(* and `nxt` what has been written for the next one.  The global variables *)
(* have no such delay: a stage sees what another stage did to a queue or to*)
(* the register file in the same cycle.                                    *)
(*                                                                         *)
(* Abstractions. An address is a word; a memory cell holds one 8-byte word,*)
(* so accesses that overlap only partly are not modelled. SlotSize is the 8*)
(* of push and pop. The request tag of the data port is left out: Execute  *)
(* always writes the same value to d_tagin and d_addr.                     *)
(***************************************************************************)
EXTENDS Alu, Sequences

CONSTANTS
  GPR,       \* general purpose registers of regfile
  SlotSize,  \* bytes of a stack slot
  Garbage,   \* words an uninitialised long long may hold
  ValidAddr, \* addresses Memory's assertions accept
  SysNo,     \* system call numbers: name |-> word
  Clock      \* words sc_time_stamp() may store for clock_gettime

ASSUME GPRAssumption     == {"rax", "rdx", "rsp", "rdi", "rsi"} \subseteq GPR
ASSUME PseudoAssumption  == GPR \cap {"none", "rip", "scratch", "scratchls", "loadstore"} = {}
ASSUME SlotAssumption    == SlotSize \in Nat /\ SlotSize >= 1
ASSUME GarbageAssumption == Garbage \subseteq Word /\ Garbage # {}
ASSUME ValidAddrAssumption == ValidAddr \subseteq Word
ASSUME ClockAssumption   == Clock \subseteq Word
ASSUME SysNoAssumption   ==
  SysNo \in [{"write", "brk", "ioctl", "exit", "clock_gettime"} -> Word]

(* Register numbers of a micro-op: UD_NONE, the machine registers, rip, and *)
(* scratchreg, scratchregls and load_store_reg, which exist only in flight. *)
Reg == GPR \cup {"none", "rip", "scratch", "scratchls", "loadstore"}

SrcType == {"NO_SRC", "REG", "IMMED", "IMUL_1", "IMUL_2R", "IMUL_2I", "IMUL_3", "LOADMUL"}

Opcode == Jumps \cup Cmovs \cup Shifts \cup
  {"mov", "cqo", "add", "sub", "dec", "inc", "neg", "mul", "div", "idiv", "imul",
   "and", "or", "xor", "test", "cmp", "nop", "syscall", "call", "ret", "pop",
   "push", "pushfq", "load", "store", "other"}

Uop == [src : SrcType, address : Word, opcode : Opcode,
        reg1 : Reg, value1 : Word, reg2 : Reg, value2 : Word,
        reg3 : Reg, value3 : Word, immed : Word, opsize : Nat]

(* Operations that retire a second result: rax from value2, rdx from value3. *)
WritesRdx(u) == u.opcode \in {"mul", "div", "idiv"} \/ u.src = "IMUL_1"

-----------------------------------------------------------------------------
VARIABLES
  \* globals of common.cc
  regfile,       \* ARF regfile
  dd_uop_queue,  \* Decoder  -> Dispatch
  de_uop_queue,  \* Dispatch -> Execute
  ew_uop_queue,  \* Execute  -> Writeback
  \* signals
  sig,           \* current values
  nxt,           \* values written in this cycle
  \* Execute's members, with eflags and offsetreg_value
  ex,
  \* the simulated memory, and the addresses with a response outstanding
  mem,
  d_resp,
  \* the host: brk_val, what write() printed, and whether the run ended
  brk_val,
  out,
  halted

queues == <<dd_uop_queue, de_uop_queue, ew_uop_queue>>
host   == <<brk_val, out, halted>>
common == <<regfile, queues, sig, nxt, ex, mem, d_resp, host>>

RegFile == [GPR \cup {"rip"} -> Word]

Signals ==
  [dd_ready   : BOOLEAN,  \* Decoder.out_ready,  Dispatch.in_ready
   de_ready   : BOOLEAN,  \* Dispatch.out_ready, Execute.in_ready
   ew_ready   : BOOLEAN,  \* Execute.out_ready,  Writeback.in_ready
   clear      : BOOLEAN,  \* Execute.clear_out and every stage's clear
   change_RIP : BOOLEAN,
   new_RIP    : Word,
   d_op       : {"NONE", "READ", "WRITE"},
   d_addr     : Word,     \* and d_tagin
   d_dout     : Word,
   d_ready    : BOOLEAN,
   d_tagout   : Word,
   d_data     : Word]

ExecuteMembers ==
  [state         : {"NORMAL", "READ"},
   Op            : Uop,   \* kept between calls only in STATE_READ
   prev_reg1     : Reg, prev_value1 : Word,
   prev_reg2     : Reg, prev_value2 : Word,
   expected_addr : Word,
   prev_addr     : Word,
   rip_changed   : BOOLEAN,
   firstrun      : BOOLEAN,
   stackpointer  : Word,
   offsetreg     : Word,
   eflags        : Flags]

CommonTypeOK ==
  /\ regfile \in RegFile
  /\ dd_uop_queue \in Seq(Uop)
  /\ de_uop_queue \in Seq(Uop)
  /\ ew_uop_queue \in Seq(Uop)
  /\ sig \in Signals
  /\ nxt \in Signals
  /\ ex \in ExecuteMembers
  /\ mem \in [Word -> Word]
  /\ d_resp \subseteq Word
  /\ brk_val \in Word
  /\ out \in Seq(Seq(Word))
  /\ halted \in {"no", "exit", "abort"}

(* The micro-op that stands for Op when Execute does not wait for data. *)
NoUop == [src |-> "NO_SRC", address |-> 0, opcode |-> "nop",
          reg1 |-> "none", value1 |-> 0, reg2 |-> "none", value2 |-> 0,
          reg3 |-> "none", value3 |-> 0, immed |-> 0, opsize |-> 0]

(* A signal that has never been written reads as zero. *)
IdleSignals ==
  [dd_ready |-> FALSE, de_ready |-> FALSE, ew_ready |-> FALSE,
   clear |-> FALSE, change_RIP |-> FALSE, new_RIP |-> 0,
   d_op |-> "NONE", d_addr |-> 0, d_dout |-> 0,
   d_ready |-> FALSE, d_tagout |-> 0, d_data |-> 0]
=============================================================================
