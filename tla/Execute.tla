------------------------------- MODULE Execute -------------------------------
(***************************************************************************)
(* Execute::work(): takes the micro-op at the head of its queue, replaces  *)
(* operands that are still in flight by the last two results it remembers, *)
(* runs it, and hands it to Writeback.  Loads, pop and ret issue a memory  *)
(* read and wait for the answer in STATE_READ; taken jumps, call and ret   *)
(* raise `clear` and `change_RIP`.                                         *)
(***************************************************************************)
EXTENDS Common

Reads  == {"load", "pop", "ret"}
Pushes == {"push", "pushfq", "call"}
Writes == Pushes \cup {"store"}

(* Every call first writes out_ready = false and change_RIP = false. *)
Quiet(ready) == [nxt EXCEPT !.ew_ready = ready, !.change_RIP = FALSE]

-----------------------------------------------------------------------------
(* Forwarding. *)

(* Micro-ops of the head's instruction: the prefix the patch loop visits.  *)
SameInstruction(q, i) == \A k \in 1 .. i : q[k].address = q[1].address

(* The patch loop of lines 311-321, which edits the waiting queue entries. *)
(* An entry whose reg1 is prev_reg2 has its value2 replaced, not its value1*)
PatchOlder(u) == IF ex.prev_reg2 \in {u.reg1, u.reg2}
                 THEN [u EXCEPT !.value2 = ex.prev_value2] ELSE u
PatchNewer(u) == IF u.reg1 = ex.prev_reg1 THEN [u EXCEPT !.value1 = ex.prev_value1]
                 ELSE IF u.reg2 = ex.prev_reg1 THEN [u EXCEPT !.value2 = ex.prev_value1]
                 ELSE u
Patched(q) == [i \in 1 .. Len(q) |->
                 IF SameInstruction(q, i) THEN PatchNewer(PatchOlder(q[i])) ELSE q[i]]

(* Slip: only the last result is looked at. *)
LatestOfOne(r, v) == IF r = "rsp" /\ ex.stackpointer # 0 THEN ex.stackpointer
                     ELSE IF r = ex.prev_reg1 THEN ex.prev_value1
                     ELSE v

(* The value of register r for the micro-op about to run: stackpointer, then*)
(* the last result, then the one before, then the value Dispatch read.      *)
Latest(r, v) == IF r = "rsp" /\ ex.stackpointer # 0 THEN ex.stackpointer
                ELSE IF r = ex.prev_reg1 THEN ex.prev_value1
                ELSE IF r = ex.prev_reg2 THEN ex.prev_value2
                ELSE v
OrOffset(r, v) == IF r = "loadstore" THEN ex.offsetreg ELSE v

Forwarded(u) == [u EXCEPT !.value1 = Latest(u.reg1, OrOffset(u.reg1, @)),
                          !.value2 = Latest(u.reg2, OrOffset(u.reg2, @)),
                          !.value3 = Latest(u.reg3, @)]

(* prev_reg2 := prev_reg1; prev_reg1 := r, with their values. *)
Remember(e, r, v) == [e EXCEPT !.prev_reg2 = e.prev_reg1, !.prev_value2 = e.prev_value1,
                               !.prev_reg1 = r, !.prev_value1 = v]

-----------------------------------------------------------------------------
(* Calls that do not start a micro-op. *)

(* Slip: the micro-ops behind the jump are left in the queue. *)
ClearStageSignals ==
  /\ sig.clear
  /\ nxt' = [Quiet(sig.de_ready /\ Len(ew_uop_queue) > 1) EXCEPT !.clear = FALSE]
  /\ UNCHANGED <<de_uop_queue, ew_uop_queue, regfile, ex, mem, host>>

ClearStage ==
  /\ sig.clear
  /\ de_uop_queue' = <<>>
  /\ nxt' = [Quiet(sig.de_ready /\ Len(ew_uop_queue) > 1) EXCEPT !.clear = FALSE]
  /\ UNCHANGED <<ew_uop_queue, regfile, ex, mem, host>>

(* The address, and so the tag, of the request Op waits for. *)
ReadAddr(op) == IF op.opcode = "load" THEN op.value1 ELSE op.value3

(* Slip: any response is taken for the one waited for. *)
DataReadyAnyTag == sig.d_ready

DataReady == sig.d_ready /\ sig.d_tagout = ReadAddr(ex.Op)

AwaitData ==
  /\ ~sig.clear /\ ex.state = "READ" /\ ~DataReady
  /\ nxt' = Quiet(FALSE)
  /\ UNCHANGED <<de_uop_queue, ew_uop_queue, regfile, ex, mem, host>>

(* Slip: off by one, out_ready is raised for a micro-op already announced.  *)
BlockedByOne ==
  /\ ~sig.clear /\ ex.state = "NORMAL"
  /\ ~sig.de_ready \/ ew_uop_queue # <<>> \/ de_uop_queue = <<>>
  /\ nxt' = Quiet(sig.de_ready /\ ew_uop_queue # <<>>)
  /\ UNCHANGED <<de_uop_queue, ew_uop_queue, regfile, ex, mem, host>>

Blocked ==
  /\ ~sig.clear /\ ex.state = "NORMAL"
  /\ ~sig.de_ready \/ Len(ew_uop_queue) > 1 \/ de_uop_queue = <<>>
  /\ nxt' = Quiet(sig.de_ready /\ Len(ew_uop_queue) > 1)
  /\ UNCHANGED <<de_uop_queue, ew_uop_queue, regfile, ex, mem, host>>

-----------------------------------------------------------------------------
(* Completion of a read: the answer carries the tag Op waits for. *)

Complete(op) ==
  /\ ew_uop_queue' = Append(ew_uop_queue, op)
  /\ de_uop_queue' = Tail(de_uop_queue)
  /\ UNCHANGED <<regfile, mem, host>>

CompleteRead ==
  LET op     == ex.Op
      popped == Trunc(op.value3 + SlotSize)
      idle   == [ex EXCEPT !.state = "NORMAL", !.Op = NoUop]
  IN
  /\ ~sig.clear /\ ex.state = "READ" /\ DataReady
  /\ \/ /\ op.opcode = "ret"
        /\ Complete([op EXCEPT !.value3 = popped])
        /\ ex' = [idle EXCEPT !.expected_addr = sig.d_data, !.stackpointer = popped]
        /\ nxt' = [nxt EXCEPT !.ew_ready = TRUE, !.clear = TRUE,
                              !.change_RIP = TRUE, !.new_RIP = sig.d_data]
     \/ /\ op.opcode = "pop"
        /\ Complete([op EXCEPT !.value2 = sig.d_data, !.value3 = popped])
        /\ ex' = [Remember(idle, op.reg2, sig.d_data) EXCEPT
                    !.expected_addr = Trunc(op.address + op.opsize),
                    !.stackpointer  = popped]
        /\ nxt' = Quiet(TRUE)
     \/ /\ op.opcode = "load"
        /\ Complete([op EXCEPT !.value2 = sig.d_data])
        /\ ex' = Remember(idle, op.reg2, sig.d_data)
        /\ nxt' = Quiet(TRUE)

-----------------------------------------------------------------------------
(* Starting the micro-op at the head of the queue. *)

CanStart == /\ ~sig.clear /\ ex.state = "NORMAL"
            /\ sig.de_ready /\ Len(ew_uop_queue) <= 1 /\ de_uop_queue # <<>>

Front == Forwarded(Head(de_uop_queue))

(* The next micro-op of the instruction that ran last is always expected. *)
Expected(op) == IF op.address = ex.prev_addr THEN op.address ELSE ex.expected_addr

Unexpected == Front.address # Expected(Front) /\ ~ex.firstrun

Started == [ex EXCEPT !.expected_addr = Expected(Front), !.firstrun = FALSE]

DropUnexpected ==
  /\ CanStart /\ Unexpected
  /\ de_uop_queue' = Tail(Patched(de_uop_queue))
  /\ nxt' = Quiet(FALSE)
  /\ ex' = [ex EXCEPT !.expected_addr = Expected(Front)]
  /\ UNCHANGED <<ew_uop_queue, regfile, mem, host>>

IssueRead ==
  /\ CanStart /\ ~Unexpected
  /\ Front.opcode \in Reads
  /\ nxt' = [Quiet(FALSE) EXCEPT !.d_op = "READ", !.d_addr = ReadAddr(Front)]
  /\ ex' = [Started EXCEPT !.state = "READ", !.Op = Front]
  /\ de_uop_queue' = Patched(de_uop_queue)
  /\ UNCHANGED <<ew_uop_queue, regfile, mem, host>>

(* Op after the switch. *)
Performed(op, r) ==
  [op EXCEPT !.value2 = r.value2,
             !.value3 = IF op.opcode \in Pushes THEN Trunc(@ - SlotSize) ELSE r.value3,
             !.reg2   = IF op.opcode \in {"dec", "inc", "neg"} THEN op.reg1 ELSE @]

WriteData(op) == CASE op.opcode = "call"   -> Trunc(op.address + op.opsize)
                   [] op.opcode = "pushfq" -> FlagsWord(ex.eflags)
                   [] OTHER                -> op.value1

Redirects(op) == op.opcode = "call" \/ (op.opcode \in Jumps /\ Taken(op.opcode, ex.eflags))

(* Slip: the sum is kept wider than an address. *)
TargetUntruncated(op) == IF op.src = "REG" THEN op.value1
                         ELSE op.address + op.opsize + op.value1

(* The decoder gives jumps and calls a register or an immediate source. *)
Target(op) == IF op.src = "REG" THEN op.value1
              ELSE Trunc(op.address + op.opsize + op.value1)

(* The signals a performed micro-op (value3 already moved) leaves written. *)
Driven(op) ==
  LET w == IF op.opcode \in Writes
           THEN [Quiet(TRUE) EXCEPT
                   !.d_op   = "WRITE",
                   !.d_addr = IF op.opcode = "store" THEN op.value2 ELSE op.value3,
                   !.d_dout = WriteData(op)]
           ELSE Quiet(TRUE)
  IN IF Redirects(op)
     THEN [w EXCEPT !.clear = TRUE, !.change_RIP = TRUE, !.new_RIP = Target(op)]
     ELSE w

(* Slip: a jump leaves the address after it expected. *)
AdvancedStraight(e, op) ==
  [e EXCEPT !.expected_addr = Trunc(op.address + op.opsize),
            !.prev_addr = op.address,
            !.rip_changed = FALSE]

(* The tail of work(), lines 774-791, applied to the performed micro-op. *)
Advanced(e, op) ==
  LET moved == Redirects(op) \/ e.rip_changed
  IN [e EXCEPT !.expected_addr = IF Redirects(op) THEN Target(op)
                                 ELSE IF moved THEN @ ELSE Trunc(op.address + op.opsize),
               !.prev_addr     = IF moved THEN @ ELSE op.address,
               !.rip_changed   = FALSE]

Noted(e, op) ==
  LET recorded == op.opcode \notin {"nop", "syscall"} /\ op.reg2 # "none"
      f == IF recorded THEN Remember(e, op.reg2, op.value2) ELSE e
  IN [f EXCEPT
        !.stackpointer = IF recorded /\ op.reg2 = "rsp" THEN op.value2
                         ELSE IF op.opcode \in Pushes THEN op.value3 ELSE @,
        !.offsetreg    = IF op.reg2 = "loadstore" THEN op.value2 ELSE @]

Perform ==
  /\ CanStart /\ ~Unexpected
  /\ Front.opcode \notin Reads \cup {"syscall"}
  /\ \E r \in Results(Front, ex.eflags) :
       LET op == Performed(Front, r)
       IN /\ ew_uop_queue' = Append(ew_uop_queue, op)
          /\ nxt' = Driven(op)
          /\ ex' = [Noted(Advanced(Started, op), op) EXCEPT !.eflags = r.flags]
  /\ de_uop_queue' = Tail(Patched(de_uop_queue))
  /\ UNCHANGED <<regfile, mem, host>>

-----------------------------------------------------------------------------
(* do_syscall() and Core::syscall(). *)

(* The register file overlaid with the last result, and only that one. *)
SysArg(r) == IF r = ex.prev_reg1 THEN ex.prev_value1 ELSE regfile[r]

(* The outcomes of a system call: what it returns and does to the host and *)
(* to memory.  write() may be refused.  writev and an unknown number fail an*)
(* assertion: no outcome.                                                  *)
SyscallEffects(n, a0, a1, a2, memory, brk) ==
  LET Effect(ret) == [ret |-> ret, mem |-> memory, brk |-> brk, print |-> <<>>, halted |-> "no"]
      newBrk == IF brk < a0 THEN a0 ELSE brk
  IN CASE n = SysNo["write"] ->
            {[Effect(a2) EXCEPT !.print = <<[k \in 1 .. a2 |-> memory[Trunc(a1 + k - 1)]]>>],
             Effect(WordMod - 1)}
       [] n = SysNo["brk"]   -> {[Effect(newBrk) EXCEPT !.brk = newBrk]}
       [] n = SysNo["ioctl"] -> {Effect(0)}
       [] n = SysNo["exit"]  -> {[Effect(0) EXCEPT !.halted = "exit"]}
       [] n = SysNo["clock_gettime"] ->
            {[Effect(0) EXCEPT !.mem = [memory EXCEPT ![a1] = t,
                                                      ![Trunc(a1 + SlotSize)] = 0]]
               : t \in Clock}
       [] OTHER -> {}

RequestedSyscall ==
  SyscallEffects(SysArg("rax"), SysArg("rdi"), SysArg("rsi"), SysArg("rdx"), mem, brk_val)

(* The result goes to regfile.rax at once and to the forwarding registers. *)
Syscall ==
  /\ CanStart /\ ~Unexpected
  /\ Front.opcode = "syscall"
  /\ \E s \in RequestedSyscall :
       /\ regfile' = [regfile EXCEPT !["rax"] = s.ret]
       /\ ex' = Advanced(Remember(Started, "rax", s.ret), Front)
       /\ mem' = s.mem
       /\ brk_val' = s.brk
       /\ out' = out \o s.print
       /\ halted' = s.halted
  /\ ew_uop_queue' = Append(ew_uop_queue, Front)
  /\ nxt' = Driven(Front)
  /\ de_uop_queue' = Tail(Patched(de_uop_queue))

(* A division the host refuses and a failed assertion end the simulation. *)
Crash ==
  /\ CanStart /\ ~Unexpected
  /\ IF Front.opcode = "syscall" THEN RequestedSyscall = {}
     ELSE Front.opcode \notin Reads /\ Results(Front, ex.eflags) = {}
  /\ halted' = "abort"
  /\ UNCHANGED <<de_uop_queue, ew_uop_queue, regfile, nxt, ex, mem, brk_val, out>>

-----------------------------------------------------------------------------
ExecuteWork ==
  /\ \/ ClearStage \/ AwaitData \/ Blocked
     \/ CompleteRead
     \/ DropUnexpected \/ IssueRead \/ Perform \/ Crash \/ Syscall
  /\ UNCHANGED <<dd_uop_queue, sig, d_resp>>
=============================================================================
