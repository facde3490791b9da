---------------------------- MODULE BackEndProofs ----------------------------
(***************************************************************************)
(* The back end for every program, register set, word size, order of the   *)
(* processes and initial garbage: types, the handshake between Execute and *)
(* Writeback, and the flush of a taken jump.                               *)
(***************************************************************************)
EXTENDS BackEnd, AluProofs

-----------------------------------------------------------------------------
(* The operators on micro-ops yield micro-ops. *)

(* A function on 1 .. n is a sequence. *)
LEMMA FunctionIsSeq == ASSUME NEW S, NEW n \in Nat, NEW f \in [1 .. n -> S] PROVE f \in Seq(S)
  OBVIOUS

(* The address after a micro-op is an address. *)
LEMMA NextAddress == ASSUME NEW u \in Uop PROVE Trunc(u.address + u.opsize) \in Word
<1>1. u.address \in Int /\ u.opsize \in Int
  BY WordConstants DEF Uop, Word
<1> QED BY <1>1, TruncWord

(* Writeback leaves a register file. *)
LEMMA RetiredTyped ==
  ASSUME NEW rf \in RegFile, NEW u \in Uop
  PROVE  Retired(rf, u) \in RegFile
<1>1. u.value2 \in Word /\ u.value3 \in Word
  BY DEF Uop
<1> QED BY <1>1, NextAddress DEF Retired, RegFile

(* Dispatch reads words. *)
LEMMA ReadTyped ==
  ASSUME regfile \in RegFile, NEW u \in Uop, NEW r, NEW old \in Word
  PROVE  Read(u, r, old) \in Word
  BY NextAddress DEF Read, RegFile

(* What Dispatch moves is a micro-op. *)
LEMMA DispatchedTyped ==
  ASSUME regfile \in RegFile, NEW u \in Uop
  PROVE  Dispatched(u) \in Uop
<1> DEFINE v == ReadOperands(u)
<1>1. v \in Uop
  <2>1. /\ u.value1 \in Word /\ u.value2 \in Word /\ u.value3 \in Word /\ u.immed \in Word
        /\ "scratch" \in Reg
    BY DEF Uop, Reg
  <2>2. /\ Read(u, u.reg1, u.value1) \in Word
        /\ Read(u, u.reg2, u.value2) \in Word
        /\ Read(u, u.reg3, u.value3) \in Word
    BY <2>1, ReadTyped
  <2> QED BY <2>1, <2>2 DEF ReadOperands, Uop
<1>2. /\ "rax" \in Reg /\ "rdx" \in Reg /\ "rsp" \in Reg /\ "none" \in Reg /\ "scratch" \in Reg
      /\ regfile["rax"] \in Word /\ regfile["rdx"] \in Word /\ regfile["rsp"] \in Word
      /\ 0 \in Word
  BY GPRAssumption, WordConstants DEF Reg, RegFile
<1> HIDE DEF v
<1>3. ImpliedOperands(v) \in Uop
  BY <1>1, <1>2 DEF ImpliedOperands, Uop
<1> QED BY <1>3 DEF Dispatched, v

(* The two edits of the patch loop keep a micro-op. *)
LEMMA PatchTyped ==
  ASSUME ex \in ExecuteMembers, NEW u \in Uop
  PROVE  PatchNewer(PatchOlder(u)) \in Uop
<1>1. ex.prev_value1 \in Word /\ ex.prev_value2 \in Word
  BY DEF ExecuteMembers
<1>2. PatchOlder(u) \in Uop
  BY <1>1 DEF PatchOlder, Uop
<1> QED BY <1>1, <1>2 DEF PatchNewer, Uop

(* The patch loop keeps the queue and its length. *)
LEMMA PatchedTyped ==
  ASSUME ex \in ExecuteMembers, NEW q \in Seq(Uop)
  PROVE  Patched(q) \in Seq(Uop) /\ Len(Patched(q)) = Len(q)
<1>1. \A i \in 1 .. Len(q) : q[i] \in Uop
  OBVIOUS
<1>2. \A i \in 1 .. Len(q) :
        (IF SameInstruction(q, i) THEN PatchNewer(PatchOlder(q[i])) ELSE q[i]) \in Uop
  BY <1>1, PatchTyped
<1> QED BY <1>2 DEF Patched

(* Forwarding puts words into a micro-op. *)
LEMMA ForwardedTyped ==
  ASSUME ex \in ExecuteMembers, NEW u \in Uop
  PROVE  Forwarded(u) \in Uop
<1>1. /\ ex.prev_value1 \in Word /\ ex.prev_value2 \in Word
      /\ ex.stackpointer \in Word /\ ex.offsetreg \in Word
  BY DEF ExecuteMembers
<1>2. \A r, v : v \in Word => Latest(r, v) \in Word /\ OrOffset(r, v) \in Word
  BY <1>1 DEF Latest, OrOffset
<1> QED BY <1>2 DEF Forwarded, Uop
(* The forwarding registers hold a register and a word. *)
LEMMA RememberTyped ==
  ASSUME NEW e \in ExecuteMembers, NEW r \in Reg, NEW v \in Word
  PROVE  Remember(e, r, v) \in ExecuteMembers
  BY DEF Remember, ExecuteMembers

(* do_jump() goes to an address. *)
LEMMA TargetTyped == ASSUME NEW op \in Uop PROVE Target(op) \in Word
<1>1. op.address \in Int /\ op.opsize \in Int /\ op.value1 \in Int /\ op.value1 \in Word
  BY WordConstants DEF Uop, Word
<1> QED BY <1>1, TruncWord DEF Target

(* A performed micro-op is one. *)
LEMMA PerformedTyped ==
  ASSUME NEW op \in Uop, NEW r \in ResultType
  PROVE  Performed(op, r) \in Uop
<1>1. r.value2 \in Word /\ r.value3 \in Word
  BY DEF ResultType
<1>2. op.value3 \in Int /\ SlotSize \in Int
  BY SlotAssumption DEF Uop, Word
<1>3. Trunc(op.value3 - SlotSize) \in Word
  BY <1>2, TruncWord
<1> QED BY <1>1, <1>3 DEF Performed, Uop

(* The signals of a performed micro-op have their types. *)
LEMMA DrivenTyped ==
  ASSUME nxt \in Signals, ex \in ExecuteMembers, NEW op \in Uop
  PROVE  Driven(op) \in Signals
<1>1. op.value1 \in Word /\ op.value2 \in Word /\ op.value3 \in Word
  BY DEF Uop
<1>2. ex.eflags \in Flags
  BY DEF ExecuteMembers
<1>3. WriteData(op) \in Word
  BY <1>1, <1>2, NextAddress, FlagsWordTyped DEF WriteData
<1>4. Target(op) \in Word
  BY TargetTyped
<1> QED BY <1>1, <1>3, <1>4 DEF Driven, Quiet, Signals

(* The address bookkeeping keeps Execute's members typed. *)
LEMMA AdvancedTyped ==
  ASSUME NEW e \in ExecuteMembers, NEW op \in Uop
  PROVE  Advanced(e, op) \in ExecuteMembers
<1>1. op.address \in Word /\ Target(op) \in Word
  BY TargetTyped DEF Uop
<1> QED BY <1>1, NextAddress DEF Advanced, ExecuteMembers

(* So does the bookkeeping of results. *)
LEMMA NotedTyped ==
  ASSUME NEW e \in ExecuteMembers, NEW op \in Uop
  PROVE  Noted(e, op) \in ExecuteMembers
<1>1. op.reg2 \in Reg /\ op.value2 \in Word /\ op.value3 \in Word
  BY DEF Uop
<1>2. Remember(e, op.reg2, op.value2) \in ExecuteMembers
  BY <1>1, RememberTyped
<1> DEFINE f == IF op.opcode \notin {"nop", "syscall"} /\ op.reg2 # "none"
                THEN Remember(e, op.reg2, op.value2) ELSE e
<1>3. f \in ExecuteMembers
  BY <1>2
<1> HIDE DEF f
<1>4. \A v, w \in Word : [f EXCEPT !.stackpointer = v, !.offsetreg = w] \in ExecuteMembers
  BY <1>3 DEF ExecuteMembers
<1>5. f.stackpointer \in Word /\ f.offsetreg \in Word
  BY <1>3 DEF ExecuteMembers
<1>6. \E v, w \in Word : Noted(e, op) = [f EXCEPT !.stackpointer = v, !.offsetreg = w]
  BY <1>1, <1>5 DEF Noted, f
<1> QED BY <1>4, <1>6

(* What a system call returns and leaves behind. *)
EffectType == [ret : Word, mem : [Word -> Word], brk : Word, print : Seq(Seq(Word)),
               halted : {"no", "exit", "abort"}]

(* Core::syscall returns a word and leaves a memory. *)
LEMMA SyscallTyped ==
  ASSUME NEW n, NEW a0 \in Word, NEW a1 \in Word, NEW a2 \in Word,
         NEW memory \in [Word -> Word], NEW b \in Word
  PROVE  SyscallEffects(n, a0, a1, a2, memory, b) \subseteq EffectType
<1>1. a2 \in Nat /\ a1 \in Int /\ SlotSize \in Int
  BY SlotAssumption DEF Word
<1>2. [k \in 1 .. a2 |-> memory[Trunc(a1 + k - 1)]] \in Seq(Word)
  <2>1. ASSUME NEW k \in 1 .. a2 PROVE memory[Trunc(a1 + k - 1)] \in Word
    <3>1. a1 + k - 1 \in Int
      BY <1>1
    <3> QED BY <3>1, TruncWord
  <2>2. [k \in 1 .. a2 |-> memory[Trunc(a1 + k - 1)]] \in [1 .. a2 -> Word]
    BY <2>1
  <2> QED BY <1>1, <2>2, FunctionIsSeq
<1>3. <<[k \in 1 .. a2 |-> memory[Trunc(a1 + k - 1)]]>> \in Seq(Seq(Word))
  BY <1>2
<1>4. \A t \in Clock :
        [memory EXCEPT ![a1] = t, ![Trunc(a1 + SlotSize)] = 0] \in [Word -> Word]
  BY ClockAssumption, WordConstants
<1>5. 0 \in Word /\ WordMod - 1 \in Word /\ (IF b < a0 THEN a0 ELSE b) \in Word
  BY WordConstants
<1>6. \A p \in Seq(Seq(Word)), v, w \in Word, m \in [Word -> Word], h \in {"no", "exit"} :
        [ret |-> v, mem |-> m, brk |-> w, print |-> p, halted |-> h] \in EffectType
  BY DEF EffectType
<1>7. <<>> \in Seq(Seq(Word))
  OBVIOUS
<1> DEFINE printed == [k \in 1 .. a2 |-> memory[Trunc(a1 + k - 1)]]
           newBrk == IF b < a0 THEN a0 ELSE b
           Effect(v, m, w, p, h) == [ret |-> v, mem |-> m, brk |-> w, print |-> p, halted |-> h]
<1>8. SUFFICES ASSUME NEW s \in SyscallEffects(n, a0, a1, a2, memory, b) PROVE s \in EffectType
  OBVIOUS
<1>9. \/ s = Effect(a2, memory, b, <<printed>>, "no")
      \/ s = Effect(WordMod - 1, memory, b, <<>>, "no")
      \/ s = Effect(newBrk, memory, newBrk, <<>>, "no")
      \/ s = Effect(0, memory, b, <<>>, "no")
      \/ s = Effect(0, memory, b, <<>>, "exit")
      \/ \E t \in Clock :
           s = Effect(0, [memory EXCEPT ![a1] = t, ![Trunc(a1 + SlotSize)] = 0], b, <<>>, "no")
  <2> HIDE DEF printed, newBrk
  <2> QED BY DEF SyscallEffects, printed, newBrk
<1> HIDE DEF printed, newBrk
<1> QED BY <1>3, <1>4, <1>5, <1>6, <1>7, <1>9, SMTT(30) DEF printed, newBrk
-----------------------------------------------------------------------------
(* Execute keeps its members, the queues and the signals typed, one lemma   *)
(* for each way a call may go.                                             *)

(* The signals of a call that does nothing. *)
LEMMA QuietTyped == ASSUME nxt \in Signals, NEW b \in BOOLEAN PROVE Quiet(b) \in Signals
  BY DEF Quiet, Signals

(* The micro-op about to run is one. *)
LEMMA FrontTyped ==
  ASSUME CommonTypeOK, de_uop_queue # <<>>
  PROVE  /\ Front \in Uop
         /\ Started \in ExecuteMembers
         /\ Expected(Front) \in Word
         /\ Patched(de_uop_queue) \in Seq(Uop)
         /\ Tail(Patched(de_uop_queue)) \in Seq(Uop)
<1>1. Head(de_uop_queue) \in Uop /\ ex \in ExecuteMembers /\ de_uop_queue \in Seq(Uop)
  BY DEF CommonTypeOK
<1>2. Front \in Uop
  BY <1>1, ForwardedTyped DEF Front
<1>3. Expected(Front) \in Word
  BY <1>1, <1>2 DEF Expected, Uop, ExecuteMembers
<1>4. Started \in ExecuteMembers
  BY <1>1, <1>3 DEF Started, ExecuteMembers
<1>5. Patched(de_uop_queue) \in Seq(Uop) /\ Len(Patched(de_uop_queue)) = Len(de_uop_queue)
  BY <1>1, PatchedTyped
<1>6. Tail(Patched(de_uop_queue)) \in Seq(Uop)
  BY <1>1, <1>5
<1> QED BY <1>2, <1>3, <1>4, <1>5, <1>6

(* And so is what each of its results makes of it. *)
LEMMA FrontPerformed ==
  ASSUME CommonTypeOK, de_uop_queue # <<>>, NEW r \in Results(Front, ex.eflags)
  PROVE  r \in ResultType /\ Performed(Front, r) \in Uop
<1>1. Front \in Uop /\ ex.eflags \in Flags
  BY FrontTyped DEF CommonTypeOK, ExecuteMembers
<1>2. Front.value1 \in Word /\ Front.value2 \in Word /\ Front.value3 \in Word
  BY <1>1 DEF Uop
<1>3. r \in ResultType
  BY <1>1, <1>2, ResultsTyped
<1> QED BY <1>1, <1>3, PerformedTyped

(* The system call Execute asks for has typed outcomes. *)
LEMMA RequestedTyped == ASSUME CommonTypeOK PROVE RequestedSyscall \subseteq EffectType
<1>1. \A r \in GPR : SysArg(r) \in Word
  BY DEF SysArg, CommonTypeOK, ExecuteMembers, RegFile
<1>2. /\ SysArg("rdi") \in Word /\ SysArg("rsi") \in Word /\ SysArg("rdx") \in Word
      /\ mem \in [Word -> Word] /\ brk_val \in Word
  BY <1>1, GPRAssumption DEF CommonTypeOK
<1> QED BY <1>2, SyscallTyped DEF RequestedSyscall

(* Calls that start nothing keep the types. *)
LEMMA WaitingTyped ==
  ASSUME CommonTypeOK, UNCHANGED <<dd_uop_queue, sig, d_resp>>,
         ClearStage \/ AwaitData \/ Blocked
  PROVE  CommonTypeOK'
<1>1. \A b \in BOOLEAN : Quiet(b) \in Signals /\ [Quiet(b) EXCEPT !.clear = FALSE] \in Signals
  <2>1. ASSUME NEW b \in BOOLEAN
        PROVE Quiet(b) \in Signals /\ [Quiet(b) EXCEPT !.clear = FALSE] \in Signals
    <3>1. Quiet(b) \in Signals
      BY QuietTyped DEF CommonTypeOK
    <3> QED BY <3>1 DEF Signals
  <2> QED BY <2>1
<1> DEFINE full == sig.de_ready /\ Len(ew_uop_queue) > 1
<1>2. full \in BOOLEAN
  BY DEF CommonTypeOK, Signals
<1>3. nxt' \in Signals
  <2>1. \/ nxt' = [Quiet(full) EXCEPT !.clear = FALSE]
        \/ nxt' = Quiet(FALSE)
        \/ nxt' = Quiet(full)
    BY DEF ClearStage, AwaitData, Blocked
  <2> HIDE DEF full
  <2> QED BY <1>1, <1>2, <2>1
<1>4. (de_uop_queue' = <<>> \/ de_uop_queue' = de_uop_queue)
      /\ UNCHANGED <<ew_uop_queue, regfile, ex, mem, brk_val, out, halted>>
  BY DEF ClearStage, AwaitData, Blocked, host
<1>5. de_uop_queue' \in Seq(Uop)
  <2>1. <<>> \in Seq(Uop) /\ de_uop_queue \in Seq(Uop)
    BY DEF CommonTypeOK
  <2> QED BY <1>4, <2>1
<1> QED BY <1>3, <1>4, <1>5 DEF CommonTypeOK

(* The end of a read keeps the types; the popped queue was not empty. *)
LEMMA CompleteReadTyped ==
  ASSUME CommonTypeOK, UNCHANGED <<dd_uop_queue, sig, d_resp>>, CompleteRead,
         de_uop_queue # <<>>
  PROVE  CommonTypeOK'
<1> DEFINE op == ex.Op
           popped == Trunc(op.value3 + SlotSize)
           idle == [ex EXCEPT !.state = "NORMAL", !.Op = NoUop]
<1>1. op \in Uop /\ op.reg2 \in Reg
  BY DEF CommonTypeOK, ExecuteMembers, Uop
<1>2. popped \in Word
  <2>1. op.value3 + SlotSize \in Int
    BY <1>1, SlotAssumption DEF Uop, Word
  <2> QED BY <2>1, TruncWord
<1>3. sig.d_data \in Word
  BY DEF CommonTypeOK, Signals
<1>4. NoUop \in Uop
  BY WordConstants DEF NoUop, Uop, Opcode, SrcType, Reg
<1>5. idle \in ExecuteMembers
  BY <1>4 DEF CommonTypeOK, ExecuteMembers
<1>6. Remember(idle, op.reg2, sig.d_data) \in ExecuteMembers
  BY <1>1, <1>3, <1>5, RememberTyped
<1>7. Trunc(op.address + op.opsize) \in Word
  BY <1>1, NextAddress
<1> HIDE DEF popped, idle, op
<1>8. ex' \in ExecuteMembers
  <2>1. \A e \in ExecuteMembers, v, w \in Word :
          [e EXCEPT !.expected_addr = v, !.stackpointer = w] \in ExecuteMembers
    BY DEF ExecuteMembers
  <2>2. \/ ex' = [idle EXCEPT !.expected_addr = sig.d_data, !.stackpointer = popped]
        \/ ex' = [Remember(idle, op.reg2, sig.d_data) EXCEPT
                    !.expected_addr = Trunc(op.address + op.opsize), !.stackpointer = popped]
        \/ ex' = Remember(idle, op.reg2, sig.d_data)
    BY DEF CompleteRead, popped, idle, op
  <2> QED BY <1>2, <1>3, <1>5, <1>6, <1>7, <2>1, <2>2, ZenonT(60)
<1>9. nxt' \in Signals
  <2>1. [nxt EXCEPT !.ew_ready = TRUE, !.clear = TRUE,
                    !.change_RIP = TRUE, !.new_RIP = sig.d_data] \in Signals
    BY <1>3 DEF CommonTypeOK, Signals
  <2>2. Quiet(TRUE) \in Signals
    BY QuietTyped DEF CommonTypeOK
  <2> QED BY <2>1, <2>2 DEF CompleteRead
<1>10. /\ ew_uop_queue' \in Seq(Uop)
       /\ de_uop_queue' \in Seq(Uop)
       /\ UNCHANGED <<regfile, mem, host>>
  <2>1. \A q \in Uop : Append(ew_uop_queue, q) \in Seq(Uop)
    BY DEF CommonTypeOK
  <2>2. Tail(de_uop_queue) \in Seq(Uop)
    BY DEF CommonTypeOK
  <2>3. /\ [op EXCEPT !.value3 = popped] \in Uop
        /\ [op EXCEPT !.value2 = sig.d_data, !.value3 = popped] \in Uop
        /\ [op EXCEPT !.value2 = sig.d_data] \in Uop
    BY <1>1, <1>2, <1>3 DEF Uop
  <2> QED BY <2>1, <2>2, <2>3 DEF CompleteRead, Complete, op, popped
<1> QED BY <1>8, <1>9, <1>10 DEF CommonTypeOK, host
(* Dropping a micro-op and issuing a read keep the types. *)
LEMMA StartTyped ==
  ASSUME CommonTypeOK, UNCHANGED <<dd_uop_queue, sig, d_resp>>,
         DropUnexpected \/ IssueRead
  PROVE  CommonTypeOK'
<1>1. de_uop_queue # <<>>
  BY DEF DropUnexpected, IssueRead, CanStart
<1>2. Quiet(FALSE) \in Signals
  BY QuietTyped DEF CommonTypeOK
<1>3. CASE DropUnexpected
  <2>1. [ex EXCEPT !.expected_addr = Expected(Front)] \in ExecuteMembers
    BY <1>1, FrontTyped DEF CommonTypeOK, ExecuteMembers
  <2>2. /\ de_uop_queue' \in Seq(Uop) /\ nxt' \in Signals /\ ex' \in ExecuteMembers
        /\ UNCHANGED <<ew_uop_queue, regfile, mem, brk_val, out, halted>>
    BY <1>1, <1>2, <1>3, <2>1, FrontTyped DEF DropUnexpected, host
  <2> QED BY <2>2 DEF CommonTypeOK
<1>4. CASE IssueRead
  <2>1. ReadAddr(Front) \in Word /\ Front \in Uop
    BY <1>1, FrontTyped DEF ReadAddr, Uop
  <2>2. [Quiet(FALSE) EXCEPT !.d_op = "READ", !.d_addr = ReadAddr(Front)] \in Signals
    BY <1>2, <2>1 DEF Signals
  <2>3. [Started EXCEPT !.state = "READ", !.Op = Front] \in ExecuteMembers
    BY <1>1, <2>1, FrontTyped DEF ExecuteMembers
  <2>4. /\ de_uop_queue' \in Seq(Uop) /\ nxt' \in Signals /\ ex' \in ExecuteMembers
        /\ UNCHANGED <<ew_uop_queue, regfile, mem, brk_val, out, halted>>
    BY <1>1, <1>4, <2>2, <2>3, FrontTyped DEF IssueRead, host
  <2> QED BY <2>4 DEF CommonTypeOK
<1> QED BY <1>3, <1>4

(* Performing a micro-op keeps the types. *)
LEMMA PerformTyped ==
  ASSUME CommonTypeOK, UNCHANGED <<dd_uop_queue, sig, d_resp>>, Perform
  PROVE  CommonTypeOK'
<1>1. de_uop_queue # <<>>
  BY DEF Perform, CanStart
<1>2. PICK r \in Results(Front, ex.eflags) :
        /\ ew_uop_queue' = Append(ew_uop_queue, Performed(Front, r))
        /\ nxt' = Driven(Performed(Front, r))
        /\ ex' = [Noted(Advanced(Started, Performed(Front, r)), Performed(Front, r))
                   EXCEPT !.eflags = r.flags]
  BY DEF Perform
<1> DEFINE op == Performed(Front, r)
<1>3. r \in ResultType
  BY <1>1, FrontPerformed
<1>4. op \in Uop
  BY <1>1, FrontPerformed
<1> HIDE DEF op
<1>5. Append(ew_uop_queue, op) \in Seq(Uop)
  BY <1>4 DEF CommonTypeOK
<1>6. Driven(op) \in Signals
  BY <1>4, DrivenTyped DEF CommonTypeOK
<1>7. ex' \in ExecuteMembers
  <2>1. Noted(Advanced(Started, op), op) \in ExecuteMembers
    BY <1>1, <1>4, FrontTyped, AdvancedTyped, NotedTyped
  <2>2. r.flags \in Flags
    BY <1>3 DEF ResultType
  <2>3. \A e \in ExecuteMembers : [e EXCEPT !.eflags = r.flags] \in ExecuteMembers
    BY <2>2 DEF ExecuteMembers
  <2> QED BY <1>2, <2>1, <2>3 DEF op
<1>8. /\ de_uop_queue' \in Seq(Uop)
      /\ UNCHANGED <<regfile, mem, brk_val, out, halted>>
  BY <1>1, FrontTyped DEF Perform, host
<1> QED BY <1>2, <1>5, <1>6, <1>7, <1>8 DEF CommonTypeOK, op

(* A system call keeps the types. *)
LEMMA SyscallKeepsTypes ==
  ASSUME CommonTypeOK, UNCHANGED <<dd_uop_queue, sig, d_resp>>, Syscall
  PROVE  CommonTypeOK'
<1>1. de_uop_queue # <<>>
  BY DEF Syscall, CanStart
<1>2. PICK s \in RequestedSyscall :
        /\ regfile' = [regfile EXCEPT !["rax"] = s.ret]
        /\ ex' = Advanced(Remember(Started, "rax", s.ret), Front)
        /\ mem' = s.mem
        /\ brk_val' = s.brk
        /\ out' = out \o s.print
        /\ halted' = s.halted
  BY DEF Syscall
<1>3. s \in EffectType
  BY RequestedTyped
<1>4. /\ s.ret \in Word /\ s.mem \in [Word -> Word] /\ s.brk \in Word
      /\ s.print \in Seq(Seq(Word)) /\ s.halted \in {"no", "exit", "abort"}
  BY <1>3 DEF EffectType
<1>5. Front \in Uop /\ Started \in ExecuteMembers /\ Tail(Patched(de_uop_queue)) \in Seq(Uop)
  BY <1>1, FrontTyped
<1>6. "rax" \in Reg
  BY GPRAssumption DEF Reg
<1>7. ex' \in ExecuteMembers
  BY <1>2, <1>4, <1>5, <1>6, RememberTyped, AdvancedTyped
<1>8. regfile' \in RegFile
  BY <1>2, <1>4 DEF CommonTypeOK, RegFile
<1>9. ew_uop_queue' \in Seq(Uop) /\ nxt' \in Signals /\ de_uop_queue' \in Seq(Uop)
  <2>1. Append(ew_uop_queue, Front) \in Seq(Uop)
    BY <1>5 DEF CommonTypeOK
  <2>2. Driven(Front) \in Signals
    BY <1>5, DrivenTyped DEF CommonTypeOK
  <2> QED BY <1>5, <2>1, <2>2 DEF Syscall
<1>10. out' \in Seq(Seq(Word))
  BY <1>2, <1>4 DEF CommonTypeOK
<1> QED BY <1>2, <1>4, <1>7, <1>8, <1>9, <1>10 DEF CommonTypeOK

(* Every path of Execute::work() keeps the types. *)
LEMMA ExecuteTyped ==
  ASSUME CommonTypeOK, ex.state = "READ" => de_uop_queue # <<>>, ExecuteWork
  PROVE  CommonTypeOK'
<1>1. UNCHANGED <<dd_uop_queue, sig, d_resp>>
  BY DEF ExecuteWork
<1>2. CASE ClearStage \/ AwaitData \/ Blocked
  BY <1>1, <1>2, WaitingTyped
<1>3. CASE CompleteRead
  <2>1. ex.state = "READ"
    BY <1>3 DEF CompleteRead
  <2> QED BY <1>1, <1>3, <2>1, CompleteReadTyped
<1>4. CASE DropUnexpected \/ IssueRead
  BY <1>1, <1>4, StartTyped
<1>5. CASE Perform
  BY <1>1, <1>5, PerformTyped
<1>6. CASE Crash
  BY <1>1, <1>6 DEF Crash, CommonTypeOK
<1>7. CASE Syscall
  BY <1>1, <1>7, SyscallKeepsTypes
<1> QED BY <1>2, <1>3, <1>4, <1>5, <1>6, <1>7 DEF ExecuteWork
-----------------------------------------------------------------------------
(* The other processes. *)

(* Every path of Writeback::work() keeps the types. *)
LEMMA WritebackTyped == ASSUME CommonTypeOK, WritebackWork PROVE CommonTypeOK'
<1>1. CASE RetireUop
  <2>1. Head(ew_uop_queue) \in Uop /\ Tail(ew_uop_queue) \in Seq(Uop)
    BY <1>1 DEF RetireUop, CommonTypeOK
  <2>2. Retired(regfile, Head(ew_uop_queue)) \in RegFile
    BY <2>1, RetiredTyped DEF CommonTypeOK
  <2> QED BY <1>1, <2>1, <2>2 DEF RetireUop, WritebackWork, CommonTypeOK, host
<1>2. CASE NothingToRetire
  BY <1>2 DEF NothingToRetire, WritebackWork, CommonTypeOK, host
<1> QED BY <1>1, <1>2 DEF WritebackWork

(* What Dispatch does to the signals: out_ready and nothing else. *)
LEMMA DispatchSignals ==
  ASSUME CommonTypeOK, DispatchWork
  PROVE  /\ nxt' \in Signals
         /\ nxt'.clear = nxt.clear /\ nxt'.ew_ready = nxt.ew_ready
<1>1. PICK b \in BOOLEAN : DispatchReady(b)
  BY DEF DispatchWork, ClearQueue, NothingToDispatch, ExecuteBusy, DispatchBatch
<1> QED BY <1>1 DEF DispatchReady, CommonTypeOK, Signals

(* Every path of Dispatch::work() keeps the types. *)
LEMMA DispatchTyped == ASSUME CommonTypeOK, DispatchWork PROVE CommonTypeOK'
<1>1. nxt' \in Signals
  BY DispatchSignals
<1>2. dd_uop_queue' \in Seq(Uop) /\ de_uop_queue' \in Seq(Uop)
  <2>1. CASE ClearQueue
    <3>1. <<>> \in Seq(Uop)
      OBVIOUS
    <3> QED BY <2>1, <3>1 DEF ClearQueue, CommonTypeOK
  <2>2. CASE NothingToDispatch \/ ExecuteBusy
    BY <2>2 DEF NothingToDispatch, ExecuteBusy, CommonTypeOK
  <2>3. CASE DispatchBatch
    <3>1. PICK n \in 1 .. Len(dd_uop_queue) :
            /\ de_uop_queue' = [i \in 1 .. n |-> Dispatched(dd_uop_queue[i])]
            /\ dd_uop_queue' = SubSeq(dd_uop_queue, n + 1, Len(dd_uop_queue))
      BY <2>3 DEF DispatchBatch
    <3>2. dd_uop_queue \in Seq(Uop) /\ n \in Nat
      BY <3>1 DEF CommonTypeOK
    <3>3. \A i \in 1 .. n : dd_uop_queue[i] \in Uop
      BY <3>2
    <3>4. \A i \in 1 .. n : Dispatched(dd_uop_queue[i]) \in Uop
      BY <3>3, DispatchedTyped DEF CommonTypeOK
    <3>5. de_uop_queue' \in Seq(Uop)
      BY <3>1, <3>2, <3>4
    <3>6. dd_uop_queue' \in Seq(Uop)
      BY <3>1, <3>2
    <3> QED BY <3>5, <3>6
  <2> QED BY <2>1, <2>2, <2>3 DEF DispatchWork
<1> QED BY <1>1, <1>2 DEF DispatchWork, CommonTypeOK, host

(* The response signals of Memory are typed. *)
LEMMA MemorySignals ==
  ASSUME CommonTypeOK, DataMemoryWork
  PROVE  /\ nxt' \in Signals
         /\ nxt'.clear = nxt.clear /\ nxt'.ew_ready = nxt.ew_ready
<1>1. CASE DeliverNothing
  BY <1>1 DEF DeliverNothing, CommonTypeOK, Signals
<1>2. CASE \E a \in d_resp : Deliver(a)
  <2>1. PICK a \in d_resp : Deliver(a)
    BY <1>2
  <2>2. a \in Word /\ mem[a] \in Word
    BY DEF CommonTypeOK
  <2> QED BY <2>1, <2>2 DEF Deliver, CommonTypeOK, Signals
<1> QED BY <1>1, <1>2 DEF DataMemoryWork, PortWork

(* Every path of Memory::work() keeps the types. *)
LEMMA MemoryTyped == ASSUME CommonTypeOK, DataMemoryWork PROVE CommonTypeOK'
<1>1. nxt' \in Signals
  BY MemorySignals
<1>2. d_resp' \subseteq Word /\ mem' \in [Word -> Word] /\ halted' \in {"no", "exit", "abort"}
  <2>1. PICK left \in SUBSET d_resp : AcceptRequest(left) \/ RejectRequest
    BY DEF DataMemoryWork, PortWork
  <2>2. sig.d_addr \in Word /\ sig.d_dout \in Word /\ Requested \subseteq Word
    BY DEF CommonTypeOK, Signals, Requested
  <2>3. CASE AcceptRequest(left)
    BY <2>2, <2>3 DEF AcceptRequest, CommonTypeOK
  <2>4. CASE RejectRequest
    BY <2>4 DEF RejectRequest, CommonTypeOK
  <2> QED BY <2>1, <2>3, <2>4
<1> QED BY <1>1, <1>2 DEF DataMemoryWork, PortWork, CommonTypeOK, queues

(* push2q appends micro-ops. *)
LEMMA PushTyped ==
  ASSUME CommonTypeOK, IsProgram(program), fetch_pc \in Word, PushInstruction
  PROVE  /\ CommonTypeOK' /\ fetch_pc' \in Word
         /\ nxt'.clear = nxt.clear /\ nxt'.ew_ready = nxt.ew_ready
<1>1. PICK garbage \in Garbage : dd_uop_queue' = dd_uop_queue \o Fetched(fetch_pc, garbage)
  BY DEF PushInstruction
<1>2. /\ program[fetch_pc].size \in Nat
      /\ program[fetch_pc].uops \in Seq(Template)
  BY DEF PushInstruction, IsProgram
<1>3. Fetched(fetch_pc, garbage) \in Seq(Uop)
  <2> DEFINE uops == program[fetch_pc].uops
  <2>1. \A i \in 1 .. Len(uops) : uops[i] \in Template
    BY <1>2
  <2>2. garbage \in Word
    BY GarbageAssumption
  <2>3. \A i \in 1 .. Len(uops) :
          [src |-> uops[i].src, address |-> fetch_pc, opcode |-> uops[i].opcode,
           reg1 |-> uops[i].reg1, value1 |-> garbage, reg2 |-> uops[i].reg2,
           value2 |-> garbage, reg3 |-> uops[i].reg3, value3 |-> garbage,
           immed |-> uops[i].immed, opsize |-> program[fetch_pc].size] \in Uop
    BY <1>2, <2>1, <2>2 DEF Template, Uop
  <2>4. Len(uops) \in Nat
    BY <1>2
  <2>5. Fetched(fetch_pc, garbage) \in [1 .. Len(uops) -> Uop]
    BY <2>3 DEF Fetched
  <2> HIDE DEF uops
  <2> QED BY <2>4, <2>5, FunctionIsSeq
<1>4. dd_uop_queue' \in Seq(Uop)
  BY <1>1, <1>3 DEF CommonTypeOK
<1>5. fetch_pc' \in Word
  <2>1. fetch_pc + program[fetch_pc].size \in Int
    BY <1>2 DEF Word
  <2> QED BY <2>1, TruncWord DEF PushInstruction
<1>6. nxt' \in Signals /\ nxt'.clear = nxt.clear /\ nxt'.ew_ready = nxt.ew_ready
  BY DEF PushInstruction, CommonTypeOK, Signals
<1> QED BY <1>4, <1>5, <1>6 DEF PushInstruction, CommonTypeOK, host
-----------------------------------------------------------------------------
(* The inductive invariant.  Types alone are not inductive: the answer to a *)
(* read pops the queue, so the queue must not be empty while Execute waits;*)
(* that holds because a flush never finds Execute waiting.                 *)

ReadPending == ex.state = "READ" => de_uop_queue # <<>> /\ ~sig.clear /\ ~nxt.clear

(* Execute is the only writer of clear, and takes it back in the next cycle,*)
(* in which Dispatch and Execute each empty their queue when they run.     *)
ClearPhase ==
  /\ "execute" \notin ran => nxt.clear = sig.clear
  /\ sig.clear /\ "dispatch" \in ran => dd_uop_queue = <<>>
  /\ halted = "no" /\ sig.clear /\ "execute" \in ran => de_uop_queue = <<>> /\ ~nxt.clear

(* The micro-ops between Execute and Writeback: the one announced a cycle   *)
(* ago, until Writeback has run, and the one Execute announces now.        *)
Waiting(ready) == IF ready THEN 1 ELSE 0
Handshake ==
  /\ Len(ew_uop_queue) <= 2
  /\ halted = "no" =>
       Len(ew_uop_queue) = (IF "writeback" \in ran THEN 0 ELSE Waiting(sig.ew_ready))
                           + (IF "execute" \in ran THEN Waiting(nxt.ew_ready) ELSE 0)

IInv == TypeOK /\ ReadPending /\ ClearPhase /\ Handshake

(* The invariant holds after reset. *)
LEMMA InitInvariant == Init => IInv
<1> SUFFICES ASSUME Init PROVE IInv
  OBVIOUS
<1>1. NoUop \in Uop /\ IdleSignals \in Signals
  BY WordConstants DEF NoUop, Uop, Opcode, SrcType, Reg, IdleSignals, Signals
<1>2. <<>> \in Seq(Uop) /\ <<>> \in Seq(Seq(Word))
  OBVIOUS
<1>3. IsProgram(program) /\ fetch_pc \in Word /\ arch_pc \in Word
  <2>1. IsProgram(program)
    BY ProgramsAssumption DEF Init
  <2>2. \A start \in DOMAIN program : start \in Word
    BY <2>1 DEF IsProgram
  <2> QED BY <2>1, <2>2 DEF Init
<1>4. ex \in ExecuteMembers /\ ex.state = "NORMAL"
  <2>1. PICK sp \in StackpointerInit, changed \in RipChangedInit :
       ex = [state |-> "NORMAL", Op |-> NoUop,
             prev_reg1 |-> "none", prev_value1 |-> 0,
             prev_reg2 |-> "none", prev_value2 |-> 0,
             expected_addr |-> 0, prev_addr |-> 0,
             rip_changed |-> changed, firstrun |-> TRUE,
             stackpointer |-> sp, offsetreg |-> 0,
             eflags |-> [CF |-> FALSE, ZF |-> FALSE, SF |-> FALSE, OF |-> FALSE]]
    BY DEF Init
  <2>2. sp \in Word /\ changed \in BOOLEAN /\ 0 \in Word /\ "none" \in Reg
    BY InitAssumption, WordConstants DEF Reg
  <2> QED BY <1>1, <2>1, <2>2 DEF ExecuteMembers, Flags
<1>5. regfile \in RegFile /\ mem \in [Word -> Word] /\ brk_val \in Word
  BY InitAssumption, WordConstants DEF Init
<1>6. CommonTypeOK
  BY <1>1, <1>2, <1>4, <1>5 DEF Init, CommonTypeOK
<1>7. TypeOK
  BY <1>3, <1>6 DEF Init, TypeOK
<1>8. ReadPending /\ ClearPhase /\ Handshake
  BY <1>4 DEF Init, ReadPending, ClearPhase, Handshake, Waiting, IdleSignals
<1> QED BY <1>7, <1>8 DEF IInv

-----------------------------------------------------------------------------
(* What a call of Execute does to the queue behind it and to its state. *)

(* What a quiet call does to the signals the invariant reads. *)
LEMMA QuietFields ==
  ASSUME nxt \in Signals, NEW b \in BOOLEAN
  PROVE  /\ Quiet(b).ew_ready = b /\ Quiet(b).clear = nxt.clear
         /\ [Quiet(b) EXCEPT !.clear = FALSE].ew_ready = b
         /\ [Quiet(b) EXCEPT !.clear = FALSE].clear = FALSE
  BY DEF Quiet, Signals

(* A performed micro-op is always announced to Writeback. *)
LEMMA DrivenFields == ASSUME nxt \in Signals, NEW op PROVE Driven(op).ew_ready = TRUE
  BY DEF Driven, Quiet, Signals

(* Execute's bookkeeping does not touch its state field. *)
LEMMA StateKept ==
  ASSUME NEW e \in ExecuteMembers, NEW op \in Uop
  PROVE  /\ Advanced(e, op).state = e.state
         /\ Noted(e, op).state = e.state
         /\ \A r \in Reg, v \in Word : Remember(e, r, v).state = e.state
  BY DEF Advanced, Noted, Remember, ExecuteMembers
(* out_ready is raised exactly when a micro-op is pushed. *)
LEMMA ExecuteAnnounces ==
  ASSUME CommonTypeOK, ExecuteWork, Len(ew_uop_queue) <= 1
  PROVE  /\ Len(ew_uop_queue') <= Len(ew_uop_queue) + 1
         /\ halted' = "no" => Len(ew_uop_queue') = Len(ew_uop_queue) + Waiting(nxt'.ew_ready)
<1>1. nxt \in Signals /\ ew_uop_queue \in Seq(Uop) /\ Len(ew_uop_queue) \in Nat
  BY DEF CommonTypeOK
<1>2. CASE ClearStage \/ AwaitData \/ Blocked \/ DropUnexpected \/ IssueRead
  <2> DEFINE full == sig.de_ready /\ Len(ew_uop_queue) > 1
  <2>1. full = FALSE
    BY <1>1
  <2>2. \/ nxt' = [Quiet(full) EXCEPT !.clear = FALSE]
        \/ nxt' = Quiet(FALSE)
        \/ nxt' = Quiet(full)
        \/ nxt' = [Quiet(FALSE) EXCEPT !.d_op = "READ", !.d_addr = ReadAddr(Front)]
    BY <1>2 DEF ClearStage, AwaitData, Blocked, DropUnexpected, IssueRead
  <2> HIDE DEF full
  <2>3. nxt'.ew_ready = FALSE
    BY <1>1, <2>1, <2>2 DEF Quiet, Signals
  <2>4. ew_uop_queue' = ew_uop_queue
    BY <1>2 DEF ClearStage, AwaitData, Blocked, DropUnexpected, IssueRead
  <2> QED BY <1>1, <2>3, <2>4 DEF Waiting
<1>3. CASE CompleteRead
  <2>1. \E q : ew_uop_queue' = Append(ew_uop_queue, q)
    BY <1>3 DEF CompleteRead, Complete
  <2>2. nxt'.ew_ready = TRUE
    BY <1>1, <1>3 DEF CompleteRead, Quiet, Signals
  <2> QED BY <1>1, <2>1, <2>2 DEF Waiting
<1>4. CASE Perform \/ Syscall
  <2>1. \E q : ew_uop_queue' = Append(ew_uop_queue, q) /\ nxt' = Driven(q)
    BY <1>4 DEF Perform, Syscall
  <2>2. nxt'.ew_ready = TRUE
    BY <1>1, <2>1, DrivenFields
  <2> QED BY <1>1, <2>1, <2>2 DEF Waiting
<1>5. CASE Crash
  BY <1>1, <1>5 DEF Crash
<1> QED BY <1>2, <1>3, <1>4, <1>5 DEF ExecuteWork

(* Under clear the only call that can happen empties the queue. *)
LEMMA ExecuteClears ==
  ASSUME CommonTypeOK, ExecuteWork, sig.clear
  PROVE  de_uop_queue' = <<>> /\ nxt'.clear = FALSE /\ ex' = ex
<1>1. ClearStage
  BY DEF ExecuteWork, AwaitData, Blocked, CompleteRead, DropUnexpected, IssueRead, Perform,
         Crash, Syscall, CanStart
<1>2. nxt \in Signals
  BY DEF CommonTypeOK
<1> QED BY <1>1, <1>2 DEF ClearStage, Quiet, Signals

(* Execute waits for data with its micro-op at the head of the queue. *)
LEMMA ExecuteReads ==
  ASSUME CommonTypeOK, ReadPending, nxt.clear = sig.clear, ~sig.clear, ExecuteWork
  PROVE  ex'.state = "READ" => de_uop_queue' # <<>> /\ ~nxt'.clear
<1>1. nxt \in Signals /\ ex \in ExecuteMembers /\ ~nxt.clear
  BY DEF CommonTypeOK
<1>2. CASE AwaitData \/ Blocked \/ Crash
  <2>1. ex' = ex /\ de_uop_queue' = de_uop_queue
    BY <1>2 DEF AwaitData, Blocked, Crash
  <2> DEFINE full == sig.de_ready /\ Len(ew_uop_queue) > 1
  <2>2. nxt' = Quiet(FALSE) \/ nxt' = Quiet(full) \/ nxt' = nxt
    BY <1>2 DEF AwaitData, Blocked, Crash
  <2> HIDE DEF full
  <2>3. nxt'.clear = nxt.clear
    BY <1>1, <2>2 DEF Quiet, Signals
  <2> QED BY <1>1, <2>1, <2>3 DEF ReadPending
<1>3. CASE CompleteRead
  <2> DEFINE idle == [ex EXCEPT !.state = "NORMAL", !.Op = NoUop]
             d == sig.d_data
  <2>1. NoUop \in Uop
    BY WordConstants DEF NoUop, Uop, Opcode, SrcType, Reg
  <2>2. idle \in ExecuteMembers /\ idle.state = "NORMAL"
    BY <1>1, <2>1 DEF ExecuteMembers
  <2>3. ex.Op.reg2 \in Reg /\ d \in Word
    BY <1>1 DEF ExecuteMembers, Uop, CommonTypeOK, Signals
  <2>4. /\ Remember(idle, ex.Op.reg2, d).state = "NORMAL"
        /\ Remember(idle, ex.Op.reg2, d) \in ExecuteMembers
    BY <2>2, <2>3, RememberTyped DEF Remember, ExecuteMembers
  <2> DEFINE last == Remember(idle, ex.Op.reg2, d)
             popped == Trunc(ex.Op.value3 + SlotSize)
             next == Trunc(ex.Op.address + ex.Op.opsize)
  <2>5. \/ ex' = [idle EXCEPT !.expected_addr = d, !.stackpointer = popped]
        \/ ex' = [last EXCEPT !.expected_addr = next, !.stackpointer = popped]
        \/ ex' = last
    BY <1>3 DEF CompleteRead
  <2> HIDE DEF idle, last, popped, next
  <2>6. ex'.state = "NORMAL"
    <3>1. last.state = "NORMAL" /\ last \in ExecuteMembers
      BY <2>4 DEF last
    <3> QED BY <2>2, <2>5, <3>1 DEF ExecuteMembers
  <2> QED BY <2>6
<1>4. CASE DropUnexpected
  <2>1. ex'.state = "NORMAL"
    BY <1>1, <1>4 DEF DropUnexpected, CanStart, ExecuteMembers
  <2> QED BY <2>1
<1>5. CASE IssueRead
  <2>1. de_uop_queue # <<>>
    BY <1>5 DEF IssueRead, CanStart
  <2>2. Len(Patched(de_uop_queue)) = Len(de_uop_queue) /\ Patched(de_uop_queue) \in Seq(Uop)
    BY PatchedTyped DEF CommonTypeOK
  <2>3. de_uop_queue' # <<>>
    <3>1. Len(de_uop_queue) # 0
      BY <2>1 DEF CommonTypeOK
    <3>2. Len(<<>>) = 0
      OBVIOUS
    <3> QED BY <1>5, <2>2, <3>1, <3>2 DEF IssueRead
  <2>4. nxt'.clear = nxt.clear
    BY <1>1, <1>5 DEF IssueRead, Quiet, Signals
  <2> QED BY <1>1, <2>3, <2>4
<1>6. CASE Perform \/ Syscall
  <2>1. de_uop_queue # <<>> /\ ex.state = "NORMAL"
    BY <1>6 DEF Perform, Syscall, CanStart
  <2>2. Started \in ExecuteMembers /\ Started.state = "NORMAL" /\ Front \in Uop
    BY <1>1, <2>1, FrontTyped DEF Started, ExecuteMembers
  <2>3. CASE Perform
    <3>1. PICK r \in Results(Front, ex.eflags) :
            ex' = [Noted(Advanced(Started, Performed(Front, r)), Performed(Front, r))
                     EXCEPT !.eflags = r.flags]
      BY <2>3 DEF Perform
    <3> DEFINE op == Performed(Front, r)
    <3>2. op \in Uop
      BY <2>1, FrontPerformed
    <3> HIDE DEF op
    <3>3. Noted(Advanced(Started, op), op).state = "NORMAL"
      BY <2>2, <3>2, AdvancedTyped, StateKept
    <3>4. Noted(Advanced(Started, op), op) \in ExecuteMembers
      BY <2>2, <3>2, AdvancedTyped, NotedTyped
    <3>5. ex'.state = "NORMAL"
      BY <3>1, <3>3, <3>4 DEF op, ExecuteMembers
    <3> QED BY <3>5
  <2>4. CASE Syscall
    <3>1. PICK s \in RequestedSyscall : ex' = Advanced(Remember(Started, "rax", s.ret), Front)
      BY <2>4 DEF Syscall
    <3>2. s.ret \in Word
      BY RequestedTyped DEF EffectType
    <3>3. "rax" \in Reg
      BY GPRAssumption DEF Reg
    <3>4. ex'.state = "NORMAL"
      BY <2>2, <3>1, <3>2, <3>3, RememberTyped, StateKept
    <3> QED BY <3>4
  <2> QED BY <1>6, <2>3, <2>4
<1>7. ~ClearStage
  BY DEF ClearStage
<1> QED BY <1>2, <1>3, <1>4, <1>5, <1>6, <1>7 DEF ExecuteWork
-----------------------------------------------------------------------------
(* Each action preserves the invariant. *)

(* Execute keeps the invariant: it announces exactly what it pushes. *)
LEMMA ExecuteStep == ASSUME IInv, RunExecute PROVE IInv'
<1>1. /\ CommonTypeOK /\ ExecuteWork /\ halted = "no" /\ "execute" \notin ran
      /\ nxt.clear = sig.clear /\ ran' = ran \cup {"execute"} /\ sig' = sig
      /\ dd_uop_queue' = dd_uop_queue
  BY DEF RunExecute, Runs, MayRun, IInv, TypeOK, ClearPhase, ExecuteWork
<1>2. CommonTypeOK'
  BY <1>1, ExecuteTyped DEF IInv, ReadPending
<1>3. TypeOK'
  <2>1. ran' \subseteq Process
    BY DEF RunExecute, Runs, IInv, TypeOK, Process
  <2>2. arch_pc' \in Word /\ arch_uops' \in Nat
    <3>1. CASE Completed
      <4> DEFINE op == ew_uop_queue'[Len(ew_uop_queue')]
      <4>1. op \in Uop
        BY <1>2, <3>1 DEF Completed, CommonTypeOK
      <4>2. Trunc(op.address + op.opsize) \in Word /\ nxt'.new_RIP \in Word
        BY <1>2, <4>1, NextAddress DEF CommonTypeOK, Signals
      <4> QED BY <3>1, <4>2 DEF RunExecute, Record, IInv, TypeOK
    <3>2. CASE ~Completed
      BY <3>2 DEF RunExecute, Record, IInv, TypeOK
    <3> QED BY <3>1, <3>2
  <2> QED BY <1>2, <2>1, <2>2 DEF RunExecute, Runs, IInv, TypeOK
<1>4. ReadPending' /\ ClearPhase'
  <2>1. CASE sig.clear
    <3>1. de_uop_queue' = <<>> /\ nxt'.clear = FALSE /\ ex' = ex
      BY <1>1, <2>1, ExecuteClears
    <3>2. ex.state # "READ"
      BY <2>1 DEF IInv, ReadPending
    <3> QED BY <1>1, <2>1, <3>1, <3>2 DEF ReadPending, ClearPhase, IInv
  <2>2. CASE ~sig.clear
    <3>1. ex'.state = "READ" => de_uop_queue' # <<>> /\ ~nxt'.clear
      BY <1>1, <2>2, ExecuteReads DEF IInv
    <3> QED BY <1>1, <2>2, <3>1 DEF ReadPending, ClearPhase
  <2>3. sig.clear \in BOOLEAN
    BY <1>1 DEF CommonTypeOK, Signals
  <2> QED BY <2>1, <2>2, <2>3
<1>5. Handshake'
  <2>1. Len(ew_uop_queue) = IF "writeback" \in ran THEN 0 ELSE Waiting(sig.ew_ready)
    BY <1>1 DEF IInv, Handshake, Waiting
  <2>2. Len(ew_uop_queue) <= 1
    BY <2>1 DEF Waiting
  <2>3. /\ Len(ew_uop_queue') <= Len(ew_uop_queue) + 1
        /\ halted' = "no" => Len(ew_uop_queue') = Len(ew_uop_queue) + Waiting(nxt'.ew_ready)
    BY <1>1, <2>2, ExecuteAnnounces
  <2>4. Len(ew_uop_queue') \in Nat /\ Len(ew_uop_queue) \in Nat
    BY <1>1, <1>2 DEF CommonTypeOK
  <2>5. ("writeback" \in ran') = ("writeback" \in ran) /\ "execute" \in ran'
    BY <1>1
  <2> QED BY <1>1, <2>1, <2>2, <2>3, <2>4, <2>5 DEF Handshake
<1> QED BY <1>3, <1>4, <1>5 DEF IInv

(* Writeback keeps the invariant: it takes exactly what was announced. *)
LEMMA WritebackStep == ASSUME IInv, RunWriteback PROVE IInv'
<1>1. /\ CommonTypeOK /\ WritebackWork /\ halted = "no" /\ "writeback" \notin ran
      /\ ran' = ran \cup {"writeback"}
      /\ UNCHANGED <<decoded, program, fetch_pc, arch_pc, arch_uops>>
  BY DEF RunWriteback, Runs, MayRun, IInv, TypeOK, history
<1>2. CommonTypeOK'
  BY <1>1, WritebackTyped
<1>3. UNCHANGED <<dd_uop_queue, de_uop_queue, sig, nxt, ex, halted>>
  BY <1>1 DEF WritebackWork, host
<1>4. TypeOK'
  BY <1>1, <1>2 DEF IInv, TypeOK, Process
<1>5. ReadPending' /\ ClearPhase'
  BY <1>1, <1>3 DEF IInv, ReadPending, ClearPhase
<1>6. Handshake'
  <2>1. Len(ew_uop_queue) = Waiting(sig.ew_ready)
                            + (IF "execute" \in ran THEN Waiting(nxt.ew_ready) ELSE 0)
    BY <1>1 DEF IInv, Handshake
  <2>2. Len(ew_uop_queue') = Len(ew_uop_queue) - Waiting(sig.ew_ready)
    <3>1. CASE sig.ew_ready
      <4>1. ew_uop_queue # <<>>
        BY <2>1, <3>1 DEF Waiting
      <4>2. ew_uop_queue' = Tail(ew_uop_queue)
        BY <1>1, <3>1, <4>1 DEF WritebackWork, RetireUop, NothingToRetire
      <4> QED BY <1>1, <3>1, <4>1, <4>2 DEF Waiting, CommonTypeOK
    <3>2. CASE ~sig.ew_ready
      BY <1>1, <3>2 DEF WritebackWork, RetireUop, NothingToRetire, Waiting, CommonTypeOK
    <3> QED BY <3>1, <3>2
  <2>3. Len(ew_uop_queue') = IF "execute" \in ran THEN Waiting(nxt.ew_ready) ELSE 0
    BY <2>1, <2>2 DEF Waiting
  <2>4. Len(ew_uop_queue') <= 2
    BY <2>3 DEF Waiting
  <2>5. ("execute" \in ran') = ("execute" \in ran) /\ "writeback" \in ran'
    BY <1>1
  <2> QED BY <1>3, <2>3, <2>4, <2>5 DEF Handshake, Waiting
<1> QED BY <1>4, <1>5, <1>6 DEF IInv
(* Dispatch keeps the invariant. *)
LEMMA DispatchStep == ASSUME IInv, RunDispatch PROVE IInv'
<1>1. /\ CommonTypeOK /\ DispatchWork /\ halted = "no"
      /\ ran' = ran \cup {"dispatch"}
      /\ UNCHANGED <<decoded, program, fetch_pc, arch_pc, arch_uops>>
  BY DEF RunDispatch, Runs, MayRun, IInv, TypeOK, history
<1>2. CommonTypeOK' /\ nxt'.clear = nxt.clear /\ nxt'.ew_ready = nxt.ew_ready
  BY <1>1, DispatchTyped, DispatchSignals
<1>3. UNCHANGED <<ew_uop_queue, sig, ex, halted>>
  BY <1>1 DEF DispatchWork, host
<1>4. TypeOK'
  BY <1>1, <1>2 DEF IInv, TypeOK, Process
<1>5. sig.clear => dd_uop_queue' = <<>>
  BY <1>1 DEF DispatchWork, ClearQueue, NothingToDispatch, ExecuteBusy, DispatchBatch
<1>6. de_uop_queue # <<>> \/ sig.clear => de_uop_queue' = de_uop_queue
  BY <1>1 DEF DispatchWork, ClearQueue, NothingToDispatch, ExecuteBusy, DispatchBatch
<1>7. ("execute" \in ran') = ("execute" \in ran) /\ ("writeback" \in ran') = ("writeback" \in ran)
  BY <1>1
<1>8. ReadPending' /\ ClearPhase'
  BY <1>2, <1>3, <1>5, <1>6, <1>7 DEF IInv, ReadPending, ClearPhase
<1>9. Handshake'
  BY <1>2, <1>3, <1>7 DEF IInv, Handshake
<1> QED BY <1>4, <1>8, <1>9 DEF IInv

(* Memory keeps the invariant. *)
LEMMA MemoryStep == ASSUME IInv, RunMemory PROVE IInv'
<1>1. /\ CommonTypeOK /\ DataMemoryWork /\ halted = "no"
      /\ ran' = ran \cup {"memory"}
      /\ UNCHANGED <<decoded, program, fetch_pc, arch_pc, arch_uops>>
  BY DEF RunMemory, Runs, MayRun, IInv, TypeOK, history
<1>2. CommonTypeOK' /\ nxt'.clear = nxt.clear /\ nxt'.ew_ready = nxt.ew_ready
  BY <1>1, MemoryTyped, MemorySignals
<1>3. UNCHANGED <<dd_uop_queue, de_uop_queue, ew_uop_queue, sig, ex>>
  BY <1>1 DEF DataMemoryWork, PortWork, queues
<1>4. \A p \in {"dispatch", "execute", "writeback"} : (p \in ran') = (p \in ran)
  BY <1>1
<1>5. TypeOK'
  BY <1>1, <1>2 DEF IInv, TypeOK, Process
<1>6. ReadPending' /\ ClearPhase'
  BY <1>1, <1>2, <1>3, <1>4 DEF IInv, ReadPending, ClearPhase
<1>7. Handshake'
  BY <1>1, <1>2, <1>3, <1>4 DEF IInv, Handshake
<1> QED BY <1>5, <1>6, <1>7 DEF IInv

(* The decoder and Fetch keep the invariant. *)
LEMMA FrontEndStep == ASSUME IInv, DeliverInstruction \/ RunFrontEnd PROVE IInv'
<1>1. CASE DeliverInstruction
  <2>1. /\ CommonTypeOK /\ IsProgram(program) /\ fetch_pc \in Word /\ PushInstruction
        /\ UNCHANGED <<ran, program, arch_pc, arch_uops>>
    BY <1>1 DEF DeliverInstruction, IInv, TypeOK, history
  <2>2. /\ CommonTypeOK' /\ fetch_pc' \in Word
        /\ nxt'.clear = nxt.clear /\ nxt'.ew_ready = nxt.ew_ready
    BY <2>1, PushTyped
  <2>3. /\ UNCHANGED <<de_uop_queue, ew_uop_queue, sig, ex, halted>>
        /\ ~sig.clear /\ decoded' = decoded + 1
    BY <2>1 DEF PushInstruction, host
  <2>4. TypeOK'
    BY <2>1, <2>2, <2>3 DEF IInv, TypeOK
  <2>5. ReadPending' /\ ClearPhase' /\ Handshake'
    BY <2>1, <2>2, <2>3 DEF IInv, ReadPending, ClearPhase, Handshake
  <2> QED BY <2>4, <2>5 DEF IInv
<1>2. CASE RunFrontEnd
  <2>1. /\ UNCHANGED <<regfile, dd_uop_queue, de_uop_queue, ew_uop_queue, sig, nxt, ex, mem,
                       d_resp, brk_val, out, halted, program, arch_pc, arch_uops>>
        /\ ran' = ran \cup {"frontend"} /\ decoded' = 0
        /\ fetch_pc' \in {sig.new_RIP, fetch_pc}
    BY <1>2 DEF RunFrontEnd, Runs, FrontEndDone, Redirected, NothingMore, common, queues,
                host, history
  <2>2. sig.new_RIP \in Word
    BY DEF IInv, TypeOK, CommonTypeOK, Signals
  <2>3. CommonTypeOK'
    BY <2>1 DEF IInv, TypeOK, CommonTypeOK
  <2>4. TypeOK'
    BY <2>1, <2>2, <2>3 DEF IInv, TypeOK, Process
  <2>5. \A p \in {"dispatch", "execute", "writeback"} : (p \in ran') = (p \in ran)
    BY <2>1
  <2>6. ReadPending' /\ ClearPhase' /\ Handshake'
    BY <2>1, <2>5 DEF IInv, ReadPending, ClearPhase, Handshake
  <2> QED BY <2>4, <2>6 DEF IInv
<1> QED BY <1>1, <1>2

(* The signals of a cycle become those the next cycle reads. *)
LEMMA TickStep == ASSUME IInv, Tick PROVE IInv'
<1>1. /\ UNCHANGED <<regfile, dd_uop_queue, de_uop_queue, ew_uop_queue, nxt, ex, mem, d_resp,
                     brk_val, out, halted, decoded, program, fetch_pc, arch_pc, arch_uops>>
      /\ ran = Process /\ ran' = {} /\ sig' = nxt /\ halted = "no"
  BY DEF Tick, queues, host, history
<1>2. TypeOK'
  BY <1>1 DEF IInv, TypeOK, CommonTypeOK
<1>3. ReadPending' /\ ClearPhase'
  BY <1>1 DEF IInv, ReadPending, ClearPhase
<1>4. Len(ew_uop_queue) = Waiting(nxt.ew_ready)
  BY <1>1 DEF IInv, Handshake, Process, Waiting
<1>5. Handshake'
  BY <1>1, <1>4 DEF IInv, Handshake, Waiting
<1> QED BY <1>2, <1>3, <1>5 DEF IInv

(* A stopped machine keeps the invariant. *)
LEMMA IdleStep == ASSUME IInv, UNCHANGED vars PROVE IInv'
<1>1. UNCHANGED <<regfile, dd_uop_queue, de_uop_queue, ew_uop_queue, sig, nxt, ex, mem, d_resp,
                  brk_val, out, halted, ran, decoded, program, fetch_pc, arch_pc, arch_uops>>
  BY DEF vars, common, queues, host, history
<1> QED BY <1>1 DEF IInv, TypeOK, CommonTypeOK, ReadPending, ClearPhase, Handshake

(* The strengthened invariant holds in every reachable state. *)
THEOREM Invariant == Spec => []IInv
<1>1. Init => IInv
  BY InitInvariant
<1>2. IInv /\ [Next]_vars => IInv'
  <2> SUFFICES ASSUME IInv, [Next]_vars PROVE IInv'
    OBVIOUS
  <2>1. CASE DeliverInstruction \/ RunFrontEnd
    BY <2>1, FrontEndStep
  <2>2. CASE RunDispatch
    BY <2>2, DispatchStep
  <2>3. CASE RunExecute
    BY <2>3, ExecuteStep
  <2>4. CASE RunWriteback
    BY <2>4, WritebackStep
  <2>5. CASE RunMemory
    BY <2>5, MemoryStep
  <2>6. CASE Tick
    BY <2>6, TickStep
  <2>7. CASE Stopped \/ UNCHANGED vars
    BY <2>7, IdleStep DEF Stopped
  <2> QED BY <2>1, <2>2, <2>3, <2>4, <2>5, <2>6, <2>7 DEF Next
<1> QED BY <1>1, <1>2, PTL DEF Spec

(* Every register, operand, signal and address stays a word and every       *)
(* register number a register, in every program and order.                 *)
THEOREM TypeCorrect == Spec => []TypeOK
<1>1. IInv => TypeOK
  BY DEF IInv
<1> QED BY <1>1, Invariant, PTL

(* Execute and Writeback never lose or repeat a micro-op although each sees *)
(* the other's signal a cycle late.                                        *)
THEOREM HandshakeCorrect == Spec => []EwHandshake
<1>1. IInv => EwHandshake
  BY DEF IInv, Handshake, EwHandshake, Waiting
<1> QED BY <1>1, Invariant, PTL

(* A taken jump, call or ret leaves nothing of the wrong path in front of   *)
(* Execute.                                                                *)
THEOREM FlushCorrect == Spec => []FlushComplete
<1>1. IInv => FlushComplete
  BY DEF IInv, ClearPhase, FlushComplete, Process
<1> QED BY <1>1, Invariant, PTL
-----------------------------------------------------------------------------
(* Execute never holds micro-ops of two instructions. *)

(* Dispatch does not change a micro-op's address. *)
LEMMA DispatchedAddress ==
  ASSUME regfile \in RegFile, NEW u \in Uop
  PROVE  Dispatched(u).address = u.address
<1>1. ReadOperands(u).address = u.address /\ DOMAIN ReadOperands(u) = DOMAIN u
  BY DEF ReadOperands, Uop
<1> DEFINE v == ReadOperands(u)
<1>2. ImpliedOperands(v).address = v.address
  <2> HIDE DEF v
  <2>1. "address" # "reg1" /\ "address" # "reg2" /\ "address" # "reg3"
    OBVIOUS
  <2>2. "address" \in DOMAIN v
    BY <1>1 DEF Uop, v
  <2> QED BY <2>1, <2>2 DEF ImpliedOperands
<1> QED BY <1>1, <1>2 DEF Dispatched

(* Neither does the patch loop. *)
LEMMA PatchedAddress ==
  ASSUME ex \in ExecuteMembers, NEW q \in Seq(Uop), NEW i \in 1 .. Len(q)
  PROVE  Patched(q)[i].address = q[i].address
<1>1. q[i] \in Uop
  OBVIOUS
<1>2. PatchOlder(q[i]).address = q[i].address /\ PatchOlder(q[i]) \in Uop
  BY <1>1 DEF PatchOlder, Uop, ExecuteMembers
<1>3. PatchNewer(PatchOlder(q[i])).address = q[i].address
  BY <1>2 DEF PatchNewer, Uop
<1> QED BY <1>3 DEF Patched

(* No step brings a second instruction in front of Execute. *)
LEMMA OneInstructionStep == ASSUME IInv, OneInstruction, [Next]_vars PROVE OneInstruction'
<1>1. CommonTypeOK /\ de_uop_queue \in Seq(Uop) /\ dd_uop_queue \in Seq(Uop)
  BY DEF IInv, TypeOK, CommonTypeOK
<1>2. CASE de_uop_queue' = de_uop_queue \/ de_uop_queue' = <<>>
  BY <1>2 DEF OneInstruction
<1>3. CASE RunDispatch /\ DispatchBatch
  <2>1. PICK n \in 1 .. Len(dd_uop_queue) :
          /\ IsBatch(dd_uop_queue, n)
          /\ de_uop_queue' = [i \in 1 .. n |-> Dispatched(dd_uop_queue[i])]
    BY <1>3 DEF DispatchBatch
  <2>2. n \in Nat /\ Len(dd_uop_queue) \in Nat
    BY <1>1
  <2>3. ASSUME NEW i \in 1 .. n
        PROVE  de_uop_queue'[i].address = dd_uop_queue[1].address
    <3>1. i - 1 \in 0 .. n - 1 /\ (i - 1) + 1 = i
      BY <2>2
    <3>2. Continues(dd_uop_queue, i - 1)
      BY <2>1, <3>1 DEF IsBatch
    <3>3. dd_uop_queue[i].address = dd_uop_queue[1].address
      BY <3>1, <3>2 DEF Continues
    <3>4. dd_uop_queue[i] \in Uop
      BY <1>1, <2>2
    <3>5. Dispatched(dd_uop_queue[i]).address = dd_uop_queue[i].address
      BY <1>1, <3>4, DispatchedAddress DEF CommonTypeOK
    <3> QED BY <2>1, <3>3, <3>5
  <2>4. Len(de_uop_queue') = n
    BY <2>1, <2>2
  <2> QED BY <2>3, <2>4 DEF OneInstruction
<1>4. CASE RunExecute /\ de_uop_queue' = Patched(de_uop_queue)
  <2>1. Len(Patched(de_uop_queue)) = Len(de_uop_queue)
    BY <1>1, PatchedTyped DEF CommonTypeOK
  <2>2. \A i \in 1 .. Len(de_uop_queue) :
          Patched(de_uop_queue)[i].address = de_uop_queue[i].address
    BY <1>1, PatchedAddress DEF CommonTypeOK
  <2> QED BY <1>4, <2>1, <2>2 DEF OneInstruction
<1>5. CASE RunExecute /\ de_uop_queue # <<>> /\ de_uop_queue' = Tail(Patched(de_uop_queue))
  <2> DEFINE p == Patched(de_uop_queue)
  <2>1. Len(p) = Len(de_uop_queue) /\ p \in Seq(Uop)
    BY <1>1, PatchedTyped DEF CommonTypeOK
  <2>2. \A i \in 1 .. Len(p) : p[i].address = de_uop_queue[i].address
    BY <1>1, <2>1, PatchedAddress DEF CommonTypeOK
  <2> HIDE DEF p
  <2>3. Len(p) \in Nat /\ Len(p) # 0
    BY <1>1, <1>5, <2>1
  <2>4. Len(Tail(p)) = Len(p) - 1 /\ \A i \in 1 .. Len(p) - 1 : Tail(p)[i] = p[i + 1]
    BY <2>1, <2>3
  <2>5. \A i \in 1 .. Len(p) - 1 : i + 1 \in 1 .. Len(p)
    BY <2>3
  <2>6. de_uop_queue' = Tail(p)
    BY <1>5 DEF p
  <2> QED BY <2>1, <2>2, <2>4, <2>5, <2>6 DEF OneInstruction
<1>6. CASE RunExecute /\ de_uop_queue # <<>> /\ de_uop_queue' = Tail(de_uop_queue)
  <2>1. /\ Len(Tail(de_uop_queue)) = Len(de_uop_queue) - 1
        /\ \A i \in 1 .. Len(de_uop_queue) - 1 : Tail(de_uop_queue)[i] = de_uop_queue[i + 1]
        /\ Len(de_uop_queue) \in Nat
    BY <1>1, <1>6
  <2>2. \A i \in 1 .. Len(de_uop_queue) - 1 : i + 1 \in 1 .. Len(de_uop_queue)
    BY <2>1
  <2> QED BY <1>6, <2>1, <2>2 DEF OneInstruction
<1>7. CASE RunExecute
  <2>1. CASE ClearStage \/ AwaitData \/ Blocked \/ Crash
    BY <1>2, <2>1 DEF ClearStage, AwaitData, Blocked, Crash
  <2>2. CASE CompleteRead
    <3>1. de_uop_queue # <<>>
      BY <2>2 DEF CompleteRead, IInv, ReadPending
    <3>2. de_uop_queue' = Tail(de_uop_queue)
      BY <2>2 DEF CompleteRead, Complete
    <3> QED BY <1>6, <1>7, <3>1, <3>2
  <2>3. CASE IssueRead
    BY <1>4, <1>7, <2>3 DEF IssueRead
  <2>4. CASE DropUnexpected \/ Perform \/ Syscall
    BY <1>5, <1>7, <2>4 DEF DropUnexpected, Perform, Syscall, CanStart
  <2> QED BY <1>7, <2>1, <2>2, <2>3, <2>4 DEF RunExecute, ExecuteWork
<1>8. CASE RunDispatch
  BY <1>2, <1>3, <1>8 DEF RunDispatch, DispatchWork, ClearQueue, NothingToDispatch, ExecuteBusy
<1>9. CASE DeliverInstruction \/ RunFrontEnd \/ RunWriteback \/ RunMemory \/ Tick
           \/ Stopped \/ UNCHANGED vars
  <2>1. de_uop_queue' = de_uop_queue
    BY <1>9 DEF DeliverInstruction, PushInstruction, RunFrontEnd, FrontEndDone, RunWriteback,
       WritebackWork, RunMemory, DataMemoryWork, PortWork, Tick, Stopped, vars, common, queues
  <2> QED BY <1>2, <2>1
<1> QED BY <1>7, <1>8, <1>9 DEF Next

(* The queue in front of Execute holds micro-ops of one instruction only,   *)
(* which the patch loop and the address check of Execute rely on.          *)
THEOREM OneInstructionCorrect == Spec => []OneInstruction
<1>1. Init => OneInstruction
  BY DEF Init, OneInstruction
<1>2. IInv /\ OneInstruction /\ [Next]_vars => OneInstruction'
  BY OneInstructionStep
<1> QED BY <1>1, <1>2, Invariant, PTL DEF Spec
=============================================================================
