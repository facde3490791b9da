------------------------------- MODULE BackEnd -------------------------------
(***************************************************************************)
(* The execution half of the core, clock cycle by clock cycle: Dispatch,   *)
(* Execute, Writeback and the data port of Memory, fed with micro-ops by an*)
(* abstract front end.                                                     *)
(*                                                                         *)
(* The work() methods are SC_METHODs on the rising clock edge.  They run in*)
(* some order, one after the other; the signals they wrote change after the*)
(* last one has run.  SystemC leaves the order open: Before names the pairs*)
(* of processes whose order is fixed (none, or the order of one kernel).   *)
(***************************************************************************)
EXTENDS Dispatch, Execute, Writeback, DataMemory

CONSTANTS
  Before,           \* pairs <<p, q>>: p runs before q in every cycle
  Programs,         \* programs, each address |-> [size, uops]
  MaxQueue,         \* bound on the decode queue, which the code does not bound
  MaxFetch,         \* instructions one 16-byte block can complete
  StackpointerInit, \* values the uninitialised stackpointer may hold
  RipChangedInit,   \* values the uninitialised rip_changed may hold
  RegsInit          \* register files at reset

Process == {"frontend", "dispatch", "execute", "writeback", "memory"}

Template == [src : SrcType, opcode : Opcode, reg1 : Reg, reg2 : Reg, reg3 : Reg, immed : Word]

(* What crack_opcodes makes of an instruction: the micro-op that may redirect*)
(* is its last, and a load follows the address it needs and precedes the   *)
(* operation that needs the data.                                          *)
WellCracked(uops) ==
  /\ \A i \in 1 .. Len(uops) - 1 : uops[i].opcode \notin Jumps \cup {"call", "ret", "pop"}
  /\ uops[1].opcode # "load" /\ uops[Len(uops)].opcode # "load"

(* A program: instructions of one micro-op or more, shorter than the address*)
(* space.                                                                  *)
IsProgram(p) ==
  /\ DOMAIN p \subseteq Word /\ DOMAIN p # {}
  /\ \A a \in DOMAIN p : /\ p[a].size \in 1 .. WordMod - 1
                         /\ p[a].uops \in Seq(Template) \ {<<>>}
                         /\ WellCracked(p[a].uops)

ASSUME BeforeAssumption   == Before \subseteq Process \X Process
ASSUME ProgramsAssumption == \A p \in Programs : IsProgram(p)
ASSUME InitAssumption     == /\ StackpointerInit \subseteq Word
                             /\ RipChangedInit \subseteq BOOLEAN
                             /\ RegsInit \subseteq RegFile
ASSUME BoundAssumption    == MaxQueue \in Nat /\ MaxFetch \in Nat

VARIABLES
  ran,         \* processes that have run in this cycle
  decoded,     \* instructions the running call of the front end has delivered
  program,     \* the program in memory
  fetch_pc,    \* address of the next instruction the front end delivers
  \* history, read by the properties only
  arch_pc,     \* the instruction whose turn it is to complete
  arch_uops    \* how many of its micro-ops Execute has completed

history == <<arch_pc, arch_uops>>
vars    == <<common, ran, decoded, program, fetch_pc, history>>

-----------------------------------------------------------------------------
(* Fetch and Decoder, abstracted: they deliver whole instructions in        *)
(* program order from the last redirect on, at their own pace and whether  *)
(* or not Dispatch has room.  push2q leaves the value fields uninitialised.*)

Fetched(a, garbage) ==
  [i \in 1 .. Len(program[a].uops) |->
     LET t == program[a].uops[i]
     IN [src |-> t.src, address |-> a, opcode |-> t.opcode,
         reg1 |-> t.reg1, value1 |-> garbage, reg2 |-> t.reg2, value2 |-> garbage,
         reg3 |-> t.reg3, value3 |-> garbage, immed |-> t.immed,
         opsize |-> program[a].size]]

(* One turn of the decoder's loop. out_ready stays up from the first on.   *)
PushInstruction ==
  /\ ~sig.change_RIP /\ ~sig.clear
  /\ decoded < MaxFetch
  /\ fetch_pc \in DOMAIN program
  /\ Len(dd_uop_queue) + Len(program[fetch_pc].uops) <= MaxQueue
  /\ \E garbage \in Garbage : dd_uop_queue' = dd_uop_queue \o Fetched(fetch_pc, garbage)
  /\ fetch_pc' = Trunc(fetch_pc + program[fetch_pc].size)
  /\ decoded' = decoded + 1
  /\ nxt' = [nxt EXCEPT !.dd_ready = TRUE]
  /\ UNCHANGED <<regfile, de_uop_queue, ew_uop_queue, sig, ex, mem, d_resp, host>>

(* The call ends: redirected by Execute, or with nothing more to deliver   *)
(* for now.                                                                *)
Redirected ==
  /\ sig.change_RIP
  /\ fetch_pc' = sig.new_RIP

NothingMore ==
  /\ ~sig.change_RIP
  /\ UNCHANGED fetch_pc

FrontEndDone ==
  /\ Redirected \/ NothingMore
  /\ decoded' = 0
  /\ UNCHANGED common

-----------------------------------------------------------------------------
(* The history: Execute completes a micro-op by pushing it to Writeback.   *)

Completed == Len(ew_uop_queue') > Len(ew_uop_queue)

Record ==
  IF Completed
  THEN LET op   == ew_uop_queue'[Len(ew_uop_queue')]
           last == arch_uops + 1 = Len(program[op.address].uops)
       IN /\ arch_uops' = IF last THEN 0 ELSE arch_uops + 1
          /\ arch_pc' = IF ~last THEN arch_pc
                        ELSE IF nxt'.change_RIP THEN nxt'.new_RIP
                        ELSE Trunc(op.address + op.opsize)
  ELSE UNCHANGED <<arch_uops, arch_pc>>

-----------------------------------------------------------------------------
(* One process runs its work() method, from its first to its last step     *)
(* without any other.                                                      *)
MayRun(p) == /\ halted = "no"
             /\ p \notin ran
             /\ \A q \in Process : <<q, p>> \in Before => q \in ran
             /\ decoded = 0 \/ p = "frontend"

Runs(p) == MayRun(p) /\ ran' = ran \cup {p} /\ UNCHANGED program

DeliverInstruction ==
  MayRun("frontend") /\ PushInstruction /\ UNCHANGED <<ran, program, history>>

RunFrontEnd  == Runs("frontend") /\ FrontEndDone /\ UNCHANGED history
RunDispatch  == Runs("dispatch") /\ DispatchWork /\ UNCHANGED <<decoded, fetch_pc, history>>
RunExecute   == Runs("execute") /\ ExecuteWork /\ Record /\ UNCHANGED <<decoded, fetch_pc>>
RunWriteback == Runs("writeback") /\ WritebackWork /\ UNCHANGED <<decoded, fetch_pc, history>>
RunMemory    == Runs("memory") /\ DataMemoryWork /\ UNCHANGED <<decoded, fetch_pc, history>>

(* The update phase of the kernel, and the next rising edge. *)
Tick ==
  /\ halted = "no"
  /\ ran = Process
  /\ ran' = {}
  /\ sig' = nxt
  /\ UNCHANGED <<regfile, queues, nxt, ex, mem, d_resp, host,
                 decoded, program, fetch_pc, history>>

(* sc_stop() and a failed assertion end the run. *)
Stopped == halted # "no" /\ UNCHANGED vars

Init ==
  /\ program \in Programs
  /\ \E start \in DOMAIN program : /\ \A a \in DOMAIN program : start <= a
                                   /\ fetch_pc = start
                                   /\ arch_pc = start
  /\ arch_uops = 0
  /\ regfile \in RegsInit
  /\ dd_uop_queue = <<>> /\ de_uop_queue = <<>> /\ ew_uop_queue = <<>>
  /\ sig = IdleSignals /\ nxt = IdleSignals
  /\ \E sp \in StackpointerInit, changed \in RipChangedInit :
       ex = [state |-> "NORMAL", Op |-> NoUop,
             prev_reg1 |-> "none", prev_value1 |-> 0,
             prev_reg2 |-> "none", prev_value2 |-> 0,
             expected_addr |-> 0, prev_addr |-> 0,
             rip_changed |-> changed, firstrun |-> TRUE,
             stackpointer |-> sp, offsetreg |-> 0,
             eflags |-> [CF |-> FALSE, ZF |-> FALSE, SF |-> FALSE, OF |-> FALSE]]
  /\ mem = [a \in Word |-> a]
  /\ d_resp = {}
  /\ brk_val = 0 /\ out = <<>> /\ halted = "no"
  /\ ran = {} /\ decoded = 0

Next ==
  \/ DeliverInstruction
  \/ RunFrontEnd \/ RunDispatch \/ RunExecute \/ RunWriteback \/ RunMemory
  \/ Tick \/ Stopped

Spec == Init /\ [][Next]_vars

(* The clock never stops; the instruction memory goes on answering, because*)
(* Fetch always has a request out; and so does the data memory, whose      *)
(* latencies are finite.                                                   *)
Answered == \E left \in SUBSET d_resp :
              sig.d_op = "READ" /\ Deliver(sig.d_addr) /\ AcceptRequest(left)
Fairness ==
  /\ WF_vars(RunFrontEnd \/ RunDispatch \/ RunExecute \/ RunWriteback \/ RunMemory \/ Tick)
  /\ SF_vars(DeliverInstruction)
  /\ SF_vars(RunMemory /\ Answered)

FairSpec == Spec /\ Fairness

-----------------------------------------------------------------------------
(* Properties that hold whatever the order of the processes in a cycle. *)

TypeOK ==
  /\ CommonTypeOK
  /\ ran \subseteq Process
  /\ decoded \in Nat
  /\ IsProgram(program)
  /\ fetch_pc \in Word
  /\ arch_pc \in Word
  /\ arch_uops \in Nat

(* Execute and Writeback agree on the queue between them although they see  *)
(* each other's out_ready a cycle late: out_ready says whether one micro-op*)
(* is waiting, so nothing is left behind and nothing is retired twice, and *)
(* the stall of Execute for a full queue (execute.cc:296) is never needed. *)
EwHandshake ==
  /\ Len(ew_uop_queue) <= 2
  /\ halted = "no" /\ ran = {} => Len(ew_uop_queue) = IF sig.ew_ready THEN 1 ELSE 0

(* The micro-ops waiting in Execute belong to one instruction: dispatch     *)
(* waits for the queue to drain (dispatch.cc:57) and stops at the next     *)
(* address. Forwarding only patches the head's instruction and relies on it*)
OneInstruction ==
  \A i, j \in 1 .. Len(de_uop_queue) : de_uop_queue[i].address = de_uop_queue[j].address

(* A taken jump, call or ret leaves nothing of the wrong path behind: at the*)
(* end of the one cycle in which `clear` is up both queues before Execute  *)
(* are empty, though Dispatch and the decoder may have pushed into them    *)
(* after Execute raised it.                                                *)
FlushComplete ==
  halted = "no" /\ ran = Process /\ sig.clear =>
    dd_uop_queue = <<>> /\ de_uop_queue = <<>> /\ ~nxt.clear

(* The address check of Execute (execute.cc:323) never drops a micro-op:    *)
(* flushing alone keeps the wrong path out.                                *)
NothingDropped == MayRun("execute") /\ CanStart => ~Unexpected

(* The entries of a queue, numbered within their instructions: an entry    *)
(* whose address is not that of the one before opens an instruction, and the*)
(* first may be in the middle of one.                                      *)
Opens(q, i) == i = 1 \/ q[i].address # q[i - 1].address
Begin(q, i) == CHOOSE k \in 1 .. i : Opens(q, k) /\ \A m \in k + 1 .. i : ~Opens(q, m)
Place(q, i) == (i - Begin(q, i)) + (IF Begin(q, i) = 1 THEN arch_uops ELSE 0) + 1

(* No micro-op is lost, duplicated or reordered between the decoder and     *)
(* Execute, across half-moved instructions, flushes and loops: what the two*)
(* queues hold is exactly the program from the micro-op to complete next to*)
(* the one fetched last, unless a redirect is on its way.                  *)
InFlight ==
  LET q == de_uop_queue \o dd_uop_queue
      SameUop(u, t) == u.opcode = t.opcode /\ u.opsize = program[u.address].size
      Follows(i) == Trunc(q[i].address + q[i].opsize)
  IN ~nxt.change_RIP /\ ~sig.change_RIP /\ halted = "no" =>
       /\ q = <<>> => fetch_pc = arch_pc /\ arch_uops = 0
       /\ q # <<>> => q[1].address = arch_pc /\ fetch_pc = Follows(Len(q))
       /\ \A i \in 1 .. Len(q) :
            LET uops == program[q[i].address].uops
            IN /\ Place(q, i) <= Len(uops) /\ SameUop(q[i], uops[Place(q, i)])
               /\ (i = Len(q) \/ Opens(q, i + 1)) => Place(q, i) = Len(uops)
               /\ Opens(q, i) /\ i > 1 => q[i].address = Follows(i - 1)

(* Every straight-line or forward-jumping program comes to its end: no two  *)
(* of the ready signals wait for each other.                               *)
Terminates == <>(halted # "no" \/ arch_pc \notin DOMAIN program)

(* README:4: "all of the uops that correspond to one instruction will be    *)
(* pushed into the execute buffer at once".                                *)
WholeInstructions ==
  [][de_uop_queue = <<>> /\ de_uop_queue' # <<>>
       => Len(de_uop_queue') = Len(program[de_uop_queue'[1].address].uops)]_vars
=============================================================================
