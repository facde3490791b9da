------------------------------ MODULE Dispatch ------------------------------
(***************************************************************************)
(* Dispatch::work(): once Execute has drained its queue, moves micro-ops of*)
(* the instruction at the head of the decode queue into it, reading their  *)
(* operands from the register file.                                        *)
(***************************************************************************)
EXTENDS Common

(* Slip: a loop that takes the whole instruction.  Dispatch then finds its  *)
(* queue empty, lowers out_ready, and Execute never starts the rest.       *)
ContinuesToTheEnd(q, j) == j < Len(q) /\ q[j + 1].address = q[1].address
(* Slip: a loop that does not look at the address. *)
ContinuesAcross(q, j) == j < Len(q) - j

(* The `while(i < dd_uop_queue.size() && same address)` loop: the queue     *)
(* shrinks while i grows, so the (j+1)-th micro-op is moved only if j is    *)
(* smaller than what is left after j pops.                                  *)
Continues(q, j) == j < Len(q) - j /\ q[j + 1].address = q[1].address

IsBatch(q, n) == /\ n \in 1 .. Len(q)
                 /\ \A j \in 0 .. (n - 1) : Continues(q, j)
                 /\ ~(n < Len(q) /\ Continues(q, n))

(* The value a register operand reads; a register that is no case of the   *)
(* switch leaves the field as it was.                                      *)
Read(u, r, old) == IF r = "rip" THEN Trunc(u.address + u.opsize)
                   ELSE IF r \in GPR THEN regfile[r] ELSE old

ReadOperands(u) ==
  LET immediate == u.src \in {"IMMED", "IMUL_2I", "LOADMUL"}
      register  == u.src \in {"REG", "IMUL_2R", "IMUL_3"}
  IN [u EXCEPT
        !.reg1   = IF immediate THEN "scratch" ELSE @,
        !.value1 = IF immediate THEN u.immed
                   ELSE IF register THEN Read(u, u.reg1, @) ELSE @,
        !.value2 = Read(u, u.reg2, @),
        !.value3 = Read(u, u.reg3, @)]

(* The operands an opcode implies. *)
ImpliedOperands(u) ==
  CASE u.opcode \in {"call", "ret", "pop", "push", "pushfq"} ->
         [u EXCEPT !.reg3 = "rsp", !.value3 = regfile["rsp"]]
    [] u.opcode \in {"mul", "div", "idiv"} \/ (u.opcode = "imul" /\ u.src = "IMUL_1") ->
         [u EXCEPT !.reg2 = "rax", !.value2 = regfile["rax"],
                   !.reg3 = "rdx", !.value3 = regfile["rdx"]]
    [] u.opcode = "nop" ->
         [u EXCEPT !.reg1 = "none", !.reg2 = "none", !.reg3 = "none",
                   !.value1 = 0, !.value2 = 0, !.value3 = 0]
    [] u.opcode = "cqo" ->
         [u EXCEPT !.reg1 = "rax", !.value1 = regfile["rax"],
                   !.reg2 = "rdx", !.value2 = 0]
    [] u.opcode = "imul" /\ u.src = "IMUL_3" /\ u.reg3 = "none" ->
         [u EXCEPT !.reg3 = "scratch", !.value3 = u.immed]
    [] OTHER -> u

Dispatched(u) == ImpliedOperands(ReadOperands(u))

DispatchReady(b) == nxt' = [nxt EXCEPT !.de_ready = b]

(* Slip: only the ready signal is reset. *)
ClearReadyOnly ==
  /\ sig.clear
  /\ UNCHANGED <<dd_uop_queue, de_uop_queue>>
  /\ DispatchReady(FALSE)

(* Execute redirects the front end: the decode queue is emptied. *)
ClearQueue ==
  /\ sig.clear
  /\ dd_uop_queue' = <<>>
  /\ UNCHANGED de_uop_queue
  /\ DispatchReady(FALSE)

NothingToDispatch ==
  /\ ~sig.clear
  /\ ~sig.dd_ready \/ dd_uop_queue = <<>>
  /\ UNCHANGED <<dd_uop_queue, de_uop_queue>>
  /\ DispatchReady(FALSE)

ExecuteBusy ==
  /\ ~sig.clear /\ sig.dd_ready /\ dd_uop_queue # <<>>
  /\ de_uop_queue # <<>>
  /\ UNCHANGED <<dd_uop_queue, de_uop_queue>>
  /\ DispatchReady(TRUE)

DispatchBatch ==
  /\ ~sig.clear /\ sig.dd_ready /\ dd_uop_queue # <<>>
  /\ de_uop_queue = <<>>
  /\ \E n \in 1 .. Len(dd_uop_queue) :
       /\ IsBatch(dd_uop_queue, n)
       /\ de_uop_queue' = [i \in 1 .. n |-> Dispatched(dd_uop_queue[i])]
       /\ dd_uop_queue' = SubSeq(dd_uop_queue, n + 1, Len(dd_uop_queue))
  /\ DispatchReady(TRUE)

DispatchWork ==
  /\ ClearQueue \/ NothingToDispatch \/ ExecuteBusy \/ DispatchBatch
  /\ UNCHANGED <<regfile, ew_uop_queue, sig, ex, mem, d_resp, host>>
=============================================================================
