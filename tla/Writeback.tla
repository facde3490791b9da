------------------------------ MODULE Writeback ------------------------------
(***************************************************************************)
(* Writeback::work(): retires at most one micro-op per cycle into the      *)
(* register file, and only if Execute raised out_ready a cycle ago.        *)
(***************************************************************************)
EXTENDS Common

(* The register file after a micro-op has retired.  The destination is reg2;*)
(* call, ret and pop also move rsp (push and pushfq do not), and the double-*)
(* width operations overwrite rax and rdx.                                  *)
Retired(rf, u) ==
  [r \in DOMAIN rf |->
     IF r = "rsp" /\ u.opcode \in {"call", "ret", "pop"} THEN u.value3
     ELSE IF r = "rdx" /\ WritesRdx(u) THEN u.value3
     ELSE IF r = "rax" /\ WritesRdx(u) THEN u.value2
     ELSE IF r = u.reg2 THEN u.value2
     ELSE IF r = "rip" THEN Trunc(u.address + u.opsize)
     ELSE rf[r]]

RetireUop ==
  /\ sig.ew_ready
  /\ ew_uop_queue # <<>>
  /\ regfile' = Retired(regfile, Head(ew_uop_queue))
  /\ ew_uop_queue' = Tail(ew_uop_queue)

NothingToRetire ==
  /\ ~sig.ew_ready \/ ew_uop_queue = <<>>
  /\ UNCHANGED <<regfile, ew_uop_queue>>

WritebackWork ==
  /\ RetireUop \/ NothingToRetire
  /\ UNCHANGED <<dd_uop_queue, de_uop_queue, sig, nxt, ex, mem, d_resp, host>>
=============================================================================
