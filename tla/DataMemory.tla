----------------------------- MODULE DataMemory -----------------------------
(***************************************************************************)
(* The data port of Memory::work() as Execute sees it.  A request is       *)
(* answered after some cycles; d_op is never set back to NONE, so a request*)
(* is accepted again in every cycle it stays on the port and an address can*)
(* be answered several times.  d_resp holds the addresses that may still be*)
(* answered: it stands for the delay bucket and the miss registers, whose  *)
(* latencies are left open here.  Memory models them, and its data port is *)
(* shown to do what PortWork allows.                                       *)
(***************************************************************************)
EXTENDS Common

(* The response read at delivery, before this cycle's write is applied; the*)
(* address stays answerable if more requests for it are waiting.           *)
Deliver(a) ==
  /\ a \in d_resp
  /\ nxt' = [nxt EXCEPT !.d_ready = TRUE, !.d_tagout = a, !.d_data = mem[a]]

DeliverNothing == nxt' = [nxt EXCEPT !.d_ready = FALSE]

Requested == IF sig.d_op = "NONE" THEN {} ELSE {sig.d_addr}

AcceptRequest(left) ==
  /\ Requested \subseteq ValidAddr
  /\ d_resp' = left \cup Requested
  /\ mem' = IF sig.d_op = "WRITE" THEN [mem EXCEPT ![sig.d_addr] = sig.d_dout] ELSE mem
  /\ UNCHANGED halted

(* The assertions on the address of a request. *)
RejectRequest ==
  /\ ~(Requested \subseteq ValidAddr)
  /\ halted' = "abort"
  /\ UNCHANGED <<d_resp, mem>>

(* What a call may do at the port. *)
PortWork ==
  \/ \E a \in d_resp : \E left \in {d_resp, d_resp \ {a}} :
       Deliver(a) /\ (AcceptRequest(left) \/ RejectRequest)
  \/ DeliverNothing /\ (AcceptRequest(d_resp) \/ RejectRequest)

DataMemoryWork == PortWork /\ UNCHANGED <<regfile, queues, sig, ex, brk_val, out>>
=============================================================================
