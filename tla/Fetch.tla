-------------------------------- MODULE Fetch --------------------------------
(***************************************************************************)
(* Fetch::work() (fetch.cc) and the signals around it, with the one        *)
(* instruction port of Memory.  Bytes are their own contents: the byte at  *)
(* address a is a, so what the decoder is given says where it came from.   *)
(* The address space is a ring of blocks.                                  *)
(***************************************************************************)
EXTENDS Memory, FiniteSets

CONSTANTS BlockSize, Blocks

ASSUME BlockAssumption == BlockSize \in Nat \ {0} /\ Blocks \in Nat \ {0}
ASSUME BlockAddrAssumption == IAddr = {k * BlockSize : k \in 0 .. Blocks - 1}

Byte == 0 .. BlockSize * Blocks - 1
Plus(a, n) == (a + n) % (BlockSize * Blocks)
Aligned(a) == a - (a % BlockSize)

(* What is read where there is no byte of the block. *)
Pad == -1

VARIABLES
  redirect,  \* signals clear, change_RIP and new_RIP: the target, if raised
  fd,        \* signals out_ready, out_addr, out_alignedaddr, out_data
  RIP, prev_tag, firstRunFlag,
  RIP_jump,  \* global: the next block begins at the target of a jump
  RSP,       \* fetch.RSP
  rsp,       \* regfile.rsp
  resets     \* the modules whose do_reset() is still to run

fetchVars == <<redirect, fd, RIP, prev_tag, firstRunFlag, RIP_jump, RSP, rsp, resets>>

(* The bytes of a block from one of them on, shifted in from the end.      *)
Shifted(base, offset) ==
  [k \in 1 .. BlockSize |-> IF k <= offset THEN Pad ELSE base + k - 1]

StackBase == "stack_base"

FetchInit ==
  /\ redirect = {}
  /\ fd = [ready |-> FALSE, addr |-> 0, align |-> 0, data |-> Shifted(0, 0)]
  /\ RIP = 0 /\ prev_tag = 0 /\ firstRunFlag = TRUE /\ RIP_jump = FALSE
  /\ RSP = "unset" /\ rsp = "unset" /\ resets = {"core", "fetch", "dispatch"}

(* do_reset(): the kernel runs the methods one after the other in any order*)
(* before the first clock edge.  The core knows the entry point and the    *)
(* stack, Fetch copies its RSP whatever it is, Dispatch zeroes the register*)
(* file.                                                                   *)
ResetBy(module) == module \in resets /\ resets' = resets \ {module}

CoreReset(entry) ==
  /\ ResetBy("core")
  /\ RIP' = entry /\ RSP' = StackBase /\ rsp' = StackBase

FetchReset    == ResetBy("fetch") /\ rsp' = RSP /\ UNCHANGED <<RIP, RSP>>
DispatchReset == ResetBy("dispatch") /\ rsp' = "zero" /\ UNCHANGED <<RIP, RSP>>

(* Slip: the request is left to the next cycle. *)
RestartLater(target) ==
  /\ target \in redirect
  /\ RIP' = target /\ prev_tag' = target
  /\ fd' = [fd EXCEPT !.ready = FALSE, !.addr = 0, !.data = [k \in 1 .. BlockSize |-> Pad]]
  /\ UNCHANGED <<i_in, firstRunFlag, rsp>>

(* Execute raises clear and change_RIP together, for one cycle. *)
Restart(target) ==
  /\ target \in redirect
  /\ i_in' = [op |-> "READ", addr |-> Aligned(target)]
  /\ RIP' = target /\ prev_tag' = target
  /\ fd' = [fd EXCEPT !.ready = FALSE, !.addr = 0, !.data = [k \in 1 .. BlockSize |-> Pad]]
  /\ UNCHANGED <<firstRunFlag, rsp>>

(* Slip: the stack pointer is left to the resets. *)
FirstRequestOnly ==
  /\ redirect = {} /\ firstRunFlag
  /\ i_in' = [op |-> "READ", addr |-> Aligned(RIP)]
  /\ prev_tag' = RIP
  /\ firstRunFlag' = FALSE
  /\ fd' = [fd EXCEPT !.ready = FALSE]
  /\ UNCHANGED <<RIP, rsp>>

FirstRequest ==
  /\ redirect = {} /\ firstRunFlag
  /\ i_in' = [op |-> "READ", addr |-> Aligned(RIP)]
  /\ prev_tag' = RIP
  /\ firstRunFlag' = FALSE
  /\ rsp' = RSP
  /\ fd' = [fd EXCEPT !.ready = FALSE]
  /\ UNCHANGED RIP

(* Slip: any response is taken. *)
WantedAny == i_out.ready

(* Only the tag tells a response that is wanted from one that is late. *)
Wanted == i_out.ready /\ i_out.tag = Aligned(prev_tag)

AcceptBlock ==
  /\ redirect = {} /\ ~firstRunFlag /\ Wanted
  /\ LET offset == prev_tag - i_out.tag
         next == Plus(Aligned(RIP), BlockSize)
     IN /\ fd' = [ready |-> TRUE, addr |-> i_out.tag, align |-> offset,
                  data |-> Shifted(i_out.tag, offset)]
        /\ RIP' = next /\ prev_tag' = next
        /\ i_in' = [op |-> "READ", addr |-> next]
  /\ UNCHANGED <<firstRunFlag, rsp>>

KeepWaiting ==
  /\ redirect = {} /\ ~firstRunFlag /\ ~Wanted
  /\ fd' = [fd EXCEPT !.ready = FALSE]
  /\ UNCHANGED <<i_in, RIP, prev_tag, firstRunFlag, rsp>>

FetchWork ==
  /\ (\E t \in redirect : Restart(t)) \/ FirstRequest \/ AcceptBlock \/ KeepWaiting
  /\ UNCHANGED <<RSP, resets>>
=============================================================================
