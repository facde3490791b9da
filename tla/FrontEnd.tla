------------------------------ MODULE FrontEnd ------------------------------
(***************************************************************************)
(* Fetch, Decoder and the instruction port of Memory, cycle by cycle, with *)
(* the redirects of Execute.  A cycle is one action: the three processes   *)
(* share nothing but signals and RIP_jump, and the order in which they run *)
(* does not matter for either.                                             *)
(***************************************************************************)
EXTENDS Decoder

CONSTANT Targets  \* where Execute may redirect to

ASSUME TargetsAssumption == Targets \subseteq Byte /\ Targets # {}

VARIABLES
  started,  \* an instruction of the current path has reached the back end
  \* history, read by the properties only
  pc,       \* the instruction that is to be delivered next
  intact    \* the path began at a byte the decoder does not spoil

frontVars == <<memoryVars, fetchVars, decoderVars, started, pc, intact>>

FrontInit ==
  /\ MemoryInit /\ DecoderInit /\ FetchInit
  /\ pc \in Targets /\ intact = (pc \notin code.low)
  /\ started = FALSE

(* A redirect is raised by an instruction that was delivered since the last*)
(* one: raising it empties the queues.                                     *)
ExecuteRedirects ==
  IF redirect # {} THEN redirect' = {} /\ started' = FALSE
  ELSE /\ started' = (started \/ batch' # <<>>)
       /\ redirect' = {} \/ (started /\ \E t \in Targets : redirect' = {t})

(* The addresses at which n instructions in a row begin and end. *)
StraightLine(a, n) ==
  LET at[k \in 0 .. n] == IF k = 0 THEN a ELSE Plus(at[k - 1], code.len[at[k - 1]]) IN at

Follow ==
  IF redirect # {}
  THEN \E t \in redirect : pc' = t /\ intact' = (t \notin code.low)
  ELSE pc' = StraightLine(pc, Len(batch'))[Len(batch')] /\ UNCHANGED intact

FrontReset ==
  /\ CoreReset(pc) \/ FetchReset \/ DispatchReset
  /\ UNCHANGED <<memoryVars, redirect, fd, prev_tag, firstRunFlag, RIP_jump, decoderVars,
                 started, pc, intact>>

FrontCycle ==
  /\ resets = {}
  /\ FetchWork /\ DecoderWork /\ MemoryWork /\ ExecuteRedirects /\ Follow /\ UNCHANGED d_in

FrontNext == FrontReset \/ FrontCycle

FrontSpec == FrontInit /\ [][FrontNext]_frontVars /\ WF_frontVars(FrontNext)

-----------------------------------------------------------------------------
(* Whatever order the reset methods run in (fetch.cc:6-11, dispatch.cc:25-32*)
(* , core_cse502.cc:6-11), the stack pointer is the core's once the first  *)
(* block has been asked for.                                               *)
StackReady == ~firstRunFlag => rsp = StackBase

Whole(a) == [addr |-> a, bytes |-> [k \in 1 .. code.len[a] |-> Plus(a, k - 1)]]

(* The instructions pushed by decode_opcodes() are those of the path, each  *)
(* once, in order and whole (fetch.cc:14-109, decoder.cc:510-673): blocks  *)
(* that arrive late after a redirect, the bytes left over from the path    *)
(* that was left and instructions across two blocks are dealt with.  It is *)
(* so for paths that begin at a byte whose first hex digit is not 0; the   *)
(* decoder strips such zeros (decoder.cc:586).                             *)
InOrder ==
  [][intact => \A n \in DOMAIN batch' : batch'[n] = Whole(StraightLine(pc, n - 1)[n - 1])]_frontVars

(* Whatever redirects come, and whatever of the old path is still on its    *)
(* way, Fetch's one request and the tag it waits for (fetch.cc:40-96) stay *)
(* in step: instructions keep coming until the next redirect.              *)
KeepsDelivering == []<>(batch # <<>> \/ redirect # {})
=============================================================================
