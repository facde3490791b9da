----------------------------- MODULE MCDataPort -----------------------------
(***************************************************************************)
(* The ports with several values at two addresses of data and one block of *)
(* instructions, or with one value at one address and Fetch redirected     *)
(* from one block to another.                                              *)
(***************************************************************************)
EXTENDS DataPort, TLC

VARIABLE busy  \* the blocks, addresses and values this run of the program uses

Workloads ==
  [block : {{x} : x \in IAddr}, addr : {DAddr}, value : {Value}]
  \cup [block : {IAddr}, addr : {{x} : x \in DAddr}, value : {{v} : v \in Value}]

MCInit == PortInit /\ busy \in Workloads /\ \A a \in DAddr : mem[a] \in busy.value

MCNext ==
  /\ PortNext
  /\ i_in'.addr \in busy.block
  /\ d_in'.op # "NONE" => d_in'.addr \in busy.addr
  /\ d_in'.op = "WRITE" => d_in'.din \in busy.value
  /\ UNCHANGED busy

MCSpec == MCInit /\ [][MCNext]_<<portVars, busy>>

(* No definition tells two addresses of a kind apart.                      *)
Interchangeable == Permutations(IAddr) \cup Permutations(DAddr)
=============================================================================
