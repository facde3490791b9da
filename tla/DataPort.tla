------------------------------ MODULE DataPort ------------------------------
(***************************************************************************)
(* Memory with the core at its ports, in the way Execute and Fetch use     *)
(* them.  Execute puts a request on the data port and leaves it there; it  *)
(* goes on at once after a WRITE and waits for an answer with the address  *)
(* of a READ.  Fetch asks for a block, and for another when it is answered *)
(* or redirected.                                                          *)
(* A cycle is one action: both sides read the signals of this cycle and    *)
(* write those of the next.                                                *)
(***************************************************************************)
EXTENDS Memory, FiniteSets

VARIABLES
  reading,  \* STATE_READ: the address Execute waits for, if any
  waited,   \* for how many cycles it has waited
  \* history, read by the properties only
  wrote,    \* the address of a WRITE put on the port in the last cycle, if any
  raced,    \* the READ followed such a WRITE of its address at once
  latest    \* the last value written to each address, in program order

portVars == <<memoryVars, reading, waited, wrote, raced, latest>>

(* Answered(a): the check of execute.cc before the data is used. *)
IsAnswer(a) == d_out.ready /\ d_out.tag = a

Read(a) ==
  /\ reading = {}
  /\ d_in' = [d_in EXCEPT !.op = "READ", !.addr = a]
  /\ reading' = {a} /\ waited' = 0 /\ wrote' = {} /\ raced' = (a \in wrote)
  /\ UNCHANGED latest

Write(a, v) ==
  /\ reading = {}
  /\ d_in' = [op |-> "WRITE", addr |-> a, din |-> v]
  /\ wrote' = {a} /\ latest' = [latest EXCEPT ![a] = v]
  /\ UNCHANGED <<reading, waited, raced>>

(* Execute has no use for the port in this cycle. *)
Compute ==
  /\ reading = {}
  /\ wrote' = {}
  /\ UNCHANGED <<d_in, reading, waited, raced, latest>>

WaitFor(a) ==
  /\ a \in reading /\ ~IsAnswer(a)
  /\ waited' = waited + 1
  /\ UNCHANGED <<d_in, reading, wrote, raced, latest>>

Take(a) ==
  /\ a \in reading /\ IsAnswer(a)
  /\ reading' = {} /\ waited' = 0 /\ wrote' = {}
  /\ UNCHANGED <<d_in, raced, latest>>

ExecuteSide ==
  \/ \E a \in DAddr : Read(a) \/ WaitFor(a) \/ Take(a) \/ \E v \in Value : Write(a, v)
  \/ Compute

(* Fetch asks for a block: the first, the one after the block answered, or, *)
(* redirected at any moment, another in place of the one it waits for.     *)
FetchSide ==
  \/ \E a \in IAddr : i_in' = [op |-> "READ", addr |-> a]
  \/ /\ i_in.op # "NONE" /\ ~(i_out.ready /\ i_out.tag = i_in.addr)
     /\ UNCHANGED i_in

PortInit ==
  /\ MemoryInit
  /\ reading = {} /\ waited = 0 /\ wrote = {} /\ raced = FALSE /\ latest = mem

PortNext == ExecuteSide /\ FetchSide /\ MemoryWork

PortSpec == PortInit /\ [][PortNext]_portVars

-----------------------------------------------------------------------------
(* The types of the signals, and the caches stay within their capacity with *)
(* no address twice, although two ports share the second level and a dirty *)
(* victim puts an address there first (memory.cc:146-194, lruset.h:26-34). *)
MemoryTypeOK ==
  /\ i_in \in [op : {"NONE", "READ"}, addr : IAddr]
  /\ d_in \in [op : {"NONE", "READ", "WRITE"}, addr : DAddr, din : Value]
  /\ IsLruSet(cache.L1i, L1Size, IAddr, Dirty)
  /\ IsLruSet(cache.L1d, L1Size, DAddr, Dirty)
  /\ IsLruSet(cache.L2, L2Size, IAddr \cup DAddr, Dirty)

Responses(port) == {e.val : e \in BagToSet(port.resp)}

(* An address with a missing request registered has a response on its way:  *)
(* the requests that joined it are never stranded, although a delivery     *)
(* removes the register in the very cycle in which another request may     *)
(* want to join (memory.cc:107-198).                                       *)
NoWaiterLost ==
  \A port \in {i_port, d_port} : DOMAIN port.mshr \subseteq Responses(port)

(* The requests a port has not answered yet, each with a number among its  *)
(* equals.                                                                 *)
Numbered(kind, counts, S) == UNION {{<<kind, x, n>> : n \in 1 .. counts[x]} : x \in S}

Outstanding(port) ==
  Numbered("response", port.resp, BagToSet(port.resp))
  \cup Numbered("waiting", port.mshr, DOMAIN port.mshr)

ILongest == ILatency + L2Latency + MemLatency
DLongest == DLatency + L2Latency + MemLatency

(* The requests that are made again in every cycle, because nobody takes    *)
(* them off the port, pile up no further than the longest latency: one is  *)
(* delivered in each cycle (memory.cc:107-136, delaybucket.h).             *)
BacklogBounded ==
  /\ Cardinality(Outstanding(i_port)) <= ILongest
  /\ Cardinality(Outstanding(d_port)) <= DLongest

(* A READ that Execute waits for (execute.cc:222) is answered within the    *)
(* longest latency, whatever is queued in front of it: the responses due at*)
(* once never starve it (memory.cc:107-198, delaybucket.h:14).             *)
ReadAnswered == waited <= DLongest + 1

(* A READ is answered with what the program last wrote there, although old  *)
(* responses for the address are still coming and each is read before the  *)
(* write of its cycle (memory.cc:122-136, 164-198).  The exception is exact*)
(* : a READ put on the port in the cycle after a WRITE to its address.     *)
FreshRead ==
  \A a \in DAddr : a \in reading /\ IsAnswer(a) /\ ~raced => d_out.data = latest[a]

(* The data port as the back end has it: an address is answerable while a  *)
(* response or a waiting request for it is outstanding.                    *)
Port == INSTANCE DataMemory WITH
  WordBits <- 1, WordMod <- 2, GPR <- {}, SlotSize <- 1, Garbage <- {}, SysNo <- <<>>,
  Clock <- {}, ValidAddr <- DAddr,
  regfile <- <<>>, dd_uop_queue <- <<>>, de_uop_queue <- <<>>, ew_uop_queue <- <<>>,
  ex <- <<>>, brk_val <- 0, out <- <<>>, halted <- "no",
  sig <- [d_op |-> d_in.op, d_addr |-> d_in.addr, d_dout |-> d_in.din],
  nxt <- [d_ready |-> d_out.ready, d_tagout |-> d_out.tag, d_data |-> d_out.data],
  d_resp <- Responses(d_port) \cup DOMAIN d_port.mshr

(* Every call of work() is a step of DataMemory, the port the back end was  *)
(* checked with: only an address that was requested is answered, with what *)
(* memory held at delivery (memory.cc:101-201).                            *)
ImplementsPort == [][Port!PortWork]_memoryVars
=============================================================================
