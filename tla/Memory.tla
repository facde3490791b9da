------------------------------- MODULE Memory -------------------------------
(***************************************************************************)
(* Memory<1,1>::work() (memory.cc): an instruction and a data port, each   *)
(* with a bucket of responses and a table of missing requests (MSHRs), two *)
(* first-level caches and a second-level cache that only decide how long a *)
(* response takes.  A port that asks for an address with a response on its *)
(* way is put on that address's waiting list; a delivery turns the waiting *)
(* list into responses that are due at once.  Nobody takes a request off   *)
(* the port, so it is made again in every cycle.                           *)
(*                                                                         *)
(* Abstractions. Latencies are in clock cycles. A request's tag is its     *)
(* address, as Fetch and Execute use it, so a waiting list is a number.    *)
(* Instruction bytes are not modelled: a response is the block's address.  *)
(* Addresses are those the assertions accept.                              *)
(***************************************************************************)
EXTENDS LruSet, DelayBucket

CONSTANTS
  IAddr, DAddr, Value,
  L1Size, L2Size,
  ILatency, DLatency,  \* a hit in the first level
  L2Latency,           \* more, for a hit in the second
  MemLatency           \* more, for memory

ASSUME NonemptyAssumption == IAddr # {} /\ DAddr # {} /\ Value # {}
ASSUME SizeAssumption == L1Size \in Nat \ {0} /\ L2Size \in Nat \ {0}
ASSUME LatencyAssumption ==
  {ILatency, DLatency, L2Latency, MemLatency} \subseteq Nat \ {0}

VARIABLES
  i_in, i_out,     \* signals: i_op, i_addr; i_ready, i_tagout
  d_in, d_out,     \* d_op, d_addr, d_din; d_ready, d_tagout, d_data
  i_port, d_port,  \* [resp : delay bucket, mshr : address |-> waiting requests]
  cache,   \* [L1i, L1d, L2]
  mem

memoryVars == <<i_in, i_out, d_in, d_out, i_port, d_port, cache, mem>>

Dirty == {"CLEAN", "DIRTY"}

EmptyPort == [resp |-> EmptyBag, mshr |-> <<>>]

MemoryInit ==
  /\ i_in = [op |-> "NONE", addr |-> CHOOSE a \in IAddr : TRUE]
  /\ i_out = [ready |-> FALSE, tag |-> i_in.addr]
  /\ d_in = [op |-> "NONE", addr |-> CHOOSE a \in DAddr : TRUE,
             din |-> CHOOSE v \in Value : TRUE]
  /\ d_out = [ready |-> FALSE, tag |-> d_in.addr, data |-> d_in.din]
  /\ i_port = EmptyPort /\ d_port = EmptyPort
  /\ cache = [L1i |-> <<>>, L1d |-> <<>>, L2 |-> <<>>]
  /\ mem \in [DAddr -> Value]

-----------------------------------------------------------------------------
(* Slip: the entry of the missing request stays. *)
DeliveredKept(port, e) ==
  LET waiting == IF e.val \in DOMAIN port.mshr THEN port.mshr[e.val] ELSE 0
  IN [port EXCEPT !.resp = Add(Removed(@, e), e.val, 0, waiting)]

(* Slip: the response stays in the bucket. *)
DeliveredAgain(port, e) ==
  LET waiting == IF e.val \in DOMAIN port.mshr THEN port.mshr[e.val] ELSE 0
  IN [resp |-> Add(port.resp, e.val, 0, waiting),
      mshr |-> [a \in DOMAIN port.mshr \ {e.val} |-> port.mshr[a]]]

(* A delivery. *)
Delivered(port, e) ==
  LET waiting == IF e.val \in DOMAIN port.mshr THEN port.mshr[e.val] ELSE 0
  IN [resp |-> Add(Removed(port.resp, e), e.val, 0, waiting),
      mshr |-> [a \in DOMAIN port.mshr \ {e.val} |-> port.mshr[a]]]

(* A request that joins the waiting list, and one that is sent on. *)
Joined(port, a) == [port EXCEPT !.mshr[a] = @ + 1]

Sent(port, a, latency) ==
  [resp |-> Add(port.resp, a, latency, 1),
   mshr |-> [b \in DOMAIN port.mshr \cup {a} |-> IF b = a THEN 0 ELSE port.mshr[b]]]

Aged(port) == [port EXCEPT !.resp = Elapsed(@)]

(* The second level, looked up after a miss in the first. *)
L2Found(L2, a) == IF Has(L2, a) THEN Promote(L2, a) ELSE Put(L2, L2Size, a, "CLEAN")
MissLatency(L2, a) == L2Latency + (IF Has(L2, a) THEN 0 ELSE MemLatency)

-----------------------------------------------------------------------------
(* What get() may find: a response that is due, or none. *)
Answers(port) ==
  IF Due(port.resp) = {} THEN {[ready |-> FALSE, port |-> port]}
  ELSE {[ready |-> TRUE, addr |-> e.val, port |-> Delivered(port, e)] : e \in Due(port.resp)}

(* The output signals; the data is read before the write of this cycle is  *)
(* done.                                                                   *)
AnswerInstruction(i) ==
  i_out' = IF i.ready THEN [ready |-> TRUE, tag |-> i.addr] ELSE [i_out EXCEPT !.ready = FALSE]

(* Slip: the write of this cycle is done first. *)
AnswerDataWritten(d) ==
  d_out' = IF d.ready
           THEN [ready |-> TRUE, tag |-> d.addr,
                 data |-> IF d_in.op = "WRITE" /\ d_in.addr = d.addr
                          THEN d_in.din ELSE mem[d.addr]]
           ELSE [d_out EXCEPT !.ready = FALSE]

AnswerData(d) ==
  d_out' = IF d.ready THEN [ready |-> TRUE, tag |-> d.addr, data |-> mem[d.addr]]
           ELSE [d_out EXCEPT !.ready = FALSE]

(* The instruction request on the port, with the port as it is after the   *)
(* delivery and the caches as they are.  The result: the port, the caches. *)
InstructionRequest(port) ==
  LET a == i_in.addr
      L1hit == Has(cache.L1i, a)
  IN CASE i_in.op = "NONE" -> [port |-> port, cache |-> cache]
       [] i_in.op # "NONE" /\ a \in DOMAIN port.mshr ->
            [port |-> Joined(port, a), cache |-> cache]
       [] i_in.op # "NONE" /\ a \notin DOMAIN port.mshr ->
            [port  |-> Sent(port, a,
                         ILatency + IF L1hit THEN 0 ELSE MissLatency(cache.L2, a)),
             cache |-> IF L1hit THEN [cache EXCEPT !.L1i = Promote(@, a)]
                       ELSE [cache EXCEPT !.L1i = Put(@, L1Size, a, "CLEAN"),
                                          !.L2 = L2Found(@, a)]]

(* The address that is written back when a dirty line leaves L1d: it should*)
(* be the victim's, it is the requested one.                               *)
L2AfterVictim(c, a) ==
  IF \E e \in Evicted(c.L1d, L1Size) : e.val = "DIRTY"
  THEN IF Has(c.L2, a) THEN Mark(c.L2, a, "DIRTY") ELSE Put(c.L2, L2Size, a, "DIRTY")
  ELSE c.L2

(* The data request, after the instruction port has used the caches. *)
DataRequest(port, c) ==
  LET a == d_in.addr
      L1hit == Has(c.L1d, a)
      L2 == L2AfterVictim(c, a)
      filled == IF d_in.op = "READ" THEN "CLEAN" ELSE "DIRTY"
      touched == Promote(c.L1d, a)
  IN CASE d_in.op = "NONE" -> [port |-> port, cache |-> c]
       [] d_in.op # "NONE" /\ a \in DOMAIN port.mshr ->
            [port |-> Joined(port, a), cache |-> c]
       [] d_in.op # "NONE" /\ a \notin DOMAIN port.mshr ->
            [port  |-> Sent(port, a, DLatency + IF L1hit THEN 0 ELSE MissLatency(L2, a)),
             cache |-> IF L1hit
                       THEN [c EXCEPT !.L1d = IF d_in.op = "WRITE"
                                              THEN Mark(touched, a, "DIRTY") ELSE touched]
                       ELSE [c EXCEPT !.L1d = Put(@, L1Size, a, filled),
                                      !.L2 = L2Found(L2, a)]]

(* Slip: a write that joins a waiting list is not done. *)
MemoryWorkSentWrites ==
  /\ \E i \in Answers(i_port), d \in Answers(d_port) :
       LET ir == InstructionRequest(i.port)
           dr == DataRequest(d.port, ir.cache)
       IN /\ AnswerInstruction(i) /\ AnswerData(d)
          /\ i_port' = Aged(ir.port)
          /\ d_port' = Aged(dr.port)
          /\ cache' = dr.cache
          /\ mem' = IF d_in.op = "WRITE" /\ d_in.addr \notin DOMAIN d.port.mshr
                    THEN [mem EXCEPT ![d_in.addr] = d_in.din] ELSE mem

(* One call of work(): the two ports deliver, then the requests on them are*)
(* taken, the instruction port first.                                      *)
MemoryWork ==
  /\ \E i \in Answers(i_port), d \in Answers(d_port) :
       LET ir == InstructionRequest(i.port)
           dr == DataRequest(d.port, ir.cache)
       IN /\ AnswerInstruction(i) /\ AnswerData(d)
          /\ i_port' = Aged(ir.port)
          /\ d_port' = Aged(dr.port)
          /\ cache' = dr.cache
  /\ mem' = IF d_in.op = "WRITE" THEN [mem EXCEPT ![d_in.addr] = d_in.din] ELSE mem
=============================================================================
