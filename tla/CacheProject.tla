---------------------------- MODULE CacheProject ----------------------------
(***************************************************************************)
(* CacheProject::work() of the warm-up project (cache.h), with the six     *)
(* SRAMs it drives and one port.  A clock cycle is one action: CacheProject*)
(* and the SRAMs read the signals of this cycle (unprimed) and write those *)
(* of the next (primed), so the order in which the kernel calls them does  *)
(* not matter.  A request accepted in cycle t is seen by the SRAMs in t+1  *)
(* and read back in t+2; a write probe and an update first read the tag and*)
(* then take two cycles more.                                              *)
(*                                                                         *)
(* Abstraction. An address is a tag (addr & ~0x3FF) and an index (bits 6 to*)
(* 9); the offset in a block is left out.                                  *)
(***************************************************************************)
EXTENDS Naturals, Sram

CONSTANTS
  Tag, Index,
  Data,       \* contents of a block
  State,      \* state bits a host may store
  Miss,       \* the state 0xff
  ZeroTag, ZeroIndex, ZeroData, ZeroState  \* the bits of a fresh sc_bv

ASSUME ZeroAssumption ==
  ZeroTag \in Tag /\ ZeroIndex \in Index /\ ZeroData \in Data /\ ZeroState \in State
ASSUME MissAssumption == Miss \notin State

Addr == [tag : Tag, index : Index]
ZeroAddr == [tag |-> ZeroTag, index |-> ZeroIndex]

(* set_1 and set_2 are the ways 0 and 1, the values of `set`. *)
Way == {0, 1}

VARIABLES
  in,              \* in_ena, in_addr, ... : written by the wrapper
  port_available,
  out,             \* out_ready, out_token, out_addr, out_state, out_data
  pins,            \* the pins of the data, state and tag SRAMs
  data, state, tag, \* [Way -> SRAM]
  c                \* members of CacheProject

cacheVars == <<in, port_available, out, pins, data, state, tag, c>>

Inputs ==
  [ena : BOOLEAN, is_insert : BOOLEAN, has_data : BOOLEAN, needs_data : BOOLEAN,
   update_state : BOOLEAN, addr : Addr, data : Data, new_state : State]

Outputs ==
  [ready : BOOLEAN, token : Addr, addr : Tag, state : State \cup {Miss}, data : Data]

AllPins ==
  [data : Pins(Index, Data), state : Pins(Index, State), tag : Pins(Index, Tag)]

Members ==
  [operation : {"none", "insert", "read", "probe", "update"},
   opstate : 0 .. 2, waitdelay : 0 .. Delay, deassertoutput : BOOLEAN,
   set : Way, servaddr : Addr, newstate : State, newdata : Data, temptag : [Way -> Tag]]

(* The types: `set`, `opstate` and the waiting time of the members          *)
(* (cache.h:94-127) stay in their ranges over every operation.             *)
CacheTypeOK ==
  /\ in \in Inputs
  /\ port_available \in BOOLEAN
  /\ out \in Outputs
  /\ pins \in AllPins
  /\ data \in [Way -> SramOf(Index, Data)]
  /\ state \in [Way -> SramOf(Index, State)]
  /\ tag \in [Way -> SramOf(Index, Tag)]
  /\ c \in Members

Fresh(v) == [w \in Way |-> [cell |-> [i \in Index |-> v], dout |-> v]]
IdlePins(v) == [ena |-> FALSE, we |-> FALSE, addr |-> ZeroIndex, din |-> v]

(* Top is a global object: members and signals start as zero. *)
CacheInit ==
  /\ in = [ena |-> FALSE, is_insert |-> FALSE, has_data |-> FALSE, needs_data |-> FALSE,
           update_state |-> FALSE, addr |-> ZeroAddr, data |-> ZeroData,
           new_state |-> ZeroState]
  /\ port_available = TRUE
  /\ out = [ready |-> FALSE, token |-> ZeroAddr, addr |-> ZeroTag,
            state |-> ZeroState, data |-> ZeroData]
  /\ pins = [data |-> IdlePins(ZeroData), state |-> IdlePins(ZeroState),
             tag |-> IdlePins(ZeroTag)]
  /\ data = Fresh(ZeroData) /\ state = Fresh(ZeroState) /\ tag = Fresh(ZeroTag)
  /\ c = [operation |-> "none", opstate |-> 0, waitdelay |-> 0, deassertoutput |-> FALSE,
          set |-> 0, servaddr |-> ZeroAddr, newstate |-> ZeroState, newdata |-> ZeroData,
          temptag |-> [w \in Way |-> ZeroTag]]

-----------------------------------------------------------------------------
(* Slip: only the way in turn is clocked. *)
OneWayWorks ==
  /\ data'  = [data EXCEPT ![c.set] = Clocked(@, pins.data)]
  /\ state' = [state EXCEPT ![c.set] = Clocked(@, pins.state)]
  /\ tag'   = [tag EXCEPT ![c.set] = Clocked(@, pins.tag)]

(* The six SRAMs: both ways hang on the same pins. *)
SramsWork ==
  /\ data'  = [w \in Way |-> Clocked(data[w], pins.data)]
  /\ state' = [w \in Way |-> Clocked(state[w], pins.state)]
  /\ tag'   = [w \in Way |-> Clocked(tag[w], pins.tag)]

(* out_ready is lowered at the start of every call after a reply. *)
Lowered == [out EXCEPT !.ready = ~c.deassertoutput /\ @]

(* What every completed operation does to the members. *)
Completed(m) ==
  [m EXCEPT !.operation = "none", !.opstate = 0, !.waitdelay = 0, !.deassertoutput = TRUE]

Reply(st, t, d) ==
  /\ out' = [ready |-> TRUE, token |-> c.servaddr, addr |-> t, state |-> st, data |-> d]
  /\ port_available' = TRUE

(* The tags read, and the first way that holds the block. *)
ReadTags == [w \in Way |-> tag[w].dout]
Hits == {w \in Way : tag[w].dout = c.servaddr.tag}
FirstHit(w) == w \in Hits /\ \A v \in Hits : w <= v

Wait ==
  /\ c.waitdelay > 0
  /\ c' = [c EXCEPT !.waitdelay = @ - 1, !.deassertoutput = FALSE]
  /\ port_available' = FALSE
  /\ out' = [out EXCEPT !.ready = FALSE]
  /\ UNCHANGED pins

FinishInsert ==
  /\ c.waitdelay = 0 /\ c.operation = "insert"
  /\ pins' = [data |-> Off(pins.data), state |-> Off(pins.state), tag |-> Off(pins.tag)]
  /\ Reply(state[c.set].dout, c.temptag[c.set], out.data)
  /\ c' = Completed(c)

DisableAll ==
  pins' = [data |-> Disable(pins.data), state |-> Disable(pins.state), tag |-> Disable(pins.tag)]

(* Slip: the round robin is not taken modulo the number of ways. *)
FinishReadHitNext(w) ==
  /\ c.waitdelay = 0 /\ c.operation = "read" /\ FirstHit(w)
  /\ DisableAll
  /\ Reply(state[w].dout, tag[w].dout, data[w].dout)
  /\ c' = [Completed(c) EXCEPT !.temptag = ReadTags, !.set = @ + 1]

FinishReadHit(w) ==
  /\ c.waitdelay = 0 /\ c.operation = "read" /\ FirstHit(w)
  /\ DisableAll
  /\ Reply(state[w].dout, tag[w].dout, data[w].dout)
  /\ c' = [Completed(c) EXCEPT !.temptag = ReadTags, !.set = 1 - @]

FinishReadMiss ==
  /\ c.waitdelay = 0 /\ c.operation = "read" /\ Hits = {}
  /\ DisableAll
  /\ Reply(Miss, tag[c.set].dout, data[c.set].dout)
  /\ c' = [Completed(c) EXCEPT !.temptag = ReadTags]

(* Slip: an update writes the data as well. *)
TagsHitWithData ==
  /\ c.waitdelay = 0 /\ c.operation \in {"probe", "update"} /\ c.opstate = 1 /\ Hits # {}
  /\ pins' = [tag   |-> Off(pins.tag),
              state |-> WriteCell(pins.state, c.servaddr.index, c.newstate),
              data  |-> WriteCell(pins.data, c.servaddr.index, c.newdata)]
  /\ c' = [c EXCEPT !.temptag = ReadTags, !.opstate = 2, !.waitdelay = Delay,
                    !.deassertoutput = FALSE]
  /\ port_available' = FALSE
  /\ out' = [out EXCEPT !.ready = FALSE]

(* A write probe or an update has read the tags and the block is there: the*)
(* state and, for a write probe, the data are written.                     *)
TagsHit ==
  /\ c.waitdelay = 0 /\ c.operation \in {"probe", "update"} /\ c.opstate = 1 /\ Hits # {}
  /\ pins' = [tag   |-> Off(pins.tag),
              state |-> WriteCell(pins.state, c.servaddr.index, c.newstate),
              data  |-> IF c.operation = "probe"
                        THEN WriteCell(pins.data, c.servaddr.index, c.newdata)
                        ELSE pins.data]
  /\ c' = [c EXCEPT !.temptag = ReadTags, !.opstate = 2, !.waitdelay = Delay,
                    !.deassertoutput = FALSE,
                    !.set = IF c.operation = "probe" THEN 1 - @ ELSE @]
  /\ port_available' = FALSE
  /\ out' = [out EXCEPT !.ready = FALSE]

(* Slip: a miss is dropped without a reply. *)
TagsMissSilent ==
  /\ c.waitdelay = 0 /\ c.operation \in {"probe", "update"} /\ c.opstate = 1 /\ Hits = {}
  /\ pins' = [pins EXCEPT !.tag = Off(@)]
  /\ port_available' = TRUE /\ out' = Lowered
  /\ c' = [Completed(c) EXCEPT !.temptag = ReadTags]

TagsMiss ==
  /\ c.waitdelay = 0 /\ c.operation \in {"probe", "update"} /\ c.opstate = 1 /\ Hits = {}
  /\ pins' = [pins EXCEPT !.tag = Off(@)]
  /\ Reply(Miss, tag[c.set].dout, out.data)
  /\ c' = [Completed(c) EXCEPT !.temptag = ReadTags]

FinishWrite ==
  /\ c.waitdelay = 0 /\ c.operation \in {"probe", "update"} /\ c.opstate = 2
  /\ pins' = [pins EXCEPT !.state = Off(@),
                          !.data = IF c.operation = "probe" THEN Off(@) ELSE @]
  /\ Reply(state[c.set].dout, c.temptag[c.set], out.data)
  /\ c' = Completed(c)

-----------------------------------------------------------------------------
(* The request forms that are recognised, in the order of the tests; any   *)
(* other combination of the flags is dropped without an answer.            *)
Insert(r) == r.is_insert /\ r.has_data /\ r.update_state
Read(r)   == r.needs_data /\ ~Insert(r)
Probe(r)  == r.has_data /\ r.update_state /\ ~r.needs_data /\ ~Insert(r)
Update(r) == r.update_state /\ ~r.has_data /\ ~r.needs_data
Served(r) == Insert(r) \/ Read(r) \/ Probe(r) \/ Update(r)

Ready == c.waitdelay = 0 /\ c.operation = "none"

(* Slip: the port is not closed while the request is served. *)
AcceptOpen(operation, opstate) ==
  /\ Ready /\ in.ena /\ port_available
  /\ port_available' = TRUE
  /\ out' = [out EXCEPT !.ready = FALSE]
  /\ c' = [c EXCEPT !.operation = operation, !.opstate = opstate, !.waitdelay = Delay,
                    !.deassertoutput = FALSE, !.servaddr = in.addr,
                    !.newstate = IF operation = "read" THEN @ ELSE in.new_state,
                    !.newdata = IF operation \in {"insert", "probe"} THEN in.data ELSE @]

Accept(operation, opstate) ==
  /\ Ready /\ in.ena /\ port_available
  /\ port_available' = FALSE
  /\ out' = [out EXCEPT !.ready = FALSE]
  /\ c' = [c EXCEPT !.operation = operation, !.opstate = opstate, !.waitdelay = Delay,
                    !.deassertoutput = FALSE, !.servaddr = in.addr,
                    !.newstate = IF operation = "read" THEN @ ELSE in.new_state,
                    !.newdata = IF operation \in {"insert", "probe"} THEN in.data ELSE @]

AcceptInsert ==
  /\ Insert(in) /\ Accept("insert", 0)
  /\ pins' = [data  |-> WriteCell(pins.data, in.addr.index, in.data),
              state |-> WriteCell(pins.state, in.addr.index, in.new_state),
              tag   |-> WriteCell(pins.tag, in.addr.index, in.addr.tag)]

AcceptRead ==
  /\ Read(in) /\ Accept("read", 0)
  /\ pins' = [data  |-> ReadCell(pins.data, in.addr.index),
              state |-> ReadCell(pins.state, in.addr.index),
              tag   |-> ReadCell(pins.tag, in.addr.index)]

AcceptTagRead ==
  /\ \/ Probe(in) /\ Accept("probe", 1)
     \/ Update(in) /\ Accept("update", 1)
  /\ pins' = [pins EXCEPT !.tag = ReadCell(@, in.addr.index)]

Idle ==
  /\ Ready /\ ~(in.ena /\ port_available /\ Served(in))
  /\ port_available' = TRUE
  /\ out' = Lowered
  /\ c' = [c EXCEPT !.deassertoutput = FALSE]
  /\ UNCHANGED pins

(* One call of work().  An operation in progress keeps port_available low, *)
(* so a call that completes one never accepts another: CacheBusy states it.*)
CacheWork ==
  /\ \/ Wait \/ FinishInsert \/ FinishReadMiss \/ TagsHit \/ TagsMiss \/ FinishWrite
     \/ \E w \in Way : FinishReadHit(w)
     \/ AcceptInsert \/ AcceptRead \/ AcceptTagRead \/ Idle
  /\ SramsWork
=============================================================================
