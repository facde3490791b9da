------------------------------ MODULE WarmupTop ------------------------------
(***************************************************************************)
(* The warm-up project as the host drives it (wrapper.cpp): the host       *)
(* submits a request, systemc_clock() runs one cycle of the cache, takes   *)
(* the reply and checks it against the data it last wrote to the block.    *)
(* The simulator that calls the wrapper is not in the repository: it is    *)
(* modelled as submitting, at most once per cycle and when the port is     *)
(* free, any request the flags of cache.h can express, save one: data to   *)
(* write without a state to store.  CacheProject drops such a request, so  *)
(* that the check of the reply would later miss the data.  A request for   *)
(* physical address 0 is answered by the wrapper itself and never reaches  *)
(* the cache; it is left out.                                              *)
(***************************************************************************)
EXTENDS CacheProject

CONSTANT Workloads  \* the sets of blocks a run of the host may work on

ASSUME WorkloadsAssumption == Workloads \subseteq SUBSET Addr

VARIABLES
  systemc_port_available,
  systemc_base_port,   \* 1 after a request in this cycle
  systemc_requests,    \* requests without a reply: address |-> needs_data
  systemc_cache_data,  \* what was last written to each block
  workload,            \* the blocks this run of the host uses
  failed               \* an assertion of the wrapper failed

wrapperVars ==
  <<systemc_port_available, systemc_base_port, systemc_requests, systemc_cache_data, workload,
    failed>>
warmupVars == <<cacheVars, wrapperVars>>

Outstanding == DOMAIN systemc_requests

WarmupInit ==
  /\ CacheInit
  /\ systemc_port_available = FALSE /\ systemc_base_port = 0
  /\ systemc_requests = [a \in {} |-> FALSE]
  /\ systemc_cache_data = [a \in Addr |-> ZeroData]
  /\ workload \in Workloads
  /\ failed = FALSE

(* The assertions on a reply: it answers a request that was made, and data *)
(* read is the data last written, if any was.                              *)
ReplyAsserts(r) ==
  /\ r.token \in Outstanding
  /\ r.state # Miss /\ systemc_requests[r.token] /\ systemc_cache_data[r.token] # ZeroData =>
       r.data = systemc_cache_data[r.token]

(* systemc_clock(): it reads the signals as they stand after the cycle.  A *)
(* request that has its reply is taken out of the map by the host.         *)
systemc_clock ==
  /\ CacheWork
  /\ in' = [in EXCEPT !.ena = FALSE]
  /\ systemc_base_port' = 0
  /\ systemc_port_available' = port_available'
  /\ IF out'.ready
     THEN /\ failed' = (failed \/ ~ReplyAsserts(out'))
          /\ systemc_requests' =
               [a \in Outstanding \ {out'.token} |-> systemc_requests[a]]
     ELSE UNCHANGED <<failed, systemc_requests>>
  /\ UNCHANGED <<systemc_cache_data, workload>>

(* systemc_request_submit(), which asserts a free port and that a request  *)
(* does not both carry and need data.                                      *)
systemc_request_submit(r) ==
  /\ systemc_port_available /\ systemc_base_port = 0
  /\ ~(r.has_data /\ r.needs_data)
  /\ in' = r
  /\ systemc_base_port' = 1
  /\ systemc_requests' =
       [a \in Outstanding \cup {r.addr} |->
          IF a = r.addr THEN r.needs_data ELSE systemc_requests[a]]
  /\ systemc_cache_data' =
       IF r.has_data THEN [systemc_cache_data EXCEPT ![r.addr] = r.data] ELSE systemc_cache_data
  /\ UNCHANGED <<port_available, out, pins, data, state, tag, c, systemc_port_available, workload,
                 failed>>

Requests ==
  {r \in Inputs :
     /\ r.ena /\ r.addr \in workload
     /\ r.has_data => r.update_state
     /\ r.is_insert => r.has_data
     /\ r.needs_data => ~r.update_state
     /\ ~r.has_data => r.data = in.data
     /\ ~r.update_state => r.new_state = in.new_state
     /\ ~Served(r) => Outstanding = {}}

WarmupNext == systemc_clock \/ \E r \in Requests : systemc_request_submit(r)

(* systemc_main calls systemc_clock() for as long as it runs. *)
WarmupSpec == WarmupInit /\ [][WarmupNext]_warmupVars /\ WF_warmupVars(systemc_clock)

-----------------------------------------------------------------------------
(* The block store CacheProject implements: the cells of a way are the     *)
(* store, and a write is carried out when the SRAMs see the pins.          *)
Store == INSTANCE BlockStore WITH
  store   <- [i \in Index |-> [tag |-> tag[0].cell[i], state |-> state[0].cell[i],
                               data |-> data[0].cell[i]]],
  request <- IF c.operation = "none" THEN {}
             ELSE {[op |-> c.operation, addr |-> c.servaddr,
                    data |-> c.newdata, state |-> c.newstate]},
  applied <- (c.operation = "insert" \/ c.opstate = 2) /\ c.waitdelay = 0,
  answer  <- [token |-> out.token, state |-> out.state, data |-> out.data]

(* CacheProject::work() with its SRAMs (cache.h:129-428, sram.h:22-32) is    *)
(* the block store: over its waits, tag reads and late writes, a request is*)
(* carried out at one instant, a probe or an update of a block that is not *)
(* there changes nothing, and the one reply is what the store then holds.  *)
StoreSpec == Store!Spec

(* The assertions systemc_clock() makes on every reply (wrapper.cpp:34-50): *)
(* it answers a request that was made, and the data read are the data the  *)
(* host last wrote to that block, whatever was written over it meanwhile.  *)
RepliesRight == ~failed

(* Every reply but an insert's says in out_addr what the tag array holds    *)
(* for the address asked for, the block itself or the one in its place, and*)
(* out_state tells which (cache.h:87-88).  Both are taken from the way that*)
(* the round robin points to by then, not from the one that was hit, and   *)
(* for a write from tags read three cycles before (cache.h:184-339): right *)
(* because both ways hang on the same pins (cache.h:431-483).              *)
TagTold ==
  [][c.operation \in {"read", "probe", "update"} /\ out'.ready =>
       /\ \A w \in Way : out'.addr = tag[w].cell[out'.token.index]
       /\ out'.state = Miss <=> out'.addr # out'.token.tag]_warmupVars

(* port_available is lowered early enough (cache.h:131-141, 342-426) that a *)
(* request on the pins always finds the cache idle: none is overlooked, and*)
(* the members an operation in progress uses are never overwritten.        *)
CacheBusy == in.ena => Ready /\ port_available

(* A request of a form the cache serves gets its reply (cache.h:144-339),   *)
(* as long as the host keeps calling systemc_clock().                      *)
Answered == in.ena /\ Served(in) ~> ~in.ena /\ out.ready /\ out.token = c.servaddr
=============================================================================
