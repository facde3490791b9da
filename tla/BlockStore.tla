----------------------------- MODULE BlockStore -----------------------------
(***************************************************************************)
(* What the warm-up cache promises: one block per index, a request that is *)
(* carried out at one instant and answered once, and an answer that is what*)
(* the store holds.  A block that is not there is answered with Miss.      *)
(***************************************************************************)
CONSTANTS Tag, Index, Data, State, Miss

Addr == [tag : Tag, index : Index]
Op == {"insert", "read", "probe", "update"}
Block == [tag : Tag, state : State, data : Data]
Request == [op : Op, addr : Addr, data : Data, state : State]

VARIABLES
  store,    \* the block of each index
  request,  \* the requests accepted and not answered: none or one
  applied,  \* the request has been carried out
  answer    \* the last answer

vars == <<store, request, applied, answer>>

Hit(r) == store[r.addr.index].tag = r.addr.tag

Init ==
  /\ store \in [Index -> Block]
  /\ request = {} /\ applied = FALSE
  /\ answer \in [token : Addr, state : State \cup {Miss}, data : Data]

Ask ==
  /\ request = {}
  /\ \E r \in Request : request' = {r}
  /\ UNCHANGED <<store, applied, answer>>

(* A read changes nothing; a block that is not there is not written. *)
Apply(r) ==
  /\ r \in request /\ ~applied
  /\ \/ /\ r.op = "insert"
        /\ store' = [store EXCEPT ![r.addr.index] =
             [tag |-> r.addr.tag, state |-> r.state, data |-> r.data]]
     \/ /\ r.op = "probe" /\ Hit(r)
        /\ store' = [store EXCEPT ![r.addr.index].state = r.state,
                                  ![r.addr.index].data = r.data]
     \/ /\ r.op = "update" /\ Hit(r)
        /\ store' = [store EXCEPT ![r.addr.index].state = r.state]
  /\ applied' = TRUE
  /\ UNCHANGED <<request, answer>>

Answer(r) ==
  /\ r \in request
  /\ applied \/ r.op = "read" \/ (r.op # "insert" /\ ~Hit(r))
  /\ request' = {} /\ applied' = FALSE
  /\ answer'.token = r.addr
  /\ answer'.state = IF Hit(r) THEN store[r.addr.index].state ELSE Miss
  /\ r.op = "read" => answer'.data = store[r.addr.index].data
  /\ UNCHANGED store

Next == Ask \/ \E r \in Request : Apply(r) \/ Answer(r)

Spec == Init /\ [][Next]_vars
=============================================================================
