----------------------------- MODULE WarmupProofs -----------------------------
(***************************************************************************)
(* The warm-up cache for every set of tags, indexes, contents and          *)
(* workloads: types, the port, what the pins and the SRAMs hold in each    *)
(* phase of an operation, the refinement of BlockStore, and the assertions *)
(* of the wrapper.                                                         *)
(***************************************************************************)
EXTENDS WarmupTop, TLAPS

(* An SRAM stays one. *)
LEMMA ClockedTyped ==
  ASSUME NEW V, NEW s \in SramOf(Index, V), NEW p \in Pins(Index, V)
  PROVE  Clocked(s, p) \in SramOf(Index, V)
<1>1. Cells(s, p) \in [Index -> V]
  BY DEF Cells, SramOf, Pins
<1> QED BY <1>1 DEF Clocked, SramOf, Pins

(* So do the pins, whatever is written to them. *)
LEMMA PinsTyped ==
  ASSUME NEW V, NEW p \in Pins(Index, V), NEW i \in Index, NEW v \in V
  PROVE  /\ Off(p) \in Pins(Index, V) /\ Disable(p) \in Pins(Index, V)
         /\ ReadCell(p, i) \in Pins(Index, V) /\ WriteCell(p, i, v) \in Pins(Index, V)
  BY DEF Pins, Off, Disable, ReadCell, WriteCell

(* The SRAMs after a call of work(). *)
LEMMA SramsTyped ==
  ASSUME CacheTypeOK, SramsWork
  PROVE  /\ data' \in [Way -> SramOf(Index, Data)]
         /\ state' \in [Way -> SramOf(Index, State)]
         /\ tag' \in [Way -> SramOf(Index, Tag)]
<1>1. /\ \A w \in Way : data[w] \in SramOf(Index, Data)
      /\ \A w \in Way : state[w] \in SramOf(Index, State)
      /\ \A w \in Way : tag[w] \in SramOf(Index, Tag)
      /\ pins.data \in Pins(Index, Data) /\ pins.state \in Pins(Index, State)
      /\ pins.tag \in Pins(Index, Tag)
  BY DEF CacheTypeOK, AllPins
<1> QED BY <1>1, ClockedTyped DEF SramsWork

(* What the SRAMs show is of their types. *)
LEMMA ShownTyped ==
  ASSUME CacheTypeOK, NEW w \in Way
  PROVE  /\ data[w].dout \in Data /\ state[w].dout \in State /\ tag[w].dout \in Tag
         /\ ReadTags \in [Way -> Tag]
  BY DEF CacheTypeOK, SramOf, ReadTags

(* The members after the constructors. *)
LEMMA InitTyped == ASSUME CacheInit PROVE CacheTypeOK
  BY ZeroAssumption DEF CacheInit, CacheTypeOK, Outputs, AllPins, Members, Inputs, ZeroAddr, Addr, IdlePins, Fresh, Pins,
     SramOf, Way, Delay

(* A call of work() keeps every type. *)
LEMMA WorkTyped ==
  ASSUME CacheTypeOK, CacheWork
  PROVE  port_available' \in BOOLEAN /\ out' \in Outputs /\ pins' \in AllPins /\ c' \in Members
<1>0. /\ 0 \in 0 .. Delay /\ Delay \in 0 .. Delay
      /\ 0 \in 0 .. 2 /\ 1 \in 0 .. 2 /\ 2 \in 0 .. 2
      /\ c.waitdelay > 0 => c.waitdelay - 1 \in 0 .. Delay
      /\ 1 - c.set \in Way
  BY DEF CacheTypeOK, Members, Delay, Way
<1>1. /\ c.set \in Way /\ c.servaddr \in Addr /\ c.servaddr.index \in Index
      /\ c.newstate \in State /\ c.newdata \in Data /\ c.temptag \in [Way -> Tag]
      /\ in.addr \in Addr /\ in.addr.index \in Index /\ in.addr.tag \in Tag
      /\ in.data \in Data /\ in.new_state \in State
      /\ pins.data \in Pins(Index, Data) /\ pins.state \in Pins(Index, State)
      /\ pins.tag \in Pins(Index, Tag)
  BY DEF CacheTypeOK, Inputs, Addr, Members, AllPins
<1>2. \A w \in Way : /\ data[w].dout \in Data /\ state[w].dout \in State /\ tag[w].dout \in Tag
                     /\ ReadTags \in [Way -> Tag]
  BY ShownTyped
<1> USE DEF CacheTypeOK, Outputs, AllPins, Members
<1>3. CASE Wait
  BY <1>0, <1>1, <1>3 DEF Wait
<1>4. CASE FinishInsert
  BY <1>0, <1>1, <1>2, <1>4, PinsTyped DEF FinishInsert, Reply, Completed
<1>5. CASE FinishReadMiss
  BY <1>0, <1>1, <1>2, <1>5, PinsTyped DEF FinishReadMiss, Reply, Completed, DisableAll
<1>6. CASE TagsHit
  BY <1>0, <1>1, <1>2, <1>6, PinsTyped DEF TagsHit
<1>7. CASE TagsMiss
  BY <1>0, <1>1, <1>2, <1>7, PinsTyped DEF TagsMiss, Reply, Completed
<1>8. CASE FinishWrite
  BY <1>0, <1>1, <1>2, <1>8, PinsTyped DEF FinishWrite, Reply, Completed
<1>9. CASE \E w \in Way : FinishReadHit(w)
  <2>1. PICK w \in Way : FinishReadHit(w)
    BY <1>9
  <2> QED BY <1>0, <1>1, <1>2, <2>1, PinsTyped DEF FinishReadHit, Reply, Completed, DisableAll
<1>10. CASE AcceptInsert
  BY <1>0, <1>1, <1>10, PinsTyped DEF AcceptInsert, Accept
<1>11. CASE AcceptRead
  BY <1>0, <1>1, <1>11, PinsTyped DEF AcceptRead, Accept
<1>12. CASE AcceptTagRead
  <2>1. pins' \in AllPins
    BY <1>1, <1>12, PinsTyped DEF AcceptTagRead
  <2>2. CASE Accept("probe", 1)
    BY <1>0, <1>1, <2>1, <2>2 DEF Accept
  <2>3. CASE Accept("update", 1)
    BY <1>0, <1>1, <2>1, <2>3 DEF Accept
  <2> QED BY <1>12, <2>2, <2>3 DEF AcceptTagRead
<1>13. CASE Idle
  BY <1>0, <1>1, <1>13 DEF Idle, Lowered
<1> QED
  BY <1>3, <1>4, <1>5, <1>6, <1>7, <1>8, <1>9, <1>10, <1>11, <1>12, <1>13 DEF CacheWork

-----------------------------------------------------------------------------
(* The inductive invariant.  The port: a free port means an idle cache, and*)
(* a request waits on the pins for one cycle only.                         *)
PortFollows ==
  /\ systemc_port_available => port_available
  /\ port_available => Ready
  /\ in.ena => port_available /\ systemc_base_port # 0

(* The ways hold the same: they hang on the same pins (cache.h:431-483).   *)
WaysIdentical == data[0] = data[1] /\ state[0] = state[1] /\ tag[0] = tag[1]

(* What the pins of an SRAM ask for. *)
Quiet(p)        == ~p.ena /\ ~p.we
Reads(p, i)     == p.ena /\ ~p.we /\ p.addr = i
Writes(p, i, v) == p.ena /\ p.we /\ p.addr = i /\ p.din = v

(* What the SRAMs of both ways show and hold at an index. *)
Shows(s, i)    == \A w \in Way : s[w].dout = s[w].cell[i]
Holds(s, i, v) == \A w \in Way : s[w].cell[i] = v /\ s[w].dout = v

(* The phases of an operation. *)
NonePhase ==
  c.opstate = 0 /\ c.waitdelay = 0 /\ Quiet(pins.data) /\ Quiet(pins.state) /\ Quiet(pins.tag)

InsertPhase ==
  LET i == c.servaddr.index IN
  /\ c.opstate = 0
  /\ Writes(pins.data, i, c.newdata) /\ Writes(pins.state, i, c.newstate)
  /\ Writes(pins.tag, i, c.servaddr.tag)
  /\ c.waitdelay = 0 => /\ Holds(data, i, c.newdata) /\ Holds(state, i, c.newstate)
                        /\ Holds(tag, i, c.servaddr.tag)

ReadPhase ==
  LET i == c.servaddr.index IN
  /\ c.opstate = 0
  /\ Reads(pins.data, i) /\ Reads(pins.state, i) /\ Reads(pins.tag, i)
  /\ c.waitdelay = 0 => Shows(data, i) /\ Shows(state, i) /\ Shows(tag, i)

TagPhase ==
  LET i == c.servaddr.index IN
  /\ Quiet(pins.data) /\ Quiet(pins.state) /\ Reads(pins.tag, i)
  /\ c.waitdelay = 0 => Shows(tag, i)

WritePhase ==
  LET i == c.servaddr.index IN
  /\ Quiet(pins.tag) /\ Writes(pins.state, i, c.newstate)
  /\ c.operation = "probe" => Writes(pins.data, i, c.newdata)
  /\ c.operation = "update" => Quiet(pins.data)
  /\ \A w \in Way : tag[w].cell[i] = c.servaddr.tag /\ c.temptag[w] = c.servaddr.tag
  /\ c.waitdelay = 0 => /\ Holds(state, i, c.newstate)
                        /\ c.operation = "probe" => Holds(data, i, c.newdata)

Phases ==
  /\ c.operation = "none" => NonePhase
  /\ c.operation = "insert" => InsertPhase
  /\ c.operation = "read" => ReadPhase
  /\ c.operation \in {"probe", "update"} => c.opstate \in {1, 2}
  /\ c.operation \in {"probe", "update"} /\ c.opstate = 1 => TagPhase
  /\ c.operation \in {"probe", "update"} /\ c.opstate = 2 => WritePhase

CacheInv == CacheTypeOK /\ WaysIdentical /\ PortFollows /\ Phases

-----------------------------------------------------------------------------
(* One cycle of an SRAM. *)
LEMMA KeptCells == ASSUME NEW s, NEW p, ~p.we PROVE Clocked(s, p).cell = s.cell
  BY DEF Clocked, Cells

(* An SRAM whose pins ask for a cell shows it after a clock. *)
LEMMA ReadCells ==
  ASSUME NEW s, NEW p, NEW i, Reads(p, i)
  PROVE  Clocked(s, p).dout = s.cell[i]
  BY DEF Clocked, Cells, Reads

(* The cells are a function on the indexes. *)
Indexed(s) == s.cell = [j \in Index |-> s.cell[j]]

(* An SRAM whose pins write a cell holds and shows the value after a clock. *)
LEMMA WrittenCells ==
  ASSUME NEW s, Indexed(s), NEW p, NEW i \in Index, NEW v, Writes(p, i, v)
  PROVE  /\ Clocked(s, p).cell = [s.cell EXCEPT ![i] = v]
         /\ Clocked(s, p).cell[i] = v
         /\ Clocked(s, p).dout = v
<1>1. DOMAIN s.cell = Index
  BY DEF Indexed
<1> QED BY <1>1 DEF Clocked, Cells, Writes

(* A cell that already holds the value does not change. *)
LEMMA RewrittenCells ==
  ASSUME NEW s, Indexed(s), NEW p, NEW i \in Index, NEW v, Writes(p, i, v), s.cell[i] = v
  PROVE  Clocked(s, p).cell = s.cell
<1>1. Clocked(s, p).cell = [s.cell EXCEPT ![i] = v]
  BY DEF Clocked, Cells, Writes
<1> QED BY <1>1 DEF Indexed

(* The six of them. *)
LEMMA SramStep ==
  ASSUME SramsWork, NEW w \in Way
  PROVE  /\ data'[w] = Clocked(data[w], pins.data)
         /\ state'[w] = Clocked(state[w], pins.state)
         /\ tag'[w] = Clocked(tag[w], pins.tag)
  BY DEF SramsWork

(* The SRAMs have a cell for each index the requests name. *)
LEMMA SramTypes ==
  ASSUME CacheTypeOK, NEW w \in Way
  PROVE  /\ Indexed(data[w]) /\ Indexed(state[w]) /\ Indexed(tag[w])
         /\ c.servaddr \in Addr /\ c.servaddr.index \in Index
         /\ in.addr \in Addr /\ in.addr.index \in Index
<1>1. /\ c.servaddr \in Addr /\ c.servaddr.index \in Index
      /\ in.addr \in Addr /\ in.addr.index \in Index
  BY DEF CacheTypeOK, Members, Addr, Inputs
<1>2. /\ data[w] \in SramOf(Index, Data) /\ state[w] \in SramOf(Index, State)
      /\ tag[w] \in SramOf(Index, Tag)
  BY DEF CacheTypeOK
<1>3. /\ data[w].cell \in [Index -> Data] /\ state[w].cell \in [Index -> State]
      /\ tag[w].cell \in [Index -> Tag]
  BY <1>2 DEF SramOf
<1> QED BY <1>1, <1>3 DEF Indexed

(* Both ways stay the same. *)
LEMMA WaysStep == ASSUME WaysIdentical, SramsWork PROVE WaysIdentical'
  BY SramStep DEF WaysIdentical, Way

(* What the port says follows the operation. *)
LEMMA PortStep ==
  ASSUME CacheTypeOK, PortFollows, CacheWork
  PROVE  port_available' => Ready'
<1>1. CASE FinishInsert
  BY <1>1 DEF FinishInsert, Completed, Ready, CacheTypeOK, Members
<1>2. CASE FinishReadMiss
  BY <1>2 DEF FinishReadMiss, Completed, Ready, CacheTypeOK, Members
<1>3. CASE TagsMiss
  BY <1>3 DEF TagsMiss, Completed, Ready, CacheTypeOK, Members
<1>4. CASE FinishWrite
  BY <1>4 DEF FinishWrite, Completed, Ready, CacheTypeOK, Members
<1>5. CASE \E w \in Way : FinishReadHit(w)
  BY <1>5 DEF FinishReadHit, Completed, Ready, CacheTypeOK, Members
<1>6. CASE Idle
  BY <1>6 DEF Idle, Ready, CacheTypeOK, Members
<1> QED
  BY <1>1, <1>2, <1>3, <1>4, <1>5, <1>6
  DEF CacheWork, Wait, TagsHit, AcceptInsert, AcceptRead, AcceptTagRead, Accept

-----------------------------------------------------------------------------
(* The phases follow each other. *)
LEMMA WaitPhase ==
  ASSUME CacheTypeOK, Phases, Wait, SramsWork
  PROVE  Phases'
<1> DEFINE i == c.servaddr.index
<1>1. /\ c.waitdelay = 1 /\ c'.waitdelay = 0 /\ pins' = pins
      /\ c'.operation = c.operation /\ c'.opstate = c.opstate /\ c'.servaddr = c.servaddr
      /\ c'.newdata = c.newdata /\ c'.newstate = c.newstate /\ c'.temptag = c.temptag
  BY DEF Wait, CacheTypeOK, Members, Delay
<1>2. CASE c.operation = "none"
  BY <1>1, <1>2 DEF Phases, NonePhase
<1>3. CASE c.operation = "insert"
  <2>1. InsertPhase
    BY <1>3 DEF Phases
  <2>2. ASSUME NEW w \in Way
        PROVE  /\ data'[w].cell[i] = c.newdata /\ data'[w].dout = c.newdata
               /\ state'[w].cell[i] = c.newstate /\ state'[w].dout = c.newstate
               /\ tag'[w].cell[i] = c.servaddr.tag /\ tag'[w].dout = c.servaddr.tag
    <3>1. /\ Writes(pins.data, i, c.newdata) /\ Writes(pins.state, i, c.newstate)
          /\ Writes(pins.tag, i, c.servaddr.tag)
      BY <2>1 DEF InsertPhase
    <3>2. Indexed(data[w]) /\ Indexed(state[w]) /\ Indexed(tag[w]) /\ i \in Index
      BY SramTypes
    <3> HIDE DEF i
    <3>3. /\ Clocked(data[w], pins.data).cell[i] = c.newdata
          /\ Clocked(data[w], pins.data).dout = c.newdata
      BY <3>1, <3>2 DEF Writes, Clocked, Cells, Indexed
    <3>4. /\ Clocked(state[w], pins.state).cell[i] = c.newstate
          /\ Clocked(state[w], pins.state).dout = c.newstate
      BY <3>1, <3>2 DEF Writes, Clocked, Cells, Indexed
    <3>5. /\ Clocked(tag[w], pins.tag).cell[i] = c.servaddr.tag
          /\ Clocked(tag[w], pins.tag).dout = c.servaddr.tag
      BY <3>1, <3>2 DEF Writes, Clocked, Cells, Indexed
    <3> QED BY <3>3, <3>4, <3>5, SramStep
  <2> QED BY <1>1, <1>3, <2>1, <2>2 DEF Phases, InsertPhase, Holds
<1>4. CASE c.operation = "read"
  <2>1. ReadPhase
    BY <1>4 DEF Phases
  <2>2. Shows(data', i) /\ Shows(state', i) /\ Shows(tag', i)
    BY <2>1, SramStep, ReadCells, KeptCells DEF ReadPhase, Shows, Reads
  <2> QED BY <1>1, <1>4, <2>1, <2>2 DEF Phases, ReadPhase, Shows
<1>5. CASE c.operation \in {"probe", "update"} /\ c.opstate = 1
  <2>1. TagPhase
    BY <1>5 DEF Phases
  <2>2. Shows(tag', i)
    BY <2>1, SramStep, ReadCells, KeptCells DEF TagPhase, Shows, Reads
  <2> QED BY <1>1, <1>5, <2>1, <2>2 DEF Phases, TagPhase, Shows
<1>6. CASE c.operation \in {"probe", "update"} /\ c.opstate = 2
  <2>1. WritePhase
    BY <1>6 DEF Phases
  <2>2. ASSUME NEW w \in Way
        PROVE  state'[w].cell[i] = c.newstate /\ state'[w].dout = c.newstate
    <3>1. Writes(pins.state, i, c.newstate)
      BY <2>1 DEF WritePhase
    <3>2. Indexed(state[w]) /\ i \in Index
      BY SramTypes
    <3> HIDE DEF i
    <3>3. /\ Clocked(state[w], pins.state).cell[i] = c.newstate
          /\ Clocked(state[w], pins.state).dout = c.newstate
      BY <3>1, <3>2 DEF Writes, Clocked, Cells, Indexed
    <3> QED BY <3>3, SramStep
  <2>3. ASSUME c.operation = "probe", NEW w \in Way
        PROVE  data'[w].cell[i] = c.newdata /\ data'[w].dout = c.newdata
    <3>1. Writes(pins.data, i, c.newdata)
      BY <2>1, <2>3 DEF WritePhase
    <3>2. Indexed(data[w]) /\ i \in Index
      BY SramTypes
    <3> HIDE DEF i
    <3>3. /\ Clocked(data[w], pins.data).cell[i] = c.newdata
          /\ Clocked(data[w], pins.data).dout = c.newdata
      BY <3>1, <3>2 DEF Writes, Clocked, Cells, Indexed
    <3> QED BY <3>3, SramStep
  <2>4. \A w \in Way : tag'[w].cell[i] = c.servaddr.tag
    BY <2>1, SramStep, KeptCells DEF WritePhase, Quiet
  <2> QED BY <1>1, <1>6, <2>1, <2>2, <2>3, <2>4 DEF Phases, WritePhase, Holds
<1> QED
  BY <1>2, <1>3, <1>4, <1>5, <1>6 DEF Phases, CacheTypeOK, Members

(* The end of a request leaves the cache idle. *)
LEMMA FinishPhase ==
  ASSUME CacheTypeOK, Phases,
         \/ FinishInsert \/ FinishReadMiss \/ TagsMiss \/ FinishWrite
         \/ \E w \in Way : FinishReadHit(w)
  PROVE  Phases'
<1> SUFFICES c'.operation = "none" /\ NonePhase'
  BY DEF Phases
<1>1. CASE FinishInsert
  BY <1>1 DEF FinishInsert, Completed, CacheTypeOK, Members, NonePhase, Quiet, Off, AllPins, Pins
<1>2. CASE FinishReadMiss
  BY <1>2 DEF FinishReadMiss, Completed, CacheTypeOK, Members, NonePhase, Quiet, Disable,
     DisableAll, Phases, ReadPhase, Reads, AllPins, Pins
<1>3. CASE TagsMiss
  BY <1>3 DEF TagsMiss, Completed, CacheTypeOK, Members, NonePhase, Quiet, Off, Phases, TagPhase,
     AllPins, Pins
<1>4. CASE FinishWrite
  BY <1>4 DEF FinishWrite, Completed, CacheTypeOK, Members, NonePhase, Quiet, Off, Phases,
     WritePhase, AllPins, Pins
<1>5. CASE \E w \in Way : FinishReadHit(w)
  BY <1>5 DEF FinishReadHit, Completed, CacheTypeOK, Members, NonePhase, Quiet, Disable,
     DisableAll, Phases, ReadPhase, Reads, AllPins, Pins
<1> QED BY <1>1, <1>2, <1>3, <1>4, <1>5

(* A hit on the tags starts the second access (cache.h). *)
LEMMA TagsHitPhase ==
  ASSUME CacheTypeOK, WaysIdentical, Phases, TagsHit, SramsWork
  PROVE  Phases'
<1> DEFINE i == c.servaddr.index
<1>1. /\ c'.waitdelay = 1 /\ c'.opstate = 2 /\ c'.operation = c.operation
      /\ c'.servaddr = c.servaddr /\ c'.newdata = c.newdata /\ c'.newstate = c.newstate
      /\ c.operation \in {"probe", "update"}
  BY DEF TagsHit, CacheTypeOK, Members, Delay
<1>2. TagPhase /\ c.waitdelay = 0
  BY DEF TagsHit, Phases
<1>3. /\ Quiet(pins'.tag) /\ Writes(pins'.state, i, c.newstate)
      /\ c.operation = "probe" => Writes(pins'.data, i, c.newdata)
      /\ c.operation = "update" => Quiet(pins'.data)
  BY <1>2 DEF TagsHit, TagPhase, Quiet, Writes, Off, WriteCell, CacheTypeOK, AllPins, Pins
<1>4. \A w \in Way : tag[w].cell[i] = c.servaddr.tag
  BY <1>2 DEF TagsHit, TagPhase, Hits, Shows, WaysIdentical, Way
<1>5. \A w \in Way : tag'[w].cell[i] = c.servaddr.tag
  BY <1>2, <1>4, SramStep, KeptCells DEF TagPhase, Reads
<1>6. \A w \in Way : c'.temptag[w] = c.servaddr.tag
  BY <1>2, <1>4 DEF TagsHit, TagPhase, Shows, ReadTags, CacheTypeOK, Members
<1> QED BY <1>1, <1>3, <1>5, <1>6 DEF Phases, WritePhase

(* An accepted request sets the pins its operation needs. *)
LEMMA AcceptPhase ==
  ASSUME CacheTypeOK, Phases, AcceptInsert \/ AcceptRead \/ AcceptTagRead
  PROVE  Phases'
<1>1. NonePhase /\ pins \in AllPins /\ c \in Members
  BY DEF AcceptInsert, AcceptRead, AcceptTagRead, Accept, Ready, Phases, CacheTypeOK
<1>2. CASE AcceptInsert
  <2>1. /\ c'.operation = "insert" /\ c'.opstate = 0 /\ c'.waitdelay = 1 /\ c'.servaddr = in.addr
        /\ c'.newdata = in.data /\ c'.newstate = in.new_state
    BY <1>1, <1>2 DEF AcceptInsert, Accept, Members, Delay
  <2>2. /\ Writes(pins'.data, in.addr.index, in.data)
        /\ Writes(pins'.state, in.addr.index, in.new_state)
        /\ Writes(pins'.tag, in.addr.index, in.addr.tag)
    BY <1>1, <1>2 DEF AcceptInsert, Writes, WriteCell, AllPins, Pins
  <2> QED BY <2>1, <2>2 DEF Phases, InsertPhase
<1>3. CASE AcceptRead
  <2>1. c'.operation = "read" /\ c'.opstate = 0 /\ c'.waitdelay = 1 /\ c'.servaddr = in.addr
    BY <1>1, <1>3 DEF AcceptRead, Accept, Members, Delay
  <2>2. /\ Reads(pins'.data, in.addr.index) /\ Reads(pins'.state, in.addr.index)
        /\ Reads(pins'.tag, in.addr.index)
    BY <1>1, <1>3 DEF AcceptRead, NonePhase, Quiet, Reads, ReadCell, AllPins, Pins
  <2> QED BY <2>1, <2>2 DEF Phases, ReadPhase
<1>4. CASE AcceptTagRead
  <2>1. /\ c'.operation \in {"probe", "update"} /\ c'.opstate = 1 /\ c'.waitdelay = 1
        /\ c'.servaddr = in.addr
    BY <1>1, <1>4 DEF AcceptTagRead, Accept, Members, Delay
  <2>2. Quiet(pins'.data) /\ Quiet(pins'.state) /\ Reads(pins'.tag, in.addr.index)
    BY <1>1, <1>4 DEF AcceptTagRead, NonePhase, Quiet, Reads, ReadCell, AllPins, Pins
  <2> QED BY <2>1, <2>2 DEF Phases, TagPhase
<1> QED BY <1>2, <1>3, <1>4

(* Every path of work() keeps the phases. *)
LEMMA PhaseStep ==
  ASSUME CacheTypeOK, WaysIdentical, Phases, CacheWork
  PROVE  Phases'
<1>1. CASE Idle
  <2>1. /\ pins' = pins /\ c'.operation = "none" /\ c'.opstate = c.opstate
        /\ c'.waitdelay = c.waitdelay /\ c.operation = "none"
    BY <1>1 DEF Idle, Ready, CacheTypeOK, Members
  <2> QED BY <2>1 DEF Phases, NonePhase
<1> QED
  BY <1>1, WaitPhase, FinishPhase, TagsHitPhase, AcceptPhase DEF CacheWork

-----------------------------------------------------------------------------
(* The invariant holds of every reachable state. *)
LEMMA CacheInvInit == ASSUME WarmupInit PROVE CacheInv
<1>1. CacheTypeOK
  BY InitTyped DEF WarmupInit
<1>2. WaysIdentical /\ PortFollows
  BY DEF WarmupInit, CacheInit, WaysIdentical, Fresh, Way, PortFollows, Ready
<1>3. Phases
  BY DEF WarmupInit, CacheInit, Phases, NonePhase, Quiet, IdlePins
<1> QED BY <1>1, <1>2, <1>3 DEF CacheInv

(* A cycle of the wrapper keeps the invariant. *)
LEMMA ClockKeepsCache == ASSUME CacheInv, systemc_clock PROVE CacheInv'
<1>1. /\ CacheTypeOK /\ WaysIdentical /\ PortFollows /\ Phases
      /\ CacheWork /\ SramsWork
  BY DEF CacheInv, systemc_clock, CacheWork
<1>2. in' \in Inputs
  BY <1>1 DEF systemc_clock, CacheTypeOK, Inputs
<1>3. CacheTypeOK'
  BY <1>1, <1>2, WorkTyped, SramsTyped DEF CacheTypeOK
<1>4. PortFollows'
  BY <1>1, PortStep DEF systemc_clock, PortFollows, CacheTypeOK, Inputs
<1> QED BY <1>1, <1>3, <1>4, WaysStep, PhaseStep DEF CacheInv

(* Submitting a request keeps the invariant. *)
LEMMA SubmitKeepsCache ==
  ASSUME CacheInv, NEW r \in Requests, systemc_request_submit(r)
  PROVE  CacheInv'
<1>1. /\ in' \in Inputs
      /\ UNCHANGED <<port_available, out, pins, data, state, tag, c, systemc_port_available>>
      /\ systemc_port_available /\ systemc_base_port' = 1
  BY DEF systemc_request_submit, Requests
<1>2. CacheTypeOK' /\ WaysIdentical'
  BY <1>1 DEF CacheInv, CacheTypeOK, WaysIdentical
<1>3. PortFollows'
  BY <1>1 DEF CacheInv, PortFollows, Ready
<1>4. Phases'
  BY <1>1 DEF CacheInv, Phases, NonePhase, InsertPhase, ReadPhase, TagPhase, WritePhase,
     Holds, Shows
<1> QED BY <1>2, <1>3, <1>4 DEF CacheInv

(* The invariant depends on the variables only. *)
LEMMA StutterKeepsCache == ASSUME CacheInv, UNCHANGED warmupVars PROVE CacheInv'
<1>1. UNCHANGED <<in, port_available, out, pins, data, state, tag, c, systemc_port_available,
                  systemc_base_port>>
  BY DEF warmupVars, cacheVars, wrapperVars
<1>2. CacheTypeOK' /\ WaysIdentical' /\ PortFollows'
  BY <1>1 DEF CacheInv, CacheTypeOK, WaysIdentical, PortFollows, Ready
<1>3. Phases'
  BY <1>1 DEF CacheInv, Phases, NonePhase, InsertPhase, ReadPhase, TagPhase, WritePhase,
     Holds, Shows
<1> QED BY <1>2, <1>3 DEF CacheInv

(* Types, ports, ways and phases, at every moment of a run. *)
THEOREM CacheInvariant == WarmupSpec => []CacheInv
<1>1. CacheInv /\ [WarmupNext]_warmupVars => CacheInv'
  BY ClockKeepsCache, SubmitKeepsCache, StutterKeepsCache DEF WarmupNext
<1> QED BY <1>1, CacheInvInit, PTL DEF WarmupSpec

(* Every member, signal and cell stays in its range (cache.h:94-127). *)
THEOREM CacheTypes == WarmupSpec => []CacheTypeOK
<1>1. CacheInv => CacheTypeOK
  BY DEF CacheInv
<1> QED BY <1>1, CacheInvariant, PTL

(* A request always finds the cache idle and the port open                 *)
(* (cache.h:131-141, 342-426).                                             *)
THEOREM RequestsSeen == WarmupSpec => []CacheBusy
<1>1. CacheInv => CacheBusy
  BY DEF CacheInv, PortFollows, CacheBusy
<1> QED BY <1>1, CacheInvariant, PTL

-----------------------------------------------------------------------------
(* The cells change in one cycle only: the wait of a write.                *)
Writing == c.operation = "insert" \/ (c.operation \in {"probe", "update"} /\ c.opstate = 2)

(* Cells change only when the wait of a writing operation ends. *)
LEMMA CellsKept ==
  ASSUME CacheInv, CacheWork, ~(Wait /\ Writing), NEW w \in Way
  PROVE  /\ data'[w].cell = data[w].cell /\ state'[w].cell = state[w].cell
         /\ tag'[w].cell = tag[w].cell
<1> DEFINE i == c.servaddr.index
<1>0. SramsWork /\ Phases /\ CacheTypeOK
  BY DEF CacheWork, CacheInv
<1>1. /\ data'[w] = Clocked(data[w], pins.data) /\ state'[w] = Clocked(state[w], pins.state)
      /\ tag'[w] = Clocked(tag[w], pins.tag)
  BY <1>0, SramStep
<1>2. CASE c.operation = "none"
  BY <1>0, <1>1, <1>2, KeptCells DEF Phases, NonePhase, Quiet
<1>3. CASE c.operation = "read"
  BY <1>0, <1>1, <1>3, KeptCells DEF Phases, ReadPhase, Reads
<1>4. CASE c.operation \in {"probe", "update"} /\ c.opstate = 1
  BY <1>0, <1>1, <1>4, KeptCells DEF Phases, TagPhase, Reads, Quiet
<1>5. ASSUME Writing PROVE c.waitdelay = 0
  BY <1>0, <1>5 DEF Writing, CacheWork, Wait, FinishInsert, FinishReadMiss, TagsHit, TagsMiss,
     FinishWrite, FinishReadHit, AcceptInsert, AcceptRead, AcceptTagRead, Accept, Idle, Ready
<1>6. Indexed(data[w]) /\ Indexed(state[w]) /\ Indexed(tag[w]) /\ i \in Index
  BY <1>0, SramTypes
<1>7. CASE c.operation = "insert"
  <2>1. InsertPhase /\ c.waitdelay = 0
    BY <1>0, <1>5, <1>7 DEF Phases, Writing
  <2>2. /\ Writes(pins.data, i, c.newdata) /\ Writes(pins.state, i, c.newstate)
        /\ Writes(pins.tag, i, c.servaddr.tag)
    BY <2>1 DEF InsertPhase
  <2>3. /\ data[w].cell[i] = c.newdata /\ state[w].cell[i] = c.newstate
        /\ tag[w].cell[i] = c.servaddr.tag
    BY <2>1 DEF InsertPhase, Holds
  <2> HIDE DEF i
  <2>4. Clocked(data[w], pins.data).cell = data[w].cell
    BY <1>6, <2>2, <2>3, RewrittenCells
  <2>5. Clocked(state[w], pins.state).cell = state[w].cell
    BY <1>6, <2>2, <2>3, RewrittenCells
  <2>6. Clocked(tag[w], pins.tag).cell = tag[w].cell
    BY <1>6, <2>2, <2>3, RewrittenCells
  <2> QED BY <1>1, <2>4, <2>5, <2>6
<1>8. CASE c.operation \in {"probe", "update"} /\ c.opstate = 2
  <2>1. WritePhase /\ c.waitdelay = 0
    BY <1>0, <1>5, <1>8 DEF Phases, Writing
  <2>2. /\ Writes(pins.state, i, c.newstate) /\ Quiet(pins.tag)
        /\ c.operation = "probe" => Writes(pins.data, i, c.newdata)
        /\ c.operation = "update" => Quiet(pins.data)
    BY <2>1 DEF WritePhase
  <2>3. /\ state[w].cell[i] = c.newstate
        /\ c.operation = "probe" => data[w].cell[i] = c.newdata
    BY <2>1 DEF WritePhase, Holds
  <2> HIDE DEF i
  <2>4. Clocked(state[w], pins.state).cell = state[w].cell
    BY <1>6, <2>2, <2>3, RewrittenCells
  <2>5. Clocked(tag[w], pins.tag).cell = tag[w].cell
    BY <2>2, KeptCells DEF Quiet
  <2>6. CASE c.operation = "probe"
    <3>1. Clocked(data[w], pins.data).cell = data[w].cell
      BY <1>6, <2>2, <2>3, <2>6, RewrittenCells
    <3> QED BY <1>1, <2>4, <2>5, <3>1
  <2>7. CASE c.operation = "update"
    <3>1. Clocked(data[w], pins.data).cell = data[w].cell
      BY <2>2, <2>7, KeptCells DEF Quiet
    <3> QED BY <1>1, <2>4, <2>5, <3>1
  <2> QED BY <1>8, <2>6, <2>7
<1> QED
  BY <1>0, <1>2, <1>3, <1>4, <1>7, <1>8 DEF Phases, CacheTypeOK, Members

(* What a writing operation does to the cells of its index. *)
LEMMA CellsWritten ==
  ASSUME CacheInv, SramsWork, Writing, NEW w \in Way
  PROVE  LET i == c.servaddr.index IN
         /\ state'[w].cell = [state[w].cell EXCEPT ![i] = c.newstate]
         /\ data'[w].cell = IF c.operation = "update" THEN data[w].cell
                            ELSE [data[w].cell EXCEPT ![i] = c.newdata]
         /\ tag'[w].cell = IF c.operation = "insert"
                           THEN [tag[w].cell EXCEPT ![i] = c.servaddr.tag] ELSE tag[w].cell
<1> DEFINE i == c.servaddr.index
<1>1. /\ data'[w].cell = Cells(data[w], pins.data) /\ state'[w].cell = Cells(state[w], pins.state)
      /\ tag'[w].cell = Cells(tag[w], pins.tag)
  <2>1. /\ data'[w] = Clocked(data[w], pins.data) /\ state'[w] = Clocked(state[w], pins.state)
        /\ tag'[w] = Clocked(tag[w], pins.tag)
    BY SramStep
  <2> QED BY <2>1 DEF Clocked
<1>2. /\ Writes(pins.state, i, c.newstate)
      /\ c.operation # "update" => Writes(pins.data, i, c.newdata)
      /\ c.operation = "update" => Quiet(pins.data)
      /\ c.operation = "insert" => Writes(pins.tag, i, c.servaddr.tag)
      /\ c.operation # "insert" => Quiet(pins.tag)
  <2>1. CASE c.operation = "insert"
    BY <2>1 DEF CacheInv, Phases, InsertPhase
  <2>2. CASE c.operation \in {"probe", "update"} /\ c.opstate = 2
    BY <2>2 DEF CacheInv, Phases, WritePhase
  <2> QED BY <2>1, <2>2 DEF Writing
<1> QED BY <1>1, <1>2 DEF Cells, Writes, Quiet

-----------------------------------------------------------------------------
(* The refinement: what the block store's variables are of the cache.      *)
CellStore == [i \in Index |-> [tag |-> tag[0].cell[i], state |-> state[0].cell[i],
                               data |-> data[0].cell[i]]]
InHand == [op |-> c.operation, addr |-> c.servaddr, data |-> c.newdata, state |-> c.newstate]
CarriedOut == (c.operation = "insert" \/ c.opstate = 2) /\ c.waitdelay = 0
LastAnswer == [token |-> out.token, state |-> out.state, data |-> out.data]

(* The request in hand is one the store knows. *)
LEMMA InHandTyped ==
  ASSUME CacheTypeOK, c.operation # "none"
  PROVE  InHand \in Store!Request
  BY DEF CacheTypeOK, Members, InHand, Store!Request, Store!Op, Store!Addr, Addr

(* A step of work() that keeps the cells, the operation and the answer.    *)
LEMMA StoreStutters ==
  ASSUME CellStore' = CellStore, c'.operation = c.operation, InHand' = InHand,
         CarriedOut' = CarriedOut, LastAnswer' = LastAnswer
  PROVE  UNCHANGED Store!vars
  BY DEF CellStore, InHand, CarriedOut, LastAnswer, Store!vars

(* The blocks stored change only with the cells. *)
LEMMA CellStoreKept ==
  ASSUME CacheInv, CacheWork, ~(Wait /\ Writing)
  PROVE  CellStore' = CellStore
  BY CellsKept DEF CellStore, Way

(* The empty cache is the empty store. *)
LEMMA InitStore == ASSUME WarmupInit PROVE Store!Init
<1>1. CacheTypeOK
  BY InitTyped DEF WarmupInit
<1>2. ASSUME NEW i \in Index
      PROVE  /\ tag[0].cell[i] \in Tag /\ state[0].cell[i] \in State
             /\ data[0].cell[i] \in Data
  BY <1>1 DEF CacheTypeOK, SramOf, Way
<1>3. CellStore \in [Index -> Store!Block]
  BY <1>2 DEF CellStore, Store!Block
<1>4. LastAnswer \in [token : Store!Addr, state : State \cup {Miss}, data : Data]
  BY <1>1 DEF LastAnswer, CacheTypeOK, Outputs, Store!Addr, Addr
<1>5. c.operation = "none" /\ CarriedOut = FALSE
  BY DEF WarmupInit, CacheInit, CarriedOut
<1> QED BY <1>3, <1>4, <1>5 DEF Store!Init, CellStore, LastAnswer, CarriedOut

(* Between the cycles, and in the cycles that only wait, nothing happens.  *)
LEMMA QuietSteps ==
  ASSUME CacheInv, CacheWork, TagsHit \/ Idle \/ (Wait /\ ~Writing)
  PROVE  UNCHANGED Store!vars
<1>1. CellStore' = CellStore
  <2>1. ~(Wait /\ Writing)
    BY DEF TagsHit, Idle, Ready, Wait
  <2> QED BY <2>1, CellStoreKept
<1>2. CacheTypeOK /\ Phases
  BY DEF CacheInv
<1>3. CASE TagsHit
  <2>1. /\ c'.operation = c.operation /\ c'.servaddr = c.servaddr /\ c'.newdata = c.newdata
        /\ c'.newstate = c.newstate /\ c'.waitdelay = 1 /\ c.opstate = 1
        /\ c.operation \in {"probe", "update"}
        /\ out'.token = out.token /\ out'.state = out.state /\ out'.data = out.data
    BY <1>2, <1>3 DEF TagsHit, CacheTypeOK, Members, Outputs, Delay
  <2> QED BY <1>1, <2>1, StoreStutters DEF InHand, CarriedOut, LastAnswer
<1>4. CASE Idle
  <2>1. /\ c'.operation = c.operation /\ c'.servaddr = c.servaddr /\ c'.newdata = c.newdata
        /\ c'.newstate = c.newstate /\ c'.waitdelay = c.waitdelay /\ c'.opstate = c.opstate
        /\ out'.token = out.token /\ out'.state = out.state /\ out'.data = out.data
    BY <1>2, <1>4 DEF Idle, Lowered, CacheTypeOK, Members, Outputs
  <2> QED BY <1>1, <2>1, StoreStutters DEF InHand, CarriedOut, LastAnswer
<1>5. CASE Wait /\ ~Writing
  <2>1. /\ c'.operation = c.operation /\ c'.servaddr = c.servaddr /\ c'.newdata = c.newdata
        /\ c'.newstate = c.newstate /\ c'.opstate = c.opstate
        /\ out'.token = out.token /\ out'.state = out.state /\ out'.data = out.data
    BY <1>2, <1>5 DEF Wait, CacheTypeOK, Members, Outputs
  <2>2. c.operation # "insert" /\ c.opstate # 2
    BY <1>2, <1>5 DEF Writing, Phases, NonePhase, ReadPhase, CacheTypeOK, Members
  <2> QED BY <1>1, <2>1, <2>2, StoreStutters DEF InHand, CarriedOut, LastAnswer
<1> QED BY <1>3, <1>4, <1>5

(* Accepting a request is asking the store. *)
LEMMA AcceptAsks ==
  ASSUME CacheInv, CacheWork, AcceptInsert \/ AcceptRead \/ AcceptTagRead
  PROVE  Store!Ask
<1>1. CellStore' = CellStore
  <2>1. ~(Wait /\ Writing)
    BY DEF AcceptInsert, AcceptRead, AcceptTagRead, Accept, Ready, Wait
  <2> QED BY <2>1, CellStoreKept
<1>2. CacheTypeOK /\ Phases
  BY DEF CacheInv
<1>3. c' \in Members
  BY <1>2, WorkTyped
<1>4. /\ c.operation = "none" /\ c.opstate = 0 /\ c'.waitdelay = 1
      /\ c'.operation \in {"insert", "read", "probe", "update"}
      /\ out'.token = out.token /\ out'.state = out.state /\ out'.data = out.data
  BY <1>2, ZenonT(60) DEF AcceptInsert, AcceptRead, AcceptTagRead, Accept, Ready, Phases, NonePhase,
     CacheTypeOK, Members, Outputs, Delay
<1>5. InHand' \in Store!Request
  BY <1>3, <1>4 DEF Members, InHand, Store!Request, Store!Op, Store!Addr, Addr
<1>6. CarriedOut = FALSE /\ CarriedOut' = FALSE /\ LastAnswer' = LastAnswer
  BY <1>4 DEF CarriedOut, LastAnswer
<1> QED
  BY <1>1, <1>4, <1>5, <1>6 DEF Store!Ask, CellStore, InHand, CarriedOut, LastAnswer

(* The end of the wait of a writing operation carries it out. *)
LEMMA WaitApplies ==
  ASSUME CacheInv, CacheWork, Wait, Writing
  PROVE  Store!Apply(InHand)
<1> DEFINE i == c.servaddr.index
<1>0. CacheTypeOK /\ Phases /\ SramsWork
  BY DEF CacheInv, CacheWork
<1>1. /\ c'.operation = c.operation /\ InHand' = InHand /\ c'.opstate = c.opstate
      /\ c.waitdelay = 1 /\ c'.waitdelay = 0 /\ LastAnswer' = LastAnswer
  BY <1>0 DEF Wait, CacheTypeOK, Members, Outputs, Delay, InHand, LastAnswer
<1>2. CarriedOut = FALSE /\ CarriedOut' = TRUE
  BY <1>1 DEF CarriedOut, Writing
<1>3. c.operation # "none"
  BY DEF Writing
<1>4. /\ state'[0].cell = [state[0].cell EXCEPT ![i] = c.newstate]
      /\ data'[0].cell = IF c.operation = "update" THEN data[0].cell
                         ELSE [data[0].cell EXCEPT ![i] = c.newdata]
      /\ tag'[0].cell = IF c.operation = "insert"
                        THEN [tag[0].cell EXCEPT ![i] = c.servaddr.tag] ELSE tag[0].cell
  BY <1>0, CellsWritten DEF Way
<1>5. /\ DOMAIN state[0].cell = Index /\ DOMAIN data[0].cell = Index
      /\ DOMAIN tag[0].cell = Index /\ i \in Index
  <2>1. Indexed(data[0]) /\ Indexed(state[0]) /\ Indexed(tag[0]) /\ i \in Index
    BY <1>0, SramTypes DEF Way
  <2> QED BY <2>1 DEF Indexed
<1> HIDE DEF i
<1>6. CASE c.operation = "insert"
  <2>1. CellStore' = [CellStore EXCEPT ![i] =
          [tag |-> c.servaddr.tag, state |-> c.newstate, data |-> c.newdata]]
    BY <1>4, <1>5, <1>6 DEF CellStore
  <2> QED BY <1>1, <1>2, <1>3, <1>6, <2>1 DEF Store!Apply, CellStore, InHand, CarriedOut, LastAnswer, i
<1>7. CASE c.operation = "probe"
  <2>1. CellStore' = [CellStore EXCEPT ![i].state = c.newstate, ![i].data = c.newdata]
    BY <1>4, <1>5, <1>7 DEF CellStore
  <2>2. CellStore[i].tag = c.servaddr.tag
    BY <1>0, <1>5, <1>7 DEF Phases, WritePhase, Writing, CellStore, Way, i
  <2> QED BY <1>1, <1>2, <1>3, <1>7, <2>1, <2>2
          DEF Store!Apply, Store!Hit, CellStore, InHand, CarriedOut, LastAnswer, i
<1>8. CASE c.operation = "update"
  <2>1. CellStore' = [CellStore EXCEPT ![i].state = c.newstate]
    BY <1>4, <1>5, <1>8 DEF CellStore
  <2>2. CellStore[i].tag = c.servaddr.tag
    BY <1>0, <1>5, <1>8 DEF Phases, WritePhase, Writing, CellStore, Way, i
  <2> QED BY <1>1, <1>2, <1>3, <1>8, <2>1, <2>2
          DEF Store!Apply, Store!Hit, CellStore, InHand, CarriedOut, LastAnswer, i
<1> QED BY <1>6, <1>7, <1>8 DEF Writing

(* The steps that complete an operation. *)
Finish ==
  \/ FinishInsert \/ FinishReadMiss \/ TagsMiss \/ FinishWrite
  \/ \E w \in Way : FinishReadHit(w)

(* What a reply says, in terms of the cells. *)
LEMMA ReplyTells ==
  ASSUME CacheInv, Finish
  PROVE  LET i == c.servaddr.index IN
         /\ c.operation # "none"
         /\ out'.ready /\ out'.token = c.servaddr
         /\ out'.state = IF tag[0].cell[i] = c.servaddr.tag THEN state[0].cell[i] ELSE Miss
         /\ c.operation = "read" => out'.data = data[0].cell[i]
         /\ \/ CarriedOut \/ c.operation = "read"
            \/ c.operation # "insert" /\ tag[0].cell[i] # c.servaddr.tag
         /\ c'.operation = "none" /\ c'.opstate = 0 /\ c'.deassertoutput
<1> DEFINE i == c.servaddr.index
<1>0. CacheTypeOK /\ Phases /\ WaysIdentical /\ 0 \in Way /\ c.set \in Way
  BY DEF CacheInv, CacheTypeOK, Members, Way
<1>1. /\ c'.operation = "none" /\ c'.opstate = 0 /\ c'.deassertoutput
      /\ c.waitdelay = 0 /\ c.operation # "none" /\ out'.ready /\ out'.token = c.servaddr
  <2>1. c \in Members
    BY <1>0 DEF CacheTypeOK
  <2>2. CASE FinishInsert
    BY <2>1, <2>2 DEF FinishInsert, Completed, Reply, Members
  <2>3. CASE FinishReadMiss
    BY <2>1, <2>3 DEF FinishReadMiss, Completed, Reply, Members
  <2>4. CASE TagsMiss
    BY <2>1, <2>4 DEF TagsMiss, Completed, Reply, Members
  <2>5. CASE FinishWrite
    BY <2>1, <2>5 DEF FinishWrite, Completed, Reply, Members
  <2>6. CASE \E w \in Way : FinishReadHit(w)
    BY <2>1, <2>6 DEF FinishReadHit, Completed, Reply, Members
  <2> QED BY <2>2, <2>3, <2>4, <2>5, <2>6 DEF Finish
<1>2. CASE FinishInsert
  <2>1. InsertPhase /\ out'.state = state[c.set].dout /\ c.operation = "insert"
    BY <1>0, <1>2 DEF FinishInsert, Reply, Phases
  <2>2. /\ out'.state = c.newstate /\ state[0].cell[i] = c.newstate
        /\ tag[0].cell[i] = c.servaddr.tag
    BY <1>0, <1>1, <2>1 DEF InsertPhase, Holds
  <2> QED BY <1>1, <2>1, <2>2 DEF CarriedOut
<1>3. CASE FinishReadMiss
  <2>1. /\ ReadPhase /\ out'.state = Miss /\ out'.data = data[c.set].dout
        /\ c.operation = "read" /\ tag[0].dout # c.servaddr.tag
    BY <1>0, <1>3 DEF FinishReadMiss, Reply, Phases, Hits
  <2>2. tag[0].cell[i] # c.servaddr.tag /\ out'.data = data[0].cell[i]
    BY <1>0, <1>1, <2>1 DEF ReadPhase, Shows, WaysIdentical, Way
  <2> QED BY <1>1, <2>1, <2>2
<1>4. CASE TagsMiss
  <2>1. /\ TagPhase /\ out'.state = Miss /\ c.operation \in {"probe", "update"}
        /\ tag[0].dout # c.servaddr.tag
    BY <1>0, <1>4 DEF TagsMiss, Reply, Phases, Hits
  <2>2. tag[0].cell[i] # c.servaddr.tag
    BY <1>0, <1>1, <2>1 DEF TagPhase, Shows
  <2> QED BY <1>1, <2>1, <2>2
<1>5. CASE FinishWrite
  <2>1. /\ WritePhase /\ out'.state = state[c.set].dout /\ c.opstate = 2
        /\ c.operation \in {"probe", "update"}
    BY <1>0, <1>5 DEF FinishWrite, Reply, Phases
  <2>2. /\ out'.state = c.newstate /\ state[0].cell[i] = c.newstate
        /\ tag[0].cell[i] = c.servaddr.tag
    BY <1>0, <1>1, <2>1 DEF WritePhase, Holds
  <2> QED BY <1>1, <2>1, <2>2 DEF CarriedOut
<1>6. CASE \E w \in Way : FinishReadHit(w)
  <2>1. PICK w \in Way : FinishReadHit(w)
    BY <1>6
  <2>2. /\ ReadPhase /\ out'.state = state[w].dout /\ out'.data = data[w].dout
        /\ c.operation = "read" /\ tag[w].dout = c.servaddr.tag
    BY <1>0, <2>1 DEF FinishReadHit, FirstHit, Hits, Reply, Phases
  <2>3. data[w] = data[0] /\ state[w] = state[0] /\ tag[w] = tag[0]
    BY <1>0 DEF WaysIdentical, Way
  <2>4. /\ tag[0].cell[i] = c.servaddr.tag /\ out'.state = state[0].cell[i]
        /\ out'.data = data[0].cell[i]
    BY <1>0, <1>1, <2>2, <2>3 DEF ReadPhase, Shows
  <2> QED BY <1>1, <2>2, <2>4
<1> QED BY <1>2, <1>3, <1>4, <1>5, <1>6 DEF Finish

(* The end of a request is the answer of the store. *)
LEMMA FinishAnswers ==
  ASSUME CacheInv, CacheWork, Finish
  PROVE  Store!Answer(InHand)
<1> DEFINE i == c.servaddr.index
<1>1. CellStore' = CellStore
  <2>1. ~(Wait /\ Writing)
    BY DEF Finish, FinishInsert, FinishReadMiss, TagsMiss, FinishWrite, FinishReadHit, Wait
  <2> QED BY <2>1, CellStoreKept
<1>2. i \in Index
  BY DEF CacheInv, CacheTypeOK, Members, Addr
<1>3. /\ c.operation # "none"
      /\ out'.token = c.servaddr
      /\ out'.state = IF tag[0].cell[i] = c.servaddr.tag THEN state[0].cell[i] ELSE Miss
      /\ c.operation = "read" => out'.data = data[0].cell[i]
      /\ \/ CarriedOut \/ c.operation = "read"
         \/ c.operation # "insert" /\ tag[0].cell[i] # c.servaddr.tag
      /\ c'.operation = "none" /\ c'.opstate = 0
  BY ReplyTells
<1>4. CarriedOut' = FALSE
  BY <1>3 DEF CarriedOut
<1>5. /\ CellStore[i].tag = tag[0].cell[i] /\ CellStore[i].state = state[0].cell[i]
      /\ CellStore[i].data = data[0].cell[i]
  BY <1>2 DEF CellStore
<1> QED
  BY <1>1, <1>2, <1>3, <1>4, <1>5
  DEF Store!Answer, Store!Hit, CellStore, InHand, CarriedOut, LastAnswer

(* The tag a reply tells is the one both ways hold. *)
LEMMA ReplyTag ==
  ASSUME CacheInv, CacheWork, c.operation \in {"read", "probe", "update"}, out'.ready
  PROVE  LET i == c.servaddr.index IN
         /\ out'.token = c.servaddr
         /\ \A w \in Way : out'.addr = tag[w].cell[i]
         /\ out'.state = Miss <=> out'.addr # c.servaddr.tag
<1> DEFINE i == c.servaddr.index
<1>1. /\ CacheTypeOK /\ Phases /\ WaysIdentical /\ 0 \in Way /\ c.set \in Way
      /\ \A w \in Way : tag[w] = tag[0]
      /\ \A w \in Way : state[w].dout \in State
  BY ShownTyped DEF CacheInv, CacheTypeOK, Members, Way, WaysIdentical
<1>2. Finish
  <2>1. ~Wait /\ ~TagsHit
    BY <1>1 DEF Wait, TagsHit, CacheTypeOK, Outputs
  <2>2. ~Ready
    BY DEF Ready
  <2> QED BY <2>1, <2>2 DEF CacheWork, Finish, AcceptInsert, AcceptRead, AcceptTagRead, Accept, Idle
<1>3. CASE FinishReadMiss
  <2>1. /\ ReadPhase /\ out'.state = Miss /\ out'.addr = tag[c.set].dout /\ c.waitdelay = 0
        /\ out'.token = c.servaddr /\ tag[c.set].dout # c.servaddr.tag
    BY <1>1, <1>3 DEF FinishReadMiss, Reply, Phases, Hits
  <2> QED BY <1>1, <2>1 DEF ReadPhase, Shows
<1>4. CASE TagsMiss
  <2>1. /\ TagPhase /\ out'.state = Miss /\ out'.addr = tag[c.set].dout /\ c.waitdelay = 0
        /\ out'.token = c.servaddr /\ tag[c.set].dout # c.servaddr.tag
    BY <1>1, <1>4 DEF TagsMiss, Reply, Phases, Hits
  <2> QED BY <1>1, <2>1 DEF TagPhase, Shows
<1>5. CASE FinishWrite
  <2>1. /\ WritePhase /\ out'.state = state[c.set].dout /\ out'.addr = c.temptag[c.set]
        /\ out'.token = c.servaddr
    BY <1>1, <1>5 DEF FinishWrite, Reply, Phases
  <2> QED BY <1>1, <2>1, MissAssumption DEF WritePhase
<1>6. CASE \E w \in Way : FinishReadHit(w)
  <2>1. PICK w \in Way : FinishReadHit(w)
    BY <1>6
  <2>2. /\ ReadPhase /\ out'.state = state[w].dout /\ out'.addr = tag[w].dout /\ c.waitdelay = 0
        /\ out'.token = c.servaddr /\ tag[w].dout = c.servaddr.tag
    BY <1>1, <2>1 DEF FinishReadHit, FirstHit, Hits, Reply, Phases
  <2> QED BY <1>1, <2>2, MissAssumption DEF ReadPhase, Shows
<1> QED BY <1>2, <1>3, <1>4, <1>5, <1>6 DEF Finish, FinishInsert

(* out_addr and out_state are those of the block asked for or of the one in *)
(* its place (cache.h:87-88, 184-339), whatever way the round robin is at. *)
THEOREM TagsTold == WarmupSpec => TagTold
<1>1. ASSUME CacheInv, [WarmupNext]_warmupVars,
             c.operation \in {"read", "probe", "update"}, out'.ready
      PROVE  \/ /\ \A w \in Way : out'.addr = tag[w].cell[out'.token.index]
                /\ out'.state = Miss <=> out'.addr # out'.token.tag
             \/ UNCHANGED warmupVars
  <2>1. CASE systemc_clock
    BY <1>1, <2>1, ReplyTag DEF systemc_clock
  <2>2. CASE \E r \in Requests : systemc_request_submit(r)
    <3>1. c.operation = "none"
      BY <1>1, <2>2 DEF systemc_request_submit, CacheInv, PortFollows, Ready
    <3> QED BY <1>1, <3>1
  <2> QED BY <1>1, <2>1, <2>2 DEF WarmupNext
<1>2. CacheInv /\ [WarmupNext]_warmupVars =>
        [c.operation \in {"read", "probe", "update"} /\ out'.ready =>
           /\ \A w \in Way : out'.addr = tag[w].cell[out'.token.index]
           /\ out'.state = Miss <=> out'.addr # out'.token.tag]_warmupVars
  BY <1>1
<1> QED BY <1>2, CacheInvariant, PTL DEF WarmupSpec, TagTold

(* Every step is one of the block store, or none. *)
LEMMA StoreStep ==
  ASSUME CacheInv, [WarmupNext]_warmupVars
  PROVE  [Store!Next]_Store!vars
<1>1. CASE systemc_clock
  <2>1. CacheWork /\ CacheTypeOK
    BY <1>1 DEF systemc_clock, CacheInv
  <2>2. CASE TagsHit \/ Idle \/ (Wait /\ ~Writing)
    BY <2>1, <2>2, QuietSteps
  <2>3. CASE AcceptInsert \/ AcceptRead \/ AcceptTagRead
    BY <2>1, <2>3, AcceptAsks DEF Store!Next
  <2>4. CASE Wait /\ Writing
    <3>1. Store!Apply(InHand)
      BY <2>1, <2>4, WaitApplies
    <3>2. InHand \in Store!Request
      BY <2>1, <2>4, InHandTyped DEF Writing
    <3>3. \E r \in Store!Request : Store!Apply(r) \/ Store!Answer(r)
      BY <3>1, <3>2 DEF Store!Apply
    <3> QED BY <3>3 DEF Store!Next
  <2>5. CASE Finish
    <3>1. Store!Answer(InHand)
      BY <2>1, <2>5, FinishAnswers
    <3>2. InHand \in Store!Request
      BY <2>1, <2>5, ReplyTells, InHandTyped
    <3>3. \E r \in Store!Request : Store!Apply(r) \/ Store!Answer(r)
      BY <3>1, <3>2
    <3> QED BY <3>3 DEF Store!Next
  <2> QED BY <2>1, <2>2, <2>3, <2>4, <2>5 DEF CacheWork, Finish
<1>2. CASE \E r \in Requests : systemc_request_submit(r)
  BY <1>2, StoreStutters
  DEF systemc_request_submit, CellStore, InHand, CarriedOut, LastAnswer
<1>3. CASE UNCHANGED warmupVars
  BY <1>3, StoreStutters
  DEF warmupVars, cacheVars, CellStore, InHand, CarriedOut, LastAnswer
<1> QED BY <1>1, <1>2, <1>3 DEF WarmupNext

(* CacheProject::work() and its SRAMs implement the block store            *)
(* (cache.h:129-428, sram.h:22-32): one block per index, a request carried *)
(* out at one instant and answered once with what the store then holds.    *)
THEOREM StoreRefined == WarmupSpec => StoreSpec
<1>1. WarmupInit => Store!Init
  BY InitStore
<1>2. CacheInv /\ [WarmupNext]_warmupVars => [Store!Next]_Store!vars
  BY StoreStep
<1> QED BY <1>1, <1>2, CacheInvariant, PTL DEF WarmupSpec, StoreSpec, Store!Spec

-----------------------------------------------------------------------------
(* The assertions of the wrapper.  A request keeps its entry in the map    *)
(* until it is answered, and an entry that needs data belongs to a read.   *)
Asked ==
  /\ in.ena => /\ in.addr \in Outstanding
               /\ systemc_requests[in.addr] => in.needs_data
  /\ in.ena /\ in.has_data => /\ Served(in) /\ ~in.needs_data
                              /\ in.data = systemc_cache_data[in.addr]
  /\ c.operation # "none" => /\ c.servaddr \in Outstanding
                             /\ systemc_requests[c.servaddr] => c.operation = "read"
  /\ c.operation \in {"insert", "probe"} => c.newdata = systemc_cache_data[c.servaddr]
  /\ out.ready => c.deassertoutput

(* Data the host gave and no cell has yet. *)
Pending(a) ==
  \/ in.ena /\ in.has_data /\ in.addr = a
  \/ c.operation \in {"insert", "probe"} /\ c.servaddr = a /\ ~CarriedOut

(* A cell that holds a block holds the data last written to it, once the   *)
(* write has got there: a block is only ever put in its cell with its data.*)
Stored ==
  \A a \in Addr :
    ~Pending(a) /\ tag[0].cell[a.index] = a.tag =>
      systemc_cache_data[a] \in {data[0].cell[a.index], ZeroData}

HostInv ==
  /\ CacheInv /\ systemc_cache_data \in [Addr -> Data]
  /\ Asked /\ Stored /\ ~failed

(* An address is its tag and its index. *)
LEMMA AddrEqual ==
  ASSUME NEW a \in Addr, NEW b \in Addr, a.tag = b.tag, a.index = b.index
  PROVE  a = b
  BY DEF Addr

(* The host's invariant holds before the first request. *)
LEMMA HostInit == ASSUME WarmupInit PROVE HostInv
<1>1. CacheInv
  BY CacheInvInit
<1>2. systemc_cache_data \in [Addr -> Data] /\ ~failed
  BY ZeroAssumption DEF WarmupInit
<1>3. Asked
  BY DEF WarmupInit, CacheInit, Asked
<1>4. Stored
  BY DEF WarmupInit, Stored
<1> QED BY <1>1, <1>2, <1>3, <1>4 DEF HostInv

(* Submitting a request keeps it. *)
LEMMA SubmitKeepsHost ==
  ASSUME HostInv, NEW r \in Requests, systemc_request_submit(r)
  PROVE  HostInv'
<1>0. CacheInv /\ CacheTypeOK /\ Asked /\ Stored /\ ~failed /\ systemc_cache_data \in [Addr -> Data]
  BY DEF HostInv, CacheInv
<1>1. CacheInv'
  BY <1>0, SubmitKeepsCache
<1>2. /\ UNCHANGED <<data, tag, c, out, failed>> /\ in' = r /\ r \in Inputs /\ r.addr \in Addr
      /\ r.data \in Data /\ r.ena /\ c.operation = "none" /\ ~in.ena
      /\ r.has_data => r.update_state /\ ~r.needs_data
  BY <1>0 DEF HostInv, CacheInv, PortFollows, Ready, systemc_request_submit, Requests, Inputs
<1>3. /\ Outstanding' = Outstanding \cup {r.addr}
      /\ systemc_requests'[r.addr] = r.needs_data
  BY DEF systemc_request_submit, Outstanding
<1>4. /\ r.has_data => systemc_cache_data' = [systemc_cache_data EXCEPT ![r.addr] = r.data]
      /\ ~r.has_data => systemc_cache_data' = systemc_cache_data
  BY DEF systemc_request_submit
<1>5. systemc_cache_data' \in [Addr -> Data]
  BY <1>0, <1>2, <1>4
<1>6. Asked'
  BY <1>0, <1>2, <1>3, <1>4 DEF Asked, Served, Insert, Read, Probe, Update
<1>7. Stored'
  <2> SUFFICES ASSUME NEW a \in Addr, ~Pending(a)', tag[0].cell[a.index] = a.tag
               PROVE  systemc_cache_data'[a] \in {data[0].cell[a.index], ZeroData}
    BY <1>2 DEF Stored
  <2>1. ~(r.has_data /\ r.addr = a) /\ ~Pending(a)
    BY <1>2 DEF Pending
  <2>2. systemc_cache_data'[a] = systemc_cache_data[a]
    BY <1>0, <1>2, <1>4, <2>1
  <2> QED BY <1>0, <2>1, <2>2 DEF Stored
<1> QED BY <1>0, <1>1, <1>2, <1>5, <1>6, <1>7 DEF HostInv

(* A cycle that starts an operation: the entry of the request and its data *)
(* go from the pins to the members of the cache.                           *)
LEMMA AcceptKeepsAsked ==
  ASSUME CacheTypeOK, Asked, systemc_clock, AcceptInsert \/ AcceptRead \/ AcceptTagRead
  PROVE  /\ Asked'
         /\ \A a \in Addr : Pending(a) => Pending(a)'
<1>1. /\ c'.servaddr = in.addr /\ c'.waitdelay = 1 /\ ~out'.ready /\ in.ena
      /\ c.operation = "none"
      /\ c'.operation # "read" => ~Read(in)
      /\ c'.operation \in {"insert", "probe"} => c'.newdata = in.data /\ in.has_data
      /\ in.has_data => c'.operation \in {"insert", "probe"} \/ in.needs_data
  <2>1. c \in Members /\ out \in Outputs /\ in \in Inputs
    BY DEF CacheTypeOK
  <2>2. CASE AcceptInsert
    BY <2>1, <2>2 DEF AcceptInsert, Accept, Insert, Read, Members, Outputs, Delay, Ready
  <2>3. CASE AcceptRead
    BY <2>1, <2>3 DEF AcceptRead, Accept, Insert, Read, Members, Outputs, Delay, Ready
  <2>4. CASE AcceptTagRead
    BY <2>1, <2>4, ZenonT(60)
    DEF AcceptTagRead, Accept, Insert, Read, Probe, Update, Members, Outputs, Delay, Ready
  <2> QED BY <2>2, <2>3, <2>4
<1>2. /\ ~in'.ena /\ UNCHANGED <<systemc_requests, systemc_cache_data>>
  BY <1>1 DEF systemc_clock, CacheTypeOK, Inputs
<1>3. Asked'
  BY <1>1, <1>2 DEF Asked, Outstanding, Served, Read, Insert
<1>4. ASSUME NEW a \in Addr, Pending(a) PROVE Pending(a)'
  BY <1>1, <1>2, <1>4 DEF Asked, Pending, CarriedOut
<1> QED BY <1>3, <1>4

(* A cycle that completes none and starts none. *)
LEMMA OtherKeepsAsked ==
  ASSUME CacheTypeOK, PortFollows, Asked, systemc_clock, Wait \/ TagsHit \/ Idle
  PROVE  Asked' /\ ~in'.ena /\ UNCHANGED <<systemc_requests, systemc_cache_data>>
<1>1. /\ c'.servaddr = c.servaddr /\ c'.operation = c.operation /\ c'.newdata = c.newdata
      /\ ~out'.ready
  <2>1. c \in Members /\ out \in Outputs
    BY DEF CacheTypeOK
  <2>2. CASE Wait
    BY <2>1, <2>2 DEF Wait, Members, Outputs
  <2>3. CASE TagsHit
    BY <2>1, <2>3 DEF TagsHit, Members, Outputs
  <2>4. CASE Idle
    BY <2>1, <2>4 DEF Idle, Lowered, Asked, Members, Outputs
  <2> QED BY <2>2, <2>3, <2>4
<1>2. /\ ~in'.ena /\ UNCHANGED <<systemc_requests, systemc_cache_data>>
  BY <1>1 DEF systemc_clock, CacheTypeOK, Inputs
<1> QED BY <1>1, <1>2 DEF Asked, Outstanding

(* A cycle that completes an operation: its reply passes the assertions.   *)
LEMMA FinishKeepsHost ==
  ASSUME HostInv, systemc_clock, Finish
  PROVE  Asked' /\ Stored' /\ ~failed'
<1> DEFINE i == c.servaddr.index
<1>0. /\ CacheInv /\ CacheTypeOK /\ PortFollows /\ Asked /\ Stored /\ ~failed /\ CacheWork
      /\ c.servaddr \in Addr
  BY DEF HostInv, CacheInv, systemc_clock, CacheTypeOK, Members
<1>1. /\ c.operation # "none" /\ out'.ready /\ out'.token = c.servaddr
      /\ out'.state = IF tag[0].cell[i] = c.servaddr.tag THEN state[0].cell[i] ELSE Miss
      /\ c.operation = "read" => out'.data = data[0].cell[i]
      /\ \/ CarriedOut \/ c.operation = "read"
         \/ c.operation # "insert" /\ tag[0].cell[i] # c.servaddr.tag
      /\ c'.operation = "none" /\ c'.deassertoutput
  BY <1>0, ReplyTells
<1>2. ~in.ena /\ ~in'.ena /\ UNCHANGED systemc_cache_data
  BY <1>0, <1>1 DEF PortFollows, Ready, systemc_clock, CacheTypeOK, Inputs
<1>3. data'[0].cell = data[0].cell /\ tag'[0].cell = tag[0].cell
  <2>1. ~(Wait /\ Writing) /\ 0 \in Way
    BY DEF Finish, FinishInsert, FinishReadMiss, TagsMiss, FinishWrite, FinishReadHit, Wait, Way
  <2> QED BY <1>0, <2>1, CellsKept
<1>4. Asked'
  BY <1>1, <1>2 DEF Asked
<1>5. Stored'
  <2> SUFFICES ASSUME NEW a \in Addr, tag[0].cell[a.index] = a.tag
               PROVE  systemc_cache_data[a] \in {data[0].cell[a.index], ZeroData}
    BY <1>2, <1>3 DEF Stored
  <2>1. ~Pending(a)
    BY <1>1, <1>2 DEF Pending
  <2> QED BY <1>0, <2>1 DEF Stored
<1>6. ReplyAsserts(out')
  <2>1. out'.token \in Outstanding
    BY <1>0, <1>1 DEF Asked
  <2>2. ASSUME out'.state # Miss, systemc_requests[c.servaddr],
               systemc_cache_data[c.servaddr] # ZeroData
        PROVE  out'.data = systemc_cache_data[c.servaddr]
    <3>1. c.operation = "read" /\ tag[0].cell[i] = c.servaddr.tag
      BY <1>0, <1>1, <2>2 DEF Asked
    <3>2. ~Pending(c.servaddr)
      BY <1>2, <3>1 DEF Pending
    <3> QED BY <1>0, <1>1, <2>2, <3>1, <3>2 DEF Stored
  <2> QED BY <1>1, <2>1, <2>2 DEF ReplyAsserts
<1>7. ~failed'
  BY <1>0, <1>1, <1>6 DEF systemc_clock
<1> QED BY <1>4, <1>5, <1>7

(* A cycle that leaves the cells alone keeps what they hold. *)
LEMMA KeptCellsStored ==
  ASSUME HostInv, CacheWork, ~(Wait /\ Writing), UNCHANGED systemc_cache_data,
         \A a \in Addr : Pending(a) => Pending(a)'
  PROVE  Stored'
<1>1. data'[0].cell = data[0].cell /\ tag'[0].cell = tag[0].cell
  BY CellsKept DEF HostInv, Way
<1> SUFFICES ASSUME NEW a \in Addr, ~Pending(a)', tag[0].cell[a.index] = a.tag
             PROVE  systemc_cache_data[a] \in {data[0].cell[a.index], ZeroData}
  BY <1>1 DEF Stored
<1> QED BY DEF HostInv, Stored

(* The data of a write reach their cell. *)
LEMMA WriteStored ==
  ASSUME HostInv, CacheWork, Wait, Writing, UNCHANGED systemc_cache_data
  PROVE  Stored'
<1> DEFINE i == c.servaddr.index
<1>0. /\ CacheInv /\ CacheTypeOK /\ SramsWork /\ Asked /\ Stored /\ c.servaddr \in Addr
      /\ Phases /\ ~in.ena /\ c.newdata \in Data
  BY DEF HostInv, CacheInv, CacheWork, CacheTypeOK, Members, PortFollows, Ready, Wait
<1>1. /\ data'[0].cell = IF c.operation = "update" THEN data[0].cell
                         ELSE [data[0].cell EXCEPT ![i] = c.newdata]
      /\ tag'[0].cell = IF c.operation = "insert"
                        THEN [tag[0].cell EXCEPT ![i] = c.servaddr.tag] ELSE tag[0].cell
  BY <1>0, CellsWritten DEF Way
<1>2. DOMAIN data[0].cell = Index /\ DOMAIN tag[0].cell = Index /\ i \in Index
  BY <1>0, SramTypes DEF Indexed, Way
<1>3. c.operation # "insert" => tag[0].cell[i] = c.servaddr.tag
  BY <1>0 DEF Phases, WritePhase, Writing, Way
<1>4. c.operation # "update" => c.newdata = systemc_cache_data[c.servaddr]
  BY <1>0 DEF Asked, Writing
<1> SUFFICES ASSUME NEW a \in Addr, tag'[0].cell[a.index] = a.tag
             PROVE  systemc_cache_data[a] \in {data'[0].cell[a.index], ZeroData}
  BY DEF Stored
<1>5. a.index \in Index
  BY DEF Addr
<1>6. CASE a.index # i
  <2>1. tag[0].cell[a.index] = a.tag /\ data'[0].cell[a.index] = data[0].cell[a.index]
    BY <1>1, <1>2, <1>5, <1>6
  <2>2. ~Pending(a)
    BY <1>0, <1>6 DEF Pending
  <2> QED BY <1>0, <2>1, <2>2 DEF Stored
<1>7. CASE a.index = i
  <2>1. a = c.servaddr
    <3>1. a.tag = c.servaddr.tag
      BY <1>1, <1>2, <1>3, <1>7
    <3> QED BY <1>0, <1>7, <3>1, AddrEqual
  <2>2. CASE c.operation = "update"
    <3>1. ~Pending(a) /\ tag[0].cell[a.index] = a.tag
      BY <1>0, <1>3, <2>1, <2>2 DEF Pending
    <3> QED BY <1>0, <1>1, <2>2, <3>1 DEF Stored
  <2>3. CASE c.operation # "update"
    BY <1>1, <1>2, <1>4, <2>1, <2>3
  <2> QED BY <2>2, <2>3
<1> QED BY <1>6, <1>7

(* A cycle keeps it. *)
LEMMA ClockKeepsHost == ASSUME HostInv, systemc_clock PROVE HostInv'
<1>0. /\ CacheInv /\ CacheTypeOK /\ PortFollows /\ Asked /\ ~failed /\ CacheWork
      /\ UNCHANGED systemc_cache_data /\ systemc_cache_data \in [Addr -> Data]
  BY DEF HostInv, CacheInv, systemc_clock
<1>1. CacheInv'
  BY <1>0, ClockKeepsCache
<1>2. CASE Finish
  BY <1>0, <1>1, <1>2, FinishKeepsHost DEF HostInv
<1>3. ~Finish => ~out'.ready
  BY <1>0 DEF Finish, CacheWork, Wait, TagsHit, AcceptInsert, AcceptRead, AcceptTagRead, Accept,
     Idle, Lowered, Asked, CacheTypeOK, Outputs
<1>4. ~Finish => ~failed'
  BY <1>0, <1>3 DEF systemc_clock
<1>5. CASE AcceptInsert \/ AcceptRead \/ AcceptTagRead
  <2>1. Asked' /\ \A a \in Addr : Pending(a) => Pending(a)'
    BY <1>0, <1>5, AcceptKeepsAsked
  <2>2. ~(Wait /\ Writing) /\ ~Finish
    BY <1>5 DEF AcceptInsert, AcceptRead, AcceptTagRead, Accept, Ready, Wait, Finish, FinishInsert,
       FinishReadMiss, TagsMiss, FinishWrite, FinishReadHit
  <2>3. Stored'
    BY <1>0, <2>1, <2>2, KeptCellsStored
  <2> QED BY <1>0, <1>1, <1>4, <2>1, <2>2, <2>3 DEF HostInv
<1>6. CASE (Wait \/ TagsHit \/ Idle) /\ ~Finish
  <2>1. Asked' /\ ~in'.ena
    BY <1>0, <1>6, OtherKeepsAsked
  <2>2. CASE Wait /\ Writing
    BY <1>0, <1>1, <1>4, <1>6, <2>1, <2>2, WriteStored DEF HostInv
  <2>3. CASE ~(Wait /\ Writing)
    <3>1. c \in Members
      BY <1>0 DEF CacheTypeOK
    <3>2. ~(in.ena /\ in.has_data)
      BY <1>0, <1>6 DEF PortFollows, Asked, Ready, Wait, TagsHit, Idle
    <3>3. /\ c'.operation = c.operation /\ c'.servaddr = c.servaddr
          /\ c.operation \in {"insert", "probe"} => ~CarriedOut'
      <4>1. CASE Wait
        BY <1>0, <2>3, <3>1, <4>1 DEF Wait, Writing, CarriedOut, Members, CacheInv, Phases
      <4>2. CASE TagsHit
        BY <3>1, <4>2 DEF TagsHit, CarriedOut, Members, Delay
      <4>3. CASE Idle
        BY <3>1, <4>3 DEF Idle, Ready, Members
      <4> QED BY <1>6, <4>1, <4>2, <4>3
    <3>4. ASSUME NEW a \in Addr, Pending(a) PROVE Pending(a)'
      BY <3>2, <3>3, <3>4 DEF Pending
    <3>5. Stored'
      BY <1>0, <2>3, <3>4, KeptCellsStored
    <3> QED BY <1>0, <1>1, <1>4, <1>6, <2>1, <3>5 DEF HostInv
  <2> QED BY <2>2, <2>3
<1> QED BY <1>0, <1>2, <1>5, <1>6 DEF CacheWork, Finish

(* It depends on the variables only. *)
LEMMA StutterKeepsHost == ASSUME HostInv, UNCHANGED warmupVars PROVE HostInv'
<1>1. CacheInv'
  BY StutterKeepsCache DEF HostInv
<1>2. UNCHANGED <<in, out, c, data, tag, systemc_requests, systemc_cache_data, failed>>
  BY DEF warmupVars, cacheVars, wrapperVars
<1>3. Asked'
  BY <1>2 DEF HostInv, Asked, Outstanding, Served, Insert, Read, Probe, Update
<1>4. Stored'
  BY <1>2 DEF HostInv, Stored, Pending, CarriedOut
<1> QED BY <1>1, <1>2, <1>3, <1>4 DEF HostInv

(* The assertions systemc_clock() makes on a reply (wrapper.cpp:34-50)     *)
(* never fail, whatever the host asks for, in whatever order.              *)
THEOREM RepliesAlwaysRight == WarmupSpec => []RepliesRight
<1>1. HostInv /\ [WarmupNext]_warmupVars => HostInv'
  BY ClockKeepsHost, SubmitKeepsHost, StutterKeepsHost DEF WarmupNext
<1>2. HostInv => RepliesRight
  BY DEF HostInv, RepliesRight
<1> QED BY <1>1, <1>2, HostInit, PTL DEF WarmupSpec
=============================================================================
