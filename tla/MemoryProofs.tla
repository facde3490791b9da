----------------------------- MODULE MemoryProofs -----------------------------
(***************************************************************************)
(* Memory and the core at its ports, for every set of addresses and values,*)
(* every latency and every cache size: no waiting request is lost, a READ  *)
(* returns what was last written, the data port does what DataMemory, the  *)
(* port of the back end, allows, the caches keep to their capacity, no more*)
(* requests are outstanding than the longest latency, and a READ repeated  *)
(* until then has been answered.                                           *)
(***************************************************************************)
EXTENDS DataPort, FiniteSetTheorems, Induction, TLAPS

(* A bucket holds values of A, each at least once. *)
BucketOf(A, pq) ==
  /\ pq \in [DOMAIN pq -> Nat \ {0}]
  /\ DOMAIN pq \subseteq [left : Int, val : A]

Values(pq) == {e.val : e \in BagToSet(pq)}

(* Delivery, request and the passing of a cycle keep buckets. *)
LEMMA Added ==
  ASSUME NEW A, NEW pq, BucketOf(A, pq), NEW v \in A, NEW delay \in Int, NEW n \in Nat
  PROVE  /\ BucketOf(A, Add(pq, v, delay, n))
         /\ Values(Add(pq, v, delay, n)) = IF n = 0 THEN Values(pq) ELSE Values(pq) \cup {v}
<1> DEFINE e == [left |-> delay, val |-> v]
<1>1. CASE n = 0
  BY <1>1 DEF Add
<1>2. CASE n # 0
  <2>1. Add(pq, v, delay, n) = pq (+) [d \in {e} |-> n]
    BY <1>2 DEF Add
  <2>2. /\ DOMAIN (pq (+) [d \in {e} |-> n]) = DOMAIN pq \cup {e}
        /\ \A d \in DOMAIN pq \cup {e} : (pq (+) [f \in {e} |-> n])[d] \in Nat \ {0}
        /\ pq (+) [d \in {e} |-> n] = [d \in DOMAIN pq \cup {e} |-> (pq (+) [f \in {e} |-> n])[d]]
    BY <1>2 DEF (+), BucketOf
  <2>3. e \in [left : Int, val : A] /\ e.val = v
    OBVIOUS
  <2> HIDE DEF e
  <2>4. BucketOf(A, pq (+) [d \in {e} |-> n])
    BY <2>2, <2>3 DEF BucketOf
  <2>5. Values(pq (+) [d \in {e} |-> n]) = Values(pq) \cup {v}
    BY <2>2, <2>3 DEF Values, BagToSet
  <2> QED BY <1>2, <2>1, <2>4, <2>5
<1> QED BY <1>1, <1>2

(* A delivered copy of a response leaves the bucket (delaybucket.h:26-32). *)
LEMMA RemovedOne ==
  ASSUME NEW A, NEW pq, BucketOf(A, pq), NEW e \in DOMAIN pq
  PROVE  /\ BucketOf(A, Removed(pq, e))
         /\ DOMAIN Removed(pq, e) \in {DOMAIN pq, DOMAIN pq \ {e}}
<1>1. /\ DOMAIN Removed(pq, e) = {d \in DOMAIN pq : d # e \/ pq[d] > 1}
      /\ \A d \in DOMAIN Removed(pq, e) : Removed(pq, e)[d] \in Nat \ {0}
      /\ Removed(pq, e) = [d \in DOMAIN Removed(pq, e) |-> Removed(pq, e)[d]]
  BY DEF Removed, (-), SetToBag, BucketOf
<1>2. BucketOf(A, Removed(pq, e))
  BY <1>1 DEF BucketOf
<1>3. CASE pq[e] > 1
  BY <1>1, <1>2, <1>3
<1>4. CASE ~(pq[e] > 1)
  BY <1>1, <1>2, <1>4
<1> QED BY <1>3, <1>4

(* A cycle changes when the values of a bucket are due, not the values. *)
LEMMA ElapsedKeeps ==
  ASSUME NEW A, NEW pq, BucketOf(A, pq)
  PROVE  BucketOf(A, Elapsed(pq)) /\ Values(Elapsed(pq)) = Values(pq)
<1> DEFINE Older(f) == [f EXCEPT !.left = @ - 1]
<1>1. ASSUME NEW f \in DOMAIN pq
      PROVE  /\ Older(f) \in [left : Int, val : A] /\ Older(f).val = f.val
             /\ [Older(f) EXCEPT !.left = @ + 1] = f
  <2>1. PICK l \in Int, v \in A : f = [left |-> l, val |-> v]
    BY DEF BucketOf
  <2>2. Older(f) = [left |-> l - 1, val |-> v]
    BY <2>1
  <2>3. [[left |-> l - 1, val |-> v] EXCEPT !.left = @ + 1] = [left |-> l, val |-> v]
    OBVIOUS
  <2> HIDE DEF Older
  <2>4. [Older(f) EXCEPT !.left = @ + 1] = [left |-> l, val |-> v]
    BY <2>2, <2>3
  <2>5. Older(f) \in [left : Int, val : A] /\ Older(f).val = v /\ f.val = v
    BY <2>1, <2>2
  <2> QED BY <2>1, <2>4, <2>5
<1>2. DOMAIN Elapsed(pq) = {Older(f) : f \in DOMAIN pq}
  BY DEF Elapsed, BagToSet
<1>3. Elapsed(pq) = [d \in {Older(f) : f \in DOMAIN pq} |-> pq[[d EXCEPT !.left = @ + 1]]]
  BY DEF Elapsed, BagToSet
<1> HIDE DEF Older
<1>4. BucketOf(A, Elapsed(pq))
  <2>1. ASSUME NEW d \in DOMAIN Elapsed(pq)
        PROVE  d \in [left : Int, val : A] /\ Elapsed(pq)[d] \in Nat \ {0}
    <3>1. PICK f \in DOMAIN pq : d = Older(f)
      BY <1>2
    <3>2. Elapsed(pq)[d] = pq[[d EXCEPT !.left = @ + 1]]
      BY <1>2, <1>3
    <3>3. Elapsed(pq)[d] = pq[f]
      BY <1>1, <3>1, <3>2
    <3> QED BY <1>1, <3>1, <3>3 DEF BucketOf
  <2>2. Elapsed(pq) = [d \in DOMAIN Elapsed(pq) |-> Elapsed(pq)[d]]
    BY <1>2, <1>3
  <2> QED BY <2>1, <2>2 DEF BucketOf
<1>5. Values(Elapsed(pq)) = Values(pq)
  BY <1>1, <1>2 DEF Values, BagToSet
<1> QED BY <1>4, <1>5

-----------------------------------------------------------------------------
(* A port: its responses and its waiting lists, none of which is without a *)
(* response on its way.                                                    *)
PortOf(A, port) ==
  /\ port = [resp |-> port.resp, mshr |-> port.mshr]
  /\ BucketOf(A, port.resp)
  /\ port.mshr \in [DOMAIN port.mshr -> Nat]
  /\ DOMAIN port.mshr \subseteq Values(port.resp)

(* The port before the first cycle. *)
LEMMA EmptyPortIs == ASSUME NEW A PROVE PortOf(A, EmptyPort)
<1>1. DOMAIN EmptyPort.resp = {} /\ DOMAIN EmptyPort.mshr = {}
  BY DEF EmptyPort, EmptyBag, SetToBag
<1>2. EmptyPort.resp \in [DOMAIN EmptyPort.resp -> Nat \ {0}]
  BY DEF EmptyPort, EmptyBag, SetToBag
<1>3. EmptyPort.mshr \in [DOMAIN EmptyPort.mshr -> Nat]
  BY DEF EmptyPort
<1>4. EmptyPort = [resp |-> EmptyPort.resp, mshr |-> EmptyPort.mshr]
  BY DEF EmptyPort
<1> QED BY <1>1, <1>2, <1>3, <1>4 DEF PortOf, BucketOf

(* A delivery takes the address off the waiting lists and leaves the other *)
(* responses; the waiting requests become responses of their own.          *)
LEMMA DeliveredIs ==
  ASSUME NEW A, NEW port, PortOf(A, port), NEW e \in Due(port.resp)
  PROVE  /\ PortOf(A, Delivered(port, e)) /\ e.val \in A /\ e.val \in Values(port.resp)
         /\ Values(Delivered(port, e).resp) \in {Values(port.resp), Values(port.resp) \ {e.val}}
<1> DEFINE waiting == IF e.val \in DOMAIN port.mshr THEN port.mshr[e.val] ELSE 0
           kept == Removed(port.resp, e)
<1>1. BucketOf(A, port.resp) /\ e \in DOMAIN port.resp
  BY DEF PortOf, Due, BagToSet
<1>2. e.val \in A /\ e.val \in Values(port.resp) /\ waiting \in Nat
  BY <1>1 DEF BucketOf, Values, BagToSet, PortOf
<1>3. /\ Delivered(port, e).resp = Add(kept, e.val, 0, waiting)
      /\ Delivered(port, e).mshr = [a \in DOMAIN port.mshr \ {e.val} |-> port.mshr[a]]
      /\ Delivered(port, e) = [resp |-> Delivered(port, e).resp, mshr |-> Delivered(port, e).mshr]
  BY DEF Delivered
<1>4. BucketOf(A, kept) /\ DOMAIN kept \in {DOMAIN port.resp, DOMAIN port.resp \ {e}}
  BY <1>1, RemovedOne
<1>5. Values(kept) \in {Values(port.resp), Values(port.resp) \ {e.val}}
  <2>1. CASE DOMAIN kept = DOMAIN port.resp
    BY <2>1 DEF Values, BagToSet
  <2>2. CASE DOMAIN kept = DOMAIN port.resp \ {e}
    <3>1. Values(port.resp) \ {e.val} \subseteq Values(kept) /\ Values(kept) \subseteq Values(port.resp)
      BY <2>2 DEF Values, BagToSet
    <3> QED BY <3>1
  <2> QED BY <1>4, <2>1, <2>2
<1> HIDE DEF waiting, kept
<1>6. /\ BucketOf(A, Add(kept, e.val, 0, waiting))
      /\ Values(Add(kept, e.val, 0, waiting)) \in {Values(kept), Values(kept) \cup {e.val}}
  BY <1>2, <1>4, Added
<1>7. Values(Delivered(port, e).resp) \in {Values(port.resp), Values(port.resp) \ {e.val}}
  BY <1>2, <1>3, <1>5, <1>6
<1>8. DOMAIN Delivered(port, e).mshr = DOMAIN port.mshr \ {e.val}
  BY <1>3
<1>9. DOMAIN Delivered(port, e).mshr \subseteq Values(Delivered(port, e).resp)
  BY <1>7, <1>8 DEF PortOf
<1>10. Delivered(port, e).mshr \in [DOMAIN Delivered(port, e).mshr -> Nat]
  BY <1>3, <1>8 DEF PortOf
<1> QED BY <1>2, <1>3, <1>6, <1>7, <1>9, <1>10 DEF PortOf

(* A request joins a waiting list, or gets a response of its own. *)
LEMMA JoinedIs ==
  ASSUME NEW A, NEW port, PortOf(A, port), NEW a \in DOMAIN port.mshr
  PROVE  PortOf(A, Joined(port, a)) /\ Values(Joined(port, a).resp) = Values(port.resp)
<1>1. /\ Joined(port, a).resp = port.resp
      /\ Joined(port, a).mshr = [port.mshr EXCEPT ![a] = @ + 1]
      /\ Joined(port, a) = [resp |-> Joined(port, a).resp, mshr |-> Joined(port, a).mshr]
  BY DEF Joined, PortOf
<1>2. /\ DOMAIN Joined(port, a).mshr = DOMAIN port.mshr
      /\ Joined(port, a).mshr \in [DOMAIN port.mshr -> Nat]
  BY <1>1 DEF PortOf
<1> QED BY <1>1, <1>2 DEF PortOf

(* A miss adds a response for its address (memory.cc:159, 196). *)
LEMMA SentIs ==
  ASSUME NEW A, NEW port, PortOf(A, port), NEW a \in A, NEW latency \in Nat
  PROVE  /\ PortOf(A, Sent(port, a, latency))
         /\ Values(Sent(port, a, latency).resp) = Values(port.resp) \cup {a}
<1> DEFINE p == Sent(port, a, latency)
<1>1. /\ p.resp = Add(port.resp, a, latency, 1)
      /\ p.mshr = [b \in DOMAIN port.mshr \cup {a} |-> IF b = a THEN 0 ELSE port.mshr[b]]
      /\ p = [resp |-> p.resp, mshr |-> p.mshr]
  BY DEF Sent
<1> HIDE DEF p
<1>2. BucketOf(A, p.resp) /\ Values(p.resp) = Values(port.resp) \cup {a}
  BY <1>1, Added DEF PortOf
<1>3. DOMAIN p.mshr = DOMAIN port.mshr \cup {a} /\ p.mshr \in [DOMAIN p.mshr -> Nat]
  BY <1>1 DEF PortOf
<1>4. PortOf(A, p)
  BY <1>1, <1>2, <1>3 DEF PortOf
<1> QED BY <1>2, <1>4 DEF p

(* A port after a cycle holds what it held. *)
LEMMA AgedIs ==
  ASSUME NEW A, NEW port, PortOf(A, port)
  PROVE  /\ PortOf(A, Aged(port)) /\ Values(Aged(port).resp) = Values(port.resp)
         /\ Aged(port).mshr = port.mshr
<1>1. /\ Aged(port).resp = Elapsed(port.resp) /\ Aged(port).mshr = port.mshr
      /\ Aged(port) = [resp |-> Aged(port).resp, mshr |-> Aged(port).mshr]
  BY DEF Aged, PortOf
<1>2. BucketOf(A, Elapsed(port.resp)) /\ Values(Elapsed(port.resp)) = Values(port.resp)
  BY ElapsedKeeps DEF PortOf
<1> QED BY <1>1, <1>2 DEF PortOf

-----------------------------------------------------------------------------
(* The two halves of a call of work() at a port. *)
LEMMA AnswersAre ==
  ASSUME NEW A, NEW port, PortOf(A, port), NEW d \in Answers(port)
  PROVE  /\ PortOf(A, d.port) /\ d.ready \in BOOLEAN
         /\ ~d.ready => d.port = port
         /\ d.ready => /\ d.addr \in A /\ d.addr \in Values(port.resp)
                       /\ Values(d.port.resp) \in {Values(port.resp), Values(port.resp) \ {d.addr}}
<1>1. CASE Due(port.resp) = {}
  <2>1. d = [ready |-> FALSE, port |-> port]
    BY <1>1 DEF Answers
  <2> QED BY <2>1
<1>2. CASE Due(port.resp) # {}
  <2>1. PICK e \in Due(port.resp) :
          d = [ready |-> TRUE, addr |-> e.val, port |-> Delivered(port, e)]
    BY <1>2 DEF Answers
  <2>2. d.ready = TRUE /\ d.addr = e.val /\ d.port = Delivered(port, e)
    BY <2>1
  <2>3. /\ PortOf(A, Delivered(port, e)) /\ e.val \in A /\ e.val \in Values(port.resp)
        /\ Values(Delivered(port, e).resp) \in {Values(port.resp), Values(port.resp) \ {e.val}}
    BY DeliveredIs
  <2> QED BY <2>2, <2>3
<1> QED BY <1>1, <1>2

(* The waiting times are numbers of cycles. *)
LEMMA Latencies ==
  /\ ILatency \in Nat /\ DLatency \in Nat
  /\ \A L2, a : /\ ILatency + MissLatency(L2, a) \in Nat
                /\ DLatency + MissLatency(L2, a) \in Nat
<1>1. ILatency \in Nat /\ DLatency \in Nat /\ L2Latency \in Nat /\ MemLatency \in Nat
  BY LatencyAssumption
<1> QED BY <1>1 DEF MissLatency

(* Taking the instruction request keeps the port well formed. *)
LEMMA InstructionIs ==
  ASSUME NEW port, PortOf(IAddr, port), i_in.addr \in IAddr
  PROVE  PortOf(IAddr, InstructionRequest(port).port)
<1>1. CASE i_in.op = "NONE"
  BY <1>1 DEF InstructionRequest
<1>2. CASE i_in.op # "NONE" /\ i_in.addr \in DOMAIN port.mshr
  <2>1. InstructionRequest(port).port = Joined(port, i_in.addr)
    BY <1>2 DEF InstructionRequest
  <2> QED BY <1>2, <2>1, JoinedIs
<1>3. CASE i_in.op # "NONE" /\ i_in.addr \notin DOMAIN port.mshr
  <2>1. PICK latency \in Nat : InstructionRequest(port).port = Sent(port, i_in.addr, latency)
    BY <1>3, Latencies DEF InstructionRequest
  <2> QED BY <2>1, SentIs
<1> QED BY <1>1, <1>2, <1>3

(* The data port as DataMemory has it: what may still be answered. *)
Answerable(port) == Responses(port) \cup DOMAIN port.mshr

(* What can still be answered is what is in the bucket. *)
LEMMA AnswerableIs ==
  ASSUME NEW A, NEW port, PortOf(A, port)
  PROVE  Answerable(port) = Values(port.resp)
  BY DEF Answerable, Responses, Values, PortOf

DataRequested == IF d_in.op = "NONE" THEN {} ELSE {d_in.addr}

(* Taking the data request adds its address to what can be answered. *)
LEMMA DataIs ==
  ASSUME NEW port, PortOf(DAddr, port), d_in.addr \in DAddr, NEW c
  PROVE  /\ PortOf(DAddr, DataRequest(port, c).port)
         /\ Values(DataRequest(port, c).port.resp) = Values(port.resp) \cup DataRequested
<1>1. CASE d_in.op = "NONE"
  BY <1>1 DEF DataRequest, DataRequested
<1>2. CASE d_in.op # "NONE" /\ d_in.addr \in DOMAIN port.mshr
  <2>1. DataRequest(port, c).port = Joined(port, d_in.addr)
    BY <1>2 DEF DataRequest
  <2>2. d_in.addr \in Values(port.resp)
    BY <1>2 DEF PortOf
  <2> QED BY <1>2, <2>1, <2>2, JoinedIs DEF DataRequested
<1>3. CASE d_in.op # "NONE" /\ d_in.addr \notin DOMAIN port.mshr
  <2>1. PICK latency \in Nat : DataRequest(port, c).port = Sent(port, d_in.addr, latency)
    BY <1>3, Latencies DEF DataRequest
  <2>2. DataRequested = {d_in.addr}
    BY <1>3 DEF DataRequested
  <2> DEFINE a == d_in.addr
  <2>3. a \in DAddr
    OBVIOUS
  <2> HIDE DEF a
  <2>4. PortOf(DAddr, Sent(port, a, latency))
    BY <2>3, SentIs
  <2>5. Values(Sent(port, a, latency).resp) = Values(port.resp) \cup {a}
    BY <2>3, SentIs, SMTT(30)
  <2> QED BY <2>1, <2>2, <2>4, <2>5 DEF a
<1> QED BY <1>1, <1>2, <1>3

-----------------------------------------------------------------------------
(* The inductive invariant: the ports, and what the program last wrote is  *)
(* in memory unless its WRITE was put on the port in the last cycle.       *)
WritesFollow ==
  /\ d_in.op = "WRITE" => d_in.din = latest[d_in.addr]
  /\ \A a \in DAddr : latest[a] = mem[a] \/ a \in wrote
  /\ wrote # {} => d_in.op = "WRITE" /\ wrote = {d_in.addr}
  /\ reading # {} => wrote = {}

PortTyped ==
  /\ i_in.addr \in IAddr
  /\ d_in \in [op : {"NONE", "READ", "WRITE"}, addr : DAddr, din : Value]
  /\ d_out \in [ready : BOOLEAN, tag : DAddr, data : Value]
  /\ mem \in [DAddr -> Value] /\ latest \in [DAddr -> Value]
  /\ reading \subseteq DAddr

PortInv ==
  /\ PortTyped /\ PortOf(IAddr, i_port) /\ PortOf(DAddr, d_port)
  /\ WritesFollow /\ FreshRead

(* The invariant holds before the first cycle. *)
LEMMA PortInvInit == ASSUME PortInit PROVE PortInv
<1>1. PortTyped
  <2>1. /\ (CHOOSE a \in IAddr : TRUE) \in IAddr /\ (CHOOSE a \in DAddr : TRUE) \in DAddr
        /\ (CHOOSE v \in Value : TRUE) \in Value
    BY NonemptyAssumption
  <2> QED BY <2>1 DEF PortInit, MemoryInit, PortTyped
<1>2. PortOf(IAddr, i_port) /\ PortOf(DAddr, d_port)
  BY EmptyPortIs DEF PortInit, MemoryInit
<1>3. WritesFollow /\ FreshRead
  BY DEF PortInit, MemoryInit, WritesFollow, FreshRead
<1> QED BY <1>1, <1>2, <1>3 DEF PortInv

(* What a call of work() does at the data port. *)
LEMMA WorkIs ==
  ASSUME PortInv, MemoryWork
  PROVE  /\ PortOf(IAddr, i_port') /\ PortOf(DAddr, d_port')
         /\ \/ d_out' = [d_out EXCEPT !.ready = FALSE] /\ Answerable(d_port') = Answerable(d_port) \cup DataRequested
            \/ \E a \in DAddr \cap Answerable(d_port) :
                 /\ d_out' = [ready |-> TRUE, tag |-> a, data |-> mem[a]]
                 /\ Answerable(d_port') \in {Answerable(d_port) \cup DataRequested,
                                            (Answerable(d_port) \ {a}) \cup DataRequested}
<1>1. /\ PortOf(IAddr, i_port) /\ PortOf(DAddr, d_port)
      /\ i_in.addr \in IAddr /\ d_in.addr \in DAddr
  BY DEF PortInv, PortTyped
<1>2. PICK i \in Answers(i_port), d \in Answers(d_port) :
        LET ir == InstructionRequest(i.port)
            dr == DataRequest(d.port, ir.cache)
        IN AnswerInstruction(i) /\ AnswerData(d) /\ i_port' = Aged(ir.port) /\ d_port' = Aged(dr.port)
  BY DEF MemoryWork
<1>3. PortOf(IAddr, i_port')
  <2>1. PortOf(IAddr, i.port)
    BY <1>1, AnswersAre
  <2>2. PortOf(IAddr, InstructionRequest(i.port).port)
    BY <1>1, <2>1, InstructionIs
  <2> QED BY <1>2, <2>2, AgedIs
<1> DEFINE dr == DataRequest(d.port, InstructionRequest(i.port).cache)
<1>4. /\ PortOf(DAddr, d.port) /\ d.ready \in BOOLEAN
      /\ ~d.ready => d.port = d_port
      /\ d.ready => /\ d.addr \in DAddr /\ d.addr \in Values(d_port.resp)
                    /\ Values(d.port.resp) \in {Values(d_port.resp), Values(d_port.resp) \ {d.addr}}
  BY <1>1, AnswersAre
<1>5. PortOf(DAddr, dr.port) /\ Values(dr.port.resp) = Values(d.port.resp) \cup DataRequested
  BY <1>1, <1>4, DataIs
<1>6. AnswerData(d) /\ d_port' = Aged(dr.port)
  BY <1>2
<1> HIDE DEF dr
<1>7. PortOf(DAddr, d_port') /\ Values(d_port'.resp) = Values(d.port.resp) \cup DataRequested
  BY <1>5, <1>6, AgedIs
<1>8. Answerable(d_port') = Values(d_port'.resp) /\ Answerable(d_port) = Values(d_port.resp)
  BY <1>1, <1>7, AnswerableIs
<1>9. CASE ~d.ready
  <2>1. d_out' = [d_out EXCEPT !.ready = FALSE]
    BY <1>6, <1>9 DEF AnswerData
  <2> QED BY <1>3, <1>4, <1>7, <1>8, <1>9, <2>1
<1>10. CASE d.ready
  <2>1. d_out' = [ready |-> TRUE, tag |-> d.addr, data |-> mem[d.addr]]
    BY <1>6, <1>10 DEF AnswerData
  <2> QED BY <1>3, <1>4, <1>7, <1>8, <1>10, <2>1
<1> QED BY <1>4, <1>9, <1>10

(* What a step of Execute does to the port. *)
LEMMA TypesStep ==
  ASSUME PortInv, PortNext
  PROVE  PortTyped'
<1>1. PortTyped /\ ExecuteSide /\ FetchSide /\ MemoryWork
  BY DEF PortInv, PortNext
<1>2. d_out' \in [ready : BOOLEAN, tag : DAddr, data : Value]
  <2>1. CASE d_out' = [d_out EXCEPT !.ready = FALSE]
    BY <1>1, <2>1 DEF PortTyped
  <2>2. CASE \E a \in DAddr : d_out' = [ready |-> TRUE, tag |-> a, data |-> mem[a]]
    BY <1>1, <2>2 DEF PortTyped
  <2> QED BY <1>1, <2>1, <2>2, WorkIs
<1>3. mem' \in [DAddr -> Value]
  BY <1>1 DEF PortTyped, MemoryWork
<1>4. i_in'.addr \in IAddr
  BY <1>1 DEF PortTyped, FetchSide
<1>5. /\ d_in' \in [op : {"NONE", "READ", "WRITE"}, addr : DAddr, din : Value]
      /\ latest' \in [DAddr -> Value] /\ reading' \subseteq DAddr
  <2>1. PICK a \in DAddr : \/ Read(a) \/ WaitFor(a) \/ Take(a) \/ Compute
                          \/ \E v \in Value : Write(a, v)
    BY <1>1, NonemptyAssumption DEF ExecuteSide
  <2>2. CASE \E v \in Value : Write(a, v)
    BY <1>1, <2>2 DEF PortTyped, Write
  <2>3. CASE Read(a)
    BY <1>1, <2>3 DEF PortTyped, Read
  <2> QED BY <1>1, <2>1, <2>2, <2>3 DEF PortTyped, WaitFor, Take, Compute
<1> QED BY <1>2, <1>3, <1>4, <1>5 DEF PortTyped

(* A cycle puts the write of the last one into memory. *)
LEMMA CaughtUp ==
  ASSUME PortInv, MemoryWork
  PROVE  \A a \in DAddr : mem'[a] = latest[a]
  BY DEF PortInv, PortTyped, WritesFollow, MemoryWork

(* A cycle leaves at most the write on the port to be applied. *)
LEMMA WritesStep ==
  ASSUME PortInv, PortNext
  PROVE  WritesFollow'
<1>1. /\ PortTyped /\ WritesFollow /\ ExecuteSide
      /\ \A a \in DAddr : mem'[a] = latest[a]
  BY CaughtUp DEF PortInv, PortNext
<1>2. CASE \E a \in DAddr : Read(a)
  BY <1>1, <1>2 DEF PortTyped, WritesFollow, Read
<1>3. CASE \E a \in DAddr, v \in Value : Write(a, v)
  BY <1>1, <1>3 DEF PortTyped, WritesFollow, Write
<1>4. CASE Compute
  BY <1>1, <1>4 DEF PortTyped, WritesFollow, Compute
<1>5. CASE \E a \in DAddr : WaitFor(a)
  BY <1>1, <1>5 DEF PortTyped, WritesFollow, WaitFor
<1>6. CASE \E a \in DAddr : Take(a)
  BY <1>1, <1>6 DEF PortTyped, WritesFollow, Take
<1> QED BY <1>1, <1>2, <1>3, <1>4, <1>5, <1>6 DEF ExecuteSide

(* An answer carries what memory held; a READ that waits has no write      *)
(* ahead of it, and one just put on the port has one only if it raced.     *)
LEMMA FreshStep ==
  ASSUME PortInv, PortNext
  PROVE  FreshRead'
<1> SUFFICES ASSUME NEW a \in DAddr, a \in reading', d_out'.ready, d_out'.tag = a, ~raced'
             PROVE  d_out'.data = latest'[a]
  BY DEF FreshRead, IsAnswer
<1>1. PortTyped /\ WritesFollow /\ ExecuteSide /\ MemoryWork
  BY DEF PortInv, PortNext
<1>2. d_out'.data = mem[a]
  BY <1>1, WorkIs DEF PortTyped
<1>3. CASE \E b \in DAddr : Read(b)
  BY <1>1, <1>2, <1>3 DEF WritesFollow, Read
<1>4. CASE \E b \in DAddr : WaitFor(b)
  BY <1>1, <1>2, <1>4 DEF WritesFollow, WaitFor
<1>5. CASE Compute \/ \E b \in DAddr : Take(b) \/ \E v \in Value : Write(b, v)
  BY <1>5 DEF Take, Compute, Write
<1> QED BY <1>1, <1>3, <1>4, <1>5 DEF ExecuteSide

(* Every cycle keeps the invariant. *)
LEMMA PortInvStep == ASSUME PortInv, [PortNext]_portVars PROVE PortInv'
<1>1. CASE PortNext
  <2>1. PortOf(IAddr, i_port') /\ PortOf(DAddr, d_port')
    BY <1>1, WorkIs DEF PortNext
  <2>2. PortTyped' /\ WritesFollow' /\ FreshRead'
    BY <1>1, TypesStep, WritesStep, FreshStep
  <2> QED BY <2>1, <2>2 DEF PortInv
<1>2. CASE UNCHANGED portVars
  BY <1>2 DEF portVars, memoryVars, PortInv, PortTyped, WritesFollow, FreshRead, IsAnswer
<1> QED BY <1>1, <1>2

(* The types of the ports, and the three theorems' invariant. *)
THEOREM PortInvariant == PortSpec => []PortInv
  BY PortInvInit, PortInvStep, PTL DEF PortSpec

(* A READ returns what the program last wrote there, unless it follows the *)
(* WRITE at once (memory.cc:122-136, 164-198), whatever the latencies.     *)
THEOREM ReadsFresh == PortSpec => []FreshRead
<1>1. PortInv => FreshRead
  BY DEF PortInv
<1> QED BY <1>1, PortInvariant, PTL

(* Every waiting list has a response that will empty it                    *)
(* (memory.cc:107-198).                                                    *)
THEOREM WaitersServed == PortSpec => []NoWaiterLost
<1>1. PortInv => NoWaiterLost
  BY DEF PortInv, PortOf, NoWaiterLost, Responses, Values
<1> QED BY <1>1, PortInvariant, PTL

(* The output signals under the names DataMemory gives them. *)
Signals == [d_ready : BOOLEAN, d_tagout : DAddr, d_data : Value]

(* Signals that agree at the data port are equal. *)
LEMMA SignalsEqual ==
  ASSUME NEW r \in Signals, NEW s \in Signals,
         r.d_ready = s.d_ready, r.d_tagout = s.d_tagout, r.d_data = s.d_data
  PROVE  r = s
  BY DEF Signals

(* An answer raises d_ready with its tag and its value. *)
LEMMA SignalsSet ==
  ASSUME NEW r \in Signals, NEW a \in DAddr, NEW v \in Value
  PROVE  LET s == [r EXCEPT !.d_ready = TRUE, !.d_tagout = a, !.d_data = v]
         IN s \in Signals /\ s.d_ready = TRUE /\ s.d_tagout = a /\ s.d_data = v
  BY DEF Signals

(* Without an answer d_ready falls and the rest stays. *)
LEMMA SignalsLowered ==
  ASSUME NEW r \in Signals
  PROVE  LET s == [r EXCEPT !.d_ready = FALSE]
         IN s \in Signals /\ s.d_ready = FALSE /\ s.d_tagout = r.d_tagout /\ s.d_data = r.d_data
  BY DEF Signals

(* A call of work() is a step of the port of the back end. *)
LEMMA PortRefined == ASSUME PortInv, PortNext PROVE Port!PortWork
<1> DEFINE resp == Responses(d_port) \cup DOMAIN d_port.mshr
           nxt == [d_ready |-> d_out.ready, d_tagout |-> d_out.tag, d_data |-> d_out.data]
<1>1. PortTyped /\ MemoryWork
  BY DEF PortInv, PortNext
<1>2. DataRequested \subseteq DAddr
  BY <1>1 DEF PortTyped, DataRequested
<1>3. mem' = IF d_in.op = "WRITE" THEN [mem EXCEPT ![d_in.addr] = d_in.din] ELSE mem
  BY <1>1 DEF MemoryWork
<1>4. nxt \in Signals /\ nxt' \in Signals
  <2>1. PortTyped'
    BY TypesStep
  <2> QED BY <1>1, <2>1 DEF PortTyped, Signals
<1>5. CASE /\ d_out' = [d_out EXCEPT !.ready = FALSE]
           /\ Answerable(d_port') = Answerable(d_port) \cup DataRequested
  <2>0. d_out'.ready = FALSE /\ d_out'.tag = d_out.tag /\ d_out'.data = d_out.data
    BY <1>1, <1>5 DEF PortTyped
  <2>1. nxt' = [nxt EXCEPT !.d_ready = FALSE]
    <3>1. nxt'.d_ready = FALSE /\ nxt'.d_tagout = nxt.d_tagout /\ nxt'.d_data = nxt.d_data
      BY <2>0
    <3> DEFINE s == [nxt EXCEPT !.d_ready = FALSE]
    <3>2. s \in Signals /\ s.d_ready = FALSE /\ s.d_tagout = nxt.d_tagout /\ s.d_data = nxt.d_data
      BY <1>4, SignalsLowered
    <3> HIDE DEF nxt, s
    <3>3. nxt' = s
      BY <1>4, <3>1, <3>2, SignalsEqual
    <3> QED BY <3>3 DEF s
  <2>2. resp' = resp \cup DataRequested
    BY <1>5 DEF Answerable
  <2> QED
    BY <1>2, <1>3, <2>1, <2>2
    DEF Port!PortWork, Port!DeliverNothing, Port!AcceptRequest, Port!Requested, DataRequested
<1>6. CASE \E a \in DAddr \cap Answerable(d_port) :
             /\ d_out' = [ready |-> TRUE, tag |-> a, data |-> mem[a]]
             /\ Answerable(d_port') \in {Answerable(d_port) \cup DataRequested,
                                        (Answerable(d_port) \ {a}) \cup DataRequested}
  <2>1. PICK a \in DAddr \cap Answerable(d_port) :
          /\ d_out' = [ready |-> TRUE, tag |-> a, data |-> mem[a]]
          /\ Answerable(d_port') \in {Answerable(d_port) \cup DataRequested,
                                     (Answerable(d_port) \ {a}) \cup DataRequested}
    BY <1>6
  <2>2. nxt' = [nxt EXCEPT !.d_ready = TRUE, !.d_tagout = a, !.d_data = mem[a]]
    <3>1. d_out'.ready = TRUE /\ d_out'.tag = a /\ d_out'.data = mem[a]
      BY <2>1
    <3>2. nxt'.d_ready = TRUE /\ nxt'.d_tagout = a /\ nxt'.d_data = mem[a] /\ mem[a] \in Value
      BY <1>1, <3>1 DEF PortTyped
    <3> DEFINE s == [nxt EXCEPT !.d_ready = TRUE, !.d_tagout = a, !.d_data = mem[a]]
    <3>3. s \in Signals /\ s.d_ready = TRUE /\ s.d_tagout = a /\ s.d_data = mem[a]
      BY <1>4, <3>2, SignalsSet
    <3> HIDE DEF nxt, s
    <3>4. nxt' = s
      BY <1>4, <3>2, <3>3, SignalsEqual
    <3> QED BY <3>4 DEF s
  <2>3. PICK left \in {resp, resp \ {a}} : resp' = left \cup DataRequested
    BY <2>1 DEF Answerable
  <2>4. a \in resp
    BY DEF Answerable
  <2> QED
    BY <1>2, <1>3, <2>2, <2>3, <2>4
    DEF Port!PortWork, Port!Deliver, Port!AcceptRequest, Port!Requested, DataRequested
<1> QED BY <1>1, <1>5, <1>6, WorkIs

(* Memory's data port does what DataMemory, the port the back end is       *)
(* checked with, allows (memory.cc:101-201).                               *)
THEOREM PortImplemented == PortSpec => ImplementsPort
<1>1. PortInv /\ [PortNext]_portVars => [Port!PortWork]_memoryVars
  BY PortRefined DEF portVars
<1> QED BY <1>1, PortInvariant, PTL DEF PortSpec, ImplementsPort

-----------------------------------------------------------------------------
(* The caches as sequences. *)

(* An entry of a cache. *)
Entry(K) == [key : K, val : Dirty]

(* A sequence given by its members. *)
LEMMA Members ==
  ASSUME NEW S, NEW n \in Nat, NEW f, \A i \in 1 .. n : f[i] \in S, f = [i \in 1 .. n |-> f[i]]
  PROVE  f \in Seq(S) /\ Len(f) = n /\ DOMAIN f = 1 .. n
  OBVIOUS

(* What IsLruSet says, entry by entry. *)
LEMMA LruSetIs ==
  ASSUME NEW K, NEW capacity \in Nat, NEW s
  PROVE  /\ IsLruSet(s, capacity, K, Dirty)
              => /\ s \in Seq(Entry(K)) /\ Len(s) \in Nat /\ DOMAIN s = 1 .. Len(s)
                 /\ \A i \in 1 .. Len(s) : s[i] \in Entry(K)
         /\ IsLruSet(s, capacity, K, Dirty)
              <=> /\ s \in Seq(Entry(K)) /\ Len(s) <= capacity
                  /\ \A i, j \in DOMAIN s : s[i].key = s[j].key => i = j
<1>1. IsLruSet(s, capacity, K, Dirty)
              <=> /\ s \in Seq(Entry(K)) /\ Len(s) <= capacity
                  /\ \A i, j \in DOMAIN s : s[i].key = s[j].key => i = j
  BY Zenon DEF IsLruSet, Entry
<1>2. s \in Seq(Entry(K)) => /\ Len(s) \in Nat /\ DOMAIN s = 1 .. Len(s)
                            /\ \A i \in 1 .. Len(s) : s[i] \in Entry(K)
  OBVIOUS
<1> QED BY <1>1, <1>2

(* Promotion permutes the entries. *)
LEMMA PromoteKeeps ==
  ASSUME NEW K, NEW capacity \in Nat, NEW s, IsLruSet(s, capacity, K, Dirty), NEW k, Has(s, k)
  PROVE  IsLruSet(Promote(s, k), capacity, K, Dirty)
<1> DEFINE n == Len(s)
           p == Find(s, k)
           t == Promote(s, k)
           at(i) == IF i < p THEN i ELSE IF i < n THEN i + 1 ELSE p
<1>1. /\ s \in Seq(Entry(K)) /\ n \in Nat /\ n <= capacity /\ DOMAIN s = 1 .. n
      /\ \A i \in 1 .. n : s[i] \in Entry(K)
      /\ \A i, j \in 1 .. n : s[i].key = s[j].key => i = j
  BY LruSetIs
<1>2. p \in 1 .. n
  <2>1. \E i \in DOMAIN s : s[i].key = k
    BY DEF Has
  <2>2. p \in DOMAIN s
    BY <2>1, Zenon DEF Find
  <2> QED BY <1>1, <2>2
<1>3. t = [i \in 1 .. n |-> IF i < p THEN s[i] ELSE IF i < n THEN s[i + 1] ELSE s[p]]
  BY <1>1 DEF Promote
<1> HIDE DEF n, p, t
<1>4. \A i \in 1 .. n : at(i) \in 1 .. n
  BY <1>1, <1>2
<1>5. \A i, j \in 1 .. n : at(i) = at(j) => i = j
  BY <1>1, <1>2
<1>6. \A i \in 1 .. n : t[i] = s[at(i)]
  BY <1>1, <1>2, <1>3
<1> HIDE DEF at
<1>7. \A i \in 1 .. n : t[i] \in Entry(K)
  BY <1>1, <1>4, <1>6
<1>8. t = [i \in 1 .. n |-> t[i]]
  BY <1>3
<1>9. t \in Seq(Entry(K)) /\ Len(t) = n /\ DOMAIN t = 1 .. n
  BY <1>1, <1>7, <1>8, Members
<1>10. \A i, j \in DOMAIN t : t[i].key = t[j].key => i = j
  BY <1>1, <1>4, <1>5, <1>6, <1>9, SMTT(30)
<1> QED BY <1>1, <1>9, <1>10, LruSetIs DEF t

(* A write through the reference leaves the keys. *)
LEMMA MarkKeeps ==
  ASSUME NEW K, NEW capacity \in Nat, NEW s, IsLruSet(s, capacity, K, Dirty),
         NEW k, NEW v \in Dirty
  PROVE  IsLruSet(Mark(s, k, v), capacity, K, Dirty)
<1> DEFINE n == Len(s)
           t == Mark(s, k, v)
<1>1. /\ s \in Seq(Entry(K)) /\ n \in Nat /\ n <= capacity /\ DOMAIN s = 1 .. n
      /\ \A i \in 1 .. n : s[i] \in Entry(K)
      /\ \A i, j \in 1 .. n : s[i].key = s[j].key => i = j
  BY LruSetIs
<1>2. ASSUME NEW e \in Entry(K) PROVE [e EXCEPT !.val = v] \in Entry(K) /\ [e EXCEPT !.val = v].key = e.key
  BY DEF Entry
<1>3. t = [i \in 1 .. n |-> IF s[i].key = k THEN [s[i] EXCEPT !.val = v] ELSE s[i]]
  BY <1>1, Zenon DEF Mark
<1> HIDE DEF n, t
<1>4. \A i \in 1 .. n : t[i] \in Entry(K) /\ t[i].key = s[i].key
  BY <1>1, <1>2, <1>3
<1>5. t = [i \in 1 .. n |-> t[i]]
  BY <1>3
<1>6. t \in Seq(Entry(K)) /\ Len(t) = n /\ DOMAIN t = 1 .. n
  BY <1>1, <1>4, <1>5, Members
<1> QED BY <1>1, <1>4, <1>6, LruSetIs DEF t

(* An insertion makes room first, and does nothing if the key is still there. *)
LEMMA PutKeeps ==
  ASSUME NEW K, NEW capacity \in Nat \ {0}, NEW s, IsLruSet(s, capacity, K, Dirty),
         NEW k \in K, NEW v \in Dirty
  PROVE  IsLruSet(Put(s, capacity, k, v), capacity, K, Dirty)
<1> DEFINE n == Len(s)
           r == Remaining(s, capacity)
           e == [key |-> k, val |-> v]
           t == Append(r, e)
<1>0. capacity \in Nat /\ capacity > 0
  OBVIOUS
<1>1. /\ s \in Seq(Entry(K)) /\ n \in Nat /\ n <= capacity /\ DOMAIN s = 1 .. n
      /\ \A i, j \in 1 .. n : s[i].key = s[j].key => i = j
  BY <1>0, LruSetIs
<1>2. /\ r \in Seq(Entry(K)) /\ Len(r) \in Nat /\ Len(r) < capacity /\ DOMAIN r = 1 .. Len(r)
      /\ \A i, j \in 1 .. Len(r) : r[i].key = r[j].key => i = j
  <2>1. CASE n = capacity
    <3>1. r = Tail(s) /\ s # <<>>
      BY <1>1, <2>1 DEF Remaining
    <3>2. r \in Seq(Entry(K)) /\ Len(r) = n - 1 /\ \A i \in 1 .. n - 1 : r[i] = s[i + 1]
      BY <1>1, <3>1
    <3> HIDE DEF r, n
    <3>3. \A i \in 1 .. n - 1 : i + 1 \in 1 .. n
      BY <1>1
    <3>4. \A i, j \in 1 .. n - 1 : r[i].key = r[j].key => i + 1 = j + 1
      BY <1>1, <3>2, <3>3
    <3>5. \A i, j \in 1 .. n - 1 : i + 1 = j + 1 => i = j
      BY <1>1
    <3>6. DOMAIN r = 1 .. Len(r)
      BY <3>2
    <3> QED BY <1>1, <2>1, <3>2, <3>4, <3>5, <3>6
  <2>2. CASE n # capacity
    <3>1. r = s
      BY <2>2 DEF Remaining
    <3>2. n < capacity
      <4> HIDE DEF n
      <4> QED BY <1>0, <1>1, <2>2
    <3> HIDE DEF r
    <3> QED BY <1>1, <3>1, <3>2
  <2> QED BY <2>1, <2>2
<1>3. CASE Has(r, k)
  BY <1>2, <1>3, LruSetIs DEF Put
<1>4. CASE ~Has(r, k)
  <2>1. e \in Entry(K) /\ e.key = k
    BY DEF Entry
  <2> HIDE DEF e, r
  <2>2. \A i \in 1 .. Len(r) : r[i].key # k
    BY <1>2, <1>4 DEF Has
  <2>3. /\ t \in Seq(Entry(K)) /\ Len(t) = Len(r) + 1 /\ DOMAIN t = 1 .. Len(r) + 1
        /\ t[Len(r) + 1] = e /\ \A i \in 1 .. Len(r) : t[i] = r[i]
    BY <1>2, <2>1
  <2> HIDE DEF t
  <2>4. \A i \in 1 .. Len(r) + 1 : i \in 1 .. Len(r) \/ i = Len(r) + 1
    BY <1>2
  <2>5. \A i, j \in DOMAIN t : t[i].key = t[j].key => i = j
    BY <1>2, <2>1, <2>2, <2>3, <2>4
  <2>6. Put(s, capacity, k, v) = t
    BY <1>4 DEF Put, t, e, r
  <2>7. Len(t) <= capacity
    BY <1>0, <1>2, <2>3
  <2> QED BY <2>3, <2>5, <2>6, <2>7, <1>0, LruSetIs
<1> QED BY <1>3, <1>4

-----------------------------------------------------------------------------
(* The three caches. *)
CachesOK(c) ==
  /\ c = [L1i |-> c.L1i, L1d |-> c.L1d, L2 |-> c.L2]
  /\ IsLruSet(c.L1i, L1Size, IAddr, Dirty)
  /\ IsLruSet(c.L1d, L1Size, DAddr, Dirty)
  /\ IsLruSet(c.L2, L2Size, IAddr \cup DAddr, Dirty)

(* A look-up in the second level. *)
LEMMA L2FoundKeeps ==
  ASSUME NEW L2, IsLruSet(L2, L2Size, IAddr \cup DAddr, Dirty), NEW a \in IAddr \cup DAddr
  PROVE  IsLruSet(L2Found(L2, a), L2Size, IAddr \cup DAddr, Dirty)
<1>1. L2Size \in Nat \ {0} /\ L2Size \in Nat /\ "CLEAN" \in Dirty
  BY SizeAssumption DEF Dirty
<1>2. CASE Has(L2, a)
  BY <1>1, <1>2, PromoteKeeps DEF L2Found
<1>3. CASE ~Has(L2, a)
  <2>1. IsLruSet(Put(L2, L2Size, a, "CLEAN"), L2Size, IAddr \cup DAddr, Dirty)
    BY <1>1, PutKeeps
  <2> QED BY <1>3, <2>1 DEF L2Found
<1> QED BY <1>2, <1>3

(* The mark a dirty victim leaves there. *)
LEMMA L2AfterVictimKeeps ==
  ASSUME NEW c, CachesOK(c), NEW a \in DAddr
  PROVE  IsLruSet(L2AfterVictim(c, a), L2Size, IAddr \cup DAddr, Dirty)
<1>1. L2Size \in Nat \ {0} /\ L2Size \in Nat /\ "DIRTY" \in Dirty /\ a \in IAddr \cup DAddr
      /\ IsLruSet(c.L2, L2Size, IAddr \cup DAddr, Dirty)
  BY SizeAssumption DEF Dirty, CachesOK
<1>2. IsLruSet(Mark(c.L2, a, "DIRTY"), L2Size, IAddr \cup DAddr, Dirty)
  BY <1>1, MarkKeeps
<1>3. IsLruSet(Put(c.L2, L2Size, a, "DIRTY"), L2Size, IAddr \cup DAddr, Dirty)
  BY <1>1, PutKeeps
<1> QED BY <1>1, <1>2, <1>3 DEF L2AfterVictim

(* The instruction port's use of the caches. *)
LEMMA InstructionCaches ==
  ASSUME CachesOK(cache), i_in.addr \in IAddr, NEW port
  PROVE  CachesOK(InstructionRequest(port).cache)
<1> DEFINE a == i_in.addr
           c == InstructionRequest(port).cache
<1>1. L1Size \in Nat \ {0} /\ L1Size \in Nat /\ "CLEAN" \in Dirty /\ a \in IAddr \cup DAddr
  BY SizeAssumption DEF Dirty
<1>2. /\ cache = [L1i |-> cache.L1i, L1d |-> cache.L1d, L2 |-> cache.L2]
      /\ IsLruSet(cache.L1i, L1Size, IAddr, Dirty)
      /\ IsLruSet(cache.L1d, L1Size, DAddr, Dirty)
      /\ IsLruSet(cache.L2, L2Size, IAddr \cup DAddr, Dirty)
  BY DEF CachesOK
<1>3. IsLruSet(Put(cache.L1i, L1Size, a, "CLEAN"), L1Size, IAddr, Dirty)
  BY <1>1, <1>2, PutKeeps
<1>4. IsLruSet(L2Found(cache.L2, a), L2Size, IAddr \cup DAddr, Dirty)
  BY <1>1, <1>2, L2FoundKeeps
<1>5. \/ c = cache
      \/ Has(cache.L1i, a) /\ c = [cache EXCEPT !.L1i = Promote(@, a)]
      \/ c = [cache EXCEPT !.L1i = Put(@, L1Size, a, "CLEAN"), !.L2 = L2Found(@, a)]
  BY DEF InstructionRequest
<1> HIDE DEF c, a
<1>6. CASE c = cache
  BY <1>6 DEF c
<1>7. CASE Has(cache.L1i, a) /\ c = [cache EXCEPT !.L1i = Promote(@, a)]
  <2>1. IsLruSet(Promote(cache.L1i, a), L1Size, IAddr, Dirty)
    BY <1>1, <1>2, <1>7, PromoteKeeps
  <2>2. c = [L1i |-> Promote(cache.L1i, a), L1d |-> cache.L1d, L2 |-> cache.L2]
    BY <1>2, <1>7
  <2>3. CachesOK(c)
    BY <1>2, <2>1, <2>2 DEF CachesOK
  <2> QED BY <2>3 DEF c
<1>8. CASE c = [cache EXCEPT !.L1i = Put(@, L1Size, a, "CLEAN"), !.L2 = L2Found(@, a)]
  <2>1. c = [L1i |-> Put(cache.L1i, L1Size, a, "CLEAN"), L1d |-> cache.L1d,
             L2 |-> L2Found(cache.L2, a)]
    BY <1>2, <1>8
  <2>2. CachesOK(c)
    BY <1>2, <1>3, <1>4, <2>1 DEF CachesOK
  <2> QED BY <2>2 DEF c
<1> QED BY <1>5, <1>6, <1>7, <1>8

(* The data port's, after it. *)
LEMMA DataCaches ==
  ASSUME NEW c, CachesOK(c), d_in.addr \in DAddr, NEW port
  PROVE  CachesOK(DataRequest(port, c).cache)
<1> DEFINE a == d_in.addr
           d == DataRequest(port, c).cache
           L2 == L2AfterVictim(c, a)
           filled == IF d_in.op = "READ" THEN "CLEAN" ELSE "DIRTY"
           touched == Promote(c.L1d, a)
<1>1. L1Size \in Nat \ {0} /\ L1Size \in Nat /\ filled \in Dirty /\ "DIRTY" \in Dirty
      /\ a \in IAddr \cup DAddr /\ a \in DAddr
  BY SizeAssumption DEF Dirty
<1>2. /\ c = [L1i |-> c.L1i, L1d |-> c.L1d, L2 |-> c.L2]
      /\ IsLruSet(c.L1i, L1Size, IAddr, Dirty)
      /\ IsLruSet(c.L1d, L1Size, DAddr, Dirty)
      /\ IsLruSet(c.L2, L2Size, IAddr \cup DAddr, Dirty)
  BY DEF CachesOK
<1>3. IsLruSet(L2, L2Size, IAddr \cup DAddr, Dirty)
  BY L2AfterVictimKeeps
<1>4. \/ d = c
      \/ Has(c.L1d, a) /\ d = [c EXCEPT !.L1d = Mark(touched, a, "DIRTY")]
      \/ Has(c.L1d, a) /\ d = [c EXCEPT !.L1d = touched]
      \/ d = [c EXCEPT !.L1d = Put(@, L1Size, a, filled), !.L2 = L2Found(L2, a)]
  BY DEF DataRequest
<1> HIDE DEF d, a, L2, filled
<1>5. IsLruSet(Put(c.L1d, L1Size, a, filled), L1Size, DAddr, Dirty)
  BY <1>1, <1>2, PutKeeps
<1>6. IsLruSet(L2Found(L2, a), L2Size, IAddr \cup DAddr, Dirty)
  BY <1>1, <1>3, L2FoundKeeps
<1>7. ASSUME Has(c.L1d, a)
      PROVE  /\ IsLruSet(touched, L1Size, DAddr, Dirty)
             /\ IsLruSet(Mark(touched, a, "DIRTY"), L1Size, DAddr, Dirty)
  <2>1. IsLruSet(touched, L1Size, DAddr, Dirty)
    BY <1>1, <1>2, <1>7, PromoteKeeps
  <2> HIDE DEF touched
  <2> QED BY <1>1, <2>1, MarkKeeps
<1> HIDE DEF touched
<1>8. ASSUME d = c PROVE CachesOK(d)
  BY <1>8
<1>9. ASSUME NEW s, IsLruSet(s, L1Size, DAddr, Dirty), d = [c EXCEPT !.L1d = s]
      PROVE  CachesOK(d)
  <2>1. d = [L1i |-> c.L1i, L1d |-> s, L2 |-> c.L2]
    BY <1>2, <1>9
  <2> QED BY <1>2, <1>9, <2>1 DEF CachesOK
<1>10. ASSUME d = [c EXCEPT !.L1d = Put(@, L1Size, a, filled), !.L2 = L2Found(L2, a)]
       PROVE  CachesOK(d)
  <2>1. d = [L1i |-> c.L1i, L1d |-> Put(c.L1d, L1Size, a, filled), L2 |-> L2Found(L2, a)]
    BY <1>2, <1>10
  <2>2. /\ d.L1i = c.L1i /\ d.L1d = Put(c.L1d, L1Size, a, filled) /\ d.L2 = L2Found(L2, a)
        /\ d = [L1i |-> d.L1i, L1d |-> d.L1d, L2 |-> d.L2]
    BY <2>1
  <2> QED BY <1>2, <1>5, <1>6, <2>2 DEF CachesOK
<1>11. CachesOK(d)
  <2>1. CASE Has(c.L1d, a) /\ d = [c EXCEPT !.L1d = touched]
    BY <1>7, <1>9, <2>1
  <2>2. CASE Has(c.L1d, a) /\ d = [c EXCEPT !.L1d = Mark(touched, a, "DIRTY")]
    BY <1>7, <1>9, <2>2
  <2> QED BY <1>4, <1>8, <1>10, <2>1, <2>2
<1> QED BY <1>11 DEF d, a

(* The inductive invariant of the types. *)
TypeInv == MemoryTypeOK /\ CachesOK(cache)

(* It holds at first: the caches are empty. *)
LEMMA TypeInvInit == ASSUME PortInit PROVE TypeInv
<1>1. /\ (CHOOSE a \in IAddr : TRUE) \in IAddr /\ (CHOOSE a \in DAddr : TRUE) \in DAddr
      /\ (CHOOSE v \in Value : TRUE) \in Value
  BY NonemptyAssumption
<1>2. ASSUME NEW K, NEW n \in Nat PROVE IsLruSet(<<>>, n, K, Dirty)
  BY DEF IsLruSet
<1>3. L1Size \in Nat /\ L2Size \in Nat
  BY SizeAssumption
<1>4. cache = [L1i |-> <<>>, L1d |-> <<>>, L2 |-> <<>>]
  BY DEF PortInit, MemoryInit
<1>5. CachesOK(cache)
  BY <1>2, <1>3, <1>4 DEF CachesOK
<1>6. /\ i_in \in [op : {"NONE", "READ"}, addr : IAddr]
      /\ d_in \in [op : {"NONE", "READ", "WRITE"}, addr : DAddr, din : Value]
  BY <1>1 DEF PortInit, MemoryInit
<1> QED BY <1>5, <1>6 DEF TypeInv, MemoryTypeOK, CachesOK

(* A cycle keeps it, given the types of the ports. *)
LEMMA TypeInvStep == ASSUME PortInv, TypeInv, [PortNext]_portVars PROVE TypeInv'
<1>1. CASE PortNext
  <2>1. PICK i \in Answers(i_port), d \in Answers(d_port) :
          cache' = DataRequest(d.port, InstructionRequest(i.port).cache).cache
    BY <1>1 DEF PortNext, MemoryWork
  <2>2. i_in.addr \in IAddr /\ d_in.addr \in DAddr
    BY DEF PortInv, PortTyped
  <2>3. CachesOK(InstructionRequest(i.port).cache)
    BY <2>2, InstructionCaches DEF TypeInv
  <2>4. CachesOK(cache')
    BY <2>1, <2>2, <2>3, DataCaches
  <2>5. PortTyped'
    BY <1>1, TypesStep
  <2>6. i_in' \in [op : {"NONE", "READ"}, addr : IAddr]
    BY <1>1 DEF PortNext, FetchSide, TypeInv, MemoryTypeOK
  <2> QED BY <2>4, <2>5, <2>6 DEF TypeInv, MemoryTypeOK, CachesOK, PortTyped
<1>2. CASE UNCHANGED portVars
  BY <1>2 DEF portVars, memoryVars, TypeInv, MemoryTypeOK, CachesOK
<1> QED BY <1>1, <1>2

(* The caches stay within their capacity with no address twice, although   *)
(* two ports share the second level and a dirty victim puts an address     *)
(* there first (memory.cc:146-194, lruset.h:17-34).                        *)
THEOREM MemoryTypes == PortSpec => []MemoryTypeOK
<1>1. TypeInv => MemoryTypeOK
  BY DEF TypeInv
<1>2. PortInv /\ TypeInv /\ [PortNext]_portVars => TypeInv'
  BY TypeInvStep
<1> QED BY <1>1, <1>2, TypeInvInit, PortInvariant, PTL DEF PortSpec

(* The members of a numbered set. *)
LEMMA NumberedAre ==
  ASSUME NEW kind, NEW counts, NEW S
  PROVE  \A t : t \in Numbered(kind, counts, S) <=> \E x \in S : \E n \in 1 .. counts[x] : t = <<kind, x, n>>
<1> DEFINE R(x) == {<<kind, x, n>> : n \in 1 .. counts[x]}
<1>1. \A x, t : t \in R(x) <=> \E n \in 1 .. counts[x] : t = <<kind, x, n>>
  BY Zenon
<1>2. Numbered(kind, counts, S) = UNION {R(x) : x \in S}
  BY DEF Numbered
<1> HIDE DEF R
<1>3. \A t : t \in UNION {R(x) : x \in S} <=> \E x \in S : t \in R(x)
  BY Zenon
<1> QED BY <1>1, <1>2, <1>3, Zenon

(* The requests for addresses of B that are outstanding and due in a number *)
(* of cycles of K; one on a waiting list is due no earlier than a response *)
(* for its address.                                                        *)
Ahead(port, B, K) ==
  Numbered("response", port.resp, {e \in DOMAIN port.resp : e.val \in B /\ e.left \in K})
  \cup Numbered("waiting", port.mshr, {a \in DOMAIN port.mshr \cap B :
                        \A f \in DOMAIN port.resp : f.val = a => f.left \in K})

(* A member is one or the other. *)
LEMMA AheadIs ==
  ASSUME NEW port, NEW B, NEW K
  PROVE  /\ \A t : t \in Ahead(port, B, K) <=>
              \/ \E e \in DOMAIN port.resp : /\ e.val \in B /\ e.left \in K
                                             /\ \E n \in 1 .. port.resp[e] : t = <<"response", e, n>>
              \/ \E a \in DOMAIN port.mshr :
                   /\ a \in B /\ \A f \in DOMAIN port.resp : f.val = a => f.left \in K
                   /\ \E n \in 1 .. port.mshr[a] : t = <<"waiting", a, n>>
         /\ \A e, n : <<"response", e, n>> \in Ahead(port, B, K) <=>
              e \in DOMAIN port.resp /\ e.val \in B /\ e.left \in K /\ n \in 1 .. port.resp[e]
         /\ \A a, n : <<"waiting", a, n>> \in Ahead(port, B, K) <=>
              /\ a \in DOMAIN port.mshr /\ a \in B /\ n \in 1 .. port.mshr[a]
              /\ \A f \in DOMAIN port.resp : f.val = a => f.left \in K
<1> DEFINE E == {e \in DOMAIN port.resp : e.val \in B /\ e.left \in K}
           D == {a \in DOMAIN port.mshr \cap B :
                   \A f \in DOMAIN port.resp : f.val = a => f.left \in K}
<1>1. /\ \A e : e \in E <=> e \in DOMAIN port.resp /\ e.val \in B /\ e.left \in K
      /\ \A a : a \in D <=> /\ a \in DOMAIN port.mshr /\ a \in B
                            /\ \A f \in DOMAIN port.resp : f.val = a => f.left \in K
  OBVIOUS
<1>2. Ahead(port, B, K) = Numbered("response", port.resp, E) \cup Numbered("waiting", port.mshr, D)
  BY DEF Ahead
<1> HIDE DEF E, D
<1>3. /\ \A t : t \in Numbered("response", port.resp, E) <=> \E e \in E : \E n \in 1 .. port.resp[e] : t = <<"response", e, n>>
      /\ \A t : t \in Numbered("waiting", port.mshr, D) <=> \E a \in D : \E n \in 1 .. port.mshr[a] : t = <<"waiting", a, n>>
  BY NumberedAre
<1>4. /\ \A d, e, m, n : <<"response", d, m>> = <<"response", e, n>> => d = e /\ m = n
      /\ \A d, e, m, n : <<"waiting", d, m>> = <<"waiting", e, n>> => d = e /\ m = n
      /\ \A d, e, m, n : <<"response", d, m>> # <<"waiting", e, n>>
  OBVIOUS
<1>5. \A t : t \in Ahead(port, B, K) <=>
              \/ \E e \in E : \E n \in 1 .. port.resp[e] : t = <<"response", e, n>>
              \/ \E a \in D : \E n \in 1 .. port.mshr[a] : t = <<"waiting", a, n>>
  BY <1>2, <1>3
<1>6. \A e, n : <<"response", e, n>> \in Ahead(port, B, K) <=> e \in E /\ n \in 1 .. port.resp[e]
  BY <1>4, <1>5
<1>7. \A a, n : <<"waiting", a, n>> \in Ahead(port, B, K) <=> a \in D /\ n \in 1 .. port.mshr[a]
  BY <1>4, <1>5
<1> QED BY <1>1, <1>5, <1>6, <1>7

(* All of them are Outstanding. *)
LEMMA AheadWhole ==
  ASSUME NEW A, NEW port, PortOf(A, port)
  PROVE  Ahead(port, A, Int) = Outstanding(port)
<1>1. \A e \in DOMAIN port.resp : e.val \in A /\ e.left \in Int
  BY DEF PortOf, BucketOf
<1>2. DOMAIN port.mshr \subseteq A
  BY <1>1 DEF PortOf, Values, BagToSet
<1> DEFINE E == {e \in DOMAIN port.resp : e.val \in A /\ e.left \in Int}
           D == {a \in DOMAIN port.mshr \cap A :
                   \A f \in DOMAIN port.resp : f.val = a => f.left \in Int}
<1>3. E = DOMAIN port.resp /\ D = DOMAIN port.mshr
  BY <1>1, <1>2
<1>4. Ahead(port, A, Int) = Numbered("response", port.resp, E) \cup Numbered("waiting", port.mshr, D)
  BY DEF Ahead
<1> HIDE DEF E, D
<1>5. Ahead(port, A, Int) = Numbered("response", port.resp, DOMAIN port.resp) \cup Numbered("waiting", port.mshr, DOMAIN port.mshr)
  BY <1>3, <1>4
<1>6. Outstanding(port) = Numbered("response", port.resp, DOMAIN port.resp) \cup Numbered("waiting", port.mshr, DOMAIN port.mshr)
  BY DEF Outstanding, BagToSet
<1> QED BY <1>5, <1>6

(* Fewer addresses or fewer due times, fewer requests. *)
LEMMA AheadPart ==
  ASSUME NEW port, NEW B, NEW K, NEW C, NEW L, B \subseteq C, K \subseteq L
  PROVE  Ahead(port, B, K) \subseteq Ahead(port, C, L)
<1> SUFFICES ASSUME NEW t \in Ahead(port, B, K) PROVE t \in Ahead(port, C, L)
  OBVIOUS
<1>1. CASE \E e \in DOMAIN port.resp : /\ e.val \in B /\ e.left \in K
                                       /\ \E n \in 1 .. port.resp[e] : t = <<"response", e, n>>
  BY <1>1, AheadIs
<1>2. CASE \E a \in DOMAIN port.mshr :
             /\ a \in B /\ \A f \in DOMAIN port.resp : f.val = a => f.left \in K
             /\ \E n \in 1 .. port.mshr[a] : t = <<"waiting", a, n>>
  BY <1>2, AheadIs
<1> QED BY <1>1, <1>2, AheadIs

(* How often a value is in a bucket. *)
Count(pq, d) == IF d \in DOMAIN pq THEN pq[d] ELSE 0

(* What add() does to the counts of a bucket (delaybucket.h:19-21). *)
LEMMA AddedCounts ==
  ASSUME NEW A, NEW pq, BucketOf(A, pq), NEW v \in A, NEW delay \in Int, NEW n \in Nat
  PROVE  \A d : Count(Add(pq, v, delay, n), d)
                  = Count(pq, d) + IF d = [left |-> delay, val |-> v] THEN n ELSE 0
<1> DEFINE e == [left |-> delay, val |-> v]
<1>1. CASE n = 0
  BY <1>1 DEF Add, Count, BucketOf
<1>2. CASE n # 0
  <2>1. Add(pq, v, delay, n) = pq (+) [d \in {e} |-> n]
    BY <1>2 DEF Add
  <2> HIDE DEF e
  <2>2. \A d : Count(pq (+) [f \in {e} |-> n], d) = Count(pq, d) + IF d = e THEN n ELSE 0
    BY DEF (+), Count, BucketOf
  <2> QED BY <2>1, <2>2 DEF e
<1> QED BY <1>1, <1>2

(* What taking one copy does to the counts of a bucket. *)
LEMMA RemovedCounts ==
  ASSUME NEW A, NEW pq, BucketOf(A, pq), NEW e \in DOMAIN pq
  PROVE  \A d : Count(Removed(pq, e), d) = Count(pq, d) - IF d = e THEN 1 ELSE 0
<1>1. /\ DOMAIN Removed(pq, e) = {d \in DOMAIN pq : d # e \/ pq[d] > 1}
      /\ \A d \in DOMAIN Removed(pq, e) : Removed(pq, e)[d] = IF d = e THEN pq[d] - 1 ELSE pq[d]
  BY DEF Removed, (-), SetToBag, BucketOf
<1> QED BY <1>1 DEF Count, BucketOf

(* A bucket by its counts. *)
LEMMA InBucket ==
  ASSUME NEW A, NEW pq, BucketOf(A, pq), NEW d
  PROVE  /\ Count(pq, d) \in Nat
         /\ d \in DOMAIN pq <=> Count(pq, d) > 0
         /\ d \in DOMAIN pq => pq[d] = Count(pq, d)
  BY DEF BucketOf, Count
-----------------------------------------------------------------------------
(* What a delivery, a request and a cycle do to the requests ahead. *)

(* How many requests wait for an address. *)
WaitingFor(port, a) == IF a \in DOMAIN port.mshr THEN port.mshr[a] ELSE 0

(* One copy goes, those waiting for its address come in at once. *)
LEMMA DeliveredCounts ==
  ASSUME NEW A, NEW port, PortOf(A, port), NEW e \in Due(port.resp)
  PROVE  /\ BucketOf(A, port.resp) /\ BucketOf(A, Delivered(port, e).resp)
         /\ e \in DOMAIN port.resp /\ e.left \in Int /\ e.left <= 0 /\ e.val \in A
         /\ WaitingFor(port, e.val) \in Nat
         /\ \A d : Count(Delivered(port, e).resp, d)
                     = (Count(port.resp, d) - IF d = e THEN 1 ELSE 0)
                       + IF d = [left |-> 0, val |-> e.val] THEN WaitingFor(port, e.val) ELSE 0
         /\ Delivered(port, e).mshr = [a \in DOMAIN port.mshr \ {e.val} |-> port.mshr[a]]
<1>1. BucketOf(A, port.resp) /\ e \in DOMAIN port.resp /\ e.left <= 0
  BY DEF PortOf, Due, BagToSet
<1>2. e.val \in A /\ e.left \in Int /\ WaitingFor(port, e.val) \in Nat
  BY <1>1 DEF BucketOf, PortOf, WaitingFor
<1>3. BucketOf(A, Removed(port.resp, e))
  BY <1>1, RemovedOne
<1>4. \A d : Count(Removed(port.resp, e), d) = Count(port.resp, d) - IF d = e THEN 1 ELSE 0
  BY <1>1, RemovedCounts
<1>5. /\ Delivered(port, e).resp = Add(Removed(port.resp, e), e.val, 0, WaitingFor(port, e.val))
      /\ Delivered(port, e).mshr = [a \in DOMAIN port.mshr \ {e.val} |-> port.mshr[a]]
  BY DEF Delivered, WaitingFor
<1>6. \A d : Count(Add(Removed(port.resp, e), e.val, 0, WaitingFor(port, e.val)), d)
               = Count(Removed(port.resp, e), d)
                 + IF d = [left |-> 0, val |-> e.val] THEN WaitingFor(port, e.val) ELSE 0
  BY <1>2, <1>3, AddedCounts
<1>7. BucketOf(A, Delivered(port, e).resp)
  BY DeliveredIs DEF PortOf
<1> QED BY <1>1, <1>2, <1>4, <1>5, <1>6, <1>7

(* A delivery leaves alone what is due later, and the other addresses. *)
LEMMA DeliveredAhead ==
  ASSUME NEW A, NEW port, PortOf(A, port), NEW e \in Due(port.resp), NEW B, NEW K,
         K \subseteq Nat \ {0} \/ e.val \notin B
  PROVE  Ahead(Delivered(port, e), B, K) \subseteq Ahead(port, B, K)
<1> DEFINE p == Delivered(port, e)
           z == [left |-> 0, val |-> e.val]
<1>1. /\ BucketOf(A, port.resp) /\ BucketOf(A, p.resp)
      /\ e \in DOMAIN port.resp /\ e.left \in Int /\ e.left <= 0 /\ e.val \in A
      /\ WaitingFor(port, e.val) \in Nat
      /\ \A d : Count(p.resp, d) = (Count(port.resp, d) - IF d = e THEN 1 ELSE 0)
                                   + IF d = z THEN WaitingFor(port, e.val) ELSE 0
      /\ p.mshr = [a \in DOMAIN port.mshr \ {e.val} |-> port.mshr[a]]
  BY DeliveredCounts, SMTT(60)
<1>2. z.left = 0 /\ z.val = e.val
  OBVIOUS
<1> HIDE DEF p, z
<1>3. ASSUME NEW d, d # e, d # z
      PROVE  /\ d \in DOMAIN p.resp <=> d \in DOMAIN port.resp
             /\ d \in DOMAIN p.resp => p.resp[d] = port.resp[d]
  <2>1. Count(p.resp, d) = Count(port.resp, d)
    <3>1. Count(port.resp, d) \in Nat
      BY <1>1, InBucket
    <3> QED BY <1>1, <1>3, <3>1
  <2>2. /\ d \in DOMAIN port.resp <=> Count(port.resp, d) > 0
        /\ d \in DOMAIN port.resp => port.resp[d] = Count(port.resp, d)
    BY <1>1, InBucket
  <2>3. /\ d \in DOMAIN p.resp <=> Count(p.resp, d) > 0
        /\ d \in DOMAIN p.resp => p.resp[d] = Count(p.resp, d)
    BY <1>1, InBucket
  <2> QED BY <2>1, <2>2, <2>3
<1>4. ASSUME NEW d \in DOMAIN p.resp, d.val \in B, d.left \in K, NEW n \in 1 .. p.resp[d]
      PROVE  <<"response", d, n>> \in Ahead(port, B, K)
  <2>1. d # e /\ d # z
    BY <1>1, <1>2, <1>4
  <2>2. d \in DOMAIN port.resp /\ n \in 1 .. port.resp[d]
    BY <1>3, <1>4, <2>1
  <2> QED BY <1>4, <2>2, AheadIs
<1>5. ASSUME NEW a \in DOMAIN p.mshr, a \in B, \A f \in DOMAIN p.resp : f.val = a => f.left \in K,
             NEW n \in 1 .. p.mshr[a]
      PROVE  <<"waiting", a, n>> \in Ahead(port, B, K)
  <2>1. a \in DOMAIN port.mshr /\ a # e.val /\ p.mshr[a] = port.mshr[a]
    BY <1>1
  <2>2. ASSUME NEW f \in DOMAIN port.resp, f.val = a PROVE f.left \in K
    <3>1. f # e /\ f # z
      BY <1>2, <2>1, <2>2
    <3>2. f \in DOMAIN p.resp
      BY <1>3, <3>1
    <3> QED BY <1>5, <2>2, <3>2
  <2> QED BY <1>5, <2>1, <2>2, AheadIs
<1>6. ASSUME NEW t \in Ahead(p, B, K) PROVE t \in Ahead(port, B, K)
  <2>1. CASE \E d \in DOMAIN p.resp : /\ d.val \in B /\ d.left \in K
                                      /\ \E n \in 1 .. p.resp[d] : t = <<"response", d, n>>
    BY <1>4, <2>1
  <2>2. CASE \E a \in DOMAIN p.mshr :
               /\ a \in B /\ \A f \in DOMAIN p.resp : f.val = a => f.left \in K
               /\ \E n \in 1 .. p.mshr[a] : t = <<"waiting", a, n>>
    BY <1>5, <2>2
  <2> QED BY <1>6, <2>1, <2>2, AheadIs
<1> QED BY <1>6 DEF p

(* An injection, by the values it takes. *)
LEMMA Fewer ==
  ASSUME NEW S, NEW T, NEW f, IsFiniteSet(T), f = [t \in S |-> f[t]],
         \A t \in S : f[t] \in T, \A t, u \in S : f[t] = f[u] => t = u
  PROVE  IsFiniteSet(S) /\ Cardinality(S) <= Cardinality(T)
<1>1. f \in Injection(S, T)
  BY DEF Injection, IsInjective
<1> QED BY <1>1, FS_Injection

(* One request is answered: those that waited for the address become       *)
(* responses, numbered behind those that are due already.                  *)
LEMMA DeliveredFewer ==
  ASSUME NEW A, NEW port, PortOf(A, port), NEW e \in Due(port.resp), NEW B, e.val \in B,
         IsFiniteSet(Ahead(port, B, Int))
  PROVE  /\ IsFiniteSet(Ahead(Delivered(port, e), B, Int))
         /\ Cardinality(Ahead(Delivered(port, e), B, Int)) <= Cardinality(Ahead(port, B, Int)) - 1
<1> DEFINE p == Delivered(port, e)
           z == [left |-> 0, val |-> e.val]
           last == <<"response", e, port.resp[e]>>
           kept == Count(port.resp, z) - IF z = e THEN 1 ELSE 0
           S == Ahead(p, B, Int)
           T == Ahead(port, B, Int) \ {last}
           f == [t \in S |-> IF t[1] = "response" /\ t[2] = z /\ t[3] > kept
                             THEN <<"waiting", e.val, t[3] - kept>> ELSE t]
<1>1. /\ BucketOf(A, port.resp) /\ BucketOf(A, p.resp)
      /\ e \in DOMAIN port.resp /\ e.left \in Int /\ e.left <= 0 /\ e.val \in A
      /\ WaitingFor(port, e.val) \in Nat
      /\ \A d : Count(p.resp, d) = (Count(port.resp, d) - IF d = e THEN 1 ELSE 0)
                                   + IF d = z THEN WaitingFor(port, e.val) ELSE 0
      /\ p.mshr = [a \in DOMAIN port.mshr \ {e.val} |-> port.mshr[a]]
  BY DeliveredCounts, SMTT(60)
<1>2. z.left = 0 /\ z.val = e.val
  OBVIOUS
<1> HIDE DEF z, p
<1>3. /\ \A d : Count(port.resp, d) \in Nat
      /\ \A d : d \in DOMAIN port.resp <=> Count(port.resp, d) > 0
      /\ \A d \in DOMAIN port.resp : port.resp[d] = Count(port.resp, d) /\ d.left \in Int
  BY <1>1, InBucket DEF BucketOf
<1>4. /\ \A d : d \in DOMAIN p.resp <=> Count(p.resp, d) > 0
      /\ \A d \in DOMAIN p.resp : p.resp[d] = Count(p.resp, d) /\ d.left \in Int
  BY <1>1, InBucket DEF BucketOf
<1>5. kept \in Nat
  BY <1>1, <1>3
<1>6. Count(p.resp, z) = kept + WaitingFor(port, e.val)
  BY <1>1
<1> HIDE DEF kept
<1>7. last \in Ahead(port, B, Int)
  <2>1. port.resp[e] \in 1 .. port.resp[e]
    BY <1>1 DEF BucketOf
  <2> QED BY <1>1, <2>1, AheadIs
<1>8. IsFiniteSet(T) /\ Cardinality(T) = Cardinality(Ahead(port, B, Int)) - 1
  BY <1>7, FS_RemoveElement
<1>9. \A t \in S : f[t] = IF t[1] = "response" /\ t[2] = z /\ t[3] > kept
                          THEN <<"waiting", e.val, t[3] - kept>> ELSE t
  OBVIOUS
<1> DEFINE Moves(t) == \E n \in Nat : /\ t = <<"response", z, n>> /\ n > kept
                                      /\ n - kept \in 1 .. WaitingFor(port, e.val)
                                      /\ f[t] = <<"waiting", e.val, n - kept>>
           Stays(t) == f[t] = t /\ t \in T /\ \A n : t # <<"waiting", e.val, n>>
<1>10. f = [t \in S |-> f[t]]
  OBVIOUS
<1> HIDE DEF f
<1>11. ASSUME NEW d \in DOMAIN p.resp, d.val \in B, NEW n \in 1 .. p.resp[d],
              <<"response", d, n>> \in S
       PROVE  Moves(<<"response", d, n>>) \/ Stays(<<"response", d, n>>)
  <2>1. n \in Nat /\ n >= 1 /\ n <= Count(p.resp, d)
    BY <1>4, <1>11
  <2> DEFINE t == <<"response", d, n>>
  <2>2. t[1] = "response" /\ t[2] = d /\ t[3] = n
    OBVIOUS
  <2>3. \A m : t # <<"waiting", e.val, m>>
    OBVIOUS
  <2>4. CASE d = z /\ n > kept
    <3>1. f[t] = <<"waiting", e.val, n - kept>>
      BY <1>9, <1>11, <2>2, <2>4
    <3>2. n - kept \in 1 .. WaitingFor(port, e.val)
      BY <1>1, <1>5, <1>6, <2>1, <2>4
    <3> QED BY <2>1, <2>4, <3>1, <3>2
  <2>5. CASE ~(d = z /\ n > kept)
    <3>1. f[t] = t
      BY <1>9, <1>11, <2>2, <2>5
    <3>2. n <= Count(port.resp, d) - IF d = e THEN 1 ELSE 0
      <4>1. CASE d = z
        BY <1>5, <2>1, <2>5, <4>1 DEF kept
      <4>2. CASE d # z
        BY <1>1, <1>3, <2>1, <4>2
      <4> QED BY <4>1, <4>2
    <3>3. d \in DOMAIN port.resp /\ d.left \in Int /\ n \in 1 .. port.resp[d]
      BY <1>3, <2>1, <3>2
    <3>4. t \in Ahead(port, B, Int)
      BY <1>11, <3>3, AheadIs
    <3>5. t # last
      <4>1. CASE d = e
        <5>1. n # port.resp[e]
          BY <1>1, <1>3, <2>1, <3>2, <4>1
        <5> QED BY <5>1
      <4>2. CASE d # e
        BY <4>2
      <4> QED BY <4>1, <4>2
    <3> QED BY <2>3, <3>1, <3>4, <3>5
  <2> QED BY <2>4, <2>5
<1>12. ASSUME NEW a \in DOMAIN p.mshr, a \in B, NEW n \in 1 .. p.mshr[a], <<"waiting", a, n>> \in S
       PROVE  Stays(<<"waiting", a, n>>)
  <2>1. a \in DOMAIN port.mshr /\ a # e.val /\ p.mshr[a] = port.mshr[a]
    BY <1>1
  <2> DEFINE t == <<"waiting", a, n>>
  <2>2. f[t] = t
    BY <1>9, <1>12
  <2>3. t \in Ahead(port, B, Int)
    BY <1>3, <1>12, <2>1, AheadIs
  <2>4. t # last /\ \A m : t # <<"waiting", e.val, m>>
    BY <2>1
  <2> QED BY <2>2, <2>3, <2>4
<1> HIDE DEF last
<1>13. \A t \in S : Moves(t) \/ Stays(t)
  <2> SUFFICES ASSUME NEW t \in S PROVE Moves(t) \/ Stays(t)
    OBVIOUS
  <2>1. CASE \E d \in DOMAIN p.resp : /\ d.val \in B /\ d.left \in Int
                                      /\ \E n \in 1 .. p.resp[d] : t = <<"response", d, n>>
    <3> HIDE DEF S, T, Moves, Stays
    <3> QED BY <1>11, <2>1
  <2>2. CASE \E a \in DOMAIN p.mshr :
               /\ a \in B /\ \A d \in DOMAIN p.resp : d.val = a => d.left \in Int
               /\ \E n \in 1 .. p.mshr[a] : t = <<"waiting", a, n>>
    <3> HIDE DEF S, T, Moves, Stays
    <3> QED BY <1>12, <2>2
  <2> QED BY <2>1, <2>2, AheadIs
<1>14. ASSUME NEW t \in S PROVE f[t] \in T
  <2>1. CASE Moves(t)
    <3>1. PICK n \in Nat : /\ n - kept \in 1 .. WaitingFor(port, e.val)
                           /\ f[t] = <<"waiting", e.val, n - kept>>
      BY <2>1
    <3>2. e.val \in DOMAIN port.mshr /\ n - kept \in 1 .. port.mshr[e.val]
      BY <3>1 DEF WaitingFor
    <3>3. f[t] \in Ahead(port, B, Int)
      BY <1>3, <3>1, <3>2, AheadIs
    <3>4. f[t] # last
      BY <3>1 DEF last
    <3> QED BY <3>3, <3>4
  <2>2. CASE Stays(t)
    BY <2>2
  <2> QED BY <1>13, <2>1, <2>2
<1>15. ASSUME NEW t \in S, NEW u \in S, f[t] = f[u] PROVE t = u
  <2>1. CASE Moves(t) /\ Moves(u)
    <3>1. PICK m \in Nat : t = <<"response", z, m>> /\ f[t] = <<"waiting", e.val, m - kept>>
      BY <2>1
    <3>2. PICK n \in Nat : u = <<"response", z, n>> /\ f[u] = <<"waiting", e.val, n - kept>>
      BY <2>1
    <3>3. m - kept = n - kept
      BY <1>15, <3>1, <3>2
    <3>4. m = n
      BY <1>5, <3>3
    <3> QED BY <3>1, <3>2, <3>4
  <2>2. CASE Stays(t) /\ Stays(u)
    BY <1>15, <2>2
  <2>3. CASE Moves(t) /\ Stays(u)
    BY <1>15, <2>3
  <2>4. CASE Stays(t) /\ Moves(u)
    BY <1>15, <2>4
  <2> QED BY <1>13, <2>1, <2>2, <2>3, <2>4
<1> HIDE DEF S, T, Moves, Stays
<1>16. IsFiniteSet(S) /\ Cardinality(S) <= Cardinality(T)
  BY <1>8, <1>10, <1>14, <1>15, Fewer
<1> QED BY <1>8, <1>16 DEF S, p

(* A request on the port is one more request ahead, if it is for B. *)
OneMore(port, p, a) ==
  \A B, K : /\ \E x : Ahead(p, B, K) \subseteq Ahead(port, B, K) \cup {x}
            /\ a \notin B => Ahead(p, B, K) \subseteq Ahead(port, B, K)

(* A request that joins a miss is one more (memory.cc:142, 172). *)
LEMMA JoinedAhead ==
  ASSUME NEW A, NEW port, PortOf(A, port), NEW a \in DOMAIN port.mshr
  PROVE  OneMore(port, Joined(port, a), a)
<1> DEFINE p == Joined(port, a)
           x == <<"waiting", a, port.mshr[a] + 1>>
<1>1. /\ p.resp = port.resp /\ DOMAIN p.mshr = DOMAIN port.mshr
      /\ \A b \in DOMAIN port.mshr : port.mshr[b] \in Nat
      /\ \A b \in DOMAIN port.mshr : p.mshr[b] = IF b = a THEN port.mshr[a] + 1 ELSE port.mshr[b]
  BY DEF Joined, PortOf
<1> HIDE DEF p
<1> SUFFICES ASSUME NEW B, NEW K
             PROVE  /\ Ahead(p, B, K) \subseteq Ahead(port, B, K) \cup {x}
                    /\ a \notin B => Ahead(p, B, K) \subseteq Ahead(port, B, K)
  BY DEF OneMore, p
<1>2. ASSUME NEW t \in Ahead(p, B, K) PROVE t \in Ahead(port, B, K) \/ (t = x /\ a \in B)
  <2>1. CASE \E e \in DOMAIN p.resp : /\ e.val \in B /\ e.left \in K
                                      /\ \E n \in 1 .. p.resp[e] : t = <<"response", e, n>>
    BY <1>1, <2>1, AheadIs
  <2>2. CASE \E b \in DOMAIN p.mshr :
               /\ b \in B /\ \A f \in DOMAIN p.resp : f.val = b => f.left \in K
               /\ \E n \in 1 .. p.mshr[b] : t = <<"waiting", b, n>>
    <3>1. PICK b \in DOMAIN port.mshr, n \in Int :
            n \in 1 .. p.mshr[b] /\ b \in B /\ t = <<"waiting", b, n>>
            /\ \A f \in DOMAIN port.resp : f.val = b => f.left \in K
      BY <1>1, <2>2
    <3>2. CASE n \in 1 .. port.mshr[b]
      BY <3>1, <3>2, AheadIs
    <3>3. CASE n \notin 1 .. port.mshr[b]
      <4>1. b = a /\ n = port.mshr[a] + 1
        BY <1>1, <3>1, <3>3
      <4> QED BY <3>1, <4>1
    <3> QED BY <3>2, <3>3
  <2> QED BY <1>2, <2>1, <2>2, AheadIs
<1> HIDE DEF x
<1> QED BY <1>2

(* A request that misses is one more as well. *)
LEMMA SentAhead ==
  ASSUME NEW A, NEW port, PortOf(A, port), NEW a \in A, NEW latency \in Nat
  PROVE  OneMore(port, Sent(port, a, latency), a)
<1> DEFINE p == Sent(port, a, latency)
           z == [left |-> latency, val |-> a]
           x == <<"response", z, Count(port.resp, z) + 1>>
<1>1. /\ p.resp = Add(port.resp, a, latency, 1)
      /\ p.mshr = [b \in DOMAIN port.mshr \cup {a} |-> IF b = a THEN 0 ELSE port.mshr[b]]
  BY DEF Sent
<1>2. BucketOf(A, port.resp) /\ BucketOf(A, p.resp)
  BY SentIs DEF PortOf
<1>3. \A d : Count(p.resp, d) = Count(port.resp, d) + IF d = z THEN 1 ELSE 0
  BY <1>1, <1>2, AddedCounts
<1>4. z.val = a
  OBVIOUS
<1> HIDE DEF p, z
<1>5. /\ \A d : Count(port.resp, d) \in Nat
      /\ \A d : d \in DOMAIN port.resp <=> Count(port.resp, d) > 0
      /\ \A d \in DOMAIN port.resp : port.resp[d] = Count(port.resp, d)
  BY <1>2, InBucket
<1>6. /\ \A d : d \in DOMAIN p.resp <=> Count(p.resp, d) > 0
      /\ \A d \in DOMAIN p.resp : p.resp[d] = Count(p.resp, d)
  BY <1>2, InBucket
<1> SUFFICES ASSUME NEW B, NEW K
             PROVE  /\ Ahead(p, B, K) \subseteq Ahead(port, B, K) \cup {x}
                    /\ a \notin B => Ahead(p, B, K) \subseteq Ahead(port, B, K)
  BY DEF OneMore, p
<1>7. ASSUME NEW t \in Ahead(p, B, K) PROVE t \in Ahead(port, B, K) \/ (t = x /\ a \in B)
  <2>1. CASE \E e \in DOMAIN p.resp : /\ e.val \in B /\ e.left \in K
                                      /\ \E n \in 1 .. p.resp[e] : t = <<"response", e, n>>
    <3>1. PICK e \in DOMAIN p.resp, n \in Int :
            n \in 1 .. p.resp[e] /\ e.val \in B /\ e.left \in K /\ t = <<"response", e, n>>
      BY <2>1
    <3>2. n \in Nat /\ n >= 1 /\ n <= Count(p.resp, e)
      BY <1>3, <1>5, <1>6, <3>1
    <3>3. CASE n <= Count(port.resp, e)
      <4>1. e \in DOMAIN port.resp /\ n \in 1 .. port.resp[e]
        BY <1>5, <3>2, <3>3
      <4> QED BY <3>1, <4>1, AheadIs
    <3>4. CASE ~(n <= Count(port.resp, e))
      <4>1. e = z /\ n = Count(port.resp, z) + 1
        BY <1>3, <1>5, <3>2, <3>4
      <4> QED BY <1>4, <3>1, <4>1
    <3> QED BY <3>3, <3>4
  <2>2. CASE \E b \in DOMAIN p.mshr :
               /\ b \in B /\ \A f \in DOMAIN p.resp : f.val = b => f.left \in K
               /\ \E n \in 1 .. p.mshr[b] : t = <<"waiting", b, n>>
    <3>1. PICK b \in DOMAIN p.mshr, n \in Int :
            n \in 1 .. p.mshr[b] /\ b \in B /\ t = <<"waiting", b, n>>
            /\ \A f \in DOMAIN p.resp : f.val = b => f.left \in K
      BY <2>2
    <3>2. b # a /\ b \in DOMAIN port.mshr /\ n \in 1 .. port.mshr[b]
      BY <1>1, <3>1
    <3>3. \A f \in DOMAIN port.resp : f \in DOMAIN p.resp
      BY <1>3, <1>5, <1>6
    <3> QED BY <3>1, <3>2, <3>3, AheadIs
  <2> QED BY <1>7, <2>1, <2>2, AheadIs
<1> HIDE DEF x
<1> QED BY <1>7

(* When a cycle goes by, each is due one cycle earlier. *)
From(k) == {i \in Int : i >= k}

(* A cycle brings every response one cycle nearer: counted by an injection. *)
LEMMA AgedFewer ==
  ASSUME NEW A, NEW port, PortOf(A, port), NEW B, NEW K, NEW L,
         L = {i \in Int : i - 1 \in K}, IsFiniteSet(Ahead(port, B, L))
  PROVE  /\ IsFiniteSet(Ahead(Aged(port), B, K))
         /\ Cardinality(Ahead(Aged(port), B, K)) <= Cardinality(Ahead(port, B, L))
<1> DEFINE p == Aged(port)
           S == Ahead(p, B, K)
           T == Ahead(port, B, L)
           Newer(e) == [e EXCEPT !.left = @ + 1]
           Older(e) == [e EXCEPT !.left = @ - 1]
           f == [t \in S |-> IF t[1] = "response" THEN <<"response", Newer(t[2]), t[3]>> ELSE t]
<1>1. /\ p.mshr = port.mshr /\ BucketOf(A, port.resp) /\ BucketOf(A, p.resp)
      /\ p.resp = Elapsed(port.resp)
  BY AgedIs DEF PortOf, Aged
<1>2. /\ DOMAIN p.resp = {Older(e) : e \in DOMAIN port.resp}
      /\ \A e \in DOMAIN p.resp : p.resp[e] = port.resp[Newer(e)]
  BY <1>1 DEF Elapsed, BagToSet
<1>3. ASSUME NEW e \in [left : Int, val : A]
      PROVE  /\ Newer(Older(e)) = e /\ Older(e).val = e.val /\ Older(e).left = e.left - 1
  <2>1. PICK l \in Int, v \in A : e = [left |-> l, val |-> v]
    OBVIOUS
  <2>2. Older(e) = [left |-> l - 1, val |-> v]
    BY <2>1
  <2>3. [[left |-> l - 1, val |-> v] EXCEPT !.left = @ + 1] = [left |-> l, val |-> v]
    OBVIOUS
  <2> HIDE DEF Older
  <2> QED BY <2>1, <2>2, <2>3
<1> HIDE DEF Newer, Older
<1>4. ASSUME NEW e \in DOMAIN p.resp
      PROVE  /\ Newer(e) \in DOMAIN port.resp /\ p.resp[e] = port.resp[Newer(e)]
             /\ Newer(e).val = e.val /\ Newer(e).left \in Int /\ Newer(e).left = e.left + 1
             /\ e = Older(Newer(e)) /\ e.left = Newer(e).left - 1
  <2>1. PICK d \in DOMAIN port.resp : e = Older(d)
    BY <1>2
  <2>2. d \in [left : Int, val : A] /\ d.left \in Int
    BY <1>1 DEF BucketOf
  <2>3. Newer(e) = d /\ e.val = d.val /\ e.left = d.left - 1
    BY <1>3, <2>1, <2>2
  <2> QED BY <1>2, <2>1, <2>2, <2>3
<1>5. ASSUME NEW d \in DOMAIN port.resp
      PROVE  Older(d) \in DOMAIN p.resp /\ Older(d).val = d.val /\ Older(d).left = d.left - 1
             /\ d.left \in Int
  <2>1. d \in [left : Int, val : A]
    BY <1>1 DEF BucketOf
  <2> QED BY <1>2, <1>3, <2>1
<1>6. /\ f = [t \in S |-> f[t]]
      /\ \A t \in S : f[t] = IF t[1] = "response" THEN <<"response", Newer(t[2]), t[3]>> ELSE t
  OBVIOUS
<1> DEFINE Response(t) == \E e \in DOMAIN p.resp :
                            /\ e.val \in B /\ e.left \in K
                            /\ \E n \in 1 .. p.resp[e] : t = <<"response", e, n>>
           Waiting(t) == \E a \in DOMAIN p.mshr :
                           /\ a \in B /\ \A d \in DOMAIN p.resp : d.val = a => d.left \in K
                           /\ \E n \in 1 .. p.mshr[a] : t = <<"waiting", a, n>>
<1>7. \A t \in S : Response(t) \/ Waiting(t)
  BY AheadIs
<1> HIDE DEF f, p, S
<1>8. ASSUME NEW t \in S, Response(t)
      PROVE  \E e \in DOMAIN p.resp, n \in Int : /\ t = <<"response", e, n>> /\ f[t] = <<"response", Newer(e), n>>
                                         /\ f[t] \in T
  <2>1. PICK e \in DOMAIN p.resp, n \in Int :
            n \in 1 .. p.resp[e] /\ e.val \in B /\ e.left \in K /\ t = <<"response", e, n>>
    BY <1>8
  <2>2. f[t] = <<"response", Newer(e), n>>
    BY <1>6, <2>1
  <2>3. /\ Newer(e) \in DOMAIN port.resp /\ n \in 1 .. port.resp[Newer(e)]
        /\ Newer(e).val \in B /\ Newer(e).left \in L
    BY <1>4, <2>1
  <2>4. f[t] \in T
    BY <2>2, <2>3, AheadIs
  <2> QED BY <2>1, <2>2, <2>4
<1>9. ASSUME NEW t \in S, Waiting(t)
      PROVE  f[t] = t /\ t \in T /\ t[1] = "waiting"
  <2>1. PICK a \in DOMAIN p.mshr, n \in Int :
            n \in 1 .. p.mshr[a] /\ a \in B /\ t = <<"waiting", a, n>>
          /\ \A d \in DOMAIN p.resp : d.val = a => d.left \in K
    BY <1>9
  <2>2. f[t] = t /\ t[1] = "waiting"
    BY <1>6, <2>1
  <2>3. \A d \in DOMAIN port.resp : d.val = a => d.left \in L
    BY <1>5, <2>1
  <2>4. t \in T
    BY <1>1, <2>1, <2>3, AheadIs
  <2> QED BY <2>2, <2>4
<1> HIDE DEF T, Response, Waiting
<1>10. ASSUME NEW t \in S, NEW u \in S, f[t] = f[u] PROVE t = u
  <2>1. CASE Response(t) /\ Response(u)
    <3>1. PICK d \in DOMAIN p.resp, m \in Int : t = <<"response", d, m>> /\ f[t] = <<"response", Newer(d), m>>
      BY <1>8, <2>1
    <3>2. PICK e \in DOMAIN p.resp, n \in Int : u = <<"response", e, n>> /\ f[u] = <<"response", Newer(e), n>>
      BY <1>8, <2>1
    <3>3. Newer(d) = Newer(e) /\ m = n
      BY <1>10, <3>1, <3>2
    <3>4. d = e
      BY <1>4, <3>3
    <3> QED BY <3>1, <3>2, <3>3, <3>4
  <2>2. CASE Waiting(t) /\ Waiting(u)
    BY <1>9, <1>10, <2>2
  <2>3. CASE Response(t) /\ Waiting(u)
    BY <1>8, <1>9, <1>10, <2>3
  <2>4. CASE Waiting(t) /\ Response(u)
    BY <1>8, <1>9, <1>10, <2>4
  <2> QED BY <1>7, <2>1, <2>2, <2>3, <2>4
<1>11. \A t \in S : f[t] \in T
  BY <1>7, <1>8, <1>9
<1>12. IsFiniteSet(T)
  BY DEF T
<1>13. IsFiniteSet(S) /\ Cardinality(S) <= Cardinality(T)
  BY <1>6, <1>10, <1>11, <1>12, Fewer
<1> QED BY <1>13 DEF S, T, p

(* Somebody is due first. *)
LEMMA NoneDue ==
  ASSUME NEW A, NEW port, PortOf(A, port), IsFiniteSet(Ahead(port, A, Int)), Due(port.resp) = {}
  PROVE  \A e \in DOMAIN port.resp : e.left \in Int /\ e.left >= 1
<1> DEFINE D == DOMAIN port.resp
           Sooner(e) == {f \in D : f.left < e.left}
           late == {e \in D : e.left <= 0}
           N == {Cardinality(Sooner(e)) : e \in late}
<1>1. BucketOf(A, port.resp) /\ \A e \in D : e.left \in Int /\ e.val \in A
  BY DEF PortOf, BucketOf
<1>2. IsFiniteSet(D)
  <2> DEFINE f == [e \in D |-> <<"response", e, 1>>]
  <2>1. \A e \in D : f[e] \in Ahead(port, A, Int)
    <3> SUFFICES ASSUME NEW e \in D PROVE <<"response", e, 1>> \in Ahead(port, A, Int)
      OBVIOUS
    <3>1. 1 \in 1 .. port.resp[e]
      BY <1>1 DEF BucketOf
    <3> QED BY <1>1, <3>1, AheadIs
  <2>2. f = [e \in D |-> f[e]] /\ \A d, e \in D : f[d] = f[e] => d = e
    OBVIOUS
  <2> HIDE DEF f, D
  <2> QED BY <2>1, <2>2, Fewer
<1>3. ASSUME NEW e \in D PROVE IsFiniteSet(Sooner(e)) /\ Cardinality(Sooner(e)) \in Nat
  BY <1>2, FS_Subset, FS_CardinalityType
<1>4. ASSUME NEW e \in D, NEW f \in Sooner(e) PROVE Cardinality(Sooner(f)) < Cardinality(Sooner(e))
  <2>1. Sooner(f) \subseteq Sooner(e) /\ f \notin Sooner(f) /\ f \in D
    BY <1>1
  <2>2. Sooner(f) # Sooner(e)
    BY <2>1, <1>4
  <2> HIDE DEF Sooner
  <2> QED BY <1>3, <2>1, <2>2, FS_Subset
<1> SUFFICES ASSUME late # {} PROVE FALSE
  BY <1>1
<1>5. N \subseteq Nat /\ N # {}
  BY <1>3
<1>6. PICK m \in N : \A k \in N : m <= k
  BY <1>5, LeastMember
<1>7. PICK e \in late : m = Cardinality(Sooner(e))
  OBVIOUS
<1>8. ASSUME NEW f \in D PROVE e.left <= f.left
  <2> SUFFICES ASSUME ~(e.left <= f.left) PROVE FALSE
    OBVIOUS
  <2>1. f \in Sooner(e) /\ f \in late
    BY <1>1
  <2>2. Cardinality(Sooner(f)) < Cardinality(Sooner(e)) /\ Cardinality(Sooner(f)) \in N
    BY <1>4, <2>1
  <2>3. Cardinality(Sooner(f)) \in Nat /\ Cardinality(Sooner(e)) \in Nat
    BY <1>3
  <2>4. Cardinality(Sooner(e)) <= Cardinality(Sooner(f))
    BY <1>6, <1>7, <2>2
  <2> QED BY <2>2, <2>3, <2>4
<1>9. e \in Due(port.resp)
  BY <1>8 DEF Due, BagToSet
<1> QED BY <1>9

-----------------------------------------------------------------------------
(* A port keeps pace: of the requests for B no more than L are ahead, and  *)
(* the fewer the later they are due.                                       *)
Paced(port, B, L) ==
  /\ IsFiniteSet(Ahead(port, B, Int)) /\ Cardinality(Ahead(port, B, Int)) <= L
  /\ \A k \in 1 .. L : Cardinality(Ahead(port, B, From(k))) <= L - k

(* The requests ahead after the answer of a cycle. *)
LEMMA AnswerPaced ==
  ASSUME NEW A, NEW port, PortOf(A, port), IsFiniteSet(Ahead(port, A, Int)),
         NEW d \in Answers(port), NEW B, B \subseteq A
  PROVE  /\ \A k \in Nat \ {0} : Ahead(d.port, B, From(k)) \subseteq Ahead(port, B, From(k))
         /\ ~d.ready => Ahead(d.port, B, Int) \subseteq Ahead(port, B, From(1))
         /\ d.ready /\ d.addr \in B =>
              /\ IsFiniteSet(Ahead(d.port, B, Int))
              /\ Cardinality(Ahead(d.port, B, Int)) <= Cardinality(Ahead(port, B, Int)) - 1
         /\ IsFiniteSet(Ahead(port, B, Int))
<1>1. IsFiniteSet(Ahead(port, B, Int))
  <2>1. Ahead(port, B, Int) \subseteq Ahead(port, A, Int)
    BY AheadPart
  <2> QED BY <2>1, FS_Subset
<1>2. CASE Due(port.resp) = {}
  <2>1. d.ready = FALSE /\ d.port = port
    BY <1>2 DEF Answers
  <2>2. \A e \in DOMAIN port.resp : e.left \in Int /\ e.left >= 1
    BY <1>2, NoneDue
  <2>3. \A e \in DOMAIN port.resp : e.left \in From(1)
    BY <2>2 DEF From
  <2>4. Ahead(port, B, Int) \subseteq Ahead(port, B, From(1))
    <3> SUFFICES ASSUME NEW t \in Ahead(port, B, Int) PROVE t \in Ahead(port, B, From(1))
      OBVIOUS
    <3>1. CASE \E e \in DOMAIN port.resp : /\ e.val \in B /\ e.left \in Int
                                           /\ \E n \in 1 .. port.resp[e] : t = <<"response", e, n>>
      BY <2>3, <3>1, AheadIs
    <3>2. CASE \E a \in DOMAIN port.mshr :
                 /\ a \in B /\ \A f \in DOMAIN port.resp : f.val = a => f.left \in Int
                 /\ \E n \in 1 .. port.mshr[a] : t = <<"waiting", a, n>>
      BY <2>3, <3>2, AheadIs
    <3> QED BY <3>1, <3>2, AheadIs
  <2> QED BY <1>1, <2>1, <2>4
<1>3. CASE Due(port.resp) # {}
  <2>1. PICK e \in Due(port.resp) :
          d = [ready |-> TRUE, addr |-> e.val, port |-> Delivered(port, e)]
    BY <1>3 DEF Answers
  <2>2. d.ready = TRUE /\ d.addr = e.val /\ d.port = Delivered(port, e)
    BY <2>1
  <2>3. ASSUME NEW k \in Nat \ {0}
        PROVE  Ahead(Delivered(port, e), B, From(k)) \subseteq Ahead(port, B, From(k))
    <3>1. From(k) \subseteq Nat \ {0}
      BY DEF From
    <3> QED BY <3>1, DeliveredAhead
  <2>4. ASSUME e.val \in B
        PROVE  /\ IsFiniteSet(Ahead(Delivered(port, e), B, Int))
               /\ Cardinality(Ahead(Delivered(port, e), B, Int)) <= Cardinality(Ahead(port, B, Int)) - 1
    BY <1>1, <2>4, DeliveredFewer
  <2> QED BY <1>1, <2>2, <2>3, <2>4
<1> QED BY <1>2, <1>3

(* What a request adds. *)
LEMMA RequestPaced ==
  ASSUME NEW p, NEW q, NEW a, OneMore(p, q, a) \/ q = p, NEW B, NEW K, NEW T, IsFiniteSet(T),
         Ahead(p, B, K) \subseteq T
  PROVE  /\ IsFiniteSet(Ahead(q, B, K)) /\ Cardinality(Ahead(q, B, K)) \in Nat
         /\ Cardinality(T) \in Nat
         /\ Cardinality(Ahead(q, B, K)) <= Cardinality(T) + 1
         /\ a \notin B \/ q = p => Cardinality(Ahead(q, B, K)) <= Cardinality(T)
<1>1. PICK x : Ahead(q, B, K) \subseteq T \cup {x}
  <2>1. CASE q = p
    BY <2>1
  <2>2. CASE OneMore(p, q, a)
    BY <2>2 DEF OneMore
  <2> QED BY <2>1, <2>2
<1>2. IsFiniteSet(T \cup {x}) /\ Cardinality(T) \in Nat /\ Cardinality(T \cup {x}) <= Cardinality(T) + 1
      /\ Cardinality(T \cup {x}) \in Nat
  BY FS_AddElement, FS_CardinalityType
<1>3. /\ IsFiniteSet(Ahead(q, B, K)) /\ Cardinality(Ahead(q, B, K)) \in Nat
      /\ Cardinality(Ahead(q, B, K)) <= Cardinality(T) + 1
  <2>1. IsFiniteSet(Ahead(q, B, K)) /\ Cardinality(Ahead(q, B, K)) <= Cardinality(T \cup {x})
    BY <1>1, <1>2, FS_Subset
  <2>2. Cardinality(Ahead(q, B, K)) \in Nat
    BY <2>1, FS_CardinalityType
  <2> QED BY <1>2, <2>1, <2>2
<1>4. ASSUME a \notin B \/ q = p PROVE Cardinality(Ahead(q, B, K)) <= Cardinality(T)
  <2>1. Ahead(q, B, K) \subseteq T
    BY <1>4 DEF OneMore
  <2> QED BY <2>1, FS_Subset
<1> QED BY <1>2, <1>3, <1>4

(* One cycle at a port: the answer d, the request for a, if there is one,  *)
(* that makes q of d's port, and the passing of the cycle.                 *)
LEMMA CycleAhead ==
  ASSUME NEW A, NEW port, PortOf(A, port), IsFiniteSet(Ahead(port, A, Int)),
         NEW d \in Answers(port), NEW a, NEW q, PortOf(A, q), OneMore(d.port, q, a) \/ q = d.port,
         NEW B, B \subseteq A, NEW extra \in {0, 1}, extra = 1 \/ a \notin B \/ q = d.port
  PROVE  /\ IsFiniteSet(Ahead(Aged(q), B, Int))
         /\ Cardinality(Ahead(Aged(q), B, Int)) \in Nat
         /\ d.ready /\ d.addr \in B =>
              Cardinality(Ahead(Aged(q), B, Int)) <= Cardinality(Ahead(port, B, Int)) - 1 + extra
         /\ ~d.ready =>
              Cardinality(Ahead(Aged(q), B, Int)) <= Cardinality(Ahead(port, B, From(1))) + extra
         /\ \A k \in Nat :
              Cardinality(Ahead(Aged(q), B, From(k))) <= Cardinality(Ahead(port, B, From(k + 1))) + extra
         /\ \A k \in Nat : Cardinality(Ahead(port, B, From(k))) \in Nat
         /\ Cardinality(Ahead(port, B, Int)) \in Nat
<1>1. /\ \A k \in Nat \ {0} : Ahead(d.port, B, From(k)) \subseteq Ahead(port, B, From(k))
      /\ ~d.ready => Ahead(d.port, B, Int) \subseteq Ahead(port, B, From(1))
      /\ d.ready /\ d.addr \in B =>
              /\ IsFiniteSet(Ahead(d.port, B, Int))
              /\ Cardinality(Ahead(d.port, B, Int)) <= Cardinality(Ahead(port, B, Int)) - 1
      /\ IsFiniteSet(Ahead(port, B, Int))
  BY AnswerPaced
<1>2. ASSUME NEW K, K \subseteq Int
      PROVE  IsFiniteSet(Ahead(port, B, K)) /\ Cardinality(Ahead(port, B, K)) \in Nat
  <2>1. Ahead(port, B, K) \subseteq Ahead(port, B, Int)
    BY <1>2, AheadPart
  <2> QED BY <1>1, <2>1, FS_Subset, FS_CardinalityType
<1>3. ASSUME NEW K, NEW T, IsFiniteSet(T), Ahead(d.port, B, {i \in Int : i - 1 \in K}) \subseteq T
      PROVE  /\ IsFiniteSet(Ahead(Aged(q), B, K)) /\ Cardinality(Ahead(Aged(q), B, K)) \in Nat
             /\ Cardinality(T) \in Nat
             /\ Cardinality(Ahead(Aged(q), B, K)) <= Cardinality(T) + extra
  <2> DEFINE L == {i \in Int : i - 1 \in K}
  <2>1. /\ IsFiniteSet(Ahead(q, B, L)) /\ Cardinality(Ahead(q, B, L)) \in Nat
        /\ Cardinality(T) \in Nat
        /\ Cardinality(Ahead(q, B, L)) <= Cardinality(T) + 1
        /\ a \notin B \/ q = d.port => Cardinality(Ahead(q, B, L)) <= Cardinality(T)
    BY <1>3, RequestPaced
  <2>2. /\ IsFiniteSet(Ahead(Aged(q), B, K))
        /\ Cardinality(Ahead(Aged(q), B, K)) <= Cardinality(Ahead(q, B, L))
    BY <2>1, AgedFewer
  <2>3. Cardinality(Ahead(Aged(q), B, K)) \in Nat
    BY <2>2, FS_CardinalityType
  <2> HIDE DEF L
  <2> QED BY <2>1, <2>2, <2>3
<1>4. {i \in Int : i - 1 \in Int} = Int
  OBVIOUS
<1>5. ASSUME NEW k \in Nat PROVE {i \in Int : i - 1 \in From(k)} = From(k + 1) /\ From(k) \subseteq Int
  BY DEF From
<1>6. ASSUME NEW T, IsFiniteSet(T), Ahead(d.port, B, Int) \subseteq T
      PROVE  /\ IsFiniteSet(Ahead(Aged(q), B, Int)) /\ Cardinality(Ahead(Aged(q), B, Int)) \in Nat
             /\ Cardinality(T) \in Nat
             /\ Cardinality(Ahead(Aged(q), B, Int)) <= Cardinality(T) + extra
  BY <1>3, <1>4, <1>6
<1>7. ASSUME NEW k \in Nat
      PROVE  Cardinality(Ahead(Aged(q), B, From(k))) <= Cardinality(Ahead(port, B, From(k + 1))) + extra
  <2>1. k + 1 \in Nat \ {0}
    OBVIOUS
  <2>2. /\ Ahead(d.port, B, {i \in Int : i - 1 \in From(k)}) \subseteq Ahead(port, B, From(k + 1))
        /\ IsFiniteSet(Ahead(port, B, From(k + 1)))
    BY <1>1, <1>2, <1>5, <2>1
  <2> QED BY <1>3, <2>2
<1>8. ASSUME d.ready, d.addr \in B
      PROVE  /\ IsFiniteSet(Ahead(Aged(q), B, Int)) /\ Cardinality(Ahead(Aged(q), B, Int)) \in Nat
             /\ Cardinality(Ahead(Aged(q), B, Int)) <= Cardinality(Ahead(port, B, Int)) - 1 + extra
  <2>1. /\ IsFiniteSet(Ahead(d.port, B, Int))
        /\ Cardinality(Ahead(d.port, B, Int)) <= Cardinality(Ahead(port, B, Int)) - 1
    BY <1>1, <1>8
  <2>2. /\ IsFiniteSet(Ahead(Aged(q), B, Int)) /\ Cardinality(Ahead(Aged(q), B, Int)) \in Nat
        /\ Cardinality(Ahead(d.port, B, Int)) \in Nat
        /\ Cardinality(Ahead(Aged(q), B, Int)) <= Cardinality(Ahead(d.port, B, Int)) + extra
    BY <1>6, <2>1
  <2>3. Cardinality(Ahead(port, B, Int)) \in Nat
    BY <1>2
  <2> QED BY <2>1, <2>2, <2>3
<1>9. ASSUME ~d.ready
      PROVE  /\ IsFiniteSet(Ahead(Aged(q), B, Int)) /\ Cardinality(Ahead(Aged(q), B, Int)) \in Nat
             /\ Cardinality(Ahead(Aged(q), B, Int)) <= Cardinality(Ahead(port, B, From(1))) + extra
  <2>1. Ahead(d.port, B, Int) \subseteq Ahead(port, B, From(1)) /\ IsFiniteSet(Ahead(port, B, From(1)))
    BY <1>1, <1>2, <1>5, <1>9
  <2> QED BY <1>6, <2>1
<1>10. ASSUME d.ready, d.addr \notin B
       PROVE  IsFiniteSet(Ahead(Aged(q), B, Int)) /\ Cardinality(Ahead(Aged(q), B, Int)) \in Nat
  <2>1. PICK e \in Due(port.resp) : d.addr = e.val /\ d.port = Delivered(port, e)
    BY <1>10 DEF Answers
  <2>2. Ahead(d.port, B, Int) \subseteq Ahead(port, B, Int)
    BY <1>10, <2>1, DeliveredAhead
  <2> QED BY <1>1, <1>6, <2>2
<1>11. d.ready \in BOOLEAN
  BY AnswersAre
<1> QED BY <1>2, <1>5, <1>7, <1>8, <1>9, <1>10, <1>11

(* Pace is kept if responses are due within the longest latency. *)
LEMMA PaceKept ==
  ASSUME NEW A, NEW port, PortOf(A, port), NEW L \in Nat \ {0}, Paced(port, A, L),
         NEW d \in Answers(port), NEW a, NEW q, PortOf(A, q), OneMore(d.port, q, a) \/ q = d.port,
         \A e \in DOMAIN Aged(q).resp : e.left < L
  PROVE  Paced(Aged(q), A, L)
<1> DEFINE p == Aged(q)
<1>1. /\ IsFiniteSet(Ahead(port, A, Int)) /\ Cardinality(Ahead(port, A, Int)) <= L
      /\ \A k \in 1 .. L : Cardinality(Ahead(port, A, From(k))) <= L - k
  BY DEF Paced
<1>2. /\ IsFiniteSet(Ahead(p, A, Int))
      /\ Cardinality(Ahead(p, A, Int)) \in Nat
      /\ d.ready /\ d.addr \in A =>
           Cardinality(Ahead(p, A, Int)) <= Cardinality(Ahead(port, A, Int)) - 1 + 1
      /\ ~d.ready =>
           Cardinality(Ahead(p, A, Int)) <= Cardinality(Ahead(port, A, From(1))) + 1
      /\ \A k \in Nat :
           Cardinality(Ahead(p, A, From(k))) <= Cardinality(Ahead(port, A, From(k + 1))) + 1
      /\ \A k \in Nat : Cardinality(Ahead(port, A, From(k))) \in Nat
      /\ Cardinality(Ahead(port, A, Int)) \in Nat
  <2>1. 1 \in {0, 1} /\ A \subseteq A
    OBVIOUS
  <2> QED BY <1>1, <2>1, CycleAhead
<1>3. d.ready => d.addr \in A
  BY AnswersAre
<1>4. PortOf(A, p)
  BY AgedIs
<1> HIDE DEF p
<1>5. Cardinality(Ahead(p, A, Int)) <= L
  <2>1. L \in Nat /\ 1 \in 1 .. L /\ 1 \in Nat
    OBVIOUS
  <2>2. Cardinality(Ahead(port, A, From(1))) <= L - 1 /\ Cardinality(Ahead(port, A, From(1))) \in Nat
    BY <1>1, <1>2, <2>1
  <2> QED BY <1>1, <1>2, <1>3, <2>1, <2>2
<1>6. ASSUME NEW k \in 1 .. L PROVE Cardinality(Ahead(p, A, From(k))) <= L - k
  <2>1. CASE k = L
    <3>1. \A e \in DOMAIN p.resp : e.left \notin From(L)
      BY DEF From, p
    <3>2. \A b \in DOMAIN p.mshr : \E f \in DOMAIN p.resp : f.val = b
      BY <1>4 DEF PortOf, Values, BagToSet
    <3>3. ASSUME NEW t \in Ahead(p, A, From(L)) PROVE FALSE
      <4>1. CASE \E e \in DOMAIN p.resp : /\ e.val \in A /\ e.left \in From(L)
                                          /\ \E n \in 1 .. p.resp[e] : t = <<"response", e, n>>
        BY <3>1, <4>1
      <4>2. CASE \E b \in DOMAIN p.mshr :
                   /\ b \in A /\ \A f \in DOMAIN p.resp : f.val = b => f.left \in From(L)
                   /\ \E n \in 1 .. p.mshr[b] : t = <<"waiting", b, n>>
        BY <3>1, <3>2, <4>2
      <4> QED BY <3>3, <4>1, <4>2, AheadIs
    <3>4. Ahead(p, A, From(L)) = {}
      BY <3>3
    <3>5. Cardinality(Ahead(p, A, From(L))) = 0
      BY <3>4, FS_EmptySet
    <3> QED BY <2>1, <3>5
  <2>2. CASE k # L
    <3>1. k \in Nat /\ k + 1 \in 1 .. L /\ k + 1 \in Nat
      BY <2>2
    <3>2. /\ Cardinality(Ahead(p, A, From(k))) <= Cardinality(Ahead(port, A, From(k + 1))) + 1
          /\ Cardinality(Ahead(port, A, From(k + 1))) <= L - (k + 1)
          /\ Cardinality(Ahead(port, A, From(k + 1))) \in Nat
      BY <1>1, <1>2, <3>1
    <3>3. IsFiniteSet(Ahead(p, A, From(k)))
      <4>1. Ahead(p, A, From(k)) \subseteq Ahead(p, A, Int)
        BY AheadPart DEF From
      <4> QED BY <1>2, <4>1, FS_Subset
    <3>4. Cardinality(Ahead(p, A, From(k))) \in Nat
      BY <3>3, FS_CardinalityType
    <3> QED BY <3>1, <3>2, <3>4
  <2> QED BY <2>1, <2>2
<1> QED BY <1>2, <1>5, <1>6 DEF Paced, p

(* While a is asked for and not answered, the others get fewer. *)
LEMMA OthersFewer ==
  ASSUME NEW A, NEW port, PortOf(A, port), IsFiniteSet(Ahead(port, A, Int)),
         NEW d \in Answers(port), NEW a, NEW q, PortOf(A, q), OneMore(d.port, q, a) \/ q = d.port,
         NEW L \in Nat, Paced(port, A \ {a}, L), d.ready => d.addr # a,
         ~d.ready => L > 0
  PROVE  L > 0 /\ Paced(Aged(q), A \ {a}, L - 1)
<1> DEFINE p == Aged(q)
           B == A \ {a}
<1>1. /\ Cardinality(Ahead(port, B, Int)) <= L
      /\ \A k \in 1 .. L : Cardinality(Ahead(port, B, From(k))) <= L - k
  BY DEF Paced
<1>2. /\ IsFiniteSet(Ahead(p, B, Int))
      /\ Cardinality(Ahead(p, B, Int)) \in Nat
      /\ d.ready /\ d.addr \in B =>
           Cardinality(Ahead(p, B, Int)) <= Cardinality(Ahead(port, B, Int)) - 1 + 0
      /\ ~d.ready =>
           Cardinality(Ahead(p, B, Int)) <= Cardinality(Ahead(port, B, From(1))) + 0
      /\ \A k \in Nat :
           Cardinality(Ahead(p, B, From(k))) <= Cardinality(Ahead(port, B, From(k + 1))) + 0
      /\ \A k \in Nat : Cardinality(Ahead(port, B, From(k))) \in Nat
      /\ Cardinality(Ahead(port, B, Int)) \in Nat
  <2>1. 0 \in {0, 1} /\ B \subseteq A /\ a \notin B
    OBVIOUS
  <2> HIDE DEF B
  <2> QED BY <2>1, CycleAhead
<1>3. d.ready => d.addr \in B
  BY AnswersAre
<1>4. d.ready \in BOOLEAN
  BY AnswersAre
<1> HIDE DEF p, B
<1>5. L > 0 /\ Cardinality(Ahead(p, B, Int)) <= L - 1
  <2>1. CASE d.ready
    BY <1>1, <1>2, <1>3, <2>1
  <2>2. CASE ~d.ready
    <3>1. 1 \in 1 .. L /\ 1 \in Nat
      BY <2>2
    <3>2. Cardinality(Ahead(port, B, From(1))) <= L - 1 /\ Cardinality(Ahead(port, B, From(1))) \in Nat
      BY <1>1, <1>2, <3>1
    <3> QED BY <1>2, <2>2, <3>2
  <2> QED BY <1>4, <2>1, <2>2
<1>6. ASSUME NEW k \in 1 .. L - 1 PROVE Cardinality(Ahead(p, B, From(k))) <= L - 1 - k
  <2>1. k \in Nat /\ k + 1 \in 1 .. L /\ k + 1 \in Nat
    OBVIOUS
  <2>2. /\ Cardinality(Ahead(p, B, From(k))) <= Cardinality(Ahead(port, B, From(k + 1))) + 0
        /\ Cardinality(Ahead(port, B, From(k + 1))) <= L - (k + 1)
        /\ Cardinality(Ahead(port, B, From(k + 1))) \in Nat
    BY <1>1, <1>2, <2>1
  <2>3. IsFiniteSet(Ahead(p, B, From(k)))
    <3>1. Ahead(p, B, From(k)) \subseteq Ahead(p, B, Int)
      BY AheadPart DEF From
    <3> QED BY <1>2, <3>1, FS_Subset
  <2>4. Cardinality(Ahead(p, B, From(k))) \in Nat
    BY <2>3, FS_CardinalityType
  <2> QED BY <2>1, <2>2, <2>4
<1> QED BY <1>2, <1>5, <1>6 DEF Paced, p, B

-----------------------------------------------------------------------------
(* When the responses are due. *)

(* A request is due in q no later than it can be, and what was due in p    *)
(* still is.                                                               *)
DueBy(p, q, L) ==
  /\ DOMAIN p.resp \subseteq DOMAIN q.resp
  /\ \A e \in DOMAIN q.resp : e \in DOMAIN p.resp \/ e.left <= L

(* The longest latencies are numbers of cycles. *)
LEMMA LongestIs == ILongest \in Nat \ {0} /\ DLongest \in Nat \ {0}
  BY LatencyAssumption DEF ILongest, DLongest

(* A response is due no later than the latency it was sent with. *)
LEMMA SentDue ==
  ASSUME NEW A, NEW port, PortOf(A, port), NEW a \in A, NEW latency \in Nat, NEW L \in Nat, latency <= L
  PROVE  /\ DueBy(port, Sent(port, a, latency), L)
         /\ \E e \in DOMAIN Sent(port, a, latency).resp : e.val = a /\ e.left <= L
<1> DEFINE p == Sent(port, a, latency)
           z == [left |-> latency, val |-> a]
<1>1. p.resp = Add(port.resp, a, latency, 1)
  BY DEF Sent
<1>2. BucketOf(A, port.resp) /\ BucketOf(A, p.resp)
  BY SentIs DEF PortOf
<1>3. \A d : Count(p.resp, d) = Count(port.resp, d) + IF d = z THEN 1 ELSE 0
  BY <1>1, <1>2, AddedCounts
<1>4. z.val = a /\ z.left = latency
  OBVIOUS
<1> HIDE DEF p, z
<1>5. \A d : /\ Count(port.resp, d) \in Nat
             /\ d \in DOMAIN port.resp <=> Count(port.resp, d) > 0
             /\ d \in DOMAIN p.resp <=> Count(p.resp, d) > 0
  BY <1>2, InBucket
<1>6. z \in DOMAIN p.resp /\ \A e : e \in DOMAIN p.resp <=> e \in DOMAIN port.resp \/ e = z
  BY <1>3, <1>5
<1> QED BY <1>4, <1>6 DEF DueBy, p

(* What a request can be. *)
LEMMA InstructionAhead ==
  ASSUME NEW port, PortOf(IAddr, port), i_in.addr \in IAddr
  PROVE  LET q == InstructionRequest(port).port
         IN  /\ PortOf(IAddr, q) /\ DueBy(port, q, ILongest)
             /\ OneMore(port, q, i_in.addr) \/ q = port
<1> DEFINE q == InstructionRequest(port).port
           a == i_in.addr
<1>0. a \in IAddr
  OBVIOUS
<1>1. PortOf(IAddr, q)
  BY InstructionIs
<1>2. CASE i_in.op = "NONE"
  <2>1. q = port
    BY <1>2 DEF InstructionRequest
  <2> QED BY <1>1, <2>1 DEF DueBy
<1>3. CASE i_in.op # "NONE" /\ a \in DOMAIN port.mshr
  <2>1. q = Joined(port, a)
    BY <1>3 DEF InstructionRequest
  <2> HIDE DEF a
  <2>2. OneMore(port, Joined(port, a), a) /\ Joined(port, a).resp = port.resp
    BY <1>3, JoinedAhead DEF Joined, PortOf
  <2> QED BY <1>1, <2>1, <2>2 DEF DueBy, a
<1>4. CASE i_in.op # "NONE" /\ a \notin DOMAIN port.mshr
  <2>1. PICK latency \in Nat : latency <= ILongest /\ q = Sent(port, a, latency)
    <3> DEFINE latency == ILatency + IF Has(cache.L1i, a) THEN 0 ELSE MissLatency(cache.L2, a)
    <3>1. q = Sent(port, a, latency)
      BY <1>4 DEF InstructionRequest
    <3>2. latency \in Nat /\ latency <= ILongest
      BY LatencyAssumption DEF MissLatency, ILongest
    <3> QED BY <3>1, <3>2
  <2> HIDE DEF a, q
  <2>2. OneMore(port, Sent(port, a, latency), a) /\ DueBy(port, Sent(port, a, latency), ILongest)
    BY <1>0, <2>1, LongestIs, SentAhead, SentDue
  <2> QED BY <1>1, <2>1, <2>2 DEF a, q
<1> QED BY <1>2, <1>3, <1>4

(* What taking the data request adds to the port, and by when it is due. *)
LEMMA DataAhead ==
  ASSUME NEW port, PortOf(DAddr, port), d_in.addr \in DAddr, NEW c
  PROVE  LET q == DataRequest(port, c).port
         IN  /\ PortOf(DAddr, q) /\ DueBy(port, q, DLongest)
             /\ OneMore(port, q, d_in.addr) \/ q = port
             /\ d_in.op # "NONE" => \E e \in DOMAIN q.resp :
                  e.val = d_in.addr /\ (e \in DOMAIN port.resp \/ e.left <= DLongest)
<1> DEFINE q == DataRequest(port, c).port
           a == d_in.addr
<1>0. a \in DAddr
  OBVIOUS
<1>1. PortOf(DAddr, q)
  BY DataIs
<1>2. CASE d_in.op = "NONE"
  <2>1. q = port
    BY <1>2 DEF DataRequest
  <2> QED BY <1>1, <1>2, <2>1 DEF DueBy
<1>3. CASE d_in.op # "NONE" /\ a \in DOMAIN port.mshr
  <2>1. q = Joined(port, a)
    BY <1>3 DEF DataRequest
  <2> HIDE DEF a
  <2>2. OneMore(port, Joined(port, a), a) /\ Joined(port, a).resp = port.resp
    BY <1>3, JoinedAhead DEF Joined, PortOf
  <2>3. \E e \in DOMAIN port.resp : e.val = a
    BY <1>3 DEF PortOf, Values, BagToSet
  <2> QED BY <1>1, <2>1, <2>2, <2>3 DEF DueBy, a
<1>4. CASE d_in.op # "NONE" /\ a \notin DOMAIN port.mshr
  <2>1. PICK latency \in Nat : latency <= DLongest /\ q = Sent(port, a, latency)
    <3> DEFINE latency == DLatency + IF Has(c.L1d, a) THEN 0 ELSE MissLatency(L2AfterVictim(c, a), a)
    <3>1. q = Sent(port, a, latency)
      BY <1>4 DEF DataRequest
    <3>2. latency \in Nat /\ latency <= DLongest
      BY LatencyAssumption DEF MissLatency, DLongest
    <3> QED BY <3>1, <3>2
  <2> HIDE DEF a, q
  <2>2. /\ OneMore(port, Sent(port, a, latency), a) /\ DueBy(port, Sent(port, a, latency), DLongest)
        /\ \E e \in DOMAIN Sent(port, a, latency).resp : e.val = a /\ e.left <= DLongest
    BY <1>0, <2>1, LongestIs, SentAhead, SentDue
  <2> QED BY <1>1, <2>1, <2>2 DEF a, q
<1> QED BY <1>2, <1>3, <1>4

(* A delivery does not put off anything. *)
LEMMA AnswerDue ==
  ASSUME NEW A, NEW port, PortOf(A, port), NEW r \in Answers(port)
  PROVE  /\ \A d \in DOMAIN r.port.resp : d \in DOMAIN port.resp \/ d.left = 0
         /\ \A d \in DOMAIN port.resp : d \in DOMAIN r.port.resp \/ (r.ready /\ r.addr = d.val)
<1>1. CASE Due(port.resp) = {}
  BY <1>1 DEF Answers
<1>2. CASE Due(port.resp) # {}
  <2>1. PICK e \in Due(port.resp) :
          r = [ready |-> TRUE, addr |-> e.val, port |-> Delivered(port, e)]
    BY <1>2 DEF Answers
  <2> DEFINE p == Delivered(port, e)
             z == [left |-> 0, val |-> e.val]
  <2>2. r.ready = TRUE /\ r.addr = e.val /\ r.port = p
    BY <2>1
  <2>3. /\ BucketOf(A, port.resp) /\ BucketOf(A, p.resp)
        /\ e \in DOMAIN port.resp /\ e.left \in Int /\ e.left <= 0 /\ e.val \in A
        /\ WaitingFor(port, e.val) \in Nat
        /\ \A d : Count(p.resp, d) = (Count(port.resp, d) - IF d = e THEN 1 ELSE 0)
                                     + IF d = z THEN WaitingFor(port, e.val) ELSE 0
        /\ p.mshr = [a \in DOMAIN port.mshr \ {e.val} |-> port.mshr[a]]
    BY DeliveredCounts
  <2>4. z.left = 0
    OBVIOUS
  <2> HIDE DEF p, z
  <2>5. \A d : /\ Count(port.resp, d) \in Nat
               /\ d \in DOMAIN port.resp <=> Count(port.resp, d) > 0
               /\ d \in DOMAIN p.resp <=> Count(p.resp, d) > 0
    BY <2>3, InBucket
  <2>6. \A d : d \in DOMAIN p.resp => d \in DOMAIN port.resp \/ d = z
    BY <2>3, <2>5
  <2>7. \A d : d \in DOMAIN port.resp => d \in DOMAIN p.resp \/ d = e
    BY <2>3, <2>5
  <2> QED BY <2>2, <2>4, <2>6, <2>7
<1> QED BY <1>1, <1>2

(* A cycle brings each nearer. *)
LEMMA AgedDue ==
  ASSUME NEW A, NEW port, PortOf(A, port)
  PROVE  /\ \A e \in DOMAIN Aged(port).resp : \E f \in DOMAIN port.resp :
              f.left \in Int /\ e.val = f.val /\ e.left = f.left - 1
         /\ \A f \in DOMAIN port.resp : \E e \in DOMAIN Aged(port).resp :
              f.left \in Int /\ e.val = f.val /\ e.left = f.left - 1
<1>1. /\ Aged(port).resp = Elapsed(port.resp) /\ BucketOf(A, port.resp)
  BY AgedIs DEF PortOf, Aged
<1> DEFINE Older(e) == [e EXCEPT !.left = @ - 1]
<1>2. DOMAIN Aged(port).resp = {Older(e) : e \in DOMAIN port.resp}
  BY <1>1 DEF Elapsed, BagToSet
<1>3. ASSUME NEW f \in DOMAIN port.resp
      PROVE  f.left \in Int /\ Older(f).val = f.val /\ Older(f).left = f.left - 1
  BY <1>1 DEF BucketOf
<1> HIDE DEF Older
<1> QED BY <1>2, <1>3

(* A part of what keeps pace keeps pace. *)
LEMMA PacedPart ==
  ASSUME NEW port, NEW A, NEW B, B \subseteq A, NEW L \in Nat, Paced(port, A, L)
  PROVE  Paced(port, B, L)
<1>1. ASSUME NEW K, K \subseteq Int
      PROVE  /\ IsFiniteSet(Ahead(port, B, K))
             /\ Cardinality(Ahead(port, B, K)) \in Nat /\ Cardinality(Ahead(port, A, K)) \in Nat
             /\ Cardinality(Ahead(port, B, K)) <= Cardinality(Ahead(port, A, K))
  <2>1. Ahead(port, B, K) \subseteq Ahead(port, A, K) /\ Ahead(port, A, K) \subseteq Ahead(port, A, Int)
    BY <1>1, AheadPart
  <2>2. IsFiniteSet(Ahead(port, A, K))
    BY <2>1, FS_Subset DEF Paced
  <2> QED BY <2>1, <2>2, FS_Subset, FS_CardinalityType
<1>2. ASSUME NEW k \in 1 .. L PROVE Cardinality(Ahead(port, B, From(k))) <= L - k
  <2>1. From(k) \subseteq Int
    BY DEF From
  <2>2. Cardinality(Ahead(port, A, From(k))) <= L - k
    BY DEF Paced
  <2> QED BY <1>1, <2>1, <2>2
<1>3. IsFiniteSet(Ahead(port, B, Int)) /\ Cardinality(Ahead(port, B, Int)) <= L
  <2>1. Cardinality(Ahead(port, A, Int)) <= L
    BY DEF Paced
  <2> QED BY <1>1, <2>1
<1> QED BY <1>2, <1>3 DEF Paced

-----------------------------------------------------------------------------
(* The inductive invariant of the backlog: both ports keep pace, and nothing*)
(* is due later than the longest latency.                                  *)
Prompt(port, A, L) == Paced(port, A, L) /\ \A e \in DOMAIN port.resp : e.left < L

(* Execute waits for one address, which is on the port and has a response  *)
(* that comes nearer, and what is ahead of it gets less.                   *)
AnswerNear ==
  \A a \in DAddr : a \in reading =>
    /\ reading = {a} /\ d_in.op = "READ" /\ d_in.addr = a
    /\ ~IsAnswer(a) =>
         /\ waited \in 0 .. DLongest
         /\ Paced(d_port, DAddr \ {a}, DLongest - waited)
         /\ waited > 0 => \E e \in DOMAIN d_port.resp : e.val = a /\ e.left <= DLongest - waited

PaceInv ==
  /\ Prompt(i_port, IAddr, ILongest) /\ Prompt(d_port, DAddr, DLongest)
  /\ waited \in 0 .. DLongest + 1 /\ AnswerNear

(* A port after one cycle. *)
LEMMA PromptKept ==
  ASSUME NEW A, NEW port, PortOf(A, port), NEW L \in Nat \ {0}, Prompt(port, A, L),
         NEW d \in Answers(port), NEW a, NEW q, PortOf(A, q), OneMore(d.port, q, a) \/ q = d.port,
         DueBy(d.port, q, L)
  PROVE  Prompt(Aged(q), A, L)
<1>1. ASSUME NEW e \in DOMAIN Aged(q).resp PROVE e.left < L
  <2>1. PICK f \in DOMAIN q.resp : f.left \in Int /\ e.left = f.left - 1
    BY AgedDue
  <2>2. f.left <= L
    <3>1. CASE f \in DOMAIN d.port.resp
      <4>1. f \in DOMAIN port.resp \/ f.left = 0
        BY <3>1, AnswerDue
      <4>2. f \in DOMAIN port.resp => f.left < L
        BY DEF Prompt
      <4> QED BY <2>1, <4>1, <4>2
    <3>2. CASE f \notin DOMAIN d.port.resp
      BY <3>2 DEF DueBy
    <3> QED BY <3>1, <3>2
  <2> QED BY <2>1, <2>2
<1>2. Paced(Aged(q), A, L)
  BY <1>1, PaceKept DEF Prompt
<1> QED BY <1>1, <1>2 DEF Prompt

(* Both ports after one call of work(). *)
LEMMA BacklogStep ==
  ASSUME PortInv, PaceInv, MemoryWork
  PROVE  Prompt(i_port', IAddr, ILongest) /\ Prompt(d_port', DAddr, DLongest)
<1>1. /\ PortOf(IAddr, i_port) /\ PortOf(DAddr, d_port)
      /\ i_in.addr \in IAddr /\ d_in.addr \in DAddr
  BY DEF PortInv, PortTyped
<1>2. PICK i \in Answers(i_port), d \in Answers(d_port) :
        /\ i_port' = Aged(InstructionRequest(i.port).port)
        /\ d_port' = Aged(DataRequest(d.port, InstructionRequest(i.port).cache).port)
  BY DEF MemoryWork
<1>3. Prompt(i_port', IAddr, ILongest)
  <2> DEFINE q == InstructionRequest(i.port).port
  <2>1. PortOf(IAddr, i.port)
    BY <1>1, AnswersAre
  <2>2. /\ PortOf(IAddr, q) /\ DueBy(i.port, q, ILongest)
        /\ OneMore(i.port, q, i_in.addr) \/ q = i.port
    BY <1>1, <2>1, InstructionAhead
  <2> HIDE DEF q
  <2>3. Prompt(Aged(q), IAddr, ILongest)
    BY <1>1, <2>2, LongestIs, PromptKept DEF PaceInv
  <2> QED BY <1>2, <2>3 DEF q
<1>4. Prompt(d_port', DAddr, DLongest)
  <2> DEFINE q == DataRequest(d.port, InstructionRequest(i.port).cache).port
  <2>1. PortOf(DAddr, d.port)
    BY <1>1, AnswersAre
  <2>2. /\ PortOf(DAddr, q) /\ DueBy(d.port, q, DLongest)
        /\ OneMore(d.port, q, d_in.addr) \/ q = d.port
    BY <1>1, <2>1, DataAhead
  <2> HIDE DEF q
  <2>3. Prompt(Aged(q), DAddr, DLongest)
    BY <1>1, <2>2, LongestIs, PromptKept DEF PaceInv
  <2> QED BY <1>2, <2>3 DEF q
<1> QED BY <1>3, <1>4

(* One cycle of waiting. *)
LEMMA WaitStep ==
  ASSUME PortInv, PaceInv, MemoryWork, NEW a \in DAddr, a \in reading, ~IsAnswer(a), ~IsAnswer(a)'
  PROVE  /\ waited \in 0 .. DLongest - 1
         /\ Paced(d_port', DAddr \ {a}, DLongest - (waited + 1))
         /\ \E e \in DOMAIN d_port'.resp : e.val = a /\ e.left <= DLongest - (waited + 1)
<1>1. PortOf(DAddr, d_port) /\ Prompt(d_port, DAddr, DLongest)
  BY DEF PortInv, PaceInv
<1>2. PICK i \in Answers(i_port), d \in Answers(d_port) :
        /\ d_port' = Aged(DataRequest(d.port, InstructionRequest(i.port).cache).port)
        /\ AnswerData(d)
  BY DEF MemoryWork
<1>3. /\ d_in.op # "NONE" /\ d_in.addr = a /\ waited \in 0 .. DLongest
      /\ Paced(d_port, DAddr \ {a}, DLongest - waited)
      /\ waited > 0 => \E e \in DOMAIN d_port.resp : e.val = a /\ e.left <= DLongest - waited
  BY DEF PaceInv, AnswerNear
<1>4. d.ready => d.addr # a
  BY <1>2 DEF AnswerData, IsAnswer
<1> DEFINE q == DataRequest(d.port, InstructionRequest(i.port).cache).port
<1>5. PortOf(DAddr, d.port)
  BY <1>1, AnswersAre
<1>6. /\ PortOf(DAddr, q) /\ DueBy(d.port, q, DLongest)
      /\ OneMore(d.port, q, a) \/ q = d.port
      /\ \E e \in DOMAIN q.resp : e.val = a /\ (e \in DOMAIN d.port.resp \/ e.left <= DLongest)
  BY <1>3, <1>5, DataAhead
<1> HIDE DEF q
<1>7. d_port' = Aged(q)
  BY <1>2 DEF q
<1>8. DLongest \in Nat /\ DLongest > 0 /\ waited \in Nat /\ DLongest - waited \in Nat
  BY <1>3, LongestIs
<1>9. IsFiniteSet(Ahead(d_port, DAddr, Int))
  BY <1>1 DEF Prompt, Paced
<1>10. ~d.ready => DLongest - waited > 0
  <2> SUFFICES ASSUME ~d.ready PROVE DLongest - waited > 0
    OBVIOUS
  <2>1. Due(d_port.resp) = {}
    BY DEF Answers
  <2>2. \A e \in DOMAIN d_port.resp : e.left \in Int /\ e.left >= 1
    BY <1>1, <1>9, <2>1, NoneDue
  <2> QED BY <1>3, <1>8, <2>2
<1>11. DLongest - waited > 0 /\ Paced(Aged(q), DAddr \ {a}, (DLongest - waited) - 1)
  BY <1>1, <1>3, <1>4, <1>6, <1>8, <1>9, <1>10, OthersFewer
<1>12. \E e \in DOMAIN q.resp : e.val = a /\ e.left \in Int /\ e.left <= DLongest - waited
  <2>1. \A e \in DOMAIN q.resp : e.left \in Int
    BY <1>6 DEF PortOf, BucketOf
  <2>2. CASE waited > 0
    <3>1. PICK e \in DOMAIN d_port.resp : e.val = a /\ e.left <= DLongest - waited
      BY <1>3, <2>2
    <3>2. e \in DOMAIN d.port.resp
      BY <1>1, <1>4, <3>1, AnswerDue
    <3>3. e \in DOMAIN q.resp
      BY <1>6, <3>2 DEF DueBy
    <3> QED BY <2>1, <3>1, <3>3
  <2>3. CASE ~(waited > 0)
    <3>1. waited = 0 /\ DLongest - waited = DLongest
      BY <1>8, <2>3
    <3>2. PICK e \in DOMAIN q.resp : e.val = a /\ (e \in DOMAIN d.port.resp \/ e.left <= DLongest)
      BY <1>6
    <3>3. e.left <= DLongest
      <4>1. e \in DOMAIN d.port.resp => e \in DOMAIN d_port.resp \/ e.left = 0
        BY <1>1, AnswerDue
      <4>2. e \in DOMAIN d_port.resp => e.left < DLongest
        BY <1>1 DEF Prompt
      <4> QED BY <1>8, <2>1, <3>2, <4>1, <4>2
    <3> QED BY <2>1, <3>1, <3>2, <3>3
  <2> QED BY <2>2, <2>3
<1>13. \E e \in DOMAIN d_port'.resp : e.val = a /\ e.left <= (DLongest - waited) - 1
  <2>1. PICK f \in DOMAIN q.resp : f.val = a /\ f.left \in Int /\ f.left <= DLongest - waited
    BY <1>12
  <2>2. PICK e \in DOMAIN Aged(q).resp : e.val = f.val /\ e.left = f.left - 1
    BY <1>6, AgedDue
  <2> QED BY <1>7, <1>8, <2>1, <2>2
<1>14. (DLongest - waited) - 1 = DLongest - (waited + 1) /\ waited \in 0 .. DLongest - 1
  BY <1>8, <1>11
<1> QED BY <1>7, <1>11, <1>13, <1>14

(* The invariant of the backlog holds before the first cycle. *)
LEMMA PaceInvInit == ASSUME PortInit PROVE PaceInv
<1>1. i_port = EmptyPort /\ d_port = EmptyPort /\ reading = {} /\ waited = 0
  BY DEF PortInit, MemoryInit
<1>2. ASSUME NEW A, NEW L \in Nat \ {0} PROVE Prompt(EmptyPort, A, L)
  <2>1. DOMAIN EmptyPort.resp = {} /\ DOMAIN EmptyPort.mshr = {}
    BY DEF EmptyPort, EmptyBag, SetToBag
  <2>2. ASSUME NEW K PROVE Ahead(EmptyPort, A, K) = {}
    <3>1. ASSUME NEW t \in Ahead(EmptyPort, A, K) PROVE FALSE
      BY <2>1, <3>1, AheadIs
    <3> QED BY <3>1
  <2>3. ASSUME NEW K
        PROVE  IsFiniteSet(Ahead(EmptyPort, A, K)) /\ Cardinality(Ahead(EmptyPort, A, K)) = 0
    BY <2>2, FS_EmptySet
  <2>4. Cardinality(Ahead(EmptyPort, A, Int)) <= L
    BY <2>3
  <2>5. ASSUME NEW k \in 1 .. L PROVE Cardinality(Ahead(EmptyPort, A, From(k))) <= L - k
    BY <2>3
  <2> QED BY <2>1, <2>3, <2>4, <2>5 DEF Prompt, Paced
<1>3. waited \in 0 .. DLongest + 1
  BY <1>1, LongestIs
<1> QED BY <1>1, <1>2, <1>3, LongestIs DEF PaceInv, AnswerNear

(* Every cycle keeps it, whether Execute reads, waits or does neither. *)
LEMMA PaceInvStep == ASSUME PortInv, PaceInv, [PortNext]_portVars PROVE PaceInv'
<1>1. CASE PortNext
  <2>1. /\ Prompt(i_port', IAddr, ILongest) /\ Prompt(d_port', DAddr, DLongest)
        /\ MemoryWork /\ ExecuteSide /\ reading \subseteq DAddr
    BY <1>1, BacklogStep DEF PortNext, PortInv, PortTyped
  <2>2. DLongest \in Nat /\ waited \in 0 .. DLongest + 1
    BY LongestIs DEF PaceInv
  <2>3. CASE \E a \in DAddr : Read(a)
    <3>1. PICK a \in DAddr : Read(a)
      BY <2>3
    <3>2. reading' = {a} /\ waited' = 0 /\ d_in'.op = "READ" /\ d_in'.addr = a
      BY <3>1 DEF Read, PortInv, PortTyped
    <3>3. Paced(d_port', DAddr \ {a}, DLongest)
      BY <2>1, <2>2, PacedPart DEF Prompt
    <3>4. 0 \in 0 .. DLongest /\ 0 \in 0 .. DLongest + 1 /\ DLongest - 0 = DLongest
      BY <2>2
    <3>5. AnswerNear'
      BY <3>2, <3>3, <3>4 DEF AnswerNear
    <3> QED BY <2>1, <3>2, <3>4, <3>5 DEF PaceInv
  <2>4. CASE \E a \in DAddr : WaitFor(a)
    <3>1. PICK a \in DAddr : WaitFor(a)
      BY <2>4
    <3>2. /\ a \in reading /\ ~IsAnswer(a) /\ waited' = waited + 1
          /\ reading' = reading /\ d_in' = d_in
      BY <3>1 DEF WaitFor
    <3>3. /\ reading = {a} /\ d_in.op = "READ" /\ d_in.addr = a /\ waited \in 0 .. DLongest
      BY <3>2 DEF PaceInv, AnswerNear
    <3>4. waited' \in 0 .. DLongest + 1
      BY <2>2, <3>2, <3>3
    <3>5. ~IsAnswer(a)' => /\ waited' \in 0 .. DLongest
                           /\ Paced(d_port', DAddr \ {a}, DLongest - waited')
                           /\ \E e \in DOMAIN d_port'.resp : e.val = a /\ e.left <= DLongest - waited'
      <4> SUFFICES ASSUME ~IsAnswer(a)'
                   PROVE  /\ waited' \in 0 .. DLongest
                          /\ Paced(d_port', DAddr \ {a}, DLongest - waited')
                          /\ \E e \in DOMAIN d_port'.resp : e.val = a /\ e.left <= DLongest - waited'
        OBVIOUS
      <4>1. /\ waited \in 0 .. DLongest - 1
            /\ Paced(d_port', DAddr \ {a}, DLongest - (waited + 1))
            /\ \E e \in DOMAIN d_port'.resp : e.val = a /\ e.left <= DLongest - (waited + 1)
        BY <2>1, <3>2, WaitStep
      <4>2. waited' \in 0 .. DLongest
        BY <2>2, <3>2, <4>1
      <4> QED BY <3>2, <4>1, <4>2
    <3>6. AnswerNear'
      BY <3>2, <3>3, <3>5 DEF AnswerNear
    <3> QED BY <2>1, <3>4, <3>6 DEF PaceInv
  <2>5. CASE Compute \/ \E a \in DAddr : Take(a) \/ \E v \in Value : Write(a, v)
    <3>1. reading' = {} /\ (waited' = 0 \/ waited' = waited)
      BY <2>5 DEF Compute, Take, Write
    <3>2. waited' \in 0 .. DLongest + 1
      BY <2>2, <3>1
    <3> QED BY <2>1, <3>1, <3>2 DEF PaceInv, AnswerNear
  <2> QED BY <2>1, <2>3, <2>4, <2>5 DEF ExecuteSide
<1>2. CASE UNCHANGED portVars
  BY <1>2 DEF portVars, memoryVars, PaceInv, AnswerNear, IsAnswer
<1> QED BY <1>1, <1>2

(* Both ports keep pace with the requests that are made again in every     *)
(* cycle, and a READ's answer comes nearer (memory.cc:101-201).            *)
THEOREM PaceInvariant == PortSpec => []PaceInv
<1>1. PortInv /\ PaceInv /\ [PortNext]_portVars => PaceInv'
  BY PaceInvStep
<1> QED BY <1>1, PaceInvInit, PortInvariant, PTL DEF PortSpec

(* The requests nobody takes off the port pile up no further than the      *)
(* longest latency (memory.cc:107-136, delaybucket.h).                     *)
THEOREM BacklogStaysBounded == PortSpec => []BacklogBounded
<1>1. PortInv /\ PaceInv => BacklogBounded
  <2> SUFFICES ASSUME PortInv, PaceInv PROVE BacklogBounded
    OBVIOUS
  <2>1. PortOf(IAddr, i_port) /\ PortOf(DAddr, d_port)
    BY DEF PortInv
  <2>2. Ahead(i_port, IAddr, Int) = Outstanding(i_port) /\ Ahead(d_port, DAddr, Int) = Outstanding(d_port)
    BY <2>1, AheadWhole
  <2> QED BY <2>2 DEF PaceInv, Prompt, Paced, BacklogBounded
<1> QED BY <1>1, PortInvariant, PaceInvariant, PTL

(* A READ is answered within the longest latency (execute.cc:222,          *)
(* memory.cc:107-198, delaybucket.h:14).                                   *)
THEOREM ReadsAnswered == PortSpec => []ReadAnswered
<1>1. PaceInv => ReadAnswered
  BY LongestIs DEF PaceInv, ReadAnswered
<1> QED BY <1>1, PaceInvariant, PTL
===============================================================================
