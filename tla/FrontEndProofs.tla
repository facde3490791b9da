---------------------------- MODULE FrontEndProofs ----------------------------
(***************************************************************************)
(* The front end, for every ring of blocks, every code of instructions no  *)
(* longer than a block, every set of targets and every latency of memory:  *)
(* the reset protocol, and that the decoder delivers the instructions of   *)
(* the path in order and whole.                                            *)
(***************************************************************************)
EXTENDS FrontEnd, Induction, SequenceTheorems, FiniteSetTheorems

(* The order of the resets is open, but all of them are done before the    *)
(* first clock edge, and the core's hands Fetch the stack.                 *)
ResetInv ==
  /\ firstRunFlag \/ resets = {}
  /\ "core" \in resets \/ RSP = StackBase
  /\ StackReady

(* It holds at first. *)
LEMMA ResetInvInit == ASSUME FrontInit PROVE ResetInv
  BY DEF FrontInit, FetchInit, ResetInv, StackReady

(* A reset keeps it. *)
LEMMA ResetKeeps == ASSUME ResetInv, FrontReset PROVE ResetInv'
<1>1. /\ firstRunFlag' = firstRunFlag /\ firstRunFlag
      /\ resets' \subseteq resets /\ resets # {}
  BY DEF ResetInv, FrontReset, CoreReset, FetchReset, DispatchReset, ResetBy
<1>2. "core" \in resets' \/ RSP' = StackBase
  BY DEF ResetInv, FrontReset, CoreReset, FetchReset, DispatchReset, ResetBy
<1> QED BY <1>1, <1>2 DEF ResetInv, StackReady

(* A cycle keeps it: only the first request writes rsp, from RSP. *)
LEMMA CycleKeeps == ASSUME ResetInv, FrontCycle PROVE ResetInv'
<1>1. RSP = StackBase /\ UNCHANGED <<RSP, resets>> /\ resets = {}
  BY DEF ResetInv, FrontCycle, FetchWork
<1>2. CASE FirstRequest
  BY <1>1, <1>2 DEF FirstRequest, ResetInv, StackReady
<1>3. CASE (\E t \in redirect : Restart(t)) \/ AcceptBlock \/ KeepWaiting
  BY <1>1, <1>3 DEF Restart, AcceptBlock, KeepWaiting, ResetInv, StackReady
<1> QED BY <1>2, <1>3 DEF FrontCycle, FetchWork

(* It depends on nothing else. *)
LEMMA StutterKeeps == ASSUME ResetInv, UNCHANGED frontVars PROVE ResetInv'
  BY DEF frontVars, fetchVars, ResetInv, StackReady

(* Once the first block has been asked for, rsp is the core's stack,       *)
(* whatever the order of the three do_reset() (core_cse502.cc:6-11,        *)
(* fetch.cc:5-11, dispatch.cc:24-32).                                      *)
THEOREM StackAlwaysReady == FrontSpec => []StackReady
<1>1. ResetInv /\ [FrontNext]_frontVars => ResetInv'
  BY ResetKeeps, CycleKeeps, StutterKeeps DEF FrontNext
<1>2. ResetInv => StackReady
  BY DEF ResetInv
<1> QED BY <1>1, <1>2, ResetInvInit, PTL DEF FrontSpec

-----------------------------------------------------------------------------
(* The number of bytes. *)
Ring == BlockSize * Blocks

(* A ring is not empty. *)
LEMMA RingIs == /\ BlockSize \in Nat /\ BlockSize > 0 /\ Blocks \in Nat /\ Blocks > 0
                /\ Ring \in Nat /\ Ring > 0 /\ BlockSize <= Ring /\ Byte = 0 .. Ring - 1
<1>1. BlockSize \in Nat /\ BlockSize > 0 /\ Blocks \in Nat /\ Blocks > 0
  BY BlockAssumption
<1>2. BlockSize * Blocks \in Nat /\ BlockSize * Blocks > 0 /\ BlockSize <= BlockSize * Blocks
  BY <1>1, Z3
<1> QED BY <1>1, <1>2 DEF Ring, Byte

(* Division with a remainder. *)
LEMMA Remainders ==
  ASSUME NEW r \in Nat, r > 0, NEW a \in Int
  PROVE  /\ a % r \in 0 .. r - 1 /\ a \div r \in Int /\ a = r * (a \div r) + (a % r)
<1>1. a % r \in 0 .. r - 1
  BY SMT
<1>2. a \div r \in Int
  BY SMT
<1>3. a = r * (a \div r) + (a % r)
  BY SMT
<1> QED BY <1>1, <1>2, <1>3

(* The remainder is the only one. *)
LEMMA Unique ==
  ASSUME NEW r \in Nat, r > 0, NEW q \in Int, NEW b \in 0 .. r - 1
  PROVE  (r * q + b) % r = b
<1> DEFINE a == r * q + b
           p == a \div r
           c == a % r
<1>1. a \in Int /\ p \in Int /\ c \in 0 .. r - 1 /\ a = r * p + c
  BY Remainders, Z3
<1>2. r * (q - p) = c - b
  BY <1>1, Z3
<1>3. CASE q - p >= 1
  <2>1. r * (q - p) >= r
    BY <1>1, <1>3, Z3
  <2> QED BY <1>1, <1>2, <2>1
<1>4. CASE p - q >= 1
  <2>1. r * (p - q) >= r
    BY <1>1, <1>4, Z3
  <2>2. r * (p - q) = b - c
    BY <1>1, Z3
  <2> QED BY <1>1, <2>1, <2>2
<1>5. CASE p = q
  BY <1>1, <1>5, Z3
<1> QED BY <1>1, <1>3, <1>4, <1>5

(* Plus stays on the ring. *)
LEMMA PlusIs ==
  ASSUME NEW a \in Nat, NEW n \in Nat
  PROVE  /\ Plus(a, n) \in Byte
         /\ \E q \in Int : a + n = Ring * q + Plus(a, n)
<1>0. a + n \in Int /\ Ring \in Nat /\ Ring > 0
  BY RingIs
<1>1. (a + n) % Ring \in 0 .. Ring - 1 /\ (a + n) \div Ring \in Int
      /\ a + n = Ring * ((a + n) \div Ring) + ((a + n) % Ring)
  BY <1>0, Remainders
<1> QED BY <1>1, RingIs DEF Plus, Ring

(* Plus is a sum as long as it does not go around. *)
LEMMA PlusSmall ==
  ASSUME NEW a \in Nat, NEW n \in Nat, a + n < Ring
  PROVE  Plus(a, n) = a + n
<1>1. (Ring * 0 + (a + n)) % Ring = a + n
  BY RingIs, Unique
<1>2. Ring * 0 + (a + n) = a + n
  BY RingIs, Z3
<1> QED BY <1>1, <1>2 DEF Plus, Ring

(* Two steps on the ring are one. *)
LEMMA PlusPlus ==
  ASSUME NEW a \in Nat, NEW m \in Nat, NEW n \in Nat
  PROVE  Plus(Plus(a, m), n) = Plus(a, m + n)
<1>1. PICK p \in Int : a + m = Ring * p + Plus(a, m)
  BY PlusIs
<1>2. Plus(a, m) \in Nat
  <2>1. Plus(a, m) \in Byte /\ Byte = 0 .. Ring - 1
    BY PlusIs, RingIs
  <2> QED BY <2>1
<1>3. PICK q \in Int : Plus(a, m) + n = Ring * q + Plus(Plus(a, m), n)
  BY <1>2, PlusIs
<1> DEFINE b == Plus(Plus(a, m), n)
<1>4. b \in 0 .. Ring - 1
  BY <1>2, PlusIs, RingIs
<1> DEFINE c == Plus(a, m)
<1>5. a + m = Ring * p + c /\ c + n = Ring * q + b /\ c \in Int
  BY <1>1, <1>2, <1>3
<1> HIDE DEF b, c
<1>6. a + (m + n) = Ring * (p + q) + b
  <2>1. Ring * (p + q) = Ring * p + Ring * q
    BY RingIs, Z3
  <2> QED BY <1>4, <1>5, <2>1, RingIs
<1>7. (Ring * (p + q) + b) % Ring = b
  BY <1>4, RingIs, Unique
<1> QED BY <1>6, <1>7 DEF Plus, Ring, b, c

(* Multiples of the size of a block. *)
LEMMA Multiples ==
  ASSUME NEW k \in Int
  PROVE  /\ BlockSize * k \in Int /\ k * BlockSize = BlockSize * k
         /\ BlockSize * (k + 1) = BlockSize * k + BlockSize
         /\ k >= 0 => BlockSize * k >= 0
         /\ k < 0 => BlockSize * k <= -BlockSize
         /\ k >= Blocks => BlockSize * k >= Ring
         /\ k < Blocks => BlockSize * k + BlockSize <= Ring
<1>1. BlockSize \in Nat /\ BlockSize > 0 /\ Blocks \in Nat
  BY RingIs
<1>2. /\ BlockSize * k \in Int /\ k * BlockSize = BlockSize * k
      /\ BlockSize * (k + 1) = BlockSize * k + BlockSize
      /\ k >= 0 => BlockSize * k >= 0
      /\ k < 0 => BlockSize * k <= -BlockSize
  BY <1>1, Z3
<1>3. k >= Blocks => BlockSize * k >= BlockSize * Blocks
  BY <1>1, Z3
<1>4. k < Blocks => BlockSize * k + BlockSize <= BlockSize * Blocks
  <2>1. BlockSize * k + BlockSize = BlockSize * (k + 1)
    BY <1>2
  <2>2. k + 1 <= Blocks => BlockSize * (k + 1) <= BlockSize * Blocks
    BY <1>1, Z3
  <2> QED BY <1>1, <2>1, <2>2
<1> QED BY <1>2, <1>3, <1>4 DEF Ring

(* The block a byte is in. *)
LEMMA AlignedIs ==
  ASSUME NEW a \in Byte
  PROVE  /\ Aligned(a) \in IAddr /\ Aligned(a) \in Nat
         /\ a - Aligned(a) \in 0 .. BlockSize - 1
         /\ Aligned(a) + BlockSize <= Ring
<1> DEFINE q == a \div BlockSize
           r == a % BlockSize
<1>1. /\ BlockSize \in Nat /\ BlockSize > 0 /\ Blocks \in Nat /\ Blocks > 0
      /\ a \in Int /\ a >= 0 /\ a < Ring
  BY RingIs
<1>2. r \in 0 .. BlockSize - 1 /\ q \in Int /\ a = BlockSize * q + r
  BY <1>1, Remainders
<1>3. Aligned(a) = a - r
  BY DEF Aligned
<1> HIDE DEF q, r
<1>4. /\ BlockSize * q \in Int /\ q * BlockSize = BlockSize * q
      /\ q >= 0 => BlockSize * q >= 0
      /\ q < 0 => BlockSize * q <= -BlockSize
      /\ q >= Blocks => BlockSize * q >= Ring
      /\ q < Blocks => BlockSize * q + BlockSize <= Ring
  BY <1>2, Multiples
<1> DEFINE b == BlockSize * q
<1>5. b \in Int /\ a = b + r /\ Aligned(a) = b
  BY <1>1, <1>2, <1>3, <1>4
<1>6. (q < 0 => b <= -BlockSize) /\ (q >= Blocks => b >= Ring) /\ (q >= 0 => b >= 0)
      /\ (q < Blocks => b + BlockSize <= Ring)
  BY <1>4
<1>7. q * BlockSize = b
  BY <1>4
<1> HIDE DEF b
<1>8. q >= 0 /\ q < Blocks
  BY <1>1, <1>2, <1>5, <1>6, RingIs
<1>9. q \in 0 .. Blocks - 1
  BY <1>1, <1>2, <1>8
<1>10. b \in IAddr
  BY <1>7, <1>9, BlockAddrAssumption
<1> QED BY <1>1, <1>2, <1>5, <1>6, <1>8, <1>10

(* The first byte of a block, and the block behind it. *)
LEMMA BlockIs ==
  ASSUME NEW b \in IAddr
  PROVE  /\ b \in Nat /\ b \in Byte /\ b + BlockSize <= Ring
         /\ Aligned(b) = b /\ Plus(b, BlockSize) \in IAddr
<1>1. PICK k \in 0 .. Blocks - 1 : b = k * BlockSize
  BY BlockAddrAssumption
<1>2. /\ BlockSize \in Nat /\ BlockSize > 0 /\ Blocks \in Nat /\ Blocks > 0
      /\ Ring \in Nat /\ Ring > 0 /\ Byte = 0 .. Ring - 1
  BY RingIs
<1>3. k \in Int /\ k >= 0 /\ k < Blocks /\ k + 1 \in Int
  BY <1>1, <1>2
<1>4. /\ b \in Int /\ b = BlockSize * k /\ b >= 0 /\ b + BlockSize <= Ring
      /\ BlockSize * (k + 1) = b + BlockSize
  BY <1>1, <1>3, Multiples
<1>5. b \in Nat /\ b \in Byte
  BY <1>2, <1>4
<1>6. b % BlockSize = 0
  <2>1. (BlockSize * k + 0) % BlockSize = 0
    BY <1>2, <1>3, Unique
  <2> QED BY <1>4, <2>1
<1>7. Aligned(b) = b
  BY <1>4, <1>6 DEF Aligned
<1>8. CASE k + 1 < Blocks
  <2>1. BlockSize * (k + 1) + BlockSize <= Ring /\ (k + 1) * BlockSize = BlockSize * (k + 1)
    BY <1>3, <1>8, Multiples
  <2>2. Plus(b, BlockSize) = b + BlockSize
    BY <1>2, <1>4, <1>5, <2>1, PlusSmall
  <2>3. k + 1 \in 0 .. Blocks - 1
    BY <1>2, <1>3, <1>8
  <2>4. b + BlockSize = (k + 1) * BlockSize
    BY <1>4, <2>1
  <2> QED BY <1>4, <1>5, <1>7, <2>2, <2>3, <2>4, BlockAddrAssumption
<1>9. CASE k + 1 = Blocks
  <2>1. b + BlockSize = Ring
    BY <1>4, <1>9 DEF Ring
  <2>2. (Ring * 1 + 0) % Ring = 0 /\ Ring * 1 + 0 = Ring
    BY <1>2, Unique
  <2>3. Plus(b, BlockSize) = 0
    BY <2>1, <2>2 DEF Plus, Ring
  <2>4. 0 = 0 * BlockSize /\ 0 \in 0 .. Blocks - 1
    BY <1>2
  <2> QED BY <1>4, <1>5, <1>7, <2>3, <2>4, BlockAddrAssumption
<1> QED BY <1>2, <1>3, <1>8, <1>9

(* An address. *)
LEMMA ByteIs == ASSUME NEW a \in Byte PROVE a \in Nat /\ a < Ring /\ Plus(a, 0) = a
<1>1. Ring \in Nat /\ Byte = 0 .. Ring - 1
  BY RingIs
<1>2. a \in Nat /\ a < Ring /\ a + 0 = a
  BY <1>1
<1> QED BY <1>2, PlusSmall

(* A concatenation. *)
LEMMA JoinedInts ==
  ASSUME NEW r \in Seq(Int), NEW s \in Seq(Int)
  PROVE  /\ r \o s \in Seq(Int) /\ Len(r \o s) = Len(r) + Len(s)
         /\ \A k \in 1 .. Len(r) + Len(s) : (r \o s)[k] = IF k <= Len(r) THEN r[k] ELSE s[k - Len(r)]
  OBVIOUS

(* The n bytes from address a on. *)
Bytes(a, n) == [k \in 1 .. n |-> Plus(a, k - 1)]

(* They are a sequence of bytes. *)
LEMMA BytesAre ==
  ASSUME NEW a \in Byte, NEW n \in Nat
  PROVE  /\ Bytes(a, n) \in Seq(Byte) /\ Bytes(a, n) \in Seq(Int) /\ Len(Bytes(a, n)) = n
         /\ \A k \in 1 .. n : Bytes(a, n)[k] = Plus(a, k - 1)
<1>1. \A k \in 1 .. n : Plus(a, k - 1) \in Byte /\ Plus(a, k - 1) \in Int
  <2> TAKE k \in 1 .. n
  <2>1. a \in Nat /\ k - 1 \in Nat
    BY ByteIs
  <2>2. Plus(a, k - 1) \in Byte
    BY <2>1, PlusIs
  <2> QED BY <2>2, ByteIs
<1> QED BY <1>1 DEF Bytes

(* A sequence that consists of them. *)
LEMMA SameBytes ==
  ASSUME NEW S, NEW s \in Seq(S), NEW a \in Byte, \A k \in 1 .. Len(s) : s[k] = Plus(a, k - 1)
  PROVE  s = Bytes(a, Len(s))
<1>1. Len(s) \in Nat /\ DOMAIN s = 1 .. Len(s) /\ s = [k \in 1 .. Len(s) |-> s[k]]
  OBVIOUS
<1>2. [k \in 1 .. Len(s) |-> s[k]] = [k \in 1 .. Len(s) |-> Plus(a, k - 1)]
  BY <1>1
<1> QED BY <1>1, <1>2 DEF Bytes

(* A piece of them. *)
LEMMA BytesPiece ==
  ASSUME NEW a \in Byte, NEW n \in Nat, NEW i \in Nat, NEW j \in Nat, i <= j, j <= n
  PROVE  SubSeq(Bytes(a, n), i + 1, j) = Bytes(Plus(a, i), j - i)
<1> DEFINE s == Bytes(a, n)
           t == SubSeq(s, i + 1, j)
<1>1. s \in Seq(Byte) /\ Len(s) = n /\ \A k \in 1 .. n : s[k] = Plus(a, k - 1)
  BY BytesAre
<1> HIDE DEF s
<1>2. /\ t \in Seq(Byte) /\ Len(t) = j - i
      /\ \A k \in 1 .. j - i : t[k] = s[i + k]
  BY <1>1
<1>3. a \in Nat /\ Plus(a, i) \in Byte
  BY ByteIs, PlusIs
<1>4. ASSUME NEW k \in 1 .. j - i PROVE t[k] = Plus(Plus(a, i), k - 1)
  <2>1. i + k \in 1 .. n /\ k - 1 \in Nat /\ (i + k) - 1 = i + (k - 1)
    OBVIOUS
  <2>2. t[k] = Plus(a, i + (k - 1))
    BY <1>1, <1>2, <2>1
  <2> QED BY <1>3, <2>1, <2>2, PlusPlus
<1> HIDE DEF t
<1>5. t = Bytes(Plus(a, i), Len(t))
  BY <1>2, <1>3, <1>4, SameBytes
<1> QED BY <1>2, <1>5 DEF t, s

(* What Fetch puts on its port is the block from the byte wanted. *)
LEMMA ShiftedIs ==
  ASSUME NEW b \in IAddr, NEW offset \in 0 .. BlockSize - 1
  PROVE  /\ Shifted(b, offset) \in Seq(Int) /\ Len(Shifted(b, offset)) = BlockSize
         /\ \A k \in 1 .. BlockSize :
              Shifted(b, offset)[k] = IF k <= offset THEN Pad ELSE Plus(b, k - 1)
<1>1. b \in Nat /\ b + BlockSize <= Ring /\ BlockSize \in Nat /\ Ring \in Nat
  BY BlockIs, RingIs
<1>2. ASSUME NEW k \in 1 .. BlockSize PROVE Plus(b, k - 1) = b + k - 1
  <2>1. k - 1 \in Nat /\ b + (k - 1) < Ring /\ b + (k - 1) = b + k - 1
    BY <1>1
  <2> QED BY <1>1, <2>1, PlusSmall
<1>3. \A k \in 1 .. BlockSize : (IF k <= offset THEN Pad ELSE b + k - 1) \in Int
  BY <1>1 DEF Pad
<1>4. Shifted(b, offset) \in Seq(Int) /\ Len(Shifted(b, offset)) = BlockSize
  BY <1>1, <1>3 DEF Shifted
<1> QED BY <1>2, <1>4 DEF Shifted

(* The first block of a path, without the padding in front. *)
LEMMA Stripped ==
  ASSUME NEW a \in Byte, a \notin code.low
  PROVE  LET offset == a - Aligned(a)
         IN Strip(Shifted(Aligned(a), offset)) = Bytes(a, BlockSize - offset)
<1> DEFINE b == Aligned(a)
           offset == a - b
           s == Shifted(b, offset)
<1>1. b \in IAddr /\ b \in Nat /\ offset \in 0 .. BlockSize - 1 /\ BlockSize \in Nat /\ a \in Nat
  BY AlignedIs, ByteIs, RingIs, Zenon
<1>2. a = b + offset /\ offset \in Nat /\ offset < BlockSize
  BY <1>1
<1> HIDE DEF b, offset
<1>3. /\ s \in Seq(Int) /\ Len(s) = BlockSize
      /\ \A k \in 1 .. BlockSize : s[k] = IF k <= offset THEN Pad ELSE Plus(b, k - 1)
  BY <1>1, ShiftedIs
<1>4. \A k \in 1 .. BlockSize : k > offset => s[k] \in Byte /\ s[k] # Pad
  <2> SUFFICES ASSUME NEW k \in 1 .. BlockSize, k > offset PROVE s[k] \in Byte /\ s[k] # Pad
    OBVIOUS
  <2>1. ~(k <= offset) /\ k - 1 \in Nat
    BY <1>1, <1>2
  <2>2. s[k] = Plus(b, k - 1)
    BY <1>3, <2>1
  <2>3. s[k] \in Byte
    BY <1>1, <2>1, <2>2, PlusIs
  <2>4. -1 \notin Byte
    BY RingIs
  <2> QED BY <2>3, <2>4 DEF Pad
<1>5. \A k \in 1 .. offset : s[k] = Pad
  BY <1>1, <1>2, <1>3
<1> HIDE DEF s
<1> DEFINE First(n) == /\ \A k \in 1 .. n : s[k] = Pad
                       /\ (n = Len(s) \/ s[n + 1] # Pad)
           front == CHOOSE n \in 0 .. Len(s) : First(n)
           t == SubSeq(s, front + 1, Len(s))
<1>6. offset \in 0 .. Len(s) /\ First(offset)
  BY <1>1, <1>2, <1>3, <1>4, <1>5
<1>7. ASSUME NEW n \in 0 .. Len(s), First(n) PROVE n = offset
  <2>1. CASE n < offset
    <3>1. n + 1 \in 1 .. offset /\ n # Len(s)
      BY <1>1, <1>2, <1>3, <2>1
    <3> QED BY <1>5, <1>7, <3>1
  <2>2. CASE n > offset
    <3>1. offset + 1 \in 1 .. n /\ offset + 1 \in 1 .. BlockSize /\ offset + 1 > offset
      BY <1>1, <1>2, <1>3, <2>2
    <3> QED BY <1>4, <1>7, <3>1
  <2> QED BY <1>2, <1>3, <2>1, <2>2
<1>8. front \in 0 .. Len(s) /\ First(front)
  <2> HIDE DEF First
  <2> QED BY <1>6
<1> HIDE DEF front
<1>9. front = offset
  BY <1>7, <1>8
<1>10. /\ t \in Seq(Int) /\ Len(t) = BlockSize - offset
       /\ \A k \in 1 .. BlockSize - offset : t[k] = s[offset + k]
  BY <1>2, <1>3, <1>9
<1>11. ASSUME NEW k \in 1 .. BlockSize - offset PROVE t[k] = Plus(a, k - 1)
  <2>1. offset + k \in 1 .. BlockSize /\ ~(offset + k <= offset) /\ (offset + k) - 1 = offset + (k - 1)
        /\ k - 1 \in Nat
    BY <1>1, <1>2
  <2>2. t[k] = Plus(b, offset + (k - 1))
    BY <1>3, <1>10, <2>1
  <2>3. Plus(b, offset) = a
    <3>1. b + offset < Ring
      BY <1>2, ByteIs
    <3> QED BY <1>1, <1>2, <3>1, PlusSmall
  <2>4. Plus(Plus(b, offset), k - 1) = Plus(b, offset + (k - 1))
    BY <1>1, <1>2, <2>1, PlusPlus
  <2> QED BY <2>2, <2>3, <2>4
<1> HIDE DEF t
<1>12. t = Bytes(a, BlockSize - offset)
  BY <1>10, <1>11, SameBytes
<1>13. t # <<>> /\ Head(t) = a
  <2>1. 1 \in 1 .. BlockSize - offset /\ 1 - 1 = 0
    BY <1>1, <1>2
  <2>2. t[1] = Plus(a, 0) /\ Len(t) # 0
    BY <1>2, <1>10, <1>11, <2>1
  <2>3. Plus(a, 0) = a
    BY <1>1, RingIs, PlusSmall
  <2> QED BY <1>10, <2>2, <2>3
<1>14. Strip(s) = t
  BY <1>13 DEF Strip, t, front, First
<1> QED BY <1>12, <1>14 DEF s, offset, b

(* A leftover and the block behind it. *)
LEMMA Continued ==
  ASSUME NEW a \in Byte, NEW n \in Nat, Plus(a, n) \in IAddr
  PROVE  Bytes(a, n) \o Shifted(Plus(a, n), 0) = Bytes(a, n + BlockSize)
<1> DEFINE r == Bytes(a, n)
           b == Plus(a, n)
           s == Shifted(b, 0)
           t == r \o s
<1>1. r \in Seq(Int) /\ Len(r) = n /\ \A k \in 1 .. n : r[k] = Plus(a, k - 1)
  BY BytesAre
<1>2. BlockSize \in Nat /\ BlockSize > 0 /\ a \in Nat
  BY ByteIs, RingIs
<1>3. /\ s \in Seq(Int) /\ Len(s) = BlockSize
      /\ \A k \in 1 .. BlockSize : s[k] = Plus(b, k - 1)
  <2>1. 0 \in 0 .. BlockSize - 1
    BY <1>2
  <2>2. /\ s \in Seq(Int) /\ Len(s) = BlockSize
        /\ \A k \in 1 .. BlockSize : s[k] = IF k <= 0 THEN Pad ELSE Plus(b, k - 1)
    BY <2>1, ShiftedIs
  <2> QED BY <2>2
<1> HIDE DEF r, s
<1>5. /\ t \in Seq(Int) /\ Len(t) = n + BlockSize
      /\ \A k \in 1 .. n + BlockSize : t[k] = IF k <= n THEN r[k] ELSE s[k - n]
  BY <1>1, <1>3, JoinedInts
<1> HIDE DEF t
<1>6. ASSUME NEW k \in 1 .. n + BlockSize PROVE t[k] = Plus(a, k - 1)
  <2>1. CASE k <= n
    <3>1. k \in 1 .. n
      BY <2>1, <1>2
    <3> QED BY <1>1, <1>5, <2>1, <3>1
  <2>2. CASE ~(k <= n)
    <3>1. k - n \in 1 .. BlockSize /\ (k - n) - 1 \in Nat /\ n + ((k - n) - 1) = k - 1
      BY <2>2, <1>2
    <3>2. t[k] = Plus(b, (k - n) - 1)
      BY <1>3, <1>5, <2>2, <3>1
    <3> HIDE DEF b
    <3>3. Plus(Plus(a, n), (k - n) - 1) = Plus(a, n + ((k - n) - 1))
      BY <1>2, <3>1, PlusPlus
    <3> QED BY <3>1, <3>2, <3>3 DEF b
  <2> QED BY <2>1, <2>2
<1>7. t = Bytes(a, Len(t))
  BY <1>5, <1>6, SameBytes
<1> QED BY <1>5, <1>7 DEF t, r, s

(* The addresses of straight-line code. *)
LEMMA LineIs ==
  ASSUME code \in Codes, NEW a \in Byte, NEW n \in Nat
  PROVE  /\ StraightLine(a, n)[0] = a
         /\ \A k \in 1 .. n :
              StraightLine(a, n)[k] = Plus(StraightLine(a, n)[k - 1],
                                           code.len[StraightLine(a, n)[k - 1]])
         /\ \A k \in 0 .. n : StraightLine(a, n)[k] \in Byte
<1> DEFINE step == [b \in Byte |-> Plus(b, code.len[b])]
           line == StraightLine(a, n)
<1>1. \A b \in Byte : code.len[b] \in Nat /\ b \in Nat
  <2>1. code.len \in [Byte -> 1 .. BlockSize] /\ BlockSize \in Nat
    BY CodesAssumption, RingIs
  <2> QED BY <2>1, ByteIs
<1>2. \A b \in Byte : Plus(b, code.len[b]) \in Byte
  BY <1>1, PlusIs
<1>3. step \in [Byte -> Byte]
  BY <1>2
<1>4. PICK g : Iterates(Byte, a, step, n, g)
  <2> HIDE DEF step
  <2> QED BY <1>3, Iterated
<1>5. \A k \in 0 .. n : k # 0 => k - 1 \in 0 .. n
  OBVIOUS
<1>6. g = [k \in 0 .. n |-> IF k = 0 THEN a ELSE Plus(g[k - 1], code.len[g[k - 1]])]
  BY <1>4, <1>5 DEF Iterates
<1>7. \E f : f = [k \in 0 .. n |-> IF k = 0 THEN a ELSE Plus(f[k - 1], code.len[f[k - 1]])]
  BY <1>6
<1>8. line = [k \in 0 .. n |-> IF k = 0 THEN a ELSE Plus(line[k - 1], code.len[line[k - 1]])]
  BY <1>7, Zenon DEF StraightLine
<1> HIDE DEF line
<1>9. line[0] = a /\ \A k \in 1 .. n : line[k] = Plus(line[k - 1], code.len[line[k - 1]])
  BY <1>8
<1> DEFINE T == {k \in 0 .. n : line[k] \in Byte}
<1>10. 0 \in T
  BY <1>9
<1>11. \A k \in 0 + 1 .. n : k - 1 \in T => k \in T
  BY <1>2, <1>9
<1>12. \A k \in 0 .. n : k \in T
  <2> HIDE DEF T
  <2> QED BY <1>10, <1>11, UpTo
<1> QED BY <1>9, <1>12 DEF line

(* How far the decoder gets with the instruction at byte p of n. *)
NextEnd(a, n) ==
  [p \in 0 .. n |-> IF p < n /\ p + code.len[Plus(a, p)] <= n
                    THEN p + code.len[Plus(a, p)] ELSE p]

(* It advances by one instruction or not at all. *)
LEMMA NextEndIs ==
  ASSUME code \in Codes, NEW a \in Byte, NEW n \in Nat, NEW p \in 0 .. n
  PROVE  /\ Plus(a, p) \in Byte /\ code.len[Plus(a, p)] \in Nat /\ code.len[Plus(a, p)] > 0
         /\ NextEnd(a, n)[p] \in {p, p + code.len[Plus(a, p)]}
         /\ NextEnd(a, n)[p] \in 0 .. n
<1>1. Plus(a, p) \in Byte
  BY ByteIs, PlusIs
<1>2. code.len \in [Byte -> 1 .. BlockSize] /\ BlockSize \in Nat
  BY CodesAssumption, RingIs
<1> DEFINE l == code.len[Plus(a, p)]
<1>3. l \in Nat /\ l > 0
  BY <1>1, <1>2
<1>4. NextEnd(a, n)[p] = IF p < n /\ p + l <= n THEN p + l ELSE p
  BY DEF NextEnd
<1> HIDE DEF l
<1>5. NextEnd(a, n)[p] \in {p, p + l} /\ NextEnd(a, n)[p] \in 0 .. n
  BY <1>3, <1>4
<1> QED BY <1>1, <1>3, <1>5 DEF l

(* The recursion in Ends is that of NextEnd. *)
LEMMA EndsAre ==
  ASSUME code \in Codes, NEW a \in Byte, NEW n \in Nat
  PROVE  Iterates(0 .. n, 0, NextEnd(a, n), n, Ends(Bytes(a, n)))
<1> DEFINE s == Bytes(a, n)
           end == Ends(s)
           step == NextEnd(a, n)
<1>1. Len(s) = n /\ \A k \in 1 .. n : s[k] = Plus(a, k - 1)
  BY BytesAre
<1>2. step \in [0 .. n -> 0 .. n]
  <2>1. \A p \in 0 .. n : step[p] \in 0 .. n
    BY NextEndIs
  <2> QED BY <2>1 DEF NextEnd
<1>3. ASSUME NEW p \in 0 .. n
      PROVE  step[p] = IF p < Len(s) /\ p + Length(s[p + 1]) <= Len(s)
                       THEN p + Length(s[p + 1]) ELSE p
  <2>1. CASE p < n
    <3>1. p + 1 \in 1 .. n /\ (p + 1) - 1 = p
      BY <2>1
    <3>2. s[p + 1] = Plus(a, p) /\ Plus(a, p) \in Byte
      BY <1>1, <3>1, NextEndIs
    <3>3. Length(s[p + 1]) = code.len[Plus(a, p)]
      BY <3>2 DEF Length
    <3> QED BY <1>1, <3>3 DEF NextEnd
  <2>2. CASE ~(p < n)
    BY <1>1, <2>2 DEF NextEnd
  <2> QED BY <2>1, <2>2
<1>4. 0 \in 0 .. n
  OBVIOUS
<1> HIDE DEF s, step
<1>5. PICK g : Iterates(0 .. n, 0, step, n, g)
  BY <1>2, <1>4, Iterated
<1>6. \A k \in 0 .. n : k # 0 => k - 1 \in 0 .. n
  OBVIOUS
<1>7. ASSUME NEW k \in 0 .. n
      PROVE  g[k] = IF k = 0 THEN 0
                    ELSE LET p == g[k - 1]
                         IN IF p < Len(s) /\ p + Length(s[p + 1]) <= Len(s)
                            THEN p + Length(s[p + 1]) ELSE p
  <2>1. g[k] = IF k = 0 THEN 0 ELSE step[g[k - 1]]
    BY <1>5 DEF Iterates
  <2>2. k # 0 => g[k - 1] \in 0 .. n
    BY <1>5, <1>6 DEF Iterates
  <2>3. CASE k = 0
    BY <2>1, <2>3
  <2>4. CASE k # 0
    BY <1>3, <2>1, <2>2, <2>4
  <2> QED BY <2>3, <2>4
<1>8. g = [k \in 0 .. Len(s) |->
             IF k = 0 THEN 0
             ELSE LET p == g[k - 1]
                  IN IF p < Len(s) /\ p + Length(s[p + 1]) <= Len(s)
                     THEN p + Length(s[p + 1]) ELSE p]
  <2>1. g = [k \in 0 .. n |-> IF k = 0 THEN 0 ELSE step[g[k - 1]]]
    BY <1>5 DEF Iterates
  <2>2. g = [k \in 0 .. n |-> g[k]]
    BY <2>1
  <2>3. Len(s) = n
    BY <1>1
  <2> QED BY <1>7, <2>2, <2>3
<1>9. end = [k \in 0 .. Len(s) |->
               IF k = 0 THEN 0
               ELSE LET p == end[k - 1]
                    IN IF p < Len(s) /\ p + Length(s[p + 1]) <= Len(s)
                       THEN p + Length(s[p + 1]) ELSE p]
  BY <1>8, Zenon DEF Ends
<1> HIDE DEF end
<1> DEFINE T == {k \in 0 .. n : end[k] \in 0 .. n}
<1>10. end[0] = 0 /\ 0 \in T
  BY <1>1, <1>9
<1>11. ASSUME NEW k \in 1 .. n, end[k - 1] \in 0 .. n
       PROVE  end[k] = step[end[k - 1]]
  <2>1. k \in 0 .. Len(s) /\ k # 0
    BY <1>1
  <2>2. end[k] = LET p == end[k - 1]
                 IN IF p < Len(s) /\ p + Length(s[p + 1]) <= Len(s)
                    THEN p + Length(s[p + 1]) ELSE p
    BY <1>9, <2>1
  <2> QED BY <1>3, <1>11, <2>2
<1>12. \A k \in 0 + 1 .. n : k - 1 \in T => k \in T
  <2> SUFFICES ASSUME NEW k \in 1 .. n, end[k - 1] \in 0 .. n PROVE end[k] \in 0 .. n
    OBVIOUS
  <2> QED BY <1>2, <1>11
<1>13. \A k \in 0 .. n : k \in T
  <2> HIDE DEF T
  <2> QED BY <1>10, <1>12, UpTo
<1>14. \A k \in 0 .. n : end[k] \in 0 .. n /\ end[k] = IF k = 0 THEN 0 ELSE step[end[k - 1]]
  BY <1>6, <1>10, <1>11, <1>13
<1>15. end = [k \in 0 .. n |-> IF k = 0 THEN 0 ELSE step[end[k - 1]]]
  <2>1. end = [k \in 0 .. n |-> end[k]]
    <3>1. DOMAIN end = 0 .. n
      BY <1>1, <1>9
    <3>2. end = [k \in DOMAIN end |-> end[k]]
      BY <1>9
    <3> QED BY <3>1, <3>2
  <2> QED BY <1>14, <2>1
<1> QED BY <1>14, <1>15 DEF Iterates, end, s, step

(* The cuts the decoder makes, up to the instruction that is not complete.  *)
LEMMA Cuts ==
  ASSUME code \in Codes, NEW a \in Byte, NEW n \in Nat
  PROVE  LET end == Ends(Bytes(a, n))
             count == Cardinality({k \in 1 .. n : end[k] # end[k - 1]})
         IN /\ count \in 0 .. n
            /\ \A k \in 0 .. n : end[k] \in 0 .. n
            /\ end[0] = 0 /\ end[count] = end[n]
            /\ \A k \in 1 .. count :
                 end[k] = end[k - 1] + code.len[Plus(a, end[k - 1])]
<1> DEFINE end == Ends(Bytes(a, n))
           step == NextEnd(a, n)
           Cut == {k \in 1 .. n : end[k] # end[k - 1]}
           T == {k \in 0 .. n : k = n \/ end[k + 1] = end[k]}
<1>1. Iterates(0 .. n, 0, step, n, end)
  BY EndsAre
<1> HIDE DEF end, step
<1>2. /\ end[0] = 0 /\ \A k \in 0 .. n : end[k] \in 0 .. n
      /\ \A k \in 1 .. n : end[k] = step[end[k - 1]] /\ k - 1 \in 0 .. n
  <2>1. /\ end = [k \in 0 .. n |-> IF k = 0 THEN 0 ELSE step[end[k - 1]]]
        /\ \A k \in 0 .. n : end[k] \in 0 .. n
    BY <1>1 DEF Iterates
  <2>2. 0 \in 0 .. n
    OBVIOUS
  <2>3. end[0] = 0
    BY <2>1, <2>2
  <2>4. ASSUME NEW k \in 1 .. n PROVE end[k] = step[end[k - 1]] /\ k - 1 \in 0 .. n
    <3>1. k \in 0 .. n /\ k # 0 /\ k - 1 \in 0 .. n
      OBVIOUS
    <3> QED BY <2>1, <3>1
  <2> QED BY <2>1, <2>3, <2>4
<1>3. T \subseteq Nat /\ n \in T
  OBVIOUS
<1>4. PICK c \in T : \A k \in T : c <= k
  <2> HIDE DEF T
  <2> QED BY <1>3, LeastMember
<1>5. c \in 0 .. n /\ (c = n \/ end[c + 1] = end[c])
  OBVIOUS
<1>6. \A k \in 1 .. c : end[k] # end[k - 1]
  <2> SUFFICES ASSUME NEW k \in 1 .. c, end[k] = end[k - 1] PROVE FALSE
    OBVIOUS
  <2>1. k - 1 \in 0 .. n /\ (k - 1) + 1 = k /\ k - 1 < c
    BY <1>5
  <2>2. k - 1 \in T
    BY <2>1
  <2> HIDE DEF T
  <2>3. c <= k - 1
    BY <1>4, <2>2
  <2> QED BY <1>5, <2>1, <2>3
<1> HIDE DEF T
<1>7. \A k \in c .. n : end[k] = end[c]
  <2> DEFINE U == {k \in c .. n : end[k] = end[c]}
  <2>1. c \in U /\ c \in Nat
    BY <1>5
  <2>2. ASSUME NEW k \in c + 1 .. n, k - 1 \in U PROVE k \in U
    <3>1. k \in c .. n /\ end[k - 1] = end[c] /\ k \in 1 .. n
      BY <1>5, <2>2
    <3>2. CASE k = c + 1
      <4>1. c # n
        BY <1>5, <3>2
      <4> QED BY <1>5, <3>1, <3>2, <4>1
    <3>3. CASE k # c + 1
      <4>1. k - 1 \in 1 .. n /\ c + 1 \in 1 .. n /\ (c + 1) - 1 = c /\ c # n
        BY <1>5, <3>1, <3>3
      <4>2. end[k] = step[end[k - 1]] /\ end[c + 1] = step[end[(c + 1) - 1]]
        BY <1>2, <3>1, <4>1
      <4>3. end[k] = end[c]
        BY <1>5, <3>1, <4>1, <4>2
      <4> QED BY <3>1, <4>3
    <3> QED BY <3>2, <3>3
  <2> HIDE DEF U
  <2>3. \A k \in c .. n : k \in U
    BY <2>1, <2>2, UpTo
  <2> QED BY <2>3 DEF U
<1>8. Cut = 1 .. c
  <2>1. ASSUME NEW k \in 1 .. n PROVE end[k] # end[k - 1] <=> k <= c
    <3>1. CASE k <= c
      <4>1. k \in 1 .. c
        BY <1>5, <3>1
      <4> QED BY <1>6, <3>1, <4>1
    <3>2. CASE k > c
      <4>1. k \in c .. n /\ k - 1 \in c .. n
        BY <1>5, <3>2
      <4>2. end[k] = end[c] /\ end[k - 1] = end[c]
        BY <1>7, <4>1
      <4>3. ~(k <= c)
        BY <1>5, <3>2
      <4> QED BY <4>2, <4>3
    <3> QED BY <1>5, <3>1, <3>2
  <2> QED BY <1>5, <2>1
<1>9. Cardinality(Cut) = c
  <2>1. Cardinality(1 .. c) = IF 1 > c THEN 0 ELSE c - 1 + 1
    BY <1>5, FS_Interval
  <2>2. Cardinality(1 .. c) = c
    BY <1>5, <2>1
  <2> HIDE DEF Cut
  <2> QED BY <1>8, <2>2
<1>10. end[c] = end[n]
  <2>1. n \in c .. n
    BY <1>5
  <2> QED BY <1>7, <2>1
<1>11. ASSUME NEW k \in 1 .. c PROVE end[k] = end[k - 1] + code.len[Plus(a, end[k - 1])]
  <2>1. k \in 1 .. n
    BY <1>5
  <2>2. end[k] # end[k - 1] /\ end[k] = step[end[k - 1]] /\ end[k - 1] \in 0 .. n
    BY <1>2, <1>6, <2>1
  <2>3. step[end[k - 1]] \in {end[k - 1], end[k - 1] + code.len[Plus(a, end[k - 1])]}
    BY <2>2, NextEndIs DEF step
  <2> QED BY <2>2, <2>3
<1> HIDE DEF Cut
<1> QED BY <1>2, <1>5, <1>9, <1>10, <1>11 DEF end, Cut

(* Where the n-th instruction of the path begins is where the decoder cuts. *)
LEMMA OnLine ==
  ASSUME code \in Codes, NEW a \in Byte, NEW n \in Nat, NEW end, NEW count \in 0 .. n,
         \A k \in 0 .. n : end[k] \in 0 .. n, end[0] = 0,
         \A k \in 1 .. count : end[k] = end[k - 1] + code.len[Plus(a, end[k - 1])],
         NEW m \in 0 .. count
  PROVE  StraightLine(a, m)[m] = Plus(a, end[m])
<1> DEFINE line == StraightLine(a, m)
           T == {k \in 0 .. m : line[k] = Plus(a, end[k])}
<1>1. /\ line[0] = a
      /\ \A k \in 1 .. m : line[k] = Plus(line[k - 1], code.len[line[k - 1]])
  BY LineIs
<1> HIDE DEF line
<1>2. 0 \in T
  BY <1>1, ByteIs
<1>3. ASSUME NEW k \in 0 + 1 .. m, k - 1 \in T PROVE k \in T
  <2>1. k \in 1 .. m /\ k \in 1 .. count /\ k - 1 \in 0 .. n /\ line[k - 1] = Plus(a, end[k - 1])
    BY <1>3
  <2>2. line[k] = Plus(Plus(a, end[k - 1]), code.len[Plus(a, end[k - 1])])
    BY <1>1, <2>1
  <2>3. end[k - 1] \in Nat /\ a \in Nat /\ end[k - 1] \in 0 .. n
    BY <2>1, ByteIs
  <2>4. code.len[Plus(a, end[k - 1])] \in Nat
    BY <2>3, NextEndIs
  <2>5. line[k] = Plus(a, end[k - 1] + code.len[Plus(a, end[k - 1])])
    BY <2>2, <2>3, <2>4, PlusPlus
  <2>6. line[k] = Plus(a, end[k])
    BY <2>1, <2>5
  <2> QED BY <2>1, <2>6
<1>4. \A k \in 0 .. m : k \in T
  <2> HIDE DEF T
  <2>1. m \in Nat /\ 0 \in Nat
    OBVIOUS
  <2>2. \A k \in 0 + 1 .. m : k - 1 \in T => k \in T
    BY <1>3
  <2> QED BY <1>2, <2>1, <2>2, UpTo
<1>5. m \in 0 .. m
  OBVIOUS
<1> QED BY <1>4, <1>5 DEF line

(* A stream of bytes of the path is cut into the instructions of the path. *)
LEMMA PathDelivered ==
  ASSUME code \in Codes, NEW a \in Byte, NEW n \in Nat
  PROVE  LET s == Bytes(a, n)
             b == Instructions(s, a)
             last == Ends(s)[n]
         IN /\ b \in Seq([addr : Byte, bytes : Seq(Int)])
            /\ \A m \in 1 .. Len(b) : b[m] = Whole(StraightLine(a, m - 1)[m - 1])
            /\ last \in 0 .. n
            /\ StraightLine(a, Len(b))[Len(b)] = Plus(a, last)
            /\ SubSeq(s, last + 1, n) = Bytes(Plus(a, last), n - last)
<1> DEFINE s == Bytes(a, n)
           end == Ends(s)
           count == Cardinality({k \in 1 .. n : end[k] # end[k - 1]})
           b == Instructions(s, a)
<1>1. /\ count \in 0 .. n
      /\ \A k \in 0 .. n : end[k] \in 0 .. n
      /\ end[0] = 0 /\ end[count] = end[n]
      /\ \A k \in 1 .. count : end[k] = end[k - 1] + code.len[Plus(a, end[k - 1])]
  BY Cuts
<1>2. Len(s) = n
  BY BytesAre
<1>3. b = [k \in 1 .. count |-> [addr |-> Plus(a, end[k - 1]),
                                 bytes |-> SubSeq(s, end[k - 1] + 1, end[k])]]
  BY <1>2 DEF Instructions
<1> HIDE DEF end, count, b
<1>0. \A m \in 0 .. count : StraightLine(a, m)[m] = Plus(a, end[m])
  BY <1>1, OnLine, ZenonT(60)
<1>4. ASSUME NEW k \in 1 .. count
      PROVE  /\ Plus(a, end[k - 1]) \in Byte
             /\ SubSeq(s, end[k - 1] + 1, end[k]) \in Seq(Int)
             /\ SubSeq(s, end[k - 1] + 1, end[k])
                  = [i \in 1 .. code.len[Plus(a, end[k - 1])] |-> Plus(Plus(a, end[k - 1]), i - 1)]
             /\ StraightLine(a, k - 1)[k - 1] = Plus(a, end[k - 1])
  <2>1. k - 1 \in 0 .. n /\ k \in 0 .. n /\ k - 1 \in 0 .. count
    BY <1>1
  <2>2. end[k - 1] \in 0 .. n /\ end[k] \in 0 .. n
    BY <1>1, <2>1
  <2>3. /\ Plus(a, end[k - 1]) \in Byte /\ code.len[Plus(a, end[k - 1])] \in Nat
    BY <2>2, NextEndIs
  <2>4. end[k] = end[k - 1] + code.len[Plus(a, end[k - 1])]
    BY <1>1
  <2>5. end[k - 1] \in Nat /\ end[k] \in Nat /\ end[k - 1] <= end[k] /\ end[k] <= n
        /\ end[k] - end[k - 1] = code.len[Plus(a, end[k - 1])]
    BY <2>2, <2>3, <2>4
  <2>6. SubSeq(s, end[k - 1] + 1, end[k]) = Bytes(Plus(a, end[k - 1]), end[k] - end[k - 1])
    BY <2>5, BytesPiece
  <2>7. Bytes(Plus(a, end[k - 1]), code.len[Plus(a, end[k - 1])]) \in Seq(Int)
    BY <2>3, BytesAre
  <2>8. StraightLine(a, k - 1)[k - 1] = Plus(a, end[k - 1])
    BY <1>0, <2>1
  <2> QED BY <2>3, <2>5, <2>6, <2>7, <2>8 DEF Bytes
<1>5. b \in Seq([addr : Byte, bytes : Seq(Int)]) /\ Len(b) = count
  BY <1>1, <1>3, <1>4
<1>6. ASSUME NEW m \in 1 .. count PROVE b[m] = Whole(StraightLine(a, m - 1)[m - 1])
  <2>1. b[m] = [addr |-> Plus(a, end[m - 1]), bytes |-> SubSeq(s, end[m - 1] + 1, end[m])]
    BY <1>3
  <2> QED BY <1>4, <2>1 DEF Whole
<1>7. StraightLine(a, count)[count] = Plus(a, end[n])
  <2>1. count \in 0 .. count
    BY <1>1
  <2>2. StraightLine(a, count)[count] = Plus(a, end[count])
    BY <1>0, <2>1
  <2> QED BY <1>1, <2>2
<1>8. end[n] \in 0 .. n /\ end[n] \in Nat /\ end[n] <= n
  BY <1>1
<1>9. SubSeq(s, end[n] + 1, n) = Bytes(Plus(a, end[n]), n - end[n])
  BY <1>8, BytesPiece
<1> QED BY <1>5, <1>6, <1>7, <1>8, <1>9 DEF end, b

-----------------------------------------------------------------------------
(* The next block is the first of a path. *)
Fresh == first_run \/ RIP_jump

(* The byte behind those that have been decoded or are left over. *)
Awaited == IF Fresh THEN pc ELSE Plus(pc, Len(rem_string))

(* Who may have done what when.  A redirect has one target, and none comes *)
(* before the first instruction.                                           *)
StartInv ==
  /\ code \in Codes
  /\ redirect = {} \/ \E t \in Byte : redirect = {t}
  /\ "ready" \in DOMAIN fd
  /\ first_run => ~RIP_jump /\ rem_string = <<>> /\ redirect = {} /\ ~started /\ batch = <<>>
  /\ firstRunFlag => /\ first_run /\ ~fd.ready /\ pc \in Byte
                     /\ "core" \in resets \/ RIP = pc
  /\ firstRunFlag \/ resets = {}

(* The decoder's side: the bytes left over are those from pc on, and they  *)
(* end with a block.                                                       *)
DecoderInv ==
  /\ pc \in Byte
  /\ IF Fresh THEN pc \notin code.low
     ELSE /\ last_good_addr = pc
          /\ Len(rem_string) \in Nat /\ rem_string = Bytes(pc, Len(rem_string))
          /\ Awaited \in IAddr

(* Fetch's side: the block on the port is the one with the byte that is    *)
(* awaited, or it is the one asked for.                                    *)
FetchInv ==
  IF fd.ready
  THEN /\ fd.addr = Aligned(Awaited) /\ fd.align = Awaited - Aligned(Awaited)
       /\ fd.data = Shifted(fd.addr, fd.align)
       /\ RIP = Plus(fd.addr, BlockSize) /\ prev_tag = RIP
  ELSE RIP = Awaited /\ prev_tag = RIP

PathInv ==
  intact /\ redirect = {} => DecoderInv /\ (firstRunFlag \/ FetchInv)

FrontInv == StartInv /\ PathInv

(* The invariant holds at first. *)
LEMMA FrontInvInit == ASSUME FrontInit PROVE FrontInv
<1>1. pc \in Byte
  BY TargetsAssumption DEF FrontInit
<1>2. StartInv
  BY <1>1 DEF FrontInit, FetchInit, DecoderInit, StartInv
<1>3. firstRunFlag /\ first_run /\ (intact => pc \notin code.low)
  BY DEF FrontInit, FetchInit, DecoderInit
<1>4. PathInv
  BY <1>1, <1>3 DEF PathInv, DecoderInv, Fresh
<1> QED BY <1>2, <1>4 DEF FrontInv

(* A reset keeps it. *)
LEMMA FrontResetKeeps == ASSUME FrontInv, FrontReset PROVE FrontInv'
<1> USE DEF FrontInv, FrontReset, CoreReset, FetchReset, DispatchReset, ResetBy
<1>1. /\ UNCHANGED <<redirect, fd, prev_tag, firstRunFlag, RIP_jump, decoderVars, started, pc, intact>>
      /\ firstRunFlag /\ resets' \subseteq resets
  BY DEF StartInv
<1>2. "core" \in resets' \/ RIP' = pc
  BY DEF StartInv
<1>3. StartInv'
  BY <1>1, <1>2 DEF StartInv, decoderVars
<1>4. PathInv'
  BY <1>1 DEF PathInv, DecoderInv, Fresh, Awaited, decoderVars
<1> QED BY <1>3, <1>4

(* It depends on nothing else. *)
LEMMA FrontStutterKeeps == ASSUME FrontInv, UNCHANGED frontVars PROVE FrontInv'
<1> USE DEF frontVars, fetchVars, decoderVars
<1>1. StartInv'
  BY DEF FrontInv, StartInv
<1>2. PathInv'
  <2>1. PathInv
    BY DEF FrontInv
  <2>2. Fresh' = Fresh /\ Awaited' = Awaited
    BY DEF Fresh, Awaited
  <2>3. DecoderInv' = DecoderInv
    BY <2>2 DEF DecoderInv
  <2>4. FetchInv' = FetchInv
    BY <2>2 DEF FetchInv
  <2> QED BY <2>1, <2>3, <2>4 DEF PathInv
<1> QED BY <1>1, <1>2 DEF FrontInv

(* The structure that all of it rests on. *)
LEMMA CycleStarts == ASSUME StartInv, FrontCycle PROVE StartInv'
<1>1. resets = {} /\ resets' = {} /\ code' = code
  BY DEF FrontCycle, FetchWork, DecoderWork, Decode, NoDecode
<1>2. redirect' = {} \/ \E t \in Byte : redirect' = {t}
  BY TargetsAssumption DEF FrontCycle, ExecuteRedirects
<1>3. "ready" \in DOMAIN fd' /\ (firstRunFlag' => firstRunFlag)
  <2>1. CASE \E t \in redirect : Restart(t)
    <3>1. PICK t \in redirect : Restart(t)
      BY <2>1
    <3>2. DOMAIN fd' = DOMAIN fd /\ firstRunFlag' = firstRunFlag
      BY <3>1 DEF Restart
    <3> QED BY <3>2 DEF StartInv
  <2>2. CASE FirstRequest \/ KeepWaiting
    <3>1. DOMAIN fd' = DOMAIN fd /\ (firstRunFlag' => firstRunFlag)
      BY <2>2 DEF FirstRequest, KeepWaiting
    <3> QED BY <3>1 DEF StartInv
  <2>3. CASE AcceptBlock
    BY <2>3 DEF AcceptBlock
  <2> QED BY <2>1, <2>2, <2>3 DEF FrontCycle, FetchWork
<1>4. ~firstRunFlag'
  <2>1. CASE redirect = {}
    BY <2>1 DEF FrontCycle, FetchWork, FirstRequest, AcceptBlock, KeepWaiting
  <2>2. CASE redirect # {}
    BY <1>3, <2>2 DEF StartInv
  <2> QED BY <2>1, <2>2
<1>5. ASSUME first_run'
      PROVE  ~RIP_jump' /\ rem_string' = <<>> /\ redirect' = {} /\ ~started' /\ batch' = <<>>
  <2>1. NoDecode /\ first_run
    BY <1>5 DEF FrontCycle, DecoderWork, Decode, NoDecode
  <2>2. batch' = <<>> /\ redirect = {} /\ ~started /\ ~RIP_jump /\ rem_string = <<>>
    BY <2>1 DEF NoDecode, StartInv
  <2> QED BY <2>1, <2>2 DEF FrontCycle, ExecuteRedirects, NoDecode
<1> QED BY <1>1, <1>2, <1>3, <1>4, <1>5 DEF StartInv

(* A redirect: both sides begin anew at the target. *)
LEMMA RestartKeeps ==
  ASSUME StartInv, FrontCycle, NEW t \in Byte, redirect = {t}
  PROVE  PathInv'
<1>1. /\ pc' = t /\ (intact' => t \notin code.low) /\ code' = code
      /\ RIP_jump' /\ RIP' = t /\ prev_tag' = t /\ ~fd'.ready
  BY DEF StartInv, FrontCycle, FetchWork, Restart, FirstRequest, AcceptBlock, KeepWaiting,
         DecoderWork, Decode, NoDecode, Follow
<1> QED BY <1>1 DEF PathInv, DecoderInv, FetchInv, Fresh, Awaited

(* What Fetch does otherwise: it goes to the next block once the one it    *)
(* asked for is there.                                                     *)
LEMMA FetchStep ==
  ASSUME StartInv, FrontCycle, redirect = {}
  PROVE  /\ firstRunFlag => RIP' = RIP /\ prev_tag' = RIP /\ ~fd'.ready
         /\ ~firstRunFlag =>
              \/ RIP' = RIP /\ prev_tag' = prev_tag /\ ~fd'.ready
              \/ /\ fd'.ready /\ fd'.addr = Aligned(prev_tag)
                 /\ fd'.align = prev_tag - Aligned(prev_tag)
                 /\ fd'.data = Shifted(fd'.addr, fd'.align)
                 /\ RIP' = Plus(Aligned(RIP), BlockSize) /\ prev_tag' = RIP'
<1>1. CASE FirstRequest
  BY <1>1 DEF FirstRequest, StartInv
<1>2. CASE KeepWaiting
  BY <1>2 DEF KeepWaiting, StartInv
<1>3. CASE AcceptBlock
  <2>1. ~firstRunFlag /\ i_out.tag = Aligned(prev_tag)
    BY <1>3 DEF AcceptBlock, Wanted
  <2> QED BY <1>3, <2>1 DEF AcceptBlock
<1> QED BY <1>1, <1>2, <1>3 DEF FrontCycle, FetchWork, Restart

(* A cycle without a block for the decoder. *)
LEMMA IdleKeeps ==
  ASSUME FrontInv, FrontCycle, redirect = {}, intact', redirect' = {}, NoDecode
  PROVE  PathInv'
<1>1. intact /\ StartInv /\ DecoderInv /\ (firstRunFlag \/ FetchInv) /\ ~fd.ready
  BY DEF FrontInv, PathInv, FrontCycle, Follow, NoDecode
<1>2. /\ batch' = <<>> /\ (RIP_jump' <=> RIP_jump)
      /\ UNCHANGED <<code, first_run, rem_string, last_good_addr>>
  BY DEF NoDecode
<1>3. pc' = pc
  <2>0. Len(batch') = 0
    BY <1>2
  <2>1. pc' = StraightLine(pc, 0)[0]
    BY <2>0 DEF FrontCycle, Follow
  <2> QED BY <1>1, <2>1, LineIs DEF StartInv, DecoderInv
<1>4. (Fresh' <=> Fresh) /\ Awaited' = Awaited
  BY <1>2, <1>3 DEF Fresh, Awaited
<1>5. DecoderInv'
  BY <1>1, <1>2, <1>3, <1>4 DEF DecoderInv
<1>6. Awaited \in Byte
  BY <1>1, BlockIs DEF DecoderInv, Awaited
<1>7. RIP = Awaited /\ (~firstRunFlag => prev_tag = RIP)
  <2>1. CASE firstRunFlag
    BY <1>1, <2>1 DEF StartInv, FrontCycle, Awaited, Fresh
  <2>2. CASE ~firstRunFlag
    BY <1>1, <2>2 DEF FetchInv
  <2> QED BY <2>1, <2>2
<1>8. FetchInv'
  BY <1>1, <1>4, <1>7, FetchStep DEF FetchInv
<1> QED BY <1>5, <1>8 DEF PathInv

(* What the decoder is given: the bytes of the path from pc to the end of  *)
(* the block.                                                              *)
LEMMA StreamIs ==
  ASSUME StartInv, DecoderInv, FetchInv, ~firstRunFlag, fd.ready
  PROVE  \E n \in Nat : /\ Stream = Bytes(pc, n) /\ StreamAddr = pc
                       /\ Plus(pc, n) = RIP /\ RIP \in IAddr
<1> DEFINE b == Aligned(Awaited)
           offset == Awaited - b
<1>1. /\ fd.addr = b /\ fd.align = offset /\ fd.data = Shifted(b, offset)
      /\ RIP = Plus(b, BlockSize)
  BY DEF FetchInv
<1>2. CASE Fresh
  <2>1. Awaited = pc /\ pc \in Byte /\ pc \notin code.low
    BY <1>2 DEF DecoderInv, Awaited
  <2>2. /\ b \in IAddr /\ b \in Nat /\ offset \in 0 .. BlockSize - 1 /\ BlockSize \in Nat
        /\ pc \in Nat
    BY <2>1, AlignedIs, ByteIs, RingIs, Zenon
  <2>3. pc = b + offset /\ offset \in Nat /\ BlockSize - offset \in Nat
    BY <2>1, <2>2
  <2>4. Strip(fd.data) = Bytes(pc, BlockSize - offset)
    BY <1>1, <2>1, Stripped
  <2>5. Bytes(pc, BlockSize - offset) \in Seq(Int)
    BY <2>1, <2>3, BytesAre
  <2> HIDE DEF b, offset
  <2>6. Stream = Bytes(pc, BlockSize - offset)
    <3>1. CASE first_run
      <4>1. ~RIP_jump /\ rem_string = <<>>
        BY <3>1 DEF StartInv
      <4>2. Stream = <<>> \o Strip(fd.data)
        BY <3>1, <4>1 DEF Stream
      <4> QED BY <2>4, <2>5, <4>2
    <3>2. CASE ~first_run
      BY <1>2, <2>4, <3>2 DEF Stream, Fresh
    <3> QED BY <3>1, <3>2
  <2>7. StreamAddr = pc
    <3>1. StreamAddr = Plus(b, offset)
      <4>1. CASE first_run
        BY <1>1, <2>3, <4>1 DEF StreamAddr, StartInv
      <4>2. CASE ~first_run
        BY <1>1, <1>2, <2>3, <4>2 DEF StreamAddr, Fresh
      <4> QED BY <4>1, <4>2
    <3>2. b + offset < Ring
      BY <2>1, <2>3, ByteIs
    <3> QED BY <2>2, <2>3, <3>1, <3>2, PlusSmall
  <2>8. Plus(pc, BlockSize - offset) = Plus(b, BlockSize)
    <3>1. pc + (BlockSize - offset) = b + BlockSize
      BY <2>2, <2>3
    <3> QED BY <3>1 DEF Plus
  <2>9. Plus(b, BlockSize) \in IAddr
    BY <2>2, BlockIs
  <2> QED BY <1>1, <2>3, <2>6, <2>7, <2>8, <2>9
<1>3. CASE ~Fresh
  <2> DEFINE n == Len(rem_string)
  <2>1. /\ pc \in Byte /\ n \in Nat /\ rem_string = Bytes(pc, n) /\ last_good_addr = pc
        /\ Awaited = Plus(pc, n) /\ Plus(pc, n) \in IAddr
    BY <1>3 DEF DecoderInv, Awaited
  <2>2. b = Plus(pc, n) /\ b \in Nat /\ offset = 0 /\ Plus(b, BlockSize) \in IAddr
    BY <2>1, BlockIs
  <2> HIDE DEF b, offset, n
  <2>3. Stream = rem_string \o fd.data /\ StreamAddr = pc
    BY <1>1, <1>3, <2>1, <2>2 DEF Stream, StreamAddr, Fresh
  <2>4. Stream = Bytes(pc, n + BlockSize)
    BY <1>1, <2>1, <2>2, <2>3, Continued
  <2>5. BlockSize \in Nat /\ pc \in Nat /\ n + BlockSize \in Nat
    BY <2>1, ByteIs, RingIs
  <2>6. Plus(pc, n + BlockSize) = RIP
    BY <1>1, <2>1, <2>2, <2>5, PlusPlus
  <2> QED BY <1>1, <2>2, <2>3, <2>4, <2>5, <2>6
<1> QED BY <1>2, <1>3

(* A cycle in which the decoder takes a block. *)
LEMMA DecodeDelivers ==
  ASSUME FrontInv, FrontCycle, Decode, intact
  PROVE  /\ \A n \in DOMAIN batch' : batch'[n] = Whole(StraightLine(pc, n - 1)[n - 1])
         /\ intact' = intact /\ DecoderInv' /\ ~Fresh' /\ Awaited' = RIP
<1>1. /\ StartInv /\ DecoderInv /\ fd.ready /\ redirect = {} /\ ~firstRunFlag /\ FetchInv
  BY DEF FrontInv, PathInv, StartInv, Decode
<1>2. PICK n \in Nat : /\ Stream = Bytes(pc, n) /\ StreamAddr = pc
                       /\ Plus(pc, n) = RIP /\ RIP \in IAddr
  BY <1>1, StreamIs
<1>3. code \in Codes /\ pc \in Byte /\ pc \in Nat
  BY <1>1, ByteIs DEF StartInv, DecoderInv
<1> DEFINE s == Bytes(pc, n)
           b == Instructions(s, pc)
           last == Ends(s)[n]
<1>4. Len(s) = n
  BY <1>3, BytesAre
<1>5. /\ b \in Seq([addr : Byte, bytes : Seq(Int)])
      /\ \A m \in 1 .. Len(b) : b[m] = Whole(StraightLine(pc, m - 1)[m - 1])
      /\ last \in 0 .. n
      /\ StraightLine(pc, Len(b))[Len(b)] = Plus(pc, last)
      /\ SubSeq(s, last + 1, n) = Bytes(Plus(pc, last), n - last)
  BY <1>3, PathDelivered
<1>6. /\ batch' = b /\ rem_string' = SubSeq(s, last + 1, n)
      /\ last_good_addr' = Plus(pc, last)
      /\ ~first_run' /\ ~RIP_jump' /\ code' = code
  BY <1>2, <1>4 DEF Decode
<1> HIDE DEF b, last
<1>7. pc' = Plus(pc, last) /\ intact' = intact
  BY <1>1, <1>5, <1>6 DEF FrontCycle, Follow
<1>8. last \in Nat /\ n - last \in Nat /\ last + (n - last) = n
  BY <1>5
<1>9. Plus(pc, last) \in Byte
  BY <1>3, <1>8, PlusIs
<1>10. rem_string' = Bytes(pc', n - last) /\ Len(rem_string') = n - last
  BY <1>5, <1>6, <1>7, <1>8, <1>9, BytesAre
<1>11. ~Fresh' /\ Awaited' = Plus(pc', n - last)
  BY <1>6, <1>10 DEF Fresh, Awaited
<1>12. Plus(pc', n - last) = RIP
  BY <1>2, <1>3, <1>7, <1>8, PlusPlus
<1>13. DecoderInv'
  BY <1>2, <1>6, <1>7, <1>8, <1>9, <1>10, <1>11, <1>12 DEF DecoderInv
<1>14. DOMAIN batch' = 1 .. Len(b)
  BY <1>5, <1>6
<1> QED BY <1>5, <1>6, <1>7, <1>11, <1>12, <1>13, <1>14

(* A cycle keeps it: a redirect, a cycle without a block, a cycle with one. *)
LEMMA FrontCycleKeeps == ASSUME FrontInv, FrontCycle PROVE FrontInv'
<1>1. StartInv /\ StartInv'
  BY CycleStarts DEF FrontInv
<1>2. CASE redirect # {}
  <2>1. PICK t \in Byte : redirect = {t}
    BY <1>1, <1>2 DEF StartInv
  <2> QED BY <1>1, <2>1, RestartKeeps DEF FrontInv
<1>3. CASE redirect = {} /\ NoDecode
  <2>1. CASE intact' /\ redirect' = {}
    BY <1>1, <1>3, <2>1, IdleKeeps DEF FrontInv
  <2>2. CASE ~(intact' /\ redirect' = {})
    BY <1>1, <2>2 DEF FrontInv, PathInv
  <2> QED BY <2>1, <2>2
<1>4. CASE redirect = {} /\ Decode
  <2>1. CASE intact
    <3>1. DecoderInv' /\ Awaited' = RIP
      BY <1>4, <2>1, DecodeDelivers
    <3>2. ~firstRunFlag /\ prev_tag = RIP
      BY <1>1, <1>4, <2>1 DEF FrontInv, PathInv, FetchInv, StartInv, Decode
    <3>3. FetchInv'
      BY <1>1, <1>4, <3>1, <3>2, FetchStep DEF FetchInv
    <3> QED BY <1>1, <3>1, <3>3 DEF FrontInv, PathInv
  <2>2. CASE ~intact
    <3>1. ~intact'
      BY <1>4, <2>2 DEF FrontCycle, Follow
    <3> QED BY <1>1, <3>1 DEF FrontInv, PathInv
  <2> QED BY <2>1, <2>2
<1> QED BY <1>2, <1>3, <1>4 DEF FrontCycle, DecoderWork, Decode

(* Every step keeps it. *)
LEMMA FrontInvKept == FrontInv /\ [FrontNext]_frontVars => FrontInv'
  BY FrontResetKeeps, FrontCycleKeeps, FrontStutterKeeps DEF FrontNext

(* The inductive invariant of the front end: which block is awaited and    *)
(* which bytes are left over, in fetch.cc:14-109 and decoder.cc:510-673.   *)
THEOREM FrontInvariant == FrontSpec => []FrontInv
  BY FrontInvInit, FrontInvKept, PTL DEF FrontSpec

(* The instructions pushed by decode_opcodes() are those of the path, in   *)
(* order and whole, whatever the code, the targets and the latencies:      *)
(* InOrder, of fetch.cc:14-109 and decoder.cc:510-673.                     *)
THEOREM InOrderCorrect == FrontSpec => InOrder
<1> DEFINE A == intact => \A n \in DOMAIN batch' : batch'[n] = Whole(StraightLine(pc, n - 1)[n - 1])
<1>1. ASSUME FrontInv, FrontReset PROVE A
  <2>1. batch' = <<>>
    BY <1>1 DEF FrontInv, StartInv, FrontReset, CoreReset, FetchReset, DispatchReset, ResetBy,
                decoderVars
  <2> QED BY <2>1
<1>2. ASSUME FrontInv, FrontCycle PROVE A
  <2>1. CASE NoDecode
    BY <2>1 DEF NoDecode
  <2>2. CASE Decode
    BY <1>2, <2>2, DecodeDelivers
  <2> QED BY <1>2, <2>1, <2>2 DEF FrontCycle, DecoderWork
<1>3. FrontInv /\ [FrontNext]_frontVars => [A]_frontVars
  <2> HIDE DEF A
  <2> QED BY <1>1, <1>2 DEF FrontNext
<1> QED BY <1>3, FrontInvInit, FrontInvKept, PTL DEF FrontSpec, InOrder
===============================================================================
