------------------------------ MODULE AluProofs ------------------------------
(***************************************************************************)
(* Every value Execute computes is a word again, for every word size.      *)
(***************************************************************************)
EXTENDS Alu, Induction

(* The powers of two up to the size of a word. *)
LEMMA Powers == \A i \in 0 .. WordBits : 2 ^ i \in Nat \ {0}
<1> DEFINE T == {i \in Nat : 2 ^ i \in Nat \ {0}}
<1>1. 0 \in T
  BY PowerAssumption
<1>2. ASSUME NEW k \in 0 + 1 .. WordBits, k - 1 \in T PROVE k \in T
  <2>1. k - 1 \in 0 .. WordBits - 1 /\ k \in Nat /\ (k - 1) + 1 = k
    BY WordBitsAssumption
  <2>2. 2 ^ k = 2 * 2 ^ (k - 1)
    BY <2>1, PowerAssumption
  <2> QED BY <1>2, <2>1, <2>2
<1>3. \A k \in 0 .. WordBits : k \in T
  <2> HIDE DEF T
  <2> QED BY <1>1, <1>2, WordBitsAssumption, UpTo
<1> QED BY <1>3

(* A word has an even number of values. *)
LEMMA EvenWord == WordMod % 2 = 0
<1>1. WordBits - 1 \in 0 .. WordBits - 1 /\ WordBits - 1 \in 0 .. WordBits
      /\ (WordBits - 1) + 1 = WordBits
  BY WordBitsAssumption
<1>2. 2 ^ WordBits = 2 * 2 ^ (WordBits - 1) /\ 2 ^ (WordBits - 1) \in Nat
  BY <1>1, Powers, PowerAssumption
<1> QED BY <1>2, WordSizeAssumption

ResultType == [value2 : Word, value3 : Word, flags : Flags]

(* What a truncating cast yields is a word. *)
LEMMA TruncWord == ASSUME NEW n \in Int PROVE Trunc(n) \in Word
  BY WordModAssumption DEF Trunc, Word

(* Words read as signed or unsigned integers. *)
LEMMA SignedInt == ASSUME NEW x \in Word PROVE Signed(x) \in Int /\ x \in Int
  BY WordModAssumption DEF Signed, Negative, Word

(* The words Execute's switch writes as constants. *)
LEMMA WordConstants == 0 \in Word /\ WordMod - 1 \in Word /\ WordMod \in Nat /\ WordMod > 0
  BY WordModAssumption DEF Word

(* C++ division of integers is an integer. *)
LEMMA QuotientInt == ASSUME NEW n \in Int, NEW d \in Int, d # 0 PROVE Quotient(n, d) \in Int
<1>1. Magnitude(d) \in Int /\ Magnitude(d) > 0 /\ Magnitude(n) \in Int
  BY DEF Magnitude
<1> QED BY <1>1 DEF Quotient

(* So is its remainder. *)
LEMMA RemainderInt == ASSUME NEW n \in Int, NEW d \in Int, d # 0 PROVE Remainder(n, d) \in Int
  BY QuotientInt DEF Remainder

(* The divisor test of idiv carries over to the signed reading. *)
LEMMA SignedNonzero == ASSUME NEW x \in Word, x # 0 PROVE Signed(x) # 0
  BY WordModAssumption DEF Signed, Negative, Word

(* Said once: the prover does no non-linear arithmetic by itself. *)
LEMMA ProductInt == ASSUME NEW a \in Int, NEW b \in Int PROVE a * b \in Int
  OBVIOUS

-----------------------------------------------------------------------------
(* The multiplications and divisions. *)

(* UD_Imul stores words in both halves, in either branch. *)
LEMMA MulTyped ==
  ASSUME NEW a \in Word, NEW b \in Word, NEW c \in Word, NEW f \in Flags
  PROVE  MulResults(a, b, c, f) \subseteq ResultType
<1> DEFINE product == Signed(a) * Signed(b)
<1>1. product \in Int
  BY SignedInt, ProductInt
<1>2. product \div WordMod \in Int
  BY <1>1, WordConstants
<1>3. Trunc(product) \in Word /\ Trunc(product \div WordMod) \in Word
  BY <1>1, <1>2, TruncWord
<1> QED
  BY <1>3, WordConstants DEF MulResults, Result, ResultType

(* UD_Idiv stores a quotient and a remainder that are words. *)
LEMMA DivTyped ==
  ASSUME NEW a \in Word, NEW b \in Word, NEW f \in Flags
  PROVE  DivResults(a, b, f) \subseteq ResultType
<1>1. CASE a = 0
  BY <1>1 DEF DivResults
<1>2. CASE a # 0
  <2>1. a \in Nat /\ a > 0 /\ b \in Nat /\ a < WordMod /\ b < WordMod
    BY <1>2, WordModAssumption DEF Word
  <2>2. b % a \in 0 .. a - 1
    BY <2>1
  <2>3. b \div a \in Nat /\ b \div a <= b
    BY <2>1, Z3
  <2>4. b \div a \in Word /\ b % a \in Word
    BY <2>1, <2>2, <2>3, WordModAssumption DEF Word
  <2> QED
    BY <2>4, <1>2 DEF DivResults, Result, ResultType
<1> QED BY <1>1, <1>2

(* UD_Iidiv stores words, whatever dividend it rebuilds. *)
LEMMA IdivTyped ==
  ASSUME NEW a \in Word, NEW b \in Word, NEW c \in Word, NEW f \in Flags
  PROVE  IdivResults(a, b, c, f) \subseteq ResultType
<1> DEFINE dividend == IF c = 0 \/ Negative(b) THEN Signed(b) ELSE Signed(c) * WordMod + b
<1>1. dividend \in Int
  BY SignedInt, ProductInt, WordConstants
<1>2. CASE a = 0
  BY <1>2 DEF IdivResults
<1>3. CASE a # 0
  <2>1. Signed(a) \in Int /\ Signed(a) # 0
    BY <1>3, SignedInt, SignedNonzero
  <2>2. /\ Trunc(Quotient(dividend, Signed(a))) \in Word
        /\ Trunc(Remainder(dividend, Signed(a))) \in Word
    BY <1>1, <2>1, QuotientInt, RemainderInt, TruncWord
  <2> QED
    BY <2>2 DEF IdivResults, Result, ResultType
<1> QED BY <1>2, <1>3

(* The flags of imul, whatever the test that sets them. *)
LEMMA CarryTyped == ASSUME NEW f \in Flags, NEW p \in BOOLEAN
                    PROVE  WithCarryOverflow(f, p) \in Flags
  BY DEF WithCarryOverflow, Flags

(* A result built from two words and flags. *)
LEMMA ResultTyped ==
  ASSUME NEW v \in Word, NEW w \in Word, NEW f \in Flags
  PROVE  Result(v, w, f) \in ResultType
  BY DEF Result, ResultType

(* UD_Iimul stores words and flags in each of its forms. *)
LEMMA ImulTyped ==
  ASSUME NEW src, NEW a \in Word, NEW b \in Word, NEW c \in Word, NEW f \in Flags
  PROVE  ImulResults(src, a, b, c, f) \subseteq ResultType
<1> DEFINE Narrow(x) == Trunc(Signed(x) * Signed(a))
           high == Trunc((Signed(b) * Signed(a)) \div WordMod)
           p1 == high # 0
           p2 == Signed(Narrow(b)) * Signed(a) # Signed(Narrow(b))
           p3 == Signed(c) * Signed(a) # Signed(Narrow(c))
<1>1. Narrow(b) \in Word /\ Narrow(c) \in Word
  BY SignedInt, ProductInt, TruncWord
<1>2. high \in Word
  BY SignedInt, ProductInt, TruncWord, WordConstants
<1>3. /\ Result(Narrow(b), high, WithCarryOverflow(f, p1)) \in ResultType
      /\ Result(Narrow(b), c, WithCarryOverflow(f, p2)) \in ResultType
      /\ Result(Narrow(c), c, WithCarryOverflow(f, p3)) \in ResultType
      /\ Result(Narrow(b), c, f) \in ResultType
      /\ Result(b, c, f) \in ResultType
  <2>1. p1 \in BOOLEAN /\ p2 \in BOOLEAN /\ p3 \in BOOLEAN
    OBVIOUS
  <2> HIDE DEF Narrow, high, p1, p2, p3
  <2>2. /\ WithCarryOverflow(f, p1) \in Flags
        /\ WithCarryOverflow(f, p2) \in Flags
        /\ WithCarryOverflow(f, p3) \in Flags
    BY <2>1, CarryTyped
  <2> QED BY <1>1, <1>2, <2>2, ResultTyped
<1>4. \/ ImulResults(src, a, b, c, f) = {Result(Narrow(b), high, WithCarryOverflow(f, p1))}
      \/ ImulResults(src, a, b, c, f) = {Result(Narrow(b), c, WithCarryOverflow(f, p2))}
      \/ ImulResults(src, a, b, c, f) = {Result(Narrow(c), c, WithCarryOverflow(f, p3))}
      \/ ImulResults(src, a, b, c, f) = {Result(Narrow(b), c, f)}
      \/ ImulResults(src, a, b, c, f) = {Result(b, c, f)}
  BY DEF ImulResults
<1> QED
  <2> HIDE DEF Narrow, high, p1, p2, p3
  <2> QED BY <1>3, <1>4

-----------------------------------------------------------------------------
(* Shifts, flags, and the switch as a whole. *)

(* do_shift() stores a word and reads only bits it has. *)
LEMMA ShiftTyped ==
  ASSUME NEW op, NEW a \in Word, NEW b \in Word, NEW c \in Word, NEW f \in Flags
  PROVE  ShiftResults(op, a, b, c, f) \subseteq ResultType
<1> DEFINE count == a % WordBits
           power == 2 ^ count
           left == op \in {"shl", "sal"}
           shifted == CASE left -> Trunc(b * power)
                        [] op = "sar" -> Trunc(Signed(b) \div power)
                        [] OTHER -> b \div power
           out == IF left THEN Bit(b, WordBits - count) ELSE Bit(b, count - 1)
           g == IF count = 0 THEN f ELSE [f EXCEPT !.CF = out = 1]
<1>1. count \in 0 .. WordBits
  BY WordBitsAssumption DEF Word
<1>2. power \in Nat /\ power > 0
  BY <1>1, Powers
<1>3. shifted \in Word
  <2> HIDE DEF power
  <2>1. b * power \in Int /\ Signed(b) \div power \in Int
    BY <1>2, SignedInt, ProductInt
  <2>2. b \in Nat /\ b \div power \in Nat /\ b \div power <= b
    BY <1>2, Z3 DEF Word
  <2>3. b \div power \in Word
    BY <2>2, WordModAssumption DEF Word
  <2> QED BY <2>1, <2>3, TruncWord
<1>4. g \in Flags
  BY DEF Flags
<1>5. ShiftResults(op, a, b, c, f) = {Result(shifted, c, g)}
  BY DEF ShiftResults
<1> HIDE DEF shifted, g
<1> QED BY <1>3, <1>4, <1>5, ResultTyped

(* test and cmp leave four Booleans. *)
LEMMA FlagsTyped ==
  ASSUME NEW a \in Word, NEW b \in Word
  PROVE  TestFlags(a, b) \in Flags /\ CmpFlags(a, b) \in Flags
  BY DEF TestFlags, CmpFlags, Flags, Negative

(* &, | and ^ of words are words. *)
LEMMA BitwiseTyped ==
  ASSUME NEW a, NEW b
  PROVE  /\ Bitwise2(And, a, b) \subseteq Word
         /\ Bitwise2(Or, a, b) \subseteq Word
         /\ Bitwise2(Xor, a, b) \subseteq Word
  BY DEF Bitwise2

(* pushfq stores a word. *)
LEMMA FlagsWordTyped == ASSUME NEW f \in Flags PROVE FlagsWord(f) \in Word
<1>1. \A p \in BOOLEAN : (IF p THEN 1 ELSE 0) \in Int
  OBVIOUS
<1> QED BY TruncWord DEF FlagsWord, Flags

(* The switch of Execute::work() stores words and flags, for every opcode.  *)
THEOREM ResultsTyped ==
  ASSUME NEW u, u.value1 \in Word, u.value2 \in Word, u.value3 \in Word,
         NEW f \in Flags
  PROVE  Results(u, f) \subseteq ResultType
<1> DEFINE a == u.value1
           b == u.value2
           c == u.value3
           Single(v) == {Result(v, c, f)}
<1>1. a \in Int /\ b \in Int
  BY SignedInt
<1>2. /\ Trunc(b + a) \in Word /\ Trunc(b - a) \in Word
      /\ Trunc(a - 1) \in Word /\ Trunc(a + 1) \in Word /\ Trunc(-a) \in Word
  BY <1>1, TruncWord
<1>3. \A v \in Word : Single(v) \subseteq ResultType
  BY ResultTyped
<1>4. \A values \in SUBSET Word : {Result(v, c, f) : v \in values} \subseteq ResultType
  BY ResultTyped
<1>5. (IF Negative(a) THEN WordMod - 1 ELSE 0) \in Word
  BY WordConstants
<1>6. Result(Trunc(-a), c, [f EXCEPT !.CF = a # 0]) \in ResultType
  <2>1. [f EXCEPT !.CF = a # 0] \in Flags
    BY DEF Flags
  <2> QED BY <1>2, <2>1, ResultTyped
<1>7. Result(b, c, TestFlags(a, b)) \in ResultType /\ Result(b, c, CmpFlags(a, b)) \in ResultType
  BY FlagsTyped, ResultTyped
<1>8. (IF Taken(u.opcode, f) THEN a ELSE b) \in Word
  OBVIOUS
<1> QED
  BY <1>2, <1>3, <1>4, <1>5, <1>6, <1>7, <1>8, MulTyped, DivTyped, IdivTyped, ImulTyped,
     ShiftTyped, BitwiseTyped DEF Results
=============================================================================
