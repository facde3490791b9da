------------------------------- MODULE Decoder -------------------------------
(***************************************************************************)
(* Decoder::work() and decode_opcodes(): the bytes of a block, after those *)
(* left over from the last one, are cut into instructions; what is left at *)
(* the end is kept.  udis86 is external: it is the length of an instruction*)
(* as its first byte determines it, and an incomplete one is invalid.      *)
(* The code is taken to be valid wherever it is fetched.                   *)
(***************************************************************************)
EXTENDS Fetch

CONSTANTS
  Codes  \* [len : the length of the instruction at each byte,
         \*  low : the bytes whose first hex digit is 0]

ASSUME CodesAssumption ==
  \A code \in Codes : /\ code.len \in [Byte -> 1 .. BlockSize]
                      /\ code.low \subseteq Byte

(* A byte that is no longer the one in memory. *)
Junk == -2

VARIABLES
  code,                      \* the code in memory
  first_run, rem_string, last_good_addr,
  batch                      \* the instructions pushed by this call

decoderVars == <<code, first_run, rem_string, last_good_addr, batch>>

DecoderInit ==
  /\ code \in Codes
  /\ first_run = TRUE /\ rem_string = <<>> /\ last_good_addr = 0
  /\ batch = <<>>

(* At a jump's target the zeros in front are stripped from the hex string. *)
(* A target whose own first digit is 0 loses it, and everything after it is*)
(* read one digit too early.                                               *)
Strip(s) ==
  LET front == CHOOSE n \in 0 .. Len(s) : /\ \A k \in 1 .. n : s[k] = Pad
                                          /\ n = Len(s) \/ s[n + 1] # Pad
      code_bytes == SubSeq(s, front + 1, Len(s))
  IN IF code_bytes # <<>> /\ Head(code_bytes) \in code.low
     THEN [k \in DOMAIN code_bytes |-> Junk] ELSE code_bytes

(* The bytes to disassemble. A leftover is put in front of an aligned block*)
(* but into the middle of another.                                         *)
Stream ==
  LET bytes == IF first_run THEN Strip(fd.data) ELSE fd.data
  IN CASE RIP_jump -> Strip(bytes)
       [] ~RIP_jump /\ (fd.align = 0 \/ rem_string = <<>>) -> rem_string \o bytes
       [] OTHER -> [k \in DOMAIN (rem_string \o bytes) |-> Junk]

StreamAddr ==
  IF first_run \/ RIP_jump
  THEN Plus(fd.addr, (IF first_run THEN fd.align ELSE 0) + (IF RIP_jump THEN fd.align ELSE 0))
  ELSE last_good_addr

(* ud_disassemble(), call by call: the end of the n-th instruction. *)
Length(b) == IF b \in Byte THEN code.len[b] ELSE 1

Ends(s) ==
  LET end[n \in 0 .. Len(s)] ==
        IF n = 0 THEN 0
        ELSE LET p == end[n - 1]
             IN IF p < Len(s) /\ p + Length(s[p + 1]) <= Len(s)
                THEN p + Length(s[p + 1]) ELSE p
  IN end

Instructions(s, addr) ==
  LET end == Ends(s)
      count == Cardinality({n \in 1 .. Len(s) : end[n] # end[n - 1]})
  IN [n \in 1 .. count |->
        [addr |-> Plus(addr, end[n - 1]), bytes |-> SubSeq(s, end[n - 1] + 1, end[n])]]

Decode ==
  /\ fd.ready /\ redirect = {}
  /\ LET last == Ends(Stream)[Len(Stream)]
     IN /\ batch' = Instructions(Stream, StreamAddr)
        /\ rem_string' = SubSeq(Stream, last + 1, Len(Stream))
        /\ last_good_addr' = Plus(StreamAddr, last)
  /\ first_run' = FALSE /\ RIP_jump' = FALSE
  /\ UNCHANGED code

(* Nothing to decode, or the block is of the path that is left. Fetch sets *)
(* RIP_jump in the one cycle in which the decoder does not look at it.     *)
NoDecode ==
  /\ ~fd.ready \/ redirect # {}
  /\ batch' = <<>>
  /\ RIP_jump' = (RIP_jump \/ redirect # {})
  /\ UNCHANGED <<code, first_run, rem_string, last_good_addr>>

DecoderWork == Decode \/ NoDecode
=============================================================================
