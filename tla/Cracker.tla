------------------------------- MODULE Cracker -------------------------------
(***************************************************************************)
(* Decoder::crack_opcodes(): the micro-ops an instruction becomes.  An     *)
(* instruction is a mnemonic and the three operands udis86 reports, the    *)
(* target first; operand[k] of the code is o[k + 1].  An address is left in*)
(* loadstore, data on its way in scratchls.                                *)
(***************************************************************************)
EXTENDS Alu, Sequences

(* An operand.  offset is the size of the displacement in bits, 0 if there *)
(* is none; lval holds it, or the immediate of `size` bits; scale is 0 for *)
(* an index that is taken once.                                            *)
NoOperand ==
  [type |-> "none", base |-> "none", index |-> "none", scale |-> 0, offset |-> 0,
   lval |-> 0, size |-> 0]
Register(r) == [NoOperand EXCEPT !.type = "reg", !.base = r]
Imm(v, size) == [NoOperand EXCEPT !.type = "imm", !.lval = v, !.size = size]
JumpImm(v, size) == [Imm(v, size) EXCEPT !.type = "jimm"]
One == [NoOperand EXCEPT !.type = "const"]
InMemory(base, index, scale, offset, lval) ==
  [NoOperand EXCEPT !.type = "mem", !.base = base, !.index = index, !.scale = scale,
                    !.offset = offset, !.lval = lval]

(* A value with as many hex digits as its size is padded with its highest  *)
(* bit; one with fewer has that bit clear, one with more is left alone.    *)
sign_extend(immed_val, size) ==
  IF size # 0 /\ 2 ^ (size - 1) <= immed_val /\ immed_val < 2 ^ size
  THEN Trunc(immed_val - 2 ^ size) ELSE immed_val

(* push2q(); reg3 is only used by imul. *)
Op(mnemonic, reg1, reg2, immed, src) ==
  <<[src |-> src, opcode |-> mnemonic, reg1 |-> reg1, reg2 |-> reg2, reg3 |-> "none",
     immed |-> immed]>>

Move(mnemonic, from, to) == Op(mnemonic, from, to, 0, "REG")
Immediate(mnemonic, o, to) == Op(mnemonic, "none", to, sign_extend(o.lval, o.size), "IMMED")

(* imul, by how many operands it has.  The immediate of the two-operand    *)
(* form is taken from the third operand, which is not there.               *)
CrackImul(o) ==
  LET Mul(reg1, reg2, reg3, immed, src) ==
        <<[src |-> src, opcode |-> "imul", reg1 |-> reg1, reg2 |-> reg2, reg3 |-> reg3,
           immed |-> immed]>>
      immed == sign_extend(o[3].lval, o[3].size)
      third == o[3].type
      second == o[2].type
  IN CASE third = "reg" -> Mul(o[2].base, o[1].base, o[3].base, 0, "IMUL_3")
       [] third \notin {"none", "reg"} -> Mul(o[2].base, o[1].base, "none", immed, "IMUL_3")
       [] third = "none" /\ second = "reg" -> Mul(o[2].base, o[1].base, "none", 0, "IMUL_2R")
       [] third = "none" /\ second \notin {"none", "reg"} ->
            Mul("none", o[1].base, "none", immed, "IMUL_2I")
       [] third = "none" /\ second = "none" -> Mul(o[1].base, "none", "none", 0, "IMUL_1")

-----------------------------------------------------------------------------
(* The micro-ops that leave the address of operand m in loadstore. *)
AddOffset(m, present) ==
  IF present THEN Op("add", "none", "loadstore", sign_extend(m.lval, m.offset), "IMMED")
  ELSE <<>>

Scaled(times, present) ==
  IF present THEN Op("imul", "none", "loadstore", times, "LOADMUL") ELSE <<>>

(* Slip: the base is left out when there is an index. *)
AddressWithoutBase(m) ==
  CASE m.index = "none" ->
         Move("mov", m.base, "loadstore") \o AddOffset(m, sign_extend(m.lval, m.offset) # 0)
    [] m.index # "none" ->
         Move("mov", m.index, "loadstore") \o Scaled(m.scale, m.scale # 0)
         \o AddOffset(m, m.offset # 0)

AddressOf(m) ==
  CASE m.index = "none" ->
         Move("mov", m.base, "loadstore") \o AddOffset(m, sign_extend(m.lval, m.offset) # 0)
    [] m.index # "none" /\ m.base = m.index ->
         Move("mov", m.base, "loadstore") \o Scaled(m.scale + 1, m.scale # 0)
         \o AddOffset(m, m.offset # 0)
    [] m.index # "none" /\ m.base # m.index ->
         Move("mov", m.index, "loadstore") \o Scaled(m.scale, m.scale # 0)
         \o (IF m.base # "none" THEN Move("add", m.base, "loadstore") ELSE <<>>)
         \o AddOffset(m, m.offset # 0)

(* What is done at the address.  A comparison loads whichever operand is in*)
(* memory and makes it the first; a store without an index takes a register*)
(* whatever the operand is.                                                *)
Load == Move("load", "loadstore", "scratchls")
Store == Move("store", "scratchls", "loadstore")

Access(mnemonic, o, i) ==
  LET j == 3 - i
      FromRegister == o[j].base # "none"
      loads == i = 2 \/ o[2].type = "none"
  IN CASE mnemonic = "lea" -> Move("mov", "loadstore", o[1].base)
       [] mnemonic \in {"cmp", "test"} ->
            Load \o (IF FromRegister THEN Move(mnemonic, "scratchls", o[j].base)
                     ELSE Immediate(mnemonic, o[j], "scratchls"))
       [] mnemonic \notin {"lea", "cmp", "test"} /\ loads ->
            Load \o Move(mnemonic, "scratchls", o[1].base)
       [] OTHER ->
            (IF FromRegister \/ o[i].index = "none" THEN Move(mnemonic, o[j].base, "scratchls")
             ELSE Immediate(mnemonic, o[j], "scratchls")) \o Store

(* Every form but imul's: two registers, a jump, one operand, a shift by   *)
(* one, an immediate, memory.                                              *)
CrackForm(mnemonic, o) ==
  LET target == o[1].type
      source == o[2].type
  IN CASE target = "reg" /\ source = "reg" -> Move(mnemonic, o[2].base, o[1].base)
       [] target = "jimm" -> Immediate(mnemonic, o[1], "none")
       [] target \notin {"jimm", "mem"} /\ source = "none" ->
            IF mnemonic = "pop" THEN Move("pop", "none", o[1].base)
            ELSE Move(mnemonic, o[1].base, "none")
       [] target = "reg" /\ source = "const" -> Op(mnemonic, "none", o[1].base, 1, "IMMED")
       [] target = "reg" /\ source = "imm" -> Immediate(mnemonic, o[2], o[1].base)
       [] target = "mem" -> AddressOf(o[1]) \o Access(mnemonic, o, 1)
       [] target = "reg" /\ source = "mem" -> AddressOf(o[2]) \o Access(mnemonic, o, 2)

Crack(mnemonic, o) ==
  CASE o[1].type = "none" /\ o[2].type = "none" -> Op(mnemonic, "none", "none", 0, "NO_SRC")
    [] o[1].type # "none" /\ mnemonic = "imul" -> CrackImul(o)
    [] o[1].type # "none" /\ mnemonic # "imul" -> CrackForm(mnemonic, o)
=============================================================================
