-------------------------------- MODULE Sram --------------------------------
(***************************************************************************)
(* The clocked memory of the warm-up project with one port.  depthLog2 is 4*)
(* and ports is 1, so `delay` is 1: the pipeline has one stage and what it *)
(* holds is what dout shows from the next cycle on.  An SRAM is therefore  *)
(* its cells and dout.                                                     *)
(***************************************************************************)

(* The input pins: a chip enable, a write enable, an address and a value. *)
Pins(Index, V) == [ena : BOOLEAN, we : BOOLEAN, addr : Index, din : V]

SramOf(Index, V) == [cell : [Index -> V], dout : V]

Delay == 1

Cells(s, pins) ==
  IF pins.ena /\ pins.we THEN [s.cell EXCEPT ![pins.addr] = pins.din] ELSE s.cell

(* SRAM::work(): a write also sends the new value down the pipeline. *)
Clocked(s, pins) ==
  [cell |-> Cells(s, pins),
   dout |-> IF pins.ena THEN Cells(s, pins)[pins.addr] ELSE s.dout]

(* What CacheProject writes to the pins. *)
(* Slip: the write enable stays set. *)
OffButWriting(pins) == [pins EXCEPT !.ena = FALSE]

Off(pins)            == [pins EXCEPT !.ena = FALSE, !.we = FALSE]
Disable(pins)        == [pins EXCEPT !.ena = FALSE]
ReadCell(pins, i)    == [pins EXCEPT !.ena = TRUE, !.addr = i]
WriteCell(pins, i, v) == [pins EXCEPT !.ena = TRUE, !.we = TRUE, !.addr = i, !.din = v]
=============================================================================
