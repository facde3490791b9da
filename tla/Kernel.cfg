SPECIFICATION Spec
CONSTANTS
  WordBits = 4
  WordMod = 16
  GPR <- MCGPR
  SlotSize = 1
  Garbage <- MCGarbage
  ValidAddr <- AnyAddr
  SysNo <- MCSysNo
  Clock <- MCClock
  Before <- KernelOrder
  Programs <- MCPrograms
  MaxQueue = 8
  MaxFetch = 2
  StackpointerInit <- Zero
  RipChangedInit <- False
  RegsInit <- MCRegs
INVARIANT NothingDropped
INVARIANT InFlight
PROPERTY RunsSequentially
