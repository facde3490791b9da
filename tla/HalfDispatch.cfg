SPECIFICATION Spec
CONSTANTS
  WordBits = 4
  WordMod = 16
  GPR <- MCGPR
  SlotSize = 1
  Garbage <- MCGarbage
  ValidAddr <- AnyAddr
  SysNo <- MCSysNo
  Clock <- MCClock
  Before <- KernelOrder
  Programs <- CmpMemoryPrograms
  MaxQueue = 8
  MaxFetch = 2
  StackpointerInit <- Zero
  RipChangedInit <- False
  RegsInit <- MCRegs
PROPERTY WholeInstructions
