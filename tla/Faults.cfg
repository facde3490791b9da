SPECIFICATION Spec
CONSTANTS
  WordBits = 4
  WordMod = 16
  GPR <- MCGPR
  SlotSize = 1
  Garbage <- MCGarbage
  ValidAddr <- LowAddr
  SysNo <- MCSysNo
  Clock <- MCClock
  Before <- AnyOrder
  Programs <- HarshPrograms
  MaxQueue = 6
  MaxFetch = 2
  StackpointerInit <- AnyStack
  RipChangedInit <- AnyFlag
  RegsInit <- HarshRegs
INVARIANT TypeOK
INVARIANT EwHandshake
INVARIANT OneInstruction
INVARIANT FlushComplete
