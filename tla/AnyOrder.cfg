SPECIFICATION FairSpec
CONSTANTS
  WordBits = 4
  WordMod = 16
  GPR <- MCGPR
  SlotSize = 1
  Garbage <- MCGarbage
  ValidAddr <- AnyAddr
  SysNo <- MCSysNo
  Clock <- MCClock
  Before <- AnyOrder
  Programs <- ShortPrograms
  MaxQueue = 8
  MaxFetch = 2
  StackpointerInit <- Zero
  RipChangedInit <- False
  RegsInit <- MCRegs
PROPERTY RunsSequentially
PROPERTY Terminates
