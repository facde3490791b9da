SPECIFICATION WarmupSpec
CONSTANTS
  t0 = t0  t1 = t1
  i0 = i0  i1 = i1
  Tag = {t0, t1}
  Index = {i0, i1}
  Data = {d0, d1}
  State = {s0, s1}
  Miss = ff
  ZeroTag = t0
  ZeroIndex = i0
  ZeroData = d0
  ZeroState = s0
  Workloads <- TwoBlocks
INVARIANTS CacheTypeOK RepliesRight CacheBusy
PROPERTIES StoreSpec TagTold Answered
