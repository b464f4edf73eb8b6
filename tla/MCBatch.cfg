SPECIFICATION FairSpec
CONSTANTS
  Requests = {r1, r2, r3}
  Codes = {c1, c2}
  c1 = c1  c2 = c2  k1 = k1  u1 = u1
  Blank = Blank
  Inputs <- MCInputs
  MaxUses <- MCMaxUses
  Keys = {k1}
  NoKey = NoKey
  PoolSize = 4
INVARIANTS
  TypeOK
  BatchUsesCounted
  KeyHoldsItsBatch
  WholeReplay
PROPERTIES
  EveryBatchEnds
