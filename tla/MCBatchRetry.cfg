SPECIFICATION Spec
CONSTANTS
  Requests = {r1, r2}
  Codes = {c1, c2}
  c1 = c1  c2 = c2  k1 = k1  u1 = u1
  Blank = Blank
  Inputs <- MCRetries
  MaxUses <- MCMaxUses
  Keys = {k1}
  NoKey = NoKey
  PoolSize = 3
INVARIANTS
  RetryRedeemsOnce
