SPECIFICATION Spec
CONSTANTS
  Requests = {r1, r2, r3}
  r1 = r1  r2 = r2  r3 = r3
  Users = {u1}
  Codes = {c1}
  c1 = c1  c2 = c2
  UnknownCodes = {x}
  Keys = {k1}
  NoKey = NoKey
  Batches = {b1}
  b1 = b1  b2 = b2
  BatchOf <- MCBatchOf
  MaxUses <- MCSingleUse
  ExpiresAt <- MCExpiresAtOnce
  HasWebhook <- MCHasWebhook
  Plans = {"plus"}
  NoPlan = NoPlan
  PlanOf <- MCNoPlans
  Creds = {}
  NoCred = NoCred
  CredPlan <- MCCredPlan
  CredExpires <- MCCredExpires
  MaxTime = 1
SYMMETRY RequestSymmetry
INVARIANTS
  TypeOK
  SuccessesAreCounted
  KeyRecordsItsOutcome
  ReplayFaithful
  IncrementNeverMisses
PROPERTIES
  HistoryIsFinal
  KeepsPromise
