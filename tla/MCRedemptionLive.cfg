SPECIFICATION FairSpec
CONSTANTS
  Requests = {r1, r2}
  r1 = r1  r2 = r2  r3 = r3
  Users = {u1}
  Codes = {c1, c2}
  c1 = c1  c2 = c2
  UnknownCodes = {}
  Keys = {k1}
  NoKey = NoKey
  Batches = {b1}
  b1 = b1  b2 = b2
  BatchOf <- MCOneBatch
  MaxUses <- MCSingleUse
  ExpiresAt <- MCExpiresAt
  HasWebhook <- MCHasWebhook
  Plans = {"plus"}
  NoPlan = NoPlan
  PlanOf <- MCPlanOf
  Creds = {1}
  NoCred = NoCred
  CredPlan <- MCCredPlan
  CredExpires <- MCCredExpires
  MaxTime = 1
INVARIANTS
  CredentialPaidOnce
PROPERTIES
  DisabledBatchStops
  EveryRequestEnds
