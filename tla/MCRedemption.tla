---------------------------- MODULE MCRedemption ----------------------------
(* Small instances of Redemption for TLC. *)
EXTENDS Redemption, TLC

CONSTANTS r1, r2, r3, c1, c2, b1, b2

\* c1 may be used twice and hands out a credential of the one plan; c2 may be
\* used once, expires at time 0 and has no credential.
MCBatchOf == [c \in Codes |-> IF c = c1 THEN b1 ELSE b2]
\* Both codes in one batch: their requests compete for its credentials.
MCOneBatch == [c \in Codes |-> b1]
MCMaxUses == [b \in Batches |-> IF b = b1 THEN 2 ELSE 1]
MCExpiresAt == [b \in Batches |-> IF b = b1 THEN MaxTime ELSE 0]
MCHasWebhook == [b \in Batches |-> b = b1]
MCPlanOf == [b \in Batches |-> IF b = b1 THEN "plus" ELSE NoPlan]

\* No batch assigns a credential, and every code may be used once.
MCNoPlans == [b \in Batches |-> NoPlan]
MCSingleUse == [b \in Batches |-> 1]
MCExpiresAtOnce == [b \in Batches |-> 0]

\* Credential 1 expires at time 1, the others never.
MCCredPlan == [c \in Creds |-> "plus"]
MCCredExpires == [c \in Creds |-> IF c = 1 THEN 1 ELSE MaxTime + 1]

RequestSymmetry == Permutations(Requests)
=============================================================================
