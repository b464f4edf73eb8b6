---------------------------- MODULE MCBatchRedeem ----------------------------
(* Small instances of BatchRedeem for TLC. *)
EXTENDS BatchRedeem

CONSTANTS c1, c2, k1, u1

MCMaxUses == [c \in Codes |-> IF c = c1 THEN 2 ELSE 1]

\* Two codes, or a code listed twice around a blank item.
MCInputs == [user: {u1}, items: {<<c1, c2>>, <<c1, Blank, c1>>}, key: {k1, NoKey}]

\* Requests of one client that retries: one list of codes, with its key.
MCRetries == [user: {u1}, items: {<<c1, c2>>}, key: {k1}]
=============================================================================
