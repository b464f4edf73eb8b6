----------------------------- MODULE RedeemPromise -----------------------------
(***************************************************************************)
(* What redemption promises its callers, with no transaction, lock or      *)
(* statement in sight: every request is answered in one step.  It is       *)
(* decided once, or repeats what was decided under its key, or leaves no   *)
(* trace.  A decision may be final although its caller sees an error.      *)
(***************************************************************************)
EXTENDS Naturals, FiniteSets

CONSTANTS
  Requests, Codes,
  Limit,        \* [Codes -> Nat]: how often a code may be redeemed
  Decisions,    \* outcomes a request may be decided with, "success" among them
  NoKey, NoCred

VARIABLES
  asked,        \* what each request asks: user, code and key
  given,        \* the decision on a request, final once made
  got           \* what its caller was told

promiseVars == <<asked, given, got>>

Undecided == [result |-> "none", cred |-> NoCred]
Told(result) == [result |-> result, cred |-> NoCred]

PromiseInit ==
  /\ given = [r \in Requests |-> Undecided]
  /\ got = [r \in Requests |-> Undecided]

Granted(c) == {s \in Requests : asked[s].code = c /\ given[s].result = "success"}

\* The requests decided under the key of r.
Owners(r) == {s \in Requests : asked[s].key = asked[r].key /\ given[s] # Undecided}

Answer(r, response) == got[r] = Undecided /\ got' = [got EXCEPT ![r] = response]

\* A success takes a use that is left, and a credential nobody was given.
Affordable(r, decision) ==
  decision.result = "success" =>
    /\ asked[r].code \in Codes
    /\ Cardinality(Granted(asked[r].code)) < Limit[asked[r].code]

Unpaid(cred) == cred # NoCred => \A s \in Requests : given[s].cred # cred

Decide(r, decision) ==
  /\ given[r] = Undecided
  /\ asked[r].key # NoKey => Owners(r) = {}
  /\ Affordable(r, decision) /\ Unpaid(decision.cred)
  /\ decision.cred # NoCred => decision.result = "success"
  /\ given' = [given EXCEPT ![r] = decision]
  /\ Answer(r, decision) \/ Answer(r, Told("error"))
  /\ UNCHANGED asked

\* The same request under the same key is told the decision, another one is
\* told of the conflict.
Repeat(r) ==
  /\ asked[r].key # NoKey
  /\ \E s \in Owners(r) :
       IF asked[s] = asked[r] THEN Answer(r, given[s]) ELSE Answer(r, Told("conflict"))
  /\ UNCHANGED <<asked, given>>

Refuse(r) ==
  /\ Answer(r, Told("error")) \/ Answer(r, Told("invalid_input"))
  /\ UNCHANGED <<asked, given>>

PromiseNext ==
  \E r \in Requests :
    \/ \E decision \in Decisions : Decide(r, decision)
    \/ Repeat(r) \/ Refuse(r)

PromiseSpec == PromiseInit /\ [][PromiseNext]_promiseVars

=============================================================================
