----------------------------- MODULE BatchRedeem -----------------------------
(***************************************************************************)
(* redeem.Service.BatchRedeem: a list of codes redeemed one transaction at *)
(* a time, inside the transaction of the request's idempotency key.  The   *)
(* key transaction keeps one connection of the pool for the whole request, *)
(* and every item needs another one.                                       *)
(*                                                                         *)
(* One item is one atomic step here: Redemption shows that a redemption    *)
(* without a key takes effect at its commit, and that the only thing it    *)
(* waits for is another redemption that already has its connection.        *)
(***************************************************************************)
EXTENDS Naturals, Sequences, FiniteSets

CONSTANTS
  Requests,   \* HTTP requests to POST /api/redeem/batch; a retry is a new one
  Inputs,     \* what a request may carry: [user, items, key]
  Codes,      \* normalized codes of acceptable length
  Blank,      \* an item whose normalized code is empty or too long
  MaxUses,    \* [Codes -> Nat], max_uses_per_code; 0 for a text with no code row
  Keys,
  NoKey,
  PoolSize    \* connections of the pgx pool

ASSUME BatchAssumption ==
  /\ IsFiniteSet(Requests)
  /\ NoKey \notin Keys /\ Blank \notin Codes
  /\ MaxUses \in [Codes -> Nat]
  /\ PoolSize \in Nat \ {0}
  /\ Inputs \subseteq [user: {i.user : i \in Inputs},
                      items: Seq(Codes \cup {Blank}), key: Keys \cup {NoKey}]

VARIABLES
  useCount,   \* codes.use_count
  keys,       \* idempotency_keys rows of batch requests
  granted,    \* items of each request whose success row is committed
  pc,         \* the next step of each request
  req,        \* its user, items and key
  results,    \* the results of the items it has handled
  inserted,   \* its transaction has inserted the key row
  reply       \* what its caller received: an outcome and the results

tables == <<useCount, keys, granted>>
vars == <<tables, pc, req, results, inserted, reply>>

Reply(outcome, items) == [outcome |-> outcome, items |-> items]
NoReply == Reply("none", <<>>)

\* Faulty variant: the hash stops at the user.
hashBatchRequest_UserOnly(i) == [user |-> i.user, items |-> <<>>]

\* sha256("batch" \0 user \0 code \0 code ...).
hashBatchRequest(i) == [user |-> i.user, items |-> i.items]

\* The response_body of the row is NULL until the response is stored.
NoKeyRow == [present |-> FALSE, hash |-> [user |-> NoKey, items |-> <<>>], response |-> <<>>]

Working == {"key", "lockKey", "items", "store"}

\* Faulty variant: the key transaction is not ended when the handler returns.
HoldsKey_NeverReleased(r, k) == req[r].key = k /\ pc[r] \in {"items", "store", "done"}

\* The key row is locked by the transaction that inserted or locked it.
HoldsKey(r, k) == req[r].key = k /\ pc[r] \in {"items", "store"}
KeyFree(k) == \A r \in Requests : ~HoldsKey(r, k)

\* The key transaction has its connection from pool.Begin to its end.
HoldsConnection(r) == req[r].key # NoKey /\ pc[r] \in Working
ConnectionFree == Cardinality({r \in Requests : HoldsConnection(r)}) < PoolSize

Init ==
  /\ useCount = [c \in Codes |-> 0]
  /\ keys = [k \in Keys |-> NoKeyRow]
  /\ granted = [r \in Requests |-> {}]
  /\ pc = [r \in Requests |-> "idle"]
  /\ req \in [Requests -> Inputs]
  /\ results = [r \in Requests |-> <<>>]
  /\ inserted = [r \in Requests |-> FALSE]
  /\ reply = [r \in Requests |-> NoReply]

Finish(r, response) ==
  /\ pc' = [pc EXCEPT ![r] = "done"]
  /\ reply' = [reply EXCEPT ![r] = response]
  /\ results' = [results EXCEPT ![r] = <<>>]
  /\ inserted' = [inserted EXCEPT ![r] = FALSE]

\* Faulty variant: a result that the API no longer has.
RejectInput_UserLimit(r) ==
  /\ pc[r] = "idle"
  /\ Finish(r, Reply("user_limit", <<>>))
  /\ UNCHANGED <<tables, req>>

\* No items, or a user or key that is missing or malformed: refused before the
\* database is touched.
RejectInput(r) ==
  /\ pc[r] = "idle"
  /\ Finish(r, Reply("invalid_input", <<>>))
  /\ UNCHANGED <<tables, req>>

\* pool.Begin of the key transaction waits for a connection.
Begin(r) ==
  /\ pc[r] = "idle" /\ req[r].items # <<>>
  /\ req[r].key = NoKey \/ ConnectionFree
  /\ pc' = [pc EXCEPT ![r] = IF req[r].key = NoKey THEN "items" ELSE "key"]
  /\ UNCHANGED <<tables, req, results, inserted, reply>>

\* INSERT ... ON CONFLICT DO NOTHING, which waits for the uncommitted insert of
\* the same key.
CreateIdempotencyKey(r) ==
  LET k == req[r].key IN
  /\ pc[r] = "key"
  /\ keys[k].present \/ KeyFree(k)
  /\ pc' = [pc EXCEPT ![r] = IF keys[k].present THEN "lockKey" ELSE "items"]
  /\ inserted' = [inserted EXCEPT ![r] = ~keys[k].present]
  /\ UNCHANGED <<tables, req, results, reply>>

\* SELECT ... FOR UPDATE of the existing row: a conflict, a replay, or (never,
\* see KeyHoldsItsBatch) a second execution.
LockIdempotencyKey(r) ==
  LET row == keys[req[r].key] IN
  /\ pc[r] = "lockKey"
  /\ KeyFree(req[r].key)
  /\ IF row.hash = hashBatchRequest(req[r]) /\ row.response = <<>>
       THEN /\ pc' = [pc EXCEPT ![r] = "items"]
            /\ UNCHANGED <<results, inserted, reply>>
       ELSE Finish(r, IF row.hash = hashBatchRequest(req[r])
                        THEN Reply("ok", row.response) ELSE Reply("conflict", <<>>))
  /\ UNCHANGED <<tables, req>>

Current(r) == Len(results[r]) + 1
Code(r) == req[r].items[Current(r)]
HasItem(r) == pc[r] = "items" /\ Current(r) <= Len(req[r].items)

\* Faulty variant: a code that comes twice is redeemed twice.
Skipped_NoDuplicates(r) == Code(r) = Blank

\* An empty or too long code, or one that came before in this request.
Skipped(r) ==
  \/ Code(r) = Blank
  \/ \E i \in 1 .. Len(results[r]) : req[r].items[i] = Code(r)

\* The item's result; after the last one the response is stored.
Record(r, result) ==
  /\ results' = [results EXCEPT ![r] = Append(@, result)]
  /\ pc' = [pc EXCEPT ![r] = IF Current(r) = Len(req[r].items) THEN "store" ELSE "items"]
  /\ UNCHANGED <<req, inserted, reply>>

SkipItem(r) ==
  /\ HasItem(r) /\ Skipped(r)
  /\ Record(r, "skipped")
  /\ UNCHANGED tables

\* The redemption of the item commits as a success.
Grant(r) ==
  /\ useCount[Code(r)] < MaxUses[Code(r)]
  /\ useCount' = [useCount EXCEPT ![Code(r)] = @ + 1]
  /\ granted' = [granted EXCEPT ![r] = @ \cup {Current(r)}]
  /\ UNCHANGED keys

\* s.Redeem without a key.  A code with uses left may still be refused (code or
\* batch disabled, batch expired, no credential).
RedeemItem(r) ==
  /\ HasItem(r) /\ ~Skipped(r) /\ ConnectionFree
  /\ \/ Grant(r) /\ Record(r, "success")
     \/ UNCHANGED tables /\ Record(r, "refused")

\* Faulty variant: the key row is committed without its response.
StoreBatchResponse_NoBody(r) ==
  /\ pc[r] = "store"
  /\ keys' = IF req[r].key = NoKey THEN keys
             ELSE [keys EXCEPT ![req[r].key] =
                     [present |-> TRUE, hash |-> hashBatchRequest(req[r]), response |-> <<>>]]
  /\ Finish(r, Reply("ok", results[r]))
  /\ UNCHANGED <<useCount, granted, req>>

\* storeBatchIdempotencyResponse and the commit of the key transaction, whose
\* acknowledgement may be lost.
StoreBatchResponse(r) ==
  LET k == req[r].key IN
  /\ pc[r] = "store"
  /\ keys' = IF k = NoKey THEN keys
             ELSE [keys EXCEPT ![k] =
                     [present |-> TRUE,
                      hash |-> IF inserted[r] THEN hashBatchRequest(req[r]) ELSE @.hash,
                      response |-> results[r]]]
  /\ \/ Finish(r, Reply("ok", results[r]))
     \/ k # NoKey /\ Finish(r, Reply("error", <<>>))
  /\ UNCHANGED <<useCount, granted, req>>

\* A statement fails, the client goes away or the process dies: the key
\* transaction is rolled back and the request fails.  The redemptions of the
\* items before stay committed; that of the current item may be.
Abort(r) ==
  /\ pc[r] \in Working
  /\ \/ UNCHANGED tables
     \/ HasItem(r) /\ ~Skipped(r) /\ ConnectionFree /\ Grant(r)
  /\ Finish(r, Reply("error", <<>>))
  /\ UNCHANGED req

Step(r) ==
  \/ CreateIdempotencyKey(r) \/ LockIdempotencyKey(r)
  \/ SkipItem(r) \/ RedeemItem(r) \/ StoreBatchResponse(r)

\* All answered.
Done == (\A r \in Requests : pc[r] = "done") /\ UNCHANGED vars

Next == (\E r \in Requests : RejectInput(r) \/ Begin(r) \/ Step(r) \/ Abort(r)) \/ Done

Spec == Init /\ [][Next]_vars

\* A handler that can take its next step takes it.  Nothing makes a client give
\* up, so Abort is not fair.
FairSpec == Spec /\ \A r \in Requests : WF_vars(Step(r))

-----------------------------------------------------------------------------
(* Properties. *)

\* Every variable stays in its type.
TypeOK ==
  /\ useCount \in [Codes -> Nat]
  /\ \A k \in Keys : keys[k].response \in Seq({"success", "refused", "skipped"})
  /\ \A r \in Requests : granted[r] \subseteq 1 .. Len(req[r].items)
  /\ pc \in [Requests -> Working \cup {"idle", "done"}]
  /\ req \in [Requests -> Inputs]
  /\ results \in [Requests -> Seq({"success", "refused", "skipped"})]
  /\ inserted \in [Requests -> BOOLEAN]
  /\ \A r \in Requests : reply[r].outcome \in {"none", "ok", "error", "conflict", "invalid_input"}

GrantsOf(c) == UNION {{<<r, i>> : i \in {j \in granted[r] : req[r].items[j] = c}} : r \in Requests}

\* Whatever requests overlap, fail or repeat, a code is used as often as success
\* rows exist and never beyond its limit, and one request redeems a code once,
\* however often it lists it ("a code that comes twice in a request is not
\* executed again", docs/API_CONTRACT.md:124).
BatchUsesCounted ==
  /\ \A c \in Codes : useCount[c] = Cardinality(GrantsOf(c)) /\ useCount[c] <= MaxUses[c]
  /\ \A r \in Requests : \A i, j \in granted[r] :
       req[r].items[i] = req[r].items[j] => i = j

\* A committed key stores the complete results of one execution of its request,
\* with exactly the successes which that execution committed.
KeyHoldsItsBatch ==
  \A k \in Keys : keys[k].present =>
    \E r \in Requests :
      /\ req[r].key = k /\ keys[k].hash = hashBatchRequest(req[r])
      /\ Len(keys[k].response) = Len(req[r].items)
      /\ granted[r] = {i \in 1 .. Len(req[r].items) : keys[k].response[i] = "success"}

\* "Same key, same request returns the same whole result; same key, different
\* request returns 409" (docs/API_CONTRACT.md:128), among the requests that
\* are answered.
WholeReplay ==
  \A r, s \in Requests :
    /\ req[r].key # NoKey /\ req[s].key = req[r].key
    /\ reply[r].outcome = "ok" /\ reply[s].outcome = "ok"
    => req[r] = req[s] /\ reply[r].items = reply[s].items

\* Every batch request that begins is answered.
EveryBatchEnds == \A r \in Requests : pc[r] \in Working ~> pc[r] = "done"

\* docs/API_CONTRACT.md:128: a client that reuses its key on a retry gets the
\* same whole result, so requests with one key redeem a code once.
RetryRedeemsOnce ==
  \A r, s \in Requests :
    r # s /\ req[r].key # NoKey /\ req[r] = req[s] =>
      \A i \in granted[r], j \in granted[s] : req[r].items[i] # req[s].items[j]
=============================================================================
