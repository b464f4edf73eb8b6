------------------------------ MODULE Redemption ------------------------------
(***************************************************************************)
(* Concurrent redemption requests against PostgreSQL (READ COMMITTED):     *)
(* redeem.Service.Redeem, one action per SQL statement another transaction *)
(* can observe or block, with the admin operations that write the same     *)
(* rows.  A statement's effect stays in wrote[r] until Commit publishes    *)
(* it; a row lock is held from the statement that takes it to the end of   *)
(* the transaction, so "r holds the lock" is a function of pc[r].          *)
(*                                                                         *)
(* A redemption row is identified with the request that inserts it: a      *)
(* request inserts at most one, and its user, code and key columns are     *)
(* those of req[r].                                                        *)
(***************************************************************************)
EXTENDS Naturals, FiniteSets

CONSTANTS
  Requests,       \* HTTP requests to POST /api/redeem; a retry is a new request
  Users,          \* well-formed, trimmed user ids
  Codes,          \* normalized texts of the code rows
  UnknownCodes,   \* normalized texts with no code row
  Keys,           \* Idempotency-Key values
  NoKey,          \* the header is absent
  Batches,        \* batch rows
  BatchOf,        \* [Codes -> Batches], codes.batch_id
  MaxUses,        \* [Batches -> Nat], max_uses_per_code
  ExpiresAt,      \* [Batches -> Nat], expires_at; NULL is a value >= MaxTime
  HasWebhook,     \* [Batches -> BOOLEAN], webhook_url # ''
  Plans,          \* credential plan types
  NoPlan,
  PlanOf,         \* [Batches -> Plans \cup {NoPlan}], NoPlan: assign_credential = false
  Creds,          \* credential ids (numbers: ORDER BY id)
  NoCred,
  CredPlan,       \* [Creds -> Plans], plan_type
  CredExpires,    \* [Creds -> Nat], expired; NULL is a value > MaxTime
  MaxTime         \* bound on the clock

ASSUME RedemptionAssumption ==
  /\ IsFiniteSet(Requests)
  /\ Codes \cap UnknownCodes = {}
  /\ NoKey \notin Keys /\ NoPlan \notin Plans /\ NoCred \notin Creds
  /\ Creds \subseteq Nat
  /\ MaxTime \in Nat
  /\ BatchOf \in [Codes -> Batches]
  /\ MaxUses \in [Batches -> Nat \ {0}]
  /\ ExpiresAt \in [Batches -> Nat]
  /\ HasWebhook \in [Batches -> BOOLEAN]
  /\ PlanOf \in [Batches -> Plans \cup {NoPlan}]
  /\ CredPlan \in [Creds -> Plans]
  /\ CredExpires \in [Creds -> Nat]

VARIABLES
  now,          \* the clock (time.Now of the API, NOW() of the database)
  batchStatus,  \* batches.status
  codeStatus,   \* codes.status
  useCount,     \* codes.use_count
  creds,        \* credentials rows
  keys,         \* idempotency_keys rows
  redemptions,  \* redemptions rows: result, and the credential linked to the row
  outbox,       \* redemptions with a webhook_outbox event
  pc,           \* the next statement of each request
  req,          \* its user, code and key
  start,        \* its transaction's start time, the value of NOW()
  batchSeen,    \* batches.status in the snapshot of a waiting GetCodeByCode
  pick,         \* the credential its transaction has locked
  answer,       \* the response it has built
  wrote,        \* its uncommitted writes
  reply         \* what its caller received

tables == <<batchStatus, codeStatus, useCount, creds, keys, redemptions, outbox>>
vars == <<now, tables, pc, req, start, batchSeen, pick, answer, wrote, reply>>

-----------------------------------------------------------------------------
(* Rows and values. *)

Failures == {"invalid_code", "code_disabled", "batch_disabled", "expired",
             "code_used_up", "credential_unavailable"}
Outcomes == Failures \cup {"success"}

\* A RedeemResponse: its result and the credential it carries.
Response(result, cred) == [result |-> result, cred |-> cred]
failure(result) == Response(result, NoCred)
NoReply == failure("none")

Replies == [result: Outcomes \cup {"none", "error", "conflict", "invalid_input"},
            cred: Creds \cup {NoCred}]

Inputs == [user: Users, code: Codes \cup UnknownCodes, key: Keys \cup {NoKey}]

\* Faulty variant: the hash leaves out the code.
hashRequest_UserOnly(i) == [user |-> i.user, code |-> CHOOSE c \in UnknownCodes : TRUE]

\* sha256(user \0 normalized code): collision-free, and blind to the key.
hashRequest(i) == [user |-> i.user, code |-> i.code]
Hashes == [user: Users, code: Codes \cup UnknownCodes]

NoHash == hashRequest(CHOOSE i \in Inputs : TRUE)
NoKeyRow == [present |-> FALSE, hash |-> NoHash, response |-> NoReply]

\* pc values from which the transaction holds its idempotency key row, its
\* code row, and its credential row.
KeyHeld == {"code", "codeWait", "cred", "increment", "insert", "record", "commit"}
CodeHeld == {"cred", "increment", "insert", "record", "commit"}
InTransaction == KeyHeld \cup {"key", "lockKey"}

\* Faulty variant: the transaction is not ended when the handler returns.
HoldsKey_NeverReleased(r, k) == req[r].key = k /\ pc[r] \in KeyHeld \cup {"done"}

HoldsKey(r, k) == req[r].key = k /\ pc[r] \in KeyHeld

\* Faulty variant: the code is read without FOR UPDATE.
HoldsCode_NoForUpdate(r, c) == FALSE

HoldsCode(r, c) == req[r].code = c /\ pc[r] \in CodeHeld

\* Faulty variant: the credential is read without FOR UPDATE SKIP LOCKED.
HoldsCred_NoForUpdate(r, c) == FALSE

HoldsCred(r, c) == pick[r] = c

KeyFree(k) == \A r \in Requests : ~HoldsKey(r, k)
CodeFree(c) == \A r \in Requests : ~HoldsCode(r, c)
CredFree(c) == \A r \in Requests : ~HoldsCred(r, c)

-----------------------------------------------------------------------------
Init ==
  /\ now = 0
  /\ batchStatus = [b \in Batches |-> "active"]
  /\ codeStatus = [c \in Codes |-> "unused"]
  /\ useCount = [c \in Codes |-> 0]
  /\ creds = [c \in Creds |-> "absent"]
  /\ keys = [k \in Keys |-> NoKeyRow]
  /\ redemptions = [r \in Requests |-> NoReply]
  /\ outbox = {}
  /\ pc = [r \in Requests |-> "idle"]
  /\ req \in [Requests -> Inputs]
  /\ start = [r \in Requests |-> 0]
  /\ batchSeen = [r \in Requests |-> "active"]
  /\ pick = [r \in Requests |-> NoCred]
  /\ answer = [r \in Requests |-> NoReply]
  /\ wrote = [r \in Requests |-> {}]
  /\ reply = [r \in Requests |-> NoReply]

\* The transaction ends without a commit, or the handler returns before one.
Finish(r, response) ==
  /\ pc' = [pc EXCEPT ![r] = "done"]
  /\ reply' = [reply EXCEPT ![r] = response]
  /\ batchSeen' = [batchSeen EXCEPT ![r] = "active"]
  /\ pick' = [pick EXCEPT ![r] = NoCred]
  /\ answer' = [answer EXCEPT ![r] = NoReply]
  /\ wrote' = [wrote EXCEPT ![r] = {}]

\* A request that fails the checks on user, code and key: no transaction.
RejectInput(r) ==
  /\ pc[r] = "idle"
  /\ Finish(r, failure("invalid_input"))
  /\ UNCHANGED <<now, tables, req, start>>

Begin(r) ==
  /\ pc[r] = "idle"
  /\ start' = [start EXCEPT ![r] = now]
  /\ pc' = [pc EXCEPT ![r] = IF req[r].key = NoKey THEN "code" ELSE "key"]
  /\ UNCHANGED <<now, tables, req, batchSeen, pick, answer, wrote, reply>>

\* Faulty variant: ON CONFLICT DO UPDATE, an existing key is taken over.
CreateIdempotencyKey_Upsert(r) ==
  /\ pc[r] = "key"
  /\ KeyFree(req[r].key)
  /\ pc' = [pc EXCEPT ![r] = "code"]
  /\ wrote' = [wrote EXCEPT ![r] = {"key"}]
  /\ UNCHANGED <<now, tables, req, start, batchSeen, pick, answer, reply>>

\* INSERT ... ON CONFLICT DO NOTHING: waits for the uncommitted insert of the
\* same key, and does not wait for a lock on a committed row.
CreateIdempotencyKey(r) ==
  LET k == req[r].key IN
  /\ pc[r] = "key"
  /\ keys[k].present \/ KeyFree(k)
  /\ pc' = [pc EXCEPT ![r] = IF keys[k].present THEN "lockKey" ELSE "code"]
  /\ wrote' = [wrote EXCEPT ![r] = IF keys[k].present THEN {} ELSE {"key"}]
  /\ UNCHANGED <<now, tables, req, start, batchSeen, pick, answer, reply>>

\* SELECT ... FOR UPDATE of the existing key row, and what handleIdempotency
\* makes of it: a conflict, the first execution, or a replay.
LockIdempotencyKey(r) ==
  LET row == keys[req[r].key] IN
  /\ pc[r] = "lockKey"
  /\ KeyFree(req[r].key)
  /\ IF row.hash = hashRequest(req[r]) /\ row.response = NoReply
       THEN /\ pc' = [pc EXCEPT ![r] = "code"]
            /\ UNCHANGED <<batchSeen, pick, answer, wrote, reply>>
       ELSE Finish(r, IF row.hash = hashRequest(req[r]) THEN row.response
                                                       ELSE failure("conflict"))
  /\ UNCHANGED <<now, tables, req, start>>

\* Faulty variant: use_count compared with > instead of >=.
checkCodeState_OffByOne(c, seen) ==
  LET b == BatchOf[c] IN
  IF codeStatus[c] = "disabled" THEN "code_disabled"
  ELSE IF seen = "disabled" THEN "batch_disabled"
  ELSE IF ExpiresAt[b] < now THEN "expired"
  ELSE IF useCount[c] > MaxUses[b] THEN "code_used_up"
  ELSE "ok"

\* Faulty variant: the batch status is not looked at.
checkCodeState_NoBatch(c, seen) ==
  IF codeStatus[c] = "disabled" THEN "code_disabled"
  ELSE IF ExpiresAt[BatchOf[c]] < now THEN "expired"
  ELSE IF useCount[c] >= MaxUses[BatchOf[c]] THEN "code_used_up"
  ELSE "ok"

\* The order of the early returns decides which failure the user sees.
checkCodeState(c, seen) ==
  LET b == BatchOf[c] IN
  IF codeStatus[c] = "disabled" THEN "code_disabled"
  ELSE IF seen = "disabled" THEN "batch_disabled"
  ELSE IF ExpiresAt[b] < now THEN "expired"
  ELSE IF useCount[c] >= MaxUses[b] THEN "code_used_up"
  ELSE "ok"

\* The code row is locked and read; the batch columns are those the statement's
\* snapshot saw.
ReadLockedCode(r, seen) ==
  LET c == req[r].code
      state == checkCodeState(c, seen) IN
  /\ pc' = [pc EXCEPT ![r] = IF state # "ok" THEN "record"
                             ELSE IF PlanOf[BatchOf[c]] # NoPlan THEN "cred"
                             ELSE "increment"]
  /\ answer' = [answer EXCEPT ![r] = IF state = "ok" THEN NoReply ELSE failure(state)]

\* SELECT ... JOIN batches ... FOR UPDATE OF c.  When the row lock is taken the
\* statement waits, keeping the batch row of its snapshot.
GetCodeByCode(r) ==
  LET c == req[r].code IN
  /\ pc[r] = "code"
  /\ \/ /\ c \notin Codes
        /\ pc' = [pc EXCEPT ![r] = "record"]
        /\ answer' = [answer EXCEPT ![r] = failure("invalid_code")]
        /\ UNCHANGED batchSeen
     \/ /\ c \in Codes /\ CodeFree(c)
        /\ ReadLockedCode(r, batchStatus[BatchOf[c]])
        /\ UNCHANGED batchSeen
     \/ /\ c \in Codes /\ ~CodeFree(c)
        /\ pc' = [pc EXCEPT ![r] = "codeWait"]
        /\ batchSeen' = [batchSeen EXCEPT ![r] = batchStatus[BatchOf[c]]]
        /\ UNCHANGED answer
  /\ UNCHANGED <<now, tables, req, start, pick, wrote, reply>>

\* The wait is over: PostgreSQL re-reads the code row, not the batch row.
CodeLockGranted(r) ==
  /\ pc[r] = "codeWait"
  /\ CodeFree(req[r].code)
  /\ ReadLockedCode(r, batchSeen[r])
  /\ batchSeen' = [batchSeen EXCEPT ![r] = "active"]
  /\ UNCHANGED <<now, tables, req, start, pick, wrote, reply>>

\* Unused credentials of the plan that had not expired at the transaction's
\* start and that no other transaction has locked (SKIP LOCKED).
UnusedCredentials(r) ==
  {c \in Creds : /\ creds[c] = "unused"
                 /\ CredExpires[c] > start[r]
                 /\ CredPlan[c] = PlanOf[BatchOf[req[r].code]]
                 /\ CredFree(c)}

GetUnusedCredential(r) ==
  /\ pc[r] = "cred"
  /\ \/ \E c \in UnusedCredentials(r) :
          /\ \A d \in UnusedCredentials(r) : c <= d
          /\ pick' = [pick EXCEPT ![r] = c]
          /\ pc' = [pc EXCEPT ![r] = "increment"]
          /\ UNCHANGED answer
     \/ /\ UnusedCredentials(r) = {}
        /\ pc' = [pc EXCEPT ![r] = "record"]
        /\ answer' = [answer EXCEPT ![r] = failure("credential_unavailable")]
        /\ UNCHANGED pick
  /\ UNCHANGED <<now, tables, req, start, batchSeen, wrote, reply>>

\* The guard of the UPDATE; when it matches no row the request fails with
\* "code state changed while row was locked".
IncrementMatches(c) == codeStatus[c] = "unused" /\ useCount[c] < MaxUses[BatchOf[c]]

IncrementCodeUseCount(r) ==
  /\ pc[r] = "increment"
  /\ IF IncrementMatches(req[r].code)
       THEN /\ pc' = [pc EXCEPT ![r] = "insert"]
            /\ wrote' = [wrote EXCEPT ![r] = @ \cup {"count"}]
            /\ UNCHANGED <<batchSeen, pick, answer, reply>>
       ELSE Finish(r, failure("error"))
  /\ UNCHANGED <<now, tables, req, start>>

\* SetIdempotencyResponse, when the request carries a key.
StoreResponse(r) == IF req[r].key = NoKey THEN {} ELSE {"response"}

\* CreateRedemption, CreateWebhookOutboxEvent, MarkCredentialUsed and
\* storeIdempotencyResponse: none waits, none is seen before the commit.
InsertSuccess(r) ==
  /\ pc[r] = "insert"
  /\ pc' = [pc EXCEPT ![r] = "commit"]
  /\ answer' = [answer EXCEPT ![r] = Response("success", pick[r])]
  /\ wrote' = [wrote EXCEPT ![r] = @ \cup {"row"} \cup StoreResponse(r)
                 \cup (IF HasWebhook[BatchOf[req[r].code]] THEN {"event"} ELSE {})
                 \cup (IF pick[r] # NoCred THEN {"cred"} ELSE {})]
  /\ UNCHANGED <<now, tables, req, start, batchSeen, pick, reply>>

\* Faulty variant: a failure is recorded, its response is not stored.
recordFailure_NoResponse(r) ==
  /\ pc[r] = "record"
  /\ pc' = [pc EXCEPT ![r] = "commit"]
  /\ wrote' = [wrote EXCEPT ![r] = @ \cup {"row"}]
  /\ UNCHANGED <<now, tables, req, start, batchSeen, pick, answer, reply>>

recordFailure(r) ==
  /\ pc[r] = "record"
  /\ pc' = [pc EXCEPT ![r] = "commit"]
  /\ wrote' = [wrote EXCEPT ![r] = @ \cup {"row"} \cup StoreResponse(r)]
  /\ UNCHANGED <<now, tables, req, start, batchSeen, pick, answer, reply>>

\* The JSON of the response: it keeps the result and the credential.
StoredBody(r) == answer[r]

\* The transaction's writes become visible and its locks are released.  The
\* caller may still see an error: the acknowledgement of the commit is lost.
Commit(r) ==
  LET c == req[r].code
      k == req[r].key
      w == wrote[r] IN
  /\ pc[r] = "commit"
  /\ useCount' = IF "count" \in w THEN [useCount EXCEPT ![c] = @ + 1] ELSE useCount
  /\ creds' = IF "cred" \in w THEN [creds EXCEPT ![pick[r]] = "used"] ELSE creds
  /\ redemptions' = IF "row" \in w THEN [redemptions EXCEPT ![r] = answer[r]] ELSE redemptions
  /\ outbox' = IF "event" \in w THEN outbox \cup {r} ELSE outbox
  /\ keys' = IF k \notin Keys THEN keys
             ELSE [keys EXCEPT ![k] =
                     [present |-> TRUE,
                      hash |-> IF "key" \in w THEN hashRequest(req[r]) ELSE @.hash,
                      response |-> IF "response" \in w THEN StoredBody(r) ELSE @.response]]
  /\ \E response \in {answer[r], failure("error")} : Finish(r, response)
  /\ UNCHANGED <<now, batchStatus, codeStatus, req, start>>

\* A statement fails, the request's context is cancelled or the process dies:
\* the transaction is rolled back.
Rollback(r) ==
  /\ pc[r] \in InTransaction
  /\ Finish(r, failure("error"))
  /\ UNCHANGED <<now, tables, req, start>>

-----------------------------------------------------------------------------
(* The admin operations on the same rows, and the clock. *)

Flip(status, on, off) == IF status = on THEN off ELSE on

local == <<pc, req, start, batchSeen, pick, answer, wrote, reply>>

\* Faulty variant: the enum label of batches is used for a code.
ToggleCode_WrongLabel(c) ==
  /\ CodeFree(c)
  /\ codeStatus' = [codeStatus EXCEPT ![c] = Flip(@, "active", "disabled")]
  /\ UNCHANGED <<now, batchStatus, useCount, creds, keys, redemptions, outbox, local>>

\* UPDATE codes waits for the row lock of a redemption.
ToggleCode(c) ==
  /\ CodeFree(c)
  /\ codeStatus' = [codeStatus EXCEPT ![c] = Flip(@, "unused", "disabled")]
  /\ UNCHANGED <<now, batchStatus, useCount, creds, keys, redemptions, outbox, local>>

\* A redemption never locks the batch row against updates.
ToggleBatch(b) ==
  /\ batchStatus' = [batchStatus EXCEPT ![b] = Flip(@, "active", "disabled")]
  /\ UNCHANGED <<now, codeStatus, useCount, creds, keys, redemptions, outbox, local>>

\* One upload is one transaction; credential ids come from a sequence and are
\* never reused.
importCredentials(S) ==
  /\ \A c \in S : creds[c] = "absent"
  /\ creds' = [c \in Creds |-> IF c \in S THEN "unused" ELSE creds[c]]
  /\ UNCHANGED <<now, batchStatus, codeStatus, useCount, keys, redemptions, outbox, local>>

\* DELETE waits for locked rows and has no guard on used.
DeleteCredentials(S) ==
  /\ \A c \in S : creds[c] \in {"unused", "used"} /\ CredFree(c)
  /\ creds' = [c \in Creds |-> IF c \in S THEN "deleted" ELSE creds[c]]
  /\ UNCHANGED <<now, batchStatus, codeStatus, useCount, keys, redemptions, outbox, local>>

Tick ==
  /\ now < MaxTime
  /\ now' = now + 1
  /\ UNCHANGED <<tables, local>>

-----------------------------------------------------------------------------
\* What the handler of request r does next, failures excepted.
Step(r) ==
  \/ CreateIdempotencyKey(r) \/ LockIdempotencyKey(r)
  \/ GetCodeByCode(r) \/ CodeLockGranted(r)
  \/ GetUnusedCredential(r) \/ IncrementCodeUseCount(r)
  \/ InsertSuccess(r) \/ recordFailure(r) \/ Commit(r)

Redeem(r) == RejectInput(r) \/ Begin(r) \/ Step(r) \/ Rollback(r)

Admin ==
  \/ \E c \in Codes : ToggleCode(c)
  \/ \E b \in Batches : ToggleBatch(b)
  \/ \E S \in SUBSET Creds \ {{}} : importCredentials(S) \/ DeleteCredentials(S)

Next == (\E r \in Requests : Redeem(r)) \/ Admin \/ Tick

Spec == Init /\ [][Next]_vars

\* PostgreSQL grants a lock that stays free and net/http keeps running every
\* handler: a started request that can take its next statement takes it.
FairSpec == Spec /\ \A r \in Requests : WF_vars(Step(r))

-----------------------------------------------------------------------------
(* Properties. *)

WriteNames == {"key", "count", "row", "event", "cred", "response"}

\* Every variable stays in its type.
TypeOK ==
  /\ now \in Nat
  /\ batchStatus \in [Batches -> {"active", "disabled"}]
  /\ codeStatus \in [Codes -> {"unused", "disabled"}]
  /\ useCount \in [Codes -> Nat]
  /\ creds \in [Creds -> {"absent", "unused", "used", "deleted"}]
  /\ keys \in [Keys -> [present: BOOLEAN, hash: Hashes \cup {NoHash}, response: Replies]]
  /\ redemptions \in [Requests -> Replies]
  /\ outbox \subseteq Requests
  /\ pc \in [Requests -> InTransaction \cup {"idle", "done"}]
  /\ req \in [Requests -> Inputs]
  /\ start \in [Requests -> Nat]
  /\ batchSeen \in [Requests -> {"active", "disabled"}]
  /\ pick \in [Requests -> Creds \cup {NoCred}]
  /\ answer \in [Requests -> Replies]
  /\ wrote \in [Requests -> SUBSET WriteNames]
  /\ reply \in [Requests -> Replies]

Succeeded(r) == redemptions[r].result = "success"
SuccessesOf(c) == {r \in Requests : Succeeded(r) /\ req[r].code = c}

\* A code is never redeemed more often than its batch allows, use_count is
\* exactly the number of committed success rows whatever was rolled back or
\* failed, and a success row has its outbox event iff the batch has a webhook.
SuccessesAreCounted ==
  /\ \A c \in Codes : /\ useCount[c] = Cardinality(SuccessesOf(c))
                      /\ useCount[c] <= MaxUses[BatchOf[c]]
  /\ outbox = {r \in Requests : Succeeded(r) /\ HasWebhook[BatchOf[req[r].code]]}

\* A credential is handed out by at most one redemption for all time (deleting
\* its row included), only a success of a batch that assigns that plan hands
\* one out, such a success always does, and the credential had not expired
\* when the transaction began.
CredentialPaidOnce ==
  /\ \A r, s \in Requests :
       r # s /\ redemptions[r].cred = redemptions[s].cred => redemptions[r].cred = NoCred
  /\ \A r \in Requests : LET c == redemptions[r].cred IN
       /\ c # NoCred => /\ Succeeded(r)
                        /\ creds[c] \in {"used", "deleted"}
                        /\ CredPlan[c] = PlanOf[BatchOf[req[r].code]]
                        /\ CredExpires[c] > start[r]
       /\ Succeeded(r) /\ c = NoCred => PlanOf[BatchOf[req[r].code]] = NoPlan
  /\ \A c \in Creds : creds[c] = "used" => \E r \in Requests : redemptions[r].cred = c

\* A committed key belongs to exactly one committed redemption row and stores
\* that row's request hash and response, so an existing key always has a
\* response to replay, and a rolled back request leaves no key behind.
KeyRecordsItsOutcome ==
  \A k \in Keys :
    LET rows == {r \in Requests : req[r].key = k /\ redemptions[r] # NoReply} IN
    IF keys[k].present
      THEN \E r \in rows : /\ rows = {r}
                          /\ keys[k].hash = hashRequest(req[r])
                          /\ keys[k].response = redemptions[r]
      ELSE rows = {}

\* "Same key, same request returns the original result; same key, different
\* request returns 409" (docs/API_CONTRACT.md:76): whatever a caller was
\* answered under a key is the committed outcome of that very request, first
\* execution or replay, and 409 is given only for a key another request owns.
ReplayFaithful ==
  \A r \in Requests :
    req[r].key # NoKey =>
      /\ reply[r].result \in Outcomes =>
           \E s \in Requests : req[s] = req[r] /\ redemptions[s] = reply[r]
      /\ reply[r].result = "conflict" =>
           \E s \in Requests : /\ req[s].key = req[r].key /\ req[s] # req[r]
                              /\ redemptions[s] # NoReply

\* The error "code state changed while row was locked" cannot happen: between
\* the check of the code and its increment nobody changes the locked row.
IncrementNeverMisses ==
  \A r \in Requests : pc[r] = "increment" => IncrementMatches(req[r].code)

\* Committed history is never rewritten: redemption rows and answered keys are
\* final, a used credential is never handed out again, and a use is only ever
\* added to a code that is enabled at that moment.
HistoryIsFinal ==
  [][/\ \A r \in Requests : redemptions[r] # NoReply => redemptions'[r] = redemptions[r]
     /\ \A k \in Keys : keys[k].present => keys'[k] = keys[k]
     /\ \A c \in Creds : creds[c] = "used" => creds'[c] \in {"used", "deleted"}
     /\ \A c \in Codes : useCount'[c] # useCount[c] =>
                           codeStatus[c] = "unused" /\ useCount'[c] = useCount[c] + 1]_vars

\* A request whose code lookup starts after its batch was disabled for good is
\* never redeemed, even when the lookup waits for the code row.
DisabledBatchStops ==
  \A r \in Requests, c \in Codes :
    [](/\ pc[r] \in {"idle", "key", "lockKey", "code"} /\ req[r].code = c
       /\ [](batchStatus[BatchOf[c]] = "disabled")
       => [](~Succeeded(r)))

\* No lock wait lasts for ever: every transaction that begins ends.
EveryRequestEnds == \A r \in Requests : pc[r] \in InTransaction ~> pc[r] = "done"

\* The transactions of Redeem implement RedeemPromise: a commit decides, a replay
\* repeats, and every other statement, rolled back or not, changes nothing a caller
\* can see.  No interleaving of lookups, locks and increments grants a use beyond
\* the limit, decides a key twice or pays a credential twice.
Promise == INSTANCE RedeemPromise WITH
  Limit <- [c \in Codes |-> MaxUses[BatchOf[c]]],
  Decisions <- [result: Outcomes, cred: Creds \cup {NoCred}],
  asked <- req, given <- redemptions, got <- reply

KeepsPromise == Promise!PromiseSpec

=============================================================================
