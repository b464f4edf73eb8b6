--------------------------- MODULE RedemptionProofs ---------------------------
(***************************************************************************)
(* Proofs about Redemption, for any number of requests, codes, keys and    *)
(* credentials.                                                            *)
(***************************************************************************)
EXTENDS Redemption, FiniteSetTheorems, TLAPS

(* The inductive invariant. *)

\* Row locks exclude each other.
Mutex ==
  /\ \A r, s \in Requests : \A k \in Keys : HoldsKey(r, k) /\ HoldsKey(s, k) => r = s
  /\ \A r, s \in Requests : \A c \in Codes : HoldsCode(r, c) /\ HoldsCode(s, c) => r = s
  /\ \A r, s \in Requests : pick[r] # NoCred /\ pick[r] = pick[s] => r = s

\* Only a request with a key looks one up.
Keyed(r) == pc[r] \in {"key", "lockKey"} => req[r].key \in Keys

TypeInv == TypeOK /\ \A r \in Requests : Keyed(r)

\* A transaction that holds its key row has inserted it; one that is to lock an
\* existing key row finds it.
KeyHolder(r) ==
  /\ pc[r] = "lockKey" => keys[req[r].key].present
  /\ pc[r] \in KeyHeld => ("key" \in wrote[r] <=> req[r].key # NoKey)
  /\ pc[r] \in KeyHeld /\ req[r].key # NoKey => ~keys[req[r].key].present

\* A transaction that is past the code check and has not failed.
Redeeming(r) ==
  /\ req[r].code \in Codes
  /\ IncrementMatches(req[r].code)

HasPick(r) == pick[r] = NoCred <=> PlanOf[BatchOf[req[r].code]] = NoPlan

\* What each transaction has done at each of its statements.
Progress(r) ==
  /\ pc[r] \in {"idle", "done", "key", "lockKey"} => wrote[r] = {}
  /\ pc[r] \in {"code", "codeWait", "cred", "increment", "record"} => wrote[r] \subseteq {"key"}
  /\ pc[r] \notin {"increment", "insert", "commit"} => pick[r] = NoCred
  /\ pc[r] = "codeWait" => req[r].code \in Codes
  /\ pc[r] = "cred" => Redeeming(r) /\ PlanOf[BatchOf[req[r].code]] # NoPlan
  /\ pc[r] = "increment" => Redeeming(r) /\ HasPick(r)
  /\ pc[r] = "insert" => /\ Redeeming(r) /\ HasPick(r)
                         /\ wrote[r] \subseteq {"key", "count"} /\ "count" \in wrote[r]
  /\ pc[r] = "record" => answer[r].result \in Failures /\ answer[r].cred = NoCred
  /\ pc[r] = "commit" =>
       /\ answer[r].result \in Outcomes /\ answer[r].cred = pick[r]
       /\ "row" \in wrote[r]
       /\ "response" \in wrote[r] <=> req[r].key # NoKey
       /\ "count" \in wrote[r] <=> answer[r].result = "success"
       /\ "event" \in wrote[r] <=>
            answer[r].result = "success" /\ HasWebhook[BatchOf[req[r].code]]
       /\ "cred" \in wrote[r] <=> pick[r] # NoCred
       /\ answer[r].result = "success" => Redeeming(r) /\ HasPick(r)
       /\ answer[r].result # "success" => pick[r] = NoCred

\* A locked credential is still unused and fits the request.
PickFits(r) ==
  pick[r] # NoCred => /\ creds[pick[r]] = "unused"
                      /\ CredPlan[pick[r]] = PlanOf[BatchOf[req[r].code]]
                      /\ CredExpires[pick[r]] > start[r]

\* Only an ended request has a redemption row, and a row has a result.
RowOfEnded(r) ==
  /\ redemptions[r] # NoReply => pc[r] = "done"
  /\ redemptions[r].result \in Outcomes \/ redemptions[r] = NoReply

RequestInv(r) == KeyHolder(r) /\ Progress(r) /\ PickFits(r) /\ RowOfEnded(r)

LockInv ==
  /\ Mutex
  /\ \A r \in Requests : RequestInv(r)
  /\ KeyRecordsItsOutcome

IInv == TypeInv /\ LockInv

-----------------------------------------------------------------------------
(* Types. *)

\* The responses that the handlers build are responses.
LEMMA ReplyTypes ==
  /\ NoReply \in Replies
  /\ \A f \in Failures \cup {"none", "error", "conflict", "invalid_input"} :
       failure(f) \in Replies
  /\ \A p \in Creds \cup {NoCred} : Response("success", p) \in Replies
BY DEF NoReply, failure, Response, Replies, Failures, Outcomes

\* The initial database and requests are well typed.
LEMMA TypeInit == Init => TypeOK
BY ReplyTypes DEF Init, TypeOK, NoKeyRow, NoHash, InTransaction, KeyHeld

\* Ending a request, with any response, keeps its local state well typed.
LEMMA FinishTypes ==
  ASSUME TypeOK, NEW r \in Requests, NEW p \in Replies, Finish(r, p)
  PROVE  /\ pc' \in [Requests -> InTransaction \cup {"idle", "done"}]
         /\ batchSeen' \in [Requests -> {"active", "disabled"}]
         /\ pick' \in [Requests -> Creds \cup {NoCred}]
         /\ answer' \in [Requests -> Replies]
         /\ wrote' \in [Requests -> SUBSET WriteNames]
         /\ reply' \in [Requests -> Replies]
BY ReplyTypes DEF Finish, TypeOK

\* checkCodeState answers "ok" or one of the failures.
LEMMA CheckTypes ==
  ASSUME NEW c, NEW seen
  PROVE  checkCodeState(c, seen) \in Failures \cup {"ok"}
BY DEF checkCodeState, Failures

\* Every statement of a request keeps the types.
LEMMA TypeRedeem ==
  ASSUME TypeInv, NEW r \in Requests, Redeem(r)
  PROVE  TypeInv'
<1> USE RedemptionAssumption DEF TypeInv
<1>a. failure("error") \in Replies /\ failure("conflict") \in Replies
      /\ failure("invalid_input") \in Replies
  BY ReplyTypes
<1>1. CASE RejectInput(r)
  <2>1. TypeOK'
    BY <1>1, <1>a, FinishTypes DEF RejectInput, TypeOK, tables
  <2> QED BY <1>1, <2>1 DEF RejectInput, Finish, TypeOK, Keyed
<1>2. CASE Begin(r)
  <2>1. TypeOK'
    BY <1>2 DEF Begin, TypeOK, tables, InTransaction, KeyHeld
  <2> QED BY <1>2, <2>1 DEF Begin, TypeOK, Inputs, Keyed
<1>3. CASE CreateIdempotencyKey(r)
  <2>1. TypeOK'
    BY <1>3 DEF CreateIdempotencyKey, TypeOK, tables, InTransaction, KeyHeld, WriteNames
  <2> QED BY <1>3, <2>1 DEF CreateIdempotencyKey, TypeOK, Keyed
<1>4. CASE LockIdempotencyKey(r)
  <2>1. keys[req[r].key].response \in Replies
    BY <1>4 DEF TypeOK, LockIdempotencyKey, Keyed
  <2>2. TypeOK'
    <3> DEFINE row == keys[req[r].key]
               p == IF row.hash = hashRequest(req[r]) THEN row.response ELSE failure("conflict")
    <3>1. CASE row.hash = hashRequest(req[r]) /\ row.response = NoReply
      BY <1>4, <3>1 DEF LockIdempotencyKey, TypeOK, tables, InTransaction, KeyHeld
    <3>2. CASE ~(row.hash = hashRequest(req[r]) /\ row.response = NoReply)
      <4>1. Finish(r, p) /\ UNCHANGED <<now, tables, req, start>>
        BY <1>4, <3>2 DEF LockIdempotencyKey
      <4>2. p \in Replies
        BY <1>a, <2>1
      <4> QED BY <4>1, <4>2, FinishTypes DEF TypeOK, tables
    <3> QED BY <3>1, <3>2
  <2> QED BY <1>4, <2>2 DEF LockIdempotencyKey, Finish, TypeOK, Keyed
<1>5. ASSUME NEW seen, ReadLockedCode(r, seen)
      PROVE  /\ pc' \in [Requests -> InTransaction \cup {"idle", "done"}]
             /\ answer' \in [Requests -> Replies]
  <2>1. checkCodeState(req[r].code, seen) # "ok" =>
          failure(checkCodeState(req[r].code, seen)) \in Replies
    BY ReplyTypes, CheckTypes
  <2> QED BY <1>5, <2>1, ReplyTypes DEF ReadLockedCode, TypeOK, InTransaction, KeyHeld
<1>6. CASE GetCodeByCode(r)
  <2>1. failure("invalid_code") \in Replies
    BY ReplyTypes DEF Failures
  <2>2. /\ pc' \in [Requests -> InTransaction \cup {"idle", "done"}]
        /\ answer' \in [Requests -> Replies]
    BY <1>5, <1>6, <2>1 DEF GetCodeByCode, TypeOK, InTransaction, KeyHeld
  <2>3. batchSeen' \in [Requests -> {"active", "disabled"}]
    BY <1>6 DEF GetCodeByCode, TypeOK
  <2>4. TypeOK'
    BY <1>6, <2>2, <2>3 DEF GetCodeByCode, TypeOK, tables
  <2> QED BY <1>6, <2>4 DEF GetCodeByCode, ReadLockedCode, TypeOK, Keyed
<1>7. CASE CodeLockGranted(r)
  <2>1. TypeOK'
    BY <1>5, <1>7 DEF CodeLockGranted, TypeOK, tables
  <2> QED BY <1>7, <2>1 DEF CodeLockGranted, ReadLockedCode, TypeOK, Keyed
<1>8. CASE GetUnusedCredential(r)
  <2>1. failure("credential_unavailable") \in Replies
    BY ReplyTypes DEF Failures
  <2>2. TypeOK'
    <3>1. pc' \in [Requests -> InTransaction \cup {"idle", "done"}]
      BY <1>8 DEF GetUnusedCredential, TypeOK, InTransaction, KeyHeld
    <3>2. pick' \in [Requests -> Creds \cup {NoCred}]
      <4>1. \A c \in UnusedCredentials(r) : c \in Creds
        BY DEF UnusedCredentials
      <4> QED BY <1>8, <4>1 DEF GetUnusedCredential, TypeOK
    <3>3. answer' \in [Requests -> Replies]
      BY <1>8, <2>1 DEF GetUnusedCredential, TypeOK
    <3> QED BY <1>8, <3>1, <3>2, <3>3 DEF GetUnusedCredential, TypeOK, tables
  <2> QED BY <1>8, <2>2 DEF GetUnusedCredential, TypeOK, Keyed
<1>9. CASE IncrementCodeUseCount(r)
  <2>1. TypeOK'
    <3>1. CASE IncrementMatches(req[r].code)
      <4>1. pc' \in [Requests -> InTransaction \cup {"idle", "done"}]
        BY <1>9, <3>1 DEF IncrementCodeUseCount, TypeOK, InTransaction, KeyHeld
      <4>2. wrote' \in [Requests -> SUBSET WriteNames]
        <5>1. wrote \in [Requests -> SUBSET WriteNames]
          BY DEF TypeOK
        <5>2. wrote' = [wrote EXCEPT ![r] = @ \cup {"count"}]
          BY <1>9, <3>1 DEF IncrementCodeUseCount
        <5> HIDE DEF TypeInv
        <5> QED BY <5>1, <5>2 DEF WriteNames
      <4> QED BY <1>9, <3>1, <4>1, <4>2 DEF IncrementCodeUseCount, TypeOK, tables
    <3>2. CASE ~IncrementMatches(req[r].code)
      BY <1>9, <1>a, <3>2, FinishTypes DEF IncrementCodeUseCount, TypeOK, tables
    <3> QED BY <3>1, <3>2
  <2> QED BY <1>9, <2>1 DEF IncrementCodeUseCount, Finish, TypeOK, Keyed
<1>10. CASE InsertSuccess(r)
  <2>1. Response("success", pick[r]) \in Replies
    BY ReplyTypes DEF TypeOK
  <2>2. TypeOK'
    BY <1>10, <2>1
    DEF InsertSuccess, StoreResponse, TypeOK, tables, InTransaction, KeyHeld, WriteNames
  <2> QED BY <1>10, <2>2 DEF InsertSuccess, TypeOK, Keyed
<1>11. CASE recordFailure(r)
  <2>1. TypeOK'
    BY <1>11 DEF recordFailure, StoreResponse, TypeOK, tables, InTransaction, KeyHeld, WriteNames
  <2> QED BY <1>11, <2>1 DEF recordFailure, TypeOK, Keyed
<1>12. CASE Commit(r)
  <2>1. PICK response \in {answer[r], failure("error")} : Finish(r, response)
    BY <1>12 DEF Commit
  <2>2. response \in Replies
    BY <1>a DEF TypeOK
  <2>3. keys' \in [Keys -> [present: BOOLEAN, hash: Hashes \cup {NoHash}, response: Replies]]
    BY <1>12 DEF Commit, TypeOK, StoredBody, hashRequest, Hashes, Inputs
  <2>5. useCount' \in [Codes -> Nat]
    <3>1. useCount' = useCount \/ useCount' = [useCount EXCEPT ![req[r].code] = @ + 1]
      BY <1>12 DEF Commit
    <3> QED BY <3>1 DEF TypeOK
  <2>7. creds' \in [Creds -> {"absent", "unused", "used", "deleted"}]
    BY <1>12 DEF Commit, TypeOK
  <2>6. redemptions' \in [Requests -> Replies] /\ outbox' \subseteq Requests
    BY <1>12 DEF Commit, TypeOK
  <2>4. TypeOK'
    BY <1>12, <2>1, <2>2, <2>3, <2>5, <2>6, <2>7, FinishTypes DEF Commit, TypeOK
  <2> QED BY <1>12, <2>1, <2>4 DEF Commit, Finish, TypeOK, Keyed
<1>13. CASE Rollback(r)
  <2>1. TypeOK'
    BY <1>13, <1>a, FinishTypes DEF Rollback, TypeOK, tables
  <2> QED BY <1>13, <2>1 DEF Rollback, Finish, TypeOK, Keyed
<1> QED
  BY <1>1, <1>2, <1>3, <1>4, <1>6, <1>7, <1>8, <1>9, <1>10, <1>11, <1>12, <1>13
  DEF Redeem, Step

\* The admin operations and the clock keep the types.
LEMMA TypeOther ==
  ASSUME TypeInv, Admin \/ Tick
  PROVE  TypeInv'
<1> USE DEF TypeInv, TypeOK, Keyed, local, tables
<1>1. ASSUME NEW c \in Codes, ToggleCode(c) PROVE TypeInv'
  BY <1>1 DEF ToggleCode, Flip
<1>2. ASSUME NEW b \in Batches, ToggleBatch(b) PROVE TypeInv'
  BY <1>2 DEF ToggleBatch, Flip
<1>3. ASSUME NEW S \in SUBSET Creds, importCredentials(S) \/ DeleteCredentials(S)
      PROVE  TypeInv'
  BY <1>3 DEF importCredentials, DeleteCredentials
<1>4. CASE Tick
  BY <1>4 DEF Tick
<1> QED BY <1>1, <1>2, <1>3, <1>4 DEF Admin

\* Every step, stuttering included, keeps the types.
LEMMA TypeStep == TypeInv /\ [Next]_vars => TypeInv'
<1> SUFFICES ASSUME TypeInv, [Next]_vars PROVE TypeInv'
  OBVIOUS
<1>1. CASE UNCHANGED vars
  BY <1>1 DEF vars, tables, TypeInv, TypeOK, Keyed
<1> QED BY <1>1, TypeRedeem, TypeOther DEF Next

\* Every reachable state is well typed.
THEOREM TypeCorrect == Spec => []TypeOK
<1>1. Init => TypeInv
  BY TypeInit DEF Init, TypeInv, Keyed
<1>2. TypeInv => TypeOK
  BY DEF TypeInv
<1> QED BY <1>1, <1>2, TypeStep, PTL DEF Spec

-----------------------------------------------------------------------------
(* Locks, uncommitted writes and committed keys. *)

\* A statement of r that publishes nothing disturbs no other request as long as
\* the locks it takes were free.
LEMMA LocalStep ==
  ASSUME IInv, NEW r \in Requests, UNCHANGED <<tables, req>>,
         \A s \in Requests \ {r} : /\ pc'[s] = pc[s] /\ pick'[s] = pick[s]
                                   /\ wrote'[s] = wrote[s] /\ answer'[s] = answer[s]
                                   /\ start'[s] = start[s],
         RequestInv(r)',
         req[r].key \in Keys /\ pc'[r] \in KeyHeld =>
           pc[r] \in KeyHeld \/ KeyFree(req[r].key),
         req[r].code \in Codes /\ pc'[r] \in CodeHeld =>
           pc[r] \in CodeHeld \/ CodeFree(req[r].code),
         pick'[r] # NoCred => pick'[r] = pick[r] \/ CredFree(pick'[r])
  PROVE  LockInv'
<1> USE DEF IInv, LockInv, tables
<1>1. Mutex'
  BY DEF Mutex, HoldsKey, HoldsCode, HoldsCred, KeyFree, CodeFree, CredFree
<1>2. ASSUME NEW s \in Requests \ {r} PROVE RequestInv(s)'
  <2>1. KeyHolder(s)'
    BY DEF RequestInv, KeyHolder
  <2>2. Progress(s)'
    <3>1. (Redeeming(s)' <=> Redeeming(s)) /\ (HasPick(s)' <=> HasPick(s))
      BY DEF Redeeming, IncrementMatches, HasPick
    <3> QED BY <3>1 DEF RequestInv, Progress
  <2>3. PickFits(s)' /\ RowOfEnded(s)'
    BY DEF RequestInv, PickFits, RowOfEnded
  <2> QED BY <2>1, <2>2, <2>3 DEF RequestInv
<1>3. KeyRecordsItsOutcome'
  BY DEF KeyRecordsItsOutcome, hashRequest
<1> QED BY <1>1, <1>2, <1>3

\* A request that ends without a commit releases its locks and leaves the
\* tables alone.
LEMMA FinishKeeps ==
  ASSUME IInv, NEW r \in Requests, NEW p, Finish(r, p), pc[r] # "done",
         UNCHANGED <<tables, req, start>>
  PROVE  LockInv'
<1> USE DEF IInv, TypeInv, LockInv
<1>1. \A s \in Requests \ {r} : /\ pc'[s] = pc[s] /\ pick'[s] = pick[s]
                                /\ wrote'[s] = wrote[s] /\ answer'[s] = answer[s]
                                /\ start'[s] = start[s]
  BY DEF Finish, TypeOK
<1>2. pc'[r] = "done" /\ pick'[r] = NoCred /\ wrote'[r] = {}
  BY DEF Finish, TypeOK
<1>3. RequestInv(r)'
  BY <1>2 DEF RequestInv, KeyHolder, KeyHeld, Progress, PickFits, RowOfEnded, tables
<1> QED BY <1>1, <1>2, <1>3, LocalStep DEF KeyHeld, CodeHeld

\* Reading the locked code row leads to a failure or to a redemption whose
\* increment will match.
LEMMA ReadKeeps ==
  ASSUME IInv, NEW r \in Requests, NEW seen, ReadLockedCode(r, seen),
         UNCHANGED <<tables, req, start, pick, wrote>>,
         pc[r] \in {"code", "codeWait"}, req[r].code \in Codes, CodeFree(req[r].code)
  PROVE  LockInv'
<1> USE RedemptionAssumption DEF IInv, TypeInv, LockInv
<1> DEFINE c == req[r].code
           st == checkCodeState(c, seen)
<1>1. \A s \in Requests \ {r} : pc'[s] = pc[s] /\ answer'[s] = answer[s]
  BY DEF ReadLockedCode, TypeOK
<1>2. /\ pc'[r] = IF st # "ok" THEN "record"
                  ELSE IF PlanOf[BatchOf[c]] # NoPlan THEN "cred" ELSE "increment"
      /\ answer'[r] = IF st = "ok" THEN NoReply ELSE failure(st)
  BY DEF ReadLockedCode, TypeOK
<1>3. st = "ok" => IncrementMatches(c)
  <2>1. codeStatus[c] \in {"unused", "disabled"} /\ useCount[c] \in Nat
        /\ MaxUses[BatchOf[c]] \in Nat
    BY DEF TypeOK
  <2> QED BY <2>1 DEF checkCodeState, IncrementMatches
<1>4. RequestInv(r)'
  <2>1. pick'[r] = NoCred /\ wrote'[r] \subseteq {"key"}
    BY DEF RequestInv, Progress
  <2>2. KeyHolder(r)' /\ PickFits(r)' /\ RowOfEnded(r)'
    BY <1>2, <2>1 DEF RequestInv, KeyHolder, KeyHeld, PickFits, RowOfEnded, tables
  <2>3. Progress(r)'
    <3>1. CASE st = "ok"
      BY <1>2, <1>3, <2>1, <3>1 DEF Progress, Redeeming, IncrementMatches, HasPick, tables
    <3>2. CASE st # "ok"
      BY <1>2, <2>1, <3>2, CheckTypes DEF Progress, failure, Response
    <3> QED BY <3>1, <3>2
  <2> QED BY <2>2, <2>3 DEF RequestInv
<1> QED BY <1>1, <1>4, LocalStep DEF KeyHeld

\* A committed key always has a response, so a request that finds its key never
\* executes a second time.
LEMMA KeyAnswered ==
  ASSUME IInv, NEW k \in Keys, keys[k].present
  PROVE  keys[k].response # NoReply
BY DEF IInv, LockInv, KeyRecordsItsOutcome

\* Every statement of a request but the commit keeps the invariant.
LEMMA LockStatement ==
  ASSUME IInv, NEW r \in Requests, Redeem(r), ~Commit(r)
  PROVE  LockInv'
<1> USE RedemptionAssumption DEF IInv, TypeInv, LockInv
<1>1. CASE RejectInput(r)
  BY <1>1, FinishKeeps DEF RejectInput
<1>2. CASE Begin(r)
  <2>1. \A s \in Requests \ {r} : pc'[s] = pc[s] /\ start'[s] = start[s]
    BY <1>2 DEF Begin, TypeOK
  <2>2. pc'[r] = IF req[r].key = NoKey THEN "code" ELSE "key"
    BY <1>2 DEF Begin, TypeOK
  <2>3. RequestInv(r)'
    BY <1>2, <2>2
    DEF Begin, RequestInv, KeyHolder, KeyHeld, Progress, PickFits, RowOfEnded, tables
  <2>4. req[r].key \in Keys => pc'[r] \notin KeyHeld
    BY <2>2 DEF KeyHeld
  <2> QED BY <1>2, <2>1, <2>2, <2>3, <2>4, LocalStep DEF Begin, CodeHeld
<1>3. CASE CreateIdempotencyKey(r)
  <2> DEFINE k == req[r].key
  <2>1. \A s \in Requests \ {r} : pc'[s] = pc[s] /\ wrote'[s] = wrote[s]
    BY <1>3 DEF CreateIdempotencyKey, TypeOK
  <2>2. /\ pc'[r] = IF keys[k].present THEN "lockKey" ELSE "code"
        /\ wrote'[r] = IF keys[k].present THEN {} ELSE {"key"}
        /\ k \in Keys
    BY <1>3 DEF CreateIdempotencyKey, TypeOK, Keyed
  <2>3. RequestInv(r)'
    <3>0. UNCHANGED <<keys, redemptions, req, pick>>
      BY <1>3 DEF CreateIdempotencyKey, tables
    <3>1. pick'[r] = NoCred /\ redemptions'[r] = NoReply
      BY <1>3, <3>0 DEF CreateIdempotencyKey, RequestInv, Progress, RowOfEnded
    <3>2. KeyHolder(r)'
      BY <2>2, <3>0 DEF KeyHolder, KeyHeld
    <3>3. PickFits(r)' /\ RowOfEnded(r)'
      BY <3>1 DEF PickFits, RowOfEnded
    <3>4. Progress(r)'
      BY <2>2, <3>1 DEF Progress
    <3> QED BY <3>2, <3>3, <3>4 DEF RequestInv
  <2>4. pc'[r] \in KeyHeld => KeyFree(k)
    BY <1>3, <2>2 DEF CreateIdempotencyKey, KeyHeld
  <2> QED BY <1>3, <2>1, <2>2, <2>3, <2>4, LocalStep DEF CreateIdempotencyKey, CodeHeld
<1>4. CASE LockIdempotencyKey(r)
  <2>1. ~(keys[req[r].key].hash = hashRequest(req[r]) /\ keys[req[r].key].response = NoReply)
    BY <1>4, KeyAnswered DEF LockIdempotencyKey, RequestInv, KeyHolder, Keyed
  <2> QED BY <1>4, <2>1, FinishKeeps DEF LockIdempotencyKey
<1>5. CASE GetCodeByCode(r)
  <2>1. CASE req[r].code \notin Codes
    <3>1. \A s \in Requests \ {r} : pc'[s] = pc[s] /\ answer'[s] = answer[s]
      BY <1>5, <2>1 DEF GetCodeByCode, TypeOK
    <3>2. pc'[r] = "record" /\ answer'[r] = failure("invalid_code")
      BY <1>5, <2>1 DEF GetCodeByCode, TypeOK
    <3>3. RequestInv(r)'
      <4>1. KeyHolder(r)' /\ PickFits(r)' /\ RowOfEnded(r)'
        BY <1>5, <3>2 DEF GetCodeByCode, RequestInv, KeyHolder, KeyHeld, Progress, PickFits,
                          RowOfEnded, tables
      <4>2. Progress(r)'
        BY <1>5, <3>2 DEF GetCodeByCode, RequestInv, Progress, failure, Response, Failures
      <4> QED BY <4>1, <4>2 DEF RequestInv
    <3>4. pc[r] \in KeyHeld
      BY <1>5 DEF GetCodeByCode, KeyHeld
    <3> QED BY <1>5, <2>1, <3>1, <3>3, <3>4, LocalStep DEF GetCodeByCode
  <2>2. CASE req[r].code \in Codes /\ CodeFree(req[r].code)
    BY <1>5, <2>2, ReadKeeps DEF GetCodeByCode
  <2>3. CASE req[r].code \in Codes /\ ~CodeFree(req[r].code)
    <3>1. \A s \in Requests \ {r} : pc'[s] = pc[s]
      BY <1>5, <2>3 DEF GetCodeByCode, TypeOK
    <3>2. pc[r] = "code" /\ pc'[r] = "codeWait"
      BY <1>5, <2>3 DEF GetCodeByCode, TypeOK
    <3>3. RequestInv(r)'
      BY <1>5, <2>3, <3>2 DEF GetCodeByCode, RequestInv, KeyHolder, KeyHeld, Progress,
                              PickFits, RowOfEnded, tables
    <3> QED BY <1>5, <2>3, <3>1, <3>2, <3>3, LocalStep DEF GetCodeByCode, KeyHeld, CodeHeld
  <2> QED BY <2>1, <2>2, <2>3
<1>6. CASE CodeLockGranted(r)
  <2>1. req[r].code \in Codes
    BY <1>6 DEF CodeLockGranted, RequestInv, Progress
  <2> QED BY <1>6, <2>1, ReadKeeps DEF CodeLockGranted
<1>7. CASE GetUnusedCredential(r)
  <2>0. pc[r] = "cred" /\ pc[r] \in KeyHeld /\ pc[r] \in CodeHeld
    BY <1>7 DEF GetUnusedCredential, KeyHeld, CodeHeld
  <2>1. CASE UnusedCredentials(r) = {}
    <3>1. \A s \in Requests \ {r} : pc'[s] = pc[s] /\ answer'[s] = answer[s]
      BY <1>7, <2>1 DEF GetUnusedCredential, TypeOK
    <3>2. pc'[r] = "record" /\ answer'[r] = failure("credential_unavailable") /\ pick' = pick
      BY <1>7, <2>1 DEF GetUnusedCredential, TypeOK
    <3>3. RequestInv(r)'
      BY <1>7, <2>0, <3>2 DEF GetUnusedCredential, RequestInv, KeyHolder, KeyHeld, Progress,
                        PickFits, RowOfEnded, tables, failure, Response, Failures
    <3> QED BY <1>7, <2>0, <3>1, <3>2, <3>3, LocalStep DEF GetUnusedCredential
  <2>2. CASE UnusedCredentials(r) # {}
    <3>1. PICK c \in UnusedCredentials(r) :
                 /\ pick' = [pick EXCEPT ![r] = c]
                 /\ pc' = [pc EXCEPT ![r] = "increment"]
                 /\ UNCHANGED answer
      BY <1>7, <2>2 DEF GetUnusedCredential
    <3>2. \A s \in Requests \ {r} : pc'[s] = pc[s] /\ pick'[s] = pick[s]
      BY <3>1 DEF TypeOK
    <3>3. pc'[r] = "increment" /\ pick'[r] = c
      BY <3>1 DEF TypeOK
    <3>4. c # NoCred /\ CredFree(c)
      BY <3>1 DEF UnusedCredentials
    <3>5. RequestInv(r)'
      <4>1. KeyHolder(r)' /\ RowOfEnded(r)'
        BY <1>7, <2>0, <3>3 DEF GetUnusedCredential, RequestInv, KeyHolder, KeyHeld, RowOfEnded, tables
      <4>2. Progress(r)'
        BY <1>7, <2>0, <3>3, <3>4 DEF GetUnusedCredential, RequestInv, Progress, Redeeming,
                                      IncrementMatches, HasPick, tables
      <4>3. PickFits(r)'
        BY <1>7, <3>1, <3>3 DEF GetUnusedCredential, UnusedCredentials, PickFits, tables
      <4> QED BY <4>1, <4>2, <4>3 DEF RequestInv
    <3> QED BY <1>7, <2>0, <3>1, <3>2, <3>3, <3>4, <3>5, LocalStep DEF GetUnusedCredential
  <2> QED BY <2>1, <2>2
<1>8. CASE IncrementCodeUseCount(r)
  <2>0. pc[r] = "increment" /\ pc[r] \in KeyHeld /\ pc[r] \in CodeHeld
    BY <1>8 DEF IncrementCodeUseCount, KeyHeld, CodeHeld
  <2>1. IncrementMatches(req[r].code)
    BY <2>0 DEF RequestInv, Progress, Redeeming
  <2>2. \A s \in Requests \ {r} : pc'[s] = pc[s] /\ wrote'[s] = wrote[s]
    BY <1>8, <2>1 DEF IncrementCodeUseCount, TypeOK
  <2>3. pc'[r] = "insert" /\ wrote'[r] = wrote[r] \cup {"count"}
    BY <1>8, <2>1 DEF IncrementCodeUseCount, TypeOK
  <2>4. RequestInv(r)'
    <3>1. KeyHolder(r)' /\ RowOfEnded(r)' /\ PickFits(r)'
      BY <1>8, <2>0, <2>1, <2>3 DEF IncrementCodeUseCount, RequestInv, KeyHolder, KeyHeld,
                                    RowOfEnded, PickFits, tables
    <3>2. Progress(r)'
      BY <1>8, <2>0, <2>1, <2>3 DEF IncrementCodeUseCount, RequestInv, Progress, Redeeming,
                                    IncrementMatches, HasPick, tables
    <3> QED BY <3>1, <3>2 DEF RequestInv
  <2> QED BY <1>8, <2>0, <2>1, <2>2, <2>4, LocalStep DEF IncrementCodeUseCount
<1>9. CASE InsertSuccess(r)
  <2>0. pc[r] = "insert" /\ pc[r] \in KeyHeld /\ pc[r] \in CodeHeld
    BY <1>9 DEF InsertSuccess, KeyHeld, CodeHeld
  <2>1. \A s \in Requests \ {r} :
          pc'[s] = pc[s] /\ wrote'[s] = wrote[s] /\ answer'[s] = answer[s]
    BY <1>9 DEF InsertSuccess, TypeOK
  <2>2. /\ pc'[r] = "commit" /\ answer'[r] = Response("success", pick[r])
        /\ wrote'[r] = wrote[r] \cup {"row"} \cup StoreResponse(r)
              \cup (IF HasWebhook[BatchOf[req[r].code]] THEN {"event"} ELSE {})
              \cup (IF pick[r] # NoCred THEN {"cred"} ELSE {})
    BY <1>9 DEF InsertSuccess, TypeOK
  <2>3. RequestInv(r)'
    <3>1. KeyHolder(r)' /\ RowOfEnded(r)' /\ PickFits(r)'
      BY <1>9, <2>0, <2>2 DEF InsertSuccess, StoreResponse, RequestInv, KeyHolder, KeyHeld,
                              RowOfEnded, PickFits, tables
    <3>2. Progress(r)'
      <4>1. Redeeming(r) /\ HasPick(r) /\ wrote[r] \subseteq {"key", "count"} /\ "count" \in wrote[r]
        BY <2>0 DEF RequestInv, Progress
      <4>2. /\ Redeeming(r)' /\ HasPick(r)' /\ pick'[r] = pick[r]
            /\ answer'[r].result = "success" /\ answer'[r].cred = pick[r]
        BY <1>9, <2>2, <4>1 DEF InsertSuccess, Redeeming, IncrementMatches, HasPick, Response, tables
      <4>3. /\ "row" \in wrote'[r] /\ "count" \in wrote'[r]
            /\ "response" \in wrote'[r] <=> req[r].key # NoKey
            /\ "event" \in wrote'[r] <=> HasWebhook[BatchOf[req[r].code]]
            /\ "cred" \in wrote'[r] <=> pick[r] # NoCred
        BY <2>2, <4>1 DEF StoreResponse
      <4> QED BY <1>9, <2>2, <4>2, <4>3 DEF InsertSuccess, Progress, Outcomes
    <3> QED BY <3>1, <3>2 DEF RequestInv
  <2> QED BY <1>9, <2>0, <2>1, <2>3, LocalStep DEF InsertSuccess
<1>10. CASE recordFailure(r)
  <2>0. pc[r] = "record" /\ pc[r] \in KeyHeld /\ pc[r] \in CodeHeld
    BY <1>10 DEF recordFailure, KeyHeld, CodeHeld
  <2>1. \A s \in Requests \ {r} : pc'[s] = pc[s] /\ wrote'[s] = wrote[s]
    BY <1>10 DEF recordFailure, TypeOK
  <2>2. pc'[r] = "commit" /\ wrote'[r] = wrote[r] \cup {"row"} \cup StoreResponse(r)
    BY <1>10 DEF recordFailure, TypeOK
  <2>3. RequestInv(r)'
    <3>1. KeyHolder(r)' /\ RowOfEnded(r)' /\ PickFits(r)'
      BY <1>10, <2>0, <2>2 DEF recordFailure, StoreResponse, RequestInv, KeyHolder, KeyHeld,
                              RowOfEnded, PickFits, tables
    <3>2. Progress(r)'
      BY <1>10, <2>0, <2>2 DEF recordFailure, StoreResponse, RequestInv, Progress,
                               Outcomes, Failures, tables
    <3> QED BY <3>1, <3>2 DEF RequestInv
  <2> QED BY <1>10, <2>0, <2>1, <2>3, LocalStep DEF recordFailure
<1>11. CASE Rollback(r)
  <2>1. pc[r] # "done"
    BY <1>11 DEF Rollback, InTransaction, KeyHeld
  <2> QED BY <1>11, <2>1, FinishKeeps DEF Rollback
<1> QED
  BY <1>1, <1>2, <1>3, <1>4, <1>5, <1>6, <1>7, <1>8, <1>9, <1>10, <1>11 DEF Redeem, Step

\* What a commit does, in terms of the answer that it publishes.
Publish(r) ==
  /\ \A s \in Requests \ {r} : /\ pc'[s] = pc[s] /\ pick'[s] = pick[s]
                               /\ wrote'[s] = wrote[s] /\ answer'[s] = answer[s]
                               /\ redemptions'[s] = redemptions[s]
  /\ pc[r] = "commit" /\ pc'[r] = "done" /\ pick'[r] = NoCred /\ wrote'[r] = {}
  /\ redemptions[r] = NoReply /\ redemptions'[r] = answer[r]
  /\ \A k \in Keys \ {req[r].key} : keys'[k] = keys[k]
  /\ req[r].key \in Keys =>
       /\ ~keys[req[r].key].present
       /\ keys'[req[r].key] =
            [present |-> TRUE, hash |-> hashRequest(req[r]), response |-> answer[r]]
  /\ \A c \in Codes : useCount'[c] =
       IF c = req[r].code /\ answer[r].result = "success" THEN useCount[c] + 1 ELSE useCount[c]
  /\ \A c \in Creds : creds'[c] = IF c = pick[r] THEN "used" ELSE creds[c]
  /\ outbox' = IF answer[r].result = "success" /\ HasWebhook[BatchOf[req[r].code]]
                 THEN outbox \cup {r} ELSE outbox
  /\ UNCHANGED <<now, batchStatus, codeStatus, req, start>>

\* A commit publishes exactly that, whatever path led to it.
LEMMA CommitWrites ==
  ASSUME IInv, NEW r \in Requests, Commit(r)
  PROVE  Publish(r)
<1> USE RedemptionAssumption DEF IInv, TypeInv, LockInv
<1>1. pc[r] = "commit" /\ pc[r] \in KeyHeld
  BY DEF Commit, KeyHeld
<1>2. PICK p : Finish(r, p)
  BY DEF Commit
<1>3. /\ \A s \in Requests \ {r} : /\ pc'[s] = pc[s] /\ pick'[s] = pick[s]
                                   /\ wrote'[s] = wrote[s] /\ answer'[s] = answer[s]
      /\ pc'[r] = "done" /\ pick'[r] = NoCred /\ wrote'[r] = {}
  BY <1>2 DEF Finish, TypeOK
<1>4. /\ redemptions[r] = NoReply /\ redemptions'[r] = answer[r]
      /\ \A s \in Requests \ {r} : redemptions'[s] = redemptions[s]
  BY <1>1 DEF Commit, RequestInv, Progress, RowOfEnded, TypeOK
<1>5. /\ \A k \in Keys \ {req[r].key} : keys'[k] = keys[k]
      /\ req[r].key \in Keys =>
           /\ ~keys[req[r].key].present
           /\ keys'[req[r].key] =
                [present |-> TRUE, hash |-> hashRequest(req[r]), response |-> answer[r]]
  <2>1. req[r].key \in Keys => /\ "key" \in wrote[r] /\ "response" \in wrote[r]
                               /\ ~keys[req[r].key].present
    BY <1>1 DEF RequestInv, Progress, KeyHolder
  <2> QED BY <2>1 DEF Commit, StoredBody, TypeOK
<1>6. \A c \in Codes : useCount'[c] =
        IF c = req[r].code /\ answer[r].result = "success"
          THEN useCount[c] + 1 ELSE useCount[c]
  <2>1. "count" \in wrote[r] <=> answer[r].result = "success"
    BY <1>1 DEF RequestInv, Progress
  <2> QED BY <2>1 DEF Commit, TypeOK
<1>7. \A c \in Creds : creds'[c] = IF c = pick[r] THEN "used" ELSE creds[c]
  <2>1. "cred" \in wrote[r] <=> pick[r] # NoCred
    BY <1>1 DEF RequestInv, Progress
  <2> QED BY <2>1 DEF Commit, TypeOK
<1>8. outbox' = IF answer[r].result = "success" /\ HasWebhook[BatchOf[req[r].code]]
                  THEN outbox \cup {r} ELSE outbox
  BY <1>1 DEF Commit, RequestInv, Progress
<1> QED BY <1>1, <1>3, <1>4, <1>5, <1>6, <1>7, <1>8 DEF Commit, Publish

\* A commit keeps the invariant: what it publishes is behind locks that it alone
\* holds, and it gives its key the response of its own row.
LEMMA LockCommit ==
  ASSUME IInv, NEW r \in Requests, Commit(r)
  PROVE  LockInv'
<1>w. Publish(r)
  BY CommitWrites
<1> USE RedemptionAssumption DEF IInv, TypeInv, LockInv
<1>0. UNCHANGED <<codeStatus, req, start>>
  BY <1>w DEF Publish
<1>1. pc[r] \in KeyHeld /\ pc[r] \in CodeHeld /\ pc'[r] \notin KeyHeld /\ pc'[r] \notin CodeHeld
  BY <1>w DEF Publish, KeyHeld, CodeHeld
<1>2. Mutex'
  BY <1>0, <1>1, <1>w DEF Publish, Mutex, HoldsKey, HoldsCode
<1>3. ASSUME NEW s \in Requests \ {r} PROVE RequestInv(s)'
  <2>0. /\ pc'[s] = pc[s] /\ pick'[s] = pick[s] /\ wrote'[s] = wrote[s]
        /\ answer'[s] = answer[s] /\ redemptions'[s] = redemptions[s]
    BY <1>w DEF Publish
  <2>1. KeyHolder(s)'
    <3>1. req[s].key \in Keys /\ pc[s] \in KeyHeld => req[s].key # req[r].key
      BY <1>1 DEF Mutex, HoldsKey
    <3>2. ASSUME req[s].key \in Keys, pc[s] \in KeyHeld PROVE ~keys'[req[s].key].present
      BY <3>1, <3>2, <1>w DEF Publish, RequestInv, KeyHolder
    <3>3. ASSUME pc[s] = "lockKey" PROVE keys'[req[s].key].present
      BY <3>3, <1>w DEF Publish, RequestInv, KeyHolder, Keyed
    <3>4. req[s].key \in Keys \cup {NoKey}
      BY DEF TypeOK, Inputs
    <3> QED BY <1>0, <2>0, <3>2, <3>3, <3>4 DEF RequestInv, KeyHolder
  <2>2. Progress(s)'
    <3>1. req[s].code \in Codes /\ pc[s] \in CodeHeld => useCount'[req[s].code] = useCount[req[s].code]
      BY <1>1, <1>w DEF Publish, Mutex, HoldsCode
    <3>2. pc[s] \in {"cred", "increment", "insert", "commit"} => pc[s] \in CodeHeld
      BY DEF CodeHeld
    <3> QED BY <1>0, <2>0, <3>1, <3>2
            DEF RequestInv, Progress, Redeeming, IncrementMatches, HasPick
  <2>3. PickFits(s)'
    <3>1. pick[s] # NoCred => pick[s] \in Creds /\ pick[s] # pick[r]
      BY DEF Mutex, TypeOK
    <3>2. pick[s] # NoCred => creds'[pick[s]] = creds[pick[s]]
      BY <1>w, <3>1 DEF Publish
    <3> QED BY <1>0, <2>0, <3>2 DEF RequestInv, PickFits
  <2>4. RowOfEnded(s)'
    BY <2>0 DEF RequestInv, RowOfEnded
  <2> QED BY <2>1, <2>2, <2>3, <2>4 DEF RequestInv
<1>4. RequestInv(r)'
  <2>1. answer[r].result \in Outcomes
    BY <1>w DEF Publish, RequestInv, Progress
  <2>2. pc'[r] = "done" /\ pick'[r] = NoCred /\ wrote'[r] = {} /\ redemptions'[r] = answer[r]
    BY <1>w DEF Publish
  <2> QED BY <2>1, <2>2 DEF RequestInv, KeyHolder, KeyHeld, Progress, PickFits, RowOfEnded
<1>5. KeyRecordsItsOutcome'
  <2> DEFINE rows(k) == {s \in Requests : req[s].key = k /\ redemptions[s] # NoReply}
  <2>1. answer[r] # NoReply
    BY <1>w DEF Publish, RequestInv, Progress, NoReply, failure, Response, Outcomes, Failures
  <2>2. ASSUME NEW k \in Keys \ {req[r].key} PROVE rows(k)' = rows(k) /\ keys'[k] = keys[k]
    BY <1>0, <1>w DEF Publish
  <2>3. ASSUME req[r].key \in Keys
        PROVE  /\ rows(req[r].key)' = {r} /\ keys'[req[r].key].present
               /\ keys'[req[r].key].hash = hashRequest(req[r])
               /\ keys'[req[r].key].response = redemptions'[r]
    <3>1. rows(req[r].key) = {}
      BY <2>3, <1>w DEF Publish, KeyRecordsItsOutcome
    <3> QED BY <1>0, <2>1, <2>3, <3>1, <1>w DEF Publish
  <2>4. ASSUME NEW k \in Keys
        PROVE  IF keys'[k].present
                 THEN \E s \in rows(k)' : /\ rows(k)' = {s}
                                          /\ keys'[k].hash = hashRequest(req[s])'
                                          /\ keys'[k].response = redemptions'[s]
                 ELSE rows(k)' = {}
    <3>1. CASE k = req[r].key
      BY <1>0, <2>3, <3>1 DEF hashRequest
    <3>2. CASE k # req[r].key
      <4>1. IF keys[k].present
              THEN \E s \in rows(k) : /\ rows(k) = {s}
                                      /\ keys[k].hash = hashRequest(req[s])
                                      /\ keys[k].response = redemptions[s]
              ELSE rows(k) = {}
        BY DEF KeyRecordsItsOutcome
      <4>2. \A s \in rows(k) : redemptions'[s] = redemptions[s]
        BY <1>w, <3>2 DEF Publish
      <4>3. rows(k)' = rows(k) /\ keys'[k] = keys[k]
        BY <2>2, <3>2
      <4> HIDE DEF rows
      <4> QED BY <1>0, <4>1, <4>2, <4>3 DEF hashRequest
    <3> QED BY <3>1, <3>2
  <2> QED BY <2>4 DEF KeyRecordsItsOutcome
<1> QED BY <1>2, <1>3, <1>4, <1>5

\* The admin operations wait for the row locks, so they change no row that a
\* transaction has read; the clock matters to none of it.
LEMMA LockOther ==
  ASSUME IInv, Admin \/ Tick
  PROVE  LockInv'
<1> USE RedemptionAssumption DEF IInv, TypeInv, LockInv
<1>1. ASSUME UNCHANGED <<local, keys, redemptions, useCount>>,
             \A c \in Codes : codeStatus'[c] = codeStatus[c] \/ CodeFree(c),
             \A c \in Creds : creds'[c] = creds[c] \/ CredFree(c)
      PROVE  LockInv'
  <2> USE <1>1
  <2>1. Mutex'
    BY DEF Mutex, HoldsKey, HoldsCode, local
  <2>2. KeyRecordsItsOutcome'
    BY DEF KeyRecordsItsOutcome, hashRequest, local
  <2>3. ASSUME NEW r \in Requests PROVE RequestInv(r)'
    <3>1. KeyHolder(r)' /\ RowOfEnded(r)'
      BY DEF RequestInv, KeyHolder, RowOfEnded, local
    <3>2. Progress(r)'
      <4>1. req[r].code \in Codes /\ pc[r] \in CodeHeld => codeStatus'[req[r].code] = codeStatus[req[r].code]
        BY DEF CodeFree, HoldsCode
      <4>2. pc[r] \in {"cred", "increment", "insert", "commit"} => pc[r] \in CodeHeld
        BY DEF CodeHeld
      <4> QED BY <4>1, <4>2 DEF RequestInv, Progress, Redeeming, IncrementMatches, HasPick, local
    <3>3. PickFits(r)'
      <4>1. pick[r] # NoCred => creds'[pick[r]] = creds[pick[r]]
        BY DEF CredFree, HoldsCred, TypeOK
      <4> QED BY <4>1 DEF RequestInv, PickFits, local
    <3> QED BY <3>1, <3>2, <3>3 DEF RequestInv
  <2> QED BY <2>1, <2>2, <2>3
<1>2. ASSUME NEW c \in Codes, ToggleCode(c) PROVE LockInv'
  BY <1>1, <1>2 DEF ToggleCode, TypeOK
<1>3. ASSUME NEW b \in Batches, ToggleBatch(b) PROVE LockInv'
  BY <1>1, <1>3 DEF ToggleBatch
<1>4. ASSUME NEW S \in SUBSET Creds, importCredentials(S) PROVE LockInv'
  <2>1. \A c \in S : CredFree(c)
    BY <1>4 DEF importCredentials, CredFree, HoldsCred, RequestInv, PickFits
  <2> QED BY <1>1, <1>4, <2>1 DEF importCredentials
<1>5. ASSUME NEW S \in SUBSET Creds, DeleteCredentials(S) PROVE LockInv'
  BY <1>1, <1>5 DEF DeleteCredentials
<1>6. CASE Tick
  BY <1>1, <1>6 DEF Tick, tables
<1> QED BY <1>2, <1>3, <1>4, <1>5, <1>6 DEF Admin

\* Initially no request holds a lock, and no key or row exists.
LEMMA LockInit == Init => IInv
<1> SUFFICES ASSUME Init PROVE IInv
  OBVIOUS
<1> USE RedemptionAssumption
<1>1. TypeInv
  BY TypeInit DEF Init, TypeInv, Keyed
<1>2. \A r \in Requests : pc[r] = "idle" /\ pick[r] = NoCred /\ wrote[r] = {} /\ redemptions[r] = NoReply
  BY DEF Init
<1>3. Mutex
  BY <1>2 DEF Mutex, HoldsKey, HoldsCode, KeyHeld, CodeHeld
<1>4. \A r \in Requests : RequestInv(r)
  BY <1>2 DEF RequestInv, KeyHolder, KeyHeld, Progress, PickFits, RowOfEnded
<1>5. KeyRecordsItsOutcome
  BY <1>2 DEF Init, KeyRecordsItsOutcome, NoKeyRow
<1> QED BY <1>1, <1>3, <1>4, <1>5 DEF IInv, LockInv

\* Every step, stuttering included, keeps the invariant.
LEMMA LockStep == IInv /\ [Next]_vars => IInv'
<1> SUFFICES ASSUME IInv, [Next]_vars PROVE IInv'
  OBVIOUS
<1>1. TypeInv'
  BY TypeStep DEF IInv
<1>2. CASE UNCHANGED vars
  <2> USE <1>2 DEF IInv, LockInv, vars, tables
  <2>1. Mutex' /\ KeyRecordsItsOutcome'
    BY DEF Mutex, HoldsKey, HoldsCode, KeyRecordsItsOutcome, hashRequest
  <2>2. ASSUME NEW r \in Requests PROVE RequestInv(r)'
    <3>1. KeyHolder(r)' /\ PickFits(r)' /\ RowOfEnded(r)'
      BY DEF RequestInv, KeyHolder, PickFits, RowOfEnded
    <3>2. Progress(r)'
      BY DEF RequestInv, Progress, Redeeming, IncrementMatches, HasPick
    <3> QED BY <3>1, <3>2 DEF RequestInv
  <2> QED BY <1>1, <2>1, <2>2
<1>3. ASSUME NEW r \in Requests, Redeem(r) PROVE LockInv'
  BY <1>3, LockStatement, LockCommit
<1>4. ASSUME Admin \/ Tick PROVE LockInv'
  BY <1>4, LockOther
<1> QED BY <1>1, <1>2, <1>3, <1>4 DEF Next, IInv

\* The invariant holds in every reachable state.
THEOREM LocksHold == Spec => []IInv
BY LockInit, LockStep, PTL DEF Spec

\* The increment of a use count never finds its locked code row changed, so the
\* error "code state changed while row was locked" is dead code.
THEOREM IncrementIsSafe == Spec => []IncrementNeverMisses
<1>1. IInv => IncrementNeverMisses
  BY DEF IInv, LockInv, RequestInv, Progress, Redeeming, IncrementNeverMisses
<1> QED BY <1>1, LocksHold, PTL

\* A committed idempotency key always stores the hash and the response of the
\* one redemption row that was written under it.
THEOREM KeysAreFaithful == Spec => []KeyRecordsItsOutcome
<1>1. IInv => KeyRecordsItsOutcome
  BY DEF IInv, LockInv
<1> QED BY <1>1, LocksHold, PTL
=============================================================================
