---------------------- MODULE RedemptionHistoryProofs -----------------------
(***************************************************************************)
(* What the committed rows say for ever: use counts, credentials, replays; *)
(* who never gets one, because the batch is disabled; and, at the end, the *)
(* refinement of RedeemPromise.                                            *)
(* Every proof is an induction that leans on IInv of RedemptionProofs: the *)
(* locks make each commit publish rows that nobody else touched.           *)
(***************************************************************************)
EXTENDS RedemptionProofs

\* Only a commit writes the tables; a request's start time is set before it has
\* a row, and its input never changes.
LEMMA StatementIsPrivate ==
  ASSUME IInv, NEW r \in Requests, Redeem(r), ~Commit(r)
  PROVE  /\ UNCHANGED <<tables, req>>
         /\ \A s \in Requests : redemptions[s] # NoReply => start'[s] = start[s]
<1>1. UNCHANGED <<tables, req>>
  BY DEF Redeem, Step, RejectInput, Begin, CreateIdempotencyKey, LockIdempotencyKey,
         GetCodeByCode, CodeLockGranted, GetUnusedCredential, IncrementCodeUseCount,
         InsertSuccess, recordFailure, Rollback
<1>2. CASE Begin(r)
  <2>1. redemptions[r] = NoReply
    BY <1>2 DEF Begin, IInv, LockInv, RequestInv, RowOfEnded
  <2>2. \A s \in Requests \ {r} : start'[s] = start[s]
    BY <1>2 DEF Begin, IInv, TypeInv, TypeOK
  <2> QED BY <1>1, <2>1, <2>2
<1>3. CASE ~Begin(r)
  <2>1. UNCHANGED start
    BY <1>3 DEF Redeem, Step, RejectInput, CreateIdempotencyKey, LockIdempotencyKey,
           GetCodeByCode, CodeLockGranted, GetUnusedCredential, IncrementCodeUseCount,
           InsertSuccess, recordFailure, Rollback
  <2> QED BY <1>1, <2>1
<1> QED BY <1>2, <1>3

\* The admin operations and the clock write no row that a redemption inserts and
\* leave every request alone; a credential row only moves forward.
LEMMA AdminIsSeparate ==
  ASSUME IInv, Admin \/ Tick
  PROVE  /\ UNCHANGED <<useCount, keys, redemptions, outbox, local>>
         /\ \A c \in Creds : /\ creds[c] \in {"used", "deleted"} => creds'[c] \in {"used", "deleted"}
                             /\ creds'[c] = "used" => creds[c] = "used"
<1>1. ASSUME NEW c \in Codes, ToggleCode(c)
      PROVE  UNCHANGED <<useCount, creds, keys, redemptions, outbox, local>>
  BY <1>1 DEF ToggleCode
<1>2. ASSUME NEW b \in Batches, ToggleBatch(b)
      PROVE  UNCHANGED <<useCount, creds, keys, redemptions, outbox, local>>
  BY <1>2 DEF ToggleBatch
<1>3. ASSUME NEW S \in SUBSET Creds, importCredentials(S) \/ DeleteCredentials(S)
      PROVE  /\ UNCHANGED <<useCount, keys, redemptions, outbox, local>>
             /\ \A c \in Creds :
                  /\ creds[c] \in {"used", "deleted"} => creds'[c] \in {"used", "deleted"}
                  /\ creds'[c] = "used" => creds[c] = "used"
  BY <1>3 DEF importCredentials, DeleteCredentials
<1>4. CASE Tick
  BY <1>4 DEF Tick, tables
<1> QED BY <1>1, <1>2, <1>3, <1>4 DEF Admin

-----------------------------------------------------------------------------
(* Credentials. *)

\* A commit that assigns a credential takes one that no row carries yet.
LEMMA CredentialCommit ==
  ASSUME IInv, CredentialPaidOnce, NEW r \in Requests, Commit(r)
  PROVE  CredentialPaidOnce'
<1>w. Publish(r)
  BY CommitWrites
<1>r. RequestInv(r)
  BY DEF IInv, LockInv
<1>a. /\ answer[r].cred = pick[r]
      /\ answer[r].result = "success" => HasPick(r)
      /\ answer[r].result # "success" => pick[r] = NoCred
      /\ pick[r] # NoCred => /\ creds[pick[r]] = "unused"
                             /\ CredPlan[pick[r]] = PlanOf[BatchOf[req[r].code]]
                             /\ CredExpires[pick[r]] > start[r]
  BY <1>w, <1>r DEF Publish, RequestInv, Progress, PickFits
<1>b. pick[r] \in Creds \cup {NoCred}
  BY DEF IInv, TypeInv, TypeOK
<1>c. \A s \in Requests : redemptions[s].cred \in Creds \cup {NoCred}
  BY DEF IInv, TypeInv, TypeOK, Replies
<1>d. \A s \in Requests : redemptions[s].cred # NoCred => redemptions[s].cred # pick[r]
  BY <1>a, <1>c DEF CredentialPaidOnce
<1>e. UNCHANGED <<req, start>>
  BY <1>w DEF Publish
<1>1. \A s, t \in Requests :
        s # t /\ redemptions'[s].cred = redemptions'[t].cred => redemptions'[s].cred = NoCred
  BY <1>w, <1>a, <1>d DEF Publish, CredentialPaidOnce
<1>2. ASSUME NEW s \in Requests
      PROVE  LET c == redemptions'[s].cred IN
               /\ c # NoCred => /\ Succeeded(s)'
                                /\ creds'[c] \in {"used", "deleted"}
                                /\ CredPlan[c] = PlanOf[BatchOf[req'[s].code]]
                                /\ CredExpires[c] > start'[s]
               /\ Succeeded(s)' /\ c = NoCred => PlanOf[BatchOf[req'[s].code]] = NoPlan
  <2>1. CASE s = r
    BY <1>w, <1>a, <1>b, <1>e, <2>1 DEF Publish, Succeeded, HasPick
  <2>2. CASE s # r
    <3>1. redemptions'[s] = redemptions[s]
      BY <1>w, <2>2 DEF Publish
    <3>2. redemptions[s].cred # NoCred => creds'[redemptions[s].cred] = creds[redemptions[s].cred]
      BY <1>w, <1>c, <1>d DEF Publish
    <3> QED BY <1>e, <3>1, <3>2 DEF CredentialPaidOnce, Succeeded
  <2> QED BY <2>1, <2>2
<1>3. \A c \in Creds : creds'[c] = "used" => \E s \in Requests : redemptions'[s].cred = c
  <2> SUFFICES ASSUME NEW c \in Creds, creds'[c] = "used"
               PROVE  \E s \in Requests : redemptions'[s].cred = c
    OBVIOUS
  <2>1. CASE c = pick[r]
    BY <1>w, <1>a, <2>1 DEF Publish
  <2>2. CASE c # pick[r]
    <3>1. PICK s \in Requests : redemptions[s].cred = c
      BY <1>w, <2>2 DEF Publish, CredentialPaidOnce
    <3>2. redemptions[r].cred = NoCred
      BY <1>w DEF Publish, NoReply, failure, Response
    <3>3. s # r
      BY <3>1, <3>2, RedemptionAssumption
    <3> QED BY <1>w, <3>1, <3>3 DEF Publish
  <2> QED BY <2>1, <2>2
<1> QED BY <1>1, <1>2, <1>3 DEF CredentialPaidOnce

\* The assignment of credentials is inductive relative to IInv.
LEMMA CredentialStep == IInv /\ CredentialPaidOnce /\ [Next]_vars => CredentialPaidOnce'
<1> SUFFICES ASSUME IInv, CredentialPaidOnce, [Next]_vars PROVE CredentialPaidOnce'
  OBVIOUS
<1>c. \A s \in Requests : redemptions[s].cred \in Creds \cup {NoCred}
  BY DEF IInv, TypeInv, TypeOK, Replies
<1>1. ASSUME UNCHANGED <<redemptions, req>>,
             \A s \in Requests : redemptions[s] # NoReply => start'[s] = start[s],
             \A c \in Creds : /\ creds[c] \in {"used", "deleted"} => creds'[c] \in {"used", "deleted"}
                              /\ creds'[c] = "used" => creds[c] = "used"
      PROVE  CredentialPaidOnce'
  <2>1. \A s \in Requests : redemptions[s].cred # NoCred => redemptions[s] # NoReply
    BY DEF NoReply, failure, Response
  <2> QED BY <1>1, <1>c, <2>1 DEF CredentialPaidOnce, Succeeded
<1>2. CASE UNCHANGED vars
  BY <1>1, <1>2 DEF vars, tables
<1>3. ASSUME NEW r \in Requests, Redeem(r) PROVE CredentialPaidOnce'
  <2>1. CASE Commit(r)
    BY <2>1, CredentialCommit
  <2>2. CASE ~Commit(r)
    BY <1>1, <1>3, <2>2, StatementIsPrivate DEF tables
  <2> QED BY <2>1, <2>2
<1>4. CASE Admin \/ Tick
  BY <1>1, <1>4, AdminIsSeparate DEF local
<1> QED BY <1>2, <1>3, <1>4 DEF Next

\* A credential is handed out at most once for all time, to a success of a batch
\* that assigns its plan, and unexpired at the transaction's start.
THEOREM CredentialsPaidOnce == Spec => []CredentialPaidOnce
<1>1. Init => CredentialPaidOnce
  BY RedemptionAssumption DEF Init, CredentialPaidOnce, NoReply, failure, Response, Succeeded
<1> QED BY <1>1, CredentialStep, LocksHold, PTL DEF Spec

-----------------------------------------------------------------------------
(* Use counts and webhook events. *)

\* A commit adds one success row and one use together, within the limit that the
\* increment checked under the lock.
LEMMA CountCommit ==
  ASSUME IInv, SuccessesAreCounted, NEW r \in Requests, Commit(r)
  PROVE  SuccessesAreCounted'
<1>w. Publish(r)
  BY CommitWrites
<1>e. UNCHANGED req
  BY <1>w DEF Publish
<1>n. ~Succeeded(r) /\ (Succeeded(r)' <=> answer[r].result = "success")
  BY <1>w DEF Publish, Succeeded, NoReply, failure, Response
<1>o. \A s \in Requests \ {r} : Succeeded(s)' <=> Succeeded(s)
  BY <1>w DEF Publish, Succeeded
<1>m. answer[r].result = "success" => Redeeming(r)
  BY <1>w DEF Publish, IInv, LockInv, RequestInv, Progress
<1>1. ASSUME NEW c \in Codes
      PROVE  useCount'[c] = Cardinality(SuccessesOf(c)') /\ useCount'[c] <= MaxUses[BatchOf[c]]
  <2>0. useCount[c] = Cardinality(SuccessesOf(c)) /\ useCount[c] <= MaxUses[BatchOf[c]]
        /\ useCount[c] \in Nat /\ MaxUses[BatchOf[c]] \in Nat
    BY RedemptionAssumption DEF SuccessesAreCounted, IInv, TypeInv, TypeOK
  <2>1. CASE c = req[r].code /\ answer[r].result = "success"
    <3>1. SuccessesOf(c)' = SuccessesOf(c) \cup {r} /\ r \notin SuccessesOf(c)
      BY <1>e, <1>n, <1>o, <2>1 DEF SuccessesOf
    <3>2. IsFiniteSet(SuccessesOf(c))
      BY FS_Subset, RedemptionAssumption DEF SuccessesOf
    <3>3. Cardinality(SuccessesOf(c)') = Cardinality(SuccessesOf(c)) + 1
      BY <3>1, <3>2, FS_AddElement
    <3>4. useCount'[c] = useCount[c] + 1
      BY <1>w, <2>1 DEF Publish
    <3>5. useCount[c] < MaxUses[BatchOf[c]]
      BY <1>m, <2>1 DEF Redeeming, IncrementMatches
    <3> QED BY <2>0, <3>3, <3>4, <3>5
  <2>2. CASE ~(c = req[r].code /\ answer[r].result = "success")
    <3>1. SuccessesOf(c)' = SuccessesOf(c)
      BY <1>e, <1>n, <1>o, <2>2 DEF SuccessesOf
    <3>2. useCount'[c] = useCount[c]
      BY <1>w, <2>2 DEF Publish
    <3> QED BY <2>0, <3>1, <3>2
  <2> QED BY <2>1, <2>2
<1>2. outbox' = {s \in Requests : Succeeded(s)' /\ HasWebhook[BatchOf[req[s].code]]}
  <2>1. outbox = {s \in Requests : Succeeded(s) /\ HasWebhook[BatchOf[req[s].code]]}
    BY DEF SuccessesAreCounted
  <2>2. outbox' = IF answer[r].result = "success" /\ HasWebhook[BatchOf[req[r].code]]
                    THEN outbox \cup {r} ELSE outbox
    BY <1>w DEF Publish
  <2> QED BY <1>n, <1>o, <2>1, <2>2
<1> QED BY <1>e, <1>1, <1>2 DEF SuccessesAreCounted

\* The count of successes is inductive relative to IInv.
LEMMA CountStep == IInv /\ SuccessesAreCounted /\ [Next]_vars => SuccessesAreCounted'
<1> SUFFICES ASSUME IInv, SuccessesAreCounted, [Next]_vars PROVE SuccessesAreCounted'
  OBVIOUS
<1>1. ASSUME UNCHANGED <<redemptions, req, useCount, outbox>> PROVE SuccessesAreCounted'
  <2>1. \A c \in Codes : SuccessesOf(c)' = SuccessesOf(c)
    BY <1>1 DEF SuccessesOf, Succeeded
  <2> QED BY <1>1, <2>1 DEF SuccessesAreCounted, Succeeded
<1>2. CASE UNCHANGED vars
  BY <1>1, <1>2 DEF vars, tables
<1>3. ASSUME NEW r \in Requests, Redeem(r) PROVE SuccessesAreCounted'
  <2>1. CASE Commit(r)
    BY <2>1, CountCommit
  <2>2. CASE ~Commit(r)
    BY <1>1, <1>3, <2>2, StatementIsPrivate DEF tables
  <2> QED BY <2>1, <2>2
<1>4. CASE Admin \/ Tick
  BY <1>1, <1>4, AdminIsSeparate DEF local
<1> QED BY <1>2, <1>3, <1>4 DEF Next

\* A code is never redeemed more often than its batch allows, its use count is
\* the number of its success rows, and exactly the successes of a batch with a
\* webhook have an event.
THEOREM CodesNotOverused == Spec => []SuccessesAreCounted
<1>1. Init => SuccessesAreCounted
  <2> SUFFICES ASSUME Init PROVE SuccessesAreCounted
    OBVIOUS
  <2>1. \A s \in Requests : ~Succeeded(s)
    BY DEF Init, Succeeded, NoReply, failure, Response
  <2>2. \A c \in Codes : SuccessesOf(c) = {}
    BY <2>1 DEF SuccessesOf
  <2>3. Cardinality({}) = 0
    BY FS_EmptySet
  <2>4. \A c \in Codes : useCount[c] = 0 /\ MaxUses[BatchOf[c]] \in Nat
    BY RedemptionAssumption DEF Init
  <2>5. outbox = {}
    BY DEF Init
  <2>6. \A c \in Codes : useCount[c] = Cardinality(SuccessesOf(c))
    BY <2>2, <2>3, <2>4
  <2> QED BY <2>1, <2>4, <2>5, <2>6 DEF SuccessesAreCounted
<1> QED BY <1>1, CountStep, LocksHold, PTL DEF Spec

-----------------------------------------------------------------------------
(* Replays and final rows. *)

\* A statement other than the commit answers its caller with an error, a
\* rejection, or what the row of its key says.
LEMMA ReplyOf ==
  ASSUME IInv, NEW r \in Requests, Redeem(r), ~Commit(r)
  PROVE  /\ \A s \in Requests \ {r} : reply'[s] = reply[s]
         /\ \/ reply'[r] = reply[r]
            \/ reply'[r].result \in {"error", "invalid_input"}
            \/ LockIdempotencyKey(r) /\ reply'[r] =
                 IF keys[req[r].key].hash = hashRequest(req[r]) THEN keys[req[r].key].response
                                                                ELSE failure("conflict")
<1>0. reply \in [Requests -> Replies]
  BY DEF IInv, TypeInv, TypeOK
<1>1. ASSUME NEW p, Finish(r, p)
      PROVE  reply'[r] = p /\ \A s \in Requests \ {r} : reply'[s] = reply[s]
  BY <1>0, <1>1 DEF Finish
<1>2. CASE RejectInput(r) \/ Rollback(r)
  BY <1>1, <1>2 DEF RejectInput, Rollback, failure, Response
<1>3. CASE LockIdempotencyKey(r)
  BY <1>1, <1>3 DEF LockIdempotencyKey
<1>4. CASE IncrementCodeUseCount(r)
  BY <1>1, <1>4 DEF IncrementCodeUseCount, failure, Response
<1>5. CASE \/ Begin(r) \/ CreateIdempotencyKey(r) \/ GetCodeByCode(r) \/ CodeLockGranted(r)
           \/ GetUnusedCredential(r) \/ InsertSuccess(r) \/ recordFailure(r)
  BY <1>5 DEF Begin, CreateIdempotencyKey, GetCodeByCode, CodeLockGranted, GetUnusedCredential,
              InsertSuccess, recordFailure
<1> QED BY <1>2, <1>3, <1>4, <1>5 DEF Redeem, Step

\* What ReplayFaithful says of one request.
AnswerIsFaithful(r) ==
  req[r].key # NoKey =>
    /\ reply[r].result \in Outcomes =>
         \E s \in Requests : req[s] = req[r] /\ redemptions[s] = reply[r]
    /\ reply[r].result = "conflict" =>
         \E s \in Requests : /\ req[s].key = req[r].key /\ req[s] # req[r]
                             /\ redemptions[s] # NoReply

\* An answer stays faithful as long as no committed row changes.
LEMMA AnswerStays ==
  ASSUME NEW r \in Requests, AnswerIsFaithful(r), UNCHANGED req, reply'[r] = reply[r],
         \A s \in Requests : redemptions[s] # NoReply => redemptions'[s] = redemptions[s]
  PROVE  AnswerIsFaithful(r)'
<1>1. reply[r].result \in Outcomes => reply[r] # NoReply
  BY DEF NoReply, failure, Response, Outcomes, Failures
<1> QED BY <1>1 DEF AnswerIsFaithful

\* The answer taken from a locked key row is faithful.
LEMMA AnswerFromKey ==
  ASSUME IInv, NEW r \in Requests, LockIdempotencyKey(r), UNCHANGED <<req, redemptions>>,
         reply'[r] = IF keys[req[r].key].hash = hashRequest(req[r])
                       THEN keys[req[r].key].response ELSE failure("conflict")
  PROVE  AnswerIsFaithful(r)'
<1> DEFINE k == req[r].key
<1>1. k \in Keys /\ keys[k].present
  BY DEF LockIdempotencyKey, IInv, TypeInv, LockInv, RequestInv, KeyHolder, Keyed
<1>2. PICK s \in Requests : /\ req[s].key = k /\ redemptions[s] # NoReply
                            /\ keys[k].hash = hashRequest(req[s])
                            /\ keys[k].response = redemptions[s]
  BY <1>1 DEF IInv, LockInv, KeyRecordsItsOutcome
<1>3. redemptions[s].result \in Outcomes
  BY <1>2 DEF IInv, LockInv, RequestInv, RowOfEnded
<1>4. req[s] \in Inputs /\ req[r] \in Inputs
  BY DEF IInv, TypeInv, TypeOK
<1>5. hashRequest(req[s]) = hashRequest(req[r]) <=> req[s] = req[r]
  BY <1>2, <1>4 DEF hashRequest, Inputs
<1>6. CASE keys[k].hash = hashRequest(req[r])
  <2>1. req[s] = req[r] /\ reply'[r] = redemptions[s]
    BY <1>2, <1>5, <1>6
  <2> QED BY <1>3, <2>1 DEF AnswerIsFaithful, Outcomes, Failures
<1>7. CASE keys[k].hash # hashRequest(req[r])
  <2>1. req[s] # req[r] /\ reply'[r].result = "conflict"
    BY <1>2, <1>5, <1>7 DEF failure, Response
  <2> QED BY <1>2, <2>1 DEF AnswerIsFaithful, Outcomes, Failures
<1> QED BY <1>6, <1>7

\* Committed rows are final, step by step.
LEMMA RowsAreFinal ==
  ASSUME IInv, [Next]_vars
  PROVE  /\ UNCHANGED req
         /\ \A s \in Requests : redemptions[s] # NoReply => redemptions'[s] = redemptions[s]
<1>1. CASE UNCHANGED vars
  BY <1>1 DEF vars, tables
<1>2. ASSUME NEW r \in Requests, Redeem(r), ~Commit(r) PROVE UNCHANGED <<req, redemptions>>
  BY <1>2, StatementIsPrivate DEF tables
<1>3. ASSUME NEW r \in Requests, Commit(r)
      PROVE  /\ UNCHANGED req
             /\ \A s \in Requests : redemptions[s] # NoReply => redemptions'[s] = redemptions[s]
  <2>1. Publish(r)
    BY <1>3, CommitWrites
  <2> QED BY <2>1 DEF Publish
<1>4. CASE Admin \/ Tick
  BY <1>4, AdminIsSeparate DEF local
<1> QED BY <1>1, <1>2, <1>3, <1>4 DEF Next

\* Faithful answers are inductive relative to IInv.
LEMMA ReplayStep == IInv /\ ReplayFaithful /\ [Next]_vars => ReplayFaithful'
<1> SUFFICES ASSUME IInv, ReplayFaithful, [Next]_vars, NEW t \in Requests
             PROVE  AnswerIsFaithful(t)'
  BY DEF ReplayFaithful, AnswerIsFaithful
<1>0. AnswerIsFaithful(t)
  BY DEF ReplayFaithful, AnswerIsFaithful
<1>1. CASE reply'[t] = reply[t]
  BY <1>0, <1>1, AnswerStays, RowsAreFinal
<1>2. CASE UNCHANGED vars \/ Admin \/ Tick
  BY <1>1, <1>2, AdminIsSeparate DEF vars, local
<1>3. ASSUME NEW r \in Requests, Redeem(r), ~Commit(r) PROVE AnswerIsFaithful(t)'
  <2>1. UNCHANGED <<req, redemptions>>
    BY <1>3, StatementIsPrivate DEF tables
  <2>2. CASE t # r
    BY <1>1, <1>3, <2>2, ReplyOf
  <2>3. CASE t = r /\ reply'[r].result \in {"error", "invalid_input"}
    BY <2>3 DEF AnswerIsFaithful, Outcomes, Failures
  <2>4. CASE /\ t = r /\ LockIdempotencyKey(r)
             /\ reply'[r] = IF keys[req[r].key].hash = hashRequest(req[r])
                              THEN keys[req[r].key].response ELSE failure("conflict")
    BY <2>1, <2>4, AnswerFromKey
  <2> QED BY <1>1, <1>3, <2>2, <2>3, <2>4, ReplyOf
<1>4. ASSUME NEW r \in Requests, Commit(r) PROVE AnswerIsFaithful(t)'
  <2>1. Publish(r)
    BY <1>4, CommitWrites
  <2>2. /\ reply'[r] \in {answer[r], failure("error")}
        /\ \A s \in Requests \ {r} : reply'[s] = reply[s]
    BY <1>4 DEF Commit, Finish, IInv, TypeInv, TypeOK
  <2>3. CASE t # r
    BY <1>1, <2>2, <2>3
  <2>4. CASE t = r /\ reply'[r] = answer[r]
    <3>1. reply'[r] = redemptions'[r] /\ reply'[r].result \in Outcomes
      BY <2>1, <2>4 DEF Publish, IInv, LockInv, RequestInv, Progress
    <3> QED BY <2>4, <3>1 DEF AnswerIsFaithful, Outcomes, Failures
  <2>5. CASE t = r /\ reply'[r] = failure("error")
    BY <2>5 DEF AnswerIsFaithful, Outcomes, Failures, failure, Response
  <2> QED BY <2>2, <2>3, <2>4, <2>5
<1> QED BY <1>2, <1>3, <1>4 DEF Next

\* Whatever a caller is answered under a key is the committed outcome of its own
\* request, and 409 is given only for a key that another request owns.
THEOREM ReplaysAreFaithful == Spec => []ReplayFaithful
<1>1. Init => ReplayFaithful
  BY DEF Init, ReplayFaithful, NoReply, failure, Response, Outcomes, Failures
<1> QED BY <1>1, ReplayStep, LocksHold, PTL DEF Spec

\* Committed history is never rewritten.
THEOREM HistoryNeverRewritten == Spec => HistoryIsFinal
<1> DEFINE Final ==
      /\ \A r \in Requests : redemptions[r] # NoReply => redemptions'[r] = redemptions[r]
      /\ \A k \in Keys : keys[k].present => keys'[k] = keys[k]
      /\ \A c \in Creds : creds[c] = "used" => creds'[c] \in {"used", "deleted"}
      /\ \A c \in Codes : useCount'[c] # useCount[c] =>
                            codeStatus[c] = "unused" /\ useCount'[c] = useCount[c] + 1
<1>1. ASSUME IInv, [Next]_vars PROVE Final
  <2>0. \A r \in Requests : redemptions[r] # NoReply => redemptions'[r] = redemptions[r]
    BY <1>1, RowsAreFinal
  <2>1. CASE UNCHANGED vars
    BY <2>0, <2>1 DEF vars, tables
  <2>2. ASSUME NEW r \in Requests, Redeem(r), ~Commit(r) PROVE UNCHANGED tables
    BY <1>1, <2>2, StatementIsPrivate
  <2>3. ASSUME NEW r \in Requests, Commit(r) PROVE Final
    <3>1. Publish(r)
      BY <1>1, <2>3, CommitWrites
    <3>2. answer[r].result = "success" => Redeeming(r)
      BY <1>1, <3>1 DEF Publish, IInv, LockInv, RequestInv, Progress
    <3>3. \A k \in Keys : keys[k].present => keys'[k] = keys[k]
      BY <3>1 DEF Publish
    <3>4. \A c \in Creds : creds[c] = "used" => creds'[c] \in {"used", "deleted"}
      BY <3>1 DEF Publish
    <3>5. \A c \in Codes : useCount'[c] # useCount[c] =>
                             codeStatus[c] = "unused" /\ useCount'[c] = useCount[c] + 1
      BY <3>1, <3>2 DEF Publish, Redeeming, IncrementMatches
    <3> QED BY <2>0, <3>3, <3>4, <3>5
  <2>4. CASE Admin \/ Tick
    BY <1>1, <2>0, <2>4, AdminIsSeparate
  <2> QED BY <1>1, <2>0, <2>1, <2>2, <2>3, <2>4 DEF Next, tables
<1>2. IInv /\ [Next]_vars => [Final]_vars
  BY <1>1
<1> QED BY <1>2, LocksHold, PTL DEF Spec, HistoryIsFinal
-----------------------------------------------------------------------------
(* Disabled batches. *)

BeforeLookup == {"idle", "key", "lockKey", "code"}

\* What a request for code c is, once its batch was disabled before its lookup:
\* not past the check, or failed.  A lookup that waits has seen the disabled batch.
Stopped(r, c) ==
  /\ req[r].code = c /\ ~Succeeded(r)
  /\ pc[r] \in BeforeLookup \cup {"codeWait", "record", "commit", "done"}
  /\ pc[r] = "codeWait" => batchSeen[r] = "disabled"
  /\ pc[r] = "commit" => answer[r].result # "success"

\* A request's statements leave the local state and the row of the others alone.
LEMMA OthersUntouched ==
  ASSUME IInv, NEW r \in Requests, NEW s \in Requests \ {r}, Redeem(s)
  PROVE  /\ UNCHANGED req /\ pc'[r] = pc[r] /\ batchSeen'[r] = batchSeen[r]
         /\ answer'[r] = answer[r] /\ redemptions'[r] = redemptions[r]
<1>t. /\ pc \in [Requests -> InTransaction \cup {"idle", "done"}]
      /\ batchSeen \in [Requests -> {"active", "disabled"}]
      /\ answer \in [Requests -> Replies] /\ redemptions \in [Requests -> Replies]
  BY DEF IInv, TypeInv, TypeOK
<1>f. ASSUME NEW p, Finish(s, p)
      PROVE  pc'[r] = pc[r] /\ batchSeen'[r] = batchSeen[r] /\ answer'[r] = answer[r]
  BY <1>t, <1>f DEF Finish
<1>1. CASE RejectInput(s) \/ Rollback(s)
  BY <1>1, <1>f DEF RejectInput, Rollback, tables
<1>2. CASE LockIdempotencyKey(s)
  BY <1>2, <1>f, <1>t DEF LockIdempotencyKey, tables
<1>3. CASE IncrementCodeUseCount(s)
  BY <1>3, <1>f, <1>t DEF IncrementCodeUseCount, tables
<1>4. CASE Commit(s)
  BY <1>4, <1>f, <1>t DEF Commit
<1>5. CASE Begin(s) \/ CreateIdempotencyKey(s)
  BY <1>5, <1>t DEF Begin, CreateIdempotencyKey, tables
<1>6. CASE GetCodeByCode(s) \/ CodeLockGranted(s)
  BY <1>6, <1>t DEF GetCodeByCode, CodeLockGranted, ReadLockedCode, tables
<1>7. CASE GetUnusedCredential(s) \/ InsertSuccess(s) \/ recordFailure(s)
  BY <1>7, <1>t DEF GetUnusedCredential, InsertSuccess, recordFailure, tables
<1> QED BY <1>1, <1>2, <1>3, <1>4, <1>5, <1>6, <1>7 DEF Redeem, Step

\* With the batch seen disabled the check of a locked code fails.
LEMMA DisabledFails ==
  ASSUME IInv, NEW r \in Requests, ReadLockedCode(r, "disabled")
  PROVE  pc'[r] = "record"
<1>1. checkCodeState(req[r].code, "disabled") # "ok"
  BY DEF checkCodeState
<1> QED BY <1>1 DEF ReadLockedCode, IInv, TypeInv, TypeOK

\* While the batch is disabled no step lets a stopped request succeed.
LEMMA StoppedStep ==
  ASSUME NEW r \in Requests, NEW c \in Codes
  PROVE  /\ IInv /\ Stopped(r, c) /\ batchStatus[BatchOf[c]] = "disabled" /\ [Next]_vars
         => Stopped(r, c)'
<1> SUFFICES ASSUME IInv, Stopped(r, c), batchStatus[BatchOf[c]] = "disabled", [Next]_vars
             PROVE  Stopped(r, c)'
  OBVIOUS
<1> USE DEF Stopped, BeforeLookup, Succeeded
<1>t. /\ pc \in [Requests -> InTransaction \cup {"idle", "done"}]
      /\ batchSeen \in [Requests -> {"active", "disabled"}]
      /\ redemptions \in [Requests -> Replies]
  BY DEF IInv, TypeInv, TypeOK
<1>f. ASSUME NEW p, Finish(r, p) PROVE pc'[r] = "done"
  BY <1>t, <1>f DEF Finish
<1>1. CASE UNCHANGED vars
  BY <1>1 DEF vars, tables
<1>2. CASE Admin \/ Tick
  BY <1>2, AdminIsSeparate DEF local
<1>3. ASSUME NEW s \in Requests \ {r}, Redeem(s) PROVE Stopped(r, c)'
  BY <1>3, OthersUntouched
<1>4. CASE Redeem(r)
  <2>0. ~Commit(r) => UNCHANGED <<req, redemptions>>
    BY <1>4, StatementIsPrivate DEF tables
  <2>1. CASE RejectInput(r) \/ Rollback(r)
    BY <2>1, <1>f DEF RejectInput, Rollback, tables
  <2>2. CASE Begin(r) \/ CreateIdempotencyKey(r)
    BY <2>2, <1>t DEF Begin, CreateIdempotencyKey, tables
  <2>3. CASE LockIdempotencyKey(r)
    BY <2>3, <1>f, <1>t DEF LockIdempotencyKey, tables
  <2>4. CASE GetCodeByCode(r)
    BY <2>4, <1>t, DisabledFails DEF GetCodeByCode, tables
  <2>5. CASE CodeLockGranted(r)
    BY <2>5, <1>t, DisabledFails DEF CodeLockGranted, tables
  <2>6. CASE recordFailure(r)
    <3>1. answer[r].result \in Failures
      BY <2>6 DEF recordFailure, IInv, LockInv, RequestInv, Progress
    <3> QED BY <2>6, <3>1, <1>t DEF recordFailure, tables, Failures
  <2>7. CASE GetUnusedCredential(r) \/ IncrementCodeUseCount(r) \/ InsertSuccess(r)
    BY <2>7 DEF GetUnusedCredential, IncrementCodeUseCount, InsertSuccess
  <2>8. CASE Commit(r)
    <3>1. pc'[r] = "done" /\ req' = req
      BY <2>8, <1>f DEF Commit
    <3>2. redemptions'[r] \in {answer[r], redemptions[r]} /\ pc[r] = "commit"
      BY <2>8, <1>t DEF Commit
    <3> QED BY <3>1, <3>2
  <2> QED BY <1>4, <2>1, <2>2, <2>3, <2>4, <2>5, <2>6, <2>7, <2>8 DEF Redeem, Step
<1> QED BY <1>1, <1>2, <1>3, <1>4 DEF Next

\* A request whose lookup begins while its batch is disabled, and stays so, is never
\* redeemed: also when the lookup waits for the code row and re-reads only that.
THEOREM DisabledBatchesStop == Spec => DisabledBatchStops
<1> SUFFICES ASSUME NEW r \in Requests, NEW c \in Codes
             PROVE  Spec => [](/\ pc[r] \in {"idle", "key", "lockKey", "code"} /\ req[r].code = c
                               /\ [](batchStatus[BatchOf[c]] = "disabled")
                               => [](~Succeeded(r)))
  BY DEF DisabledBatchStops
<1>1. IInv /\ pc[r] \in {"idle", "key", "lockKey", "code"} /\ req[r].code = c => Stopped(r, c)
  <2> SUFFICES ASSUME IInv, pc[r] \in {"idle", "key", "lockKey", "code"}, req[r].code = c
               PROVE  Stopped(r, c)
    OBVIOUS
  <2>1. redemptions[r] = NoReply
    BY DEF IInv, LockInv, RequestInv, RowOfEnded
  <2> QED BY <2>1 DEF Stopped, BeforeLookup, Succeeded, NoReply, failure, Response
<1>2. Stopped(r, c) => ~Succeeded(r)
  BY DEF Stopped
<1> QED BY <1>1, <1>2, StoppedStep, LocksHold, PTL DEF Spec

-----------------------------------------------------------------------------
(***************************************************************************)
(* The transactions of Redemption implement RedeemPromise: the refinement  *)
(* mapping is the one of Promise (req, redemptions and reply), a commit is *)
(* a decision, an answer from a locked key row a repetition, any other     *)
(* answer a refusal, and every other step stutters.                        *)
(***************************************************************************)

\* A caller is answered only when its request ends.
AnsweredAtEnd == \A r \in Requests : reply[r] # NoReply => pc[r] = "done"

\* All that the refinement needs to know of a state.
RefInv == IInv /\ SuccessesAreCounted /\ CredentialPaidOnce /\ AnsweredAtEnd

\* What a request of Redemption does to what its caller sees.
LEMMA OneAnswer ==
  ASSUME IInv, NEW r \in Requests, Redeem(r)
  PROVE  /\ \A s \in Requests \ {r} : pc'[s] = pc[s]
         /\ \/ reply' = reply
            \/ pc'[r] = "done" /\ \E p : reply' = [reply EXCEPT ![r] = p]
         /\ pc[r] # "done"
<1>t. pc \in [Requests -> InTransaction \cup {"idle", "done"}]
  BY DEF IInv, TypeInv, TypeOK
<1>f. ASSUME NEW p, Finish(r, p)
      PROVE  /\ \A s \in Requests \ {r} : pc'[s] = pc[s]
             /\ pc'[r] = "done" /\ \E q : reply' = [reply EXCEPT ![r] = q]
  BY <1>t, <1>f DEF Finish
<1>1. CASE RejectInput(r) \/ Rollback(r)
  BY <1>1, <1>f DEF RejectInput, Rollback, InTransaction, KeyHeld
<1>2. CASE LockIdempotencyKey(r)
  BY <1>2, <1>f, <1>t DEF LockIdempotencyKey
<1>3. CASE IncrementCodeUseCount(r)
  BY <1>3, <1>f, <1>t DEF IncrementCodeUseCount
<1>4. CASE Commit(r)
  BY <1>4, <1>f DEF Commit
<1>5. CASE Begin(r) \/ CreateIdempotencyKey(r)
  BY <1>5, <1>t DEF Begin, CreateIdempotencyKey
<1>6. CASE GetCodeByCode(r) \/ CodeLockGranted(r)
  BY <1>6, <1>t DEF GetCodeByCode, CodeLockGranted, ReadLockedCode
<1>7. CASE GetUnusedCredential(r) \/ InsertSuccess(r) \/ recordFailure(r)
  BY <1>7, <1>t DEF GetUnusedCredential, InsertSuccess, recordFailure
<1> QED BY <1>1, <1>2, <1>3, <1>4, <1>5, <1>6, <1>7 DEF Redeem, Step

\* AnsweredAtEnd is inductive: an ended request takes no further statement.
LEMMA AnsweredStep == IInv /\ AnsweredAtEnd /\ [Next]_vars => AnsweredAtEnd'
<1> SUFFICES ASSUME IInv, AnsweredAtEnd, [Next]_vars PROVE AnsweredAtEnd'
  OBVIOUS
<1>1. CASE UNCHANGED vars \/ Admin \/ Tick
  BY <1>1, AdminIsSeparate DEF AnsweredAtEnd, vars, local
<1>2. ASSUME NEW r \in Requests, Redeem(r) PROVE AnsweredAtEnd'
  <2>1. reply \in [Requests -> Replies]
    BY DEF IInv, TypeInv, TypeOK
  <2>2. \A s \in Requests \ {r} : reply'[s] = reply[s] /\ pc'[s] = pc[s]
    BY <1>2, <2>1, OneAnswer
  <2>3. reply'[r] # NoReply => pc'[r] = "done"
    BY <1>2, <2>1, OneAnswer DEF AnsweredAtEnd
  <2> QED BY <2>2, <2>3 DEF AnsweredAtEnd
<1> QED BY <1>1, <1>2 DEF Next

\* The initial database has decided nothing and told nobody anything.
LEMMA PromiseBegins == Init => Promise!PromiseInit
BY DEF Init, Promise!PromiseInit, Promise!Undecided, NoReply, failure, Response

\* A commit decides: the key is still unowned, the use is left and the
\* credential unpaid, although all three were looked up statements before.
LEMMA CommitDecides ==
  ASSUME RefInv, NEW r \in Requests, Commit(r)
  PROVE  Promise!PromiseNext
<1> USE DEF RefInv
<1>w. Publish(r)
  BY CommitWrites
<1>t. /\ redemptions \in [Requests -> Replies] /\ reply \in [Requests -> Replies]
      /\ answer[r] \in Replies /\ req[r] \in Inputs
  BY DEF IInv, TypeInv, TypeOK
<1>u. NoReply = Promise!Undecided /\ failure("error") = Promise!Told("error")
  BY DEF NoReply, failure, Response, Promise!Undecided, Promise!Told
<1>p. /\ answer[r].result \in Outcomes /\ answer[r].cred = pick[r]
      /\ answer[r].result = "success" => Redeeming(r)
      /\ answer[r].result # "success" => pick[r] = NoCred
      /\ pick[r] # NoCred => pick[r] \in Creds /\ creds[pick[r]] = "unused"
  BY <1>w DEF Publish, IInv, LockInv, RequestInv, Progress, PickFits, TypeInv, TypeOK
<1>1. answer[r] \in [result: Outcomes, cred: Creds \cup {NoCred}]
  BY <1>t, <1>p DEF Replies
<1>2. redemptions[r] = Promise!Undecided
  BY <1>w, <1>u DEF Publish
<1>3. req[r].key # NoKey => Promise!Owners(r) = {}
  <2> SUFFICES ASSUME req[r].key # NoKey PROVE Promise!Owners(r) = {}
    OBVIOUS
  <2>1. req[r].key \in Keys
    BY <1>t DEF Inputs
  <2>2. ~keys[req[r].key].present
    BY <1>w, <2>1 DEF Publish
  <2>3. {s \in Requests : req[s].key = req[r].key /\ redemptions[s] # NoReply} = {}
    BY <2>1, <2>2 DEF IInv, LockInv, KeyRecordsItsOutcome
  <2> QED BY <1>u, <2>3 DEF Promise!Owners
<1>4. Promise!Affordable(r, answer[r])
  <2> SUFFICES ASSUME answer[r].result = "success"
               PROVE  /\ req[r].code \in Codes
                      /\ Cardinality(Promise!Granted(req[r].code)) < MaxUses[BatchOf[req[r].code]]
    BY DEF Promise!Affordable, Promise!Cardinality, Cardinality, Promise!IsFiniteSet, IsFiniteSet
  <2>1. req[r].code \in Codes /\ useCount[req[r].code] < MaxUses[BatchOf[req[r].code]]
    BY <1>p DEF Redeeming, IncrementMatches
  <2>2. Promise!Granted(req[r].code) = SuccessesOf(req[r].code)
    BY DEF Promise!Granted, SuccessesOf, Succeeded
  <2> QED BY <2>1, <2>2 DEF SuccessesAreCounted
<1>5. Promise!Unpaid(answer[r].cred)
  <2>1. ASSUME NEW s \in Requests, pick[r] # NoCred PROVE redemptions[s].cred # pick[r]
    BY <1>p, <2>1 DEF CredentialPaidOnce
  <2> QED BY <1>p, <2>1 DEF Promise!Unpaid
<1>6. redemptions' = [redemptions EXCEPT ![r] = answer[r]]
  BY <1>w, <1>t DEF Publish, Commit
<1>7. Promise!Answer(r, answer[r]) \/ Promise!Answer(r, Promise!Told("error"))
  <2>1. reply[r] = NoReply
    BY <1>w DEF Publish, AnsweredAtEnd
  <2>2. PICK p \in {answer[r], failure("error")} : reply' = [reply EXCEPT ![r] = p]
    BY DEF Commit, Finish
  <2> QED BY <1>u, <2>1, <2>2 DEF Promise!Answer
<1>8. Promise!Decide(r, answer[r])
  BY <1>w, <1>p, <1>2, <1>3, <1>4, <1>5, <1>6, <1>7 DEF Promise!Decide, Publish
<1> QED BY <1>1, <1>8 DEF Promise!PromiseNext

\* An answer from a locked key row repeats the decision made under that key, or
\* tells a different request of the conflict.
LEMMA ReplayRepeats ==
  ASSUME RefInv, NEW r \in Requests, LockIdempotencyKey(r)
  PROVE  Promise!PromiseNext \/ UNCHANGED <<req, redemptions, reply>>
<1> USE DEF RefInv
<1> DEFINE k == req[r].key
           row == keys[k]
           p == IF row.hash = hashRequest(req[r]) THEN row.response ELSE failure("conflict")
<1>u. NoReply = Promise!Undecided /\ failure("conflict") = Promise!Told("conflict")
  BY DEF NoReply, failure, Response, Promise!Undecided, Promise!Told
<1>1. UNCHANGED <<req, redemptions>>
  BY DEF LockIdempotencyKey, tables
<1>2. CASE UNCHANGED reply
  BY <1>1, <1>2
<1>3. CASE Finish(r, p)
  <2>1. k \in Keys /\ keys[k].present /\ pc[r] # "done"
    BY DEF LockIdempotencyKey, IInv, TypeInv, LockInv, RequestInv, KeyHolder, Keyed
  <2>2. PICK s \in Requests : /\ req[s].key = k /\ redemptions[s] # NoReply
                              /\ row.hash = hashRequest(req[s])
                              /\ row.response = redemptions[s]
    BY <2>1 DEF IInv, LockInv, KeyRecordsItsOutcome
  <2>3. hashRequest(req[s]) = hashRequest(req[r]) <=> req[s] = req[r]
    <3>1. req[s] \in Inputs /\ req[r] \in Inputs
      BY DEF IInv, TypeInv, TypeOK
    <3> QED BY <2>2, <3>1 DEF hashRequest, Inputs
  <2>4. s \in Promise!Owners(r)
    BY <1>u, <2>2 DEF Promise!Owners
  <2>5. reply[r] = NoReply /\ reply' = [reply EXCEPT ![r] = p]
    BY <1>3, <2>1 DEF AnsweredAtEnd, Finish
  <2>6. IF req[s] = req[r] THEN Promise!Answer(r, redemptions[s])
                           ELSE Promise!Answer(r, Promise!Told("conflict"))
    BY <1>u, <2>2, <2>3, <2>5 DEF Promise!Answer
  <2>7. k # NoKey
    BY <2>1, RedemptionAssumption
  <2>8. Promise!Repeat(r)
    BY <1>1, <2>4, <2>6, <2>7 DEF Promise!Repeat
  <2> QED BY <2>8 DEF Promise!PromiseNext
<1> QED BY <1>2, <1>3 DEF LockIdempotencyKey

\* A request that ends without a commit or a replay is refused.
LEMMA FailureRefuses ==
  ASSUME RefInv, NEW r \in Requests, NEW p \in {failure("error"), failure("invalid_input")},
         Finish(r, p), pc[r] # "done", UNCHANGED <<req, redemptions>>
  PROVE  Promise!PromiseNext
<1>1. reply[r] = NoReply /\ reply' = [reply EXCEPT ![r] = p]
  BY DEF RefInv, AnsweredAtEnd, Finish
<1>2. Promise!Refuse(r)
  BY <1>1 DEF Promise!Refuse, Promise!Answer, Promise!Undecided, Promise!Told,
              NoReply, failure, Response
<1> QED BY <1>2 DEF Promise!PromiseNext

\* Every step of Redemption is a step of the promise or changes nothing that
\* the promise speaks of.
LEMMA PromiseStep == RefInv /\ [Next]_vars => [Promise!PromiseNext]_(Promise!promiseVars)
<1> SUFFICES ASSUME RefInv, [Next]_vars
             PROVE  Promise!PromiseNext \/ UNCHANGED <<req, redemptions, reply>>
  BY DEF Promise!promiseVars
<1> USE DEF RefInv
<1>1. CASE UNCHANGED vars \/ Admin \/ Tick
  BY <1>1, AdminIsSeparate DEF vars, tables, local
<1>2. ASSUME NEW r \in Requests, Redeem(r)
      PROVE  Promise!PromiseNext \/ UNCHANGED <<req, redemptions, reply>>
  <2>0. pc[r] # "done"
    BY <1>2, OneAnswer
  <2>1. CASE Commit(r)
    BY <2>1, CommitDecides
  <2>2. CASE LockIdempotencyKey(r)
    BY <2>2, ReplayRepeats
  <2>3. CASE RejectInput(r) \/ Rollback(r)
    BY <2>0, <2>3, FailureRefuses DEF RejectInput, Rollback, tables
  <2>4. CASE IncrementCodeUseCount(r)
    BY <2>0, <2>4, FailureRefuses DEF IncrementCodeUseCount, tables
  <2>5. CASE Begin(r) \/ CreateIdempotencyKey(r) \/ GetCodeByCode(r) \/ CodeLockGranted(r)
    BY <2>5 DEF Begin, CreateIdempotencyKey, GetCodeByCode, CodeLockGranted, tables
  <2>6. CASE GetUnusedCredential(r) \/ InsertSuccess(r) \/ recordFailure(r)
    BY <2>6 DEF GetUnusedCredential, InsertSuccess, recordFailure, tables
  <2> QED BY <1>2, <2>1, <2>2, <2>3, <2>4, <2>5, <2>6 DEF Redeem, Step
<1> QED BY <1>1, <1>2 DEF Next

\* Whatever the interleaving, lost acknowledgements and rollbacks, the callers of
\* Redeem see a run of RedeemPromise: every request is decided at most once, within
\* the limit of its code, under a key nobody else owns, with a credential nobody
\* else was given, and a replay repeats the decision.
THEOREM RedeemKeepsPromise == Spec => KeepsPromise
<1>1. Init => AnsweredAtEnd
  BY DEF Init, AnsweredAtEnd
<1>2. Spec => []AnsweredAtEnd
  BY <1>1, AnsweredStep, LocksHold, PTL DEF Spec
<1>3. Spec => []RefInv
  BY <1>2, LocksHold, CodesNotOverused, CredentialsPaidOnce, PTL DEF RefInv
<1> QED BY <1>3, PromiseBegins, PromiseStep, PTL DEF Spec, KeepsPromise, Promise!PromiseSpec
=============================================================================
