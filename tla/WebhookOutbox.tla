---------------------------- MODULE WebhookOutbox ----------------------------
(***************************************************************************)
(* Delivery of webhook events: the webhook_outbox table, the workers that  *)
(* lease and deliver its events (webhook.Worker), the webhook columns of   *)
(* the redemptions and AdminHandler.ResendWebhook.  Every statement of the *)
(* worker is its own transaction, so one action is one statement.          *)
(*                                                                         *)
(* Time appears only as "this instant has passed": due[e] is               *)
(* scheduled_at <= NOW(), expired[e] is lease_expires_at <= NOW().  A lease *)
(* token is 16 random bytes; it is identified with the attempt number of   *)
(* its lease, which is different for every lease of an event.              *)
(***************************************************************************)
EXTENDS Naturals

CONSTANTS
  Redemptions,  \* successful redemptions of batches with a webhook_url
  Events,       \* event ids (random, never drawn twice)
  NoEvent,
  Workers,      \* one delivery goroutine per worker process
  Details,      \* response details a delivery may end with, see Storable
  MaxAttempts,  \* Config.MaxAttempts
  MaxLeases,    \* bound on the attempts column, above MaxAttempts
  MaxDrops,     \* bound on worker crashes and failed statements
  Timely        \* no lease runs out while its worker is still busy with it

\* chk_outbox_last_response_length, the same check on redemptions and the
\* encoding of TEXT: a detail longer than 500 characters, or not valid UTF-8
\* without NUL, fails the UPDATE.
Storable(detail) == detail = "short"

ASSUME WebhookAssumption ==
  /\ NoEvent \notin Events
  /\ Details \subseteq {"short", "unstorable"} /\ "short" \in Details
  /\ MaxAttempts \in Nat \ {0} /\ MaxLeases \in Nat /\ MaxDrops \in Nat
  /\ Timely \in BOOLEAN

VARIABLES
  hookStatus,  \* redemptions.webhook_status
  hookEvent,   \* redemptions.event_id
  orphan,      \* redemptions.batch_id IS NULL
  owner,       \* webhook_outbox.redemption_id, once the row exists
  status,      \* webhook_outbox.status
  due,         \* scheduled_at <= NOW()
  lease,       \* lease_token, 0 for NULL
  expired,     \* lease_expires_at <= NOW()
  attempts,    \* webhook_outbox.attempts
  received,    \* events the webhook target has accepted at least once
  drops,       \* crashes and failed statements so far
  wpc,         \* the next statement of each worker
  wevent,      \* the event it has leased
  wtoken,      \* the lease token and attempt number it was given
  wverdict,    \* the outcome of its delivery
  wdetail      \* the response detail it will store

redemptionVars == <<hookStatus, hookEvent, orphan>>
outboxVars == <<owner, status, due, lease, expired, attempts>>
workerVars == <<wpc, wevent, wtoken, wverdict, wdetail>>
vars == <<redemptionVars, outboxVars, received, drops, workerVars>>

Terminal == {"success", "dead_letter"}
Live(e) == status[e] \in {"pending", "failed"}

Init ==
  /\ hookStatus = [m \in Redemptions |-> "none"]
  /\ hookEvent = [m \in Redemptions |-> NoEvent]
  /\ orphan = [m \in Redemptions |-> FALSE]
  /\ owner \in [Events -> Redemptions]
  /\ status = [e \in Events |-> "absent"]
  /\ due = [e \in Events |-> FALSE]
  /\ lease = [e \in Events |-> 0]
  /\ expired = [e \in Events |-> FALSE]
  /\ attempts = [e \in Events |-> 0]
  /\ received = {}
  /\ drops = 0
  /\ wpc = [w \in Workers |-> "idle"]
  /\ wevent = [w \in Workers |-> NoEvent]
  /\ wtoken = [w \in Workers |-> 0]
  /\ wverdict = [w \in Workers |-> "none"]
  /\ wdetail = [w \in Workers |-> "short"]

\* INSERT INTO webhook_outbox with status pending and scheduled_at NOW().
CreateWebhookOutboxEvent(e, m) ==
  /\ status[e] = "absent" /\ owner[e] = m
  /\ status' = [status EXCEPT ![e] = "pending"]
  /\ due' = [due EXCEPT ![e] = TRUE]
  /\ hookStatus' = [hookStatus EXCEPT ![m] = "pending"]
  /\ hookEvent' = [hookEvent EXCEPT ![m] = e]
  /\ UNCHANGED <<orphan, owner, lease, expired, attempts, received, drops, workerVars>>

\* The commit of a successful redemption: its row and its first event.
Redeem(m, e) ==
  /\ hookStatus[m] = "none"
  /\ CreateWebhookOutboxEvent(e, m)

\* Faulty variant: a pending redemption may be resent.
ResendWebhook_WhilePending(m, e) ==
  /\ ~orphan[m]
  /\ hookStatus[m] # "none"
  /\ CreateWebhookOutboxEvent(e, m)

\* PrepareRedemptionWebhookResend and the insert, one transaction.  A pending
\* redemption is refused with 409.
ResendWebhook(m, e) ==
  /\ ~orphan[m]
  /\ hookStatus[m] \in {"success", "failed", "dead_letter"}
  /\ CreateWebhookOutboxEvent(e, m)

\* batch_id has ON DELETE SET NULL; no handler deletes a batch, an operator may.
RemoveBatch(m) ==
  /\ hookStatus[m] # "none" /\ ~orphan[m]
  /\ orphan' = [orphan EXCEPT ![m] = TRUE]
  /\ UNCHANGED <<hookStatus, hookEvent, outboxVars, received, drops, workerVars>>

-----------------------------------------------------------------------------
(* The worker. *)

\* Faulty variant: the status filter is missing.
Leasable_AnyStatus(e) == status[e] # "absent" /\ due[e] /\ (lease[e] = 0 \/ expired[e])

\* Faulty variant: a lease that ran out is not taken over.
Leasable_NoTakeover(e) == Live(e) /\ due[e] /\ lease[e] = 0

\* WHERE clause of LeaseWebhookOutboxEvent.
Leasable(e) == Live(e) /\ due[e] /\ (lease[e] = 0 \/ expired[e])

\* Faulty variant: a lease that is taken over keeps its token.
generateLeaseToken_Kept(e) == IF lease[e] = 0 THEN attempts[e] + 1 ELSE lease[e]

\* A token no other lease of the event has had.
generateLeaseToken(e) == attempts[e] + 1

\* Which leasable row is the oldest is left open.
leaseEvent(w, e) ==
  /\ wpc[w] = "idle"
  /\ Leasable(e)
  /\ attempts[e] < MaxLeases
  /\ status' = [status EXCEPT ![e] = "pending"]
  /\ attempts' = [attempts EXCEPT ![e] = @ + 1]
  /\ lease' = [lease EXCEPT ![e] = generateLeaseToken(e)]
  /\ expired' = [expired EXCEPT ![e] = FALSE]
  /\ wpc' = [wpc EXCEPT ![w] = "deliver"]
  /\ wevent' = [wevent EXCEPT ![w] = e]
  /\ wtoken' = [wtoken EXCEPT ![w] = generateLeaseToken(e)]
  /\ UNCHANGED <<redemptionVars, owner, due, received, drops, wverdict, wdetail>>

Outcome(w, verdict, detail) ==
  /\ wpc' = [wpc EXCEPT ![w] = "outbox"]
  /\ wverdict' = [wverdict EXCEPT ![w] = verdict]
  /\ wdetail' = [wdetail EXCEPT ![w] = detail]
  /\ UNCHANGED <<redemptionVars, outboxVars, drops, wevent, wtoken>>

\* The target answers 2xx.
DeliverSuccess(w, detail) ==
  /\ wpc[w] = "deliver"
  /\ ~orphan[owner[wevent[w]]]
  /\ received' = received \cup {wevent[w]}
  /\ Outcome(w, "ok", detail)

\* A row cannot be loaded, the URL is rejected, the request fails or times
\* out, or the answer is not 2xx: the target may or may not have accepted it.
DeliverFailure(w, detail) ==
  /\ wpc[w] = "deliver"
  /\ ~orphan[owner[wevent[w]]]
  /\ received' \in {received, received \cup {wevent[w]}}
  /\ Outcome(w, "retry", detail)

\* The redemption has no batch: the failure is final.
NoBatch(w) ==
  /\ wpc[w] = "deliver"
  /\ orphan[owner[wevent[w]]]
  /\ UNCHANGED received
  /\ Outcome(w, "stop", "short")

\* Faulty variant: one attempt too few.
NextStatus_OffByOne(w) ==
  IF wverdict[w] = "ok" THEN "success"
  ELSE IF wverdict[w] = "retry" /\ wtoken[w] + 1 < MaxAttempts THEN "failed"
  ELSE "dead_letter"

\* The event's next status: markFailed retries below MaxAttempts.
NextStatus(w) ==
  IF wverdict[w] = "ok" THEN "success"
  ELSE IF wverdict[w] = "retry" /\ wtoken[w] < MaxAttempts THEN "failed"
  ELSE "dead_letter"

Idle(w) ==
  /\ wpc' = [wpc EXCEPT ![w] = "idle"]
  /\ wevent' = [wevent EXCEPT ![w] = NoEvent]
  /\ wtoken' = [wtoken EXCEPT ![w] = 0]
  /\ wverdict' = [wverdict EXCEPT ![w] = "none"]
  /\ wdetail' = [wdetail EXCEPT ![w] = "short"]

\* Faulty variant: WHERE id = event only.
HoldsLease_NoToken(w) == wevent[w] # NoEvent

\* WHERE id = event AND lease_token = token.
HoldsLease(w) == lease[wevent[w]] = wtoken[w]

\* UpdateWebhookOutboxSuccess or UpdateWebhookOutboxFailed by the lease holder.
MarkOutbox(w) ==
  LET e == wevent[w] IN
  /\ wpc[w] = "outbox"
  /\ Storable(wdetail[w]) /\ HoldsLease(w)
  /\ status' = [status EXCEPT ![e] = NextStatus(w)]
  /\ due' = [due EXCEPT ![e] = NextStatus(w) # "failed"]
  /\ lease' = [lease EXCEPT ![e] = 0]
  /\ expired' = [expired EXCEPT ![e] = FALSE]
  /\ wpc' = [wpc EXCEPT ![w] = "redemption"]
  /\ UNCHANGED <<redemptionVars, owner, attempts, received, drops,
                 wevent, wtoken, wverdict, wdetail>>

\* The update fails or affects no row: the worker goes on to the next event
\* and leaves the row as it is.
MarkOutboxRefused(w) ==
  /\ wpc[w] = "outbox"
  /\ ~Storable(wdetail[w]) \/ ~HoldsLease(w)
  /\ Idle(w)
  /\ UNCHANGED <<redemptionVars, outboxVars, received, drops>>

\* Faulty variant: the event's status is copied as it is.
RedemptionStatus_Copy(s) == s

\* What the redemption shows while its event has this status.
RedemptionStatus(s) == IF s = "failed" THEN "pending" ELSE s

\* UpdateRedemptionWebhookStatus WHERE id AND event_id: without effect once a
\* resend has replaced the event.
MarkRedemption(w) ==
  LET m == owner[wevent[w]] IN
  /\ wpc[w] = "redemption"
  /\ hookStatus' = IF hookEvent[m] = wevent[w]
                     THEN [hookStatus EXCEPT ![m] = RedemptionStatus(NextStatus(w))]
                     ELSE hookStatus
  /\ Idle(w)
  /\ UNCHANGED <<hookEvent, orphan, outboxVars, received, drops>>

\* The worker process dies (and is restarted), or a statement fails and the
\* worker only logs it.
Drop(w) ==
  /\ wpc[w] # "idle"
  /\ drops < MaxDrops
  /\ drops' = drops + 1
  /\ Idle(w)
  /\ UNCHANGED <<redemptionVars, outboxVars, received>>

-----------------------------------------------------------------------------
(* Time passes. *)

BackoffOver(e) ==
  /\ status[e] = "failed" /\ ~due[e]
  /\ due' = [due EXCEPT ![e] = TRUE]
  /\ UNCHANGED <<redemptionVars, owner, status, lease, expired, attempts,
                 received, drops, workerVars>>

Busy(e) == \E w \in Workers : wevent[w] = e /\ wtoken[w] = lease[e]

LeaseRunsOut(e) ==
  /\ lease[e] # 0 /\ ~expired[e]
  /\ Timely => ~Busy(e)
  /\ expired' = [expired EXCEPT ![e] = TRUE]
  /\ UNCHANGED <<redemptionVars, owner, status, due, lease, attempts,
                 received, drops, workerVars>>

-----------------------------------------------------------------------------
\* A worker that holds an event works on it.
Work(w) ==
  \/ \E d \in Details : DeliverSuccess(w, d) \/ DeliverFailure(w, d)
  \/ NoBatch(w)
  \/ MarkOutbox(w) \/ MarkOutboxRefused(w) \/ MarkRedemption(w)

Next ==
  \/ \E m \in Redemptions, e \in Events : Redeem(m, e) \/ ResendWebhook(m, e)
  \/ \E m \in Redemptions : RemoveBatch(m)
  \/ \E w \in Workers : Work(w) \/ Drop(w) \/ \E e \in Events : leaseEvent(w, e)
  \/ \E e \in Events : BackoffOver(e) \/ LeaseRunsOut(e)

Spec == Init /\ [][Next]_vars

\* Workers poll every five seconds for ever, finish what they hold, and the
\* clock does not stop.
FairSpec ==
  /\ Spec
  /\ \A w \in Workers : WF_vars(Work(w)) /\ WF_vars(\E e \in Events : leaseEvent(w, e))
  /\ \A e \in Events : WF_vars(BackoffOver(e)) /\ WF_vars(LeaseRunsOut(e))

-----------------------------------------------------------------------------
(* Properties. *)

\* Every variable stays in its type.
TypeOK ==
  /\ hookStatus \in [Redemptions -> {"none", "pending", "success", "dead_letter"}]
  /\ hookEvent \in [Redemptions -> Events \cup {NoEvent}]
  /\ orphan \in [Redemptions -> BOOLEAN]
  /\ owner \in [Events -> Redemptions]
  /\ status \in [Events -> {"absent", "pending", "failed", "success", "dead_letter"}]
  /\ due \in [Events -> BOOLEAN]
  /\ lease \in [Events -> Nat]
  /\ expired \in [Events -> BOOLEAN]
  /\ attempts \in [Events -> Nat]
  /\ received \subseteq Events
  /\ drops \in Nat
  /\ wpc \in [Workers -> {"idle", "deliver", "outbox", "redemption"}]
  /\ wevent \in [Workers -> Events \cup {NoEvent}]
  /\ wtoken \in [Workers -> Nat]
  /\ wverdict \in [Workers -> {"none", "ok", "retry", "stop"}]
  /\ wdetail \in [Workers -> {"short", "unstorable"}]

\* A redemption never has two events in delivery: an event that can still be
\* leased is the one its redemption points to, so ResendWebhook only replaces
\* an event that has ended, whatever late statements workers still have to run.
OneLiveEvent == \A e \in Events : Live(e) => hookEvent[owner[e]] = e

\* The outcome an administrator reads is the outcome of the current event: a
\* late or repeated worker never shows a success or a dead letter that the
\* outbox does not have, and a success was accepted by the target.
ShownOutcomeIsReal ==
  \A m \in Redemptions :
    hookStatus[m] \in Terminal =>
      /\ status[hookEvent[m]] = hookStatus[m]
      /\ hookStatus[m] = "success" => hookEvent[m] \in received

\* At most one worker's result can be written for an event: a worker whose
\* lease was taken over no longer matches the token.
OneLeaseHolder ==
  \A v, w \in Workers :
    /\ v # w /\ wevent[v] = wevent[w]
    /\ wpc[v] \in {"deliver", "outbox"} /\ wpc[w] \in {"deliver", "outbox"}
    => ~(HoldsLease(v) /\ HoldsLease(w))

\* "dead_letter: automatic retries are exhausted" (docs/API_CONTRACT.md:340),
\* or the redemption lost its batch; no slow or crashed worker gives up early.
DeadLetterIsEarned ==
  \A e \in Events :
    status[e] = "dead_letter" => attempts[e] >= MaxAttempts \/ orphan[owner[e]]

\* A delivered or dead event is never leased, delivered or rewritten again, and
\* the attempt counter never goes back.
TerminalIsFinal ==
  [][\A e \in Events : /\ attempts'[e] >= attempts[e]
                       /\ status[e] \in Terminal =>
                            status'[e] = status[e] /\ attempts'[e] = attempts[e]]_vars

\* Every event ends, delivered or dead, however workers compete or crash.  This is
\* about workers that finish an attempt within its lease and outcomes that fit the
\* columns: an outcome that does not is what RetriesRunOut is about.
EventSettles == \A e \in Events : Live(e) ~> status[e] \in Terminal

\* docs/API_CONTRACT.md:337: "pending: waiting for delivery".  The redemption's
\* event is queued, or its worker is about to write the outcome.
PendingMeansQueued ==
  \A m \in Redemptions :
    hookStatus[m] = "pending" =>
      \/ Live(hookEvent[m])
      \/ \E w \in Workers : wpc[w] = "redemption" /\ wevent[w] = hookEvent[m]

\* docs/API_CONTRACT.md:340: automatic retries run out, after MaxAttempts.
RetriesRunOut == \A e \in Events : attempts[e] <= MaxAttempts
=============================================================================
