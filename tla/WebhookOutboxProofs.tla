------------------------- MODULE WebhookOutboxProofs -------------------------
(***************************************************************************)
(* Proofs about WebhookOutbox, for any number of redemptions, events and   *)
(* workers, any number of crashes and resends, and leases that run out at  *)
(* any moment.                                                             *)
(***************************************************************************)
EXTENDS WebhookOutbox, TLAPS

(* The inductive invariant. *)

\* The token of a row is one that was handed out, and only an event that can
\* still be delivered has one.
RowInv(e) == lease[e] <= attempts[e] /\ (lease[e] # 0 => Live(e))

\* A busy worker works on an existing event with a token that was handed out.
AtWork(w) == /\ wevent[w] \in Events /\ status[wevent[w]] # "absent"
             /\ wtoken[w] # 0 /\ wtoken[w] <= attempts[wevent[w]]

\* Its verdict has its reason.
Judged(w) == /\ wverdict[w] # "none"
             /\ wverdict[w] = "ok" => wevent[w] \in received
             /\ wverdict[w] = "stop" => orphan[owner[wevent[w]]]

WorkerInv(w) ==
  /\ wpc[w] # "idle" => AtWork(w)
  /\ wpc[w] \in {"outbox", "redemption"} => Judged(w)
  /\ wpc[w] = "redemption" /\ NextStatus(w) \in Terminal => status[wevent[w]] = NextStatus(w)

\* No token of an event is given to two workers.
TokensDiffer ==
  \A v, w \in Workers :
    v # w /\ wpc[v] # "idle" /\ wpc[w] # "idle" /\ wevent[v] = wevent[w] => wtoken[v] # wtoken[w]

\* A redemption without a webhook status has no event, one with a status points
\* to an event of its own.
RedemptionInv(m) ==
  IF hookStatus[m] = "none"
    THEN \A e \in Events : owner[e] = m => status[e] = "absent"
    ELSE /\ hookEvent[m] \in Events /\ owner[hookEvent[m]] = m
         /\ status[hookEvent[m]] # "absent"

Coupling ==
  /\ \A e \in Events : RowInv(e)
  /\ \A w \in Workers : WorkerInv(w)
  /\ TokensDiffer
  /\ \A m \in Redemptions : RedemptionInv(m)

Outcomes == OneLiveEvent /\ ShownOutcomeIsReal /\ DeadLetterIsEarned

IInv == TypeOK /\ Coupling /\ Outcomes

-----------------------------------------------------------------------------
(* Types. *)

\* Clearing a worker keeps its variables well typed.
LEMMA IdleTypes ==
  ASSUME TypeOK, NEW w \in Workers, Idle(w)
  PROVE  /\ wpc' \in [Workers -> {"idle", "deliver", "outbox", "redemption"}]
         /\ wevent' \in [Workers -> Events \cup {NoEvent}]
         /\ wtoken' \in [Workers -> Nat]
         /\ wverdict' \in [Workers -> {"none", "ok", "retry", "stop"}]
         /\ wdetail' \in [Workers -> {"short", "unstorable"}]
BY DEF Idle, TypeOK

\* Every step keeps the types, given that a worker which delivers has an event.
LEMMA TypeStep ==
  ASSUME TypeOK, \A w \in Workers : WorkerInv(w), [Next]_vars
  PROVE  TypeOK'
<1> USE WebhookAssumption DEF redemptionVars, outboxVars, workerVars
<1>1. ASSUME NEW m \in Redemptions, NEW e \in Events, Redeem(m, e) \/ ResendWebhook(m, e)
      PROVE  TypeOK'
  <2>1. CreateWebhookOutboxEvent(e, m)
    BY <1>1 DEF Redeem, ResendWebhook
  <2>2. status' \in [Events -> {"absent", "pending", "failed", "success", "dead_letter"}]
        /\ due' \in [Events -> BOOLEAN]
    BY <2>1 DEF CreateWebhookOutboxEvent, TypeOK
  <2>3. hookStatus' \in [Redemptions -> {"none", "pending", "success", "dead_letter"}]
        /\ hookEvent' \in [Redemptions -> Events \cup {NoEvent}]
    BY <2>1 DEF CreateWebhookOutboxEvent, TypeOK
  <2> QED BY <2>1, <2>2, <2>3 DEF CreateWebhookOutboxEvent, TypeOK
<1>2. ASSUME NEW m \in Redemptions, RemoveBatch(m) PROVE TypeOK'
  BY <1>2 DEF RemoveBatch, TypeOK
<1>3. ASSUME NEW w \in Workers, NEW e \in Events, leaseEvent(w, e) PROVE TypeOK'
  BY <1>3 DEF leaseEvent, generateLeaseToken, TypeOK
<1>4. ASSUME NEW w \in Workers, NEW verdict \in {"ok", "retry", "stop"}, NEW d \in Details \cup {"short"},
             Outcome(w, verdict, d), received' \subseteq received \cup {wevent[w]},
             wpc[w] = "deliver"
      PROVE  TypeOK'
  <2>1. wevent[w] \in Events
    BY <1>4 DEF WorkerInv, AtWork
  <2>2. received' \subseteq Events
    BY <1>4, <2>1 DEF TypeOK
  <2> QED BY <1>4, <2>2 DEF Outcome, TypeOK
<1>5. ASSUME NEW w \in Workers, MarkOutbox(w) PROVE TypeOK'
  <2>1. NextStatus(w) \in {"success", "failed", "dead_letter"}
    BY DEF NextStatus
  <2> QED BY <1>5, <2>1 DEF MarkOutbox, TypeOK
<1>6. ASSUME NEW w \in Workers, MarkOutboxRefused(w) \/ Drop(w) PROVE TypeOK'
  BY <1>6, IdleTypes DEF MarkOutboxRefused, Drop, TypeOK
<1>7. ASSUME NEW w \in Workers, MarkRedemption(w) PROVE TypeOK'
  <2>1. RedemptionStatus(NextStatus(w)) \in {"pending", "success", "dead_letter"}
    BY DEF NextStatus, RedemptionStatus
  <2>2. hookStatus' \in [Redemptions -> {"none", "pending", "success", "dead_letter"}]
    BY <1>7, <2>1 DEF MarkRedemption, TypeOK
  <2> QED BY <1>7, <2>2, IdleTypes DEF MarkRedemption, TypeOK
<1>8. ASSUME NEW e \in Events, BackoffOver(e) \/ LeaseRunsOut(e) PROVE TypeOK'
  <2>1. CASE BackoffOver(e)
    <3>1. due' \in [Events -> BOOLEAN]
      BY <2>1 DEF BackoffOver, TypeOK
    <3> QED BY <2>1, <3>1 DEF BackoffOver, TypeOK
  <2>2. CASE LeaseRunsOut(e)
    <3>1. expired' \in [Events -> BOOLEAN]
      BY <2>2 DEF LeaseRunsOut, TypeOK
    <3> QED BY <2>2, <3>1 DEF LeaseRunsOut, TypeOK
  <2> QED BY <1>8, <2>1, <2>2
<1>9. CASE UNCHANGED vars
  BY <1>9 DEF vars, TypeOK
<1>10. ASSUME NEW w \in Workers, Work(w) PROVE TypeOK'
  <2>1. ASSUME NEW d \in Details, DeliverSuccess(w, d) \/ DeliverFailure(w, d) PROVE TypeOK'
    BY <1>4, <2>1 DEF DeliverSuccess, DeliverFailure
  <2>2. CASE NoBatch(w)
    BY <1>4, <2>2 DEF NoBatch
  <2> QED BY <1>5, <1>6, <1>7, <1>10, <2>1, <2>2 DEF Work
<1> QED BY <1>1, <1>2, <1>3, <1>6, <1>8, <1>9, <1>10 DEF Next

-----------------------------------------------------------------------------
(* Leases and verdicts. *)

\* A worker that is cleared owes nothing, and the others are as they were.
LEMMA IdleWorker ==
  ASSUME TypeOK, NEW w \in Workers, Idle(w)
  PROVE  /\ wpc'[w] = "idle"
         /\ \A v \in Workers \ {w} : /\ wpc'[v] = wpc[v] /\ wevent'[v] = wevent[v]
                                     /\ wtoken'[v] = wtoken[v] /\ wverdict'[v] = wverdict[v]
BY DEF Idle, TypeOK

\* A worker keeps its part of the invariant as long as it stands still, the
\* outbox only moves forward and no event that ended changes its status.
LEMMA WorkerStays ==
  ASSUME IInv, NEW v \in Workers, WorkerInv(v),
         wpc'[v] = wpc[v], wevent'[v] = wevent[v], wtoken'[v] = wtoken[v],
         wverdict'[v] = wverdict[v], owner' = owner,
         received \subseteq received',
         \A m \in Redemptions : orphan[m] => orphan'[m],
         \A e \in Events : /\ attempts'[e] >= attempts[e] /\ attempts'[e] \in Nat
                           /\ status[e] # "absent" => status'[e] # "absent"
                           /\ status[e] \in Terminal => status'[e] = status[e]
  PROVE  WorkerInv(v)'
<1>0. wtoken[v] \in Nat /\ attempts \in [Events -> Nat] /\ owner \in [Events -> Redemptions]
  BY DEF IInv, TypeOK
<1>1. NextStatus(v)' = NextStatus(v)
  BY DEF NextStatus
<1>2. wpc[v] # "idle" => AtWork(v)'
  BY <1>0 DEF WorkerInv, AtWork
<1>3. wpc[v] \in {"outbox", "redemption"} => Judged(v)'
  BY <1>0 DEF WorkerInv, AtWork, Judged
<1>4. wpc[v] = "redemption" /\ NextStatus(v) \in Terminal => status'[wevent[v]] = NextStatus(v)
  BY DEF WorkerInv, AtWork
<1> QED BY <1>1, <1>2, <1>3, <1>4 DEF WorkerInv

\* A new event belongs to a redemption whose earlier events have all ended.
LEMMA CreateKeeps ==
  ASSUME IInv, NEW m \in Redemptions, NEW e \in Events, Redeem(m, e) \/ ResendWebhook(m, e)
  PROVE  Coupling' /\ Outcomes'
<1> USE DEF IInv, Coupling, Outcomes
<1>c. CreateWebhookOutboxEvent(e, m)
  BY DEF Redeem, ResendWebhook
<1>u. /\ UNCHANGED <<orphan, owner, lease, attempts, received, wpc, wevent, wtoken, wverdict>>
      /\ owner[e] = m /\ status[e] = "absent"
  BY <1>c DEF CreateWebhookOutboxEvent, workerVars
<1>e. /\ status'[e] = "pending" /\ \A f \in Events \ {e} : status'[f] = status[f]
      /\ hookStatus'[m] = "pending" /\ hookEvent'[m] = e
      /\ \A n \in Redemptions \ {m} : hookStatus'[n] = hookStatus[n] /\ hookEvent'[n] = hookEvent[n]
  BY <1>c DEF CreateWebhookOutboxEvent, TypeOK
<1>n. \A f \in Events : owner[f] = m => ~Live(f)
  <2>1. CASE hookStatus[m] = "none"
    BY <2>1 DEF RedemptionInv, Live
  <2>2. CASE hookStatus[m] # "none"
    <3>1. hookStatus[m] \in Terminal
      BY <2>2 DEF Redeem, ResendWebhook, Terminal, TypeOK
    <3>2. status[hookEvent[m]] \in Terminal
      BY <3>1 DEF ShownOutcomeIsReal
    <3> QED BY <3>2 DEF OneLiveEvent, Live, Terminal
  <2> QED BY <2>1, <2>2
<1>1. \A f \in Events : RowInv(f)'
  BY <1>u, <1>e DEF RowInv, Live
<1>2. \A v \in Workers : WorkerInv(v)'
  <2>1. \A f \in Events : /\ attempts'[f] >= attempts[f] /\ attempts'[f] \in Nat
                          /\ status[f] # "absent" => status'[f] # "absent"
                          /\ status[f] \in Terminal => status'[f] = status[f]
    BY <1>u, <1>e DEF TypeOK, Terminal
  <2> QED BY <1>u, <2>1, WorkerStays
<1>3. TokensDiffer'
  BY <1>u DEF TokensDiffer
<1>4. ASSUME NEW n \in Redemptions PROVE RedemptionInv(n)'
  <2>1. CASE n = m
    BY <1>u, <1>e, <2>1 DEF RedemptionInv
  <2>2. CASE n # m
    BY <1>u, <1>e, <2>2 DEF RedemptionInv
  <2> QED BY <2>1, <2>2
<1>5. OneLiveEvent'
  <2> SUFFICES ASSUME NEW f \in Events, Live(f)' PROVE hookEvent'[owner[f]] = f
    BY <1>u DEF OneLiveEvent
  <2>1. owner[f] \in Redemptions
    BY DEF TypeOK
  <2>2. CASE f = e
    BY <1>u, <1>e, <2>2
  <2>3. CASE f # e
    BY <1>n, <1>e, <2>1, <2>3 DEF OneLiveEvent, Live
  <2> QED BY <2>2, <2>3
<1>6. ShownOutcomeIsReal'
  <2> SUFFICES ASSUME NEW n \in Redemptions, hookStatus'[n] \in Terminal
               PROVE  /\ status'[hookEvent'[n]] = hookStatus'[n]
                      /\ hookStatus'[n] = "success" => hookEvent'[n] \in received
    BY <1>u DEF ShownOutcomeIsReal
  <2>1. n # m
    BY <1>e DEF Terminal
  <2>2. hookEvent[n] \in Events \ {e}
    BY <1>u, <1>e, <2>1 DEF RedemptionInv, Terminal
  <2> QED BY <1>e, <2>1, <2>2 DEF ShownOutcomeIsReal
<1>7. DeadLetterIsEarned'
  BY <1>u, <1>e DEF DeadLetterIsEarned
<1> QED BY <1>1, <1>2, <1>3, <1>4, <1>5, <1>6, <1>7

\* A batch that goes away only makes its redemptions orphans.
LEMMA RemoveKeeps ==
  ASSUME IInv, NEW m \in Redemptions, RemoveBatch(m)
  PROVE  Coupling' /\ Outcomes'
<1> USE DEF IInv, Coupling, Outcomes
<1>u. UNCHANGED <<hookStatus, hookEvent, owner, status, lease, attempts, received,
                  wpc, wevent, wtoken, wverdict>>
  BY DEF RemoveBatch, outboxVars, workerVars
<1>o. \A n \in Redemptions : orphan[n] => orphan'[n]
  BY DEF RemoveBatch, TypeOK
<1>1. \A v \in Workers : WorkerInv(v)'
  <2>1. \A e \in Events : attempts'[e] >= attempts[e] /\ attempts'[e] \in Nat
    BY <1>u DEF TypeOK
  <2> QED BY <1>u, <1>o, <2>1, WorkerStays
<1>2. \A e \in Events : RowInv(e)'
  BY <1>u DEF RowInv, Live
<1>3. \A n \in Redemptions : RedemptionInv(n)'
  BY <1>u DEF RedemptionInv
<1>4. TokensDiffer' /\ OneLiveEvent' /\ ShownOutcomeIsReal'
  BY <1>u DEF TokensDiffer, OneLiveEvent, Live, ShownOutcomeIsReal
<1>5. DeadLetterIsEarned'
  BY <1>u, <1>o DEF DeadLetterIsEarned, TypeOK
<1> QED BY <1>1, <1>2, <1>3, <1>4, <1>5

\* A lease, first or taken over, gives the worker a token that no worker has.
LEMMA LeaseKeeps ==
  ASSUME IInv, NEW w \in Workers, NEW e \in Events, leaseEvent(w, e)
  PROVE  Coupling' /\ Outcomes'
<1> USE DEF IInv, Coupling, Outcomes
<1>u. /\ UNCHANGED <<hookStatus, hookEvent, orphan, owner, received, wverdict>>
      /\ Live(e) /\ wpc[w] = "idle"
  BY DEF leaseEvent, Leasable, redemptionVars
<1>e. /\ status'[e] = "pending" /\ attempts'[e] = attempts[e] + 1 /\ lease'[e] = attempts[e] + 1
      /\ \A f \in Events \ {e} : /\ status'[f] = status[f] /\ attempts'[f] = attempts[f]
                                 /\ lease'[f] = lease[f]
  BY DEF leaseEvent, generateLeaseToken, TypeOK
<1>w. /\ wpc'[w] = "deliver" /\ wevent'[w] = e /\ wtoken'[w] = attempts[e] + 1
      /\ \A v \in Workers \ {w} : /\ wpc'[v] = wpc[v] /\ wevent'[v] = wevent[v]
                                  /\ wtoken'[v] = wtoken[v]
  BY DEF leaseEvent, generateLeaseToken, TypeOK
<1>t. /\ \A f \in Events : attempts[f] \in Nat /\ lease[f] \in Nat
      /\ \A v \in Workers : wtoken[v] \in Nat
  BY DEF TypeOK
<1>1. \A f \in Events : RowInv(f)'
  BY <1>e, <1>t DEF RowInv, Live
<1>2. \A v \in Workers : WorkerInv(v)'
  <2>1. \A f \in Events : /\ attempts'[f] >= attempts[f] /\ attempts'[f] \in Nat
                          /\ status[f] # "absent" => status'[f] # "absent"
                          /\ status[f] \in Terminal => status'[f] = status[f]
    BY <1>u, <1>e, <1>t DEF Terminal, Live
  <2>2. \A v \in Workers \ {w} : WorkerInv(v)'
    BY <1>u, <1>w, <2>1, WorkerStays
  <2>3. WorkerInv(w)'
    BY <1>e, <1>w, <1>t DEF WorkerInv, AtWork
  <2> QED BY <2>2, <2>3
<1>3. TokensDiffer'
  <2>1. \A v \in Workers \ {w} : wpc[v] # "idle" /\ wevent[v] = e => wtoken[v] # attempts[e] + 1
    BY <1>t DEF WorkerInv, AtWork
  <2> QED BY <1>w, <2>1 DEF TokensDiffer
<1>4. \A n \in Redemptions : RedemptionInv(n)'
  BY <1>u, <1>e DEF RedemptionInv, Live
<1>5. OneLiveEvent'
  BY <1>u, <1>e DEF OneLiveEvent, Live
<1>6. ShownOutcomeIsReal'
  <2>1. \A n \in Redemptions : hookStatus[n] \in Terminal =>
          hookEvent[n] \in Events /\ hookEvent[n] # e
    BY <1>u DEF ShownOutcomeIsReal, RedemptionInv, Terminal, Live
  <2> QED BY <1>u, <1>e, <2>1 DEF ShownOutcomeIsReal
<1>7. DeadLetterIsEarned'
  BY <1>u, <1>e DEF DeadLetterIsEarned
<1> QED BY <1>1, <1>2, <1>3, <1>4, <1>5, <1>6, <1>7

\* A delivery gives its worker a verdict and may add to what the target accepted.
LEMMA DeliveryKeeps ==
  ASSUME IInv, NEW w \in Workers, wpc[w] = "deliver", NEW verdict, NEW d, Outcome(w, verdict, d),
         verdict \in {"ok", "retry", "stop"}, received \subseteq received',
         verdict = "ok" => wevent[w] \in received',
         verdict = "stop" => orphan[owner[wevent[w]]]
  PROVE  Coupling' /\ Outcomes'
<1> USE DEF IInv, Coupling, Outcomes
<1>u. UNCHANGED <<hookStatus, hookEvent, orphan, owner, status, lease, attempts, wevent, wtoken>>
  BY DEF Outcome, redemptionVars, outboxVars
<1>w. /\ wpc'[w] = "outbox" /\ wverdict'[w] = verdict
      /\ \A v \in Workers \ {w} : wpc'[v] = wpc[v] /\ wverdict'[v] = wverdict[v]
  BY DEF Outcome, TypeOK
<1>1. \A v \in Workers : WorkerInv(v)'
  <2>1. \A e \in Events : attempts'[e] >= attempts[e] /\ attempts'[e] \in Nat
    BY <1>u DEF TypeOK
  <2>2. \A v \in Workers \ {w} : WorkerInv(v)'
    BY <1>u, <1>w, <2>1, WorkerStays
  <2>3. AtWork(w)'
    BY <1>u DEF WorkerInv, AtWork
  <2>4. Judged(w)'
    BY <1>u, <1>w DEF Judged
  <2> QED BY <1>w, <2>2, <2>3, <2>4 DEF WorkerInv
<1>2. \A e \in Events : RowInv(e)'
  BY <1>u DEF RowInv, Live
<1>3. \A n \in Redemptions : RedemptionInv(n)'
  BY <1>u DEF RedemptionInv
<1>4. TokensDiffer'
  BY <1>u, <1>w DEF TokensDiffer
<1>5. OneLiveEvent' /\ ShownOutcomeIsReal' /\ DeadLetterIsEarned'
  BY <1>u DEF OneLiveEvent, Live, ShownOutcomeIsReal, DeadLetterIsEarned
<1> QED BY <1>1, <1>2, <1>3, <1>4, <1>5

\* Only the holder of the lease writes the outcome, on an event that has not
\* ended; it gives up only when its attempt was the last or the batch is gone.
LEMMA MarkOutboxKeeps ==
  ASSUME IInv, NEW w \in Workers, MarkOutbox(w)
  PROVE  Coupling' /\ Outcomes'
<1> USE DEF IInv, Coupling, Outcomes
<1> DEFINE e == wevent[w]
<1>u. /\ UNCHANGED <<hookStatus, hookEvent, orphan, owner, attempts, received,
                     wevent, wtoken, wverdict>>
      /\ wpc[w] = "outbox" /\ lease[e] = wtoken[w]
  BY DEF MarkOutbox, HoldsLease, redemptionVars
<1>a. AtWork(w) /\ Judged(w)
  BY <1>u DEF WorkerInv
<1>e. /\ e \in Events /\ status'[e] = NextStatus(w) /\ lease'[e] = 0
      /\ \A f \in Events \ {e} : status'[f] = status[f] /\ lease'[f] = lease[f]
  BY <1>a DEF AtWork, MarkOutbox, TypeOK
<1>w. wpc'[w] = "redemption" /\ \A v \in Workers \ {w} : wpc'[v] = wpc[v]
  BY DEF MarkOutbox, TypeOK
<1>l. Live(e)
  BY <1>u, <1>a, <1>e DEF RowInv, AtWork
<1>s. NextStatus(w) \in {"success", "failed", "dead_letter"} /\ NextStatus(w)' = NextStatus(w)
  BY <1>u DEF NextStatus
<1>1. \A f \in Events : RowInv(f)'
  <2>1. \A f \in Events : attempts'[f] = attempts[f] /\ attempts[f] \in Nat
    BY <1>u DEF TypeOK
  <2> QED BY <1>e, <2>1 DEF RowInv, Live
<1>2. \A v \in Workers : WorkerInv(v)'
  <2>1. \A f \in Events : /\ attempts'[f] >= attempts[f] /\ attempts'[f] \in Nat
                          /\ status[f] # "absent" => status'[f] # "absent"
                          /\ status[f] \in Terminal => status'[f] = status[f]
    BY <1>u, <1>e, <1>l, <1>s DEF TypeOK, Terminal, Live
  <2>2. \A v \in Workers \ {w} : WorkerInv(v)'
    BY <1>u, <1>w, <2>1, WorkerStays
  <2>3. AtWork(w)' /\ Judged(w)'
    BY <1>u, <1>a, <1>e, <1>s DEF AtWork, Judged
  <2> QED BY <1>u, <1>w, <1>e, <1>s, <2>2, <2>3 DEF WorkerInv
<1>3. TokensDiffer'
  BY <1>u, <1>w DEF TokensDiffer
<1>4. \A n \in Redemptions : RedemptionInv(n)'
  <2>1. \A f \in Events : status'[f] = "absent" <=> status[f] = "absent"
    BY <1>e, <1>l, <1>s DEF Live
  <2> QED BY <1>u, <2>1 DEF RedemptionInv
<1>5. OneLiveEvent'
  BY <1>u, <1>e, <1>l DEF OneLiveEvent, Live
<1>6. ShownOutcomeIsReal'
  <2>1. \A n \in Redemptions : hookStatus[n] \in Terminal =>
          hookEvent[n] \in Events /\ hookEvent[n] # e
    BY <1>l DEF ShownOutcomeIsReal, RedemptionInv, Terminal, Live
  <2> QED BY <1>u, <1>e, <2>1 DEF ShownOutcomeIsReal
<1>7. DeadLetterIsEarned'
  <2>1. NextStatus(w) = "dead_letter" => attempts[e] >= MaxAttempts \/ orphan[owner[e]]
    <3>1. wtoken[w] \in Nat /\ attempts[e] \in Nat /\ wtoken[w] <= attempts[e]
          /\ wverdict[w] \in {"ok", "retry", "stop"}
      BY <1>a DEF AtWork, Judged, TypeOK
    <3> QED BY <1>a, <3>1, WebhookAssumption DEF NextStatus, Judged
  <2> QED BY <1>u, <1>e, <2>1 DEF DeadLetterIsEarned
<1> QED BY <1>1, <1>2, <1>3, <1>4, <1>5, <1>6, <1>7

\* A worker that gives up its event, refused or dropped, leaves the rows alone.
LEMMA IdleKeeps ==
  ASSUME IInv, NEW w \in Workers, Idle(w),
         UNCHANGED <<redemptionVars, outboxVars, received>>
  PROVE  Coupling' /\ Outcomes'
<1> USE DEF IInv, Coupling, Outcomes, redemptionVars, outboxVars
<1>1. \A v \in Workers : WorkerInv(v)'
  <2>1. \A e \in Events : attempts'[e] >= attempts[e] /\ attempts'[e] \in Nat
    BY DEF TypeOK
  <2>2. \A v \in Workers \ {w} : WorkerInv(v)'
    BY <2>1, IdleWorker, WorkerStays
  <2> QED BY <2>2, IdleWorker DEF WorkerInv
<1>2. TokensDiffer'
  BY IdleWorker DEF TokensDiffer
<1>3. \A e \in Events : RowInv(e)'
  BY DEF RowInv, Live
<1>4. \A n \in Redemptions : RedemptionInv(n)'
  BY DEF RedemptionInv
<1>5. OneLiveEvent' /\ ShownOutcomeIsReal' /\ DeadLetterIsEarned'
  BY DEF OneLiveEvent, Live, ShownOutcomeIsReal, DeadLetterIsEarned
<1> QED BY <1>1, <1>2, <1>3, <1>4, <1>5

\* A late worker writes the redemption only while its event is the current one,
\* and then what it writes is what the outbox holds.
LEMMA MarkRedemptionKeeps ==
  ASSUME IInv, NEW w \in Workers, MarkRedemption(w)
  PROVE  Coupling' /\ Outcomes'
<1> USE DEF IInv, Coupling, Outcomes
<1> DEFINE e == wevent[w]
           m == owner[e]
           shown == RedemptionStatus(NextStatus(w))
<1>u. /\ UNCHANGED <<hookEvent, orphan, owner, status, lease, attempts, received>>
      /\ wpc[w] = "redemption" /\ Idle(w)
  BY DEF MarkRedemption, outboxVars
<1>a. AtWork(w) /\ Judged(w) /\ (NextStatus(w) \in Terminal => status[e] = NextStatus(w))
  BY <1>u DEF WorkerInv
<1>m. e \in Events /\ m \in Redemptions
  BY <1>a DEF AtWork, TypeOK
<1>s. /\ shown \in {"pending", "success", "dead_letter"}
      /\ shown \in Terminal => shown = status[e] /\ (shown = "success" => e \in received)
  BY <1>a DEF NextStatus, RedemptionStatus, Terminal, Judged
<1>h. \A n \in Redemptions : hookStatus'[n] = IF n = m /\ hookEvent[m] = e THEN shown ELSE hookStatus[n]
  BY <1>m DEF MarkRedemption, TypeOK
<1>1. \A v \in Workers : WorkerInv(v)'
  <2>1. \A f \in Events : attempts'[f] >= attempts[f] /\ attempts'[f] \in Nat
    BY <1>u DEF TypeOK
  <2>2. \A v \in Workers \ {w} : WorkerInv(v)'
    BY <1>u, <2>1, IdleWorker, WorkerStays
  <2> QED BY <1>u, <2>2, IdleWorker DEF WorkerInv
<1>2. TokensDiffer'
  BY <1>u, IdleWorker DEF TokensDiffer
<1>3. \A f \in Events : RowInv(f)'
  BY <1>u DEF RowInv, Live
<1>4. ASSUME NEW n \in Redemptions PROVE RedemptionInv(n)'
  <2>1. CASE n = m /\ hookEvent[m] = e
    BY <1>u, <1>a, <1>m, <1>s, <1>h, <2>1 DEF RedemptionInv, AtWork
  <2>2. CASE ~(n = m /\ hookEvent[m] = e)
    BY <1>u, <1>h, <2>2 DEF RedemptionInv
  <2> QED BY <2>1, <2>2
<1>5. OneLiveEvent' /\ DeadLetterIsEarned'
  BY <1>u DEF OneLiveEvent, Live, DeadLetterIsEarned
<1>6. ShownOutcomeIsReal'
  BY <1>u, <1>s, <1>h DEF ShownOutcomeIsReal
<1> QED BY <1>1, <1>2, <1>3, <1>4, <1>5, <1>6

\* The passing of time, and stuttering, change nothing the invariant looks at.
LEMMA TimeKeeps ==
  ASSUME IInv,
         UNCHANGED <<redemptionVars, owner, status, lease, attempts, received, workerVars>>
  PROVE  Coupling' /\ Outcomes'
<1> USE DEF IInv, Coupling, Outcomes, redemptionVars, workerVars
<1>1. \A v \in Workers : WorkerInv(v)'
  <2>1. \A e \in Events : attempts'[e] >= attempts[e] /\ attempts'[e] \in Nat
    BY DEF TypeOK
  <2> QED BY <2>1, WorkerStays
<1>2. TokensDiffer'
  BY DEF TokensDiffer
<1>3. \A e \in Events : RowInv(e)'
  BY DEF RowInv, Live
<1>4. \A n \in Redemptions : RedemptionInv(n)'
  BY DEF RedemptionInv
<1>5. OneLiveEvent' /\ ShownOutcomeIsReal' /\ DeadLetterIsEarned'
  BY DEF OneLiveEvent, Live, ShownOutcomeIsReal, DeadLetterIsEarned
<1> QED BY <1>1, <1>2, <1>3, <1>4, <1>5

-----------------------------------------------------------------------------
(* The theorems. *)

\* Before the first redemption there is no event and no worker is busy.
LEMMA OutboxInit == Init => IInv
<1> SUFFICES ASSUME Init PROVE IInv
  OBVIOUS
<1>1. TypeOK
  BY DEF Init, TypeOK
<1>2. Coupling
  BY DEF Init, Coupling, RowInv, WorkerInv, TokensDiffer, RedemptionInv
<1>3. Outcomes
  BY DEF Init, Outcomes, OneLiveEvent, Live, ShownOutcomeIsReal, Terminal, DeadLetterIsEarned
<1> QED BY <1>1, <1>2, <1>3 DEF IInv

\* Every step, stuttering included, keeps the invariant.
LEMMA OutboxStep == IInv /\ [Next]_vars => IInv'
<1> SUFFICES ASSUME IInv, [Next]_vars PROVE IInv'
  OBVIOUS
<1>t. TypeOK'
  BY TypeStep DEF IInv, Coupling
<1> DEFINE Kept == Coupling' /\ Outcomes'
<1>1. ASSUME NEW m \in Redemptions, NEW e \in Events, Redeem(m, e) \/ ResendWebhook(m, e)
      PROVE  Kept
  BY <1>1, CreateKeeps
<1>2. ASSUME NEW m \in Redemptions, RemoveBatch(m) PROVE Kept
  BY <1>2, RemoveKeeps
<1>3. ASSUME NEW w \in Workers, NEW e \in Events, leaseEvent(w, e) PROVE Kept
  BY <1>3, LeaseKeeps
<1>4. ASSUME NEW w \in Workers, Work(w) PROVE Kept
  <2>1. ASSUME NEW d \in Details, DeliverSuccess(w, d) PROVE Kept
    BY <2>1, DeliveryKeeps DEF DeliverSuccess
  <2>2. ASSUME NEW d \in Details, DeliverFailure(w, d) PROVE Kept
    BY <2>2, DeliveryKeeps DEF DeliverFailure
  <2>3. CASE NoBatch(w)
    BY <2>3, DeliveryKeeps DEF NoBatch
  <2>4. CASE MarkOutboxRefused(w)
    BY <2>4, IdleKeeps DEF MarkOutboxRefused
  <2> HIDE DEF Kept
  <2>5. MarkOutbox(w) => Kept
    BY MarkOutboxKeeps DEF Kept
  <2>6. MarkRedemption(w) => Kept
    BY MarkRedemptionKeeps DEF Kept
  <2> QED BY <1>4, <2>1, <2>2, <2>3, <2>4, <2>5, <2>6 DEF Work
<1>5. ASSUME NEW w \in Workers, Drop(w) PROVE Kept
  BY <1>5, IdleKeeps DEF Drop
<1>6. ASSUME NEW e \in Events, BackoffOver(e) \/ LeaseRunsOut(e) PROVE Kept
  BY <1>6, TimeKeeps DEF BackoffOver, LeaseRunsOut
<1>7. ASSUME UNCHANGED vars PROVE Kept
  BY <1>7, TimeKeeps DEF vars, outboxVars
<1>8. Kept
  <2> HIDE DEF Kept
  <2> QED BY <1>1, <1>2, <1>3, <1>4, <1>5, <1>6, <1>7 DEF Next
<1> QED BY <1>t, <1>8 DEF IInv

\* The invariant holds in every reachable state.
THEOREM OutboxInvariant == Spec => []IInv
BY OutboxInit, OutboxStep, PTL DEF Spec

\* Every reachable state of the outbox and its workers is well typed.
THEOREM OutboxTypes == Spec => []TypeOK
<1>1. IInv => TypeOK
  BY DEF IInv
<1> QED BY <1>1, OutboxInvariant, PTL

\* The result of at most one worker can be written for an event, however often
\* its lease ran out and was taken over.
THEOREM LeaseIsExclusive == Spec => []OneLeaseHolder
<1>1. IInv => OneLeaseHolder
  BY DEF IInv, Coupling, TokensDiffer, OneLeaseHolder, HoldsLease
<1> QED BY <1>1, OutboxInvariant, PTL

\* A redemption never has two events in delivery: a resend replaces only an
\* event that has ended.
THEOREM NeverTwoLiveEvents == Spec => []OneLiveEvent
<1>1. IInv => OneLiveEvent
  BY DEF IInv, Outcomes
<1> QED BY <1>1, OutboxInvariant, PTL

\* What an administrator reads is the outcome of the current event, and a
\* success was accepted by the target.
THEOREM ShownOutcomesAreReal == Spec => []ShownOutcomeIsReal
<1>1. IInv => ShownOutcomeIsReal
  BY DEF IInv, Outcomes
<1> QED BY <1>1, OutboxInvariant, PTL

\* No event is given up before MaxAttempts leases unless its batch is gone.
THEOREM DeadLettersAreEarned == Spec => []DeadLetterIsEarned
<1>1. IInv => DeadLetterIsEarned
  BY DEF IInv, Outcomes
<1> QED BY <1>1, OutboxInvariant, PTL

\* A delivered or dead event is never leased or rewritten, and the attempt
\* counter never goes back.
THEOREM EndedEventsStay == Spec => TerminalIsFinal
<1> DEFINE Final == \A e \in Events : /\ attempts'[e] >= attempts[e]
                                      /\ status[e] \in Terminal =>
                                           status'[e] = status[e] /\ attempts'[e] = attempts[e]
<1>1. ASSUME IInv, [Next]_vars PROVE Final
  <2> USE <1>1
  <2>t. \A e \in Events : attempts[e] \in Nat
    BY DEF IInv, TypeOK
  <2>0. ASSUME UNCHANGED <<status, attempts>> PROVE Final
    BY <2>0, <2>t
  <2>1. ASSUME NEW m \in Redemptions, NEW e \in Events, CreateWebhookOutboxEvent(e, m) PROVE Final
    BY <2>1, <2>t DEF CreateWebhookOutboxEvent, IInv, TypeOK, Terminal
  <2>2. ASSUME NEW w \in Workers, NEW e \in Events, leaseEvent(w, e) PROVE Final
    BY <2>2, <2>t DEF leaseEvent, Leasable, Live, IInv, TypeOK, Terminal
  <2>3. ASSUME NEW w \in Workers, MarkOutbox(w) PROVE Final
    <3>1. AtWork(w) /\ lease[wevent[w]] = wtoken[w]
      BY <2>3 DEF MarkOutbox, HoldsLease, IInv, Coupling, WorkerInv
    <3>2. Live(wevent[w])
      BY <3>1 DEF AtWork, IInv, Coupling, RowInv
    <3> QED BY <2>3, <2>t, <3>2 DEF MarkOutbox, Live, IInv, TypeOK, Terminal
  <2>4. ASSUME NEW w \in Workers, Work(w) \/ Drop(w), ~MarkOutbox(w) PROVE UNCHANGED <<status, attempts>>
    BY <2>4 DEF Work, Drop, DeliverSuccess, DeliverFailure, NoBatch, Outcome,
                MarkOutboxRefused, MarkRedemption, outboxVars
  <2>5. ASSUME NEW e \in Events, BackoffOver(e) \/ LeaseRunsOut(e) PROVE UNCHANGED <<status, attempts>>
    BY <2>5 DEF BackoffOver, LeaseRunsOut
  <2>6. ASSUME NEW m \in Redemptions, RemoveBatch(m) PROVE UNCHANGED <<status, attempts>>
    BY <2>6 DEF RemoveBatch, outboxVars
  <2>7. CASE UNCHANGED vars
    BY <2>0, <2>7 DEF vars, outboxVars
  <2> HIDE DEF Final
  <2> QED BY <2>0, <2>1, <2>2, <2>3, <2>4, <2>5, <2>6, <2>7 DEF Next, Redeem, ResendWebhook
<1>2. IInv /\ [Next]_vars => [Final]_vars
  BY <1>1
<1> QED BY <1>2, OutboxInvariant, PTL DEF Spec, TerminalIsFinal
=============================================================================
