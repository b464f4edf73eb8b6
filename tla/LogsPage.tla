------------------------------- MODULE LogsPage -------------------------------
(***************************************************************************)
(* The redemption log (web/src/pages/admin/logs.tsx), with ListLogs and    *)
(* ResendWebhook (internal/httpapi/admin.go).                              *)
(*                                                                         *)
(* The four filters work alike; the model has the one on the webhook       *)
(* status, which a resend changes.  Rows are successful redemptions of a   *)
(* batch with a webhook; new ones keep coming.  A filter, like a page      *)
(* turned, makes the effect ask again; a resend asks again after a delay,  *)
(* with the filter and page of the render that sent it.  The server reads  *)
(* the rows of the page and their number with two statements and no        *)
(* transaction around them.                                                *)
(***************************************************************************)
EXTENDS Integers, FiniteSets, SequencesExt, Lists

CONSTANTS
  LogIds,        \* rows of redemptions
  LogFilters,    \* values of the webhook filter; "" is none
  LogsPerPage,   \* perPage, 50 in the code
  MaxLogCalls    \* bound: calls in flight and timers set

ASSUME LogsAssumption ==
  /\ LogIds \subseteq Int /\ IsFiniteSet(LogIds)
  /\ "" \in LogFilters /\ LogsPerPage \in Nat \ {0}

VARIABLES
  logs,          \* the state of LogsPage
  logsNet,       \* calls in flight
  logTimers,     \* reloads that setTimeout holds: the query each will send
  logStatus,     \* the server: webhook_status of each row, "absent" of those to come
  logEarly,      \* whether a call or a timer was under way when a query was last chosen
  logFailed      \* whether the last list call that ended failed

logsVars == <<logs, logsNet, logTimers, logStatus, logEarly, logFailed>>

Query(webhook, page) == [webhook |-> webhook, page |-> page]
NoLogs == [query |-> Query("", 0), rows |-> {}]

LogCall(op, id, q) ==
  [op |-> op, id |-> id, query |-> q, step |-> "sent", rows |-> {}, total |-> 0]

LoadLogs(q) == LogCall("logs", 0, q)

\* Faulty variant: the reload is that of the first render.
Resend_FirstRender(id, q) == LogCall("resend", id, Query("", 1))

Resend(id, q) == LogCall("resend", id, q)

LogsInit ==
  /\ logs = [query |-> Query("", 1), shown |-> NoLogs,
             paged |-> [total |-> 0, page |-> 1, pages |-> 1]]
  /\ logsNet = <<LoadLogs(Query("", 1))>>
  /\ logTimers = <<>>
  /\ logStatus \in [LogIds -> {"absent", "failed", "success"}]
  /\ \A id, new \in LogIds : logStatus[new] # "absent" /\ id < new => logStatus[id] # "absent"
  /\ logEarly = FALSE
  /\ logFailed = FALSE

Free == Len(logsNet) + Len(logTimers) < MaxLogCalls
AllSettled == logsNet = <<>> /\ logTimers = <<>>

-----------------------------------------------------------------------------
(* Filters, pages, resend.                                                 *)

\* load, run by the effect when the query changes.  It blanks the list at once.
Ask(q) ==
  /\ Free /\ q # logs.query
  /\ logs' = [logs EXCEPT !.query = q, !.shown = NoLogs]
  /\ logsNet' = Append(logsNet, LoadLogs(q))
  /\ logEarly' = ~AllSettled
  /\ UNCHANGED <<logTimers, logStatus, logFailed>>

\* A filter is chosen, which sets the page back; resetFilters chooses none.
SetFilter(webhook) == Ask(Query(webhook, 1))

\* DataPagination steps from the page of the last answer.
TurnLogPage ==
  LET paged == logs.paged
  IN /\ paged.total # 0
     /\ \/ paged.page > 1 /\ Ask(Query(logs.query.webhook, paged.page - 1))
        \/ paged.page < paged.pages /\ Ask(Query(logs.query.webhook, paged.page + 1))

\* handleResend up to the call: rows whose event has ended have the button.
handleResend(row) ==
  /\ Free
  /\ row.status \in {"success", "failed", "dead_letter"}
  /\ logsNet' = Append(logsNet, Resend(row.id, logs.query))
  /\ UNCHANGED <<logs, logTimers, logStatus, logEarly, logFailed>>

\* setTimeout(load, 1500) fires.  The load is that of an earlier render.
TimerFires(i) ==
  /\ logs' = [logs EXCEPT !.shown = NoLogs]
  /\ logsNet' = Append(logsNet, LoadLogs(logTimers[i]))
  /\ logTimers' = RemoveAt(logTimers, i)
  /\ UNCHANGED <<logStatus, logEarly, logFailed>>

-----------------------------------------------------------------------------
(* The server.                                                             *)

Found(webhook) ==
  {id \in LogIds : logStatus[id] # "absent" /\ webhook \in {"", logStatus[id]}}

\* The first statement: a page of the rows, newest first.
ListRedemptions(i) ==
  LET call == logsNet[i]
      page == PageOf(Found(call.query.webhook), call.query.page, LogsPerPage)
  IN /\ call.op = "logs" /\ call.step = "sent"
     /\ logsNet' = [logsNet EXCEPT ![i].step = "listed",
                      ![i].rows = {[id |-> id, status |-> logStatus[id]] : id \in page}]
     /\ UNCHANGED <<logs, logTimers, logStatus, logEarly, logFailed>>

\* The second one: how many there are by now.
CountRedemptions(i) ==
  /\ logsNet[i].step = "listed"
  /\ logsNet' = [logsNet EXCEPT ![i].step = "done",
                                ![i].total = Cardinality(Found(logsNet[i].query.webhook))]
  /\ UNCHANGED <<logs, logTimers, logStatus, logEarly, logFailed>>

\* ResendWebhook refuses a row whose event is not finished.
Resendable(id) == logStatus[id] \in {"success", "failed", "dead_letter"}

ResendWebhook(i) ==
  LET call == logsNet[i]
  IN /\ call.op = "resend" /\ call.step = "sent" /\ Resendable(call.id)
     /\ logsNet' = [logsNet EXCEPT ![i].step = "done"]
     /\ logStatus' = [logStatus EXCEPT ![call.id] = "pending"]
     /\ UNCHANGED <<logs, logTimers, logEarly, logFailed>>

\* A code is redeemed somewhere: a new row, with a webhook to deliver.
NewRedemption(id) ==
  /\ logStatus[id] = "absent"
  /\ \A old \in LogIds : old < id => logStatus[old] # "absent"
  /\ logStatus' = [logStatus EXCEPT ![id] = "pending"]
  /\ UNCHANGED <<logs, logsNet, logTimers, logEarly, logFailed>>

\* The worker writes its result back, before or after the timer.
WorkerWrites(id, status) ==
  /\ logStatus[id] = "pending"
  /\ logStatus' = [logStatus EXCEPT ![id] = status]
  /\ UNCHANGED <<logs, logsNet, logTimers, logEarly, logFailed>>

-----------------------------------------------------------------------------
(* Answers.                                                                *)

Shown(state, call) ==
  [state EXCEPT !.shown = [query |-> call.query, rows |-> call.rows],
                !.paged = [total |-> call.total, page |-> call.query.page,
                           pages |-> PagesOf(call.total, LogsPerPage)]]

\* Faulty variant: an answer to another query than the one chosen is dropped.
ShowLogs_Current(state, call) == IF call.query = state.query THEN Shown(state, call) ELSE state

\* What the answer shows, whichever query it is for.
ShowLogs(state, call) == Shown(state, call)

LogsAnswered(i) ==
  LET call == logsNet[i]
  IN /\ call.op = "logs" /\ call.step = "done"
     /\ logsNet' = RemoveAt(logsNet, i)
     /\ logs' = ShowLogs(logs, call)
     /\ logFailed' = FALSE
     /\ UNCHANGED <<logTimers, logStatus, logEarly>>

\* handleResend after the call: the timer holds the load of the render before it.
ResendAnswered(i) ==
  LET call == logsNet[i]
  IN /\ call.op = "resend" /\ call.step = "done"
     /\ logsNet' = RemoveAt(logsNet, i)
     /\ logTimers' = Append(logTimers, call.query)
     /\ UNCHANGED <<logs, logStatus, logEarly, logFailed>>

\* A call is refused or fails; the page only says so.
LogCallFails(i) ==
  /\ logsNet' = RemoveAt(logsNet, i)
  /\ logFailed' = (logFailed \/ logsNet[i].op = "logs")
  /\ UNCHANGED <<logs, logTimers, logStatus, logEarly>>

LogsNext ==
  \/ \E webhook \in LogFilters : SetFilter(webhook)
  \/ TurnLogPage
  \/ \E row \in logs.shown.rows : handleResend(row)
  \/ \E i \in DOMAIN logTimers : TimerFires(i)
  \/ \E id \in LogIds, status \in {"success", "failed"} : WorkerWrites(id, status)
  \/ \E id \in LogIds : NewRedemption(id)
  \/ \E i \in DOMAIN logsNet :
       \/ ListRedemptions(i) \/ CountRedemptions(i) \/ ResendWebhook(i)
       \/ LogsAnswered(i) \/ ResendAnswered(i) \/ LogCallFails(i)

-----------------------------------------------------------------------------
(* Properties.                                                             *)

\* The list shown is the one of the filter and page chosen, whatever resends, timers
\* and lost calls have come in between since, if nothing was under way when they were
\* chosen.  (A call or a timer of an older choice may overtake the new one's answer:
\* the page does not tell answers apart.)
LogsMatchFilter ==
  logs.shown # NoLogs /\ ~logEarly => logs.shown.query = logs.query

\* A list that load has blanked comes back: the skeleton is shown only while a list is
\* on its way or after the last one failed.  The reload of a resend blanks the list
\* when its timer fires, whichever filter is chosen by then, and its answer must not
\* be lost for that.
SkeletonIsLoading ==
  \/ logs.shown # NoLogs
  \/ \E i \in DOMAIN logsNet : logsNet[i].op = "logs"
  \/ logFailed

=============================================================================
