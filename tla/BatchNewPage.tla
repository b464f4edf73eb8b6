----------------------------- MODULE BatchNewPage -----------------------------
(***************************************************************************)
(* The form that creates a batch (web/src/pages/admin/batch-new.tsx), with *)
(* CreateBatch and the stock of credentials it asks for                    *)
(* (internal/httpapi/admin.go).                                            *)
(*                                                                         *)
(* Of the form the model keeps whether a field is wrong and who will find  *)
(* it, whether an expiry was chosen, and the plan to assign credentials    *)
(* from.  The stock is the number of unused credentials of the one plan    *)
(* there is; redemptions take from it and uploads add to it.  An expiry    *)
(* comes from a datetime-local input, which has no zone.                   *)
(***************************************************************************)
EXTENDS Naturals, SequencesExt

CONSTANTS
  MaxStock,      \* bound: credentials of the plan
  MaxCreates,    \* bound: submissions
  MaxStockMoves  \* bound: changes of the stock

ASSUME BatchNewAssumption == MaxStock \in Nat /\ MaxCreates \in Nat /\ MaxStockMoves \in Nat

VARIABLES
  newForm,       \* the state of BatchNewPage
  newNet,        \* calls in flight
  newStock,      \* the server: stock of the plan, and how often it has changed
  newBatches,    \* the server: how many batches this form has made
  newTally       \* submissions, lost answers, and submissions after a success

newVars == <<newForm, newNet, newStock, newBatches, newTally>>

\* The field that is wrong, if any: one that validate looks at (name, payload_json,
\* webhook_url), or a number, prefix or address that only the server checks
\* (noValidate switches the browser's own checks off).
Faults == {"none", "page", "server"}

\* INITIAL: the name is still empty.
INITIAL ==
  [wrong |-> "page", expires |-> "", assign |-> FALSE, plan |-> FALSE,
   loading |-> FALSE, errors |-> FALSE, plans |-> "loading", available |-> 0, made |-> FALSE]

PlansCall == [op |-> "plans", expires |-> "", assign |-> FALSE, wrong |-> "none", state |-> "sent",
              stock |-> 0]
CreateCall(form) ==
  [op |-> "create", expires |-> form.expires, assign |-> form.assign, wrong |-> form.wrong,
   state |-> "sent", stock |-> 0]

BatchNewInit ==
  /\ newForm = INITIAL
  /\ newNet = <<PlansCall>>
  /\ newStock \in {[level |-> n, moves |-> 0] : n \in 0..MaxStock}
  /\ newBatches = 0
  /\ newTally = [sent |-> 0, lost |-> 0, again |-> 0]

-----------------------------------------------------------------------------
(* The form.                                                               *)

SetField(form) ==
  /\ newForm' = form
  /\ UNCHANGED <<newNet, newStock, newBatches, newTally>>

\* set("name", ...) and the like.  Only what becomes of the fields matters.
EditField(fault) ==
  newForm.wrong # fault /\ SetField([newForm EXCEPT !.wrong = fault])

SetExpiry(expires) ==
  newForm.expires # expires /\ SetField([newForm EXCEPT !.expires = expires])

\* The switch; turned off it forgets the plan.
AssignCredential(checked) ==
  /\ newForm.assign # checked
  /\ SetField([newForm EXCEPT !.assign = checked, !.plan = checked /\ newForm.plan])

\* The plan can be chosen while the list is shown and says it has stock.
SelectPlan ==
  /\ newForm.assign /\ newForm.plans = "ready" /\ newForm.available > 0 /\ ~newForm.plan
  /\ SetField([newForm EXCEPT !.plan = TRUE])

\* loadPlans, again from the alert.
loadNewPlans ==
  /\ newForm.assign /\ newForm.plans = "error"
  /\ newForm' = [newForm EXCEPT !.plans = "loading"]
  /\ newNet' = Append(newNet, PlansCall)
  /\ UNCHANGED <<newStock, newBatches, newTally>>

validate(form) ==
  /\ form.wrong # "page"
  /\ form.assign => form.plans = "ready" /\ form.plan /\ form.available > 0

\* Faulty variant: the button stays enabled while the call is on its way.
SubmitEnabled_Always(form) == TRUE

SubmitEnabled(form) == ~form.loading

\* handleSubmit up to the call.  After a success the form stays, enabled, until
\* the page it navigates to is there (a lazy route in a transition).
SubmitBatch ==
  /\ SubmitEnabled(newForm) /\ newTally.sent < MaxCreates
  /\ IF validate(newForm)
     THEN /\ newForm' = [newForm EXCEPT !.loading = TRUE, !.errors = FALSE]
          /\ newNet' = Append(newNet, CreateCall(newForm))
          /\ newTally' = [newTally EXCEPT !.sent = @ + 1,
                                          !.again = IF newForm.made THEN @ + 1 ELSE @]
     ELSE /\ newForm' = [newForm EXCEPT !.errors = TRUE]
          /\ UNCHANGED <<newNet, newTally>>
  /\ UNCHANGED <<newStock, newBatches>>

-----------------------------------------------------------------------------
(* The server.                                                             *)

\* Redemptions and uploads change the stock.
StockMoves ==
  /\ newStock.moves < MaxStockMoves
  /\ \E n \in 0..MaxStock : newStock' = [level |-> n, moves |-> newStock.moves + 1]
  /\ UNCHANGED <<newForm, newNet, newBatches, newTally>>

StockSuffices(call) == call.assign => newStock.level >= 1

\* time.Parse(time.RFC3339, ...).
ExpiryParses(expires) == expires \in {"", "rfc3339"}

\* CreateBatch up to the count of the stock; batch.CreateBatch runs in a
\* transaction of its own after it, and redemptions may take the last credential
\* in between (the API contract says nothing is created without one).
CheckBatch(i) ==
  LET call == newNet[i]
  IN /\ call.op = "create" /\ call.state = "sent"
     /\ newNet' = [newNet EXCEPT ![i].state =
          CASE call.wrong # "none" -> "invalid"
            [] call.wrong = "none" /\ ~ExpiryParses(call.expires) -> "expiry"
            [] call.wrong = "none" /\ ExpiryParses(call.expires) /\ ~StockSuffices(call) -> "no_stock"
            [] OTHER -> "checked"]
     /\ UNCHANGED <<newForm, newStock, newBatches, newTally>>

\* batchCreate makes the batch with all its codes, or fails and leaves nothing.
CreateBatch(i) ==
  /\ newNet[i].state = "checked"
  /\ \/ /\ newBatches' = newBatches + 1
        /\ newNet' = [newNet EXCEPT ![i].state = "ok"]
     \/ /\ newNet' = [newNet EXCEPT ![i].state = "failed"]
        /\ UNCHANGED newBatches
  /\ UNCHANGED <<newForm, newStock, newTally>>

ListPlans(i) ==
  /\ newNet[i].op = "plans" /\ newNet[i].state = "sent"
  /\ newNet' = [newNet EXCEPT ![i].state = "ok", ![i].stock = newStock.level]
  /\ UNCHANGED <<newForm, newStock, newBatches, newTally>>

-----------------------------------------------------------------------------
(* Answers.                                                                *)

PlansAnswered(i, ok) ==
  /\ newNet[i].op = "plans"
  /\ newForm' = IF ok THEN [newForm EXCEPT !.plans = "ready", !.available = newNet[i].stock]
                      ELSE [newForm EXCEPT !.plans = "error", !.available = 0]
  /\ UNCHANGED newTally

CreateAnswered(i, ok) ==
  /\ newNet[i].op = "create"
  /\ newForm' = IF ok THEN [newForm EXCEPT !.loading = FALSE, !.made = TRUE]
                      ELSE [newForm EXCEPT !.loading = FALSE, !.errors = TRUE]
  /\ newTally' = IF ~ok /\ newNet[i].state = "ok" THEN [newTally EXCEPT !.lost = @ + 1]
                                                  ELSE newTally

\* An answer, or a failure before it.  A checked call goes on to create its batch
\* whether or not anyone waits, so its failure is told after that: a batch made for
\* a call that failed is a lost answer in either order.
NewAnswer(i) ==
  /\ newNet[i].state # "checked"
  /\ \/ newNet[i].state = "ok" /\ (PlansAnswered(i, TRUE) \/ CreateAnswered(i, TRUE))
     \/ PlansAnswered(i, FALSE) \/ CreateAnswered(i, FALSE)
  /\ newNet' = RemoveAt(newNet, i)
  /\ UNCHANGED <<newStock, newBatches>>

\* The page navigated to, or a link, replaces the form; a new one starts empty.
\* (Leaving while a call is on its way is left out.)
LeaveNewBatch ==
  /\ newNet = <<>>
  /\ newForm' = INITIAL
  /\ newNet' = <<PlansCall>>
  /\ newBatches' = 0
  /\ newTally' = [newTally EXCEPT !.lost = 0, !.again = 0]
  /\ newForm # INITIAL
  /\ UNCHANGED newStock

BatchNewNext ==
  \/ \E fault \in Faults : EditField(fault)
  \/ \E expires \in {"", "local"} : SetExpiry(expires)
  \/ \E checked \in BOOLEAN : AssignCredential(checked)
  \/ SelectPlan \/ loadNewPlans \/ SubmitBatch \/ StockMoves \/ LeaveNewBatch
  \/ \E i \in DOMAIN newNet : CheckBatch(i) \/ CreateBatch(i) \/ ListPlans(i) \/ NewAnswer(i)

-----------------------------------------------------------------------------
(* Properties.                                                             *)

\* One form makes one batch: more than one only when an answer was lost and the
\* administrator tried again, or pressed the button again after the success was
\* shown.  Every batch has codes of its own, so a second one is handed out too.
OneBatchPerForm == newBatches =< 1 + newTally.lost + newTally.again

=============================================================================
