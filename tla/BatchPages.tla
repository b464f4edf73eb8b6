------------------------------ MODULE BatchPages ------------------------------
(***************************************************************************)
(* The list of batches (web/src/pages/admin/batches.tsx) and the page of a *)
(* batch with its codes (batch-detail.tsx), with the handlers they call    *)
(* (internal/httpapi/admin.go).  There is one batch and one administrator. *)
(*                                                                         *)
(* A toggle is confirmed in a dialog that says what it will do, from the   *)
(* status the page shows; the server flips whatever status it finds.  The  *)
(* reloads that follow a toggle are those of the render that sent it: they *)
(* ask for the tab and page of that time.                                  *)
(***************************************************************************)
EXTENDS Integers, SequencesExt, FiniteSetsExt

CONSTANTS
  CodeIds,        \* codes of the batch
  UsedUp,         \* the ones that have no use left
  CodesPerPage,   \* perPage, 50 in the code
  CodeTabs,       \* tabs of the list of codes: "all", "active", "used", "disabled"
  MaxBatchCalls,  \* bound: calls in flight
  MaxHaste        \* bound: failed calls, and actions that do not wait for a call

ASSUME BatchPagesAssumption ==
  /\ CodeIds \subseteq Int /\ UsedUp \subseteq CodeIds
  /\ CodesPerPage \in Nat \ {0} /\ "all" \in CodeTabs

VARIABLES
  batchView,      \* the page shown and its state
  batchNet,       \* calls in flight
  batchRow,       \* the server: status of the batch, disabled codes
  batchHaste      \* how often a call failed or the administrator did not wait for one

batchVars == <<batchView, batchNet, batchRow, batchHaste>>

Unknown == "unknown"
NoCodes == <<[id |-> 0, status |-> Unknown]>>
NoPaged == [total |-> 0, page |-> 1, pages |-> 1]

\* The initial state of either page: nothing is loaded.
FreshView(page) ==
  [page |-> page, status |-> Unknown, disabled |-> 0, notFound |-> FALSE,
   state |-> "all", at |-> 1, codes |-> NoCodes, paged |-> NoPaged]

BatchCall(op, code, says, state, at) ==
  [op |-> op, code |-> code, says |-> says, state |-> state, at |-> at, mine |-> TRUE,
   done |-> FALSE, row |-> [status |-> Unknown, disabled |-> {}]]

load_batches(v) == BatchCall("batches", 0, Unknown, "all", 1)
loadBatch(v) == BatchCall("batch", 0, Unknown, "all", 1)
loadCodes(v) == BatchCall("codes", 0, Unknown, v.state, v.at)

BatchPagesInit ==
  /\ batchView = FreshView("list")
  /\ batchNet = <<load_batches(FreshView("list"))>>
  /\ batchRow = [status |-> "active", disabled |-> {}]
  /\ batchHaste = 0

Room(n) == Len(batchNet) + n =< MaxBatchCalls

Disturb == batchHaste < MaxHaste /\ batchHaste' = batchHaste + 1
Wait == IF batchNet = <<>> THEN UNCHANGED batchHaste ELSE Disturb

-----------------------------------------------------------------------------
(* Navigation, tabs and pages.                                             *)

\* A link to a page, the list again by way of another page: the page left is
\* unmounted and its calls go on without it.
OpenPage(page) ==
  LET v == FreshView(page)
      loads == IF page = "list" THEN <<load_batches(v)>> ELSE <<loadBatch(v), loadCodes(v)>>
      old == [i \in DOMAIN batchNet |-> [batchNet[i] EXCEPT !.mine = FALSE]]
  IN /\ Room(Len(loads))
     /\ page = "detail" => batchView.page = "list" /\ batchView.status # Unknown
     /\ batchView' = v
     /\ batchNet' = old \o loads
     /\ Wait
     /\ UNCHANGED batchRow

\* What is drawn of the page of a batch: not found, a skeleton, or the batch.
DetailShown == batchView.page = "detail" /\ ~batchView.notFound /\ batchView.status # Unknown

\* The effect on [state, page]: a change of either asks for the codes anew.
ShowCodes(state, at) ==
  LET v == [batchView EXCEPT !.state = state, !.at = at, !.codes = NoCodes]
  IN /\ DetailShown /\ Room(1)
     /\ <<state, at>> # <<batchView.state, batchView.at>>
     /\ batchView' = v
     /\ batchNet' = Append(batchNet, loadCodes(v))
     /\ Wait
     /\ UNCHANGED batchRow

SelectTab(state) == ShowCodes(state, 1)

\* DataPagination: it steps from the page of the last answer, not from the one asked.
TurnCodePage ==
  LET paged == batchView.paged
  IN /\ paged.total # 0
     /\ \/ paged.page > 1 /\ ShowCodes(batchView.state, paged.page - 1)
        \/ paged.page < paged.pages /\ ShowCodes(batchView.state, paged.page + 1)

-----------------------------------------------------------------------------
(* Toggles, confirmed in ConfirmDialog.                                    *)

Flip(status) == IF status = "active" THEN "disabled" ELSE "active"

Confirm(call) ==
  /\ Room(1)
  /\ batchNet' = Append(batchNet, call)
  /\ Wait
  /\ UNCHANGED <<batchView, batchRow>>

\* handleToggle of the list, handleToggleBatch of the batch.
handleToggleBatch ==
  /\ batchView.status # Unknown /\ ~batchView.notFound
  /\ Confirm(BatchCall("toggleBatch", 0, Flip(batchView.status), batchView.state, batchView.at))

\* The buttons of the rows.
handleToggleCode(c) ==
  /\ DetailShown /\ batchView.codes # NoCodes
  /\ c \in Range(batchView.codes)
  /\ Confirm(BatchCall("toggleCode", c.id, Flip(c.status), batchView.state, batchView.at))

-----------------------------------------------------------------------------
(* The server.                                                             *)

\* ListCodesByBatchAndState, newest first.
Matching(disabled, state) ==
  CASE state = "all" -> CodeIds
    [] state = "disabled" -> disabled
    [] state = "used" -> UsedUp \ disabled
    [] OTHER -> CodeIds \ (disabled \union UsedUp)

CodePages(total) == (total + CodesPerPage - 1) \div CodesPerPage

PageIds(disabled, state, at) ==
  LET all == SetToSortSeq(Matching(disabled, state), LAMBDA a, b : a > b)
  IN SubSeq(all, (at - 1) * CodesPerPage + 1, Min({at * CodesPerPage, Len(all)}))

PageOfCodes(disabled, state, at) ==
  [i \in DOMAIN PageIds(disabled, state, at) |->
     LET id == PageIds(disabled, state, at)[i]
     IN [id |-> id, status |-> IF id \in disabled THEN "disabled" ELSE "active"]]

\* ToggleBatchStatus and ToggleCodeStatus flip what they find.
Toggled(row, call) ==
  CASE call.op = "toggleBatch" -> [row EXCEPT !.status = Flip(row.status)]
    [] call.op = "toggleCode" -> [row EXCEPT !.disabled = SymDiff(row.disabled, {call.code})]
    [] OTHER -> row

ServeBatchCall(i) ==
  /\ ~batchNet[i].done
  /\ batchRow' = Toggled(batchRow, batchNet[i])
  /\ batchNet' = [batchNet EXCEPT ![i].done = TRUE, ![i].row = batchRow']
  /\ UNCHANGED <<batchView, batchHaste>>

-----------------------------------------------------------------------------
(* Answers.                                                                *)

\* Faulty variant: after a code was toggled only the codes are loaded again.
Reloads_CodesOnly(call) ==
  CASE call.op = "toggleBatch" /\ batchView.page = "list" -> <<load_batches(call)>>
    [] call.op = "toggleBatch" /\ batchView.page = "detail" -> <<loadBatch(call)>>
    [] call.op = "toggleCode" -> <<loadCodes(call)>>
    [] OTHER -> <<>>

\* The reloads of a toggle that succeeded.
Reloads(call) ==
  CASE call.op = "toggleBatch" /\ batchView.page = "list" -> <<load_batches(call)>>
    [] call.op = "toggleBatch" /\ batchView.page = "detail" -> <<loadBatch(call)>>
    [] call.op = "toggleCode" -> <<loadCodes(call), loadBatch(call)>>
    [] OTHER -> <<>>

\* loadCodes also blanks the list at once.
AfterReload(v, loads) ==
  IF \E i \in DOMAIN loads : loads[i].op = "codes" THEN [v EXCEPT !.codes = NoCodes] ELSE v

BatchLoaded(v, call) ==
  LET total == Cardinality(Matching(call.row.disabled, call.state))
  IN CASE call.op = "batches" -> [v EXCEPT !.status = call.row.status]
       [] call.op = "batch" -> [v EXCEPT !.status = call.row.status, 
                                      !.disabled = Cardinality(call.row.disabled)]
       [] call.op = "codes" ->
            [v EXCEPT !.codes = PageOfCodes(call.row.disabled, call.state, call.at),
                      !.paged = [total |-> total, page |-> call.at, pages |-> CodePages(total)]]
       [] OTHER -> v

\* An answer.  The handler of an unmounted page still sends its reloads, for nobody.
BatchAnswered(i) ==
  LET call == batchNet[i]
      loads == IF call.mine THEN Reloads(call) ELSE <<>>
  IN /\ call.done
     /\ batchView' = IF call.mine THEN AfterReload(BatchLoaded(batchView, call), loads)
                                  ELSE batchView
     /\ batchNet' = RemoveAt(batchNet, i) \o loads
     /\ UNCHANGED <<batchRow, batchHaste>>

\* A call fails, executed or not.  Any failure to load the batch reads "not found".
BatchCallFails(i) ==
  /\ batchView' = IF batchNet[i].mine /\ batchNet[i].op = "batch"
                  THEN [batchView EXCEPT !.notFound = TRUE] ELSE batchView
  /\ batchNet' = RemoveAt(batchNet, i)
  /\ Disturb
  /\ UNCHANGED batchRow

BatchPagesNext ==
  \/ \E page \in {"list", "detail"} : OpenPage(page)
  \/ \E state \in CodeTabs : SelectTab(state)
  \/ TurnCodePage \/ handleToggleBatch
  \/ \E id \in CodeIds, status \in {"active", "disabled"} :
       handleToggleCode([id |-> id, status |-> status])
  \/ \E i \in DOMAIN batchNet : ServeBatchCall(i) \/ BatchAnswered(i) \/ BatchCallFails(i)

-----------------------------------------------------------------------------
(* Properties.                                                             *)

\* An administrator who waits for every answer, none of which fails, sees the
\* state of the server when nothing is on its way: the status, the number of
\* disabled codes, and the codes of the tab and page shown; and every confirmed
\* toggle does what its dialog said.  Every handler must reload all it changed.
WaitingSeesTruth ==
  batchHaste = 0 =>
    /\ \A i \in DOMAIN batchNet : LET call == batchNet[i] IN
         call.done => CASE call.op = "toggleBatch" -> call.row.status = call.says
                        [] call.op = "toggleCode" ->
                             (call.code \in call.row.disabled) <=> (call.says = "disabled")
                        [] OTHER -> TRUE
    /\ batchNet = <<>> =>
         /\ batchView.status = batchRow.status
         /\ batchView.page = "detail" =>
              /\ batchView.disabled = Cardinality(batchRow.disabled)
              /\ batchView.codes = PageOfCodes(batchRow.disabled, batchView.state, batchView.at)

=============================================================================
