---------------------------- MODULE CredentialsPage ----------------------------
(***************************************************************************)
(* The page where an administrator manages credentials                     *)
(* (web/src/pages/admin/credentials.tsx): a list by state and page, a      *)
(* selection, deletions, and the dialog that uploads a file into a plan.   *)
(*                                                                         *)
(* A call is sent with the values of the render that made its handler, and *)
(* answered at a later step, in any order; a failed call may have been     *)
(* executed.  The server reads a list with two statements and no           *)
(* transaction around them: the rows of the page, then their number.       *)
(* Before, between and after them other administrators upload and delete   *)
(* credentials and redemptions take them.  The counters of the stat cards, *)
(* the messages of the dialog and the detail of a credential are left out: *)
(* no handler reads them.                                                  *)
(***************************************************************************)
EXTENDS Integers, FiniteSets, SequencesExt, Lists

CONSTANTS
  CredIds,       \* ids a credential may get
  FirstCreds,    \* the ones there at the start
  CredStates,    \* STATE_TABS, or some of them
  CredSizes,     \* PAGE_SIZE_OPTIONS
  MaxCredCalls,  \* bound: calls of this page in flight
  MaxCredChanges \* bound: deletions, uploads and changes elsewhere

ASSUME CredentialsPageAssumption ==
  /\ CredIds \subseteq Nat /\ IsFiniteSet(CredIds)
  /\ FirstCreds \subseteq CredIds /\ MaxCredChanges \in Nat
  /\ CredStates \subseteq {"all", "unused", "used"}
  /\ CredSizes \subseteq Nat \ {0} /\ CredSizes # {}

VARIABLES
  cred,          \* the state of the list: filter, page, rows shown, selection
  credUpload,    \* the state of the upload dialog and the plans it offers
  credNet,       \* calls in flight, in the order they were sent
  credRows,      \* the ids in the credentials table
  credUsed,      \* the ids redemptions have taken, of deleted rows too
  credChanges,   \* deletions, uploads and changes elsewhere so far
  credBlank      \* why the list call that ended last, since load, left no rows, or "none"

credVars == <<cred, credUpload, credNet, credRows, credUsed, credChanges, credBlank>>

NoItems == {-1}   \* items === null: the skeleton is shown

-----------------------------------------------------------------------------
(* The server.                                                             *)

InState(id, state) ==
  CASE state = "all" -> TRUE
    [] state = "used" -> id \in credUsed
    [] state = "unused" -> id \notin credUsed

MatchingCreds(state) == {id \in credRows : InState(id, state)}

\* A page below 1 is page 1.
PageAsked(call) == IF call.page < 1 THEN 1 ELSE call.page

\* GET /api/admin/credentials, the first statement: a page of the rows, newest
\* first.  An empty page is a nil slice and arrives as null.
ListCredentials(i) ==
  LET call == credNet[i]
      all == MatchingCreds(call.state)
      rows == PageOf(all, PageAsked(call), call.size)
  IN /\ call.op = "list" /\ call.step = "sent"
     /\ credNet' = [credNet EXCEPT ![i].step = "listed", ![i].found = all,
                                   ![i].items = IF rows = {} THEN NoItems ELSE rows]
     /\ UNCHANGED <<cred, credUpload, credRows, credUsed, credChanges, credBlank>>

\* The second one: how many there are by now.
CountCredentials(i) ==
  LET call == credNet[i]
      all == MatchingCreds(call.state)
  IN /\ call.step = "listed"
     /\ credNet' = [credNet EXCEPT ![i].step = "counted", ![i].total = Cardinality(all),
                                   ![i].found = {}, ![i].raced = all # call.found]
     /\ UNCHANGED <<cred, credUpload, credRows, credUsed, credChanges, credBlank>>

-----------------------------------------------------------------------------
(* The list.                                                               *)

\* A call with the filter, page and size its handler closed over; and what the
\* server has read for it so far: the rows of the page, their number, and, for the
\* properties, all rows of the first statement and whether the second found others.
CredCall(op, ids, from) ==
  [op |-> op, ids |-> ids, state |-> from.state, page |-> from.page, size |-> from.pageSize,
   step |-> "sent", items |-> NoItems, found |-> {}, total |-> 0, raced |-> FALSE]

CredShown == cred.items # NoItems
Rows == IF CredShown THEN cred.items ELSE {}

\* load(): the rows disappear and a list call with the closed over values goes out.
load(state, net, from) ==
  /\ cred' = [state EXCEPT !.items = NoItems]
  /\ credNet' = Append(net, CredCall("list", {}, from))
  /\ credBlank' = "none"

\* The effect after a render: load has changed when state, page or size have.
LoadIfChanged(next, net, blank) ==
  IF <<next.state, next.page, next.pageSize>> = <<cred.state, cred.page, cred.pageSize>>
  THEN cred' = next /\ credNet' = net /\ credBlank' = blank
  ELSE load(next, net, next)

CredentialsInit ==
  LET first == [state |-> "all", page |-> 1, pageSize |-> CHOOSE s \in CredSizes : TRUE,
                items |-> NoItems, selected |-> {},
                paged |-> [total |-> 0, page |-> 1, pages |-> 1]]
  IN /\ cred = first
     /\ credUpload = [plans |-> "loading", pending |-> FALSE, uploading |-> FALSE]
     /\ credNet = <<CredCall("list", {}, first)>>
     /\ credRows = FirstCreds
     /\ credUsed = {}
     /\ credChanges = 0
     /\ credBlank = "none"

RoomForCall == Len(credNet) < MaxCredCalls
DialogClosed == ~credUpload.pending

CountChange == credChanges < MaxCredChanges /\ credChanges' = credChanges + 1

\* The tabs over the list; they work while the list is loading.
ChooseState(state) ==
  /\ DialogClosed /\ RoomForCall
  /\ LoadIfChanged([cred EXCEPT !.state = state, !.page = 1], credNet, credBlank)
  /\ UNCHANGED <<credUpload, credRows, credUsed, credChanges>>

ChooseSize(size) ==
  /\ DialogClosed /\ RoomForCall /\ CredShown
  /\ LoadIfChanged([cred EXCEPT !.pageSize = size, !.page = 1], credNet, credBlank)
  /\ UNCHANGED <<credUpload, credRows, credUsed, credChanges>>

\* The arrows step from the page of the state, and are enabled by the page of
\* the answer shown.
TurnPage ==
  /\ DialogClosed /\ RoomForCall /\ CredShown
  /\ \/ cred.paged.page > 1 /\ LoadIfChanged([cred EXCEPT !.page = @ - 1], credNet, credBlank)
     \/ /\ cred.paged.page < cred.paged.pages
        /\ LoadIfChanged([cred EXCEPT !.page = @ + 1], credNet, credBlank)
  /\ UNCHANGED <<credUpload, credRows, credUsed, credChanges>>

\* The page numbers offered: all of up to five, else the first, the last and
\* those around the page shown.
compactPageItems(page, pages) ==
  CASE pages <= 5 -> 1 .. pages
    [] pages > 5 /\ page <= 3 -> {1, 2, 3, pages}
    [] pages > 5 /\ page >= pages - 2 /\ page > 3 -> {1, pages - 2, pages - 1, pages}
    [] OTHER -> {1, page, pages}

GoToPage(page) ==
  /\ DialogClosed /\ RoomForCall /\ CredShown
  /\ page \in compactPageItems(cred.paged.page, cred.paged.pages)
  /\ LoadIfChanged([cred EXCEPT !.page = page], credNet, credBlank)
  /\ UNCHANGED <<credUpload, credRows, credUsed, credChanges>>

toggleSelect(id) ==
  /\ DialogClosed /\ id \in Rows
  /\ cred' = [cred EXCEPT !.selected = IF id \in @ THEN @ \ {id} ELSE @ \cup {id}]
  /\ UNCHANGED <<credUpload, credNet, credRows, credUsed, credChanges, credBlank>>

toggleSelectAll ==
  /\ DialogClosed /\ CredShown
  /\ cred' = [cred EXCEPT !.selected =
                IF Cardinality(@) = Cardinality(cred.items) THEN {} ELSE cred.items]
  /\ UNCHANGED <<credUpload, credNet, credRows, credUsed, credChanges, credBlank>>

\* handleDelete, behind a confirmation in the row.
handleDelete(id) ==
  /\ DialogClosed /\ RoomForCall /\ id \in Rows
  /\ CountChange
  /\ credNet' = Append(credNet, CredCall("delete", {id}, cred))
  /\ UNCHANGED <<cred, credUpload, credRows, credUsed, credBlank>>

\* The button only needs a selection: the list may be loading.
BatchDeleteOffered == DialogClosed /\ cred.selected # {}

handleBatchDelete ==
  /\ BatchDeleteOffered /\ RoomForCall
  /\ CountChange
  /\ credNet' = Append(credNet, CredCall("delete", cred.selected, cred))
  /\ UNCHANGED <<cred, credUpload, credRows, credUsed, credBlank>>

-----------------------------------------------------------------------------
(* The upload dialog.                                                      *)

\* A file is chosen or dropped.
stageUpload ==
  /\ credUpload.plans = "ready" /\ ~credUpload.uploading
  /\ credUpload' = [credUpload EXCEPT !.pending = TRUE]
  /\ UNCHANGED <<cred, credNet, credRows, credUsed, credChanges, credBlank>>

\* Faulty variant: the dialog can be closed during the upload.
closeUploadDialog_Always ==
  /\ credUpload.pending
  /\ credUpload' = [credUpload EXCEPT !.pending = FALSE]
  /\ UNCHANGED <<cred, credNet, credRows, credUsed, credChanges, credBlank>>

closeUploadDialog ==
  /\ credUpload.pending /\ ~credUpload.uploading
  /\ credUpload' = [credUpload EXCEPT !.pending = FALSE]
  /\ UNCHANGED <<cred, credNet, credRows, credUsed, credChanges, credBlank>>

\* handleUpload with a plan that is neither missing, nor too long, nor has control
\* characters: the file goes out.
handleUpload ==
  /\ credUpload.pending /\ ~credUpload.uploading
  /\ RoomForCall /\ CountChange
  /\ credUpload' = [credUpload EXCEPT !.uploading = TRUE]
  /\ credNet' = Append(credNet, CredCall("upload", {}, cred))
  /\ UNCHANGED <<cred, credRows, credUsed, credBlank>>

\* loadPlans ends; an answer to an earlier loadPlans ends it too.
PlansArrive ==
  /\ credUpload.plans = "loading"
  /\ \E plans \in {"ready", "error"} : credUpload' = [credUpload EXCEPT !.plans = plans]
  /\ UNCHANGED <<cred, credNet, credRows, credUsed, credChanges, credBlank>>

\* loadPlans from the alert that says the plans could not be loaded.
RetryPlans ==
  /\ credUpload.plans = "error" /\ DialogClosed
  /\ credUpload' = [credUpload EXCEPT !.plans = "loading"]
  /\ UNCHANGED <<cred, credNet, credRows, credUsed, credChanges, credBlank>>

-----------------------------------------------------------------------------
(* Calls on their way.                                                     *)

\* What the server may do with a call.  An upload adds a credential or only
\* repeats some.  (The id of a deleted row that was never used may come back here,
\* which the table's sequence prevents.)
FreshIds == CredIds \ (credRows \cup credUsed)

RowsAfter(call) ==
  CASE call.op = "delete" -> {credRows \ call.ids}
    [] call.op = "upload" -> {credRows} \cup {credRows \cup {id} : id \in FreshIds}
    [] call.op = "list" -> {credRows}

\* Another administrator deletes or uploads a row, or a redemption takes it.
ElsewhereChanged(id) ==
  /\ \/ id \in credRows /\ credRows' = credRows \ {id} /\ UNCHANGED credUsed
     \/ id \in FreshIds /\ credRows' = credRows \cup {id} /\ UNCHANGED credUsed
     \/ id \in credRows \ credUsed /\ credUsed' = credUsed \cup {id} /\ UNCHANGED credRows
  /\ CountChange
  /\ UNCHANGED <<cred, credUpload, credNet, credBlank>>

\* Faulty variant: a new list keeps the old selection.
ShowList_KeepSelection(answer, state) ==
  [state EXCEPT !.items = answer.items,
                !.paged = [total |-> answer.total, page |-> answer.page, pages |-> answer.pages]]

\* The rows, the range and an empty selection.
ShowList(answer, state) ==
  [state EXCEPT !.items = answer.items, !.selected = {},
                !.paged = [total |-> answer.total, page |-> answer.page, pages |-> answer.pages]]

\* Faulty variant: no page is beyond the last one.
BeyondLast_Never(page, answer) == FALSE

BeyondLast(page, answer) == answer.total > 0 /\ page > answer.pages

\* What the answer to a call says.
AnswerTo(call) ==
  [items |-> call.items, total |-> call.total, page |-> PageAsked(call),
   pages |-> PagesOf(call.total, call.size)]

\* The call asked for what is chosen now.
IsChosen(call) == <<call.state, call.page, call.size>> = <<cred.state, cred.page, cred.pageSize>>

Reason(call) ==
  CASE ~IsChosen(call) -> "stale"
    [] IsChosen(call) /\ call.raced -> "raced"
    [] IsChosen(call) /\ ~call.raced /\ call.total = 0 -> "empty"
    [] OTHER -> "page"

\* A list arrives.  Beyond the last page the page is set to the last one, which
\* loads again unless it is the page of the state already.
ListArrives(i) ==
  LET call == credNet[i]
      answer == AnswerTo(call)
      net == RemoveAt(credNet, i)
      last == [cred EXCEPT !.page = answer.pages]
  IN /\ call.op = "list" /\ call.step = "counted"
     /\ \/ /\ BeyondLast(call.page, answer)
           /\ LoadIfChanged(last, net, Reason(call))
        \/ /\ ~BeyondLast(call.page, answer)
           /\ cred' = ShowList(answer, cred)
           /\ credNet' = net
           /\ credBlank' = IF answer.items # NoItems THEN "none" ELSE Reason(call)
     /\ UNCHANGED <<credUpload, credRows, credUsed, credChanges>>

\* A deletion or an upload succeeded: the list is loaded with the values of the
\* render that sent the call, and the plans again.
ChangeArrives(i) ==
  LET call == credNet[i]
      from == [state |-> call.state, page |-> call.page, pageSize |-> call.size]
  IN /\ call.op \in {"delete", "upload"}
     /\ credRows' \in RowsAfter(call)
     /\ load(cred, RemoveAt(credNet, i), from)
     /\ credUpload' = IF call.op = "upload"
                      THEN [credUpload EXCEPT !.plans = "loading", !.pending = FALSE,
                                              !.uploading = FALSE]
                      ELSE [credUpload EXCEPT !.plans = "loading"]
     /\ UNCHANGED <<credUsed, credChanges>>

\* A call fails, executed or not: a toast, or an error in the dialog.
CredFails(i) ==
  LET call == credNet[i]
  IN /\ credNet' = RemoveAt(credNet, i)
     /\ credRows' \in {credRows} \cup RowsAfter(call)
     /\ credUpload' = IF call.op = "upload"
                      THEN [credUpload EXCEPT !.uploading = FALSE] ELSE credUpload
     /\ credBlank' = IF call.op = "list" THEN "failed" ELSE credBlank
     /\ UNCHANGED <<cred, credUsed, credChanges>>

CredSettles(i) ==
  ListCredentials(i) \/ CountCredentials(i) \/ ListArrives(i) \/ ChangeArrives(i) \/ CredFails(i)

CredentialsNext ==
  \/ \E state \in CredStates : ChooseState(state)
  \/ \E size \in CredSizes : ChooseSize(size)
  \/ TurnPage \/ \E page \in 1 .. Cardinality(CredIds) : GoToPage(page)
  \/ toggleSelectAll \/ handleBatchDelete
  \/ \E id \in CredIds : toggleSelect(id) \/ handleDelete(id)
  \/ \E id \in CredIds : ElsewhereChanged(id)
  \/ stageUpload \/ closeUploadDialog \/ handleUpload \/ PlansArrive \/ RetryPlans
  \/ \E i \in DOMAIN credNet : CredSettles(i)

-----------------------------------------------------------------------------
(* Properties.                                                             *)

\* While rows are shown the selection is among them: what the header counts and
\* deletes is what the administrator sees ticked, also when answers to an older
\* filter or page arrive late.
SelectionIsVisible == CredShown => cred.selected \subseteq Rows

\* While a file is being uploaded its dialog stays open, so its success or its
\* error is reported there and no other file can take its place.
UploadKeepsItsDialog ==
  (\E i \in DOMAIN credNet : credNet[i].op = "upload") => credUpload.uploading /\ credUpload.pending

\* The table is a skeleton only while a list is on its way, or after the list call
\* that ended last failed, was for another filter, page or size than the one chosen,
\* had rows change between its two statements, or found no row at all.  So when
\* deletions and redemptions, here or elsewhere, take away the page that is asked
\* for, the page number follows to one that has rows, however often that happens.
BlankIsExplained ==
  \/ CredShown
  \/ \E i \in DOMAIN credNet : credNet[i].op = "list"
  \/ credBlank \in {"failed", "stale", "raced", "empty"}

=============================================================================
