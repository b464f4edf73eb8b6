------------------------------- MODULE FaqPage -------------------------------
(***************************************************************************)
(* The page that manages the redemption notes (web/src/pages/admin/        *)
(* faq.tsx), with the handlers and queries it calls (internal/httpapi/     *)
(* admin.go, db/queries/queries.sql).                                      *)
(*                                                                         *)
(* A note is its id and its text; BlankFaq is a title or a content that    *)
(* trims to nothing.  A row of faq_items is a text and a sort order, which *)
(* a unique index keeps distinct, row by row within a statement.  A list   *)
(* without notes is sent as null, which is also the page's initial value.  *)
(***************************************************************************)
EXTENDS Naturals, SequencesExt, FiniteSetsExt, Lists

CONSTANTS
  FaqTexts,      \* texts of a note
  BlankFaq,      \* a text that handleSave refuses
  FirstFaq,      \* ids of the rows when the page is opened: the others were deleted
  MaxFaqId,      \* bound: ids given out
  MaxFaqCalls    \* bound: calls in flight

ASSUME FaqAssumption ==
  BlankFaq \notin FaqTexts /\ MaxFaqId \in Nat /\ FirstFaq \subseteq 1..MaxFaqId

VARIABLES
  faq,           \* the state of FaqPage: items and form
  faqNet,        \* calls in flight
  faqTable,      \* faq_items: rows by id, and the last id given out
  faqSeen        \* whether the shown order is only the page's own, and whether
                 \* the last load to end failed

faqVars == <<faq, faqNet, faqTable, faqSeen>>

NoNotes == <<>>
ClosedForm == [open |-> FALSE, item |-> 0, text |-> BlankFaq]

FaqCall(op, id, text, ids) ==
  [op |-> op, id |-> id, text |-> text, ids |-> ids, state |-> "sent", items |-> NoNotes]

loadFaq == FaqCall("load", 0, BlankFaq, <<>>)

FaqInit ==
  /\ faq = [items |-> NoNotes, form |-> ClosedForm]
  /\ faqNet = <<loadFaq>>
  /\ \E text \in FaqTexts :
       faqTable = [rows |-> [id \in FirstFaq |-> [text |-> text, order |-> id]],
                   last |-> Max(FirstFaq \union {0})]
  /\ faqSeen = [own |-> FALSE, failed |-> FALSE]

-----------------------------------------------------------------------------
(* The page: list, buttons and form.                                       *)

OpenFaq(item, text) ==
  /\ faq' = [faq EXCEPT !.form = [open |-> TRUE, item |-> item, text |-> text]]
  /\ UNCHANGED <<faqNet, faqTable, faqSeen>>

\* openCreate and openEdit, from buttons that the open dialog covers.
openCreate == ~faq.form.open /\ OpenFaq(0, BlankFaq)
openEdit(i) == ~faq.form.open /\ OpenFaq(faq.items[i].id, faq.items[i].text)

\* The fields of the form, and closing it.
TypeFaq(text) ==
  /\ faq.form.open /\ faq.form.text # text
  /\ OpenFaq(faq.form.item, text)

\* What a closed form still holds is not read again.
closeForm ==
  /\ faq.form.open
  /\ faq' = [faq EXCEPT !.form = ClosedForm]
  /\ UNCHANGED <<faqNet, faqTable, faqSeen>>

SendFaq(call) ==
  /\ Len(faqNet) < MaxFaqCalls
  /\ faqNet' = Append(faqNet, call)
  /\ UNCHANGED faqTable

\* handleSave up to the call.  Nothing disables the button while it runs.
SaveFaq ==
  /\ faq.form.open /\ faq.form.text # BlankFaq
  /\ SendFaq(FaqCall(IF faq.form.item = 0 THEN "create" ELSE "update",
                     faq.form.item, faq.form.text, <<>>))
  /\ UNCHANGED <<faq, faqSeen>>

\* handleDelete up to the call, confirmed in a dialog.
DeleteFaq(i) ==
  /\ ~faq.form.open
  /\ SendFaq(FaqCall("delete", faq.items[i].id, BlankFaq, <<>>))
  /\ UNCHANGED <<faq, faqSeen>>

Ids(items) == [i \in DOMAIN items |-> items[i].id]

\* move up to the call; the buttons and the early return keep j in the list.
move(i, j) ==
  LET next == InsertAt(RemoveAt(faq.items, i), j, faq.items[i])
  IN /\ ~faq.form.open /\ j \in DOMAIN faq.items
     /\ faq' = [faq EXCEPT !.items = next]
     /\ faqSeen' = [faqSeen EXCEPT !.own = TRUE]
     /\ SendFaq(FaqCall("reorder", 0, BlankFaq, Ids(next)))

-----------------------------------------------------------------------------
(* The server.                                                             *)

\* ListFAQ: ORDER BY sort_order.  As many orders are above that of the i-th row as
\* there are rows after it.
Listed(rows) ==
  LET orders == {rows[id].order : id \in DOMAIN rows}
      n == Cardinality(orders)
      at(i) == CHOOSE id \in DOMAIN rows : Place(orders, rows[id].order) = n - i
  IN [i \in 1..n |-> [id |-> at(i), text |-> rows[at(i)].text]]

\* CreateFAQ: the row is put after every other.
Created(table, text) ==
  LET order == Max({table.rows[id].order : id \in DOMAIN table.rows} \union {0}) + 1
      new   == table.last + 1
  IN [rows |-> [id \in DOMAIN table.rows \union {new} |->
                  IF id = new THEN [text |-> text, order |-> order] ELSE table.rows[id]],
      last |-> new]

\* ReorderFAQ updates the rows named one after the other, in an order the
\* database chooses; the unique index refuses a step that meets a taken order.
NewOrder(ids, id) == CHOOSE i \in DOMAIN ids : ids[i] = id

Reordered(rows, ids) ==
  [id \in DOMAIN rows |-> IF id \in Range(ids) THEN [rows[id] EXCEPT !.order = NewOrder(ids, id)]
                                               ELSE rows[id]]

Collides(rows, ids, sequence) ==
  \E k \in DOMAIN sequence : \E id \in DOMAIN rows \ {sequence[k]} :
     LET done == {sequence[m] : m \in 1..(k - 1)}
     IN NewOrder(ids, sequence[k]) =
          IF id \in done THEN NewOrder(ids, id) ELSE rows[id].order

\* The tables a call may leave; none when it is refused.
Outcome(call) ==
  LET rows == faqTable.rows
  IN CASE call.op = "load" -> {faqTable}
       [] call.op = "create" -> {Created(faqTable, call.text)}
       [] call.op = "update" /\ call.id \in DOMAIN rows ->
            {[faqTable EXCEPT !.rows[call.id].text = call.text]}
       [] call.op = "delete" ->
            {[faqTable EXCEPT !.rows = [id \in DOMAIN rows \ {call.id} |-> rows[id]]]}
       [] call.op = "reorder" /\ \E s \in SetToSeqs(Range(call.ids) \intersect DOMAIN rows) :
                                    ~Collides(rows, call.ids, s) ->
            {[faqTable EXCEPT !.rows = Reordered(rows, call.ids)]}
       [] OTHER -> {}

MayRefuse(call) ==
  \/ Outcome(call) = {}
  \/ call.op = "reorder" /\ \E s \in SetToSeqs(Range(call.ids) \intersect DOMAIN faqTable.rows) :
                               Collides(faqTable.rows, call.ids, s)

\* The body of the answer that the page reads.
Body(call) == IF call.op = "load" THEN Listed(faqTable.rows) ELSE NoNotes

ServeFaq(k) ==
  LET call == faqNet[k]
  IN /\ call.state = "sent" /\ (call.op = "create" => faqTable.last < MaxFaqId)
     /\ \/ /\ faqTable' \in Outcome(call)
           /\ faqNet' = [faqNet EXCEPT ![k].state = "ok", ![k].items = Body(call)]
        \/ /\ MayRefuse(call)
           /\ faqNet' = [faqNet EXCEPT ![k].state = "refused"]
           /\ UNCHANGED faqTable
     /\ UNCHANGED <<faq, faqSeen>>

-----------------------------------------------------------------------------
(* Answers.                                                                *)

\* Faulty variant: a refused move is not followed by a load.
Follow_SuccessOnly(call, ok) == IF ok THEN <<loadFaq>> ELSE <<>>

\* The load() that ends a handler: after any success, and after a failed move.
Follow(call, ok) == IF ok \/ call.op = "reorder" THEN <<loadFaq>> ELSE <<>>

\* load's then and catch.
FaqLoaded(k, ok) ==
  /\ faqNet[k].op = "load"
  /\ faq' = IF ok THEN [faq EXCEPT !.items = faqNet[k].items] ELSE faq
  /\ faqSeen' = [own |-> faqSeen.own /\ ~ok, failed |-> ~ok]
  /\ faqNet' = RemoveAt(faqNet, k)

\* The rest of handleSave, handleDelete and move.  A save closes the form that
\* is open when its answer comes.
FaqChanged(k, ok) ==
  LET call == faqNet[k]
  IN /\ call.op # "load"
     /\ faq' = IF ok /\ call.op \in {"create", "update"}
               THEN [faq EXCEPT !.form = ClosedForm] ELSE faq
     /\ faqNet' = RemoveAt(faqNet, k) \o Follow(call, ok)
     /\ UNCHANGED faqSeen

\* An answer arrives, or the call fails before or after the server executed it.
FaqAnswer(k) ==
  /\ \/ faqNet[k].state = "ok" /\ (FaqLoaded(k, TRUE) \/ FaqChanged(k, TRUE))
     \/ FaqLoaded(k, FALSE) \/ FaqChanged(k, FALSE)
  /\ UNCHANGED faqTable

FaqNext ==
  \/ openCreate \/ closeForm \/ SaveFaq
  \/ \E text \in FaqTexts \union {BlankFaq} : TypeFaq(text)
  \/ \E i \in DOMAIN faq.items : openEdit(i) \/ DeleteFaq(i) \/ move(i, i - 1) \/ move(i, i + 1)
  \/ \E k \in DOMAIN faqNet : ServeFaq(k) \/ FaqAnswer(k)

-----------------------------------------------------------------------------
(* Properties.                                                             *)

\* An order that the page showed before the server agreed ("optimistic update" in
\* move) is never left standing: while it is shown, the move or a load that will
\* correct it is on its way, or a load has failed and the page said so.  The move
\* may be refused, be lost, and cross other loads, moves and deletions.
OwnOrderIsChecked ==
  faqSeen.own => \/ faqSeen.failed
                 \/ \E k \in DOMAIN faqNet : faqNet[k].op \in {"reorder", "load"}

\* The page says of the list that moving up and down adjusts the order: the
\* database does not refuse a move that names exactly the rows it has.
MoveTakesEffect ==
  \A k \in DOMAIN faqNet :
    faqNet[k].op = "reorder" /\ Range(faqNet[k].ids) = DOMAIN faqTable.rows
      => faqNet[k].state # "refused"

=============================================================================
