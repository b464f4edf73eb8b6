-------------------------- MODULE BatchPagesProofs --------------------------
(***************************************************************************)
(* Proofs about the pages of batches and codes, for any set of codes, any  *)
(* size of a page and any number of calls in flight; and that the state of *)
(* the whole client keeps its shape, which needs the invariants of all the *)
(* pages.                                                                  *)
(***************************************************************************)
EXTENDS AdminPagesProofs, RedeemPageProofs

\* The fields of the page's state and of a call.
IsBatchView(v) ==
  v \in [page: {"list", "detail"}, status: {v.status}, disabled: {v.disabled},
         notFound: {v.notFound}, state: {v.state}, at: {v.at}, codes: {v.codes}, paged: {v.paged}]
LoadOps == {"batches", "batch", "codes"}
ToggleOps == {"toggleBatch", "toggleCode"}
IsBatchCall(call) ==
  call \in [op: LoadOps \cup ToggleOps, code: {call.code}, says: {call.says}, state: {call.state},
            at: {call.at}, mine: {TRUE}, done: BOOLEAN, row: {call.row}]

\* What the page shows is so on the server.
StatusTrue == batchView.status = batchRow.status
CountTrue == batchView.page = "detail" => batchView.disabled = Cardinality(batchRow.disabled)
CodesTrue ==
  batchView.page = "detail" =>
    batchView.codes = PageOfCodes(batchRow.disabled, batchView.state, batchView.at)

OnItsWay(ops) == \E i \in DOMAIN batchNet : batchNet[i].op \in ops

\* Only loads are on their way: what is not true yet will be loaded, for the tab
\* and page shown, and what has been read is still so.
Loading ==
  /\ batchNet \in Seq({batchNet[i] : i \in DOMAIN batchNet})
  /\ \A i \in DOMAIN batchNet : LET call == batchNet[i] IN
       /\ IsBatchCall(call) /\ call.op \in LoadOps
       /\ call.done => call.row = batchRow
       /\ call.op = "codes" => call.state = batchView.state /\ call.at = batchView.at
  /\ StatusTrue \/ OnItsWay({"batches", "batch"})
  /\ CountTrue \/ OnItsWay({"batch"})
  /\ CodesTrue \/ OnItsWay({"codes"})

\* One toggle is on its way and nothing else.  Until it is executed all that is
\* shown is true, and the status it will find is the one its dialog was about.
ToggleWaits(call) ==
  /\ StatusTrue /\ CountTrue /\ CodesTrue
  /\ call.op = "toggleBatch" => call.says = Flip(batchRow.status)
  /\ call.op = "toggleCode" => call.says = IF call.code \in batchRow.disabled THEN "active" ELSE "disabled"

ToggleIsDone(call) ==
  /\ call.row = batchRow
  /\ call.op = "toggleBatch" => batchRow.status = call.says /\ CountTrue /\ CodesTrue
  /\ call.op = "toggleCode" => (call.code \in batchRow.disabled <=> call.says = "disabled")

Toggling ==
  \E call \in {batchNet[i] : i \in DOMAIN batchNet} :
    /\ batchNet = <<call>> /\ IsBatchCall(call) /\ call.op \in ToggleOps
    /\ call.state = batchView.state /\ call.at = batchView.at
    /\ call.op = "toggleCode" => batchView.page = "detail"
    /\ IF call.done THEN ToggleIsDone(call) ELSE ToggleWaits(call)

\* As long as nobody hurried and nothing failed.
Calm ==
  /\ IsBatchView(batchView)
  /\ batchRow \in [status: {"active", "disabled"}, disabled: {batchRow.disabled}]
  /\ Loading \/ Toggling

WaitInv == batchHaste \in Nat /\ (batchHaste = 0 => Calm)

-----------------------------------------------------------------------------

\* A call that was just sent is not executed.
LEMMA SentCall ==
  ASSUME NEW op \in LoadOps \cup ToggleOps, NEW code, NEW says, NEW state, NEW at
  PROVE  LET call == BatchCall(op, code, says, state, at)
         IN /\ IsBatchCall(call) /\ call.op = op /\ ~call.done
            /\ call.code = code /\ call.says = says /\ call.state = state /\ call.at = at
BY DEF BatchCall, IsBatchCall

\* The status in a row of the list tells whether the code is disabled.
LEMMA CodeStatus ==
  ASSUME NEW disabled, NEW state, NEW at, NEW c \in Range(PageOfCodes(disabled, state, at))
  PROVE  c.status = IF c.id \in disabled THEN "disabled" ELSE "active"
BY DEF Range, PageOfCodes

\* At first the list is loading.
LEMMA WaitBegins == BatchPagesInit => WaitInv
<1> SUFFICES ASSUME BatchPagesInit PROVE WaitInv
  OBVIOUS
<1> DEFINE call == load_batches(FreshView("list"))
<1>1. IsBatchCall(call) /\ call.op = "batches" /\ ~call.done
  BY SentCall DEF load_batches, LoadOps
<1> HIDE DEF call
<1>2. batchNet = <<call>> /\ batchView = FreshView("list") /\ batchHaste = 0
      /\ batchRow = [status |-> "active", disabled |-> {}]
  BY DEF BatchPagesInit, call
<1>3. batchNet \in Seq({call}) /\ DOMAIN batchNet = {1} /\ batchNet[1] = call
  BY <1>2
<1>4. IsBatchView(batchView) /\ batchView.page = "list"
  BY <1>2 DEF FreshView, IsBatchView
<1>5. Loading
  BY <1>1, <1>3, <1>4, OwnElements DEF Loading, OnItsWay, CountTrue, CodesTrue, LoadOps
<1>. QED BY <1>2, <1>4, <1>5 DEF WaitInv, Calm

\* With nothing on its way all that is shown is true.
LEMMA CalmAndIdle == Calm /\ batchNet = <<>> => Loading /\ StatusTrue /\ CountTrue /\ CodesTrue
<1> SUFFICES ASSUME Calm, batchNet = <<>> PROVE Loading /\ StatusTrue /\ CountTrue /\ CodesTrue
  OBVIOUS
<1>1. DOMAIN batchNet = {}
  OBVIOUS
<1>2. Loading
  BY <1>1 DEF Calm, Toggling
<1>. QED BY <1>1, <1>2 DEF Loading, OnItsWay

\* A step that does not count as haste keeps the page calm.
LEMMA CalmStep ==
  ASSUME Calm, BatchPagesNext, batchHaste = 0, batchHaste' = 0
  PROVE  Calm'
<1>0. /\ IsBatchView(batchView) /\ batchView.page \in {"list", "detail"}
      /\ batchRow \in [status: {"active", "disabled"}, disabled: {batchRow.disabled}]
  BY DEF Calm, IsBatchView
<1>1. Wait => batchNet = <<>>
  BY DEF Wait, Disturb
<1>2. ~Disturb
  BY DEF Disturb
<1>3. ASSUME Wait PROVE DOMAIN batchNet = {} /\ StatusTrue /\ CountTrue /\ CodesTrue
  BY <1>1, <1>3, CalmAndIdle
\* Pages and tabs.
<1>4. ASSUME NEW page \in {"list", "detail"}, OpenPage(page) PROVE Calm'
  <2> DEFINE v == FreshView(page)
  <2>1. IsBatchView(v) /\ v.page = page
    BY DEF FreshView, IsBatchView
  <2>2. batchView' = v /\ UNCHANGED batchRow /\ batchNet = <<>>
    BY <1>1, <1>4 DEF OpenPage
  <2> HIDE DEF v
  <2>3. /\ IsBatchCall(load_batches(v)) /\ load_batches(v).op = "batches" /\ ~load_batches(v).done
        /\ IsBatchCall(loadBatch(v)) /\ loadBatch(v).op = "batch" /\ ~loadBatch(v).done
        /\ IsBatchCall(loadCodes(v)) /\ loadCodes(v).op = "codes" /\ ~loadCodes(v).done
        /\ loadCodes(v).state = v.state /\ loadCodes(v).at = v.at
    BY SentCall DEF load_batches, loadBatch, loadCodes, LoadOps
  <2>4. CASE page = "list"
    <3>1. batchNet' = <<load_batches(v)>>
      BY <1>4, <2>2, <2>4 DEF OpenPage, v
    <3>2. batchNet' \in Seq({load_batches(v)}) /\ DOMAIN batchNet' = {1} /\ batchNet'[1] = load_batches(v)
      BY <3>1
    <3>3. Loading'
      BY <2>1, <2>2, <2>3, <2>4, <3>2, OwnElements DEF Loading, OnItsWay, CountTrue, CodesTrue, LoadOps
    <3>. QED BY <1>0, <2>1, <2>2, <3>3 DEF Calm
  <2>5. CASE page = "detail"
    <3>1. batchNet' = <<loadBatch(v), loadCodes(v)>>
      BY <1>4, <2>2, <2>5 DEF OpenPage, v
    <3>2. /\ batchNet' \in Seq({loadBatch(v), loadCodes(v)}) /\ DOMAIN batchNet' = {1, 2}
          /\ batchNet'[1] = loadBatch(v) /\ batchNet'[2] = loadCodes(v)
      BY <3>1
    <3>3. Loading'
      BY <2>1, <2>2, <2>3, <3>2, OwnElements DEF Loading, OnItsWay, LoadOps
    <3>. QED BY <1>0, <2>1, <2>2, <3>3 DEF Calm
  <2>. QED BY <2>4, <2>5
<1>5. ASSUME NEW state, NEW at, ShowCodes(state, at) PROVE Calm'
  <2> DEFINE v == [batchView EXCEPT !.state = state, !.at = at, !.codes = NoCodes]
             call == loadCodes(v)
  <2>1. /\ IsBatchView(v) /\ v.page = batchView.page /\ v.status = batchView.status
        /\ v.disabled = batchView.disabled /\ v.state = state /\ v.at = at
    BY <1>0 DEF IsBatchView
  <2>2. batchView' = v /\ UNCHANGED batchRow /\ batchNet = <<>> /\ batchNet' = <<call>>
    BY <1>1, <1>5 DEF ShowCodes
  <2> HIDE DEF v
  <2>3. IsBatchCall(call) /\ call.op = "codes" /\ ~call.done /\ call.state = v.state /\ call.at = v.at
    BY SentCall DEF loadCodes, LoadOps
  <2> HIDE DEF call
  <2>4. batchNet' \in Seq({call}) /\ DOMAIN batchNet' = {1} /\ batchNet'[1] = call
    BY <2>2
  <2>5. StatusTrue' /\ CountTrue'
    BY <1>3, <1>5, <2>1, <2>2 DEF ShowCodes, StatusTrue, CountTrue
  <2>6. Loading'
    BY <2>2, <2>3, <2>4, <2>5, OwnElements DEF Loading, OnItsWay, LoadOps
  <2>. QED BY <1>0, <2>1, <2>2, <2>6 DEF Calm
\* Toggles.
<1>6. ASSUME NEW call, Confirm(call), IsBatchCall(call), call.op \in ToggleOps, ~call.done,
             call.state = batchView.state, call.at = batchView.at,
             call.op = "toggleCode" => batchView.page = "detail",
             ToggleWaits(call)
      PROVE  Calm'
  <2>1. batchNet' = <<call>> /\ UNCHANGED <<batchView, batchRow>>
    BY <1>1, <1>6 DEF Confirm
  <2>2. call \in {batchNet'[i] : i \in DOMAIN batchNet'}
    BY <2>1
  <2>3. ToggleWaits(call)'
    BY <1>6, <2>1 DEF ToggleWaits, StatusTrue, CountTrue, CodesTrue
  <2>4. Toggling'
    BY <1>6, <2>1, <2>2, <2>3 DEF Toggling
  <2>. QED BY <1>0, <2>1, <2>4 DEF Calm
<1>7. CASE handleToggleBatch
  <2> DEFINE call == BatchCall("toggleBatch", 0, Flip(batchView.status), batchView.state, batchView.at)
  <2>1. /\ IsBatchCall(call) /\ call.op = "toggleBatch" /\ ~call.done /\ call.says = Flip(batchView.status)
        /\ call.state = batchView.state /\ call.at = batchView.at
    BY SentCall DEF ToggleOps
  <2> HIDE DEF call
  <2>2. Confirm(call)
    BY <1>7 DEF handleToggleBatch, call
  <2>3. ToggleWaits(call)
    BY <1>3, <2>1, <2>2 DEF Confirm, ToggleWaits, StatusTrue
  <2>. QED BY <1>6, <2>1, <2>2, <2>3 DEF ToggleOps
<1>8. ASSUME NEW c, handleToggleCode(c) PROVE Calm'
  <2>0. PICK id, says : id = c.id /\ says = Flip(c.status)
    OBVIOUS
  <2> DEFINE call == BatchCall("toggleCode", id, says, batchView.state, batchView.at)
  <2>1. /\ IsBatchCall(call) /\ call.op = "toggleCode" /\ ~call.done /\ call.says = Flip(c.status)
        /\ call.code = c.id /\ call.state = batchView.state /\ call.at = batchView.at
    BY <2>0, SentCall DEF ToggleOps
  <2> HIDE DEF call
  <2>2. Confirm(call) /\ batchView.page = "detail" /\ c \in Range(batchView.codes)
    BY <1>8, <2>0 DEF handleToggleCode, DetailShown, call
  <2>3. StatusTrue /\ CountTrue /\ CodesTrue
    BY <1>3, <2>2 DEF Confirm
  <2>4. c.status = IF c.id \in batchRow.disabled THEN "disabled" ELSE "active"
    BY <2>2, <2>3, CodeStatus DEF CodesTrue
  <2>5. ToggleWaits(call)
    BY <2>1, <2>3, <2>4 DEF ToggleWaits, Flip
  <2>. QED BY <1>6, <2>1, <2>2, <2>5 DEF ToggleOps
\* The server executes a call.
<1>9. ASSUME NEW i \in DOMAIN batchNet, ServeBatchCall(i) PROVE Calm'
  <2>a. PICK call : call = [batchNet[i] EXCEPT !.done = TRUE, !.row = batchRow']
    OBVIOUS
  <2>0. ~batchNet[i].done /\ batchRow' = Toggled(batchRow, batchNet[i]) /\ UNCHANGED batchView
    BY <1>9 DEF ServeBatchCall
  <2>1. CASE Loading
    <3>1. /\ IsBatchCall(batchNet[i]) /\ batchNet[i].op \in LoadOps
          /\ batchNet \in Seq({batchNet[k] : k \in DOMAIN batchNet})
      BY <2>1 DEF Loading
    <3>2. batchRow' = batchRow
      BY <2>0, <3>1 DEF Toggled, LoadOps
    <3>3. /\ IsBatchCall(call) /\ call.op = batchNet[i].op /\ call.done /\ call.row = batchRow'
          /\ call.state = batchNet[i].state /\ call.at = batchNet[i].at
      BY <2>a, <3>1 DEF IsBatchCall
    <3>4. batchNet' = [batchNet EXCEPT ![i] = call]
      BY <1>9, <2>a, <3>1, SeqFacts DEF ServeBatchCall
    <3> DEFINE S == {batchNet[k] : k \in DOMAIN batchNet} \cup {call}
    <3>5. batchNet \in Seq(S) /\ call \in S
      BY <3>1, SeqMonotonic
    <3> HIDE DEF S
    <3>6. /\ batchNet' \in Seq(S) /\ DOMAIN batchNet' = DOMAIN batchNet
          /\ batchNet'[i] = call /\ \A k \in DOMAIN batchNet \ {i} : batchNet'[k] = batchNet[k]
      BY <3>4, <3>5, ExceptFacts
    <3>7. batchNet' \in Seq({batchNet'[k] : k \in DOMAIN batchNet'})
      BY <3>6, OwnElements
    <3>8. \A k \in DOMAIN batchNet' :
            /\ IsBatchCall(batchNet'[k]) /\ batchNet'[k].op \in LoadOps
            /\ batchNet'[k].op = batchNet[k].op
            /\ batchNet'[k].done => batchNet'[k].row = batchRow'
            /\ batchNet'[k].op = "codes" =>
                 batchNet'[k].state = batchView'.state /\ batchNet'[k].at = batchView'.at
      <4>1. ASSUME NEW k \in DOMAIN batchNet
            PROVE  /\ IsBatchCall(batchNet[k]) /\ batchNet[k].op \in LoadOps
                   /\ batchNet[k].done => batchNet[k].row = batchRow
                   /\ batchNet[k].op = "codes" =>
                        batchNet[k].state = batchView.state /\ batchNet[k].at = batchView.at
        BY <2>1 DEF Loading
      <4> SUFFICES ASSUME NEW k \in DOMAIN batchNet
                   PROVE  /\ IsBatchCall(batchNet'[k]) /\ batchNet'[k].op \in LoadOps
                          /\ batchNet'[k].op = batchNet[k].op
                          /\ batchNet'[k].done => batchNet'[k].row = batchRow'
                          /\ batchNet'[k].op = "codes" =>
                               batchNet'[k].state = batchView'.state /\ batchNet'[k].at = batchView'.at
        BY <3>6
      <4>2. CASE k = i
        BY <2>0, <3>3, <3>6, <4>1, <4>2
      <4>3. CASE k # i
        BY <2>0, <3>2, <3>6, <4>1, <4>3
      <4>. QED BY <4>2, <4>3
    <3>9. /\ StatusTrue' = StatusTrue /\ CountTrue' = CountTrue /\ CodesTrue' = CodesTrue
          /\ \A ops : OnItsWay(ops) => OnItsWay(ops)'
      BY <2>0, <3>2, <3>6, <3>8 DEF StatusTrue, CountTrue, CodesTrue, OnItsWay
    <3>10. Loading'
      BY <2>1, <3>7, <3>8, <3>9 DEF Loading
    <3>. QED BY <1>0, <2>0, <3>2, <3>10 DEF Calm
  <2>2. CASE Toggling
    <3>1. PICK old : /\ batchNet = <<old>> /\ IsBatchCall(old) /\ old.op \in ToggleOps
                     /\ old.state = batchView.state /\ old.at = batchView.at
                     /\ old.op = "toggleCode" => batchView.page = "detail"
                     /\ ~old.done => ToggleWaits(old)
      BY <2>2 DEF Toggling
    <3>2. i = 1 /\ batchNet[i] = old /\ ToggleWaits(old)
      BY <2>0, <3>1
    <3>3. /\ IsBatchCall(call) /\ call.op = old.op /\ call.done /\ call.row = batchRow'
          /\ call.state = old.state /\ call.at = old.at /\ call.says = old.says /\ call.code = old.code
      BY <2>a, <3>1, <3>2 DEF IsBatchCall
    <3>4. batchNet' = [batchNet EXCEPT ![i] = call]
      BY <1>9, <2>a, <3>1, <3>2 DEF ServeBatchCall
    <3>5. batchNet' = <<call>> /\ call \in {batchNet'[k] : k \in DOMAIN batchNet'}
      BY <3>1, <3>2, <3>4
    <3>6. CASE old.op = "toggleBatch"
      <4>1. batchRow' = [batchRow EXCEPT !.status = Flip(batchRow.status)]
        BY <2>0, <3>2, <3>6 DEF Toggled
      <4>2. /\ batchRow' \in [status: {"active", "disabled"}, disabled: {batchRow'.disabled}]
            /\ batchRow'.disabled = batchRow.disabled /\ batchRow'.status = Flip(batchRow.status)
        BY <1>0, <4>1 DEF Flip
      <4>3. ToggleIsDone(call)'
        BY <2>0, <3>2, <3>3, <3>6, <4>2 DEF ToggleIsDone, ToggleWaits, CountTrue, CodesTrue
      <4>4. Toggling'
        BY <2>0, <3>1, <3>3, <3>5, <4>3 DEF Toggling
      <4>. QED BY <1>0, <2>0, <4>2, <4>4 DEF Calm
    <3>7. CASE old.op = "toggleCode"
      <4>1. batchRow' = [batchRow EXCEPT !.disabled = SymDiff(batchRow.disabled, {old.code})]
        BY <2>0, <3>2, <3>7 DEF Toggled
      <4>2. /\ batchRow' \in [status: {"active", "disabled"}, disabled: {batchRow'.disabled}]
            /\ batchRow'.disabled = SymDiff(batchRow.disabled, {old.code})
        BY <1>0, <4>1
      <4>3. old.code \in batchRow'.disabled <=> old.code \notin batchRow.disabled
        BY <4>2 DEF SymDiff
      <4>4. ToggleIsDone(call)'
        BY <3>2, <3>3, <3>7, <4>3 DEF ToggleIsDone, ToggleWaits
      <4>5. Toggling'
        BY <2>0, <3>1, <3>3, <3>5, <4>4 DEF Toggling
      <4>. QED BY <1>0, <2>0, <4>2, <4>5 DEF Calm
    <3>. QED BY <3>1, <3>6, <3>7 DEF ToggleOps
  <2>. QED BY <2>1, <2>2 DEF Calm
\* Answers.
<1>10. ASSUME NEW i \in DOMAIN batchNet, BatchAnswered(i), Loading PROVE Calm'
  <2> DEFINE call == batchNet[i]
             r == RemoveAt(batchNet, i)
             S == {batchNet[k] : k \in DOMAIN batchNet}
  <2>1. /\ batchNet \in Seq(S) /\ IsBatchCall(call) /\ call.op \in LoadOps /\ call.done /\ call.mine
        /\ call.row = batchRow
        /\ call.op = "codes" => call.state = batchView.state /\ call.at = batchView.at
    BY <1>10 DEF Loading, BatchAnswered, IsBatchCall
  <2>2. Reloads(call) = <<>>
    BY <2>1 DEF Reloads, LoadOps
  <2>3. /\ r \in Seq(S)
        /\ \A k \in DOMAIN r : Before(i, k) \in DOMAIN batchNet \ {i} /\ r[k] = batchNet[Before(i, k)]
        /\ \A j \in DOMAIN batchNet \ {i} : \E k \in DOMAIN r : Before(i, k) = j
    BY <2>1, OthersStay
  <2> HIDE DEF r, S
  <2>4. batchNet' = r \o <<>> /\ UNCHANGED batchRow
        /\ batchView' = AfterReload(BatchLoaded(batchView, call), <<>>)
    BY <1>10, <2>1, <2>2 DEF BatchAnswered, r
  <2>5. batchNet' = r
    BY <2>3, <2>4
  <2>6. batchView' = BatchLoaded(batchView, call)
    BY <2>4 DEF AfterReload
  <2>7. /\ batchNet' \in Seq({batchNet'[k] : k \in DOMAIN batchNet'})
        /\ \A k \in DOMAIN batchNet' :
             /\ IsBatchCall(batchNet'[k]) /\ batchNet'[k].op \in LoadOps
             /\ batchNet'[k].done => batchNet'[k].row = batchRow'
             /\ batchNet'[k].op = "codes" =>
                  batchNet'[k].state = batchView.state /\ batchNet'[k].at = batchView.at
    <3>1. batchNet' \in Seq({batchNet'[k] : k \in DOMAIN batchNet'})
      BY <2>3, <2>5, OwnElements
    <3>2. ASSUME NEW k \in DOMAIN batchNet'
          PROVE  /\ IsBatchCall(batchNet'[k]) /\ batchNet'[k].op \in LoadOps
                 /\ batchNet'[k].done => batchNet'[k].row = batchRow'
                 /\ batchNet'[k].op = "codes" =>
                      batchNet'[k].state = batchView.state /\ batchNet'[k].at = batchView.at
      <4>1. PICK j \in DOMAIN batchNet : batchNet'[k] = batchNet[j]
        BY <2>3, <2>5
      <4>2. /\ IsBatchCall(batchNet[j]) /\ batchNet[j].op \in LoadOps
            /\ batchNet[j].done => batchNet[j].row = batchRow
            /\ batchNet[j].op = "codes" =>
                 batchNet[j].state = batchView.state /\ batchNet[j].at = batchView.at
        BY <1>10 DEF Loading
      <4>. QED BY <2>4, <4>1, <4>2
    <3>. QED BY <3>1, <3>2
  <2>8. \A ops : OnItsWay(ops) /\ call.op \notin ops => OnItsWay(ops)'
    BY <2>3, <2>5 DEF OnItsWay
  <2> DEFINE Same == /\ IsBatchView(batchView') /\ batchView'.page = batchView.page
                     /\ batchView'.state = batchView.state /\ batchView'.at = batchView.at
  <2>9. ASSUME Same, StatusTrue' \/ OnItsWay({"batches", "batch"})',
               CountTrue' \/ OnItsWay({"batch"})', CodesTrue' \/ OnItsWay({"codes"})'
        PROVE  Calm'
    <3>1. Loading'
      BY <2>7, <2>9 DEF Loading
    <3>. QED BY <1>0, <2>4, <2>9, <3>1 DEF Calm
  <2>10. CASE call.op = "batches"
    <3>1. batchView' = [batchView EXCEPT !.status = batchRow.status]
      BY <2>1, <2>6, <2>10 DEF BatchLoaded
    <3>2. Same /\ batchView'.status = batchRow.status /\ batchView'.disabled = batchView.disabled
          /\ batchView'.codes = batchView.codes
      BY <1>0, <3>1 DEF IsBatchView
    <3>3. StatusTrue' /\ CountTrue' = CountTrue /\ CodesTrue' = CodesTrue
      BY <2>4, <3>2 DEF StatusTrue, CountTrue, CodesTrue
    <3>. QED BY <1>10, <2>8, <2>9, <2>10, <3>2, <3>3 DEF Loading
  <2>11. CASE call.op = "batch"
    <3>1. batchView' = [batchView EXCEPT !.status = batchRow.status,
                                         !.disabled = Cardinality(batchRow.disabled)]
      BY <2>1, <2>6, <2>11 DEF BatchLoaded
    <3>2. Same /\ batchView'.status = batchRow.status
          /\ batchView'.disabled = Cardinality(batchRow.disabled) /\ batchView'.codes = batchView.codes
      BY <1>0, <3>1 DEF IsBatchView
    <3>3. StatusTrue' /\ CountTrue' /\ CodesTrue' = CodesTrue
      BY <2>4, <3>2 DEF StatusTrue, CountTrue, CodesTrue
    <3>. QED BY <1>10, <2>8, <2>9, <2>11, <3>2, <3>3 DEF Loading
  <2>12. CASE call.op = "codes"
    <3>1. PICK paged :
            batchView' = [batchView EXCEPT
                            !.codes = PageOfCodes(batchRow.disabled, batchView.state, batchView.at),
                            !.paged = paged]
      BY <2>1, <2>6, <2>12 DEF BatchLoaded
    <3>2. Same /\ batchView'.status = batchView.status /\ batchView'.disabled = batchView.disabled
          /\ batchView'.codes = PageOfCodes(batchRow.disabled, batchView.state, batchView.at)
      BY <1>0, <3>1 DEF IsBatchView
    <3>3. StatusTrue' = StatusTrue /\ CountTrue' = CountTrue /\ CodesTrue'
      BY <2>4, <3>2 DEF StatusTrue, CountTrue, CodesTrue
    <3>. QED BY <1>10, <2>8, <2>9, <2>12, <3>2, <3>3 DEF Loading
  <2>. QED BY <2>1, <2>10, <2>11, <2>12 DEF LoadOps
<1>11. ASSUME NEW i \in DOMAIN batchNet, BatchAnswered(i), Toggling PROVE Calm'
  <2>1. PICK call : /\ batchNet = <<call>> /\ IsBatchCall(call) /\ call.op \in ToggleOps
                    /\ call.state = batchView.state /\ call.at = batchView.at
                    /\ call.op = "toggleCode" => batchView.page = "detail"
                    /\ call.done => ToggleIsDone(call)
    BY <1>11 DEF Toggling
  <2>2. i = 1 /\ batchNet[i] = call
    BY <2>1
  <2>3. call.done /\ call.mine /\ ToggleIsDone(call)
    BY <1>11, <2>1, <2>2 DEF BatchAnswered, IsBatchCall
  <2>4. RemoveAt(batchNet, i) = <<>>
    BY <2>1, <2>2 DEF RemoveAt
  <2>5. BatchLoaded(batchView, call) = batchView
    BY <2>1 DEF BatchLoaded, ToggleOps
  <2>6. /\ batchNet' = <<>> \o Reloads(call) /\ UNCHANGED batchRow
        /\ batchView' = AfterReload(batchView, Reloads(call))
    BY <1>11, <2>2, <2>3, <2>4, <2>5 DEF BatchAnswered
  <2>7. CASE call.op = "toggleBatch"
    <3>1. PICK again : /\ Reloads(call) = <<again>> /\ IsBatchCall(again) /\ ~again.done
                       /\ again.op \in {"batches", "batch"}
      <4>1. /\ IsBatchCall(load_batches(call)) /\ load_batches(call).op = "batches" /\ ~load_batches(call).done
            /\ IsBatchCall(loadBatch(call)) /\ loadBatch(call).op = "batch" /\ ~loadBatch(call).done
        BY SentCall DEF load_batches, loadBatch, LoadOps
      <4>. QED BY <1>0, <2>7, <4>1 DEF Reloads
    <3>2. batchNet' = <<again>> /\ DOMAIN batchNet' = {1} /\ batchNet'[1] = again
          /\ batchNet' \in Seq({again})
      BY <2>6, <3>1
    <3>3. batchView' = batchView
      BY <2>6, <3>1 DEF AfterReload
    <3>4. CountTrue' /\ CodesTrue'
      BY <2>3, <2>6, <2>7, <3>3 DEF ToggleIsDone, CountTrue, CodesTrue
    <3>5. Loading'
      BY <3>1, <3>2, <3>4, OwnElements DEF Loading, OnItsWay, LoadOps
    <3>. QED BY <1>0, <2>6, <3>3, <3>5 DEF Calm
  <2>8. CASE call.op = "toggleCode"
    <3> DEFINE codes == loadCodes(call)
               again == loadBatch(call)
    <3>1. /\ IsBatchCall(codes) /\ codes.op = "codes" /\ ~codes.done
          /\ codes.state = call.state /\ codes.at = call.at
          /\ IsBatchCall(again) /\ again.op = "batch" /\ ~again.done
      BY SentCall DEF loadCodes, loadBatch, LoadOps
    <3>2. Reloads(call) = <<codes, again>>
      BY <2>8 DEF Reloads
    <3> HIDE DEF codes, again
    <3>3. /\ DOMAIN batchNet' = {1, 2} /\ batchNet'[1] = codes /\ batchNet'[2] = again
          /\ batchNet' \in Seq({codes, again})
      BY <2>6, <3>2
    <3>4. batchView' = [batchView EXCEPT !.codes = NoCodes]
      <4>1. 1 \in DOMAIN <<codes, again>> /\ <<codes, again>>[1].op = "codes"
        BY <3>1
      <4>. QED BY <2>6, <3>2, <4>1 DEF AfterReload
    <3>5. IsBatchView(batchView') /\ batchView'.state = batchView.state /\ batchView'.at = batchView.at
      BY <1>0, <3>4 DEF IsBatchView
    <3>6. Loading'
      BY <2>1, <3>1, <3>3, <3>5, OwnElements DEF Loading, OnItsWay, LoadOps
    <3>. QED BY <1>0, <2>6, <3>5, <3>6 DEF Calm
  <2>. QED BY <2>1, <2>7, <2>8 DEF ToggleOps
<1>12. ASSUME NEW i \in DOMAIN batchNet, BatchCallFails(i) PROVE FALSE
  BY <1>2, <1>12 DEF BatchCallFails
<1>. QED
  BY <1>4, <1>5, <1>7, <1>8, <1>9, <1>10, <1>11, <1>12
     DEF BatchPagesNext, SelectTab, TurnCodePage, Calm

\* The administrator who hurries is not promised anything any more.
LEMMA WaitStep == WaitInv /\ [BatchPagesNext]_batchVars => WaitInv'
<1> SUFFICES ASSUME WaitInv, [BatchPagesNext]_batchVars PROVE WaitInv'
  OBVIOUS
<1>1. CASE UNCHANGED batchVars
  BY <1>1 DEF batchVars, WaitInv, Calm, Loading, Toggling, ToggleWaits, ToggleIsDone, OnItsWay,
     StatusTrue, CountTrue, CodesTrue
<1>2. CASE BatchPagesNext
  <2>1. batchHaste' = batchHaste \/ batchHaste' = batchHaste + 1
    BY <1>2 DEF BatchPagesNext, OpenPage, SelectTab, TurnCodePage, ShowCodes, handleToggleBatch,
       handleToggleCode, Confirm, ServeBatchCall, BatchAnswered, BatchCallFails, Wait, Disturb
  <2>2. batchHaste' \in Nat /\ (batchHaste' = 0 => batchHaste = 0)
    BY <2>1 DEF WaitInv
  <2>. QED BY <1>2, <2>2, CalmStep DEF WaitInv
<1>. QED BY <1>1, <1>2

\* An administrator who waits for every answer, none of which fails, sees what is so
\* on the server, and every confirmed toggle does what its dialog said: for any
\* number of codes, any size of a page, any tabs and any sequence of pages.
THEOREM WaitingAlwaysSeesTruth == ClientSpec => []WaitingSeesTruth
<1>1. ClientInit => WaitInv
  BY WaitBegins DEF ClientInit
<1>2. [ClientNext]_clientVars => [BatchPagesNext]_batchVars
  BY DEF ClientNext, clientVars, batchVars, But
<1>3. WaitInv => WaitingSeesTruth
  <2> SUFFICES ASSUME Calm PROVE WaitingSeesTruth
    BY DEF WaitInv, WaitingSeesTruth
  <2>1. CASE Loading
    <3>1. \A i \in DOMAIN batchNet : batchNet[i].op \notin {"toggleBatch", "toggleCode"}
      BY <2>1 DEF Loading, LoadOps
    <3>2. batchNet = <<>> => StatusTrue /\ CountTrue /\ CodesTrue
      BY CalmAndIdle
    <3>. QED BY <3>1, <3>2 DEF WaitingSeesTruth, StatusTrue, CountTrue, CodesTrue
  <2>2. CASE Toggling
    <3>1. PICK call : batchNet = <<call>> /\ call.op \in ToggleOps /\ (call.done => ToggleIsDone(call))
      BY <2>2 DEF Toggling
    <3>2. batchNet # <<>> /\ \A i \in DOMAIN batchNet : batchNet[i] = call
      BY <3>1
    <3>3. call.done => /\ call.op = "toggleBatch" => call.row.status = call.says
                       /\ call.op = "toggleCode" =>
                            (call.code \in call.row.disabled <=> call.says = "disabled")
      BY <3>1 DEF ToggleIsDone
    <3>. QED BY <3>1, <3>2, <3>3 DEF WaitingSeesTruth, ToggleOps
  <2>. QED BY <2>1, <2>2 DEF Calm
<1>. QED
  BY <1>1, <1>2, <1>3, WaitStep, PTL DEF ClientSpec

-----------------------------------------------------------------------------
(* The state of every page keeps its shape.                                *)

\* Lists with the same places are of the same length.
LEMMA SameLength ==
  ASSUME NEW S, NEW s \in Seq(S), NEW T, NEW t \in Seq(T), DOMAIN t = DOMAIN s
  PROVE  Len(t) = Len(s)
<1>1. /\ Len(s) \in Nat /\ DOMAIN s = 1 .. Len(s)
      /\ Len(t) \in Nat /\ DOMAIN t = 1 .. Len(t)
  BY SeqFacts
<1>2. 1 .. Len(t) = 1 .. Len(s)
  BY <1>1
<1>3. CASE Len(t) = 0
  <2>1. 1 \notin 1 .. Len(t)
    BY <1>3
  <2>2. Len(s) > 0 => 1 \in 1 .. Len(s)
    BY <1>1
  <2>3. ~(Len(s) > 0)
    BY <1>2, <2>1, <2>2, Zenon
  <2>. QED BY <1>1, <1>3, <2>3
<1>4. CASE Len(t) > 0
  <2>1. Len(t) \in 1 .. Len(s)
    BY <1>1, <1>2, <1>4
  <2>2. Len(s) \in 1 .. Len(t)
    BY <1>1, <1>2, <2>1
  <2>. QED BY <1>1, <2>1, <2>2
<1>. QED BY <1>1, <1>3, <1>4

\* The redeem page has no more calls on their way than the bound allows.
RedeemBound == Len(redeemNet) <= MaxRedeemCalls

\* Only a submission adds a call, and there must be room for it.
LEMMA RedeemBoundStep ==
  ASSUME RedeemInv, RedeemInv', RedeemBound, [RedeemNext]_redeemVars PROVE RedeemBound'
<1>0. redeemNet \in Seq(RedeemCalls) /\ redeemNet' \in Seq(RedeemCalls)
  BY DEF RedeemInv, RedeemTypes
<1>1. Len(redeemNet) \in Nat /\ MaxRedeemCalls \in Nat
  BY <1>0, SeqFacts, RedeemPageAssumption
<1>2. ASSUME DOMAIN redeemNet' = DOMAIN redeemNet PROVE RedeemBound'
  BY <1>0, <1>2, SameLength DEF RedeemBound
<1>3. ASSUME NEW i \in DOMAIN redeemNet, redeemNet' = RemoveAt(redeemNet, i) PROVE RedeemBound'
  <2>1. Len(redeemNet') = Len(redeemNet) - 1
    BY <1>0, <1>3, RemoveAtFacts
  <2>. QED BY <1>1, <2>1 DEF RedeemBound
<1>4. CASE SendForm
  <2>1. PICK call : redeemNet' = Append(redeemNet, call) /\ Len(redeemNet) < MaxRedeemCalls
    BY <1>4 DEF SendForm
  <2>2. Len(redeemNet') = Len(redeemNet) + 1
    BY <1>0, <2>1
  <2>. QED BY <1>1, <2>1, <2>2 DEF RedeemBound
<1>5. ASSUME NEW i \in DOMAIN redeemNet, NetworkFails(i) \/ ServeCall(i) \/ AnswerCall(i) PROVE RedeemBound'
  <2>1. CASE NetworkFails(i) \/ ServeItem(i)
    <3>1. PICK x : redeemNet' = [redeemNet EXCEPT ![i] = x]
      BY <2>1 DEF NetworkFails, ServeItem
    <3>2. DOMAIN redeemNet' = DOMAIN redeemNet
      BY <1>0, <3>1
    <3>. QED BY <1>2, <3>2
  <2>2. CASE ServerRefuses(i) \/ AnswerIsLost(i) \/ AnswerCall(i)
    <3>1. redeemNet' = RemoveAt(redeemNet, i)
      BY <2>2 DEF ServerRefuses, AnswerIsLost, AnswerCall, SingleAnswer, BatchAnswer
    <3>. QED BY <1>3, <3>1
  <2>. QED BY <1>5, <2>1, <2>2 DEF ServeCall
<1>6. CASE SwitchTab \/ ReloadPage
  <2>1. DOMAIN redeemNet' = DOMAIN redeemNet
    BY <1>6 DEF SwitchTab, ReloadPage
  <2>. QED BY <1>2, <2>1
<1>7. CASE UNCHANGED redeemNet
  BY <1>2, <1>7
<1>8. \/ UNCHANGED redeemNet \/ SendForm \/ SwitchTab \/ ReloadPage
      \/ \E i \in DOMAIN redeemNet : NetworkFails(i) \/ ServeCall(i) \/ AnswerCall(i)
  BY DEF RedeemNext, redeemVars, EditEmail, EditCodes, handlePaste, RejectForm, downloadArchive,
         ArchiveEnds, ViewBatchItem, CloseResult, ToggleHistory, handleClearHistory, SelectHistory,
         handleDeleteHistory
<1>. QED BY <1>4, <1>5, <1>6, <1>7, <1>8

\* Sessions have the numbers given out so far, and a tab shows one of four things.
TabViews == {"closed", "gate", "login", "admin"}
SessionShape ==
  /\ lastSession \in Nat /\ sessions \subseteq 1 .. lastSession
  /\ DOMAIN adminTab = Tabs
  /\ \A t \in Tabs : adminTab[t] \in [view: TabViews, token: {adminTab[t].token}]

\* Every step of the tabs and of the server keeps that shape.
LEMMA SessionShapeStep == SessionShape /\ [AdminSessionNext]_sessionVars => SessionShape'
<1> SUFFICES ASSUME SessionShape, [AdminSessionNext]_sessionVars PROVE SessionShape'
  OBVIOUS
<1> DEFINE Views(f) == /\ DOMAIN f = Tabs
                       /\ \A t \in Tabs : f[t] \in [view: TabViews, token: {f[t].token}]
           Numbers(n, S) == n \in Nat /\ S \subseteq 1 .. n
<1>0. Views(adminTab) /\ Numbers(lastSession, sessions)
  BY DEF SessionShape
<1>1. ASSUME NEW t \in Tabs, NEW view \in TabViews, Show(t, view) PROVE Views(adminTab')
  <2> DEFINE x == [adminTab[t] EXCEPT !.view = view]
  <2>1. x \in [view: TabViews, token: {x.token}]
    BY <1>0
  <2>2. adminTab' = [adminTab EXCEPT ![t] = x]
    BY <1>1 DEF Show
  <2> HIDE DEF x
  <2>. QED BY <1>0, <2>1, <2>2
<1>2. ASSUME NEW t \in Tabs, OpenAdmin(t) PROVE Views(adminTab')
  <2> DEFINE x == [view |-> "gate", token |-> cookies.csrf_token]
  <2>1. x \in [view: TabViews, token: {x.token}]
    BY DEF TabViews
  <2>2. adminTab' = [adminTab EXCEPT ![t] = x]
    BY <1>2 DEF OpenAdmin
  <2> HIDE DEF x
  <2>. QED BY <1>0, <2>1, <2>2
<1>3. ASSUME NEW t \in Tabs, SessionAnswer(t) PROVE Views(adminTab')
  <2>1. PICK state : Ended(t, state)
    BY <1>3 DEF SessionAnswer
  <2>2. Gate(state) \in TabViews /\ "login" \in TabViews /\ "gate" \in TabViews
    BY DEF Gate, TabViews
  <2>. QED BY <1>0, <1>1, <2>1, <2>2 DEF Ended
<1>4. Views(adminTab')
  <2>1. "closed" \in TabViews
    BY DEF TabViews
  <2>. QED BY <1>0, <1>1, <1>2, <1>3, <2>1
           DEF AdminSessionNext, sessionVars, SessionExpires, CookiesExpire, SubmitLogin, handleLogout,
               Change, Click, AttachCookies, CloseTab, ServeAuthed, Login, Logout, Respond
<1>5. \/ sessions' \subseteq sessions /\ UNCHANGED lastSession
      \/ lastSession' = lastSession + 1 /\ sessions' = sessions \cup {lastSession'}
  BY DEF AdminSessionNext, sessionVars, SessionExpires, CookiesExpire, OpenAdmin, SubmitLogin, handleLogout,
         Change, Click, AttachCookies, CloseTab, ServeAuthed, Login, Logout, SessionAnswer
<1>6. Numbers(lastSession', sessions')
  <2>1. CASE sessions' \subseteq sessions /\ UNCHANGED lastSession
    BY <1>0, <2>1
  <2>2. CASE lastSession' = lastSession + 1 /\ sessions' = sessions \cup {lastSession'}
    <3>1. 1 .. lastSession \subseteq 1 .. lastSession' /\ lastSession' \in 1 .. lastSession'
      BY <1>0, <2>2
    <3>2. sessions' \subseteq 1 .. lastSession'
      BY <1>0, <2>2, <3>1, Zenon
    <3>. QED BY <1>0, <2>2, <3>2
  <2>. QED BY <1>5, <2>1, <2>2
<1>. QED BY <1>4, <1>6 DEF SessionShape

\* The stock stays within its bound.
LEMMA StockShapeStep ==
  newStock.level \in 0 .. MaxStock /\ [BatchNewNext]_newVars => newStock'.level \in 0 .. MaxStock
<1> SUFFICES ASSUME newStock.level \in 0 .. MaxStock, [BatchNewNext]_newVars
             PROVE  newStock'.level \in 0 .. MaxStock
  OBVIOUS
<1>1. CASE StockMoves
  BY <1>1 DEF StockMoves
<1>2. CASE UNCHANGED newStock
  BY <1>2
<1>3. StockMoves \/ UNCHANGED newStock
  BY DEF BatchNewNext, newVars, EditField, SetExpiry, AssignCredential, SelectPlan, SetField, loadNewPlans,
         SubmitBatch, CheckBatch, CreateBatch, ListPlans, NewAnswer, LeaveNewBatch
<1>. QED BY <1>1, <1>2, <1>3

\* Saves that the server has not executed.
Unserved(net) == {i \in DOMAIN net : net[i].op = "save" /\ ~net[i].done}

\* Every such save may still make a version, and there are versions left for all.
SiteShape == siteRow.version + Cardinality(Unserved(siteNet)) <= MaxVersion

\* There are no more of them than calls on their way, and no more after an answer.
LEMMA UnservedFacts ==
  ASSUME NEW net \in Seq(SiteCalls)
  PROVE  /\ IsFiniteSet(Unserved(net)) /\ Cardinality(Unserved(net)) \in Nat
         /\ Cardinality(Unserved(net)) <= Len(net)
         /\ Unserved(Orphaned(net)) = Unserved(net)
         /\ \A i \in DOMAIN net :
              Cardinality(Unserved(RemoveAt(net, i))) <= Cardinality(Unserved(net))
<1> DEFINE U == Unserved(net)
<1>1. U \in SUBSET (1 .. Len(net)) /\ Len(net) \in Nat
  BY SeqFacts DEF Unserved
<1>2. IsFiniteSet(1 .. Len(net)) /\ Cardinality(1 .. Len(net)) = Len(net)
  <2>1. 1 \in Int /\ Len(net) \in Int
    BY <1>1
  <2>2. /\ IsFiniteSet(1 .. Len(net))
        /\ Cardinality(1 .. Len(net)) = IF 1 > Len(net) THEN 0 ELSE Len(net) - 1 + 1
    BY <2>1, FS_Interval
  <2>. QED BY <1>1, <2>2
<1>3. IsFiniteSet(U) /\ Cardinality(U) <= Len(net)
  <2> HIDE DEF U
  <2>. QED BY <1>1, <1>2, FS_Subset
<1>4. Cardinality(U) \in Nat
  BY <1>3, FS_CardinalityType
<1>5. Unserved(Orphaned(net)) = U
  <2>1. \A i \in DOMAIN net : Orphaned(net)[i].op = net[i].op /\ Orphaned(net)[i].done = net[i].done
    <3>1. \A call \in SiteCalls : /\ [call EXCEPT !.mine = FALSE].op = call.op
                                  /\ [call EXCEPT !.mine = FALSE].done = call.done
      BY DEF SiteCalls
    <3>. QED BY <3>1, SeqFacts DEF Orphaned
  <2>. QED BY <2>1 DEF Unserved, Orphaned
<1>6. ASSUME NEW i \in DOMAIN net PROVE Cardinality(Unserved(RemoveAt(net, i))) <= Cardinality(U)
  <2> DEFINE rest == RemoveAt(net, i)
             left == Unserved(rest)
             back == [k \in left |-> Before(i, k)]
  <2>1. /\ \A k \in DOMAIN rest : Before(i, k) \in DOMAIN net \ {i} /\ rest[k] = net[Before(i, k)]
        /\ \A k, m \in DOMAIN rest : Before(i, k) = Before(i, m) => k = m
    BY OthersStay
  <2> HIDE DEF rest
  <2>2. back \in Injection(left, U)
    BY <2>1 DEF Injection, IsInjective, Unserved
  <2>3. Cardinality(left) <= Cardinality(U)
    <3> HIDE DEF back, left, U
    <3>. QED BY <1>3, <2>2, FS_Injection
  <2>. QED BY <2>3 DEF rest
<1>. QED BY <1>3, <1>4, <1>5, <1>6

\* A save is only sent when there is a version for it, and uses it up when it is executed.
LEMMA SiteShapeStep ==
  ASSUME SiteInv, SiteInv', SiteShape, [SiteNext]_siteVars PROVE SiteShape'
<1> DEFINE n == Cardinality(Unserved(siteNet))
           m == Cardinality(Unserved(siteNet'))
<1>0. /\ siteNet \in Seq(SiteCalls) /\ siteNet' \in Seq(SiteCalls)
      /\ siteRow \in SettingsValues /\ siteRow.version \in Nat /\ MaxVersion \in Nat
      /\ \A i \in DOMAIN siteNet : siteNet[i] \in SiteCalls
  BY SeqFacts, SiteSettingsAssumption DEF SiteInv, SiteTypes, SettingsValues
<1>1. n \in Nat /\ m \in Nat /\ IsFiniteSet(Unserved(siteNet)) /\ m <= Len(siteNet')
  BY <1>0, UnservedFacts
<1>2. siteRow.version + n <= MaxVersion
  BY DEF SiteShape
<1> HIDE DEF n, m
<1>3. ASSUME m <= n, UNCHANGED siteRow PROVE SiteShape'
  <2>1. siteRow.version + m <= MaxVersion
    BY <1>0, <1>1, <1>2, <1>3
  <2>. QED BY <1>3, <2>1 DEF SiteShape, m
<1>4. CASE UNCHANGED <<siteNet, siteRow>>
  BY <1>1, <1>3, <1>4 DEF n, m
<1>5. CASE refresh
  <2> DEFINE call == SiteCall("load", NoLogo, FALSE, FALSE)
  <2>1. siteNet' = Append(siteNet, call) /\ call.op = "load" /\ call \in SiteCalls
    BY <1>5 DEF refresh, SiteCall, SiteCalls, SettingsValues, DefaultSettings, Settings
  <2> HIDE DEF call
  <2>2. Unserved(siteNet') = Unserved(siteNet)
    BY <1>0, <2>1, AppendFacts DEF Unserved
  <2>3. m = n
    BY <2>2 DEF n, m
  <2>4. UNCHANGED siteRow
    BY <1>5 DEF refresh
  <2>. QED BY <1>1, <1>3, <2>3, <2>4
<1>6. CASE LeaveForm
  <2>1. Unserved(siteNet') = Unserved(siteNet)
    BY <1>0, <1>6, UnservedFacts DEF LeaveForm
  <2>. QED BY <1>1, <1>3, <1>6, <2>1 DEF n, m, LeaveForm
<1>7. CASE SaveSettings
  <2>1. PICK call : siteNet' = Append(siteNet, call)
    BY <1>7 DEF SaveSettings
  <2>2. Len(siteNet') = Len(siteNet) + 1 /\ Len(siteNet) \in Nat
    BY <1>0, <2>1
  <2>3. siteRow.version + Len(siteNet) < MaxVersion /\ UNCHANGED siteRow
    BY <1>7 DEF SaveSettings
  <2>4. siteRow.version + m <= MaxVersion
    BY <1>0, <1>1, <2>2, <2>3
  <2>. QED BY <2>3, <2>4 DEF SiteShape, m
<1>8. ASSUME NEW i \in DOMAIN siteNet, ServeSite(i) PROVE SiteShape'
  <2>0. siteNet[i] \in SiteCalls /\ ~siteNet[i].done /\ siteNet[i].op \in {"load", "save"}
    BY <1>0, <1>8 DEF ServeSite, SiteCalls
  <2>1. PICK x \in SettingsValues : siteNet' = [siteNet EXCEPT ![i].done = TRUE, ![i].answer = x]
    <3>1. siteNet' = [siteNet EXCEPT ![i].done = TRUE, ![i].answer = siteRow']
      BY <1>8 DEF ServeSite
    <3>2. siteRow' \in SettingsValues
      BY DEF SiteInv, SiteTypes
    <3>. QED BY <3>1, <3>2
  <2>2. /\ DOMAIN siteNet' = DOMAIN siteNet /\ siteNet'[i].op = siteNet[i].op /\ siteNet'[i].done
        /\ \A k \in DOMAIN siteNet \ {i} : siteNet'[k] = siteNet[k]
    BY <1>0, <2>0, <2>1 DEF SiteCalls
  <2>3. CASE siteNet[i].op = "load"
    <3>1. Unserved(siteNet') = Unserved(siteNet)
      BY <2>2, <2>3 DEF Unserved
    <3>2. UNCHANGED siteRow
      BY <1>8, <2>3 DEF ServeSite
    <3>. QED BY <1>1, <1>3, <3>1, <3>2 DEF n, m
  <2>4. CASE siteNet[i].op = "save"
    <3>1. i \in Unserved(siteNet) /\ Unserved(siteNet') = Unserved(siteNet) \ {i}
      BY <2>0, <2>2, <2>4 DEF Unserved
    <3>2. m = n - 1
      BY <1>1, <3>1, FS_RemoveElement DEF n, m
    <3>3. siteRow'.version = siteRow.version + 1
      BY <1>8, <2>4 DEF ServeSite, Settings
    <3>4. (siteRow.version + 1) + m <= MaxVersion
      BY <1>0, <1>1, <1>2, <3>2
    <3>. QED BY <3>3, <3>4 DEF SiteShape, m
  <2>. QED BY <2>0, <2>3, <2>4
<1>9. ASSUME NEW i \in DOMAIN siteNet, SiteAnswered(i) \/ SiteFails(i) PROVE SiteShape'
  <2> DEFINE rest == RemoveAt(siteNet, i)
  <2>1. rest \in Seq(SiteCalls) /\ Cardinality(Unserved(rest)) <= n
    BY <1>0, RemoveAtFacts, UnservedFacts DEF n
  <2>2. siteNet' \in {rest, Orphaned(rest)} /\ UNCHANGED siteRow
    BY <1>9 DEF SiteAnswered, SiteFails, TakeSettings
  <2>3. Unserved(siteNet') = Unserved(rest)
    <3> HIDE DEF rest
    <3>. QED BY <2>1, <2>2, UnservedFacts
  <2>. QED BY <1>3, <2>1, <2>2, <2>3 DEF m
<1>. QED
  BY <1>4, <1>5, <1>6, <1>7, <1>8, <1>9
     DEF SiteNext, siteVars, OpenForm, EditTitle, ChooseLogo, LogoChecked, handleRemoveLogo, UndoRemoval

\* A call says what it does, and one that toggles a code names it.
CodeCall(call) ==
  /\ {"op", "code", "mine", "done", "row"} \subseteq DOMAIN call
  /\ call.op = "toggleCode" => call.code \in CodeIds
CodeCalls(net) ==
  net \in Seq({net[i] : i \in DOMAIN net}) /\ \A i \in DOMAIN net : CodeCall(net[i])

BatchShape ==
  /\ {"status", "state", "codes"} \subseteq DOMAIN batchView /\ batchView.state \in CodeTabs
  /\ "disabled" \in DOMAIN batchRow /\ batchRow.disabled \subseteq CodeIds
  /\ CodeCalls(batchNet)

\* A list of such calls is one whatever set they are taken from.
LEMMA CodeCallsOf ==
  ASSUME NEW S, NEW net \in Seq(S), \A call \in S : CodeCall(call) PROVE CodeCalls(net)
BY SeqFacts, OwnElements DEF CodeCalls

\* The calls of the pages are such calls.
LEMMA SentCodeCall ==
  ASSUME NEW op, NEW code, op = "toggleCode" => code \in CodeIds, NEW says, NEW state, NEW at
  PROVE  CodeCall(BatchCall(op, code, says, state, at))
BY DEF BatchCall, CodeCall

\* The lists that are sent have at most two elements.
LEMMA ShortLists ==
  ASSUME NEW S, NEW a \in S, NEW b \in S PROVE <<>> \in Seq(S) /\ <<a>> \in Seq(S) /\ <<a, b>> \in Seq(S)
OBVIOUS

\* The tabs of the page are tabs, and only codes of the batch are disabled.
LEMMA BatchShapeStep == BatchShape /\ [BatchPagesNext]_batchVars => BatchShape'
<1> SUFFICES ASSUME BatchShape, [BatchPagesNext]_batchVars PROVE BatchShape'
  OBVIOUS
<1> DEFINE S == {batchNet[i] : i \in DOMAIN batchNet}
           Seen(v) == {"status", "state", "codes"} \subseteq DOMAIN v /\ v.state \in CodeTabs
           Stored(row) == "disabled" \in DOMAIN row /\ row.disabled \subseteq CodeIds
<1>0. /\ Seen(batchView) /\ Stored(batchRow)
      /\ batchNet \in Seq(S) /\ \A call \in S : CodeCall(call)
      /\ \A i \in DOMAIN batchNet : batchNet[i] \in S
  BY DEF BatchShape, CodeCalls
<1>1. ASSUME Seen(batchView'), Stored(batchRow'), CodeCalls(batchNet') PROVE BatchShape'
  BY <1>1 DEF BatchShape
<1>2. \A v : CodeCall(load_batches(v)) /\ CodeCall(loadBatch(v)) /\ CodeCall(loadCodes(v))
  BY SentCodeCall DEF load_batches, loadBatch, loadCodes
<1> HIDE DEF S
<1>3. ASSUME NEW call, CodeCall(call), batchNet' = Append(batchNet, call) PROVE CodeCalls(batchNet')
  <2> DEFINE T == S \cup {call}
  <2>1. batchNet \in Seq(T) /\ call \in T /\ \A c \in T : CodeCall(c)
    BY <1>0, <1>3, SeqMonotonic
  <2> HIDE DEF T
  <2>2. batchNet' \in Seq(T)
    BY <1>3, <2>1
  <2>. QED BY <2>1, <2>2, CodeCallsOf
<1>4. ASSUME NEW T, NEW rest \in Seq(T), NEW L, NEW loads \in Seq(L), batchNet' = rest \o loads,
             \A c \in T \cup L : CodeCall(c)
      PROVE  CodeCalls(batchNet')
  <2>1. rest \in Seq(T \cup L) /\ loads \in Seq(T \cup L)
    BY SeqMonotonic
  <2>2. batchNet' \in Seq(T \cup L)
    BY <1>4, <2>1
  <2>. QED BY <1>4, <2>2, CodeCallsOf
<1>5. ASSUME NEW page \in {"list", "detail"}, OpenPage(page) PROVE BatchShape'
  <2> DEFINE v == FreshView(page)
             L == {load_batches(v), loadBatch(v), loadCodes(v)}
             loads == IF page = "list" THEN <<load_batches(v)>> ELSE <<loadBatch(v), loadCodes(v)>>
             old == [i \in DOMAIN batchNet |-> [batchNet[i] EXCEPT !.mine = FALSE]]
             T == {[call EXCEPT !.mine = FALSE] : call \in S}
  <2>1. batchView' = v /\ batchNet' = old \o loads /\ UNCHANGED batchRow
    BY <1>5 DEF OpenPage
  <2>2. Seen(v)
    BY BatchPagesAssumption DEF FreshView
  <2>3. loads \in Seq(L) /\ \A c \in L : CodeCall(c)
    <3>1. load_batches(v) \in L /\ loadBatch(v) \in L /\ loadCodes(v) \in L
      OBVIOUS
    <3>2. \A c \in L : CodeCall(c)
      BY <1>2
    <3>3. loads \in {<<load_batches(v)>>, <<loadBatch(v), loadCodes(v)>>}
      OBVIOUS
    <3> HIDE DEF v, L, loads
    <3>. QED BY <3>1, <3>2, <3>3, ShortLists
  <2>4. \A c \in T : CodeCall(c)
    BY <1>0 DEF CodeCall
  <2>5. old \in Seq(T)
    <3>1. old \in [1 .. Len(batchNet) -> T] /\ Len(batchNet) \in Nat
      BY <1>0, SeqFacts
    <3>. QED BY <3>1, FunctionIsSeq
  <2> HIDE DEF v, L, loads, old, T
  <2>6. CodeCalls(batchNet')
    BY <1>4, <2>1, <2>3, <2>4, <2>5
  <2>. QED BY <1>0, <1>1, <2>1, <2>2, <2>6
<1>6. ASSUME NEW state \in CodeTabs, NEW at, ShowCodes(state, at) PROVE BatchShape'
  <2> DEFINE v == [batchView EXCEPT !.state = state, !.at = at, !.codes = NoCodes]
  <2>1. batchView' = v /\ batchNet' = Append(batchNet, loadCodes(v)) /\ UNCHANGED batchRow
    BY <1>6 DEF ShowCodes
  <2>2. Seen(v)
    BY <1>0
  <2> HIDE DEF v
  <2>3. CodeCalls(batchNet')
    BY <1>2, <1>3, <2>1
  <2>. QED BY <1>0, <1>1, <2>1, <2>2, <2>3
<1>7. CASE TurnCodePage
  BY <1>0, <1>6, <1>7 DEF TurnCodePage
<1>8. ASSUME NEW call, CodeCall(call), Confirm(call) PROVE BatchShape'
  <2>1. batchNet' = Append(batchNet, call) /\ UNCHANGED <<batchView, batchRow>>
    BY <1>8 DEF Confirm
  <2>. QED BY <1>0, <1>1, <1>3, <1>8, <2>1
<1>9. CASE handleToggleBatch
  BY <1>8, <1>9, SentCodeCall DEF handleToggleBatch
<1>10. ASSUME NEW id \in CodeIds, NEW status, handleToggleCode([id |-> id, status |-> status])
       PROVE  BatchShape'
  BY <1>8, <1>10, SentCodeCall DEF handleToggleCode
<1>11. ASSUME NEW i \in DOMAIN batchNet, ServeBatchCall(i) PROVE BatchShape'
  <2> DEFINE call == [batchNet[i] EXCEPT !.done = TRUE, !.row = batchRow']
             T == S \cup {call}
  <2>0. CodeCall(batchNet[i])
    BY <1>0
  <2>1. /\ batchRow' = Toggled(batchRow, batchNet[i]) /\ UNCHANGED batchView
        /\ batchNet' = [batchNet EXCEPT ![i] = call]
    BY <1>11 DEF ServeBatchCall
  <2>2. Stored(batchRow')
    <3>1. batchNet[i].op = "toggleCode" => SymDiff(batchRow.disabled, {batchNet[i].code}) \subseteq CodeIds
      BY <1>0, <2>0 DEF SymDiff, CodeCall
    <3>. QED BY <1>0, <2>1, <3>1 DEF Toggled
  <2>3. CodeCall(call)
    BY <2>0 DEF CodeCall
  <2>4. batchNet \in Seq(T) /\ call \in T /\ \A c \in T : CodeCall(c)
    BY <1>0, <2>3, SeqMonotonic
  <2> HIDE DEF call, T
  <2>5. batchNet' \in Seq(T)
    BY <2>1, <2>4
  <2>6. CodeCalls(batchNet')
    BY <2>4, <2>5, CodeCallsOf
  <2>. QED BY <1>0, <1>1, <2>1, <2>2, <2>6
<1>12. ASSUME NEW i \in DOMAIN batchNet, BatchAnswered(i) PROVE BatchShape'
  <2> DEFINE call == batchNet[i]
             L == {load_batches(call), loadBatch(call), loadCodes(call)}
             loads == IF call.mine THEN Reloads(call) ELSE <<>>
             rest == RemoveAt(batchNet, i)
  <2>1. /\ batchView' = IF call.mine THEN AfterReload(BatchLoaded(batchView, call), loads) ELSE batchView
        /\ batchNet' = rest \o loads /\ UNCHANGED batchRow
    BY <1>12 DEF BatchAnswered
  <2>2. rest \in Seq(S)
    BY <1>0, RemoveAtFacts
  <2>3. loads \in Seq(L)
    <3>1. load_batches(call) \in L /\ loadBatch(call) \in L /\ loadCodes(call) \in L
      OBVIOUS
    <3>2. loads \in {<<>>, <<load_batches(call)>>, <<loadBatch(call)>>, <<loadCodes(call), loadBatch(call)>>}
      BY DEF Reloads
    <3> HIDE DEF call, L, loads
    <3>. QED BY <3>1, <3>2, ShortLists
  <2>4. \A c \in L : CodeCall(c)
    BY <1>2
  <2> HIDE DEF call, L, loads, rest
  <2>5. CodeCalls(batchNet')
    BY <1>0, <1>4, <2>1, <2>2, <2>3, <2>4
  <2>6. Seen(BatchLoaded(batchView, call))
    BY <1>0 DEF BatchLoaded
  <2>7. Seen(batchView')
    BY <1>0, <2>1, <2>6 DEF AfterReload
  <2>. QED BY <1>0, <1>1, <2>1, <2>5, <2>7
<1>13. ASSUME NEW i \in DOMAIN batchNet, BatchCallFails(i) PROVE BatchShape'
  <2>1. /\ batchView' \in {batchView, [batchView EXCEPT !.notFound = TRUE]}
        /\ batchNet' = RemoveAt(batchNet, i) /\ UNCHANGED batchRow
    BY <1>13 DEF BatchCallFails
  <2>2. batchNet' \in Seq(S)
    BY <1>0, <2>1, RemoveAtFacts
  <2>3. CodeCalls(batchNet')
    BY <1>0, <2>2, CodeCallsOf
  <2>4. Seen(batchView')
    BY <1>0, <2>1
  <2>. QED BY <1>0, <1>1, <2>1, <2>3, <2>4
<1>14. CASE UNCHANGED batchVars
  BY <1>14 DEF BatchShape, batchVars, CodeCalls
<1>. QED
  BY <1>5, <1>6, <1>7, <1>9, <1>10, <1>11, <1>12, <1>13, <1>14 DEF BatchPagesNext, SelectTab

\* What the page of the notes shows, sends and has stored.
NoteTexts == FaqTexts \cup {BlankFaq}
Notes == [id: Nat, text: NoteTexts]
NoteForms == [open: BOOLEAN, item: Nat, text: NoteTexts]
NoteRows == [text: NoteTexts, order: Nat]
NoteCalls == [op: {"load", "create", "update", "delete", "reorder"}, id: Nat, text: NoteTexts,
              ids: Seq(Nat), state: {"sent", "ok", "refused"}, items: Seq(Notes)]

IsNoteTable(table) ==
  /\ table = [rows |-> table.rows, last |-> table.last]
  /\ table.last \in Nat /\ DOMAIN table.rows \subseteq 1 .. table.last
  /\ table.rows \in [DOMAIN table.rows -> NoteRows]

FaqShape ==
  /\ faq \in [items: Seq(Notes), form: NoteForms]
  /\ faqNet \in Seq(NoteCalls)
  /\ IsNoteTable(faqTable)

\* A finite set of numbers has a greatest one.
LEMMA MaxFacts ==
  ASSUME NEW S \in SUBSET Int, IsFiniteSet(S), S # {}
  PROVE  Max(S) \in S /\ \A x \in S : x <= Max(S)
<1>1. Cardinality(S) \in Nat /\ Cardinality(S) # 0
  BY FS_CardinalityType, FS_EmptySet
<1>2. PICK m \in S : Place(S, m) = 0
  <2>1. 0 \in 0 .. Cardinality(S) - 1
    BY <1>1
  <2>. QED BY <2>1, PlaceFacts
<1>3. {other \in S : other > m} = {}
  <2> DEFINE above == {other \in S : other > m}
  <2>1. above \in SUBSET S
    OBVIOUS
  <2>2. Cardinality(above) = 0
    BY <1>2 DEF Place
  <2> HIDE DEF above
  <2>3. above = {}
    BY <2>1, <2>2, FS_Subset, FS_EmptySet
  <2>. QED BY <2>3 DEF above
<1>4. \A x \in S : m >= x
  <2> SUFFICES ASSUME NEW x \in S PROVE m >= x
    OBVIOUS
  <2>1. x \in Int /\ m \in Int /\ ~(x > m)
    BY <1>3
  <2>. QED BY <2>1
<1>5. Max(S) \in S /\ \A x \in S : Max(S) >= x
  BY <1>4 DEF Max
<1>6. Max(S) \in Int
  BY <1>5
<1>. QED
  <2>1. ASSUME NEW x \in S PROVE x <= Max(S)
    <3>1. x \in Int /\ Max(S) >= x
      BY <1>5
    <3>. QED BY <1>6, <3>1
  <2>. QED BY <1>5, <2>1

\* The sort orders of the rows.
Orders(rows) == {rows[id].order : id \in DOMAIN rows}

\* They are finitely many numbers.
LEMMA OrdersFacts ==
  ASSUME NEW table, IsNoteTable(table)
  PROVE  Orders(table.rows) \in SUBSET Nat /\ IsFiniteSet(Orders(table.rows))
<1> DEFINE rows == table.rows
<1>1. rows \in [DOMAIN rows -> NoteRows] /\ DOMAIN rows \in SUBSET (1 .. table.last) /\ table.last \in Nat
  BY DEF IsNoteTable
<1> HIDE DEF rows
<1>2. \A id \in DOMAIN rows : rows[id].order \in Nat
  BY <1>1 DEF NoteRows
<1>3. IsFiniteSet(DOMAIN rows)
  <2>0. 1 \in Int /\ table.last \in Int
    BY <1>1
  <2>1. IsFiniteSet(1 .. table.last)
    BY <2>0, FS_Interval
  <2>. QED BY <1>1, <2>1, FS_Subset
<1>4. IsFiniteSet(Orders(rows))
  <2> DEFINE f == [id \in DOMAIN rows |-> rows[id].order]
  <2>1. f \in Surjection(DOMAIN rows, Orders(rows))
    BY DEF Surjection, Orders
  <2> HIDE DEF f
  <2>. QED BY <1>3, <2>1, FS_Surjection
<1>. QED BY <1>2, <1>4 DEF Orders, rows

\* The list that the server sends has an id and a text for every place.
LEMMA ListedFacts ==
  ASSUME NEW table, IsNoteTable(table) PROVE Listed(table.rows) \in Seq(Notes)
<1> DEFINE rows == table.rows
           orders == Orders(rows)
           n == Cardinality(orders)
           at(i) == CHOOSE id \in DOMAIN rows : Place(orders, rows[id].order) = n - i
<1>1. Listed(rows) = [i \in 1 .. n |-> [id |-> at(i), text |-> rows[at(i)].text]]
  BY DEF Listed, Orders
<1>2. /\ rows \in [DOMAIN rows -> NoteRows] /\ DOMAIN rows \subseteq 1 .. table.last
      /\ table.last \in Nat
  BY DEF IsNoteTable
<1>3. orders \in SUBSET Int /\ IsFiniteSet(orders)
  BY OrdersFacts
<1>4. n \in Nat /\ \A k \in 0 .. n - 1 : \E o \in orders : Place(orders, o) = k
  <2> HIDE DEF orders
  <2>. QED BY <1>3, PlaceFacts
<1>5. \A o \in orders : \E id \in DOMAIN rows : o = rows[id].order
  BY DEF Orders
<1> HIDE DEF rows, orders, n
<1>6. ASSUME NEW i \in 1 .. n PROVE at(i) \in DOMAIN rows
  <2>1. n - i \in 0 .. n - 1
    BY <1>4
  <2>2. \E id \in DOMAIN rows : Place(orders, rows[id].order) = n - i
    BY <1>4, <1>5, <2>1
  <2>. QED BY <2>2
<1> HIDE DEF at
<1>7. \A i \in 1 .. n : [id |-> at(i), text |-> rows[at(i)].text] \in Notes
  BY <1>2, <1>6 DEF Notes, NoteRows
<1>8. Listed(rows) \in [1 .. n -> Notes]
  BY <1>1, <1>7
<1>. QED BY <1>4, <1>8, FunctionIsSeq DEF rows

\* A note that is created has a number and an order of its own.
LEMMA CreatedFacts ==
  ASSUME NEW table, IsNoteTable(table), NEW text \in NoteTexts PROVE IsNoteTable(Created(table, text))
<1> DEFINE rows == table.rows
           order == Max(Orders(rows) \cup {0}) + 1
           new == table.last + 1
           next == [id \in DOMAIN rows \cup {new} |->
                      IF id = new THEN [text |-> text, order |-> order] ELSE rows[id]]
<1>1. Created(table, text) = [rows |-> next, last |-> new]
  BY DEF Created, Orders
<1>2. /\ rows \in [DOMAIN rows -> NoteRows] /\ DOMAIN rows \subseteq 1 .. table.last
      /\ table.last \in Nat
  BY DEF IsNoteTable
<1>3. order \in Nat
  <2> DEFINE all == Orders(rows) \cup {0}
  <2>1. all \in SUBSET Int /\ IsFiniteSet(all) /\ all # {} /\ all \in SUBSET Nat
    BY OrdersFacts, FS_AddElement
  <2> HIDE DEF all
  <2>2. Max(all) \in Nat
    BY <2>1, MaxFacts
  <2>. QED BY <2>2 DEF all
<1> HIDE DEF order, rows
<1>4. [text |-> text, order |-> order] \in NoteRows
  BY <1>3 DEF NoteRows
<1>5. new \in Nat /\ new \in 1 .. new /\ 1 .. table.last \subseteq 1 .. new
  BY <1>2
<1> HIDE DEF new
<1>6. next \in [DOMAIN next -> NoteRows] /\ DOMAIN next \subseteq 1 .. new
  BY <1>2, <1>4, <1>5
<1> HIDE DEF next
<1>. QED BY <1>1, <1>5, <1>6 DEF IsNoteTable

\* A row that is moved gets a place of the list that was sent as its order.
LEMMA ReorderedFacts ==
  ASSUME NEW D, NEW rows \in [D -> NoteRows], NEW ids \in Seq(Nat)
  PROVE  Reordered(rows, ids) \in [D -> NoteRows]
<1>1. ASSUME NEW id \in Range(ids) PROVE NewOrder(ids, id) \in Nat
  <2>1. \E i \in DOMAIN ids : ids[i] = id
    BY DEF Range
  <2>2. NewOrder(ids, id) \in DOMAIN ids
    BY <2>1 DEF NewOrder
  <2>. QED BY <2>2, SeqFacts
<1>2. ASSUME NEW row \in NoteRows, NEW order \in Nat PROVE [row EXCEPT !.order = order] \in NoteRows
  BY DEF NoteRows
<1>. QED BY <1>1, <1>2 DEF Reordered

\* Every table that a call may leave is a table of notes.
LEMMA OutcomeFacts ==
  ASSUME IsNoteTable(faqTable), NEW call \in NoteCalls, NEW table \in Outcome(call)
  PROVE  IsNoteTable(table)
<1> DEFINE rows == faqTable.rows
<1>0. /\ faqTable = [rows |-> rows, last |-> faqTable.last] /\ faqTable.last \in Nat
      /\ rows \in [DOMAIN rows -> NoteRows] /\ DOMAIN rows \subseteq 1 .. faqTable.last
  BY DEF IsNoteTable
<1>1. call.text \in NoteTexts /\ call.ids \in Seq(Nat)
  BY DEF NoteCalls
<1>2. ASSUME NEW next, table = [rows |-> next, last |-> faqTable.last],
             DOMAIN next \subseteq DOMAIN rows, next \in [DOMAIN next -> NoteRows]
      PROVE  IsNoteTable(table)
  BY <1>0, <1>2 DEF IsNoteTable
<1>3. CASE call.op = "load"
  BY <1>3 DEF Outcome
<1>4. CASE call.op = "create"
  BY <1>1, <1>4, CreatedFacts DEF Outcome
<1>5. CASE call.op = "update"
  <2>1. call.id \in DOMAIN rows /\ table = [faqTable EXCEPT !.rows[call.id].text = call.text]
    BY <1>5 DEF Outcome
  <2> DEFINE row == [rows[call.id] EXCEPT !.text = call.text]
             next == [rows EXCEPT ![call.id] = row]
  <2>2. row \in NoteRows
    BY <1>0, <1>1, <2>1 DEF NoteRows
  <2>3. table = [rows |-> next, last |-> faqTable.last]
    BY <1>0, <2>1
  <2> HIDE DEF row, rows
  <2>4. DOMAIN next = DOMAIN rows /\ next \in [DOMAIN next -> NoteRows]
    BY <1>0, <2>2
  <2>. QED BY <1>2, <2>3, <2>4
<1>6. CASE call.op = "delete"
  <2> DEFINE next == [id \in DOMAIN rows \ {call.id} |-> rows[id]]
  <2>1. table = [faqTable EXCEPT !.rows = next]
    BY <1>6 DEF Outcome
  <2>2. table = [rows |-> next, last |-> faqTable.last]
    BY <1>0, <2>1
  <2>3. DOMAIN next \subseteq DOMAIN rows /\ next \in [DOMAIN next -> NoteRows]
    BY <1>0
  <2>. QED BY <1>2, <2>2, <2>3
<1>7. CASE call.op = "reorder"
  <2> DEFINE next == Reordered(rows, call.ids)
  <2>1. table = [faqTable EXCEPT !.rows = next]
    BY <1>7 DEF Outcome
  <2>2. table = [rows |-> next, last |-> faqTable.last]
    BY <1>0, <2>1
  <2>3. next \in [DOMAIN rows -> NoteRows]
    BY <1>0, <1>1, ReorderedFacts
  <2> HIDE DEF next
  <2>4. DOMAIN next = DOMAIN rows
    BY <2>3
  <2>. QED BY <1>2, <2>2, <2>3, <2>4
<1>. QED BY <1>3, <1>4, <1>5, <1>6, <1>7 DEF NoteCalls

\* A note that is moved stays one of the list.
LEMMA MovedFacts ==
  ASSUME NEW s \in Seq(Notes), NEW i \in DOMAIN s, NEW j \in DOMAIN s
  PROVE  InsertAt(RemoveAt(s, i), j, s[i]) \in Seq(Notes)
<1> DEFINE rest == RemoveAt(s, i)
<1>1. rest \in Seq(Notes) /\ Len(rest) = Len(s) - 1
  BY RemoveAtFacts
<1>2. s[i] \in Notes /\ j \in 1 .. Len(s) /\ Len(s) \in Nat
  BY SeqFacts
<1> HIDE DEF rest
<1>3. SubSeq(rest, 1, j - 1) \in Seq(Notes) /\ SubSeq(rest, j, Len(rest)) \in Seq(Notes)
  BY <1>1, <1>2
<1>4. <<s[i]>> \in Seq(Notes)
  BY <1>2
<1>5. InsertAt(rest, j, s[i]) = SubSeq(rest, 1, j - 1) \o <<s[i]>> \o SubSeq(rest, j, Len(rest))
  BY DEF InsertAt
<1>. QED BY <1>3, <1>4, <1>5 DEF rest

\* The ids of a list of notes.
LEMMA IdsFacts == ASSUME NEW items \in Seq(Notes) PROVE Ids(items) \in Seq(Nat)
<1>1. \A note \in Notes : note.id \in Nat
  BY DEF Notes
<1>2. Ids(items) \in [1 .. Len(items) -> Nat] /\ Len(items) \in Nat
  BY <1>1, SeqFacts DEF Ids
<1>. QED BY <1>2, FunctionIsSeq

\* A call that is sent.
LEMMA NoteCallFacts ==
  ASSUME NEW op \in {"load", "create", "update", "delete", "reorder"}, NEW id \in Nat,
         NEW text \in NoteTexts, NEW ids \in Seq(Nat)
  PROVE  FaqCall(op, id, text, ids) \in NoteCalls
BY DEF FaqCall, NoteCalls, NoNotes

\* Every step of the page of the notes and of the server keeps those types.
LEMMA FaqShapeStep == FaqShape /\ [FaqNext]_faqVars => FaqShape'
<1> SUFFICES ASSUME FaqShape, [FaqNext]_faqVars PROVE FaqShape'
  OBVIOUS
<1> DEFINE zero == 0
           none == <<>>
           Pages == [items: Seq(Notes), form: NoteForms]
<1>0. /\ faq \in Pages /\ faq.items \in Seq(Notes) /\ faq.form \in NoteForms
      /\ faqNet \in Seq(NoteCalls) /\ IsNoteTable(faqTable)
  BY DEF FaqShape
<1>1. /\ \A k \in DOMAIN faqNet : faqNet[k] \in NoteCalls
      /\ \A i \in DOMAIN faq.items : /\ faq.items[i] \in Notes
                                     /\ faq.items[i].id \in Nat /\ faq.items[i].text \in NoteTexts
      /\ faq.form.item \in Nat /\ faq.form.text \in NoteTexts
  <2>1. \A note \in Notes : note.id \in Nat /\ note.text \in NoteTexts
    BY DEF Notes
  <2>2. faq.form.item \in Nat /\ faq.form.text \in NoteTexts
    BY <1>0 DEF NoteForms
  <2>. QED BY <1>0, <2>1, <2>2, SeqFacts
<1>2. zero \in Nat /\ BlankFaq \in NoteTexts /\ none \in Seq(Nat)
  BY DEF NoteTexts
<1>3. loadFaq \in NoteCalls
  BY <1>2, NoteCallFacts DEF loadFaq
<1>4. ClosedForm \in NoteForms
  BY <1>2 DEF ClosedForm, NoteForms
<1>5. \A form \in NoteForms : [faq EXCEPT !.form = form] \in Pages
  BY <1>0
<1>6. \A items \in Seq(Notes) : [faq EXCEPT !.items = items] \in Pages
  BY <1>0
<1>7. ASSUME NEW item \in Nat, NEW text \in NoteTexts, OpenFaq(item, text) PROVE FaqShape'
  <2>1. [open |-> TRUE, item |-> item, text |-> text] \in NoteForms
    BY DEF NoteForms
  <2>. QED BY <1>0, <1>5, <1>7, <2>1 DEF OpenFaq, FaqShape
<1>8. CASE openCreate \/ (\E i \in DOMAIN faq.items : openEdit(i))
           \/ (\E text \in FaqTexts \cup {BlankFaq} : TypeFaq(text))
  BY <1>1, <1>2, <1>7, <1>8 DEF openCreate, openEdit, TypeFaq, NoteTexts
<1>9. CASE closeForm
  BY <1>0, <1>4, <1>5, <1>9 DEF closeForm, FaqShape
<1>10. ASSUME NEW call \in NoteCalls, SendFaq(call), faq' \in Pages PROVE FaqShape'
  <2>1. faqNet' = Append(faqNet, call) /\ UNCHANGED faqTable
    BY <1>10 DEF SendFaq
  <2>. QED BY <1>0, <1>10, <2>1 DEF FaqShape
<1>11. CASE SaveFaq
  <2>1. PICK op \in {"create", "update"} : SendFaq(FaqCall(op, faq.form.item, faq.form.text, <<>>))
    BY <1>11 DEF SaveFaq
  <2>2. FaqCall(op, faq.form.item, faq.form.text, <<>>) \in NoteCalls
    BY <1>1, <1>2, NoteCallFacts
  <2>3. faq' \in Pages
    BY <1>0, <1>11 DEF SaveFaq
  <2>. QED BY <1>10, <2>1, <2>2, <2>3
<1>12. ASSUME NEW i \in DOMAIN faq.items, DeleteFaq(i) PROVE FaqShape'
  <2>1. FaqCall("delete", faq.items[i].id, BlankFaq, <<>>) \in NoteCalls
    BY <1>1, <1>2, NoteCallFacts
  <2>. QED BY <1>0, <1>10, <1>12, <2>1 DEF DeleteFaq
<1>13. ASSUME NEW i \in DOMAIN faq.items, NEW j, move(i, j) PROVE FaqShape'
  <2> DEFINE next == InsertAt(RemoveAt(faq.items, i), j, faq.items[i])
  <2>1. /\ j \in DOMAIN faq.items /\ faq' = [faq EXCEPT !.items = next]
        /\ SendFaq(FaqCall("reorder", zero, BlankFaq, Ids(next)))
    BY <1>13 DEF move
  <2>2. next \in Seq(Notes)
    BY <1>0, <2>1, MovedFacts
  <2> HIDE DEF next, zero
  <2>3. FaqCall("reorder", zero, BlankFaq, Ids(next)) \in NoteCalls
    BY <1>2, <2>2, IdsFacts, NoteCallFacts
  <2>. QED BY <1>6, <1>10, <2>1, <2>2, <2>3
<1>14. ASSUME NEW k \in DOMAIN faqNet, ServeFaq(k) PROVE FaqShape'
  <2> DEFINE call == faqNet[k]
             items == Body(call)
  <2>0. call \in NoteCalls /\ UNCHANGED faq
    BY <1>1, <1>14 DEF ServeFaq
  <2>1. items \in Seq(Notes)
    <3>1. Listed(faqTable.rows) \in Seq(Notes) /\ <<>> \in Seq(Notes)
      BY <1>0, ListedFacts
    <3>. QED BY <3>1 DEF Body, NoNotes
  <2>2. \/ faqTable' \in Outcome(call) /\ faqNet' = [faqNet EXCEPT ![k].state = "ok", ![k].items = items]
        \/ UNCHANGED faqTable /\ faqNet' = [faqNet EXCEPT ![k].state = "refused"]
    BY <1>14 DEF ServeFaq
  <2>3. IsNoteTable(faqTable')
    BY <1>0, <2>0, <2>2, OutcomeFacts
  <2> DEFINE x == [call EXCEPT !.state = "ok", !.items = items]
             y == [call EXCEPT !.state = "refused"]
  <2>4. faqNet' \in {[faqNet EXCEPT ![k] = x], [faqNet EXCEPT ![k] = y]}
    BY <2>2
  <2> HIDE DEF call, items
  <2>5. x \in NoteCalls /\ y \in NoteCalls
    BY <2>0, <2>1 DEF NoteCalls
  <2> HIDE DEF x, y
  <2>6. faqNet' \in Seq(NoteCalls)
    <3>1. [faqNet EXCEPT ![k] = x] \in Seq(NoteCalls)
      BY <1>0, <2>5, ExceptFacts
    <3>2. [faqNet EXCEPT ![k] = y] \in Seq(NoteCalls)
      BY <1>0, <2>5, ExceptFacts
    <3>. QED BY <2>4, <3>1, <3>2
  <2>. QED BY <1>0, <2>0, <2>3, <2>6 DEF FaqShape
<1>15. ASSUME NEW k \in DOMAIN faqNet, FaqAnswer(k) PROVE FaqShape'
  <2> DEFINE call == faqNet[k]
             rest == RemoveAt(faqNet, k)
  <2>0. call \in NoteCalls /\ call.items \in Seq(Notes) /\ rest \in Seq(NoteCalls)
    BY <1>0, <1>1, RemoveAtFacts DEF NoteCalls
  <2>1. UNCHANGED faqTable /\ \E ok \in BOOLEAN : FaqLoaded(k, ok) \/ FaqChanged(k, ok)
    BY <1>15 DEF FaqAnswer
  <2>2. PICK ok \in BOOLEAN : FaqLoaded(k, ok) \/ FaqChanged(k, ok)
    BY <2>1
  <2>3. CASE FaqLoaded(k, ok)
    <3>1. faq' \in {faq, [faq EXCEPT !.items = call.items]} /\ faqNet' = rest
      BY <2>3 DEF FaqLoaded
    <3>. QED BY <1>0, <1>6, <2>0, <2>1, <3>1 DEF FaqShape
  <2>4. CASE FaqChanged(k, ok)
    <3>1. faq' \in {faq, [faq EXCEPT !.form = ClosedForm]} /\ faqNet' = rest \o Follow(call, ok)
      BY <2>4 DEF FaqChanged
    <3>2. Follow(call, ok) \in Seq(NoteCalls)
      BY <1>3, ShortLists DEF Follow
    <3> HIDE DEF rest, call
    <3>3. faqNet' \in Seq(NoteCalls)
      BY <2>0, <3>1, <3>2
    <3>. QED BY <1>0, <1>4, <1>5, <2>1, <3>1, <3>3 DEF FaqShape
  <2>. QED BY <2>2, <2>3, <2>4
<1>16. CASE UNCHANGED faqVars
  BY <1>16 DEF faqVars, FaqShape
<1>. QED
  BY <1>8, <1>9, <1>11, <1>12, <1>13, <1>14, <1>15, <1>16 DEF FaqNext

-----------------------------------------------------------------------------

\* What the pages need besides their own invariants.
ClientShape ==
  /\ route \in Routes
  /\ RedeemBound /\ SiteShape /\ FaqShape /\ BatchShape /\ SessionShape
  /\ newStock.level \in 0 .. MaxStock

\* The first state: the notes there are have the ids that were given out.
LEMMA FaqShapeBegins == FaqInit => FaqShape
<1> SUFFICES ASSUME FaqInit PROVE FaqShape
  OBVIOUS
<1> DEFINE zero == 0
           none == <<>>
           all == FirstFaq \cup {zero}
           last == Max(all)
<1>1. zero \in Nat /\ BlankFaq \in NoteTexts /\ none \in Seq(Nat) /\ <<>> \in Seq(Notes)
  BY DEF NoteTexts
<1>2. loadFaq \in NoteCalls
  BY <1>1, NoteCallFacts DEF loadFaq
<1>3. faqNet \in Seq(NoteCalls)
  BY <1>2, ShortLists DEF FaqInit
<1>4. faq \in [items: Seq(Notes), form: NoteForms]
  <2>1. ClosedForm \in NoteForms
    BY <1>1 DEF ClosedForm, NoteForms
  <2>2. faq = [items |-> <<>>, form |-> ClosedForm]
    BY DEF FaqInit, NoNotes
  <2>. QED BY <1>1, <2>1, <2>2
<1>5. all \in SUBSET Nat /\ IsFiniteSet(all)
  <2>1. MaxFaqId \in Nat /\ FirstFaq \in SUBSET (1 .. MaxFaqId)
    BY FaqAssumption
  <2>2. 1 \in Int /\ MaxFaqId \in Int
    BY <2>1
  <2>3. IsFiniteSet(1 .. MaxFaqId)
    BY <2>2, FS_Interval
  <2>4. IsFiniteSet(FirstFaq)
    BY <2>1, <2>3, FS_Subset
  <2>. QED BY <2>1, <2>4, FS_AddElement
<1>6. last \in Nat /\ \A x \in all : x <= last
  <2>1. all \in SUBSET Int /\ all # {}
    BY <1>5
  <2> HIDE DEF all
  <2>. QED BY <1>5, <2>1, MaxFacts
<1>7. PICK text \in FaqTexts :
        faqTable = [rows |-> [id \in FirstFaq |-> [text |-> text, order |-> id]], last |-> last]
  BY DEF FaqInit
<1>8. FirstFaq \subseteq 1 .. last
  <2> SUFFICES ASSUME NEW id \in FirstFaq PROVE id \in 1 .. last
    OBVIOUS
  <2>1. id \in Nat /\ 1 <= id
    BY FaqAssumption
  <2>2. id <= last
    BY <1>6
  <2> HIDE DEF last
  <2>. QED BY <1>6, <2>1, <2>2
<1> HIDE DEF last
<1>9. \A id \in FirstFaq : [text |-> text, order |-> id] \in NoteRows
  BY <1>6, <1>7, <1>8 DEF NoteRows, NoteTexts
<1>10. IsNoteTable(faqTable)
  BY <1>6, <1>7, <1>8, <1>9 DEF IsNoteTable
<1>. QED BY <1>3, <1>4, <1>10 DEF FaqShape

\* The first state of the client.
LEMMA ShapeBegins == ClientInit => ClientShape
<1> SUFFICES ASSUME ClientInit PROVE ClientShape
  OBVIOUS
<1>1. RedeemBound
  <2>1. redeemNet = <<>>
    BY DEF ClientInit, RedeemInit
  <2>2. Len(redeemNet) = 0
    BY <2>1
  <2>. QED BY <2>2, RedeemPageAssumption DEF RedeemBound
<1>2. SiteShape
  <2>1. siteRow.version = 1 /\ siteNet = <<SiteCall("load", NoLogo, FALSE, FALSE)>>
    BY DEF ClientInit, SiteInit, Settings
  <2>2. Unserved(siteNet) = {}
    BY <2>1 DEF Unserved, SiteCall
  <2>3. Cardinality(Unserved(siteNet)) = 0
    BY <2>2, FS_EmptySet
  <2>. QED BY <2>1, <2>3, SiteSettingsAssumption DEF SiteShape
<1>3. BatchShape
  <2> DEFINE call == load_batches(FreshView("list"))
  <2>1. batchView = FreshView("list") /\ batchNet = <<call>> /\ batchRow = [status |-> "active", disabled |-> {}]
    BY DEF ClientInit, BatchPagesInit
  <2>2. CodeCall(call)
    BY SentCodeCall DEF load_batches
  <2> HIDE DEF call
  <2>3. batchNet \in Seq({call})
    BY <2>1
  <2>4. CodeCalls(batchNet)
    BY <2>2, <2>3, CodeCallsOf
  <2>. QED BY <2>1, <2>4, BatchPagesAssumption DEF BatchShape, FreshView
<1>4. SessionShape
  BY DEF ClientInit, AdminSessionInit, SessionShape, TabViews
<1>5. newStock.level \in 0 .. MaxStock
  BY DEF ClientInit, BatchNewInit
<1>6. FaqShape
  BY FaqShapeBegins DEF ClientInit
<1>7. route \in Routes
  BY DEF ClientInit
<1>. QED BY <1>1, <1>2, <1>3, <1>4, <1>5, <1>6, <1>7 DEF ClientShape

\* A step of the client is a step of one page, which keeps its part.
LEMMA ShapeStep ==
  ASSUME RedeemInv, RedeemInv', SiteInv, SiteInv', ClientShape, [ClientNext]_clientVars
  PROVE  ClientShape'
<1>1. UNCHANGED route
  BY DEF ClientNext, clientVars, But
<1>2. [RedeemNext]_redeemVars /\ [SiteNext]_siteVars
  BY RedeemProjected, SiteProjected
<1>3. [FaqNext]_faqVars /\ [BatchPagesNext]_batchVars
  BY DEF ClientNext, clientVars, faqVars, batchVars, But
<1>4. [BatchNewNext]_newVars /\ [AdminSessionNext]_sessionVars
  BY DEF ClientNext, clientVars, newVars, sessionVars, But
<1>. QED
  BY <1>1, <1>2, <1>3, <1>4, RedeemBoundStep, SiteShapeStep, FaqShapeStep, BatchShapeStep, StockShapeStep,
     SessionShapeStep DEF ClientShape

\* Every value shown, sent and stored by the pages keeps to its shape and to the limits
\* of the lists: the history and the calls on their way stay within their bounds, no
\* version, stock or session beyond those given out appears, and no row, code or tab
\* that the server or the page does not have; for any number of calls, tabs, notes and
\* codes.
THEOREM ClientTypesHold == ClientSpec => []ClientTypeOK
<1>1. ClientInit => SiteInv
  BY SiteBegins DEF ClientInit
<1>2. ClientSpec => []SiteInv
  BY <1>1, SiteProjected, SiteStep, PTL DEF ClientSpec
<1>3. ClientSpec => []ClientShape
  <2>1. RedeemInv /\ RedeemInv' /\ SiteInv /\ SiteInv' /\ ClientShape /\ [ClientNext]_clientVars => ClientShape'
    BY ShapeStep
  <2>. QED BY <1>2, <2>1, ShapeBegins, RedeemAlways, PTL DEF ClientSpec
<1>4. /\ ClientShape /\ RedeemInv /\ ConvInv /\ TableInv /\ SiteInv /\ NewInv /\ LogsInv
      => ClientTypeOK
  <2> SUFFICES ASSUME ClientShape, RedeemInv, ConvInv, TableInv, SiteInv, NewInv, LogsInv PROVE ClientTypeOK
    OBVIOUS
  <2>1. RedeemTypeOK
    BY DEF RedeemTypeOK, RedeemInv, RedeemTypes, TabStates, HistoryKeeps, ClientShape, RedeemBound
  <2>2. conv.format \in ConvFormats /\ conv.error \in BOOLEAN /\ convReads \in Seq(ConvTexts)
    BY DEF ConvInv, ConvStates
  <2>3. credRows \subseteq CredIds /\ cred.selected \subseteq CredIds
    BY DEF TableInv, CredTypes, CredLists
  <2>4. siteRow.version \in 0 .. MaxVersion /\ siteForm.logoFile \in LogoFiles \cup {NoLogo}
    <3>1. siteRow.version \in Nat /\ siteNet \in Seq(SiteCalls) /\ MaxVersion \in Nat
      BY SiteSettingsAssumption DEF SiteInv, SiteTypes, SettingsValues
    <3>2. Cardinality(Unserved(siteNet)) \in Nat
      BY <3>1, UnservedFacts
    <3>3. siteRow.version <= MaxVersion
      BY <3>1, <3>2 DEF ClientShape, SiteShape
    <3>. QED BY <3>1, <3>3 DEF SiteInv, SiteTypes, SettingsForms
  <2>5. DOMAIN faqTable.rows \subseteq 1 .. faqTable.last /\ faq.form.text \in FaqTexts \cup {BlankFaq}
    BY DEF ClientShape, FaqShape, IsNoteTable, NoteForms, NoteTexts
  <2>6. batchRow.disabled \subseteq CodeIds /\ batchView.state \in CodeTabs
    BY DEF ClientShape, BatchShape
  <2>7. newForm.wrong \in Faults /\ newStock.level \in 0 .. MaxStock
    BY DEF ClientShape, NewInv, NewTypes, NewForms
  <2>8. logs.query.webhook \in LogFilters /\ logs.query.page \in Nat \ {0}
    BY DEF LogsInv, LogTypes, LogQueries
  <2>9. /\ sessions \subseteq 1 .. lastSession
        /\ \A t \in Tabs : adminTab[t].view \in {"closed", "gate", "login", "admin"}
    BY DEF ClientShape, SessionShape, TabViews
  <2>. QED BY <2>1, <2>2, <2>3, <2>4, <2>5, <2>6, <2>7, <2>8, <2>9 DEF ClientTypeOK, ClientShape
<1>. QED
  BY <1>2, <1>3, <1>4, RedeemAlways, ConvertAlways, TableInvariant, NewBatchInvariant, LogsInvariant, PTL

=============================================================================
