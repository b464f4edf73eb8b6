-------------------------- MODULE AdminPagesProofs --------------------------
(***************************************************************************)
(* Proofs about the administration pages that create batches, manage       *)
(* credentials and show the redemption log, for any number of rows, any    *)
(* size of a page and any number of calls in flight.                       *)
(***************************************************************************)
EXTENDS WebClientProofs

-----------------------------------------------------------------------------
(* The form that creates a batch.                                          *)

NewCalls == [op: {"plans", "create"}, expires: {"", "local"}, assign: BOOLEAN, wrong: Faults,
             state: {"sent", "invalid", "expiry", "no_stock", "checked", "ok", "failed"},
             stock: Nat]
NewForms == [wrong: Faults, expires: {"", "local"}, assign: BOOLEAN, plan: BOOLEAN,
             loading: BOOLEAN, errors: BOOLEAN, plans: {"loading", "ready", "error"},
             available: Nat, made: BOOLEAN]

NewTypes ==
  /\ newForm \in NewForms
  /\ newNet \in Seq(NewCalls)
  /\ newStock \in [level: Nat, moves: Nat]
  /\ newBatches \in Nat
  /\ newTally \in [sent: Nat, lost: Nat, again: Nat]

\* While loading, and only then, one creation is on its way.
OneCreation ==
  \A i \in DOMAIN newNet : newNet[i].op = "create" =>
    /\ newForm.loading
    /\ \A j \in DOMAIN newNet : newNet[j].op = "create" => j = i

\* Only a creation is checked.
OnlyCreationsChecked ==
  \A i \in DOMAIN newNet : newNet[i].state = "checked" => newNet[i].op = "create"

Excused == newTally.lost + newTally.again

\* Every batch is excused by a lost answer or by a second press of the button,
\* but for one: that of the success shown, or of the success on its way.
BatchesExcused ==
  \/ newBatches <= Excused
  \/ /\ newBatches <= 1 + Excused
     /\ \/ newForm.made /\ ~newForm.loading
        \/ \E i \in DOMAIN newNet : newNet[i].op = "create" /\ newNet[i].state = "ok"

NewInv == NewTypes /\ OneCreation /\ OnlyCreationsChecked /\ BatchesExcused

\* A new form, and the call that asks for the plans.
LEMMA NewFormFacts ==
  /\ INITIAL \in NewForms
  /\ PlansCall \in NewCalls /\ PlansCall.op = "plans" /\ PlansCall.state = "sent"
  /\ <<PlansCall>> \in Seq(NewCalls)
  /\ \A i \in DOMAIN <<PlansCall>> : <<PlansCall>>[i] = PlansCall
<1>1. INITIAL \in NewForms
  BY DEF INITIAL, NewForms, Faults
<1>2. PlansCall \in NewCalls /\ PlansCall.op = "plans" /\ PlansCall.state = "sent"
  BY DEF PlansCall, NewCalls, Faults
<1>. QED BY <1>1, <1>2

\* At first no batch is made and none is on its way.
LEMMA NewBegins == BatchNewInit => NewInv
<1> SUFFICES ASSUME BatchNewInit PROVE NewInv
  OBVIOUS
<1>1. /\ newForm = INITIAL /\ newNet = <<PlansCall>> /\ newBatches = 0
      /\ newTally = [sent |-> 0, lost |-> 0, again |-> 0] /\ newStock \in [level: Nat, moves: Nat]
  BY BatchNewAssumption DEF BatchNewInit
<1>2. NewTypes
  BY <1>1, NewFormFacts DEF NewTypes
<1>3. OneCreation /\ OnlyCreationsChecked
  BY <1>1, NewFormFacts DEF OneCreation, OnlyCreationsChecked
<1>4. newBatches = 0 /\ Excused = 0
  BY <1>1 DEF Excused
<1>. QED BY <1>2, <1>3, <1>4 DEF NewInv, BatchesExcused

\* Every step of the form, the server and the answers keeps the count.
LEMMA NewStep == NewInv /\ [BatchNewNext]_newVars => NewInv'
<1> SUFFICES ASSUME NewInv, [BatchNewNext]_newVars PROVE NewInv'
  OBVIOUS
<1>0. /\ newNet \in Seq(NewCalls) /\ \A i \in DOMAIN newNet : newNet[i] \in NewCalls
      /\ newForm \in NewForms /\ newStock \in [level: Nat, moves: Nat]
      /\ newBatches \in Nat
      /\ newTally \in [sent: Nat, lost: Nat, again: Nat] /\ Excused \in Nat
  BY SeqFacts DEF NewInv, NewTypes, Excused
<1>1. ASSUME NEW form \in NewForms, SetField(form),
             form.made = newForm.made, form.loading = newForm.loading
      PROVE  NewInv'
  BY <1>1 DEF SetField, NewInv, NewTypes, OneCreation, OnlyCreationsChecked, BatchesExcused, Excused
<1>2. ASSUME NEW fault \in Faults, EditField(fault) PROVE NewInv'
  BY <1>0, <1>1, <1>2 DEF EditField, NewForms
<1>3. ASSUME NEW expires \in {"", "local"}, SetExpiry(expires) PROVE NewInv'
  BY <1>0, <1>1, <1>3 DEF SetExpiry, NewForms
<1>4. ASSUME NEW checked \in BOOLEAN, AssignCredential(checked) PROVE NewInv'
  BY <1>0, <1>1, <1>4 DEF AssignCredential, NewForms
<1>5. CASE SelectPlan
  BY <1>0, <1>1, <1>5 DEF SelectPlan, NewForms
<1>6. CASE loadNewPlans
  <2>1. PlansCall \in NewCalls /\ PlansCall.op = "plans" /\ PlansCall.state = "sent"
    BY NewFormFacts
  <2>2. /\ newNet' \in Seq(NewCalls) /\ DOMAIN newNet' = DOMAIN newNet \cup {Len(newNet) + 1}
        /\ newNet'[Len(newNet) + 1] = PlansCall /\ \A i \in DOMAIN newNet : newNet'[i] = newNet[i]
    BY <1>0, <1>6, <2>1, AppendFacts DEF loadNewPlans
  <2>3. /\ newForm' \in NewForms /\ newForm'.loading = newForm.loading /\ newForm'.made = newForm.made
        /\ UNCHANGED <<newStock, newBatches, newTally>>
    BY <1>0, <1>6 DEF loadNewPlans, NewForms
  <2>4. NewTypes'
    BY <2>2, <2>3 DEF NewInv, NewTypes
  <2>5. OneCreation' /\ OnlyCreationsChecked'
    BY <2>1, <2>2, <2>3 DEF NewInv, OneCreation, OnlyCreationsChecked
  <2>6. BatchesExcused'
    BY <2>2, <2>3 DEF NewInv, BatchesExcused, Excused
  <2>. QED BY <2>4, <2>5, <2>6 DEF NewInv
<1>7. CASE SubmitBatch
  <2>0. ~newForm.loading /\ UNCHANGED <<newStock, newBatches>>
    BY <1>7 DEF SubmitBatch, SubmitEnabled
  <2>1. \A i \in DOMAIN newNet : newNet[i].op # "create"
    BY <2>0 DEF NewInv, OneCreation
  <2>2. CASE validate(newForm)
    <3> DEFINE new == CreateCall(newForm)
    <3>1. new \in NewCalls /\ new.op = "create" /\ new.state = "sent"
      BY <1>0 DEF CreateCall, NewCalls, NewForms
    <3>2. /\ newNet' = Append(newNet, new)
          /\ newForm' = [newForm EXCEPT !.loading = TRUE, !.errors = FALSE]
          /\ newTally' = [newTally EXCEPT !.sent = @ + 1, !.again = IF newForm.made THEN @ + 1 ELSE @]
      BY <1>7, <2>2 DEF SubmitBatch
    <3> HIDE DEF new
    <3>3. /\ newNet' \in Seq(NewCalls) /\ DOMAIN newNet' = DOMAIN newNet \cup {Len(newNet) + 1}
          /\ newNet'[Len(newNet) + 1] = new /\ \A i \in DOMAIN newNet : newNet'[i] = newNet[i]
      BY <1>0, <3>1, <3>2, AppendFacts
    <3>4. newForm' \in NewForms /\ newForm'.loading
      BY <1>0, <3>2 DEF NewForms
    <3>5. /\ newTally' \in [sent: Nat, lost: Nat, again: Nat]
          /\ Excused' = IF newForm.made THEN Excused + 1 ELSE Excused
      <4>1. newTally.sent \in Nat /\ newTally.lost \in Nat /\ newTally.again \in Nat
        BY <1>0
      <4>2. newTally' = [sent |-> newTally.sent + 1, lost |-> newTally.lost,
                         again |-> IF newForm.made THEN newTally.again + 1 ELSE newTally.again]
        BY <1>0, <3>2
      <4>. QED BY <4>1, <4>2 DEF Excused
    <3>6. newBatches <= Excused'
      <4>1. newBatches <= Excused \/ (newBatches <= 1 + Excused /\ newForm.made)
        BY <2>1 DEF NewInv, BatchesExcused
      <4>. QED BY <1>0, <3>5, <4>1
    <3>7. NewTypes'
      BY <2>0, <3>3, <3>4, <3>5 DEF NewInv, NewTypes
    <3>8. OneCreation' /\ OnlyCreationsChecked'
      BY <2>1, <3>1, <3>3, <3>4 DEF NewInv, OneCreation, OnlyCreationsChecked
    <3>. QED BY <2>0, <3>6, <3>7, <3>8 DEF NewInv, BatchesExcused
  <2>3. CASE ~validate(newForm)
    <3>1. newForm' = [newForm EXCEPT !.errors = TRUE] /\ UNCHANGED <<newNet, newTally>>
      BY <1>7, <2>3 DEF SubmitBatch
    <3>2. newForm' \in NewForms /\ newForm'.loading = newForm.loading /\ newForm'.made = newForm.made
      BY <1>0, <3>1 DEF NewForms
    <3>3. NewTypes'
      BY <2>0, <3>1, <3>2 DEF NewInv, NewTypes
    <3>4. OneCreation' /\ OnlyCreationsChecked'
      BY <3>1, <3>2 DEF NewInv, OneCreation, OnlyCreationsChecked
    <3>5. BatchesExcused'
      BY <2>0, <3>1, <3>2 DEF NewInv, BatchesExcused, Excused
    <3>. QED BY <3>3, <3>4, <3>5 DEF NewInv
  <2>. QED BY <2>2, <2>3
<1>8. CASE StockMoves
  <2>1. newStock' \in [level: Nat, moves: Nat] /\ UNCHANGED <<newForm, newNet, newBatches, newTally>>
    BY <1>0, <1>8, BatchNewAssumption DEF StockMoves
  <2>. QED
    BY <2>1 DEF NewInv, NewTypes, OneCreation, OnlyCreationsChecked, BatchesExcused, Excused
<1>9. CASE LeaveNewBatch
  <2>1. newNet' = <<PlansCall>> /\ newBatches' = 0 /\ newForm' = INITIAL /\ UNCHANGED newStock
        /\ newTally' = [newTally EXCEPT !.lost = 0, !.again = 0]
    BY <1>9 DEF LeaveNewBatch
  <2>2. NewTypes'
    <3>1. newTally' \in [sent: Nat, lost: Nat, again: Nat]
      BY <1>0, <2>1
    <3>2. newNet' \in Seq(NewCalls) /\ newForm' \in NewForms
          /\ newBatches' \in Nat
      BY <2>1, NewFormFacts
    <3>. QED BY <1>0, <2>1, <3>1, <3>2 DEF NewTypes
  <2>3. OneCreation' /\ OnlyCreationsChecked'
    BY <2>1, NewFormFacts DEF OneCreation, OnlyCreationsChecked
  <2>4. newBatches' = 0 /\ Excused' = 0
    BY <1>0, <2>1 DEF Excused
  <2>. QED BY <2>2, <2>3, <2>4 DEF NewInv, BatchesExcused
<1>10. ASSUME NEW i \in DOMAIN newNet, CheckBatch(i) PROVE NewInv'
  <2>1. newNet[i].op = "create" /\ newNet[i].state = "sent"
        /\ UNCHANGED <<newForm, newStock, newBatches, newTally>>
    BY <1>10 DEF CheckBatch
  <2>2. PICK state \in {"invalid", "expiry", "no_stock", "checked"} :
          newNet' = [newNet EXCEPT ![i].state = state]
    BY <1>10 DEF CheckBatch
  <2> DEFINE call == [newNet[i] EXCEPT !.state = state]
  <2>3. call \in NewCalls /\ call.op = "create" /\ call.state = state
    BY <1>0, <2>1, <2>2 DEF NewCalls
  <2>4. newNet' = [newNet EXCEPT ![i] = call]
    BY <1>0, <2>2, SeqFacts
  <2> HIDE DEF call
  <2>5. /\ newNet' \in Seq(NewCalls) /\ DOMAIN newNet' = DOMAIN newNet
        /\ newNet'[i] = call /\ \A j \in DOMAIN newNet \ {i} : newNet'[j] = newNet[j]
    BY <1>0, <2>3, <2>4, ExceptFacts
  <2>6. NewTypes'
    BY <2>1, <2>5 DEF NewInv, NewTypes
  <2>7. OneCreation' /\ OnlyCreationsChecked'
    BY <2>1, <2>3, <2>5 DEF NewInv, OneCreation, OnlyCreationsChecked
  <2>8. BatchesExcused'
    BY <2>1, <2>3, <2>5 DEF NewInv, OneCreation, BatchesExcused, Excused
  <2>. QED BY <2>6, <2>7, <2>8 DEF NewInv
<1>11. ASSUME NEW i \in DOMAIN newNet, CreateBatch(i) PROVE NewInv'
  <2>1. /\ newNet[i].op = "create" /\ newNet[i].state = "checked"
        /\ UNCHANGED <<newForm, newStock, newTally>>
    BY <1>11 DEF CreateBatch, NewInv, OnlyCreationsChecked
  <2>2. newBatches <= Excused
    BY <2>1 DEF NewInv, OneCreation, BatchesExcused
  <2>3. ASSUME NEW state \in {"ok", "failed"}, newNet' = [newNet EXCEPT ![i].state = state]
        PROVE  /\ newNet' \in Seq(NewCalls) /\ OneCreation' /\ OnlyCreationsChecked'
               /\ i \in DOMAIN newNet' /\ newNet'[i].op = "create" /\ newNet'[i].state = state
    <3> DEFINE call == [newNet[i] EXCEPT !.state = state]
    <3>1. call \in NewCalls /\ call.op = "create" /\ call.state = state
      BY <1>0, <2>1 DEF NewCalls
    <3>2. newNet' = [newNet EXCEPT ![i] = call]
      BY <2>3
    <3> HIDE DEF call
    <3>3. /\ newNet' \in Seq(NewCalls) /\ DOMAIN newNet' = DOMAIN newNet
          /\ newNet'[i] = call /\ \A j \in DOMAIN newNet \ {i} : newNet'[j] = newNet[j]
      BY <1>0, <3>1, <3>2, ExceptFacts
    <3>. QED BY <2>1, <3>1, <3>3 DEF NewInv, OneCreation, OnlyCreationsChecked
  <2>4. CASE newNet' = [newNet EXCEPT ![i].state = "failed"] /\ UNCHANGED newBatches
    BY <2>1, <2>2, <2>3, <2>4 DEF NewInv, NewTypes, BatchesExcused, Excused
  <2>5. CASE /\ newNet' = [newNet EXCEPT ![i].state = "ok"]
             /\ newBatches' = newBatches + 1
    <3>1. BatchesExcused'
      BY <1>0, <2>1, <2>2, <2>3, <2>5 DEF BatchesExcused, Excused
    <3>. QED BY <1>0, <2>1, <2>3, <2>5, <3>1 DEF NewInv, NewTypes
  <2>. QED BY <1>11, <2>4, <2>5 DEF CreateBatch
<1>12. ASSUME NEW i \in DOMAIN newNet, ListPlans(i) PROVE NewInv'
  <2>1. newNet[i].op = "plans" /\ UNCHANGED <<newForm, newStock, newBatches, newTally>>
    BY <1>12 DEF ListPlans
  <2> DEFINE call == [newNet[i] EXCEPT !.state = "ok", !.stock = newStock.level]
  <2>2. call \in NewCalls /\ call.op = "plans" /\ call.state = "ok"
    BY <1>0, <2>1 DEF NewCalls
  <2>3. newNet' = [newNet EXCEPT ![i] = call]
    BY <1>0, <1>12, SeqFacts DEF ListPlans
  <2> HIDE DEF call
  <2>4. /\ newNet' \in Seq(NewCalls) /\ DOMAIN newNet' = DOMAIN newNet
        /\ newNet'[i] = call /\ \A j \in DOMAIN newNet \ {i} : newNet'[j] = newNet[j]
    BY <1>0, <2>2, <2>3, ExceptFacts
  <2>5. NewTypes'
    BY <2>1, <2>4 DEF NewInv, NewTypes
  <2>6. OneCreation' /\ OnlyCreationsChecked'
    BY <2>1, <2>2, <2>4 DEF NewInv, OneCreation, OnlyCreationsChecked
  <2>7. BatchesExcused'
    BY <2>1, <2>2, <2>4 DEF NewInv, BatchesExcused, Excused
  <2>. QED BY <2>5, <2>6, <2>7 DEF NewInv
<1>13. ASSUME NEW i \in DOMAIN newNet, NewAnswer(i) PROVE NewInv'
  <2> DEFINE r == RemoveAt(newNet, i)
  <2>1. /\ r \in Seq(NewCalls)
        /\ \A k \in DOMAIN r : Before(i, k) \in DOMAIN newNet \ {i} /\ r[k] = newNet[Before(i, k)]
        /\ \A k, m \in DOMAIN r : Before(i, k) = Before(i, m) => k = m
        /\ \A j \in DOMAIN newNet \ {i} : \E k \in DOMAIN r : Before(i, k) = j
    BY <1>0, OthersStay
  <2> HIDE DEF r
  <2>2. newNet' = r /\ UNCHANGED <<newStock, newBatches>>
    BY <1>13 DEF NewAnswer, r
  <2>3. OnlyCreationsChecked'
    BY <2>1, <2>2 DEF NewInv, OnlyCreationsChecked
  <2>4. ASSUME NEW ok \in BOOLEAN, PlansAnswered(i, ok) PROVE NewInv'
    <3>1. /\ newForm' \in NewForms /\ newForm'.loading = newForm.loading
          /\ newForm'.made = newForm.made /\ UNCHANGED newTally /\ newNet[i].op = "plans"
      BY <1>0, <2>4 DEF PlansAnswered, NewForms, NewCalls
    <3>2. NewTypes' /\ OneCreation'
      BY <2>1, <2>2, <3>1 DEF NewInv, NewTypes, OneCreation
    <3>3. BatchesExcused'
      BY <2>1, <2>2, <3>1 DEF NewInv, BatchesExcused, Excused
    <3>. QED BY <2>3, <3>2, <3>3 DEF NewInv
  <2>5. ASSUME NEW ok \in BOOLEAN, ok => newNet[i].state = "ok", CreateAnswered(i, ok) PROVE NewInv'
    <3>1. newNet[i].op = "create" /\ newForm.loading
      BY <2>5 DEF CreateAnswered, NewInv, OneCreation
    <3>2. /\ newForm' \in NewForms /\ ~newForm'.loading /\ newForm'.made = (ok \/ newForm.made)
      BY <1>0, <2>5 DEF CreateAnswered, NewForms
    <3>3. \A k \in DOMAIN r : r[k].op # "create"
      BY <2>1, <3>1 DEF NewInv, OneCreation
    <3>4. /\ newTally' \in [sent: Nat, lost: Nat, again: Nat]
          /\ Excused' = IF ~ok /\ newNet[i].state = "ok" THEN Excused + 1 ELSE Excused
      <4>1. newTally.sent \in Nat /\ newTally.lost \in Nat /\ newTally.again \in Nat
        BY <1>0
      <4>2. newTally' = [sent |-> newTally.sent, again |-> newTally.again,
                         lost |-> IF ~ok /\ newNet[i].state = "ok" THEN newTally.lost + 1
                                                                   ELSE newTally.lost]
        BY <1>0, <2>5 DEF CreateAnswered
      <4>. QED BY <4>1, <4>2 DEF Excused
    <3>5. \/ newBatches <= Excused
          \/ newBatches <= 1 + Excused /\ newNet[i].state = "ok"
      BY <3>1 DEF NewInv, BatchesExcused, OneCreation
    <3>6. BatchesExcused'
      BY <1>0, <2>2, <2>5, <3>2, <3>4, <3>5 DEF BatchesExcused
    <3>7. NewTypes' /\ OneCreation'
      BY <2>1, <2>2, <3>2, <3>3, <3>4 DEF NewInv, NewTypes, OneCreation
    <3>. QED BY <2>3, <3>6, <3>7 DEF NewInv
  <2>. QED BY <1>13, <2>4, <2>5 DEF NewAnswer
<1>14. CASE UNCHANGED newVars
  BY <1>14 DEF newVars, NewInv, NewTypes, OneCreation, OnlyCreationsChecked, BatchesExcused, Excused
<1>. QED
  BY <1>2, <1>3, <1>4, <1>5, <1>6, <1>7, <1>8, <1>9, <1>10, <1>11, <1>12, <1>13, <1>14
     DEF BatchNewNext

\* The invariant of the form holds throughout.
THEOREM NewBatchInvariant == ClientSpec => []NewInv
<1>1. ClientInit => NewInv
  BY NewBegins DEF ClientInit
<1>2. [ClientNext]_clientVars => [BatchNewNext]_newVars
  BY DEF ClientNext, clientVars, newVars, But
<1>. QED
  BY <1>1, <1>2, NewStep, PTL DEF ClientSpec

\* One form makes one batch, for any number of submissions, unless an answer was lost
\* or the button was pressed again after the success.
THEOREM FormsMakeOneBatch == ClientSpec => []OneBatchPerForm
<1>1. NewInv => OneBatchPerForm
  <2> SUFFICES ASSUME NewInv PROVE OneBatchPerForm
    OBVIOUS
  <2>1. newBatches \in Nat /\ newTally.lost \in Nat /\ newTally.again \in Nat
    BY DEF NewInv, NewTypes
  <2>. QED BY <2>1 DEF NewInv, BatchesExcused, Excused, OneBatchPerForm
<1>. QED BY <1>1, NewBatchInvariant, PTL

-----------------------------------------------------------------------------
(* The table of credentials is blank for a reason.                         *)

CredFilters == CredStates \cup {"all"}
CredItems == (SUBSET CredIds) \cup {NoItems}
CredRanges == [total: Nat, page: Int, pages: Int]
CredLists == [state: CredFilters, page: Int, pageSize: CredSizes, items: CredItems,
              selected: SUBSET CredIds, paged: CredRanges]
CredMessages == [op: {"list", "delete", "upload"}, ids: SUBSET CredIds, state: CredFilters,
                 page: Int, size: CredSizes, step: {"sent", "listed", "counted"},
                 items: CredItems, found: SUBSET CredIds, total: Nat, raced: BOOLEAN]
CredOrigins == [state: CredFilters, page: Int, pageSize: CredSizes]

\* Of a list read so far: no rows were read only if the page asked for had none, so
\* that, unless rows changed before the count, the page is beyond the last one.
TellsTruth(call) ==
  call.items = NoItems =>
    /\ call.step = "listed" => PageOf(call.found, PageAsked(call), call.size) = {}
    /\ call.step = "counted" /\ ~call.raced =>
         call.total = 0 \/ call.page > PagesOf(call.total, call.size)
TrueCalls == {call \in CredMessages : TellsTruth(call)}

CredTypes == cred \in CredLists /\ credNet \in Seq(TrueCalls) /\ credRows \subseteq CredIds
TableInv == CredTypes /\ BlankIsExplained

\* An empty page is beyond the last one, of the rows it was cut from.
LEMMA EmptyPageIsBeyond ==
  ASSUME NEW all \in SUBSET CredIds, NEW call \in CredMessages,
         PageOf(all, PageAsked(call), call.size) = {}
  PROVE  Cardinality(all) = 0 \/ call.page > PagesOf(Cardinality(all), call.size)
<1>1. call.page \in Int /\ call.size \in Nat \ {0} /\ all \in SUBSET Int
  <2>1. CredIds \subseteq Int /\ CredSizes \subseteq Nat \ {0}
    BY CredentialsPageAssumption
  <2>2. call.page \in Int /\ call.size \in CredSizes
    BY DEF CredMessages
  <2>. QED BY <2>1, <2>2
<1>2. IsFiniteSet(all) /\ Cardinality(all) \in Nat
  BY CredentialsPageAssumption, FS_Subset, FS_CardinalityType
<1> DEFINE pages == PagesOf(Cardinality(all), call.size)
           at == PageAsked(call)
<1>3. at \in Int /\ 1 <= at /\ (at = call.page \/ at = 1)
  BY <1>1 DEF PageAsked
<1>4. pages \in Nat /\ (Cardinality(all) > 0 => pages >= 1)
  BY <1>1, <1>2, PagesPositive
<1>5. ~(at <= pages)
  BY <1>1, <1>2, <1>3, PageHasRows
<1> HIDE DEF pages, at
<1>6. Cardinality(all) = 0 \/ call.page > pages
  BY <1>1, <1>2, <1>3, <1>4, <1>5
<1>. QED BY <1>6 DEF pages

\* The two statements of the server keep a call what it was, and true.
LEMMA ServerTells ==
  ASSUME CredTypes, NEW i \in DOMAIN credNet, ListCredentials(i) \/ CountCredentials(i)
  PROVE  \E new \in TrueCalls : new.op = credNet[i].op /\ credNet' = [credNet EXCEPT ![i] = new]
<1> DEFINE call == credNet[i]
           all == MatchingCreds(call.state)
           rows == PageOf(all, PageAsked(call), call.size)
           items == IF rows = {} THEN NoItems ELSE rows
           total == Cardinality(all)
<1>1. call \in CredMessages /\ TellsTruth(call)
  <2>1. call \in TrueCalls
    BY SeqFacts DEF CredTypes
  <2>. QED BY <2>1 DEF TrueCalls
<1>2. all \in SUBSET CredIds
  BY DEF MatchingCreds, CredTypes
<1>3. total \in Nat
  <2> HIDE DEF all
  <2>. QED BY <1>2, CredentialsPageAssumption, FS_Subset, FS_CardinalityType
<1>4. items \in CredItems /\ (items = NoItems => rows = {})
  <2>1. rows \in SUBSET CredIds
    BY <1>2 DEF PageOf
  <2>2. -1 \notin CredIds
    BY CredentialsPageAssumption
  <2> HIDE DEF rows
  <2>. QED BY <2>1, <2>2 DEF CredItems, NoItems
<1>5. CASE ListCredentials(i)
  <2> DEFINE new == [call EXCEPT !.step = "listed", !.found = all, !.items = items]
  <2>1. credNet' = [credNet EXCEPT ![i] = new]
    BY <1>5 DEF ListCredentials
  <2> HIDE DEF items, all
  <2>2. /\ new \in CredMessages /\ new.op = call.op /\ new.step = "listed"
        /\ new.items = items /\ new.found = all /\ new.page = call.page /\ new.size = call.size
    BY <1>1, <1>2, <1>4 DEF CredMessages
  <2> HIDE DEF new
  <2>3. PageAsked(new) = PageAsked(call)
    BY <2>2 DEF PageAsked
  <2>4. TellsTruth(new)
    BY <1>4, <2>2, <2>3 DEF TellsTruth
  <2>. QED BY <2>1, <2>2, <2>4 DEF TrueCalls
<1>6. CASE CountCredentials(i)
  <2> DEFINE raced == (all # call.found)
             new == [call EXCEPT !.step = "counted", !.total = total, !.found = {}, !.raced = raced]
  <2>1. credNet' = [credNet EXCEPT ![i] = new] /\ call.step = "listed"
    BY <1>6 DEF CountCredentials
  <2>2. raced \in BOOLEAN
    OBVIOUS
  <2> HIDE DEF total, all, raced
  <2>3. /\ new \in CredMessages /\ new.op = call.op /\ new.step = "counted" /\ new.raced = raced
        /\ new.items = call.items /\ new.total = total /\ new.page = call.page /\ new.size = call.size
    BY <1>1, <1>3, <2>2 DEF CredMessages
  <2> HIDE DEF new
  <2>4. ASSUME call.items = NoItems, ~raced PROVE total = 0 \/ call.page > PagesOf(total, call.size)
    <3>1. PageOf(all, PageAsked(call), call.size) = {}
      BY <1>1, <2>1, <2>4 DEF TellsTruth, raced
    <3>. QED BY <1>1, <1>2, <3>1, EmptyPageIsBeyond DEF total
  <2>5. TellsTruth(new)
    BY <2>3, <2>4 DEF TellsTruth
  <2>. QED BY <2>1, <2>3, <2>5 DEF TrueCalls
<1>. QED BY <1>5, <1>6

\* A call that is sent is true.
LEMMA CredCallType ==
  ASSUME NEW op \in {"list", "delete", "upload"}, NEW ids \in SUBSET CredIds,
         NEW from, from.state \in CredFilters, from.page \in Int, from.pageSize \in CredSizes
  PROVE  CredCall(op, ids, from) \in TrueCalls /\ CredCall(op, ids, from).op = op
<1> DEFINE new == CredCall(op, ids, from)
<1>1. new \in CredMessages /\ new.step = "sent" /\ new.op = op
  BY DEF CredCall, CredMessages, CredItems
<1> HIDE DEF new
<1>2. new \in TrueCalls
  BY <1>1 DEF TrueCalls, TellsTruth
<1>. QED BY <1>1, <1>2 DEF new

\* At first the list is loading.
LEMMA TableBegins == CredentialsInit => TableInv
<1> SUFFICES ASSUME CredentialsInit PROVE TableInv
  OBVIOUS
<1> DEFINE size == CHOOSE s \in CredSizes : TRUE
<1>1. size \in CredSizes
  BY CredentialsPageAssumption
<1> HIDE DEF size
<1> DEFINE first == [state |-> "all", page |-> 1, pageSize |-> size, items |-> NoItems,
                     selected |-> {}, paged |-> [total |-> 0, page |-> 1, pages |-> 1]]
           call == CredCall("list", {}, first)
<1>2. cred = first /\ credNet = <<call>>
  BY DEF CredentialsInit, size
<1>3. first \in CredLists
  BY <1>1 DEF CredLists, CredFilters, CredItems, CredRanges
<1>4. call \in TrueCalls /\ call.op = "list"
  BY <1>1, CredCallType DEF CredFilters
<1> HIDE DEF first, call
<1>5. credNet \in Seq(TrueCalls) /\ 1 \in DOMAIN credNet /\ credNet[1] = call
  BY <1>2, <1>4
<1>6. BlankIsExplained
  BY <1>4, <1>5 DEF BlankIsExplained
<1>7. credRows \subseteq CredIds
  BY CredentialsPageAssumption DEF CredentialsInit
<1>. QED BY <1>2, <1>3, <1>5, <1>6, <1>7 DEF TableInv, CredTypes

\* load keeps to the types, and a list is on its way after it.  LoadIfChanged loads or
\* leaves the page chosen as it is.
LEMMA LoadFacts ==
  ASSUME NEW next \in CredLists, NEW net \in Seq(TrueCalls), NEW blank,
         NEW from \in CredOrigins \cup CredLists
  PROVE  /\ load(next, net, from) =>
              cred' \in CredLists /\ credNet' \in Seq(TrueCalls) /\ BlankIsExplained'
         /\ LoadIfChanged(next, net, blank) =>
              /\ cred' \in CredLists /\ credNet' \in Seq(TrueCalls)
              /\ \/ BlankIsExplained'
                 \/ cred' = next /\ credNet' = net /\ credBlank' = blank /\ next.page = cred.page
<1>1. ASSUME NEW o \in CredOrigins \cup CredLists, load(next, net, o)
      PROVE  cred' \in CredLists /\ credNet' \in Seq(TrueCalls) /\ BlankIsExplained'
  <2> DEFINE call == CredCall("list", {}, o)
  <2>1. call \in TrueCalls /\ call.op = "list"
    BY CredCallType DEF CredLists, CredOrigins
  <2>2. cred' = [next EXCEPT !.items = NoItems] /\ credNet' = Append(net, call)
    BY <1>1 DEF load
  <2> HIDE DEF call
  <2>3. cred' \in CredLists
    BY <2>2 DEF CredLists, CredItems
  <2>4. /\ credNet' \in Seq(TrueCalls) /\ Len(net) + 1 \in DOMAIN credNet'
        /\ credNet'[Len(net) + 1] = call
    BY <2>1, <2>2, AppendFacts
  <2>. QED BY <2>1, <2>3, <2>4 DEF BlankIsExplained
<1>2. CASE cred' = next /\ credNet' = net /\ credBlank' = blank /\ next.page = cred.page
  BY <1>2, <1>1
<1>. QED BY <1>1, <1>2 DEF LoadIfChanged

\* Every click, answer and failure leaves the table blank for a reason only.
LEMMA TableStep == TableInv /\ [CredentialsNext]_credVars => TableInv'
<1> SUFFICES ASSUME TableInv, [CredentialsNext]_credVars PROVE TableInv'
  OBVIOUS
<1>0. cred \in CredLists /\ credNet \in Seq(TrueCalls) /\ credRows \subseteq CredIds /\ BlankIsExplained
  BY DEF TableInv, CredTypes
<1>1. /\ cred.state \in CredFilters /\ cred.page \in Int /\ cred.pageSize \in CredSizes
      /\ cred.items \in CredItems /\ cred.selected \in SUBSET CredIds /\ cred.paged.page \in Int
  BY <1>0 DEF CredLists, CredRanges
<1>2. ASSUME NEW next \in CredLists, next.items = cred.items,
             LoadIfChanged(next, credNet, credBlank), UNCHANGED credRows
      PROVE  TableInv'
  <2>1. /\ cred' \in CredLists /\ credNet' \in Seq(TrueCalls)
        /\ BlankIsExplained' \/ (cred' = next /\ credNet' = credNet /\ credBlank' = credBlank)
    BY <1>0, <1>2, LoadFacts
  <2>2. BlankIsExplained'
    BY <1>0, <1>2, <2>1 DEF BlankIsExplained, CredShown
  <2>. QED BY <1>0, <1>2, <2>1, <2>2 DEF TableInv, CredTypes
<1>3. ASSUME NEW state \in CredStates, ChooseState(state) PROVE TableInv'
  <2> DEFINE first == 1
             next == [cred EXCEPT !.state = state, !.page = first]
  <2>1. first \in Int /\ LoadIfChanged(next, credNet, credBlank) /\ UNCHANGED credRows
    BY <1>3 DEF ChooseState
  <2> HIDE DEF first
  <2>2. next \in CredLists /\ next.items = cred.items
    BY <1>0, <2>1 DEF CredLists, CredFilters
  <2> HIDE DEF next
  <2>. QED BY <1>2, <2>1, <2>2
<1>4. ASSUME NEW size \in CredSizes, ChooseSize(size) PROVE TableInv'
  <2> DEFINE first == 1
             next == [cred EXCEPT !.pageSize = size, !.page = first]
  <2>1. first \in Int /\ LoadIfChanged(next, credNet, credBlank) /\ UNCHANGED credRows
    BY <1>4 DEF ChooseSize
  <2> HIDE DEF first
  <2>2. next \in CredLists /\ next.items = cred.items
    BY <1>0, <2>1 DEF CredLists, CredFilters
  <2> HIDE DEF next
  <2>. QED BY <1>2, <2>1, <2>2
<1>5. \A page \in Int : [cred EXCEPT !.page = page] \in CredLists /\ [cred EXCEPT !.page = page].items = cred.items
                        /\ [cred EXCEPT !.page = page].page = page
  BY <1>0 DEF CredLists
<1>6. CASE TurnPage
  <2>1. cred.page - 1 \in Int /\ cred.page + 1 \in Int
    BY <1>1
  <2>2. /\ \/ LoadIfChanged([cred EXCEPT !.page = cred.page - 1], credNet, credBlank)
           \/ LoadIfChanged([cred EXCEPT !.page = cred.page + 1], credNet, credBlank)
        /\ UNCHANGED credRows
    BY <1>6 DEF TurnPage
  <2>. QED BY <1>2, <1>5, <2>1, <2>2
<1>7. ASSUME NEW page \in 1 .. Cardinality(CredIds), GoToPage(page) PROVE TableInv'
  <2>1. page \in Int
    OBVIOUS
  <2>. QED BY <1>2, <1>5, <1>7, <2>1 DEF GoToPage
<1>8. ASSUME NEW selected \in SUBSET CredIds, cred' = [cred EXCEPT !.selected = selected],
             UNCHANGED <<credNet, credRows, credBlank>>
      PROVE  TableInv'
  <2>1. cred' \in CredLists /\ cred'.items = cred.items
    BY <1>0, <1>8 DEF CredLists
  <2>. QED BY <1>0, <1>8, <2>1 DEF TableInv, CredTypes, BlankIsExplained, CredShown
<1>9. ASSUME NEW id \in CredIds, toggleSelect(id) PROVE TableInv'
  <2> DEFINE selected == IF id \in cred.selected THEN cred.selected \ {id} ELSE cred.selected \cup {id}
  <2>1. cred' = [cred EXCEPT !.selected = selected] /\ UNCHANGED <<credNet, credRows, credBlank>>
    BY <1>9 DEF toggleSelect
  <2>2. selected \in SUBSET CredIds
    BY <1>1
  <2>. QED BY <1>8, <2>1, <2>2
<1>10. CASE toggleSelectAll
  <2> DEFINE selected == IF Cardinality(cred.selected) = Cardinality(cred.items) THEN {} ELSE cred.items
  <2>1. cred' = [cred EXCEPT !.selected = selected] /\ UNCHANGED <<credNet, credRows, credBlank>>
    BY <1>10 DEF toggleSelectAll
  <2>2. selected \in SUBSET CredIds
    BY <1>1, <1>10 DEF toggleSelectAll, CredShown, CredItems
  <2>. QED BY <1>8, <2>1, <2>2
<1>11. ASSUME NEW op \in {"delete", "upload"}, NEW ids \in SUBSET CredIds,
              credNet' = Append(credNet, CredCall(op, ids, cred)), UNCHANGED <<cred, credRows, credBlank>>
       PROVE  TableInv'
  <2>1. CredCall(op, ids, cred) \in TrueCalls
    BY <1>1, CredCallType
  <2>2. /\ credNet' \in Seq(TrueCalls) /\ DOMAIN credNet \subseteq DOMAIN credNet'
        /\ \A k \in DOMAIN credNet : credNet'[k] = credNet[k]
    BY <1>0, <1>11, <2>1, AppendFacts
  <2>. QED BY <1>0, <1>11, <2>2 DEF TableInv, CredTypes, BlankIsExplained, CredShown
<1>12. ASSUME (\E id \in CredIds : handleDelete(id)) \/ handleBatchDelete PROVE TableInv'
  BY <1>1, <1>11, <1>12 DEF handleDelete, handleBatchDelete
<1>13. ASSUME UNCHANGED <<cred, credNet, credBlank>>, credRows' \subseteq CredIds PROVE TableInv'
  BY <1>0, <1>13 DEF TableInv, CredTypes, BlankIsExplained, CredShown
<1>14. ASSUME NEW id \in CredIds, ElsewhereChanged(id) PROVE TableInv'
  BY <1>0, <1>13, <1>14 DEF ElsewhereChanged
<1>15. CASE stageUpload \/ closeUploadDialog \/ PlansArrive \/ RetryPlans
  BY <1>0, <1>13, <1>15 DEF stageUpload, closeUploadDialog, PlansArrive, RetryPlans
<1>16. CASE handleUpload
  BY <1>11, <1>16 DEF handleUpload
<1>17. ASSUME NEW i \in DOMAIN credNet, CredSettles(i) PROVE TableInv'
  <2> DEFINE r == RemoveAt(credNet, i)
             call == credNet[i]
  <2>1. /\ r \in Seq(TrueCalls) /\ call \in TrueCalls
        /\ \A j \in DOMAIN credNet \ {i} : \E k \in DOMAIN r : r[k] = credNet[j]
    <3>1. \A j \in DOMAIN credNet \ {i} : \E k \in DOMAIN r : Before(i, k) = j
      BY <1>0, OthersStay
    <3>2. \A k \in DOMAIN r : r[k] = credNet[Before(i, k)]
      BY <1>0, OthersStay
    <3>. QED BY <1>0, <3>1, <3>2, OthersStay, SeqFacts
  <2>2. /\ call.op \in {"list", "delete", "upload"} /\ call.state \in CredFilters
        /\ call.page \in Int /\ call.size \in CredSizes /\ call.ids \in SUBSET CredIds
        /\ call.items \in CredItems /\ call.total \in Nat /\ TellsTruth(call)
    BY <2>1 DEF CredMessages, TrueCalls
  <2>3. \A rows \in RowsAfter(call) : rows \subseteq CredIds
    BY <1>0, <2>2 DEF RowsAfter, FreshIds
  <2> HIDE DEF r
  <2>4. CASE ListArrives(i)
    <3> DEFINE answer == AnswerTo(call)
    <3>1. /\ answer.items = call.items /\ answer.total = call.total
          /\ answer.page = PageAsked(call) /\ answer.pages = PagesOf(call.total, call.size)
      BY DEF AnswerTo
    <3>2. answer.page \in Int /\ answer.pages \in Nat
      <4>1. call.size \in Nat \ {0}
        BY <2>2, CredentialsPageAssumption
      <4>. QED BY <2>2, <3>1, <4>1, PagesPositive DEF PageAsked
    <3>3. UNCHANGED credRows /\ call.step = "counted"
      BY <2>4 DEF ListArrives
    <3>4. CASE BeyondLast(call.page, answer) /\ LoadIfChanged([cred EXCEPT !.page = answer.pages], r, Reason(call))
      <4> DEFINE last == [cred EXCEPT !.page = answer.pages]
                 reason == Reason(call)
      <4>1. last \in CredLists /\ last.page = answer.pages
        BY <1>5, <3>2
      <4>2. LoadIfChanged(last, r, reason)
        BY <3>4
      <4>3. call.page > answer.pages
        BY <3>4 DEF BeyondLast
      <4> HIDE DEF last, answer
      <4>4. answer.pages = cred.page => reason = "stale"
        BY <1>1, <2>2, <3>2, <4>3 DEF Reason, IsChosen
      <4> HIDE DEF reason
      <4>5. /\ cred' \in CredLists /\ credNet' \in Seq(TrueCalls)
            /\ BlankIsExplained' \/ (credBlank' = reason /\ last.page = cred.page)
        BY <1>0, <2>1, <4>1, <4>2, LoadFacts
      <4>6. BlankIsExplained'
        BY <4>1, <4>4, <4>5 DEF BlankIsExplained
      <4>. QED BY <1>0, <3>3, <4>5, <4>6 DEF TableInv, CredTypes
    <3>5. CASE /\ ~BeyondLast(call.page, answer)
               /\ cred' = ShowList(answer, cred)
               /\ credNet' = r
               /\ credBlank' = IF answer.items # NoItems THEN "none" ELSE Reason(call)
      <4>1. ASSUME call.items = NoItems PROVE Reason(call) \in {"stale", "raced", "empty"}
        <5>1. call.raced \/ call.total = 0 \/ call.page > PagesOf(call.total, call.size)
          BY <2>2, <3>3, <4>1 DEF TellsTruth
        <5>2. call.total = 0 \/ ~(call.page > PagesOf(call.total, call.size))
          BY <2>2, <3>1, <3>5 DEF BeyondLast
        <5>. QED BY <5>1, <5>2 DEF Reason
      <4>2. /\ answer.items \in CredItems /\ answer.total \in Nat /\ answer.page \in Int
            /\ answer.pages \in Int /\ answer.items = call.items
        BY <2>2, <3>1, <3>2
      <4> HIDE DEF answer
      <4>3. cred' \in CredLists /\ cred'.items = call.items
        <5> HIDE DEF call
        <5>. QED BY <1>0, <3>5, <4>2 DEF ShowList, CredLists, CredRanges
      <4>4. BlankIsExplained'
        BY <3>1, <3>5, <4>1, <4>3 DEF BlankIsExplained, CredShown
      <4>. QED BY <1>0, <2>1, <3>3, <3>5, <4>3, <4>4 DEF TableInv, CredTypes
    <3>. QED BY <2>4, <3>4, <3>5 DEF ListArrives, r
  <2>5. CASE ChangeArrives(i)
    <3> DEFINE from == [state |-> call.state, page |-> call.page, pageSize |-> call.size]
    <3>1. load(cred, r, from) /\ credRows' \in RowsAfter(call)
      BY <2>5 DEF ChangeArrives, r
    <3>2. from \in CredOrigins
      BY <2>2 DEF CredOrigins
    <3> HIDE DEF from
    <3>3. cred' \in CredLists /\ credNet' \in Seq(TrueCalls) /\ BlankIsExplained'
      BY <1>0, <2>1, <3>1, <3>2, LoadFacts
    <3>. QED BY <1>0, <2>3, <3>1, <3>3 DEF TableInv, CredTypes
  <2>6. CASE CredFails(i)
    <3>1. /\ credNet' = r /\ credRows' \in {credRows} \cup RowsAfter(call) /\ UNCHANGED cred
          /\ credBlank' = IF call.op = "list" THEN "failed" ELSE credBlank
      BY <2>6 DEF CredFails, r
    <3>2. BlankIsExplained'
      BY <1>0, <2>1, <3>1 DEF BlankIsExplained, CredShown
    <3>. QED BY <1>0, <2>1, <2>3, <3>1, <3>2 DEF TableInv, CredTypes
  <2>7. CASE ListCredentials(i) \/ CountCredentials(i)
    <3>1. PICK new \in TrueCalls : new.op = call.op /\ credNet' = [credNet EXCEPT ![i] = new]
      BY <2>7, ServerTells DEF TableInv
    <3>2. /\ credNet' \in Seq(TrueCalls) /\ DOMAIN credNet' = DOMAIN credNet
          /\ \A k \in DOMAIN credNet : credNet'[k].op = credNet[k].op
      BY <1>0, <3>1, ExceptFacts
    <3>3. UNCHANGED <<cred, credRows, credBlank>>
      BY <2>7 DEF ListCredentials, CountCredentials
    <3>. QED BY <1>0, <3>2, <3>3 DEF TableInv, CredTypes, BlankIsExplained, CredShown
  <2>. QED BY <1>17, <2>4, <2>5, <2>6, <2>7 DEF CredSettles
<1>18. CASE UNCHANGED credVars
  BY <1>0, <1>13, <1>18 DEF credVars
<1>. QED
  BY <1>3, <1>4, <1>6, <1>7, <1>9, <1>10, <1>12, <1>14, <1>15, <1>16, <1>17, <1>18
     DEF CredentialsNext

\* The state of the credentials page keeps to its types, its calls tell what the server
\* read for them, and its table is blank for a reason only.
THEOREM TableInvariant == ClientSpec => []TableInv
<1>1. ClientInit => TableInv
  BY TableBegins DEF ClientInit
<1>2. [ClientNext]_clientVars => [CredentialsNext]_credVars
  BY DEF ClientNext, clientVars, credVars, But
<1>. QED
  BY <1>1, <1>2, TableStep, PTL DEF ClientSpec

\* A table that stays blank is explained, for any number of credentials, any page sizes
\* and any order of calls, statements and changes made elsewhere: when the rows stay the
\* same between the two statements and the answer is for the page chosen, only a list
\* without any row leaves the table blank.
THEOREM BlanksAreExplained == ClientSpec => []BlankIsExplained
<1>1. TableInv => BlankIsExplained
  BY DEF TableInv
<1>. QED BY <1>1, TableInvariant, PTL

-----------------------------------------------------------------------------
(* The selection and the upload dialog of the credentials.                 *)

\* The fields of the list's state, and of the upload dialog's.
IsCredList(c) == c \in [state: {c.state}, page: {c.page}, pageSize: {c.pageSize},
                        items: {c.items}, selected: {c.selected}, paged: {c.paged}]
UploadDialogs == [plans: {"loading", "ready", "error"}, pending: BOOLEAN, uploading: BOOLEAN]

IsUpload(i) == credNet[i].op = "upload"

\* One upload at a time is on its way.
OneUpload == \A i, j \in DOMAIN credNet : IsUpload(i) /\ IsUpload(j) => i = j

CredNetInv == OneUpload /\ UploadKeepsItsDialog
CredInv ==
  /\ IsCredList(cred) /\ SelectionIsVisible
  /\ credUpload \in UploadDialogs /\ CredNetInv

\* At first the list is loading and nothing is selected.
LEMMA CredBegins == CredentialsInit => CredInv
<1> SUFFICES ASSUME CredentialsInit PROVE CredInv
  OBVIOUS
<1>1. PICK call : credNet = <<call>> /\ call.op = "list"
  BY DEF CredentialsInit, CredCall
<1>2. credNet \in Seq({call}) /\ \A i \in DOMAIN credNet : credNet[i] = call
  BY <1>1
<1>3. CredNetInv
  BY <1>1, <1>2 DEF CredNetInv, OneUpload, IsUpload, UploadKeepsItsDialog
<1>4. IsCredList(cred) /\ cred.items = NoItems
  BY DEF CredentialsInit, IsCredList
<1>5. credUpload \in UploadDialogs
  BY DEF CredentialsInit, UploadDialogs
<1>. QED BY <1>3, <1>4, <1>5 DEF CredInv, SelectionIsVisible, CredShown

\* Every click, answer and failure keeps the selection among the rows, and the
\* dialog with its upload.
LEMMA CredStep == CredTypes /\ CredInv /\ [CredentialsNext]_credVars => CredInv'
<1> SUFFICES ASSUME CredTypes, CredInv, [CredentialsNext]_credVars PROVE CredInv'
  OBVIOUS
<1> DEFINE Kept == credUpload' \in UploadDialogs /\ credUpload'.uploading = credUpload.uploading
                   /\ credUpload'.pending = credUpload.pending
<1>0. /\ IsCredList(cred) /\ credUpload \in UploadDialogs /\ CredNetInv /\ SelectionIsVisible
      /\ credNet \in Seq(TrueCalls)
  BY DEF CredInv, CredTypes
\* What is shown.
<1>1. ASSUME IsCredList(cred'), cred'.items # NoItems => cred'.selected \subseteq cred'.items
      PROVE  IsCredList(cred)' /\ SelectionIsVisible'
  BY <1>1 DEF IsCredList, SelectionIsVisible, CredShown, Rows
<1>2. ASSUME UNCHANGED cred PROVE IsCredList(cred)' /\ SelectionIsVisible'
  BY <1>0, <1>2 DEF SelectionIsVisible, CredShown, Rows
\* What is on its way.
<1>3. ASSUME UNCHANGED credNet, Kept PROVE CredNetInv'
  BY <1>0, <1>3 DEF CredNetInv, OneUpload, IsUpload, UploadKeepsItsDialog
<1>4. ASSUME NEW S, NEW s \in Seq(S), NEW call, call.op \in {"list", "delete"}, credNet' = Append(s, call),
             \A i, j \in DOMAIN s : s[i].op = "upload" /\ s[j].op = "upload" => i = j,
             (\E i \in DOMAIN s : s[i].op = "upload") => credUpload'.uploading /\ credUpload'.pending
      PROVE  CredNetInv'
  <2> DEFINE T == S \cup {call}
  <2>1. s \in Seq(T) /\ call \in T
    BY SeqMonotonic
  <2> HIDE DEF T
  <2>2. /\ credNet' \in Seq(T) /\ DOMAIN credNet' = DOMAIN s \cup {Len(s) + 1}
        /\ credNet'[Len(s) + 1] = call /\ \A k \in DOMAIN s : credNet'[k] = s[k]
    BY <1>4, <2>1, AppendFacts
  <2>3. \A k \in DOMAIN credNet' : IsUpload(k)' => k \in DOMAIN s /\ s[k].op = "upload"
    BY <1>4, <2>2 DEF IsUpload
  <2>. QED BY <1>4, <2>2, <2>3 DEF CredNetInv, OneUpload, IsUpload, UploadKeepsItsDialog
<1>5. ASSUME NEW call, call.op \in {"list", "delete"}, credNet' = Append(credNet, call), Kept
      PROVE  CredNetInv'
  BY <1>0, <1>4, <1>5 DEF CredNetInv, OneUpload, IsUpload, UploadKeepsItsDialog
\* LoadIfChanged, from a list of calls without one that was answered or failed, or from all of them.
<1>6. ASSUME NEW next, IsCredList(next), next.items = cred.items, next.selected = cred.selected,
             NEW net, NEW blank, LoadIfChanged(next, net, blank)
      PROVE  /\ IsCredList(cred)' /\ SelectionIsVisible'
             /\ credNet' = net \/ \E call : call.op = "list" /\ credNet' = Append(net, call)
  <2>1. CASE cred' = next /\ credNet' = net
    <3>1. IsCredList(cred') /\ cred'.items = cred.items /\ cred'.selected = cred.selected
      BY <1>6, <2>1
    <3>. QED BY <1>0, <1>1, <2>1, <3>1 DEF SelectionIsVisible, CredShown, Rows
  <2>2. CASE load(next, net, next)
    <3>1. IsCredList(cred') /\ cred'.items = NoItems
      BY <1>6, <2>2 DEF load, IsCredList
    <3>2. CredCall("list", {}, next).op = "list"
      BY DEF CredCall
    <3>. QED BY <1>1, <2>2, <3>1, <3>2 DEF load
  <2>. QED BY <1>6, <2>1, <2>2 DEF LoadIfChanged
<1>7. ASSUME NEW next, IsCredList(next), next.items = cred.items, next.selected = cred.selected,
             LoadIfChanged(next, credNet, credBlank), UNCHANGED credUpload
      PROVE  CredInv'
  <2>1. Kept
    BY <1>0, <1>7
  <2>. QED BY <1>3, <1>5, <1>6, <1>7, <2>1 DEF CredInv
<1>8. ASSUME NEW state, ChooseState(state) PROVE CredInv'
  <2> DEFINE next == [cred EXCEPT !.state = state, !.page = 1]
  <2>1. IsCredList(next) /\ next.items = cred.items /\ next.selected = cred.selected
    BY <1>0 DEF IsCredList
  <2> HIDE DEF next
  <2>2. LoadIfChanged(next, credNet, credBlank) /\ UNCHANGED credUpload
    BY <1>8 DEF ChooseState, next
  <2>. QED BY <1>7, <2>1, <2>2
<1>9. ASSUME NEW size, ChooseSize(size) PROVE CredInv'
  <2> DEFINE next == [cred EXCEPT !.pageSize = size, !.page = 1]
  <2>1. IsCredList(next) /\ next.items = cred.items /\ next.selected = cred.selected
    BY <1>0 DEF IsCredList
  <2> HIDE DEF next
  <2>2. LoadIfChanged(next, credNet, credBlank) /\ UNCHANGED credUpload
    BY <1>9 DEF ChooseSize, next
  <2>. QED BY <1>7, <2>1, <2>2
<1>10. ASSUME NEW page, LoadIfChanged([cred EXCEPT !.page = page], credNet, credBlank), UNCHANGED credUpload
       PROVE  CredInv'
  <2> DEFINE next == [cred EXCEPT !.page = page]
  <2>1. IsCredList(next) /\ next.items = cred.items /\ next.selected = cred.selected
    BY <1>0 DEF IsCredList
  <2> HIDE DEF next
  <2>2. LoadIfChanged(next, credNet, credBlank)
    BY <1>10 DEF next
  <2>. QED BY <1>7, <1>10, <2>1, <2>2
<1>11. CASE TurnPage
  BY <1>10, <1>11 DEF TurnPage
<1>12. ASSUME NEW page, GoToPage(page) PROVE CredInv'
  BY <1>10, <1>12 DEF GoToPage
<1>13. ASSUME NEW selected, cred' = [cred EXCEPT !.selected = selected],
              CredShown => selected \subseteq cred.items, UNCHANGED <<credUpload, credNet>>
       PROVE  CredInv'
  <2>1. IsCredList(cred') /\ cred'.items = cred.items /\ cred'.selected = selected
    BY <1>0, <1>13 DEF IsCredList
  <2>. QED BY <1>0, <1>1, <1>3, <1>13, <2>1 DEF CredInv, CredShown
<1>14. ASSUME NEW id, toggleSelect(id) PROVE CredInv'
  <2> DEFINE selected == IF id \in cred.selected THEN cred.selected \ {id} ELSE cred.selected \cup {id}
  <2>1. cred' = [cred EXCEPT !.selected = selected] /\ UNCHANGED <<credUpload, credNet>>
    BY <1>14 DEF toggleSelect
  <2>2. CredShown => selected \subseteq cred.items
    BY <1>0, <1>14 DEF toggleSelect, SelectionIsVisible, Rows
  <2>. QED BY <1>13, <2>1, <2>2
<1>15. CASE toggleSelectAll
  <2> DEFINE selected == IF Cardinality(cred.selected) = Cardinality(cred.items) THEN {} ELSE cred.items
  <2>1. cred' = [cred EXCEPT !.selected = selected] /\ UNCHANGED <<credUpload, credNet>>
    BY <1>15 DEF toggleSelectAll
  <2>. QED BY <1>13, <2>1
<1>16. ASSUME (\E id \in CredIds : handleDelete(id)) \/ handleBatchDelete PROVE CredInv'
  <2>1. PICK call : call.op = "delete" /\ credNet' = Append(credNet, call)
    BY <1>16 DEF handleDelete, handleBatchDelete, CredCall
  <2>2. UNCHANGED <<cred, credUpload>>
    BY <1>16 DEF handleDelete, handleBatchDelete
  <2>. QED BY <1>0, <1>2, <1>5, <2>1, <2>2 DEF CredInv
<1>17. ASSUME NEW id, ElsewhereChanged(id) PROVE CredInv'
  BY <1>0, <1>2, <1>3, <1>17 DEF CredInv, ElsewhereChanged
<1>18. ASSUME ~credUpload.uploading, credUpload' \in UploadDialogs, UNCHANGED <<cred, credNet>>
       PROVE  CredInv'
  <2>1. \A i \in DOMAIN credNet : ~IsUpload(i)
    BY <1>0, <1>18 DEF CredNetInv, UploadKeepsItsDialog, IsUpload
  <2>2. CredNetInv'
    BY <1>0, <1>18, <2>1 DEF CredNetInv, OneUpload, IsUpload, UploadKeepsItsDialog
  <2>. QED BY <1>2, <1>18, <2>2 DEF CredInv
<1>19. CASE stageUpload \/ closeUploadDialog
  BY <1>0, <1>18, <1>19 DEF stageUpload, closeUploadDialog, UploadDialogs
<1>20. CASE handleUpload
  <2> DEFINE call == CredCall("upload", {}, cred)
             T == TrueCalls \cup {call}
  <2>1. /\ credUpload.pending /\ ~credUpload.uploading /\ UNCHANGED cred
        /\ credUpload' = [credUpload EXCEPT !.uploading = TRUE] /\ credNet' = Append(credNet, call)
    BY <1>20 DEF handleUpload
  <2>2. credUpload' \in UploadDialogs /\ credUpload'.uploading /\ credUpload'.pending
    BY <1>0, <2>1 DEF UploadDialogs
  <2>3. \A i \in DOMAIN credNet : ~IsUpload(i)
    BY <1>0, <2>1 DEF CredNetInv, UploadKeepsItsDialog, IsUpload
  <2>4. credNet \in Seq(T) /\ call \in T
    BY <1>0, SeqMonotonic
  <2> HIDE DEF T, call
  <2>5. /\ credNet' \in Seq(T) /\ DOMAIN credNet' = DOMAIN credNet \cup {Len(credNet) + 1}
        /\ \A k \in DOMAIN credNet : credNet'[k] = credNet[k]
    BY <2>1, <2>4, AppendFacts
  <2>6. \A k \in DOMAIN credNet' : IsUpload(k)' => k = Len(credNet) + 1
    BY <2>3, <2>5 DEF IsUpload
  <2>7. CredNetInv'
    BY <2>2, <2>5, <2>6 DEF CredNetInv, OneUpload, UploadKeepsItsDialog
  <2>. QED BY <1>2, <2>1, <2>2, <2>7 DEF CredInv
<1>21. CASE PlansArrive \/ RetryPlans
  <2>1. Kept /\ UNCHANGED <<cred, credNet>>
    BY <1>0, <1>21 DEF PlansArrive, RetryPlans, UploadDialogs
  <2>. QED BY <1>2, <1>3, <2>1 DEF CredInv
<1>22. ASSUME NEW i \in DOMAIN credNet, CredSettles(i) PROVE CredInv'
  <2> DEFINE r == RemoveAt(credNet, i)
  <2>1. /\ r \in Seq(TrueCalls)
        /\ \A k \in DOMAIN r : Before(i, k) \in DOMAIN credNet \ {i} /\ r[k] = credNet[Before(i, k)]
        /\ \A k, m \in DOMAIN r : Before(i, k) = Before(i, m) => k = m
    BY <1>0, OthersStay
  <2> HIDE DEF r
  <2>2. \A k, m \in DOMAIN r : r[k].op = "upload" /\ r[m].op = "upload" => k = m
    BY <1>0, <2>1 DEF CredNetInv, OneUpload, IsUpload
  <2>3. (\E k \in DOMAIN r : r[k].op = "upload") =>
          credUpload.uploading /\ credUpload.pending /\ credNet[i].op # "upload"
    BY <1>0, <2>1 DEF CredNetInv, OneUpload, IsUpload, UploadKeepsItsDialog
  <2>4. ASSUME credNet' = r \/ \E call : call.op = "list" /\ credNet' = Append(r, call),
               credNet[i].op = "upload" \/ Kept
        PROVE  CredNetInv'
    <3>1. (\E k \in DOMAIN r : r[k].op = "upload") => credUpload'.uploading /\ credUpload'.pending
      BY <2>3, <2>4
    <3>2. CASE credNet' = r
      BY <2>1, <2>2, <3>1, <3>2
        DEF CredNetInv, OneUpload, IsUpload, UploadKeepsItsDialog
    <3>3. ASSUME NEW call, call.op = "list", credNet' = Append(r, call) PROVE CredNetInv'
      BY <1>4, <2>1, <2>2, <3>1, <3>3
    <3>. QED BY <2>4, <3>2, <3>3
  <2>5. CASE ListArrives(i)
    <3> DEFINE call == credNet[i]
               answer == AnswerTo(call)
               last == [cred EXCEPT !.page = answer.pages]
    <3>1. Kept
      BY <1>0, <2>5 DEF ListArrives
    <3>2. CASE LoadIfChanged(last, r, Reason(call))
      <4>1. IsCredList(last) /\ last.items = cred.items /\ last.selected = cred.selected
        BY <1>0 DEF IsCredList
      <4> HIDE DEF last
      <4>. QED BY <1>6, <2>4, <3>1, <3>2, <4>1 DEF CredInv
    <3>3. CASE cred' = ShowList(answer, cred) /\ credNet' = r
      <4> HIDE DEF answer
      <4>1. IsCredList(cred') /\ cred'.selected = {}
        BY <1>0, <3>3 DEF IsCredList, ShowList
      <4>. QED BY <1>1, <2>4, <3>1, <3>3, <4>1 DEF CredInv
    <3>. QED BY <2>5, <3>2, <3>3 DEF ListArrives, r
  <2>6. CASE ChangeArrives(i)
    <3>1. PICK from : load(cred, r, from)
      BY <2>6 DEF ChangeArrives, r
    <3>2. IsCredList(cred') /\ cred'.items = NoItems
      BY <1>0, <3>1 DEF load, IsCredList
    <3>3. \E call : call.op = "list" /\ credNet' = Append(r, call)
      BY <3>1 DEF load, CredCall
    <3>4. credUpload' \in UploadDialogs /\ (credNet[i].op = "upload" \/ Kept)
      BY <1>0, <2>6 DEF ChangeArrives, UploadDialogs
    <3>. QED BY <1>1, <2>4, <3>2, <3>3, <3>4 DEF CredInv
  <2>7. CASE CredFails(i)
    <3>1. credNet' = r /\ UNCHANGED cred
      BY <2>7 DEF CredFails, r
    <3>2. credUpload' \in UploadDialogs /\ (credNet[i].op = "upload" \/ Kept)
      BY <1>0, <2>7 DEF CredFails, UploadDialogs
    <3>. QED BY <1>2, <2>4, <3>1, <3>2 DEF CredInv
  <2>8. CASE ListCredentials(i) \/ CountCredentials(i)
    <3>1. PICK new \in TrueCalls : new.op = credNet[i].op /\ credNet' = [credNet EXCEPT ![i] = new]
      BY <1>0, <2>8, ServerTells DEF CredTypes
    <3>2. DOMAIN credNet' = DOMAIN credNet /\ \A k \in DOMAIN credNet : credNet'[k].op = credNet[k].op
      BY <1>0, <3>1, ExceptFacts
    <3>3. UNCHANGED <<cred, credUpload>>
      BY <2>8 DEF ListCredentials, CountCredentials
    <3>4. CredNetInv'
      BY <1>0, <3>2, <3>3 DEF CredNetInv, OneUpload, IsUpload, UploadKeepsItsDialog
    <3>. QED BY <1>0, <1>2, <3>3, <3>4 DEF CredInv
  <2>. QED BY <1>22, <2>5, <2>6, <2>7, <2>8 DEF CredSettles
<1>23. CASE UNCHANGED credVars
  BY <1>0, <1>2, <1>3, <1>23 DEF CredInv, credVars
<1>. QED
  BY <1>8, <1>9, <1>11, <1>12, <1>14, <1>15, <1>16, <1>17, <1>19, <1>20, <1>21, <1>22, <1>23
    DEF CredentialsNext

\* The invariant of the credentials page holds throughout.
THEOREM CredentialsInvariant == ClientSpec => []CredInv
<1>1. ClientInit => CredInv
  BY CredBegins DEF ClientInit
<1>2. [ClientNext]_clientVars => [CredentialsNext]_credVars
  BY DEF ClientNext, clientVars, credVars, But
<1>3. TableInv => CredTypes
  BY DEF TableInv
<1>. QED
  BY <1>1, <1>2, <1>3, CredStep, TableInvariant, PTL DEF ClientSpec

\* While rows are shown the selection is among them, for any number of credentials,
\* any page sizes and answers that arrive in any order.
THEOREM SelectionsAreVisible == ClientSpec => []SelectionIsVisible
<1>1. CredInv => SelectionIsVisible
  BY DEF CredInv
<1>. QED BY <1>1, CredentialsInvariant, PTL

\* While a file is being uploaded its dialog is open, whatever else is on its way.
THEOREM UploadsKeepTheirDialog == ClientSpec => []UploadKeepsItsDialog
<1>1. CredInv => UploadKeepsItsDialog
  BY DEF CredInv, CredNetInv
<1>. QED BY <1>1, CredentialsInvariant, PTL

-----------------------------------------------------------------------------
(* The redemption log.                                                     *)

LogStatuses == {"absent", "failed", "success", "pending"}
LogQueries == [webhook: LogFilters, page: Nat \ {0}]
LogRowSets == SUBSET [id: LogIds, status: LogStatuses]
LogRanges == [total: Nat, page: Nat \ {0}, pages: Nat]
LogCallsAbout(Q) == [op: {"logs", "resend"}, id: LogIds \cup {0}, query: Q,
                     step: {"sent", "listed", "done"}, rows: LogRowSets, total: Nat]
LogViews(Q) == [query: Q, rows: LogRowSets] \cup {NoLogs}
LogStates(Q) == [query: LogQueries, shown: LogViews(Q), paged: LogRanges]

LogTypes ==
  /\ logs.query \in LogQueries
  /\ logStatus \in [LogIds -> LogStatuses]
  /\ logEarly \in BOOLEAN /\ logFailed \in BOOLEAN

\* What calls, timers and the list shown may be about: the query chosen, or any one if
\* something was under way when it was chosen.
LogChoices == {q \in LogQueries : logEarly \/ q = logs.query}

LogsInv ==
  /\ LogTypes
  /\ logs \in LogStates(LogChoices)
  /\ logsNet \in Seq(LogCallsAbout(LogChoices)) /\ logTimers \in Seq(LogChoices)
  /\ SkeletonIsLoading

\* A call that is sent keeps to its type.
LEMMA LogCallType ==
  ASSUME NEW Q, NEW q \in Q
  PROVE  /\ LoadLogs(q) \in LogCallsAbout(Q) /\ LoadLogs(q).op = "logs"
         /\ \A id \in LogIds : Resend(id, q) \in LogCallsAbout(Q)
<1>1. {} \in LogRowSets /\ 0 \in Nat
  BY DEF LogRowSets
<1>. QED BY <1>1 DEF LoadLogs, Resend, LogCall, LogCallsAbout

\* The first list is on its way.
LEMMA LogsBegin == LogsInit => LogsInv
<1> SUFFICES ASSUME LogsInit PROVE LogsInv
  OBVIOUS
<1> DEFINE q == Query("", 1)
           call == LoadLogs(q)
<1>1. q \in LogQueries
  <2> DEFINE every == ""
  <2>1. every \in LogFilters
    BY LogsAssumption
  <2>2. q = [webhook |-> every, page |-> 1]
    BY DEF Query
  <2> HIDE DEF q, every
  <2>. QED BY <2>1, <2>2 DEF LogQueries
<1>2. /\ logs = [query |-> q, shown |-> NoLogs, paged |-> [total |-> 0, page |-> 1, pages |-> 1]]
      /\ logsNet = <<call>> /\ logTimers = <<>> /\ logEarly = FALSE /\ logFailed = FALSE
      /\ logStatus \in [LogIds -> LogStatuses]
  BY DEF LogsInit, LogStatuses
<1> HIDE DEF q
<1>3. logs.query = q /\ q \in LogChoices
  BY <1>1, <1>2 DEF LogChoices
<1>4. call \in LogCallsAbout(LogChoices) /\ call.op = "logs"
  BY <1>3, LogCallType
<1> HIDE DEF call
<1>5. logs \in LogStates(LogChoices)
  <2>1. [total |-> 0, page |-> 1, pages |-> 1] \in LogRanges
    BY DEF LogRanges
  <2>. QED BY <1>1, <1>2, <2>1 DEF LogStates, LogViews
<1>6. logsNet \in Seq(LogCallsAbout(LogChoices)) /\ 1 \in DOMAIN logsNet /\ logsNet[1] = call
  BY <1>2, <1>4
<1>7. logTimers \in Seq(LogChoices)
  BY <1>2
<1>. QED BY <1>1, <1>2, <1>3, <1>4, <1>5, <1>6, <1>7 DEF LogsInv, LogTypes, SkeletonIsLoading

\* Every step of the page and of the server keeps what is under way about the query
\* chosen, and the skeleton a list on its way.
LEMMA LogsStep == LogsInv /\ [LogsNext]_logsVars => LogsInv'
<1> SUFFICES ASSUME LogsInv, [LogsNext]_logsVars PROVE LogsInv'
  OBVIOUS
<1> DEFINE Q == LogChoices
           Calls == LogCallsAbout(Q)
<1>0. /\ logs \in LogStates(Q) /\ logsNet \in Seq(Calls) /\ logTimers \in Seq(Q)
      /\ logs.query \in LogQueries /\ logStatus \in [LogIds -> LogStatuses]
      /\ logEarly \in BOOLEAN /\ logFailed \in BOOLEAN /\ SkeletonIsLoading
  BY DEF LogsInv, LogTypes
<1>1. Q \subseteq LogQueries /\ logs.query \in Q
  BY <1>0 DEF LogChoices
<1>2. logs.shown \in LogViews(Q) /\ logs.paged \in LogRanges
  BY <1>0 DEF LogStates
\* While no query is chosen.
<1>3. ASSUME logs' \in LogStates(Q), logs'.query = logs.query, logsNet' \in Seq(Calls),
             logTimers' \in Seq(Q), logStatus' \in [LogIds -> LogStatuses],
             UNCHANGED logEarly, logFailed' \in BOOLEAN, SkeletonIsLoading'
      PROVE  LogsInv'
  <2>1. Q' = Q
    BY <1>3 DEF LogChoices
  <2> HIDE DEF Q
  <2>2. LogTypes'
    BY <1>0, <1>3 DEF LogTypes
  <2>3. logs' \in LogStates(Q') /\ logsNet' \in Seq(LogCallsAbout(Q')) /\ logTimers' \in Seq(Q')
    BY <1>3, <2>1
  <2>. QED BY <1>3, <2>2, <2>3 DEF LogsInv, Q
<1>4. ASSUME NEW q \in LogQueries, Ask(q) PROVE LogsInv'
  <2>1. /\ logs' = [logs EXCEPT !.query = q, !.shown = NoLogs]
        /\ logsNet' = Append(logsNet, LoadLogs(q)) /\ logEarly' = ~AllSettled
        /\ UNCHANGED <<logTimers, logStatus, logFailed>>
    BY <1>4 DEF Ask
  <2>2. logs'.query = q /\ q \in Q' /\ logs' \in LogStates(Q')
    <3>1. logs'.query = q
      BY <1>0, <2>1 DEF LogStates
    <3>2. logs' \in LogStates(Q')
      BY <1>0, <2>1 DEF LogStates, LogViews
    <3>3. q \in Q'
      BY <3>1 DEF LogChoices
    <3>. QED BY <3>1, <3>2, <3>3
  <2>3. logsNet \in Seq(LogCallsAbout(Q')) /\ logTimers \in Seq(Q')
    <3>1. CASE AllSettled
      BY <3>1 DEF AllSettled
    <3>2. CASE ~AllSettled
      <4>1. Q \subseteq Q'
        BY <1>1, <2>1, <3>2 DEF LogChoices
      <4> HIDE DEF Q
      <4>2. Calls \subseteq LogCallsAbout(Q')
        BY <4>1 DEF LogCallsAbout
      <4>. QED BY <1>0, <4>1, <4>2, SeqMonotonic
    <3>. QED BY <3>1, <3>2
  <2> HIDE DEF Q
  <2>4. LoadLogs(q) \in LogCallsAbout(Q') /\ LoadLogs(q).op = "logs"
    BY <2>2, LogCallType
  <2>5. /\ logsNet' \in Seq(LogCallsAbout(Q')) /\ Len(logsNet) + 1 \in DOMAIN logsNet'
        /\ logsNet'[Len(logsNet) + 1] = LoadLogs(q)
    BY <2>1, <2>3, <2>4, AppendFacts
  <2>6. SkeletonIsLoading'
    BY <2>4, <2>5 DEF SkeletonIsLoading
  <2>7. LogTypes'
    BY <1>0, <2>1, <2>2 DEF LogTypes, AllSettled
  <2>. QED BY <2>1, <2>2, <2>3, <2>5, <2>6, <2>7 DEF LogsInv, Q
<1> HIDE DEF Q
<1>5. ASSUME NEW webhook \in LogFilters, SetFilter(webhook) PROVE LogsInv'
  <2>1. Query(webhook, 1) \in LogQueries
    BY DEF Query, LogQueries
  <2>. QED BY <1>4, <1>5, <2>1 DEF SetFilter
<1>6. CASE TurnLogPage
  <2> DEFINE at == logs.paged.page
             w == logs.query.webhook
  <2>1. at \in Nat \ {0} /\ w \in LogFilters
    BY <1>0, <1>2 DEF LogRanges, LogQueries
  <2>2. (at > 1 /\ Ask(Query(w, at - 1))) \/ Ask(Query(w, at + 1))
    BY <1>6 DEF TurnLogPage
  <2> HIDE DEF at, w
  <2>3. Query(w, at + 1) \in LogQueries /\ (at > 1 => Query(w, at - 1) \in LogQueries)
    BY <2>1 DEF Query, LogQueries
  <2>. QED BY <1>4, <2>2, <2>3
\* A call is sent, and calls that were under way stay.
<1>7. ASSUME NEW call \in Calls, logsNet' = Append(logsNet, call)
      PROVE  /\ logsNet' \in Seq(Calls)
             /\ call.op = "logs" => SkeletonIsLoading'
             /\ UNCHANGED <<logs, logFailed>> => SkeletonIsLoading'
  <2>1. /\ logsNet' \in Seq(Calls) /\ DOMAIN logsNet' = DOMAIN logsNet \cup {Len(logsNet) + 1}
        /\ logsNet'[Len(logsNet) + 1] = call /\ \A k \in DOMAIN logsNet : logsNet'[k] = logsNet[k]
    BY <1>0, <1>7, AppendFacts
  <2>. QED BY <1>0, <2>1 DEF SkeletonIsLoading
<1>8. ASSUME NEW row \in logs.shown.rows, handleResend(row) PROVE LogsInv'
  <2>1. row.id \in LogIds
    <3>1. logs.shown.rows \in LogRowSets
      <4>1. {} \in LogRowSets /\ NoLogs.rows = {}
        BY DEF LogRowSets, NoLogs
      <4>. QED BY <1>2, <4>1 DEF LogViews
    <3>. QED BY <3>1 DEF LogRowSets
  <2>2. Resend(row.id, logs.query) \in Calls
    BY <1>1, <2>1, LogCallType
  <2>3. /\ logsNet' = Append(logsNet, Resend(row.id, logs.query))
        /\ UNCHANGED <<logs, logTimers, logStatus, logEarly, logFailed>>
    BY <1>8 DEF handleResend
  <2>. QED BY <1>0, <1>3, <1>7, <2>2, <2>3
<1>9. ASSUME NEW i \in DOMAIN logTimers, TimerFires(i) PROVE LogsInv'
  <2>1. logTimers[i] \in Q /\ RemoveAt(logTimers, i) \in Seq(Q)
    BY <1>0, OthersStay, SeqFacts
  <2>2. /\ logs' = [logs EXCEPT !.shown = NoLogs] /\ logsNet' = Append(logsNet, LoadLogs(logTimers[i]))
        /\ logTimers' = RemoveAt(logTimers, i) /\ UNCHANGED <<logStatus, logEarly, logFailed>>
    BY <1>9 DEF TimerFires
  <2>3. logs' \in LogStates(Q) /\ logs'.query = logs.query
    BY <1>0, <2>2 DEF LogStates, LogViews
  <2>4. LoadLogs(logTimers[i]) \in Calls /\ LoadLogs(logTimers[i]).op = "logs"
    BY <2>1, LogCallType
  <2>. QED BY <1>0, <1>3, <1>7, <2>1, <2>2, <2>3, <2>4
<1>10. ASSUME NEW id, NEW status \in LogStatuses, logStatus' = [logStatus EXCEPT ![id] = status],
              UNCHANGED <<logs, logsNet, logTimers, logEarly, logFailed>>
       PROVE  LogsInv'
  <2>1. logStatus' \in [LogIds -> LogStatuses]
    BY <1>0, <1>10
  <2>2. SkeletonIsLoading'
    BY <1>0, <1>10 DEF SkeletonIsLoading
  <2>. QED BY <1>0, <1>3, <1>10, <2>1, <2>2
<1>11. ASSUME NEW id \in LogIds,
              NewRedemption(id) \/ \E status \in {"success", "failed"} : WorkerWrites(id, status)
       PROVE  LogsInv'
  BY <1>10, <1>11 DEF NewRedemption, WorkerWrites, LogStatuses
\* The server changes a call, not what it is about.
<1>12. ASSUME NEW i \in DOMAIN logsNet, NEW new \in Calls, new.op = logsNet[i].op,
              logsNet' = [logsNet EXCEPT ![i] = new], logStatus' \in [LogIds -> LogStatuses],
              UNCHANGED <<logs, logTimers, logEarly, logFailed>>
       PROVE  LogsInv'
  <2>1. /\ logsNet' \in Seq(Calls) /\ DOMAIN logsNet' = DOMAIN logsNet
        /\ \A k \in DOMAIN logsNet : logsNet'[k].op = logsNet[k].op
    BY <1>0, <1>12, ExceptFacts
  <2>2. SkeletonIsLoading'
    BY <1>0, <1>12, <2>1 DEF SkeletonIsLoading
  <2>. QED BY <1>0, <1>3, <1>12, <2>1, <2>2
<1>13. ASSUME NEW i \in DOMAIN logsNet, ListRedemptions(i) PROVE LogsInv'
  <2> DEFINE call == logsNet[i]
             page == PageOf(Found(call.query.webhook), call.query.page, LogsPerPage)
             rows == {[id |-> id, status |-> logStatus[id]] : id \in page}
             new == [call EXCEPT !.step = "listed", !.rows = rows]
  <2>1. logsNet' = [logsNet EXCEPT ![i] = new] /\ UNCHANGED <<logs, logTimers, logStatus, logEarly, logFailed>>
    BY <1>13 DEF ListRedemptions
  <2>2. page \in SUBSET LogIds
    BY DEF PageOf, Found
  <2> HIDE DEF page
  <2>3. rows \in LogRowSets
    BY <1>0, <2>2 DEF LogRowSets
  <2> HIDE DEF rows
  <2>4. call \in Calls
    BY <1>0, SeqFacts
  <2>5. new \in Calls /\ new.op = call.op
    BY <2>3, <2>4 DEF LogCallsAbout
  <2> HIDE DEF new
  <2>. QED BY <1>0, <1>12, <2>1, <2>5
<1>14. ASSUME NEW i \in DOMAIN logsNet, CountRedemptions(i) PROVE LogsInv'
  <2> DEFINE call == logsNet[i]
             total == Cardinality(Found(call.query.webhook))
             new == [call EXCEPT !.step = "done", !.total = total]
  <2>1. logsNet' = [logsNet EXCEPT ![i] = new] /\ UNCHANGED <<logs, logTimers, logStatus, logEarly, logFailed>>
    BY <1>14 DEF CountRedemptions
  <2>2. total \in Nat
    <3>1. Found(call.query.webhook) \in SUBSET LogIds
      BY DEF Found
    <3>. QED BY <3>1, LogsAssumption, FS_Subset, FS_CardinalityType
  <2> HIDE DEF total
  <2>3. call \in Calls
    BY <1>0, SeqFacts
  <2>4. new \in Calls /\ new.op = call.op
    BY <2>2, <2>3 DEF LogCallsAbout
  <2> HIDE DEF new
  <2>. QED BY <1>0, <1>12, <2>1, <2>4
<1>15. ASSUME NEW i \in DOMAIN logsNet, ResendWebhook(i) PROVE LogsInv'
  <2> DEFINE call == logsNet[i]
             new == [call EXCEPT !.step = "done"]
  <2>1. /\ logsNet' = [logsNet EXCEPT ![i] = new] /\ UNCHANGED <<logs, logTimers, logEarly, logFailed>>
        /\ logStatus' = [logStatus EXCEPT ![call.id] = "pending"]
    BY <1>15 DEF ResendWebhook
  <2>2. logStatus' \in [LogIds -> LogStatuses]
    BY <1>0, <2>1 DEF LogStatuses
  <2>3. call \in Calls
    BY <1>0, SeqFacts
  <2>4. new \in Calls /\ new.op = call.op
    BY <2>3 DEF LogCallsAbout
  <2> HIDE DEF new
  <2>. QED BY <1>12, <2>1, <2>2, <2>4
\* A call ends, and the others stay under way.
<1>16. ASSUME NEW i \in DOMAIN logsNet PROVE
         LET r == RemoveAt(logsNet, i)
         IN /\ r \in Seq(Calls) /\ logsNet[i] \in Calls
            /\ \A j \in DOMAIN logsNet \ {i} : \E k \in DOMAIN r : r[k] = logsNet[j]
  <2> DEFINE r == RemoveAt(logsNet, i)
  <2>1. \A j \in DOMAIN logsNet \ {i} : \E k \in DOMAIN r : Before(i, k) = j
    BY <1>0, OthersStay
  <2>2. \A k \in DOMAIN r : r[k] = logsNet[Before(i, k)]
    BY <1>0, OthersStay
  <2>. QED BY <1>0, <2>1, <2>2, OthersStay, SeqFacts
<1>17. ASSUME NEW i \in DOMAIN logsNet, LogsAnswered(i) PROVE LogsInv'
  <2> DEFINE call == logsNet[i]
             shown == [query |-> call.query, rows |-> call.rows]
             paged == [total |-> call.total, page |-> call.query.page,
                       pages |-> PagesOf(call.total, LogsPerPage)]
  <2>1. /\ logs' = [logs EXCEPT !.shown = shown, !.paged = paged] /\ logsNet' = RemoveAt(logsNet, i)
        /\ logFailed' = FALSE /\ UNCHANGED <<logTimers, logStatus, logEarly>>
    BY <1>17 DEF LogsAnswered, ShowLogs, Shown
  <2>2. call.query \in Q /\ call.rows \in LogRowSets /\ call.total \in Nat
    BY <1>16 DEF LogCallsAbout
  <2>3. call.query.page \in Nat \ {0}
    BY <1>1, <2>2 DEF LogQueries
  <2> HIDE DEF call
  <2>4. paged \in LogRanges
    BY <2>2, <2>3, LogsAssumption, PagesPositive DEF LogRanges
  <2>5. shown \in LogViews(Q) /\ shown # NoLogs
    <3>1. shown.query.page # 0
      BY <2>3
    <3>2. NoLogs.query.page = 0
      BY DEF NoLogs, Query
    <3>3. shown \in LogViews(Q)
      BY <2>2 DEF LogViews
    <3>. QED BY <3>1, <3>2, <3>3
  <2> HIDE DEF shown, paged
  <2>6. logs' \in LogStates(Q) /\ logs'.query = logs.query /\ logs'.shown = shown
    BY <1>0, <2>1, <2>4, <2>5 DEF LogStates
  <2>7. SkeletonIsLoading'
    BY <2>5, <2>6 DEF SkeletonIsLoading
  <2>. QED BY <1>0, <1>3, <1>16, <2>1, <2>6, <2>7
<1>18. ASSUME NEW i \in DOMAIN logsNet, ResendAnswered(i) PROVE LogsInv'
  <2>1. /\ logsNet[i].op = "resend" /\ logsNet' = RemoveAt(logsNet, i)
        /\ logTimers' = Append(logTimers, logsNet[i].query)
        /\ UNCHANGED <<logs, logStatus, logEarly, logFailed>>
    BY <1>18 DEF ResendAnswered
  <2>2. logsNet[i].query \in Q
    BY <1>16 DEF LogCallsAbout
  <2>3. logTimers' \in Seq(Q)
    BY <1>0, <2>1, <2>2, AppendFacts
  <2>4. SkeletonIsLoading'
    BY <1>0, <1>16, <2>1 DEF SkeletonIsLoading
  <2>. QED BY <1>0, <1>3, <1>16, <2>1, <2>3, <2>4
<1>19. ASSUME NEW i \in DOMAIN logsNet, LogCallFails(i) PROVE LogsInv'
  <2>1. /\ logsNet' = RemoveAt(logsNet, i) /\ logFailed' = (logFailed \/ logsNet[i].op = "logs")
        /\ UNCHANGED <<logs, logTimers, logStatus, logEarly>>
    BY <1>19 DEF LogCallFails
  <2>2. SkeletonIsLoading'
    BY <1>0, <1>16, <2>1 DEF SkeletonIsLoading
  <2>. QED BY <1>0, <1>3, <1>16, <2>1, <2>2
<1>20. CASE UNCHANGED logsVars
  <2>1. SkeletonIsLoading'
    BY <1>0, <1>20 DEF SkeletonIsLoading, logsVars
  <2>. QED BY <1>0, <1>3, <1>20, <2>1 DEF logsVars
<1>. QED
  BY <1>5, <1>6, <1>8, <1>9, <1>11, <1>13, <1>14, <1>15, <1>17, <1>18, <1>19, <1>20 DEF LogsNext

\* What is under way and what is shown is about the filter and page chosen, if nothing was
\* under way when they were chosen, and a blank list is on its way or failed.
THEOREM LogsInvariant == ClientSpec => []LogsInv
<1>1. ClientInit => LogsInv
  BY LogsBegin DEF ClientInit
<1>2. [ClientNext]_clientVars => [LogsNext]_logsVars
  BY DEF ClientNext, clientVars, logsVars, But
<1>. QED
  BY <1>1, <1>2, LogsStep, PTL DEF ClientSpec

\* The list shown is the one of the filter and page chosen, for any number of rows, resends,
\* timers and redemptions meanwhile, if nothing was under way when they were chosen.
THEOREM LogsAlwaysMatchFilter == ClientSpec => []LogsMatchFilter
<1>1. LogsInv => LogsMatchFilter
  <2> SUFFICES ASSUME LogsInv, logs.shown # NoLogs, ~logEarly PROVE logs.shown.query = logs.query
    BY DEF LogsMatchFilter
  <2>1. logs.shown.query \in LogChoices
    BY DEF LogsInv, LogStates, LogViews
  <2>. QED BY <2>1 DEF LogChoices
<1>. QED BY <1>1, LogsInvariant, PTL

\* A list that load has blanked is on its way or has failed, whichever filters were chosen
\* and whichever timers fired meanwhile.
THEOREM SkeletonsAreLoading == ClientSpec => []SkeletonIsLoading
<1>1. LogsInv => SkeletonIsLoading
  BY DEF LogsInv
<1>. QED BY <1>1, LogsInvariant, PTL

=============================================================================
