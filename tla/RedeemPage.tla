------------------------------ MODULE RedeemPage ------------------------------
(***************************************************************************)
(* The page where a user redeems codes (web/src/pages/redeem.tsx): the     *)
(* form of RedeemTab, the calls it sends, the archive of a batch, and the  *)
(* history RedeemPage keeps in sessionStorage.                             *)
(*                                                                         *)
(* A call is executed by the server item by item and answered at a later   *)
(* step, or lost.  Leaving the tab panel unmounts RedeemTab: its handlers  *)
(* run on, and still reach the page, but set no state of the panel.  A     *)
(* reload ends them.  The dialogs are modal.                               *)
(***************************************************************************)
EXTENDS Naturals, FiniteSets, SequencesExt, Lists

CONSTANTS
  CdkCodes,      \* normalized codes the server knows
  BlankCode,     \* what a part without letters or digits normalizes to
  CdkForm,       \* normalized form of each part a text may be split into
  CdkTexts,      \* texts the user may type or paste, as sequences of parts
  CdkUses,       \* uses the server grants of each code
  HistoryLimit,  \* REDEEM_HISTORY_LIMIT
  MaxRedeemCalls \* bound: calls in flight

ASSUME RedeemPageAssumption ==
  /\ BlankCode \notin CdkCodes
  /\ CdkCodes \subseteq DOMAIN CdkForm
  /\ CdkForm \in [DOMAIN CdkForm -> CdkCodes \cup {BlankCode}]
  /\ \A c \in CdkCodes : CdkForm[c] = c
  /\ \A t \in CdkTexts : t \in Seq(DOMAIN CdkForm)
  /\ CdkUses \in [CdkCodes -> Nat]
  /\ HistoryLimit \in Nat \ {0} /\ MaxRedeemCalls \in Nat

VARIABLES
  redeemTab,   \* the state of the mounted RedeemTab
  redeemPage,  \* the state of RedeemPage, and what sessionStorage holds
  redeemNet,   \* calls in flight, in the order they were sent
  redeemZips,  \* archives being generated
  cdkUsed,     \* uses the server has granted
  redeemLog    \* what the properties refer to: see RedeemInit

redeemVars == <<redeemTab, redeemPage, redeemNet, redeemZips, cdkUsed, redeemLog>>

-----------------------------------------------------------------------------
(* The text of the form.                                                   *)

normalizeCdk(part) == CdkForm[part]

\* Drops blank parts and codes seen before, and keeps the order.
parseCdkList(text) ==
  LET codes == [n \in DOMAIN text |-> normalizeCdk(text[n])]
      seen(n) == \E m \in 1 .. n - 1 : codes[m] = codes[n]
  IN Picked(codes, {n \in DOMAIN text : codes[n] # BlankCode /\ ~seen(n)})

(* A success is the code and the number of the use; a result of a batch    *)
(* item is the code with that number, or with 0 when it was refused.       *)
IsSuccess(result) == result[2] > 0
Successes(results) == {r \in ToSet(results) : IsSuccess(r)}

\* The codes of the refused items, in their order.
RefusedCodes(results) ==
  Picked([n \in DOMAIN results |-> results[n][1]],
         {n \in DOMAIN results : ~IsSuccess(results[n])})

\* Faulty variant: the archive is made from the results shown before the answer.
createRedeemArchive_Shown(results) == Successes(redeemTab.batchResults)

\* One file per success.  The file names carry its number, so none replaces another.
createRedeemArchive(results) == Successes(results)

-----------------------------------------------------------------------------
(* The history.                                                            *)

FirstN(s, n) == SubSeq(s, 1, IF Len(s) < n THEN Len(s) ELSE n)

\* persistRedeemHistory reaches sessionStorage unless the browser has it disabled;
\* the page then keeps the history in memory only.
commitHistory(page, next) ==
  [page EXCEPT !.history = next, !.stored = IF page.canStore THEN next ELSE @]

\* Faulty variant: every success of a batch is added to the history of the render.
handleRedeemSuccess_Render(page, result) ==
  commitHistory(page, FirstN(<<result>> \o redeemPage.history, HistoryLimit))

\* Faulty variant: the history is not cut to its limit.
handleRedeemSuccess_Unbounded(page, result) ==
  commitHistory(page, <<result>> \o page.history)

\* The new entry in front of historyRef.current, the oldest beyond the limit
\* dropped.  The unique id of an entry is its place in the sequence.
handleRedeemSuccess(page, result) ==
  commitHistory(page, FirstN(<<result>> \o page.history, HistoryLimit))

\* What the properties note of a success handed to the page.
NoteSuccess(log, result) ==
  LET all == <<result>> \o log.recent
      recent == FirstN(all, HistoryLimit)
  IN [recent |-> recent, settled |-> log.settled \cup (ToSet(all) \ ToSet(recent))]

\* The successes of one answer, each committed by itself: the page, and what is
\* noted, after the first n items, for every n.
KeptSoFar(results) ==
  LET kept[n \in 0 .. Len(results)] ==
        IF n = 0 THEN [page |-> redeemPage, log |-> redeemLog]
        ELSE IF IsSuccess(results[n])
             THEN [page |-> handleRedeemSuccess(kept[n - 1].page, results[n]),
                   log |-> NoteSuccess(kept[n - 1].log, results[n])]
             ELSE kept[n - 1]
  IN kept

KeepSuccesses(results) == KeptSoFar(results)[Len(results)]

\* Entries the page itself wrote are well formed.
loadRedeemHistory == FirstN(redeemPage.stored, HistoryLimit)

HistoryResults == ToSet(redeemPage.history)

-----------------------------------------------------------------------------
(* Initial state.                                                          *)

\* userId is left out: the page only checks it, when the form is submitted.
\* packed records the listed successes that were downloaded, or whose packing
\* failed visibly.
FreshTab == [codeInput |-> <<>>, loading |-> FALSE, error |-> FALSE,
             batchResults |-> <<>>, packed |-> {}, archiveLoading |-> FALSE]

RedeemInit ==
  /\ redeemTab = FreshTab
  /\ \E canStore \in BOOLEAN :
       redeemPage = [history |-> <<>>, stored |-> <<>>, canStore |-> canStore,
                     tab |-> "redeem", historyOpen |-> FALSE, resultOpen |-> FALSE]
  /\ redeemNet = <<>>
  /\ redeemZips = <<>>
  /\ cdkUsed = [c \in CdkCodes |-> 0]
  /\ redeemLog = [recent |-> <<>>,  \* the last HistoryLimit successes handed to the page
                  settled |-> {}]   \* successes the page need not keep: HistoryLimit newer
                                    \* ones came, the user deleted it, its answer was
                                    \* lost, or it was never stored

-----------------------------------------------------------------------------
(* What the user does in the form.                                         *)

FormUsable == /\ redeemPage.tab = "redeem"
              /\ ~redeemPage.historyOpen /\ ~redeemPage.resultOpen

EditEmail ==
  /\ FormUsable
  /\ redeemTab' = [redeemTab EXCEPT !.error = FALSE]
  /\ UNCHANGED <<redeemPage, redeemNet, redeemZips, cdkUsed, redeemLog>>

EditCodes(text) ==
  /\ FormUsable
  /\ redeemTab' = [redeemTab EXCEPT !.codeInput = text, !.error = FALSE, !.batchResults = <<>>, !.packed = {}]
  /\ UNCHANGED <<redeemPage, redeemNet, redeemZips, cdkUsed, redeemLog>>

\* An empty clipboard changes nothing; a refused one shows an error.
handlePaste ==
  /\ FormUsable
  /\ \/ \E text \in CdkTexts \ {<<>>} : redeemTab' = [redeemTab EXCEPT !.codeInput = text]
     \/ redeemTab' = [redeemTab EXCEPT !.error = TRUE]
  /\ UNCHANGED <<redeemPage, redeemNet, redeemZips, cdkUsed, redeemLog>>

\* handleSubmit, the early returns: no address, a malformed one, or no code.
RejectForm ==
  /\ FormUsable /\ ~redeemTab.loading
  /\ redeemTab' = [redeemTab EXCEPT !.error = TRUE]
  /\ UNCHANGED <<redeemPage, redeemNet, redeemZips, cdkUsed, redeemLog>>

\* handleSubmit up to the call: api.redeem for one code, api.redeemBatch for more.
SendForm ==
  LET codes == parseCdkList(redeemTab.codeInput)
  IN /\ FormUsable /\ ~redeemTab.loading
     /\ codes # <<>>
     /\ Len(redeemNet) < MaxRedeemCalls
     /\ redeemTab' = [redeemTab EXCEPT !.loading = TRUE, !.error = FALSE, !.batchResults = <<>>, !.packed = {}]
     /\ redeemNet' = Append(redeemNet, [codes |-> codes, results |-> <<>>, to |-> "tab"])
     /\ UNCHANGED <<redeemPage, redeemZips, cdkUsed, redeemLog>>

-----------------------------------------------------------------------------
(* The server and the network.                                             *)

\* The next item of a call; Redemption and BatchRedeem model what this abstracts.
ServeItem(i) ==
  LET call == redeemNet[i]
      code == call.codes[Len(call.results) + 1]
      use == IF cdkUsed[code] < CdkUses[code] THEN cdkUsed[code] + 1 ELSE 0
  IN /\ Len(call.results) < Len(call.codes)
     /\ cdkUsed' = IF use > 0 THEN [cdkUsed EXCEPT ![code] = use] ELSE cdkUsed
     /\ redeemNet' = [redeemNet EXCEPT ![i].results = Append(@, <<code, use>>)]
     /\ UNCHANGED <<redeemTab, redeemPage, redeemZips, redeemLog>>

\* The state the handler of a call sets, when the panel that sent it is mounted.
SetTab(call, next) == redeemTab' = IF call.to = "tab" THEN next ELSE redeemTab

Settle(results) == redeemLog' = [redeemLog EXCEPT !.settled = @ \cup results]

\* The server gives up on the call (400, 429, 500), whatever it has redeemed so far.
ServerRefuses(i) ==
  LET call == redeemNet[i]
  IN /\ Len(call.results) < Len(call.codes)
     /\ redeemNet' = RemoveAt(redeemNet, i)
     /\ SetTab(call, [redeemTab EXCEPT !.error = TRUE, !.loading = FALSE])
     /\ Settle(Successes(call.results))
     /\ UNCHANGED <<redeemPage, redeemZips, cdkUsed>>

\* The connection breaks; the server may go on with the call.
NetworkFails(i) ==
  /\ redeemNet[i].to # "nobody"
  /\ redeemNet' = [redeemNet EXCEPT ![i].to = "nobody"]
  /\ SetTab(redeemNet[i], [redeemTab EXCEPT !.error = TRUE, !.loading = FALSE])
  /\ UNCHANGED <<redeemPage, redeemZips, cdkUsed, redeemLog>>

Answered(i) == Len(redeemNet[i].results) = Len(redeemNet[i].codes)

\* The server answers a call nobody waits for.
AnswerIsLost(i) ==
  /\ Answered(i) /\ redeemNet[i].to = "nobody"
  /\ redeemNet' = RemoveAt(redeemNet, i)
  /\ Settle(Successes(redeemNet[i].results))
  /\ UNCHANGED <<redeemTab, redeemPage, redeemZips, cdkUsed>>

\* handleSubmit after api.redeem; a refusal is HTTP 400.
SingleAnswer(i) ==
  LET call == redeemNet[i]
      result == call.results[1]
  IN /\ Answered(i) /\ call.to # "nobody" /\ Len(call.codes) = 1
     /\ redeemNet' = RemoveAt(redeemNet, i)
     /\ \/ /\ ~IsSuccess(result)
           /\ SetTab(call, [redeemTab EXCEPT !.error = TRUE, !.loading = FALSE])
           /\ UNCHANGED <<redeemPage, redeemLog>>
        \/ /\ IsSuccess(result)
           /\ SetTab(call, [redeemTab EXCEPT !.codeInput = <<>>, !.loading = FALSE])
           /\ redeemPage' = [KeepSuccesses(<<result>>).page EXCEPT !.resultOpen = TRUE]
           /\ redeemLog' = KeepSuccesses(<<result>>).log
     /\ UNCHANGED <<redeemZips, cdkUsed>>

\* handleSubmit after api.redeemBatch: the results, the history, the codes to
\* try again, and the archive it awaits before loading ends.
BatchAnswer(i) ==
  LET call == redeemNet[i]
      won == Successes(call.results)
      next == [redeemTab EXCEPT !.batchResults = call.results, !.packed = {},
                                !.codeInput = RefusedCodes(call.results)]
  IN /\ Answered(i) /\ call.to # "nobody" /\ Len(call.codes) > 1
     /\ redeemNet' = RemoveAt(redeemNet, i)
     /\ redeemPage' = KeepSuccesses(call.results).page
     /\ redeemLog' = KeepSuccesses(call.results).log
     /\ \/ /\ won = {}
           /\ SetTab(call, [next EXCEPT !.loading = FALSE])
           /\ UNCHANGED redeemZips
        \/ /\ won # {}
           /\ SetTab(call, [next EXCEPT !.archiveLoading = TRUE])
           /\ redeemZips' = Append(redeemZips, [files |-> createRedeemArchive(call.results),
                                                auto |-> TRUE, to |-> call.to])
     /\ UNCHANGED cdkUsed

\* The button that packs the shown results again.
downloadArchive ==
  /\ FormUsable /\ ~redeemTab.archiveLoading
  /\ Successes(redeemTab.batchResults) # {}
  /\ redeemTab' = [redeemTab EXCEPT !.archiveLoading = TRUE]
  /\ redeemZips' = Append(redeemZips, [files |-> createRedeemArchive(redeemTab.batchResults),
                                       auto |-> FALSE, to |-> "tab"])
  /\ UNCHANGED <<redeemPage, redeemNet, cdkUsed, redeemLog>>

\* Faulty variant: an archive that cannot be made leaves handleSubmit unfinished.
ArchiveEnds_FailureHangs(i) ==
  LET zip == redeemZips[i]
  IN /\ redeemZips' = RemoveAt(redeemZips, i)
     /\ \E made \in BOOLEAN :
          SetTab(zip, [redeemTab EXCEPT !.archiveLoading = FALSE,
                                        !.packed = @ \cup zip.files,
                                        !.loading = IF zip.auto /\ made THEN FALSE ELSE @])
     /\ UNCHANGED <<redeemPage, redeemNet, cdkUsed, redeemLog>>

\* The archive is downloaded, or a warning says it could not be made; in the
\* automatic case handleSubmit ends.
ArchiveEnds(i) ==
  LET zip == redeemZips[i]
  IN /\ redeemZips' = RemoveAt(redeemZips, i)
     /\ SetTab(zip, [redeemTab EXCEPT !.archiveLoading = FALSE,
                                      !.packed = @ \cup zip.files,
                                      !.loading = IF zip.auto THEN FALSE ELSE @])
     /\ UNCHANGED <<redeemPage, redeemNet, cdkUsed, redeemLog>>

-----------------------------------------------------------------------------
(* The page around the form.                                               *)

\* Looking at a result of the batch adds it to the history once more.
ViewBatchItem(result) ==
  /\ FormUsable
  /\ result \in Successes(redeemTab.batchResults)
  /\ redeemPage' = [KeepSuccesses(<<result>>).page EXCEPT !.resultOpen = TRUE]
  /\ redeemLog' = KeepSuccesses(<<result>>).log
  /\ UNCHANGED <<redeemTab, redeemNet, redeemZips, cdkUsed>>

\* RedeemResultDialog; copying and downloading the result change no state.
CloseResult ==
  /\ redeemPage.resultOpen
  /\ redeemPage' = [redeemPage EXCEPT !.resultOpen = FALSE]
  /\ UNCHANGED <<redeemTab, redeemNet, redeemZips, cdkUsed, redeemLog>>

ToggleHistory ==
  /\ ~redeemPage.resultOpen
  /\ redeemPage' = [redeemPage EXCEPT !.historyOpen = ~@]
  /\ UNCHANGED <<redeemTab, redeemNet, redeemZips, cdkUsed, redeemLog>>

HistoryUsable == redeemPage.historyOpen /\ ~redeemPage.resultOpen

SelectHistory ==
  /\ HistoryUsable /\ redeemPage.history # <<>>
  /\ redeemPage' = [redeemPage EXCEPT !.historyOpen = FALSE, !.resultOpen = TRUE]
  /\ UNCHANGED <<redeemTab, redeemNet, redeemZips, cdkUsed, redeemLog>>

handleDeleteHistory(k) ==
  /\ HistoryUsable
  /\ redeemPage' = commitHistory(redeemPage, RemoveAt(redeemPage.history, k))
  /\ Settle({redeemPage.history[k]})
  /\ UNCHANGED <<redeemTab, redeemNet, redeemZips, cdkUsed>>

\* The button is there, behind a confirmation, when there is something to clear.
handleClearHistory ==
  /\ HistoryUsable /\ redeemPage.history # <<>>
  /\ redeemPage' = commitHistory(redeemPage, <<>>)
  /\ Settle(HistoryResults)
  /\ UNCHANGED <<redeemTab, redeemNet, redeemZips, cdkUsed>>

\* The hidden panel is unmounted: its state is gone, its handlers run on.
SwitchTab ==
  LET leave(task) == [task EXCEPT !.to = IF @ = "tab" THEN "page" ELSE @]
  IN /\ ~redeemPage.historyOpen /\ ~redeemPage.resultOpen
     /\ redeemPage' = [redeemPage EXCEPT !.tab = IF @ = "redeem" THEN "convert" ELSE "redeem"]
     /\ redeemTab' = FreshTab
     /\ redeemNet' = [i \in DOMAIN redeemNet |-> leave(redeemNet[i])]
     /\ redeemZips' = [i \in DOMAIN redeemZips |-> leave(redeemZips[i])]
     /\ UNCHANGED <<cdkUsed, redeemLog>>

\* The page is loaded anew: the history comes from sessionStorage, answers and
\* archives that were on their way reach nobody.
ReloadPage ==
  /\ redeemPage' = [redeemPage EXCEPT !.history = loadRedeemHistory, !.tab = "redeem",
                                      !.historyOpen = FALSE, !.resultOpen = FALSE]
  /\ redeemTab' = FreshTab
  /\ redeemNet' = [i \in DOMAIN redeemNet |-> [redeemNet[i] EXCEPT !.to = "nobody"]]
  /\ redeemZips' = <<>>
  /\ Settle(IF redeemPage.canStore THEN {} ELSE HistoryResults)
  /\ UNCHANGED cdkUsed

-----------------------------------------------------------------------------

ServeCall(i) == ServeItem(i) \/ ServerRefuses(i) \/ AnswerIsLost(i)
AnswerCall(i) == SingleAnswer(i) \/ BatchAnswer(i)

RedeemNext ==
  \/ EditEmail \/ \E text \in CdkTexts : EditCodes(text)
  \/ handlePaste \/ RejectForm \/ SendForm \/ downloadArchive
  \/ \E i \in DOMAIN redeemNet : NetworkFails(i) \/ ServeCall(i) \/ AnswerCall(i)
  \/ \E i \in DOMAIN redeemZips : ArchiveEnds(i)
  \/ \E result \in ToSet(redeemTab.batchResults) : ViewBatchItem(result)
  \/ CloseResult \/ ToggleHistory \/ handleClearHistory \/ SwitchTab \/ ReloadPage
  \/ SelectHistory \/ \E k \in DOMAIN redeemPage.history : handleDeleteHistory(k)

\* Every call is executed and answered in the end, or fails, and generating an
\* archive ends: what is first in line does not stay there for ever.
RedeemFairness ==
  /\ WF_redeemVars(redeemNet # <<>> /\ (ServeCall(1) \/ AnswerCall(1)))
  /\ WF_redeemVars(redeemZips # <<>> /\ ArchiveEnds(1))

-----------------------------------------------------------------------------
(* Properties.                                                             *)

\* The shape of the page's state; the history keeps to its limit (MAX_HISTORY).
RedeemTypeOK ==
  /\ redeemTab.codeInput \in Seq(DOMAIN CdkForm)
  /\ redeemTab.error \in BOOLEAN
  /\ Len(redeemPage.history) <= HistoryLimit
  /\ cdkUsed \in [CdkCodes -> Nat]
  /\ Len(redeemNet) <= MaxRedeemCalls

\* Every use of a code the server has granted can be found: its success is in
\* the history, or on its way to the page; or the user deleted it, the answer or
\* the save was lost, or HistoryLimit later successes pushed it out.  It does not
\* depend on which panel is mounted when an answer comes, on how many successes
\* one answer carries, or on a reload (historyRef, commitHistory).
SuccessIsKept ==
  \A c \in CdkCodes : \A n \in 1 .. cdkUsed[c] :
    \/ <<c, n>> \in HistoryResults \cup redeemLog.settled
    \/ \E i \in DOMAIN redeemNet : <<c, n>> \in ToSet(redeemNet[i].results)

\* Once the form is ready again, every success it lists has been put into an
\* archive of its own download, or a warning said that packing failed: the
\* automatic archive is made from the answer (downloadArchive(data.results, true)).
ShownIsPacked ==
  ~redeemTab.loading => Successes(redeemTab.batchResults) \subseteq redeemTab.packed

\* A submission ends: after any failure of the call or of the archive the button
\* works again (the finally of handleSubmit).
SubmissionEnds == redeemTab.loading ~> ~redeemTab.loading

=============================================================================
