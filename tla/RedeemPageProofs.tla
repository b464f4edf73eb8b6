-------------------------- MODULE RedeemPageProofs --------------------------
(***************************************************************************)
(* Proofs about the page where codes are redeemed and accounts converted,  *)
(* for any codes and texts, any limit of the history and any number of     *)
(* calls and archives on their way.                                        *)
(*                                                                         *)
(* The loops of the page are recursive functions on 0..n.  That such a     *)
(* function exists, and what it computes, is shown by induction in the     *)
(* form of a least counterexample.                                         *)
(***************************************************************************)
EXTENDS WebClientProofs, WellFoundedInduction

-----------------------------------------------------------------------------
(* Induction.                                                              *)

LessThan == {pair \in Nat \X Nat : pair[1] < pair[2]}

\* A set of numbers has a least element.
LEMMA LeastElement ==
  ASSUME NEW T \in SUBSET Nat, T # {}
  PROVE  \E m \in T : \A n \in T : m <= n
<1>1. IsWellFoundedOn(LessThan, Nat)
  <2>1. OpToRel(<, Nat) = LessThan
    BY Zenon DEF OpToRel, LessThan
  <2>. QED BY NatLessThanWellFounded, <2>1
<1>2. PICK m \in T : \A n \in T : ~(<<n, m>> \in LessThan)
  BY <1>1, WFMin
<1>3. \A n \in T : n < m => <<n, m>> \in LessThan
  BY DEF LessThan
<1>4. \A n \in T : m \in Nat /\ n \in Nat /\ ~(n < m)
  BY <1>2, <1>3
<1>. QED BY <1>4

\* A set that has zero, and with a number the next one, has them all.
LEMMA Induction ==
  ASSUME NEW P, 0 \in P, \A n \in Nat : n \in P => n + 1 \in P
  PROVE  Nat \subseteq P
<1> SUFFICES ASSUME Nat \ P # {} PROVE FALSE
  OBVIOUS
<1>1. PICK m \in Nat \ P : \A n \in Nat \ P : m <= n
  BY LeastElement
<1>2. m # 0 /\ m - 1 \in Nat
  BY <1>1
<1>3. m - 1 \in P
  BY <1>1, <1>2
<1>. QED BY <1>1, <1>2, <1>3

-----------------------------------------------------------------------------
(* Filtered lists.                                                         *)

\* The loop of a filter does what it says.
LEMMA PickedUnfolds ==
  ASSUME NEW S, NEW s \in Seq(S), NEW keep
  PROVE  /\ PickedSoFar(s, keep)[0] = <<>>
         /\ \A n \in 1 .. Len(s) :
              PickedSoFar(s, keep)[n] = IF n \in keep THEN Append(PickedSoFar(s, keep)[n - 1], s[n])
                                                     ELSE PickedSoFar(s, keep)[n - 1]
<1> DEFINE Next1(g, n) == IF n = 0 THEN <<>>
                          ELSE IF n \in keep THEN Append(g[n - 1], s[n]) ELSE g[n - 1]
           Is(g, m) == g = [n \in 0 .. m |-> Next1(g, n)]
           P == {m \in Nat : \E g : Is(g, m)}
<1>1. 0 \in P
  <2>1. Is([n \in 0 .. 0 |-> <<>>], 0)
    OBVIOUS
  <2>. QED BY <2>1
<1>2. ASSUME NEW m \in Nat, m \in P PROVE m + 1 \in P
  <2>1. PICK g : Is(g, m)
    BY <1>2
  <2> DEFINE h == [n \in 0 .. m + 1 |-> IF n <= m THEN g[n] ELSE Next1(g, m + 1)]
  <2>2. ASSUME NEW n \in 0 .. m + 1 PROVE h[n] = Next1(h, n)
    <3>1. \A k \in 0 .. m : g[k] = Next1(g, k)
      BY <2>1
    <3>2. CASE n = m + 1
      BY <3>2
    <3>3. CASE n <= m
      <4>1. h[n] = g[n] /\ (n # 0 => n - 1 \in 0 .. m /\ h[n - 1] = g[n - 1])
        BY <3>3
      <4> HIDE DEF h
      <4>. QED BY <3>1, <3>3, <4>1
    <3>. QED BY <3>2, <3>3
  <2>3. Is(h, m + 1)
    BY <2>2
  <2>. QED BY <2>3, m + 1 \in Nat
<1>3. Len(s) \in P
  <2> HIDE DEF P
  <2>. QED BY <1>1, <1>2, Induction
<1>4. PickedSoFar(s, keep) = CHOOSE g : Is(g, Len(s))
  BY DEF PickedSoFar
<1>5. Is(PickedSoFar(s, keep), Len(s))
  BY <1>3, <1>4
<1>6. ASSUME NEW g, Is(g, Len(s)) PROVE \A n \in 0 .. Len(s) : g[n] = Next1(g, n)
  BY <1>6
<1>7. \A n \in 0 .. Len(s) : PickedSoFar(s, keep)[n] = Next1(PickedSoFar(s, keep), n)
  <2> HIDE DEF Is, Next1
  <2>. QED BY <1>5, <1>6
<1>. QED BY <1>7

\* What a filter returns is a list of elements of the list.
LEMMA PickedType ==
  ASSUME NEW S, NEW s \in Seq(S), NEW T, NEW keep, \A n \in DOMAIN s : n \in keep => s[n] \in T
  PROVE  Picked(s, keep) \in Seq(T)
<1> DEFINE p == PickedSoFar(s, keep)
           P == {n \in Nat : n <= Len(s) => p[n] \in Seq(T)}
<1>0. /\ Len(s) \in Nat /\ DOMAIN s = 1 .. Len(s)
      /\ p[0] = <<>>
      /\ \A n \in 1 .. Len(s) : p[n] = IF n \in keep THEN Append(p[n - 1], s[n]) ELSE p[n - 1]
  BY PickedUnfolds
<1> HIDE DEF p
<1>1. 0 \in P
  <2>1. p[0] = <<>> /\ <<>> \in Seq(T)
    BY <1>0
  <2>. QED BY <2>1
<1>2. ASSUME NEW n \in Nat, n \in P PROVE n + 1 \in P
  <2>1. CASE n + 1 <= Len(s)
    <3>1. p[n] \in Seq(T) /\ n + 1 \in DOMAIN s /\ (n + 1 \in keep => s[n + 1] \in T)
      BY <1>0, <1>2, <2>1
    <3>2. n + 1 \in 1 .. Len(s) /\ (n + 1) - 1 = n
      BY <1>0, <2>1
    <3>3. p[n + 1] = IF n + 1 \in keep THEN Append(p[n], s[n + 1]) ELSE p[n]
      BY <1>0, <3>2
    <3>4. p[n + 1] \in Seq(T)
      BY <3>1, <3>3
    <3>. QED BY <3>4
  <2>2. CASE ~(n + 1 <= Len(s))
    BY <2>2
  <2>. QED BY <2>1, <2>2
<1>3. Len(s) \in P
  <2> HIDE DEF P
  <2>. QED BY <1>0, <1>1, <1>2, Induction
<1>. QED BY <1>0, <1>3 DEF Picked, p

-----------------------------------------------------------------------------
(* The history.                                                            *)

Results == CdkCodes \X Nat
TabStates == [codeInput: Seq(DOMAIN CdkForm), loading: BOOLEAN, error: BOOLEAN,
              batchResults: Seq(Results), packed: SUBSET Results, archiveLoading: BOOLEAN]
PageStates == [history: Seq(Results), stored: Seq(Results), canStore: BOOLEAN,
               tab: {"redeem", "convert"}, historyOpen: BOOLEAN, resultOpen: BOOLEAN]
RedeemLogs == [recent: Seq(Results), settled: SUBSET Results]
RedeemCalls == [codes: Seq(CdkCodes), results: Seq(Results), to: {"tab", "page", "nobody"}]
RedeemZips == [files: SUBSET Results, auto: BOOLEAN, to: {"tab", "page"}]

\* What was handed to the page and need not be kept, or is among the last.
Noted(log) == ToSet(log.recent) \cup log.settled

\* A success that is among the last ones, and must be kept, is in the history, and not
\* further down: so the limit cannot drop it from the history first.  What is stored
\* is the history.
HistoryKeeps(page, log) ==
  /\ page \in PageStates /\ log \in RedeemLogs
  /\ Len(page.history) <= HistoryLimit
  /\ page.stored = IF page.canStore THEN page.history ELSE <<>>
  /\ \A i \in DOMAIN log.recent :
       \/ log.recent[i] \in log.settled
       \/ \E j \in DOMAIN page.history : j <= i /\ page.history[j] = log.recent[i]

\* A list with a new entry in front, cut to the limit.
Pushed(x, s) == FirstN(<<x>> \o s, HistoryLimit)

\* The new entry is first, the others are one place further down, and the limit is kept.
LEMMA PushedFacts ==
  \A s \in Seq(Results), x \in Results : \A q :
    q = Pushed(x, s) =>
      /\ q \in Seq(Results) /\ Len(q) <= HistoryLimit /\ Len(q) <= Len(s) + 1
      /\ 1 \in DOMAIN q /\ q[1] = x
      /\ \A i \in DOMAIN s : i + 1 <= HistoryLimit => i + 1 \in DOMAIN q /\ q[i + 1] = s[i]
      /\ \A i \in DOMAIN q : i # 1 => i - 1 \in DOMAIN s /\ q[i] = s[i - 1]
<1> SUFFICES ASSUME NEW s \in Seq(Results), NEW x \in Results, NEW q, q = Pushed(x, s)
             PROVE  /\ q \in Seq(Results) /\ Len(q) <= HistoryLimit /\ Len(q) <= Len(s) + 1
                    /\ 1 \in DOMAIN q /\ q[1] = x
                    /\ \A i \in DOMAIN s :
                         i + 1 <= HistoryLimit => i + 1 \in DOMAIN q /\ q[i + 1] = s[i]
                    /\ \A i \in DOMAIN q : i # 1 => i - 1 \in DOMAIN s /\ q[i] = s[i - 1]
  OBVIOUS
<1> DEFINE all == <<x>> \o s
           n == IF Len(all) < HistoryLimit THEN Len(all) ELSE HistoryLimit
<1>1. all \in Seq(Results) /\ Len(all) = Len(s) + 1 /\ all[1] = x /\ \A i \in DOMAIN s : all[i + 1] = s[i]
  OBVIOUS
<1>2. HistoryLimit \in Nat /\ HistoryLimit >= 1 /\ Len(s) \in Nat /\ DOMAIN s = 1 .. Len(s)
  BY RedeemPageAssumption
<1> HIDE DEF all
<1>3. n \in 1 .. HistoryLimit /\ n <= Len(s) + 1 /\ n \in 1 .. Len(all)
  BY <1>1, <1>2
<1>4. \A i \in DOMAIN s : i + 1 <= HistoryLimit => i + 1 \in 1 .. n
  BY <1>1, <1>2
<1>5. FirstN(all, HistoryLimit) = SubSeq(all, 1, n)
  BY DEF FirstN
<1> HIDE DEF n
<1>6. /\ SubSeq(all, 1, n) \in Seq(Results) /\ Len(SubSeq(all, 1, n)) = n
      /\ DOMAIN SubSeq(all, 1, n) = 1 .. n /\ \A i \in 1 .. n : SubSeq(all, 1, n)[i] = all[i]
  BY <1>1, <1>3
<1>7. \A i \in 1 .. n : i # 1 => i - 1 \in DOMAIN s /\ (i - 1) + 1 = i
  BY <1>2, <1>3
<1>8. q = SubSeq(all, 1, n)
  BY <1>5 DEF all, Pushed
<1>9. q \in Seq(Results) /\ Len(q) = n /\ DOMAIN q = 1 .. n /\ \A i \in 1 .. n : q[i] = all[i]
  BY <1>6, <1>8
<1>10. Len(q) <= HistoryLimit /\ Len(q) <= Len(s) + 1 /\ 1 \in DOMAIN q /\ q[1] = x
  BY <1>1, <1>3, <1>9
<1>11. \A i \in DOMAIN s : i + 1 <= HistoryLimit => i + 1 \in DOMAIN q /\ q[i + 1] = s[i]
  BY <1>1, <1>4, <1>9
<1>12. \A i \in DOMAIN q : i # 1 => i - 1 \in DOMAIN s /\ q[i] = s[i - 1]
  BY <1>1, <1>7, <1>9
<1>. QED BY <1>9, <1>10, <1>11, <1>12

\* One success: the history keeps it and all it had to keep.
LEMMA OneSuccess ==
  ASSUME NEW page, NEW log, HistoryKeeps(page, log), NEW r \in Results
  PROVE  /\ HistoryKeeps(handleRedeemSuccess(page, r), NoteSuccess(log, r))
         /\ Noted(log) \cup {r} \subseteq Noted(NoteSuccess(log, r))
<1> DEFINE old == page.history
           last == log.recent
           h == Pushed(r, old)
           all == <<r>> \o last
           p == Pushed(r, last)
           next == handleRedeemSuccess(page, r)
           note == NoteSuccess(log, r)
<1>0. /\ page \in PageStates /\ log \in RedeemLogs /\ old \in Seq(Results)
      /\ last \in Seq(Results) /\ log.settled \subseteq Results
  BY DEF HistoryKeeps, PageStates, RedeemLogs
<1> HIDE DEF old, last
<1>1. /\ h \in Seq(Results) /\ Len(h) <= HistoryLimit /\ 1 \in DOMAIN h /\ h[1] = r
      /\ \A j \in DOMAIN old : j + 1 <= HistoryLimit => j + 1 \in DOMAIN h /\ h[j + 1] = old[j]
  BY <1>0, PushedFacts
<1>2. /\ p \in Seq(Results) /\ Len(p) <= HistoryLimit /\ 1 \in DOMAIN p /\ p[1] = r
      /\ \A i \in DOMAIN p : i # 1 => i - 1 \in DOMAIN last /\ p[i] = last[i - 1]
  BY <1>0, PushedFacts
<1>3. ToSet(all) \subseteq Results /\ ToSet(last) \subseteq ToSet(all)
  <2>1. /\ \A i \in DOMAIN all : all[i] \in Results
        /\ \A i \in DOMAIN last : i + 1 \in DOMAIN all /\ all[i + 1] = last[i]
    BY <1>0
  <2>. QED BY <2>1 DEF ToSet
<1>4. /\ next = [page EXCEPT !.history = h, !.stored = IF page.canStore THEN h ELSE @]
      /\ note = [recent |-> p, settled |-> log.settled \cup (ToSet(all) \ ToSet(p))]
  BY DEF handleRedeemSuccess, commitHistory, NoteSuccess, Pushed, old, last
<1> HIDE DEF h, p, all, next, note
<1>5. /\ next \in PageStates /\ next.history = h
      /\ next.stored = IF next.canStore THEN next.history ELSE <<>>
  <2>1. page.stored \in Seq(Results) /\ page.canStore \in BOOLEAN
    BY <1>0 DEF PageStates
  <2>2. next.history = h /\ next.canStore = page.canStore
        /\ next.stored = IF page.canStore THEN h ELSE page.stored
    BY <1>0, <1>4 DEF PageStates
  <2>3. next \in PageStates
    BY <1>0, <1>1, <1>4, <2>1 DEF PageStates
  <2>. QED BY <2>2, <2>3 DEF HistoryKeeps
<1>6. note \in RedeemLogs /\ note.recent = p /\ note.settled = log.settled \cup (ToSet(all) \ ToSet(p))
  BY <1>0, <1>2, <1>3, <1>4 DEF RedeemLogs
<1>7. ASSUME NEW i \in DOMAIN p
      PROVE  p[i] \in note.settled \/ \E j \in DOMAIN h : j <= i /\ h[j] = p[i]
  <2>0. i \in Nat /\ i >= 1 /\ i <= HistoryLimit /\ HistoryLimit \in Nat
    BY <1>2, <1>7, RedeemPageAssumption
  <2>1. CASE i = 1
    BY <1>1, <1>2, <2>0, <2>1
  <2>2. CASE i # 1
    <3>1. i - 1 \in DOMAIN last /\ p[i] = last[i - 1]
      BY <1>2, <2>2
    <3>2. CASE last[i - 1] \in log.settled
      BY <1>6, <3>1, <3>2
    <3>3. ASSUME NEW j \in DOMAIN old, j <= i - 1, old[j] = last[i - 1]
          PROVE  \E k \in DOMAIN h : k <= i /\ h[k] = p[i]
      <4>1. j \in Nat /\ j + 1 <= HistoryLimit /\ j + 1 <= i
        BY <1>0, <2>0, <3>3
      <4>2. j + 1 \in DOMAIN h /\ h[j + 1] = p[i]
        BY <1>1, <3>1, <3>3, <4>1
      <4>. QED BY <4>1, <4>2
    <3>. QED BY <3>1, <3>2, <3>3 DEF HistoryKeeps, old, last
  <2>. QED BY <2>1, <2>2
<1>8. HistoryKeeps(next, note)
  BY <1>1, <1>5, <1>6, <1>7 DEF HistoryKeeps
<1>9. r \in ToSet(p)
  BY <1>2 DEF ToSet
<1>10. Noted(log) \cup {r} \subseteq Noted(note)
  BY <1>3, <1>6, <1>9 DEF Noted, last
<1>. QED BY <1>8, <1>10 DEF next, note

\* The loop over an answer does what it says.
LEMMA KeptUnfolds ==
  ASSUME NEW S, NEW s \in Seq(S)
  PROVE  /\ KeptSoFar(s)[0] = [page |-> redeemPage, log |-> redeemLog]
         /\ \A n \in 1 .. Len(s) :
              KeptSoFar(s)[n] = IF IsSuccess(s[n])
                                THEN [page |-> handleRedeemSuccess(KeptSoFar(s)[n - 1].page, s[n]),
                                      log |-> NoteSuccess(KeptSoFar(s)[n - 1].log, s[n])]
                                ELSE KeptSoFar(s)[n - 1]
<1> DEFINE First == [page |-> redeemPage, log |-> redeemLog]
           With(k, r) == [page |-> handleRedeemSuccess(k.page, r), log |-> NoteSuccess(k.log, r)]
           Next1(g, n) == IF n = 0 THEN First
                          ELSE IF IsSuccess(s[n]) THEN With(g[n - 1], s[n]) ELSE g[n - 1]
           Is(g, m) == g = [n \in 0 .. m |-> Next1(g, n)]
           P == {m \in Nat : \E g : Is(g, m)}
<1>4. KeptSoFar(s) = CHOOSE g : Is(g, Len(s))
  BY DEF KeptSoFar
<1> HIDE DEF First, With
<1>1. 0 \in P
  <2>1. Is([n \in 0 .. 0 |-> First], 0)
    OBVIOUS
  <2>. QED BY <2>1
<1>2. ASSUME NEW m \in Nat, m \in P PROVE m + 1 \in P
  <2>1. PICK g : Is(g, m)
    BY <1>2
  <2> DEFINE h == [n \in 0 .. m + 1 |-> IF n <= m THEN g[n] ELSE Next1(g, m + 1)]
  <2>2. ASSUME NEW n \in 0 .. m + 1 PROVE h[n] = Next1(h, n)
    <3>1. \A k \in 0 .. m : g[k] = Next1(g, k)
      BY <2>1
    <3>2. CASE n = m + 1
      BY <3>2
    <3>3. CASE n <= m
      <4>1. h[n] = g[n] /\ (n # 0 => n - 1 \in 0 .. m /\ h[n - 1] = g[n - 1])
        BY <3>3
      <4> HIDE DEF h
      <4>. QED BY <3>1, <3>3, <4>1
    <3>. QED BY <3>2, <3>3
  <2>3. Is(h, m + 1)
    BY <2>2
  <2>. QED BY <2>3, m + 1 \in Nat
<1>3. Len(s) \in P
  <2> HIDE DEF P
  <2>. QED BY <1>1, <1>2, Induction
<1>5. Is(KeptSoFar(s), Len(s))
  BY <1>3, <1>4
<1>6. ASSUME NEW g, Is(g, Len(s)) PROVE \A n \in 0 .. Len(s) : g[n] = Next1(g, n)
  BY <1>6
<1>7. \A n \in 0 .. Len(s) : KeptSoFar(s)[n] = Next1(KeptSoFar(s), n)
  <2> HIDE DEF Is, Next1
  <2>. QED BY <1>5, <1>6
<1>8. KeptSoFar(s)[0] = First
  BY <1>7
<1>9. \A n \in 1 .. Len(s) :
        KeptSoFar(s)[n] = IF IsSuccess(s[n]) THEN With(KeptSoFar(s)[n - 1], s[n])
                                            ELSE KeptSoFar(s)[n - 1]
  BY <1>7
<1>. QED BY <1>8, <1>9 DEF First, With

\* All successes of an answer: the history keeps them, and what it had to keep.
LEMMA AllSuccesses ==
  ASSUME HistoryKeeps(redeemPage, redeemLog), NEW s \in Seq(Results)
  PROVE  /\ HistoryKeeps(KeepSuccesses(s).page, KeepSuccesses(s).log)
         /\ Noted(redeemLog) \cup Successes(s) \subseteq Noted(KeepSuccesses(s).log)
<1> DEFINE k == KeptSoFar(s)
           Done(n) == {s[i] : i \in {j \in 1 .. n : IsSuccess(s[j])}}
           Good(n) == /\ HistoryKeeps(k[n].page, k[n].log)
                      /\ Noted(redeemLog) \cup Done(n) \subseteq Noted(k[n].log)
           P == {n \in Nat : n <= Len(s) => Good(n)}
<1>0. /\ Len(s) \in Nat /\ DOMAIN s = 1 .. Len(s) /\ \A n \in 1 .. Len(s) : s[n] \in Results
      /\ k[0] = [page |-> redeemPage, log |-> redeemLog]
      /\ \A n \in 1 .. Len(s) :
           k[n] = IF IsSuccess(s[n]) THEN [page |-> handleRedeemSuccess(k[n - 1].page, s[n]),
                                           log |-> NoteSuccess(k[n - 1].log, s[n])]
                                     ELSE k[n - 1]
  BY KeptUnfolds
<1> HIDE DEF k
<1>1. 0 \in P
  <2>1. k[0].page = redeemPage /\ k[0].log = redeemLog /\ Done(0) = {}
    BY <1>0
  <2>2. Good(0)
    BY <2>1
  <2>. QED BY <2>2
<1>2. ASSUME NEW n \in Nat, n \in P PROVE n + 1 \in P
  <2>1. ASSUME n + 1 <= Len(s) PROVE Good(n + 1)
    <3> DEFINE r == s[n + 1]
    <3>1. n + 1 \in 1 .. Len(s) /\ (n + 1) - 1 = n /\ Good(n) /\ r \in Results
      BY <1>0, <1>2, <2>1
    <3>2. /\ IsSuccess(r) => k[n + 1] = [page |-> handleRedeemSuccess(k[n].page, r),
                                         log |-> NoteSuccess(k[n].log, r)]
          /\ ~IsSuccess(r) => k[n + 1] = k[n]
      BY <1>0, <3>1
    <3>3. Done(n + 1) = Done(n) \cup (IF IsSuccess(r) THEN {r} ELSE {})
      BY <1>2
    <3> HIDE DEF r, Done
    <3>4. CASE IsSuccess(r)
      <4>1. /\ k[n + 1].page = handleRedeemSuccess(k[n].page, r)
            /\ k[n + 1].log = NoteSuccess(k[n].log, r)
        BY <3>2, <3>4
      <4>2. /\ HistoryKeeps(k[n + 1].page, k[n + 1].log)
            /\ Noted(k[n].log) \cup {r} \subseteq Noted(k[n + 1].log)
        BY <3>1, <4>1, OneSuccess
      <4>. QED BY <3>1, <3>3, <3>4, <4>2
    <3>5. CASE ~IsSuccess(r)
      BY <3>1, <3>2, <3>3, <3>5
    <3>. QED BY <3>4, <3>5
  <2>. QED BY <2>1
<1>3. Len(s) \in P
  <2> HIDE DEF P
  <2>. QED BY <1>0, <1>1, <1>2, Induction
<1>4. Good(Len(s))
  BY <1>0, <1>3
<1>5. Successes(s) \subseteq Done(Len(s))
  BY <1>0 DEF Successes, ToSet
<1>. QED BY <1>4, <1>5 DEF KeepSuccesses, k

-----------------------------------------------------------------------------
(* The invariant of the redeem page.                                       *)

\* Calls whose answer, and archives whose end, the mounted form waits for.
TabCalls == {call \in RedeemCalls : call.to = "tab"}
TabZips == {zip \in RedeemZips : zip.to = "tab" /\ zip.auto}
Places(s, tasks) == {k \in DOMAIN s : s[k] \in tasks}
AtMostOne(places) == \A i, j \in places : i = j

RedeemTypes ==
  /\ redeemTab \in TabStates
  /\ redeemNet \in Seq(RedeemCalls)
  /\ redeemZips \in Seq(RedeemZips)
  /\ cdkUsed \in [CdkCodes -> Nat]

\* Results of calls that are on their way.
OnTheWay(net) == UNION {ToSet(net[i].results) : i \in DOMAIN net}

\* A granted use is on its way to the page or was noted when it came.
GrantedIsFound ==
  \A c \in CdkCodes : \A n \in 1 .. cdkUsed[c] :
    <<c, n>> \in Noted(redeemLog) \cup OnTheWay(redeemNet)

\* The form waits for one thing at most.  While it waits for an answer it shows no
\* result; while it waits for an archive, that archive has what it shows; and when it
\* does not wait, what it shows is packed.
FormWaits(tab, net, zips) ==
  /\ AtMostOne(Places(net, TabCalls)) /\ AtMostOne(Places(zips, TabZips))
  /\ Places(net, TabCalls) # {} => /\ tab.loading /\ tab.batchResults = <<>>
                                  /\ Places(zips, TabZips) = {}
  /\ \A i \in Places(zips, TabZips) :
       tab.loading /\ Successes(tab.batchResults) \subseteq zips[i].files \cup tab.packed
  /\ ~tab.loading => Successes(tab.batchResults) \subseteq tab.packed

RedeemInv ==
  /\ RedeemTypes
  /\ HistoryKeeps(redeemPage, redeemLog)
  /\ GrantedIsFound
  /\ FormWaits(redeemTab, redeemNet, redeemZips)

-----------------------------------------------------------------------------
(* What the operators of the page return.                                  *)

\* The codes sent are codes, and the codes left in the form are texts it may hold.
LEMMA CodeLists ==
  /\ \A text \in Seq(DOMAIN CdkForm) : parseCdkList(text) \in Seq(CdkCodes)
  /\ \A results \in Seq(Results) : RefusedCodes(results) \in Seq(DOMAIN CdkForm)
<1>1. ASSUME NEW text \in Seq(DOMAIN CdkForm) PROVE parseCdkList(text) \in Seq(CdkCodes)
  <2> DEFINE codes == [n \in DOMAIN text |-> normalizeCdk(text[n])]
             All == CdkCodes \cup {BlankCode}
             seen(n) == \E m \in 1 .. n - 1 : codes[m] = codes[n]
             keep == {n \in DOMAIN text : codes[n] # BlankCode /\ ~seen(n)}
  <2>1. DOMAIN text = 1 .. Len(text) /\ Len(text) \in Nat /\ \A n \in DOMAIN text : text[n] \in DOMAIN CdkForm
    OBVIOUS
  <2>2. \A part \in DOMAIN CdkForm : CdkForm[part] \in All
    BY RedeemPageAssumption
  <2>3. codes \in [1 .. Len(text) -> All] /\ DOMAIN codes = DOMAIN text
    BY <2>1, <2>2 DEF normalizeCdk
  <2>4. parseCdkList(text) = Picked(codes, keep)
    BY DEF parseCdkList
  <2>5. \A n \in keep : codes[n] # BlankCode
    OBVIOUS
  <2> HIDE DEF codes, keep
  <2>6. codes \in Seq(All)
    BY <2>1, <2>3, FunctionIsSeq
  <2>7. \A n \in DOMAIN codes : n \in keep => codes[n] \in CdkCodes
    BY <2>1, <2>3, <2>5
  <2> HIDE DEF All
  <2>8. Picked(codes, keep) \in Seq(CdkCodes)
    BY <2>6, <2>7, PickedType
  <2>. QED BY <2>4, <2>8
<1>2. ASSUME NEW results \in Seq(Results) PROVE RefusedCodes(results) \in Seq(DOMAIN CdkForm)
  <2> DEFINE codes == [n \in DOMAIN results |-> results[n][1]]
             keep == {n \in DOMAIN results : ~IsSuccess(results[n])}
             Parts == DOMAIN CdkForm
  <2>1. DOMAIN results = 1 .. Len(results) /\ Len(results) \in Nat /\ \A n \in DOMAIN results : results[n] \in Results
    OBVIOUS
  <2>2. \A r \in Results : r[1] \in CdkCodes
    BY DEF Results
  <2>3. codes \in [1 .. Len(results) -> Parts]
    BY <2>1, <2>2, RedeemPageAssumption
  <2>4. RefusedCodes(results) = Picked(codes, keep)
    BY DEF RefusedCodes
  <2> HIDE DEF codes, keep, Parts
  <2>5. codes \in Seq(Parts) /\ \A n \in DOMAIN codes : codes[n] \in Parts
    BY <2>1, <2>3, FunctionIsSeq
  <2>6. Picked(codes, keep) \in Seq(Parts)
    BY <2>5, PickedType
  <2>. QED BY <2>4, <2>6 DEF Parts
<1>. QED BY <1>1, <1>2

\* The successes of results are results, with a number.
LEMMA SuccessFacts ==
  /\ \A s \in Seq(Results) : Successes(s) \subseteq Results
  /\ Successes(<<>>) = {}
  /\ \A s : \A c \in CdkCodes, n \in Nat \ {0} : <<c, n>> \in ToSet(s) => <<c, n>> \in Successes(s)
  /\ \A s : \A r \in Successes(s) : r \in ToSet(s)
<1>1. ASSUME NEW s \in Seq(Results) PROVE Successes(s) \subseteq Results
  <2>1. \A i \in DOMAIN s : s[i] \in Results
    OBVIOUS
  <2>. QED BY <2>1 DEF Successes, ToSet
<1>. QED BY <1>1 DEF Successes, ToSet, IsSuccess

\* A task that is done is gone; the others keep their order.
LEMMA PlacesAfter ==
  ASSUME NEW S, NEW s \in Seq(S), NEW i \in DOMAIN s, NEW tasks, NEW r, r = RemoveAt(s, i)
  PROVE  /\ r \in Seq(S) /\ Len(r) = Len(s) - 1
         /\ \A k \in Places(r, tasks) : \E j \in Places(s, tasks) \ {i} : r[k] = s[j]
         /\ AtMostOne(Places(s, tasks)) => AtMostOne(Places(r, tasks))
         /\ AtMostOne(Places(s, tasks)) /\ s[i] \in tasks => Places(r, tasks) = {}
         /\ \A j \in DOMAIN s \ {i} : \E k \in DOMAIN r : r[k] = s[j]
<1>1. /\ r \in Seq(S) /\ Len(r) = Len(s) - 1
      /\ \A k \in DOMAIN r : Before(i, k) \in DOMAIN s \ {i} /\ r[k] = s[Before(i, k)]
      /\ \A k, m \in DOMAIN r : Before(i, k) = Before(i, m) => k = m
      /\ \A j \in DOMAIN s \ {i} : \E k \in DOMAIN r : Before(i, k) = j
  <2>1. Len(r) = Len(s) - 1
    BY RemoveAtFacts
  <2>2. r \in Seq(S)
    BY RemoveAtFacts
  <2>3. /\ \A k \in DOMAIN r : Before(i, k) \in DOMAIN s \ {i} /\ r[k] = s[Before(i, k)]
        /\ \A k, m \in DOMAIN r : Before(i, k) = Before(i, m) => k = m
        /\ \A j \in DOMAIN s \ {i} : \E k \in DOMAIN r : Before(i, k) = j
    BY OthersStay
  <2>. QED BY <2>1, <2>2, <2>3
<1>2. \A k \in Places(r, tasks) : Before(i, k) \in Places(s, tasks) \ {i} /\ r[k] = s[Before(i, k)]
  BY <1>1 DEF Places
<1>3. ASSUME AtMostOne(Places(s, tasks)) PROVE AtMostOne(Places(r, tasks))
  <2> SUFFICES ASSUME NEW k \in Places(r, tasks), NEW m \in Places(r, tasks) PROVE k = m
    BY DEF AtMostOne
  <2>1. Before(i, k) = Before(i, m)
    BY <1>2, <1>3 DEF AtMostOne
  <2>. QED BY <1>1, <2>1 DEF Places
<1>4. ASSUME AtMostOne(Places(s, tasks)), s[i] \in tasks PROVE Places(r, tasks) = {}
  <2>1. i \in Places(s, tasks)
    BY <1>4 DEF Places
  <2>. QED BY <1>2, <1>4, <2>1 DEF AtMostOne
<1>5. \A j \in DOMAIN s \ {i} : \E k \in DOMAIN r : r[k] = s[j]
  BY <1>1
<1>6. \A k \in Places(r, tasks) : \E j \in Places(s, tasks) \ {i} : r[k] = s[j]
  BY <1>2
<1>. QED BY <1>1, <1>3, <1>4, <1>5, <1>6

\* When a call is gone, its results are the only ones that are no longer on their way.
LEMMA OthersOnTheWay ==
  ASSUME NEW net \in Seq(RedeemCalls), NEW i \in DOMAIN net
  PROVE  OnTheWay(net) \subseteq OnTheWay(RemoveAt(net, i)) \cup ToSet(net[i].results)
<1> DEFINE r == RemoveAt(net, i)
<1>1. \A j \in DOMAIN net \ {i} : \E k \in DOMAIN r : r[k] = net[j]
  BY PlacesAfter
<1> HIDE DEF r
<1>2. ASSUME NEW x \in OnTheWay(net) PROVE x \in OnTheWay(r) \cup ToSet(net[i].results)
  <2>1. PICK j \in DOMAIN net : x \in ToSet(net[j].results)
    BY <1>2 DEF OnTheWay
  <2>2. CASE j = i
    BY <2>1, <2>2
  <2>3. CASE j # i
    <3>1. PICK k \in DOMAIN r : r[k] = net[j]
      BY <1>1, <2>3
    <3>. QED BY <2>1, <3>1 DEF OnTheWay
  <2>. QED BY <2>2, <2>3
<1>. QED BY <1>2 DEF r

\* What the form shows and waits for is all FormWaits is about.
LEMMA SameForm ==
  ASSUME NEW tab, NEW net, NEW zips, FormWaits(tab, net, zips), NEW next,
         next.loading = tab.loading, next.batchResults = tab.batchResults,
         next.packed = tab.packed
  PROVE  FormWaits(next, net, zips)
BY DEF FormWaits

\* A call is gone: when the form waited for it, the form is ready, and shows what it
\* did, which is nothing.
LEMMA CallGone ==
  ASSUME NEW net \in Seq(RedeemCalls), NEW i \in DOMAIN net, NEW tab, NEW zips,
         FormWaits(tab, net, zips), NEW next,
         next.batchResults = tab.batchResults, next.packed = tab.packed,
         next.loading = IF net[i].to = "tab" THEN FALSE ELSE tab.loading
  PROVE  FormWaits(next, RemoveAt(net, i), zips)
<1> DEFINE r == RemoveAt(net, i)
<1>1. /\ \A k \in Places(r, TabCalls) : \E j \in Places(net, TabCalls) \ {i} : r[k] = net[j]
      /\ AtMostOne(Places(net, TabCalls)) => AtMostOne(Places(r, TabCalls))
      /\ AtMostOne(Places(net, TabCalls)) /\ net[i] \in TabCalls => Places(r, TabCalls) = {}
  BY PlacesAfter
<1> HIDE DEF r
<1>2. CASE net[i].to = "tab"
  <2>1. net[i] \in TabCalls /\ i \in Places(net, TabCalls)
    BY <1>2 DEF TabCalls, Places
  <2>2. Places(r, TabCalls) = {} /\ tab.batchResults = <<>> /\ Places(zips, TabZips) = {}
    BY <1>1, <2>1 DEF FormWaits
  <2>. QED BY <1>2, <2>2, SuccessFacts DEF FormWaits, AtMostOne, r
<1>3. CASE net[i].to # "tab"
  BY <1>1, <1>3 DEF FormWaits, r
<1>. QED BY <1>2, <1>3

\* The parts of calls and archives, and what is left of one that lost its form.
LEMMA TaskFacts ==
  /\ \A call \in RedeemCalls : /\ call.codes \in Seq(CdkCodes) /\ call.results \in Seq(Results)
                                /\ call.to \in {"tab", "page", "nobody"}
  /\ \A call \in RedeemCalls, to \in {"tab", "page", "nobody"} :
       /\ [call EXCEPT !.to = to] \in RedeemCalls
       /\ [call EXCEPT !.to = to].results = call.results
       /\ [call EXCEPT !.to = to].to = to
  /\ \A call \in RedeemCalls, results \in Seq(Results) :
       /\ [call EXCEPT !.results = results] \in RedeemCalls
       /\ [call EXCEPT !.results = results].results = results
       /\ [call EXCEPT !.results = results].to = call.to
  /\ \A zip \in RedeemZips : zip.files \subseteq Results /\ zip.auto \in BOOLEAN /\ zip.to \in {"tab", "page"}
  /\ \A zip \in RedeemZips, to \in {"tab", "page"} :
       [zip EXCEPT !.to = to] \in RedeemZips /\ [zip EXCEPT !.to = to].to = to
<1>1. /\ \A call \in RedeemCalls : /\ call.codes \in Seq(CdkCodes) /\ call.results \in Seq(Results)
                                    /\ call.to \in {"tab", "page", "nobody"}
      /\ \A call \in RedeemCalls, to \in {"tab", "page", "nobody"} :
           /\ [call EXCEPT !.to = to] \in RedeemCalls
           /\ [call EXCEPT !.to = to].results = call.results
           /\ [call EXCEPT !.to = to].to = to
  BY DEF RedeemCalls
<1>2. \A call \in RedeemCalls, results \in Seq(Results) :
        /\ [call EXCEPT !.results = results] \in RedeemCalls
        /\ [call EXCEPT !.results = results].results = results
        /\ [call EXCEPT !.results = results].to = call.to
  BY DEF RedeemCalls
<1>3. /\ \A zip \in RedeemZips : zip.files \subseteq Results /\ zip.auto \in BOOLEAN /\ zip.to \in {"tab", "page"}
      /\ \A zip \in RedeemZips, to \in {"tab", "page"} :
           [zip EXCEPT !.to = to] \in RedeemZips /\ [zip EXCEPT !.to = to].to = to
  BY DEF RedeemZips
<1>. QED BY <1>1, <1>2, <1>3

\* The fresh form waits for nothing and shows nothing.
LEMMA FreshForm ==
  /\ FreshTab \in TabStates
  /\ \A net, zips : Places(net, TabCalls) = {} /\ Places(zips, TabZips) = {} => FormWaits(FreshTab, net, zips)
<1>1. FreshTab \in TabStates /\ FreshTab.batchResults = <<>> /\ FreshTab.packed = {}
  BY DEF FreshTab, TabStates
<1>. QED BY <1>1, SuccessFacts DEF FormWaits, AtMostOne

\* The page as it is opened.
LEMMA RedeemBegins == RedeemInit => RedeemInv
<1> SUFFICES ASSUME RedeemInit PROVE RedeemInv
  OBVIOUS
<1>1. RedeemTypes
  BY FreshForm DEF RedeemInit, RedeemTypes
<1>2. HistoryKeeps(redeemPage, redeemLog)
  BY RedeemPageAssumption DEF RedeemInit, HistoryKeeps, PageStates, RedeemLogs
<1>3. GrantedIsFound
  BY DEF RedeemInit, GrantedIsFound
<1>4. FormWaits(redeemTab, redeemNet, redeemZips)
  BY FreshForm DEF RedeemInit, Places
<1>. QED BY <1>1, <1>2, <1>3, <1>4 DEF RedeemInv

\* The form as a set of records, field by field.
LEMMA TabFacts ==
  ASSUME NEW tab \in TabStates
  PROVE  /\ tab.codeInput \in Seq(DOMAIN CdkForm) /\ tab.loading \in BOOLEAN
         /\ tab.batchResults \in Seq(Results) /\ tab.packed \subseteq Results
BY DEF TabStates

\* What the user does in the form changes neither the history nor a call.
LEMMA FormStep ==
  ASSUME RedeemInv,
         \/ EditEmail \/ \E text \in CdkTexts : EditCodes(text)
         \/ handlePaste \/ RejectForm \/ SendForm \/ downloadArchive
  PROVE  RedeemInv'
<1> USE DEF RedeemInv, RedeemTypes
<1>0. /\ UNCHANGED <<redeemPage, cdkUsed, redeemLog>> => HistoryKeeps(redeemPage, redeemLog)'
      /\ UNCHANGED <<redeemNet, cdkUsed, redeemLog>> => GrantedIsFound'
  BY DEF GrantedIsFound
<1>1. CASE EditEmail \/ handlePaste \/ RejectForm
  <2>1. /\ redeemTab'.loading = redeemTab.loading /\ redeemTab'.packed = redeemTab.packed
        /\ redeemTab'.batchResults = redeemTab.batchResults
    BY <1>1 DEF EditEmail, handlePaste, RejectForm, TabStates
  <2>2. redeemTab' \in TabStates
    BY <1>1, RedeemPageAssumption DEF EditEmail, handlePaste, RejectForm, TabStates
  <2>3. UNCHANGED <<redeemPage, redeemNet, redeemZips, cdkUsed, redeemLog>>
    BY <1>1 DEF EditEmail, handlePaste, RejectForm
  <2>4. FormWaits(redeemTab', redeemNet, redeemZips)
    BY <2>1, SameForm
  <2>. QED BY <1>0, <2>2, <2>3, <2>4
<1>2. ASSUME NEW text \in CdkTexts, EditCodes(text) PROVE RedeemInv'
  <2> DEFINE none == <<>>
  <2>0. none \in Seq(Results) /\ text \in Seq(DOMAIN CdkForm)
    BY RedeemPageAssumption
  <2>a. redeemTab' = [redeemTab EXCEPT !.codeInput = text, !.error = FALSE, !.batchResults = none, !.packed = {}]
    BY <1>2 DEF EditCodes
  <2> HIDE DEF none
  <2>b. redeemTab'.loading = redeemTab.loading /\ redeemTab'.batchResults = none
    BY <2>a DEF TabStates
  <2>c. redeemTab' \in TabStates
    BY <2>0, <2>a DEF TabStates
  <2>1. /\ redeemTab'.loading = redeemTab.loading /\ redeemTab'.batchResults = <<>>
        /\ redeemTab' \in TabStates
    BY <2>b, <2>c DEF none
  <2>2. UNCHANGED <<redeemPage, redeemNet, redeemZips, cdkUsed, redeemLog>>
    BY <1>2 DEF EditCodes
  <2>3. FormWaits(redeemTab', redeemNet, redeemZips)
    BY <2>1, SuccessFacts DEF FormWaits
  <2>. QED BY <1>0, <2>1, <2>2, <2>3
<1>3. CASE SendForm
  <2> DEFINE codes == parseCdkList(redeemTab.codeInput)
             call == [codes |-> codes, results |-> <<>>, to |-> "tab"]
  <2>1. /\ ~redeemTab.loading /\ redeemNet' = Append(redeemNet, call)
        /\ UNCHANGED <<redeemPage, redeemZips, cdkUsed, redeemLog>>
        /\ redeemTab' = [redeemTab EXCEPT !.loading = TRUE, !.error = FALSE, !.batchResults = <<>>, !.packed = {}]
    BY <1>3 DEF SendForm
  <2>2. redeemTab' \in TabStates /\ redeemTab'.loading /\ redeemTab'.batchResults = <<>>
    <3> DEFINE none == <<>>
    <3>1. none \in Seq(Results)
      OBVIOUS
    <3>2. redeemTab' = [redeemTab EXCEPT !.loading = TRUE, !.error = FALSE, !.batchResults = none, !.packed = {}]
      BY <2>1
    <3> HIDE DEF none
    <3>3. redeemTab'.loading /\ redeemTab'.batchResults = none
      BY <3>2 DEF TabStates
    <3>4. redeemTab' \in TabStates
      BY <3>1, <3>2 DEF TabStates
    <3>. QED BY <3>3, <3>4 DEF none
  <2>3. codes \in Seq(CdkCodes)
    BY TabFacts, CodeLists
  <2>4. call \in RedeemCalls /\ call \in TabCalls /\ call.results = <<>>
    BY <2>3 DEF RedeemCalls, TabCalls
  <2> HIDE DEF call
  <2>5. /\ redeemNet' \in Seq(RedeemCalls) /\ DOMAIN redeemNet' = DOMAIN redeemNet \cup {Len(redeemNet) + 1}
        /\ redeemNet'[Len(redeemNet) + 1] = call /\ \A k \in DOMAIN redeemNet : redeemNet'[k] = redeemNet[k]
    BY <2>1, <2>4, AppendFacts
  <2>6. OnTheWay(redeemNet) \subseteq OnTheWay(redeemNet')
    BY <2>5 DEF OnTheWay
  <2>7. GrantedIsFound'
    BY <2>1, <2>6 DEF GrantedIsFound
  <2>8. Places(redeemNet, TabCalls) = {} /\ Places(redeemZips, TabZips) = {}
    BY <2>1 DEF FormWaits
  <2>9. Places(redeemNet', TabCalls) \subseteq {Len(redeemNet) + 1}
    BY <2>5, <2>8 DEF Places
  <2>10. FormWaits(redeemTab', redeemNet', redeemZips)
    BY <2>2, <2>8, <2>9, SuccessFacts DEF FormWaits, AtMostOne
  <2>. QED BY <1>0, <2>1, <2>2, <2>5, <2>7, <2>10
<1>4. CASE downloadArchive
  <2> DEFINE zip == [files |-> createRedeemArchive(redeemTab.batchResults), auto |-> FALSE, to |-> "tab"]
  <2>1. /\ redeemZips' = Append(redeemZips, zip)
        /\ UNCHANGED <<redeemPage, redeemNet, cdkUsed, redeemLog>>
        /\ redeemTab' = [redeemTab EXCEPT !.archiveLoading = TRUE]
    BY <1>4 DEF downloadArchive
  <2>2. /\ redeemTab' \in TabStates /\ redeemTab'.loading = redeemTab.loading
        /\ redeemTab'.batchResults = redeemTab.batchResults /\ redeemTab'.packed = redeemTab.packed
    BY <2>1 DEF TabStates
  <2>3. createRedeemArchive(redeemTab.batchResults) \subseteq Results
    BY TabFacts, SuccessFacts DEF createRedeemArchive
  <2>4. zip \in RedeemZips /\ zip \notin TabZips
    BY <2>3 DEF RedeemZips, TabZips
  <2> HIDE DEF zip
  <2>5. /\ redeemZips' \in Seq(RedeemZips) /\ DOMAIN redeemZips' = DOMAIN redeemZips \cup {Len(redeemZips) + 1}
        /\ redeemZips'[Len(redeemZips) + 1] = zip /\ \A k \in DOMAIN redeemZips : redeemZips'[k] = redeemZips[k]
    BY <2>1, <2>4, AppendFacts
  <2>6. /\ Places(redeemZips', TabZips) = Places(redeemZips, TabZips)
        /\ \A k \in Places(redeemZips, TabZips) : redeemZips'[k] = redeemZips[k]
    BY <2>4, <2>5 DEF Places
  <2>7. FormWaits(redeemTab', redeemNet, redeemZips')
    BY <2>2, <2>6 DEF FormWaits
  <2>. QED BY <1>0, <2>1, <2>2, <2>5, <2>7
<1>. QED BY <1>1, <1>2, <1>3, <1>4

\* A handler that fails, or ends, with the form it found or another one mounted.
LEMMA TabReady ==
  ASSUME redeemTab \in TabStates, NEW call, NEW input \in Seq(DOMAIN CdkForm), NEW wrong \in BOOLEAN,
         SetTab(call, [redeemTab EXCEPT !.codeInput = input, !.error = wrong, !.loading = FALSE])
  PROVE  /\ redeemTab' \in TabStates
         /\ redeemTab'.batchResults = redeemTab.batchResults
         /\ redeemTab'.packed = redeemTab.packed
         /\ redeemTab'.loading = IF call.to = "tab" THEN FALSE ELSE redeemTab.loading
<1> DEFINE next == [redeemTab EXCEPT !.codeInput = input, !.error = wrong, !.loading = FALSE]
<1>1. /\ next \in TabStates /\ next.batchResults = redeemTab.batchResults
      /\ next.packed = redeemTab.packed /\ next.loading = FALSE
  BY DEF TabStates
<1>2. redeemTab' = IF call.to = "tab" THEN next ELSE redeemTab
  BY DEF SetTab
<1> HIDE DEF next
<1>. QED BY <1>1, <1>2

\* Such a handler shows an error, or an empty form.
LEMMA TabFails ==
  ASSUME redeemTab \in TabStates, NEW call,
         \/ SetTab(call, [redeemTab EXCEPT !.error = TRUE, !.loading = FALSE])
         \/ SetTab(call, [redeemTab EXCEPT !.codeInput = <<>>, !.loading = FALSE])
  PROVE  /\ redeemTab' \in TabStates
         /\ redeemTab'.batchResults = redeemTab.batchResults
         /\ redeemTab'.packed = redeemTab.packed
         /\ redeemTab'.loading = IF call.to = "tab" THEN FALSE ELSE redeemTab.loading
<1> DEFINE none == <<>>
<1>0. none \in Seq(DOMAIN CdkForm) /\ redeemTab.codeInput \in Seq(DOMAIN CdkForm) /\ redeemTab.error \in BOOLEAN
  BY DEF TabStates
<1>1. /\ [redeemTab EXCEPT !.error = TRUE, !.loading = FALSE]
           = [redeemTab EXCEPT !.codeInput = redeemTab.codeInput, !.error = TRUE, !.loading = FALSE]
      /\ [redeemTab EXCEPT !.codeInput = none, !.loading = FALSE]
           = [redeemTab EXCEPT !.codeInput = none, !.error = redeemTab.error, !.loading = FALSE]
  BY DEF TabStates
<1>2. CASE SetTab(call, [redeemTab EXCEPT !.error = TRUE, !.loading = FALSE])
  <2>1. SetTab(call, [redeemTab EXCEPT !.codeInput = redeemTab.codeInput, !.error = TRUE, !.loading = FALSE])
    BY <1>1, <1>2 DEF SetTab
  <2>. QED BY <1>0, <2>1, TabReady
<1>3. CASE SetTab(call, [redeemTab EXCEPT !.codeInput = none, !.loading = FALSE])
  <2>1. SetTab(call, [redeemTab EXCEPT !.codeInput = none, !.error = redeemTab.error, !.loading = FALSE])
    BY <1>1, <1>3 DEF SetTab
  <2>. QED BY <1>0, <2>1, TabReady
<1>. QED BY <1>2, <1>3

\* Noting more than before loses nothing: the results of a call that is gone are
\* either no successes or noted.
LEMMA StillFound ==
  ASSUME RedeemInv, NEW i \in DOMAIN redeemNet, redeemNet' = RemoveAt(redeemNet, i), cdkUsed' = cdkUsed,
         Noted(redeemLog) \cup Successes(redeemNet[i].results) \subseteq Noted(redeemLog')
  PROVE  GrantedIsFound'
<1>1. OnTheWay(redeemNet) \subseteq OnTheWay(redeemNet') \cup ToSet(redeemNet[i].results)
  BY OthersOnTheWay DEF RedeemInv, RedeemTypes
<1> SUFFICES ASSUME NEW c \in CdkCodes, NEW n \in 1 .. cdkUsed[c]
             PROVE  <<c, n>> \in Noted(redeemLog') \cup OnTheWay(redeemNet')
  BY DEF GrantedIsFound
<1>2. n \in Nat \ {0}
  BY DEF RedeemInv, RedeemTypes
<1>3. <<c, n>> \in Noted(redeemLog) \cup OnTheWay(redeemNet)
  BY DEF RedeemInv, GrantedIsFound
<1>4. <<c, n>> \in ToSet(redeemNet[i].results) => <<c, n>> \in Successes(redeemNet[i].results)
  BY <1>2, SuccessFacts
<1>. QED BY <1>1, <1>3, <1>4

\* Settling results changes only what need not be kept.
LEMMA SettleFacts ==
  ASSUME HistoryKeeps(redeemPage, redeemLog), NEW done \in SUBSET Results, Settle(done)
  PROVE  /\ HistoryKeeps(redeemPage, redeemLog')
         /\ redeemLog'.recent = redeemLog.recent /\ redeemLog'.settled = redeemLog.settled \cup done
         /\ redeemLog' \in RedeemLogs
         /\ Noted(redeemLog) \cup done \subseteq Noted(redeemLog')
<1>1. redeemLog \in RedeemLogs /\ redeemLog' = [redeemLog EXCEPT !.settled = @ \cup done]
  BY DEF HistoryKeeps, Settle
<1>2. /\ redeemLog'.recent = redeemLog.recent /\ redeemLog'.settled = redeemLog.settled \cup done
      /\ redeemLog' \in RedeemLogs
  BY <1>1 DEF RedeemLogs
<1>3. HistoryKeeps(redeemPage, redeemLog')
  BY <1>2 DEF HistoryKeeps
<1>4. Noted(redeemLog) \cup done \subseteq Noted(redeemLog')
  BY <1>2 DEF Noted
<1>. QED BY <1>2, <1>3, <1>4

\* The server works on a call, or its connection breaks: nothing reaches the page.
LEMMA ServerStep ==
  ASSUME RedeemInv, NEW i \in DOMAIN redeemNet, NetworkFails(i) \/ ServeCall(i)
  PROVE  RedeemInv'
<1> USE DEF RedeemInv, RedeemTypes
<1> DEFINE call == redeemNet[i]
<1>0. /\ call \in RedeemCalls /\ call.codes \in Seq(CdkCodes) /\ call.results \in Seq(Results)
      /\ Successes(call.results) \subseteq Results
  BY TaskFacts, SuccessFacts
<1>1. CASE NetworkFails(i)
  <2> DEFINE lost == [call EXCEPT !.to = "nobody"]
  <2>1. lost \in RedeemCalls /\ lost.results = call.results /\ lost.to = "nobody"
    BY <1>0, TaskFacts
  <2>2. redeemNet' = [redeemNet EXCEPT ![i] = lost] /\ UNCHANGED <<redeemPage, redeemZips, cdkUsed, redeemLog>>
    BY <1>1 DEF NetworkFails
  <2> HIDE DEF lost
  <2>3. /\ redeemNet' \in Seq(RedeemCalls) /\ DOMAIN redeemNet' = DOMAIN redeemNet
        /\ redeemNet'[i] = lost /\ \A k \in DOMAIN redeemNet \ {i} : redeemNet'[k] = redeemNet[k]
    BY <2>1, <2>2, ExceptFacts
  <2>4. /\ redeemTab' \in TabStates /\ redeemTab'.batchResults = redeemTab.batchResults
        /\ redeemTab'.packed = redeemTab.packed
        /\ redeemTab'.loading = IF call.to = "tab" THEN FALSE ELSE redeemTab.loading
    BY <1>1, TabFails DEF NetworkFails
  <2>5. \A k \in DOMAIN redeemNet : redeemNet'[k].results = redeemNet[k].results
    BY <2>1, <2>3
  <2>6. OnTheWay(redeemNet') = OnTheWay(redeemNet)
    BY <2>3, <2>5 DEF OnTheWay
  <2>7. GrantedIsFound'
    BY <2>2, <2>6 DEF GrantedIsFound
  <2>8. lost \notin TabCalls
    BY <2>1 DEF TabCalls
  <2>9. Places(redeemNet', TabCalls) = Places(redeemNet, TabCalls) \ {i}
    BY <2>3, <2>8 DEF Places
  <2>10. FormWaits(redeemTab', redeemNet', redeemZips)
    <3>1. CASE call.to = "tab"
      <4>1. i \in Places(redeemNet, TabCalls)
        BY <1>0, <3>1 DEF Places, TabCalls
      <4>2. Places(redeemNet', TabCalls) = {}
        BY <2>9, <4>1 DEF FormWaits, AtMostOne
      <4>. QED BY <2>4, <4>1, <4>2, SuccessFacts DEF FormWaits, AtMostOne
    <3>2. CASE call.to # "tab"
      BY <2>4, <2>9, <3>2 DEF FormWaits, AtMostOne
    <3>. QED BY <3>1, <3>2
  <2>. QED BY <2>2, <2>3, <2>4, <2>7, <2>10
<1>2. CASE ServeItem(i)
  <2> DEFINE code == call.codes[Len(call.results) + 1]
             use == IF cdkUsed[code] < CdkUses[code] THEN cdkUsed[code] + 1 ELSE 0
             more == Append(call.results, <<code, use>>)
             next == [call EXCEPT !.results = more]
  <2>1. /\ Len(call.results) < Len(call.codes)
        /\ cdkUsed' = IF use > 0 THEN [cdkUsed EXCEPT ![code] = use] ELSE cdkUsed
        /\ redeemNet' = [redeemNet EXCEPT ![i] = next]
        /\ UNCHANGED <<redeemTab, redeemPage, redeemZips, redeemLog>>
    BY <1>2 DEF ServeItem
  <2>2. code \in CdkCodes
    BY <1>0, <2>1
  <2> HIDE DEF code
  <2>3. use \in Nat /\ (use > 0 => use = cdkUsed[code] + 1)
    BY <2>2
  <2> HIDE DEF use
  <2>4. <<code, use>> \in Results
    BY <2>2, <2>3 DEF Results
  <2>5. more \in Seq(Results) /\ ToSet(more) = ToSet(call.results) \cup {<<code, use>>}
    BY <1>0, <2>4, AppendFacts DEF ToSet
  <2> HIDE DEF more
  <2>6. next \in RedeemCalls /\ next.results = more /\ next.to = call.to
    BY <1>0, <2>5, TaskFacts
  <2> HIDE DEF next
  <2>7. /\ redeemNet' \in Seq(RedeemCalls) /\ DOMAIN redeemNet' = DOMAIN redeemNet
        /\ redeemNet'[i] = next /\ \A k \in DOMAIN redeemNet \ {i} : redeemNet'[k] = redeemNet[k]
    BY <2>1, <2>6, ExceptFacts
  <2>8. \A k \in DOMAIN redeemNet : ToSet(redeemNet[k].results) \subseteq ToSet(redeemNet'[k].results)
    BY <2>5, <2>6, <2>7
  <2>9. OnTheWay(redeemNet) \cup {<<code, use>>} \subseteq OnTheWay(redeemNet')
    BY <2>5, <2>6, <2>7, <2>8 DEF OnTheWay
  <2>10. cdkUsed' \in [CdkCodes -> Nat]
    BY <2>1, <2>2, <2>3
  <2>11. GrantedIsFound'
    <3> SUFFICES ASSUME NEW c \in CdkCodes, NEW n \in 1 .. cdkUsed'[c]
                 PROVE  <<c, n>> \in Noted(redeemLog) \cup OnTheWay(redeemNet')
      BY <2>1 DEF GrantedIsFound
    <3>1. n \in 1 .. cdkUsed[c] \/ (c = code /\ n = use)
      BY <2>1, <2>2, <2>3
    <3>. QED BY <2>9, <3>1 DEF GrantedIsFound
  <2>12. \A k \in DOMAIN redeemNet : redeemNet'[k] \in TabCalls <=> redeemNet[k] \in TabCalls
    BY <1>0, <2>6, <2>7 DEF TabCalls
  <2>13. Places(redeemNet', TabCalls) = Places(redeemNet, TabCalls)
    BY <2>7, <2>12 DEF Places
  <2>14. FormWaits(redeemTab, redeemNet', redeemZips)
    BY <2>13 DEF FormWaits
  <2>. QED BY <2>1, <2>7, <2>10, <2>11, <2>14
<1>3. CASE ServerRefuses(i)
  <2>1. /\ redeemNet' = RemoveAt(redeemNet, i) /\ Settle(Successes(call.results))
        /\ UNCHANGED <<redeemPage, redeemZips, cdkUsed>>
        /\ SetTab(call, [redeemTab EXCEPT !.error = TRUE, !.loading = FALSE])
    BY <1>3 DEF ServerRefuses
  <2>2. /\ redeemTab' \in TabStates /\ redeemTab'.batchResults = redeemTab.batchResults
        /\ redeemTab'.packed = redeemTab.packed
        /\ redeemTab'.loading = IF call.to = "tab" THEN FALSE ELSE redeemTab.loading
    BY <2>1, TabFails
  <2>3. /\ HistoryKeeps(redeemPage, redeemLog')
        /\ Noted(redeemLog) \cup Successes(call.results) \subseteq Noted(redeemLog')
    BY <1>0, <2>1, SettleFacts
  <2>4. GrantedIsFound'
    BY <2>1, <2>3, StillFound
  <2>5. FormWaits(redeemTab', redeemNet', redeemZips)
    BY <2>1, <2>2, CallGone
  <2>6. redeemNet' \in Seq(RedeemCalls)
    BY <2>1, RemoveAtFacts
  <2>. QED BY <2>1, <2>2, <2>3, <2>4, <2>5, <2>6
<1>4. CASE AnswerIsLost(i)
  <2>1. /\ redeemNet' = RemoveAt(redeemNet, i) /\ Settle(Successes(call.results)) /\ call.to # "tab"
        /\ UNCHANGED <<redeemTab, redeemPage, redeemZips, cdkUsed>>
    BY <1>4 DEF AnswerIsLost
  <2>2. /\ HistoryKeeps(redeemPage, redeemLog')
        /\ Noted(redeemLog) \cup Successes(call.results) \subseteq Noted(redeemLog')
    BY <1>0, <2>1, SettleFacts
  <2>3. GrantedIsFound'
    BY <2>1, <2>2, StillFound
  <2>4. FormWaits(redeemTab, redeemNet', redeemZips)
    BY <2>1, CallGone
  <2>5. redeemNet' \in Seq(RedeemCalls)
    BY <2>1, RemoveAtFacts
  <2>. QED BY <2>1, <2>2, <2>3, <2>4, <2>5
<1>. QED BY <1>1, <1>2, <1>3, <1>4 DEF ServeCall

\* Dialogs and panels are no part of the history.
LEMMA SameHistory ==
  ASSUME NEW page, NEW log, HistoryKeeps(page, log), NEW next \in PageStates,
         next.history = page.history, next.stored = page.stored, next.canStore = page.canStore
  PROVE  HistoryKeeps(next, log)
BY DEF HistoryKeeps

\* A success whose dialog opens.
LEMMA OpenSuccess ==
  ASSUME HistoryKeeps(redeemPage, redeemLog), NEW r \in Results, IsSuccess(r),
         redeemPage' = [KeepSuccesses(<<r>>).page EXCEPT !.resultOpen = TRUE],
         redeemLog' = KeepSuccesses(<<r>>).log
  PROVE  /\ HistoryKeeps(redeemPage', redeemLog')
         /\ Noted(redeemLog) \cup {r} \subseteq Noted(redeemLog')
<1> DEFINE one == <<r>>
           page == KeepSuccesses(one).page
<1>1. one \in Seq(Results) /\ Successes(one) = {r}
  BY DEF Successes, ToSet
<1> HIDE DEF one
<1>2. /\ HistoryKeeps(page, KeepSuccesses(one).log)
      /\ Noted(redeemLog) \cup {r} \subseteq Noted(KeepSuccesses(one).log)
  BY <1>1, AllSuccesses
<1>3. redeemPage' = [page EXCEPT !.resultOpen = TRUE] /\ redeemLog' = KeepSuccesses(one).log
  BY DEF one
<1> HIDE DEF page
<1>4. page \in PageStates
  BY <1>2 DEF HistoryKeeps
<1>5. /\ redeemPage' \in PageStates /\ redeemPage'.history = page.history
      /\ redeemPage'.stored = page.stored /\ redeemPage'.canStore = page.canStore
  BY <1>3, <1>4 DEF PageStates
<1>. QED BY <1>2, <1>3, <1>5, SameHistory

\* An answer reaches the page, and the form when it is still mounted.
LEMMA AnswerStep ==
  ASSUME RedeemInv, NEW i \in DOMAIN redeemNet, AnswerCall(i)
  PROVE  RedeemInv'
<1> USE DEF RedeemInv, RedeemTypes
<1> DEFINE call == redeemNet[i]
           results == call.results
<1>0. /\ call \in RedeemCalls /\ call.codes \in Seq(CdkCodes) /\ results \in Seq(Results)
      /\ call.to \in {"tab", "page", "nobody"} /\ Successes(results) \subseteq Results
  BY TaskFacts, SuccessFacts
<1>1. CASE SingleAnswer(i)
  <2> DEFINE r == results[1]
  <2>1. /\ redeemNet' = RemoveAt(redeemNet, i) /\ UNCHANGED <<redeemZips, cdkUsed>> /\ Len(results) = 1
        /\ \/ /\ ~IsSuccess(r) /\ UNCHANGED <<redeemPage, redeemLog>>
              /\ SetTab(call, [redeemTab EXCEPT !.error = TRUE, !.loading = FALSE])
           \/ /\ IsSuccess(r)
              /\ SetTab(call, [redeemTab EXCEPT !.codeInput = <<>>, !.loading = FALSE])
              /\ redeemPage' = [KeepSuccesses(<<r>>).page EXCEPT !.resultOpen = TRUE]
              /\ redeemLog' = KeepSuccesses(<<r>>).log
    BY <1>1 DEF SingleAnswer, Answered
  <2>2. r \in Results /\ ToSet(results) = {r}
    BY <1>0, <2>1 DEF ToSet
  <2>3. Successes(results) = IF IsSuccess(r) THEN {r} ELSE {}
    BY <2>2 DEF Successes
  <2> HIDE DEF r
  <2>4. /\ HistoryKeeps(redeemPage', redeemLog')
        /\ Noted(redeemLog) \cup Successes(results) \subseteq Noted(redeemLog')
    <3>1. CASE IsSuccess(r)
      BY <2>1, <2>2, <2>3, <3>1, OpenSuccess
    <3>2. CASE ~IsSuccess(r)
      BY <2>1, <2>3, <3>2
    <3>. QED BY <3>1, <3>2
  <2>5. /\ redeemTab' \in TabStates /\ redeemTab'.batchResults = redeemTab.batchResults
        /\ redeemTab'.packed = redeemTab.packed
        /\ redeemTab'.loading = IF call.to = "tab" THEN FALSE ELSE redeemTab.loading
    BY <2>1, TabFails
  <2>6. GrantedIsFound'
    BY <2>1, <2>4, StillFound
  <2>7. FormWaits(redeemTab', redeemNet', redeemZips)
    BY <2>1, <2>5, CallGone
  <2>8. redeemNet' \in Seq(RedeemCalls)
    BY <2>1, RemoveAtFacts
  <2>. QED BY <2>1, <2>4, <2>5, <2>6, <2>7, <2>8
<1>2. CASE BatchAnswer(i)
  <2> DEFINE won == Successes(results)
             rest == RefusedCodes(results)
             next == [redeemTab EXCEPT !.batchResults = results, !.packed = {}, !.codeInput = rest]
             zip == [files |-> createRedeemArchive(results), auto |-> TRUE, to |-> call.to]
  <2>1. /\ redeemNet' = RemoveAt(redeemNet, i) /\ UNCHANGED cdkUsed /\ call.to # "nobody"
        /\ redeemPage' = KeepSuccesses(results).page /\ redeemLog' = KeepSuccesses(results).log
        /\ \/ won = {} /\ SetTab(call, [next EXCEPT !.loading = FALSE]) /\ UNCHANGED redeemZips
           \/ /\ won # {} /\ SetTab(call, [next EXCEPT !.archiveLoading = TRUE])
              /\ redeemZips' = Append(redeemZips, zip)
    BY <1>2 DEF BatchAnswer
  <2>2. /\ HistoryKeeps(redeemPage', redeemLog')
        /\ Noted(redeemLog) \cup won \subseteq Noted(redeemLog')
    BY <1>0, <2>1, AllSuccesses
  <2>3. GrantedIsFound'
    BY <2>1, <2>2, StillFound
  <2>4. rest \in Seq(DOMAIN CdkForm) /\ createRedeemArchive(results) = won
    BY <1>0, CodeLists DEF createRedeemArchive
  <2> HIDE DEF rest, call
  <2>5. /\ next \in TabStates /\ next.loading = redeemTab.loading
        /\ next.batchResults = results /\ next.packed = {}
    BY <1>0, <2>4 DEF TabStates
  <2>6. /\ [next EXCEPT !.loading = FALSE] \in TabStates
        /\ [next EXCEPT !.loading = FALSE].loading = FALSE
        /\ [next EXCEPT !.loading = FALSE].batchResults = results
        /\ [next EXCEPT !.archiveLoading = TRUE] \in TabStates
        /\ [next EXCEPT !.archiveLoading = TRUE].loading = redeemTab.loading
        /\ [next EXCEPT !.archiveLoading = TRUE].batchResults = results
    <3> HIDE DEF next
    <3>. QED BY <2>5 DEF TabStates
  <2> HIDE DEF next
  <2>7. zip \in RedeemZips /\ zip.files = won /\ (zip \in TabZips <=> call.to = "tab")
    BY <1>0, <2>1, <2>4 DEF RedeemZips, TabZips
  <2> HIDE DEF zip
  <2>a. redeemNet \in Seq(RedeemCalls) /\ i \in DOMAIN redeemNet /\ redeemNet' = RemoveAt(redeemNet, i)
    BY <2>1 DEF RedeemInv, RedeemTypes
  <2>8. /\ redeemNet' \in Seq(RedeemCalls)
        /\ AtMostOne(Places(redeemNet', TabCalls))
        /\ call.to = "tab" => Places(redeemNet', TabCalls) = {} /\ Places(redeemZips, TabZips) = {} /\ redeemTab.loading
        /\ Places(redeemNet', TabCalls) # {} => Places(redeemNet, TabCalls) # {}
    <3> DEFINE net == redeemNet
               left == redeemNet'
               old == Places(net, TabCalls)
               now == Places(left, TabCalls)
    <3>a. net \in Seq(RedeemCalls) /\ i \in DOMAIN net /\ left = RemoveAt(net, i)
      BY <2>a
    <3> HIDE DEF net, left
    <3>b. left \in Seq(RedeemCalls)
      BY <3>a, RemoveAtFacts
    <3>c. \A k \in now : Before(i, k) \in old
      <4>1. \A k \in DOMAIN left : Before(i, k) \in DOMAIN net \ {i} /\ left[k] = net[Before(i, k)]
        BY <3>a, OthersStay
      <4>. QED BY <4>1 DEF Places
    <3>d. AtMostOne(old) => AtMostOne(now)
      BY <3>a, PlacesAfter
    <3>e. AtMostOne(old) /\ net[i] \in TabCalls => now = {}
      BY <3>a, PlacesAfter
    <3>1. /\ left \in Seq(RedeemCalls) /\ (now # {} => old # {})
          /\ AtMostOne(old) => AtMostOne(now)
          /\ AtMostOne(old) /\ net[i] \in TabCalls => now = {}
      BY <3>b, <3>c, <3>d, <3>e
    <3>2. call.to = "tab" => call \in TabCalls /\ i \in Places(redeemNet, TabCalls)
      BY <1>0 DEF TabCalls, Places, call
    <3>. QED BY <3>1, <3>2 DEF FormWaits, call, net, left
  <2>9. CASE won = {}
    <3>1. redeemZips' = redeemZips /\ redeemTab' = IF call.to = "tab" THEN [next EXCEPT !.loading = FALSE] ELSE redeemTab
      BY <2>1, <2>9 DEF SetTab
    <3>2. redeemTab' \in TabStates
      BY <2>6, <3>1
    <3>3. FormWaits(redeemTab', redeemNet', redeemZips')
      BY <2>6, <2>8, <2>9, <3>1 DEF FormWaits, AtMostOne
    <3>. QED BY <2>1, <2>2, <2>3, <2>8, <3>1, <3>2, <3>3
  <2>10. CASE won # {}
    <3>1. /\ redeemZips' = Append(redeemZips, zip)
          /\ redeemTab' = IF call.to = "tab" THEN [next EXCEPT !.archiveLoading = TRUE] ELSE redeemTab
      BY <2>1, <2>10 DEF SetTab
    <3>2. redeemTab' \in TabStates
      BY <2>6, <3>1
    <3>3. /\ redeemZips' \in Seq(RedeemZips) /\ DOMAIN redeemZips' = DOMAIN redeemZips \cup {Len(redeemZips) + 1}
          /\ redeemZips'[Len(redeemZips) + 1] = zip /\ \A k \in DOMAIN redeemZips : redeemZips'[k] = redeemZips[k]
      BY <2>7, <3>1, AppendFacts
    <3>4. FormWaits(redeemTab', redeemNet', redeemZips')
      <4>1. CASE call.to = "tab"
        <5>1. Places(redeemZips', TabZips) \subseteq {Len(redeemZips) + 1}
          BY <2>8, <3>3, <4>1 DEF Places
        <5>2. redeemTab'.loading /\ Successes(redeemTab'.batchResults) = won
          BY <2>6, <2>8, <3>1, <4>1
        <5>3. \A k \in Places(redeemZips', TabZips) : redeemZips'[k].files = won
          BY <2>7, <3>3, <5>1
        <5>. QED BY <2>8, <4>1, <5>1, <5>2, <5>3 DEF FormWaits, AtMostOne
      <4>2. CASE call.to # "tab"
        <5>1. /\ Places(redeemZips', TabZips) = Places(redeemZips, TabZips)
              /\ \A k \in Places(redeemZips, TabZips) : redeemZips'[k] = redeemZips[k]
          BY <2>7, <3>3, <4>2 DEF Places
        <5>. QED BY <2>8, <3>1, <4>2, <5>1 DEF FormWaits
      <4>. QED BY <4>1, <4>2
    <3>. QED BY <2>1, <2>2, <2>3, <2>8, <3>2, <3>3, <3>4
  <2>. QED BY <2>9, <2>10
<1>. QED BY <1>1, <1>2 DEF AnswerCall

\* An archive is ready, or could not be made.
LEMMA ArchiveStep ==
  ASSUME RedeemInv, NEW i \in DOMAIN redeemZips, ArchiveEnds(i)
  PROVE  RedeemInv'
<1> USE DEF RedeemInv, RedeemTypes
<1> DEFINE zip == redeemZips[i]
           next == [redeemTab EXCEPT !.archiveLoading = FALSE, !.packed = redeemTab.packed \cup zip.files,
                                     !.loading = IF zip.auto THEN FALSE ELSE redeemTab.loading]
<1>0. zip \in RedeemZips /\ zip.files \subseteq Results /\ zip.auto \in BOOLEAN
  BY TaskFacts
<1>1. /\ redeemZips' = RemoveAt(redeemZips, i) /\ UNCHANGED <<redeemPage, redeemNet, cdkUsed, redeemLog>>
      /\ redeemTab' = IF zip.to = "tab" THEN next ELSE redeemTab
  BY DEF ArchiveEnds, SetTab
<1>2. zip \in TabZips <=> zip.to = "tab" /\ zip.auto
  BY <1>0 DEF TabZips
<1> HIDE DEF zip
<1>3. /\ next \in TabStates /\ next.batchResults = redeemTab.batchResults
      /\ next.packed = redeemTab.packed \cup zip.files
      /\ next.loading = IF zip.auto THEN FALSE ELSE redeemTab.loading
  BY <1>0 DEF TabStates
<1> HIDE DEF next
<1>4. /\ redeemZips' \in Seq(RedeemZips)
      /\ \A k \in Places(redeemZips', TabZips) :
           \E j \in Places(redeemZips, TabZips) \ {i} : redeemZips'[k] = redeemZips[j]
      /\ AtMostOne(Places(redeemZips, TabZips)) => AtMostOne(Places(redeemZips', TabZips))
      /\ AtMostOne(Places(redeemZips, TabZips)) /\ redeemZips[i] \in TabZips => Places(redeemZips', TabZips) = {}
  <2>1. redeemZips' = RemoveAt(redeemZips, i) /\ redeemZips \in Seq(RedeemZips)
    BY <1>1
  <2> HIDE DEF RedeemInv, RedeemTypes
  <2>. QED BY <2>1, PlacesAfter
<1>5. zip \in TabZips => i \in Places(redeemZips, TabZips)
  BY DEF Places, zip
<1>6. FormWaits(redeemTab', redeemNet, redeemZips')
  <2>1. CASE zip.to = "tab" /\ zip.auto
    <3>1. /\ Places(redeemZips', TabZips) = {} /\ Places(redeemNet, TabCalls) = {}
          /\ Successes(redeemTab.batchResults) \subseteq zip.files \cup redeemTab.packed
      BY <1>2, <1>4, <1>5, <2>1 DEF FormWaits, zip
    <3>. QED BY <1>1, <1>3, <2>1, <3>1 DEF FormWaits, AtMostOne
  <2>2. CASE zip.to = "tab" /\ ~zip.auto
    BY <1>1, <1>3, <1>4, <2>2 DEF FormWaits
  <2>3. CASE zip.to # "tab"
    BY <1>1, <1>4, <2>3 DEF FormWaits
  <2>. QED BY <2>1, <2>2, <2>3
<1>7. redeemTab' \in TabStates /\ GrantedIsFound'
  BY <1>1, <1>3 DEF GrantedIsFound
<1>. QED BY <1>1, <1>4, <1>6, <1>7

\* The tasks of a form that was unmounted, or of a page that was left: none of them
\* is waited for, and the results are still on their way.
LEMMA Abandoned ==
  ASSUME RedeemInv, NEW net, NEW zips,
         \/ net = [i \in DOMAIN redeemNet |-> [redeemNet[i] EXCEPT !.to = IF @ = "tab" THEN "page" ELSE @]]
         \/ net = [i \in DOMAIN redeemNet |-> [redeemNet[i] EXCEPT !.to = "nobody"]],
         \/ zips = [i \in DOMAIN redeemZips |-> [redeemZips[i] EXCEPT !.to = IF @ = "tab" THEN "page" ELSE @]]
         \/ zips = <<>>
  PROVE  /\ net \in Seq(RedeemCalls) /\ Len(net) = Len(redeemNet) /\ zips \in Seq(RedeemZips)
         /\ Places(net, TabCalls) = {} /\ Places(zips, TabZips) = {}
         /\ OnTheWay(net) = OnTheWay(redeemNet)
<1> USE DEF RedeemInv, RedeemTypes
<1>1. /\ DOMAIN redeemNet = 1 .. Len(redeemNet) /\ Len(redeemNet) \in Nat
      /\ \A i \in DOMAIN redeemNet : redeemNet[i] \in RedeemCalls
      /\ DOMAIN redeemZips = 1 .. Len(redeemZips) /\ Len(redeemZips) \in Nat
      /\ \A i \in DOMAIN redeemZips : redeemZips[i] \in RedeemZips
  BY SeqFacts
<1>2. \A call \in RedeemCalls :
        LET left == [call EXCEPT !.to = IF call.to = "tab" THEN "page" ELSE call.to]
            lost == [call EXCEPT !.to = "nobody"]
        IN /\ left \in RedeemCalls /\ left.to # "tab" /\ left.results = call.results
           /\ lost \in RedeemCalls /\ lost.to # "tab" /\ lost.results = call.results
  BY DEF RedeemCalls
<1>3. /\ DOMAIN net = DOMAIN redeemNet
      /\ \A i \in DOMAIN net : /\ net[i] \in RedeemCalls /\ net[i].to # "tab"
                               /\ net[i].results = redeemNet[i].results
  <2>1. CASE net = [i \in DOMAIN redeemNet |-> [redeemNet[i] EXCEPT !.to = IF @ = "tab" THEN "page" ELSE @]]
    BY <1>1, <1>2, <2>1
  <2>2. CASE net = [i \in DOMAIN redeemNet |-> [redeemNet[i] EXCEPT !.to = "nobody"]]
    BY <1>1, <1>2, <2>2
  <2>. QED BY <2>1, <2>2
<1>4. net \in [1 .. Len(redeemNet) -> RedeemCalls]
  <2>1. net = [i \in DOMAIN net |-> net[i]]
    OBVIOUS
  <2>. QED BY <1>1, <1>3, <2>1
<1>5. net \in Seq(RedeemCalls) /\ Len(net) = Len(redeemNet)
  <2>1. net \in Seq(RedeemCalls)
    BY <1>1, <1>4, FunctionIsSeq
  <2>2. DOMAIN net = 1 .. Len(net) /\ Len(net) \in Nat
    BY <2>1, SeqFacts
  <2>. QED BY <1>1, <1>3, <2>1, <2>2
<1>6. Places(net, TabCalls) = {}
  BY <1>3 DEF Places, TabCalls
<1>7. OnTheWay(net) = OnTheWay(redeemNet)
  BY <1>3 DEF OnTheWay
<1>8. zips \in Seq(RedeemZips) /\ Places(zips, TabZips) = {}
  <2>1. CASE zips = <<>>
    BY <2>1 DEF Places
  <2>2. CASE zips = [i \in DOMAIN redeemZips |-> [redeemZips[i] EXCEPT !.to = IF @ = "tab" THEN "page" ELSE @]]
    <3>1. \A zip \in RedeemZips :
            LET left == [zip EXCEPT !.to = IF zip.to = "tab" THEN "page" ELSE zip.to]
            IN left \in RedeemZips /\ left.to # "tab"
      BY DEF RedeemZips
    <3>2. /\ zips \in [1 .. Len(redeemZips) -> RedeemZips] /\ DOMAIN zips = DOMAIN redeemZips
          /\ \A i \in DOMAIN zips : zips[i].to # "tab"
      BY <1>1, <2>2, <3>1
    <3>3. zips \in Seq(RedeemZips)
      BY <1>1, <3>2, FunctionIsSeq
    <3>. QED BY <3>2, <3>3 DEF Places, TabZips
  <2>. QED BY <2>1, <2>2
<1>. QED BY <1>5, <1>6, <1>7, <1>8

\* What the user does around the form.
LEMMA PageStep ==
  ASSUME RedeemInv,
         \/ \E result \in ToSet(redeemTab.batchResults) : ViewBatchItem(result)
         \/ CloseResult \/ ToggleHistory \/ handleClearHistory \/ SwitchTab \/ ReloadPage
         \/ SelectHistory \/ \E k \in DOMAIN redeemPage.history : handleDeleteHistory(k)
  PROVE  RedeemInv'
<1> USE DEF RedeemInv, RedeemTypes
<1>0. redeemPage \in PageStates /\ redeemPage.history \in Seq(Results) /\ redeemPage.stored \in Seq(Results)
      /\ redeemPage.canStore \in BOOLEAN /\ redeemLog \in RedeemLogs /\ HistoryResults \subseteq Results
  BY DEF HistoryKeeps, PageStates, HistoryResults, ToSet
<1>g. ASSUME redeemNet' = redeemNet, cdkUsed' = cdkUsed, Noted(redeemLog) \subseteq Noted(redeemLog')
      PROVE  GrantedIsFound'
  BY <1>g DEF GrantedIsFound
<1>1. ASSUME NEW r \in ToSet(redeemTab.batchResults), ViewBatchItem(r) PROVE RedeemInv'
  <2>1. r \in Results
    BY TabFacts DEF ToSet
  <2>2. /\ IsSuccess(r) /\ UNCHANGED <<redeemTab, redeemNet, redeemZips, cdkUsed>>
        /\ redeemPage' = [KeepSuccesses(<<r>>).page EXCEPT !.resultOpen = TRUE]
        /\ redeemLog' = KeepSuccesses(<<r>>).log
    BY <1>1 DEF ViewBatchItem, Successes
  <2>3. HistoryKeeps(redeemPage', redeemLog') /\ Noted(redeemLog) \cup {r} \subseteq Noted(redeemLog')
    BY <2>1, <2>2, OpenSuccess
  <2>4. GrantedIsFound'
    BY <1>g, <2>2, <2>3
  <2>. QED BY <2>2, <2>3, <2>4
<1>2. CASE CloseResult \/ ToggleHistory \/ SelectHistory
  <2>1. UNCHANGED <<redeemTab, redeemNet, redeemZips, cdkUsed, redeemLog>>
    BY <1>2 DEF CloseResult, ToggleHistory, SelectHistory
  <2>2. /\ redeemPage' \in PageStates /\ redeemPage'.history = redeemPage.history
        /\ redeemPage'.stored = redeemPage.stored /\ redeemPage'.canStore = redeemPage.canStore
    BY <1>0, <1>2 DEF CloseResult, ToggleHistory, SelectHistory, PageStates
  <2>3. HistoryKeeps(redeemPage', redeemLog)
    BY <2>2, SameHistory
  <2>4. GrantedIsFound'
    BY <1>g, <2>1
  <2>. QED BY <2>1, <2>3, <2>4
<1>3. CASE handleClearHistory
  <2> DEFINE none == <<>>
  <2>1. /\ UNCHANGED <<redeemTab, redeemNet, redeemZips, cdkUsed>> /\ Settle(HistoryResults)
        /\ redeemPage' = [redeemPage EXCEPT !.history = none, !.stored = IF redeemPage.canStore THEN none ELSE redeemPage.stored]
    BY <1>3 DEF handleClearHistory, commitHistory
  <2>2. none \in Seq(Results) /\ Len(none) = 0 /\ DOMAIN none = {}
    OBVIOUS
  <2>n. redeemPage.canStore \/ redeemPage.stored = none
    BY DEF HistoryKeeps
  <2> HIDE DEF none
  <2>3. /\ redeemPage' \in PageStates /\ redeemPage'.history = none /\ redeemPage'.canStore = redeemPage.canStore
        /\ redeemPage'.stored = none
    BY <1>0, <2>1, <2>2, <2>n DEF PageStates
  <2>4. /\ redeemLog'.recent = redeemLog.recent /\ redeemLog' \in RedeemLogs
        /\ redeemLog'.settled = redeemLog.settled \cup HistoryResults
        /\ Noted(redeemLog) \cup HistoryResults \subseteq Noted(redeemLog')
    BY <1>0, <2>1, SettleFacts
  <2>5. \A i \in DOMAIN redeemLog.recent : redeemLog.recent[i] \in redeemLog'.settled
    BY <2>4 DEF HistoryKeeps, HistoryResults, ToSet
  <2>6. HistoryKeeps(redeemPage', redeemLog')
    BY <2>2, <2>3, <2>4, <2>5, RedeemPageAssumption DEF HistoryKeeps, none
  <2>7. GrantedIsFound'
    BY <1>g, <2>1, <2>4
  <2>. QED BY <2>1, <2>6, <2>7
<1>4. ASSUME NEW k \in DOMAIN redeemPage.history, handleDeleteHistory(k) PROVE RedeemInv'
  <2> DEFINE old == redeemPage.history
             last == redeemLog.recent
             gone == old[k]
             h == RemoveAt(old, k)
  <2>1. /\ UNCHANGED <<redeemTab, redeemNet, redeemZips, cdkUsed>> /\ Settle({gone})
        /\ redeemPage' = [redeemPage EXCEPT !.history = h, !.stored = IF redeemPage.canStore THEN h ELSE redeemPage.stored]
    BY <1>4 DEF handleDeleteHistory, commitHistory
  <2>2. gone \in Results /\ old \in Seq(Results) /\ k \in DOMAIN old /\ Len(old) <= HistoryLimit
    BY <1>0, <1>4 DEF HistoryKeeps
  <2>n. redeemPage.canStore \/ redeemPage.stored = <<>>
    BY DEF HistoryKeeps
  <2>o. \A i \in DOMAIN last : \/ last[i] \in redeemLog.settled
                               \/ \E j \in DOMAIN old : j <= i /\ old[j] = last[i]
    BY DEF HistoryKeeps
  <2>l. last \in Seq(Results)
    BY <1>0 DEF RedeemLogs
  <2> HIDE DEF old, last
  <2>3. /\ h \in Seq(Results) /\ Len(h) = Len(old) - 1
        /\ \A j \in 1 .. (Len(old) - 1) : h[j] = old[Before(k, j)]
    BY <2>2, RemoveAtFacts
  <2> HIDE DEF h
  <2>4. /\ DOMAIN h = 1 .. (Len(old) - 1) /\ DOMAIN old = 1 .. Len(old) /\ Len(old) \in Nat
        /\ DOMAIN last = 1 .. Len(last) /\ Len(last) \in Nat
    BY <2>2, <2>3, <2>l, SeqFacts
  <2>5. \A j \in DOMAIN old \ {k} : \E m \in DOMAIN h : m <= j /\ h[m] = old[j]
    <3> SUFFICES ASSUME NEW j \in DOMAIN old \ {k} PROVE \E m \in DOMAIN h : m <= j /\ h[m] = old[j]
      OBVIOUS
    <3>1. CASE j < k
      <4>1. j \in DOMAIN h /\ Before(k, j) = j /\ j <= j
        BY <2>2, <2>4, <3>1 DEF Before
      <4>. QED BY <2>3, <2>4, <4>1
    <3>2. CASE ~(j < k)
      <4>0. j \in Nat /\ k \in Nat /\ k < j /\ 1 <= k /\ j <= Len(old)
        BY <2>2, <2>4, <3>2
      <4>1. j - 1 \in DOMAIN h /\ Before(k, j - 1) = j /\ j - 1 <= j
        BY <2>4, <4>0 DEF Before
      <4>. QED BY <2>3, <2>4, <4>1
    <3>. QED BY <3>1, <3>2
  <2>6. /\ redeemPage' \in PageStates /\ redeemPage'.history = h /\ redeemPage'.canStore = redeemPage.canStore
        /\ redeemPage'.stored = IF redeemPage.canStore THEN h ELSE <<>>
    BY <1>0, <2>1, <2>3, <2>n DEF PageStates
  <2>7. /\ redeemLog'.recent = last /\ redeemLog' \in RedeemLogs
        /\ redeemLog'.settled = redeemLog.settled \cup {gone}
        /\ Noted(redeemLog) \cup {gone} \subseteq Noted(redeemLog')
    BY <2>1, <2>2, SettleFacts DEF last
  <2>8. ASSUME NEW i \in DOMAIN last
        PROVE  \/ last[i] \in redeemLog'.settled
               \/ \E j \in DOMAIN h : j <= i /\ h[j] = last[i]
    <3>1. CASE last[i] \in redeemLog.settled
      BY <2>7, <3>1
    <3>2. ASSUME NEW j \in DOMAIN old, j <= i, old[j] = last[i]
          PROVE  last[i] \in redeemLog'.settled \/ \E m \in DOMAIN h : m <= i /\ h[m] = last[i]
      <4>1. CASE j = k
        BY <2>7, <3>2, <4>1
      <4>2. CASE j # k
        <5>1. PICK m \in DOMAIN h : m <= j /\ h[m] = old[j]
          BY <2>5, <3>2, <4>2
        <5>2. m <= i
          BY <2>4, <3>2, <5>1
        <5>. QED BY <3>2, <5>1, <5>2
      <4>. QED BY <4>1, <4>2
    <3>. QED BY <2>o, <3>1, <3>2
  <2>9. Len(h) <= HistoryLimit
    BY <2>2, <2>3, <2>4, RedeemPageAssumption
  <2>10. HistoryKeeps(redeemPage', redeemLog')
    BY <2>6, <2>7, <2>8, <2>9 DEF HistoryKeeps
  <2>11. GrantedIsFound'
    BY <1>g, <2>1, <2>7
  <2>. QED BY <2>1, <2>10, <2>11
<1>5. CASE SwitchTab
  <2>1. /\ redeemTab' = FreshTab /\ UNCHANGED <<cdkUsed, redeemLog>>
        /\ redeemPage' = [redeemPage EXCEPT !.tab = IF redeemPage.tab = "redeem" THEN "convert" ELSE "redeem"]
        /\ redeemNet' = [i \in DOMAIN redeemNet |-> [redeemNet[i] EXCEPT !.to = IF @ = "tab" THEN "page" ELSE @]]
        /\ redeemZips' = [i \in DOMAIN redeemZips |-> [redeemZips[i] EXCEPT !.to = IF @ = "tab" THEN "page" ELSE @]]
    BY <1>5 DEF SwitchTab
  <2>2. /\ redeemNet' \in Seq(RedeemCalls) /\ redeemZips' \in Seq(RedeemZips)
        /\ Places(redeemNet', TabCalls) = {} /\ Places(redeemZips', TabZips) = {}
        /\ OnTheWay(redeemNet') = OnTheWay(redeemNet)
    BY <2>1, Abandoned
  <2>3. redeemTab' \in TabStates /\ FormWaits(redeemTab', redeemNet', redeemZips')
    BY <2>1, <2>2, FreshForm
  <2>4. /\ redeemPage' \in PageStates /\ redeemPage'.history = redeemPage.history
        /\ redeemPage'.stored = redeemPage.stored /\ redeemPage'.canStore = redeemPage.canStore
    BY <1>0, <2>1 DEF PageStates
  <2>5. HistoryKeeps(redeemPage', redeemLog)
    BY <2>4, SameHistory
  <2>6. GrantedIsFound'
    BY <2>1, <2>2 DEF GrantedIsFound
  <2>. QED BY <2>1, <2>2, <2>3, <2>5, <2>6
<1>6. CASE ReloadPage
  <2> DEFINE loaded == loadRedeemHistory
             lost == IF redeemPage.canStore THEN {} ELSE HistoryResults
  <2>1. /\ redeemTab' = FreshTab /\ UNCHANGED cdkUsed /\ redeemZips' = <<>> /\ Settle(lost)
        /\ redeemPage' = [redeemPage EXCEPT !.history = loaded, !.tab = "redeem",
                                             !.historyOpen = FALSE, !.resultOpen = FALSE]
        /\ redeemNet' = [i \in DOMAIN redeemNet |-> [redeemNet[i] EXCEPT !.to = "nobody"]]
    BY <1>6 DEF ReloadPage
  <2>2. /\ redeemNet' \in Seq(RedeemCalls) /\ redeemZips' \in Seq(RedeemZips)
        /\ Places(redeemNet', TabCalls) = {} /\ Places(redeemZips', TabZips) = {}
        /\ OnTheWay(redeemNet') = OnTheWay(redeemNet)
    BY <2>1, Abandoned
  <2>3. redeemTab' \in TabStates /\ FormWaits(redeemTab', redeemNet', redeemZips')
    BY <2>1, <2>2, FreshForm
  <2>4. loaded = redeemPage.stored
    <3> DEFINE st == redeemPage.stored
    <3>1. st \in Seq(Results) /\ Len(st) <= HistoryLimit /\ Len(st) \in Nat /\ HistoryLimit \in Nat
      BY <1>0, RedeemPageAssumption DEF HistoryKeeps
    <3> HIDE DEF st
    <3>2. SubSeq(st, 1, Len(st)) = st
      BY <3>1
    <3>3. FirstN(st, HistoryLimit) = st
      <4>1. (IF Len(st) < HistoryLimit THEN Len(st) ELSE HistoryLimit) = Len(st)
        BY <3>1
      <4>. QED BY <3>2, <4>1 DEF FirstN
    <3>. QED BY <3>3 DEF loadRedeemHistory, st
  <2> HIDE DEF loaded
  <2>5. /\ redeemPage' \in PageStates /\ redeemPage'.history = redeemPage.stored
        /\ redeemPage'.stored = redeemPage.stored /\ redeemPage'.canStore = redeemPage.canStore
    BY <1>0, <2>1, <2>4 DEF PageStates
  <2>6. lost \subseteq Results
    BY <1>0
  <2>7. /\ redeemLog'.recent = redeemLog.recent /\ redeemLog' \in RedeemLogs
        /\ redeemLog'.settled = redeemLog.settled \cup lost
        /\ HistoryKeeps(redeemPage, redeemLog')
        /\ Noted(redeemLog) \cup lost \subseteq Noted(redeemLog')
    BY <2>1, <2>6, SettleFacts
  <2>8. HistoryKeeps(redeemPage', redeemLog')
    <3>1. CASE redeemPage.canStore
      <4>1. redeemPage.stored = redeemPage.history
        BY <3>1 DEF HistoryKeeps
      <4>. QED BY <2>5, <2>7, <4>1, SameHistory
    <3>2. CASE ~redeemPage.canStore
      <4>1. redeemPage.stored = <<>>
        BY <3>2 DEF HistoryKeeps
      <4>2. \A i \in DOMAIN redeemLog.recent : redeemLog.recent[i] \in redeemLog'.settled
        BY <2>7, <3>2 DEF HistoryKeeps, HistoryResults, ToSet
      <4>3. Len(redeemPage.stored) <= HistoryLimit
        BY <4>1, RedeemPageAssumption
      <4>. QED BY <2>5, <2>7, <3>2, <4>1, <4>2, <4>3 DEF HistoryKeeps
    <3>. QED BY <1>0, <3>1, <3>2
  <2>9. GrantedIsFound'
    BY <2>1, <2>2, <2>7 DEF GrantedIsFound
  <2>. QED BY <2>1, <2>2, <2>3, <2>8, <2>9
<1>. QED BY <1>1, <1>2, <1>3, <1>4, <1>5, <1>6

-----------------------------------------------------------------------------
(* Theorems about the redeem page.                                         *)

\* Every step of the page, of the server and of the network keeps the invariant.
LEMMA RedeemStep == RedeemInv /\ [RedeemNext]_redeemVars => RedeemInv'
<1> SUFFICES ASSUME RedeemInv, [RedeemNext]_redeemVars PROVE RedeemInv'
  OBVIOUS
<1>1. CASE UNCHANGED redeemVars
  BY <1>1 DEF redeemVars, RedeemInv, RedeemTypes, GrantedIsFound
<1>2. CASE RedeemNext
  BY <1>2, FormStep, ServerStep, AnswerStep, ArchiveStep, PageStep DEF RedeemNext
<1>. QED BY <1>1, <1>2

\* The client takes only steps of the page.
LEMMA RedeemProjected == [ClientNext]_clientVars => [RedeemNext]_redeemVars
BY DEF ClientNext, clientVars, redeemVars, But

\* The invariant holds in every state of the client.
LEMMA RedeemAlways == ClientSpec => []RedeemInv
<1>1. ClientInit => RedeemInv
  BY RedeemBegins DEF ClientInit
<1>. QED BY <1>1, RedeemStep, RedeemProjected, PTL DEF ClientSpec

\* No success is lost: every use of a code that the server granted is in the history or
\* on its way, unless the user deleted it, its answer or the save was lost, or enough newer
\* ones came; for any number of calls, panels left and pages loaded anew, any limit and
\* any number of successes in one answer.
THEOREM SuccessesAreKept == ClientSpec => []SuccessIsKept
<1>1. RedeemInv => SuccessIsKept
  <2> SUFFICES ASSUME RedeemInv, NEW c \in CdkCodes, NEW n \in 1 .. cdkUsed[c],
                      <<c, n>> \notin HistoryResults \cup redeemLog.settled
               PROVE  \E i \in DOMAIN redeemNet : <<c, n>> \in ToSet(redeemNet[i].results)
    BY DEF SuccessIsKept
  <2>1. <<c, n>> \in Noted(redeemLog) \cup OnTheWay(redeemNet)
    BY DEF RedeemInv, GrantedIsFound
  <2>2. ToSet(redeemLog.recent) \subseteq HistoryResults \cup redeemLog.settled
    BY DEF RedeemInv, HistoryKeeps, HistoryResults, ToSet
  <2>3. <<c, n>> \in OnTheWay(redeemNet)
    BY <2>1, <2>2 DEF Noted
  <2>. QED BY <2>3 DEF OnTheWay
<1>. QED BY <1>1, RedeemAlways, PTL

\* Whenever the form is ready, every success it lists was packed, or a warning said that
\* packing failed: for any order in which calls, archives and edits end.
THEOREM ShownIsAlwaysPacked == ClientSpec => []ShownIsPacked
<1>1. RedeemInv => ShownIsPacked
  BY DEF RedeemInv, FormWaits, ShownIsPacked
<1>. QED BY <1>1, RedeemAlways, PTL

-----------------------------------------------------------------------------
(* The converter.                                                          *)

IsList(s) == \E S : s \in Seq(S)

\* What is rewritten is a list of accounts, however the text was read.
LEMMA ParsedIsList ==
  ASSUME NEW text \in ConvTexts
  PROVE  IsList(detectAndParse(text).accounts)
<1>0. IsList(Refused.accounts)
  <2>1. Refused.accounts = <<>> /\ <<>> \in Seq({})
    BY DEF Refused
  <2>. QED BY <2>1 DEF IsList
<1>1. ASSUME NEW S, NEW s \in Seq(S) PROVE IsList(Entries(s))
  <2> DEFINE T == {s[i].entries : i \in DOMAIN s}
  <2>1. DOMAIN s = 1 .. Len(s) /\ Len(s) \in Nat
    OBVIOUS
  <2>2. Entries(s) \in [1 .. Len(s) -> T]
    BY <2>1 DEF Entries
  <2> HIDE DEF T
  <2>3. Entries(s) \in Seq(T)
    BY <2>1, <2>2, FunctionIsSeq
  <2>. QED BY <2>3 DEF IsList
<1>2. IsList(ParseRoot(text.root).accounts)
  <2> DEFINE root == text.root
             many == [accounts |-> Entries(root.items), format |-> "JSON array"]
             one == [accounts |-> <<root.entries>>, format |-> "JSON object"]
  <2>1. ParseRoot(root) \in {many, one, Refused}
    BY DEF ParseRoot
  <2>2. IsList(many.accounts)
    BY <1>1, ConverterAssumption
  <2>3. IsList(one.accounts)
    <3>1. one.accounts = <<root.entries>> /\ <<root.entries>> \in Seq({root.entries})
      OBVIOUS
    <3>. QED BY <3>1 DEF IsList
  <2>. QED BY <1>0, <2>1, <2>2, <2>3
<1>3. IsList(ParseLines(text.lines).accounts)
  <2> DEFINE lines == text.lines
             keep == {n \in DOMAIN lines : lines[n].type # "blank"}
             filled == Picked(lines, keep)
             found == [accounts |-> Entries(filled), format |-> "JSONL"]
  <2>1. lines \in Seq(ToSet(lines)) /\ \A n \in DOMAIN lines : lines[n] \in ToSet(lines)
    BY ConverterAssumption DEF ToSet
  <2>2. ParseLines(lines) \in {found, Refused}
    BY DEF ParseLines
  <2> HIDE DEF lines, keep
  <2>3. filled \in Seq(ToSet(lines))
    BY <2>1, PickedType
  <2> HIDE DEF filled
  <2>4. IsList(Entries(filled)) /\ found.accounts = Entries(filled)
    BY <1>1, <2>3
  <2> HIDE DEF found
  <2>. QED BY <1>0, <2>2, <2>4 DEF lines
<1>4. detectAndParse(text) \in {Refused, ParseRoot(text.root), ParseLines(text.lines)}
  BY DEF detectAndParse
<1>. QED BY <1>0, <1>2, <1>3, <1>4

\* One file for all accounts, or one for each.
OneFile(file, accounts) ==
  DOMAIN file = {"sub2api_merged"} /\ file["sub2api_merged"] = convertAll(accounts)
FileEach(file, accounts) ==
  /\ DOMAIN file = {SingleName(accounts, i) : i \in DOMAIN accounts}
  /\ \A i \in DOMAIN accounts : file[SingleName(accounts, i)] = <<convertAll(accounts)[i]>>

\* The files a download is made of: one for all accounts, or one for each.
LEMMA FileFacts ==
  ASSUME NEW format, NEW S, NEW accounts \in Seq(S), NEW file, file = ConvertedFile(format, accounts)
  PROVE  /\ OneFile(file, accounts) \/ FileEach(file, accounts)
         /\ \A i, j \in DOMAIN accounts : SingleName(accounts, i) = SingleName(accounts, j) => i = j
<1>0. DOMAIN accounts = 1 .. Len(accounts) /\ Len(accounts) \in Nat
  OBVIOUS
<1>1. \A i, j \in DOMAIN accounts : SingleName(accounts, i) = SingleName(accounts, j) => i = j
  BY DEF SingleName
<1>2. CASE format = "single_zip"
  <2> DEFINE named(n) == {i \in DOMAIN accounts : SingleName(accounts, i) = n}
             names == {SingleName(accounts, i) : i \in DOMAIN accounts}
  <2>1. file = [n \in names |-> <<convertAll(accounts)[Max(named(n))]>>]
    BY <1>2 DEF ConvertedFile, createSingleZip
  <2>2. ASSUME NEW i \in DOMAIN accounts
        PROVE  file[SingleName(accounts, i)] = <<convertAll(accounts)[i]>>
    <3>1. named(SingleName(accounts, i)) = {i}
      BY <1>1
    <3>2. Max({i}) = i
      <4>1. i >= i
        BY <1>0
      <4>. QED BY <4>1 DEF Max
    <3>. QED BY <2>1, <3>1, <3>2
  <2>. QED BY <1>1, <2>1, <2>2 DEF FileEach
<1>3. CASE format # "single_zip"
  BY <1>1, <1>3 DEF ConvertedFile, buildMerged, OneFile
<1>. QED BY <1>2, <1>3

\* A file has a place of its own for every account.
LEMMA AllPlaced ==
  ASSUME NEW format, NEW S, NEW accounts \in Seq(S), NEW file, file = ConvertedFile(format, accounts)
  PROVE  Cardinality(PlacesIn(file)) = Len(accounts)
<1> DEFINE n == Len(accounts)
<1>0. DOMAIN accounts = 1 .. n /\ n \in Nat /\ DOMAIN convertAll(accounts) = 1 .. n
  BY DEF convertAll
<1>f. OneFile(file, accounts) \/ FileEach(file, accounts)
  BY FileFacts
<1> HIDE DEF n
<1>1. IsFiniteSet(1 .. n) /\ Cardinality(1 .. n) = n
  <2>1. 1 \in Int /\ n \in Int
    BY <1>0
  <2>2. IsFiniteSet(1 .. n) /\ Cardinality(1 .. n) = IF 1 > n THEN 0 ELSE n - 1 + 1
    BY <2>1, FS_Interval
  <2>. QED BY <1>0, <2>2
<1>2. ExistsBijection(1 .. n, PlacesIn(file))
  <2>1. CASE OneFile(file, accounts)
    <3> DEFINE f == [k \in 1 .. n |-> <<"sub2api_merged", k>>]
    <3>1. PlacesIn(file) = {<<"sub2api_merged", k>> : k \in 1 .. n}
      BY <1>0, <2>1 DEF PlacesIn, OneFile
    <3>2. f \in [1 .. n -> PlacesIn(file)] /\ IsInjective(f)
      BY <3>1 DEF IsInjective
    <3>3. \A p \in PlacesIn(file) : \E k \in 1 .. n : f[k] = p
      BY <3>1
    <3>. QED BY <3>2, <3>3 DEF Bijection, Injection, Surjection, ExistsBijection
  <2>2. CASE FileEach(file, accounts)
    <3> DEFINE f == [k \in 1 .. n |-> <<SingleName(accounts, k), 1>>]
    <3>1. \A i \in 1 .. n : DOMAIN file[SingleName(accounts, i)] = {1}
      BY <1>0, <2>2 DEF FileEach
    <3>2. PlacesIn(file) = {<<SingleName(accounts, k), 1>> : k \in 1 .. n}
      BY <1>0, <2>2, <3>1 DEF PlacesIn, FileEach
    <3>3. \A i, j \in 1 .. n : SingleName(accounts, i) = SingleName(accounts, j) => i = j
      BY <1>0, FileFacts
    <3>4. f \in [1 .. n -> PlacesIn(file)] /\ IsInjective(f)
      BY <3>2, <3>3 DEF IsInjective
    <3>5. \A p \in PlacesIn(file) : \E k \in 1 .. n : f[k] = p
      BY <3>2
    <3>. QED BY <3>4, <3>5 DEF Bijection, Injection, Surjection, ExistsBijection
  <2>. QED BY <1>f, <2>1, <2>2
<1>. QED BY <1>1, <1>2, FS_Bijection DEF n

ConvStates == [text: ConvTexts \cup {EmptyText}, format: ConvFormats, loading: BOOLEAN, error: BOOLEAN,
               preview: [format: {"none", "JSON array", "JSON object", "JSONL"}, total: Nat]]

\* A download holds the accounts of one text that was entered, in one format.
MadeFrom(job, text, format) ==
  /\ DOMAIN job = {"accounts", "mounted", "file"}
  /\ job.accounts = detectAndParse(text).accounts
  /\ job.file = ConvertedFile(format, job.accounts)

ConvInv ==
  /\ conv \in ConvStates
  /\ convReads \in Seq(ConvTexts)
  /\ \A i \in DOMAIN convJobs : \E text \in ConvTexts, format \in ConvFormats : MadeFrom(convJobs[i], text, format)

\* What reading a text returns; an empty text is refused.
LEMMA ParsedFacts ==
  /\ detectAndParse(EmptyText) = Refused
  /\ \A text \in ConvTexts : /\ Len(detectAndParse(text).accounts) \in Nat
                              /\ detectAndParse(text).format \in {"none", "JSON array", "JSON object", "JSONL"}
<1>1. detectAndParse(EmptyText) = Refused
  BY DEF detectAndParse, EmptyText
<1>2. ASSUME NEW text \in ConvTexts
      PROVE  Len(detectAndParse(text).accounts) \in Nat
  BY ParsedIsList DEF IsList
<1>3. ASSUME NEW text \in ConvTexts
      PROVE  detectAndParse(text).format \in {"none", "JSON array", "JSON object", "JSONL"}
  <2> DEFINE Forms == {"none", "JSON array", "JSON object", "JSONL"}
  <2>1. ParseRoot(text.root).format \in Forms
    BY DEF ParseRoot, Refused
  <2>2. ParseLines(text.lines).format \in Forms
    BY DEF ParseLines, Refused
  <2>3. Refused.format \in Forms
    BY DEF Refused
  <2>4. detectAndParse(text) \in {Refused, ParseRoot(text.root), ParseLines(text.lines)}
    BY DEF detectAndParse
  <2> HIDE DEF Forms
  <2>5. detectAndParse(text).format \in Forms
    BY <2>1, <2>2, <2>3, <2>4
  <2>. QED BY <2>5 DEF Forms
<1>. QED BY <1>1, <1>2, <1>3

\* The empty form.
LEMMA FreshConvertFacts == FreshConvert \in ConvStates
BY DEF FreshConvert, ConvStates, NoPreview, ConvFormats

\* Every step of the converter keeps its downloads to what was entered.
LEMMA ConvertStep == ConvInv /\ [ConvertNext]_convVars => ConvInv'
<1> SUFFICES ASSUME ConvInv, [ConvertNext]_convVars PROVE ConvInv'
  OBVIOUS
<1> USE DEF ConvInv
<1>0. ASSUME convJobs' = convJobs \/ convJobs' = <<>>
      PROVE  (\A i \in DOMAIN convJobs : \E text \in ConvTexts, format \in ConvFormats :
                MadeFrom(convJobs[i], text, format))'
  BY <1>0 DEF MadeFrom
<1>1. CASE UNCHANGED convVars
  BY <1>0, <1>1 DEF convVars
<1>2. ASSUME NEW text \in ConvTexts, EnterText(text) PROVE ConvInv'
  <2>1. conv' \in ConvStates /\ UNCHANGED <<convReads, convJobs>>
    BY <1>2 DEF EnterText, ConvStates
  <2>. QED BY <1>0, <2>1
<1>3. ASSUME NEW text \in ConvTexts, ChooseFile(text) PROVE ConvInv'
  <2>1. conv' = conv /\ convJobs' = convJobs /\ convReads' \in Seq(ConvTexts)
    BY <1>3 DEF ChooseFile
  <2>. QED BY <1>0, <2>1
<1>4. CASE PasteRefused
  <2>1. conv' \in ConvStates /\ UNCHANGED <<convReads, convJobs>>
    BY <1>4 DEF PasteRefused, ConvStates
  <2>. QED BY <1>0, <2>1
<1>5. CASE FileRead
  <2>1. /\ convReads # <<>> /\ convReads' = <<>> /\ convJobs' = convJobs
        /\ conv' \in {[conv EXCEPT !.text = convReads[1]], [conv EXCEPT !.error = TRUE], conv}
    BY <1>5 DEF FileRead
  <2> DEFINE got == convReads[1]
  <2>2. got \in ConvTexts
    BY <2>1
  <2> HIDE DEF got
  <2>3. conv' \in ConvStates
    BY <2>1, <2>2 DEF ConvStates, got
  <2>4. convReads' \in Seq(ConvTexts)
    BY <2>1
  <2>. QED BY <1>0, <2>1, <2>3, <2>4
<1>6. CASE detect
  <2> DEFINE parsed == detectAndParse(conv.text)
             shown == IF parsed # Refused THEN [format |-> parsed.format, total |-> Len(parsed.accounts)]
                                          ELSE NoPreview
             wrong == ~(parsed # Refused) /\ ~conv.text.blank
  <2>1. conv' = [conv EXCEPT !.error = wrong, !.preview = shown] /\ UNCHANGED <<convReads, convJobs>>
    BY <1>6 DEF detect
  <2>2. parsed # Refused => conv.text \in ConvTexts
    BY ParsedFacts DEF ConvStates
  <2>3. shown \in [format: {"none", "JSON array", "JSON object", "JSONL"}, total: Nat]
    <3>1. parsed # Refused =>
            parsed.format \in {"none", "JSON array", "JSON object", "JSONL"} /\ Len(parsed.accounts) \in Nat
      BY <2>2, ParsedFacts
    <3> HIDE DEF parsed
    <3>. QED BY <3>1 DEF NoPreview
  <2>4. wrong \in BOOLEAN
    OBVIOUS
  <2> HIDE DEF shown, wrong
  <2>5. conv' \in ConvStates
    BY <2>1, <2>3, <2>4 DEF ConvStates
  <2>. QED BY <1>0, <2>1, <2>5
<1>7. ASSUME NEW format \in ConvFormats, ChooseFormat(format) PROVE ConvInv'
  <2>1. conv' \in ConvStates /\ UNCHANGED <<convReads, convJobs>>
    BY <1>7 DEF ChooseFormat, ConvStates
  <2>. QED BY <1>0, <2>1
<1>8. CASE handleDownload
  <2> DEFINE parsed == detectAndParse(conv.text)
             job == [accounts |-> parsed.accounts, mounted |-> TRUE,
                     file |-> ConvertedFile(conv.format, parsed.accounts)]
  <2>1. /\ convReads' = convReads
        /\ conv' \in {[conv EXCEPT !.error = TRUE], [conv EXCEPT !.loading = TRUE, !.error = FALSE]}
        /\ convJobs' = convJobs \/ (parsed # Refused /\ convJobs' = <<job>>)
    BY <1>8 DEF handleDownload
  <2>2. conv' \in ConvStates
    BY <2>1 DEF ConvStates
  <2>3. CASE convJobs' = convJobs
    BY <1>0, <2>1, <2>2, <2>3
  <2>4. CASE parsed # Refused /\ convJobs' = <<job>>
    <3>1. conv.text \in ConvTexts /\ conv.format \in ConvFormats
      BY <2>4, ParsedFacts DEF ConvStates
    <3>2. MadeFrom(job, conv.text, conv.format)
      BY DEF MadeFrom
    <3> HIDE DEF job, parsed
    <3>3. \A i \in DOMAIN convJobs' : convJobs'[i] = job
      BY <2>4
    <3>. QED BY <2>1, <2>2, <3>1, <3>2, <3>3
  <2>. QED BY <2>1, <2>3, <2>4
<1>9. CASE ConversionEnds
  <2>1. convReads' = convReads /\ convJobs' = <<>>
    BY <1>9 DEF ConversionEnds
  <2>2. conv' \in ConvStates
    <3>1. PICK failed \in BOOLEAN :
            conv' = conv \/ conv' = [conv EXCEPT !.loading = FALSE, !.error = conv.error \/ failed]
      BY <1>9 DEF ConversionEnds
    <3>2. (conv.error \/ failed) \in BOOLEAN
      OBVIOUS
    <3>3. \A e \in BOOLEAN : [conv EXCEPT !.loading = FALSE, !.error = e] \in ConvStates
      BY DEF ConvStates
    <3>. QED BY <3>1, <3>2, <3>3
  <2>. QED BY <1>0, <2>1, <2>2
<1>10. CASE RemountConvert
  <2>1. /\ conv' = FreshConvert /\ convReads' = <<>>
        /\ convJobs' = [i \in DOMAIN convJobs |-> [convJobs[i] EXCEPT !.mounted = FALSE]]
    BY <1>10 DEF RemountConvert
  <2>2. ASSUME NEW job, NEW text, NEW format, MadeFrom(job, text, format)
        PROVE  MadeFrom([job EXCEPT !.mounted = FALSE], text, format)
    BY <2>2 DEF MadeFrom
  <2>3. DOMAIN convJobs' = DOMAIN convJobs /\ \A i \in DOMAIN convJobs : convJobs'[i] = [convJobs[i] EXCEPT !.mounted = FALSE]
    BY <2>1
  <2>4. \A i \in DOMAIN convJobs' : \E text \in ConvTexts, format \in ConvFormats : MadeFrom(convJobs'[i], text, format)
    BY <2>2, <2>3
  <2>5. conv' \in ConvStates /\ convReads' \in Seq(ConvTexts)
    BY <2>1, FreshConvertFacts
  <2>. QED BY <2>4, <2>5
<1>. QED BY <1>1, <1>2, <1>3, <1>4, <1>5, <1>6, <1>7, <1>8, <1>9, <1>10 DEF ConvertNext

\* Every download of the client holds what one text had.
LEMMA ConvertAlways == ClientSpec => []ConvInv
<1>1. ClientInit => ConvInv
  BY FreshConvertFacts DEF ClientInit, ConvertInit, ConvInv
<1>2. [ClientNext]_clientVars => [ConvertNext]_convVars
  BY DEF ClientNext, clientVars, convVars, But
<1>. QED BY <1>1, <1>2, ConvertStep, PTL DEF ClientSpec

\* No download drops an account, for any text, any number of accounts and any address
\* they share.
THEOREM NoAccountIsDropped == ClientSpec => []NoAccountDropped
<1>1. ConvInv => NoAccountDropped
  <2> SUFFICES ASSUME ConvInv, NEW i \in DOMAIN convJobs
               PROVE  Cardinality(PlacesIn(convJobs[i].file)) = Len(convJobs[i].accounts)
    BY DEF NoAccountDropped, ToSet
  <2>1. PICK text \in ConvTexts, format \in ConvFormats : MadeFrom(convJobs[i], text, format)
    BY DEF ConvInv
  <2> DEFINE accounts == convJobs[i].accounts
             file == convJobs[i].file
  <2>2. PICK S : accounts \in Seq(S)
    BY <2>1, ParsedIsList DEF MadeFrom, IsList
  <2>3. file = ConvertedFile(format, accounts)
    BY <2>1 DEF MadeFrom
  <2> HIDE DEF accounts, file
  <2>4. Cardinality(PlacesIn(file)) = Len(accounts)
    BY <2>2, <2>3, AllPlaced
  <2>. QED BY <2>4 DEF accounts, file
<1>. QED BY <1>1, ConvertAlways, PTL

=============================================================================
