-------------------------- MODULE BatchRedeemProofs --------------------------
(***************************************************************************)
(* Proofs about BatchRedeem, for any number of requests, codes and keys,   *)
(* lists of any length and any size of the connection pool.                *)
(***************************************************************************)
EXTENDS BatchRedeem, FiniteSetTheorems, SequenceTheorems, TLAPS

(* The inductive invariant. *)

ItemResults == {"success", "refused", "skipped"}
Hashes == {hashBatchRequest(i) : i \in Inputs} \cup {NoKeyRow.hash}

\* The types of all the variables; TypeOK leaves out what no run needs.
TypeInv ==
  /\ useCount \in [Codes -> Nat]
  /\ keys \in [Keys -> [present: BOOLEAN, hash: Hashes, response: Seq(ItemResults)]]
  /\ granted \in [Requests -> SUBSET Nat]
  /\ pc \in [Requests -> Working \cup {"idle", "done"}]
  /\ req \in [Requests -> Inputs]
  /\ results \in [Requests -> Seq(ItemResults)]
  /\ inserted \in [Requests -> BOOLEAN]
  /\ reply \in [Requests -> [outcome: {"none", "ok", "error", "conflict", "invalid_input"},
                             items: Seq(ItemResults)]]

\* No two open transactions have the same key row.
KeyMutex == \A r, s \in Requests : \A k \in Keys : HoldsKey(r, k) /\ HoldsKey(s, k) => r = s

\* The positions of the successes in a list of results.
Successes(list) == {i \in 1 .. Len(list) : list[i] = "success"}

\* Before the first item nothing is granted.
Waiting(r) ==
  /\ results[r] = <<>> /\ granted[r] = {}
  /\ pc[r] \in {"key", "lockKey"} => req[r].key \in Keys /\ req[r].items # <<>>
  /\ pc[r] = "lockKey" => keys[req[r].key].present

\* While the items are handled the results tell exactly what is granted, and a
\* request with a key has inserted its row.
Executing(r) ==
  /\ req[r].items # <<>>
  /\ Len(results[r]) <= Len(req[r].items)
  /\ pc[r] = "store" => Len(results[r]) = Len(req[r].items)
  /\ granted[r] = Successes(results[r])
  /\ req[r].key # NoKey => inserted[r] /\ ~keys[req[r].key].present

\* Grants are items of the request, and no two are of the same code.
GrantsFit(r) ==
  /\ granted[r] \subseteq 1 .. Len(req[r].items)
  /\ \A i, j \in granted[r] : req[r].items[i] = req[r].items[j] => i = j

\* An answer under a key is what the key row says.
AnswerInv(r) ==
  reply[r].outcome = "ok" /\ req[r].key # NoKey =>
    /\ keys[req[r].key].present
    /\ keys[req[r].key].hash = hashBatchRequest(req[r])
    /\ keys[req[r].key].response = reply[r].items

RequestInv(r) ==
  /\ pc[r] \in {"idle", "key", "lockKey"} => Waiting(r)
  /\ pc[r] \in {"items", "store"} => Executing(r)
  /\ GrantsFit(r) /\ AnswerInv(r)

\* A committed key was written by one request that has ended.
WrittenBy(k, r) ==
  /\ pc[r] = "done" /\ req[r].items # <<>>
  /\ req[r].key = k /\ keys[k].hash = hashBatchRequest(req[r])
  /\ Len(keys[k].response) = Len(req[r].items)
  /\ granted[r] = Successes(keys[k].response)

KeyInv == \A k \in Keys : keys[k].present => \E r \in Requests : WrittenBy(k, r)

Counted(c) == /\ IsFiniteSet(GrantsOf(c))
              /\ useCount[c] = Cardinality(GrantsOf(c)) /\ useCount[c] <= MaxUses[c]

BatchInv == KeyMutex /\ (\A r \in Requests : RequestInv(r)) /\ KeyInv

IInv == TypeInv /\ BatchInv /\ \A c \in Codes : Counted(c)

-----------------------------------------------------------------------------
(* Types. *)

\* What a request carries.
LEMMA InputTypes ==
  ASSUME TypeInv, NEW r \in Requests
  PROVE  /\ req[r] \in Inputs /\ req[r].items \in Seq(Codes \cup {Blank})
         /\ req[r].key \in Keys \cup {NoKey} /\ Len(req[r].items) \in Nat
BY BatchAssumption DEF TypeInv

\* Two requests with one key and one hash are the same request.
LEMMA HashIsFaithful ==
  ASSUME TypeInv, NEW r \in Requests, NEW s \in Requests, req[r].key = req[s].key,
         hashBatchRequest(req[r]) = hashBatchRequest(req[s])
  PROVE  req[r] = req[s]
<1> DEFINE U == {i.user : i \in Inputs}
<1>1. /\ req[r] \in [user: U, items: Seq(Codes \cup {Blank}), key: Keys \cup {NoKey}]
      /\ req[s] \in [user: U, items: Seq(Codes \cup {Blank}), key: Keys \cup {NoKey}]
  BY BatchAssumption DEF TypeInv
<1> HIDE DEF U
<1> QED BY <1>1 DEF hashBatchRequest

\* Ending a request keeps the types.
LEMMA FinishTypes ==
  ASSUME TypeInv, NEW r \in Requests, NEW outcome, NEW items \in Seq(ItemResults),
         outcome \in {"none", "ok", "error", "conflict", "invalid_input"},
         Finish(r, Reply(outcome, items))
  PROVE  /\ pc' \in [Requests -> Working \cup {"idle", "done"}]
         /\ results' \in [Requests -> Seq(ItemResults)]
         /\ inserted' \in [Requests -> BOOLEAN]
         /\ reply' \in [Requests -> [outcome: {"none", "ok", "error", "conflict", "invalid_input"},
                                     items: Seq(ItemResults)]]
<1>1. Reply(outcome, items) \in [outcome: {"none", "ok", "error", "conflict", "invalid_input"},
                                 items: Seq(ItemResults)]
  BY DEF Reply
<1>2. <<>> \in Seq(ItemResults)
  OBVIOUS
<1> QED BY <1>1, <1>2 DEF Finish, TypeInv

\* An item that is not skipped names a code.
LEMMA ItemIsCode ==
  ASSUME TypeInv, NEW r \in Requests, HasItem(r), ~Skipped(r)
  PROVE  /\ Code(r) \in Codes
         /\ Current(r) \in 1 .. Len(req[r].items)
         /\ \A i \in 1 .. Len(results[r]) : req[r].items[i] # Code(r)
<1>1. results[r] \in Seq(ItemResults)
  BY DEF TypeInv
<1>2. Current(r) \in 1 .. Len(req[r].items)
  BY <1>1, InputTypes DEF HasItem, Current
<1>3. Code(r) \in Codes \cup {Blank}
  BY <1>2, InputTypes DEF Code
<1> QED BY <1>2, <1>3 DEF Skipped

\* A grant keeps the types.
LEMMA GrantTypes ==
  ASSUME TypeInv, NEW r \in Requests, HasItem(r), ~Skipped(r), Grant(r)
  PROVE  useCount' \in [Codes -> Nat] /\ granted' \in [Requests -> SUBSET Nat]
<1>1. Code(r) \in Codes /\ Current(r) \in Nat
  BY ItemIsCode, InputTypes
<1>2. useCount' \in [Codes -> Nat]
  BY <1>1 DEF Grant, TypeInv
<1>3. granted' \in [Requests -> SUBSET Nat]
  <2>1. granted \in [Requests -> SUBSET Nat]
    BY DEF TypeInv
  <2>2. granted[r] \cup {Current(r)} \in SUBSET Nat
    BY <1>1, <2>1
  <2>3. granted' = [granted EXCEPT ![r] = granted[r] \cup {Current(r)}]
    BY DEF Grant
  <2> QED BY <2>1, <2>2, <2>3
<1> QED BY <1>2, <1>3

\* Recording an item's result keeps the types.
LEMMA RecordTypes ==
  ASSUME TypeInv, NEW r \in Requests, NEW result \in ItemResults, Record(r, result)
  PROVE  /\ results' \in [Requests -> Seq(ItemResults)]
         /\ pc' \in [Requests -> Working \cup {"idle", "done"}]
         /\ results'[r] = Append(results[r], result)
         /\ \A s \in Requests \ {r} : results'[s] = results[s]
<1>1. results \in [Requests -> Seq(ItemResults)]
  BY DEF TypeInv
<1>2. Append(results[r], result) \in Seq(ItemResults)
  BY <1>1, AppendProperties
<1>3. pc' \in [Requests -> Working \cup {"idle", "done"}]
  BY DEF Record, TypeInv, Working
<1> QED BY <1>1, <1>2, <1>3 DEF Record

\* Every step keeps the types, given that only a request with a key locks one.
LEMMA TypeStep ==
  ASSUME TypeInv, \A r \in Requests : RequestInv(r), [Next]_vars
  PROVE  TypeInv'
<1> USE DEF tables
<1>e. <<>> \in Seq(ItemResults)
  OBVIOUS
<1>1. ASSUME NEW r \in Requests, RejectInput(r) PROVE TypeInv'
  BY <1>1, <1>e, FinishTypes DEF RejectInput, TypeInv
<1>2. ASSUME NEW r \in Requests, Begin(r) \/ CreateIdempotencyKey(r) PROVE TypeInv'
  BY <1>2 DEF Begin, CreateIdempotencyKey, TypeInv, Working
<1>3. ASSUME NEW r \in Requests, LockIdempotencyKey(r) PROVE TypeInv'
  <2> DEFINE row == keys[req[r].key]
  <2>1. UNCHANGED <<useCount, keys, granted, req>> /\ req[r].key \in Keys
    BY <1>3 DEF LockIdempotencyKey, RequestInv, Waiting
  <2>2. row.response \in Seq(ItemResults)
    BY <2>1 DEF TypeInv
  <2>3. CASE row.hash = hashBatchRequest(req[r]) /\ row.response = <<>>
    BY <1>3, <2>1, <2>3 DEF LockIdempotencyKey, TypeInv, Working
  <2>4. CASE row.hash = hashBatchRequest(req[r]) /\ row.response # <<>>
    <3>1. Finish(r, Reply("ok", row.response))
      BY <1>3, <2>4 DEF LockIdempotencyKey
    <3> QED BY <2>1, <2>2, <3>1, FinishTypes DEF TypeInv
  <2>5. CASE row.hash # hashBatchRequest(req[r])
    <3>1. Finish(r, Reply("conflict", <<>>))
      BY <1>3, <2>5 DEF LockIdempotencyKey
    <3> QED BY <2>1, <1>e, <3>1, FinishTypes DEF TypeInv
  <2> QED BY <2>3, <2>4, <2>5
<1>4. ASSUME NEW r \in Requests, SkipItem(r) PROVE TypeInv'
  <2>1. Record(r, "skipped") /\ "skipped" \in ItemResults /\ UNCHANGED tables
    BY <1>4 DEF SkipItem, ItemResults
  <2> QED BY <2>1, RecordTypes DEF Record, TypeInv
<1>5. ASSUME NEW r \in Requests, RedeemItem(r) PROVE TypeInv'
  <2>0. HasItem(r) /\ ~Skipped(r)
    BY <1>5 DEF RedeemItem
  <2>1. CASE Grant(r) /\ Record(r, "success")
    <3>1. "success" \in ItemResults
      BY DEF ItemResults
    <3>2. keys' = keys
      BY <2>1 DEF Grant
    <3> QED BY <2>0, <2>1, <3>1, <3>2, RecordTypes, GrantTypes DEF Record, TypeInv
  <2>2. CASE UNCHANGED tables /\ Record(r, "refused")
    <3>1. "refused" \in ItemResults
      BY DEF ItemResults
    <3> QED BY <2>2, <3>1, RecordTypes DEF Record, TypeInv
  <2> QED BY <1>5, <2>1, <2>2 DEF RedeemItem
<1>6. ASSUME NEW r \in Requests, StoreBatchResponse(r) PROVE TypeInv'
  <2>1. results[r] \in Seq(ItemResults)
    BY DEF TypeInv
  <2>2. keys' \in [Keys -> [present: BOOLEAN, hash: Hashes, response: Seq(ItemResults)]]
    <3>1. hashBatchRequest(req[r]) \in Hashes
      BY DEF Hashes, TypeInv
    <3> QED BY <1>6, <2>1, <3>1 DEF StoreBatchResponse, TypeInv
  <2>3. Finish(r, Reply("ok", results[r])) \/ Finish(r, Reply("error", <<>>))
    BY <1>6 DEF StoreBatchResponse
  <2> QED BY <1>6, <1>e, <2>1, <2>2, <2>3, FinishTypes DEF StoreBatchResponse, TypeInv
<1>7. ASSUME NEW r \in Requests, Abort(r) PROVE TypeInv'
  <2>1. Finish(r, Reply("error", <<>>)) /\ UNCHANGED <<req, keys>>
    BY <1>7 DEF Abort, Grant
  <2>2. useCount' \in [Codes -> Nat] /\ granted' \in [Requests -> SUBSET Nat]
    BY <1>7, GrantTypes DEF Abort, TypeInv
  <2> QED BY <1>e, <2>1, <2>2, FinishTypes DEF TypeInv
<1>8. CASE UNCHANGED vars
  BY <1>8 DEF vars, TypeInv
<1> QED BY <1>1, <1>2, <1>3, <1>4, <1>5, <1>6, <1>7, <1>8 DEF Next, Step, Done

-----------------------------------------------------------------------------
(* Keys, results and grants. *)

\* A step of r that writes no key row keeps the invariant of all the others, as
\* long as a key row that it takes was free.
LEMMA StepKeeps ==
  ASSUME IInv, NEW r \in Requests, pc[r] # "done", UNCHANGED <<req, keys>>,
         \A s \in Requests \ {r} : /\ pc'[s] = pc[s] /\ results'[s] = results[s]
                                   /\ granted'[s] = granted[s] /\ inserted'[s] = inserted[s]
                                   /\ reply'[s] = reply[s],
         RequestInv(r)',
         req[r].key \in Keys /\ pc'[r] \in {"items", "store"} =>
           pc[r] \in {"items", "store"} \/ KeyFree(req[r].key)
  PROVE  BatchInv'
<1> USE DEF IInv, BatchInv
<1>1. KeyMutex'
  BY DEF KeyMutex, HoldsKey, KeyFree
<1>2. ASSUME NEW s \in Requests \ {r} PROVE RequestInv(s)'
  <2>1. (Waiting(s)' <=> Waiting(s)) /\ (Executing(s)' <=> Executing(s))
    BY DEF Waiting, Executing, Successes
  <2>2. GrantsFit(s)'
    BY DEF RequestInv, GrantsFit
  <2>3. AnswerInv(s)'
    BY DEF RequestInv, AnswerInv, hashBatchRequest
  <2> QED BY <2>1, <2>2, <2>3 DEF RequestInv
<1>3. KeyInv'
  <2> SUFFICES ASSUME NEW k \in Keys, keys[k].present
               PROVE  \E s \in Requests : WrittenBy(k, s)'
    BY DEF KeyInv
  <2>1. PICK s \in Requests : WrittenBy(k, s)
    BY DEF KeyInv
  <2>2. s # r
    BY <2>1 DEF WrittenBy
  <2>3. WrittenBy(k, s)'
    BY <2>1, <2>2 DEF WrittenBy, Successes, hashBatchRequest
  <2> QED BY <2>3
<1> QED BY <1>1, <1>2, <1>3

\* What ending a request does to its variables and to those of the others.
LEMMA FinishWrites ==
  ASSUME TypeInv, NEW r \in Requests, NEW response, Finish(r, response)
  PROVE  /\ pc'[r] = "done" /\ reply'[r] = response
         /\ \A s \in Requests \ {r} : /\ pc'[s] = pc[s] /\ results'[s] = results[s]
                                      /\ inserted'[s] = inserted[s] /\ reply'[s] = reply[s]
BY DEF Finish, TypeInv

\* A request that ends without storing results keeps the invariant when its
\* grants fit and its answer is that of its key.
LEMMA FinishKeeps ==
  ASSUME IInv, NEW r \in Requests, pc[r] # "done", NEW response, Finish(r, response),
         UNCHANGED <<req, keys>>, \A s \in Requests \ {r} : granted'[s] = granted[s],
         GrantsFit(r)', AnswerInv(r)'
  PROVE  BatchInv'
<1>1. RequestInv(r)'
  BY FinishWrites DEF RequestInv, IInv
<1> QED BY <1>1, FinishWrites, StepKeeps DEF IInv

\* The grant of the current item adds its position, and its code is a new one.
LEMMA GrantFits ==
  ASSUME IInv, NEW r \in Requests, HasItem(r), ~Skipped(r), Grant(r), UNCHANGED req
  PROVE  /\ granted'[r] = granted[r] \cup {Current(r)}
         /\ \A s \in Requests \ {r} : granted'[s] = granted[s]
         /\ Current(r) \notin granted[r]
         /\ GrantsFit(r)'
<1> USE DEF IInv, BatchInv
<1>1. /\ granted'[r] = granted[r] \cup {Current(r)}
      /\ \A s \in Requests \ {r} : granted'[s] = granted[s]
  BY DEF Grant, TypeInv
<1>2. Executing(r)
  BY DEF HasItem, RequestInv
<1>3. results[r] \in Seq(ItemResults) /\ Len(results[r]) \in Nat
  BY DEF TypeInv
<1>4. granted[r] \subseteq 1 .. Len(results[r])
  BY <1>2 DEF Executing, Successes
<1>5. Current(r) \notin granted[r]
  BY <1>3, <1>4 DEF Current
<1>6. \A i \in granted[r] : req[r].items[i] # req[r].items[Current(r)]
  BY <1>4, ItemIsCode DEF Code
<1>7. GrantsFit(r)'
  <2>1. GrantsFit(r) /\ Current(r) \in 1 .. Len(req[r].items)
    BY ItemIsCode DEF RequestInv
  <2> QED BY <1>1, <1>6, <2>1 DEF GrantsFit
<1> QED BY <1>1, <1>5, <1>7

\* Recording a result keeps the invariant when it says what was granted.
LEMMA RecordKeeps ==
  ASSUME IInv, NEW r \in Requests, NEW result \in ItemResults, HasItem(r), Record(r, result),
         UNCHANGED keys, \A s \in Requests \ {r} : granted'[s] = granted[s],
         GrantsFit(r)',
         granted'[r] = IF result = "success" THEN granted[r] \cup {Current(r)} ELSE granted[r]
  PROVE  BatchInv'
<1> USE DEF IInv, BatchInv
<1>0. pc[r] = "items" /\ UNCHANGED <<req, inserted, reply>>
  BY DEF HasItem, Record
<1>1. results[r] \in Seq(ItemResults) /\ Len(results[r]) \in Nat /\ Len(req[r].items) \in Nat
  BY InputTypes DEF TypeInv
<1>2. results'[r] = Append(results[r], result) /\ \A s \in Requests \ {r} : results'[s] = results[s]
  BY RecordTypes
<1>3. /\ pc'[r] = IF Current(r) = Len(req[r].items) THEN "store" ELSE "items"
      /\ \A s \in Requests \ {r} : pc'[s] = pc[s]
  BY DEF Record, TypeInv
<1>4. /\ Len(results'[r]) = Current(r) /\ results'[r][Current(r)] = result
      /\ \A i \in 1 .. Len(results[r]) : results'[r][i] = results[r][i]
  BY <1>1, <1>2, AppendProperties DEF Current
<1>5. Executing(r)
  BY <1>0 DEF RequestInv
<1>6. granted'[r] = Successes(results'[r])
  <2>1. 1 .. Current(r) = (1 .. Len(results[r])) \cup {Current(r)}
    BY <1>1 DEF Current
  <2>2. Successes(results'[r]) =
          Successes(results[r]) \cup (IF result = "success" THEN {Current(r)} ELSE {})
    BY <1>4, <2>1 DEF Successes
  <2> QED BY <1>5, <2>2 DEF Executing
<1>7. Executing(r)'
  BY <1>0, <1>1, <1>3, <1>4, <1>5, <1>6 DEF Executing, HasItem, Current
<1>8. AnswerInv(r)'
  BY <1>0 DEF RequestInv, AnswerInv, hashBatchRequest
<1>9. RequestInv(r)'
  BY <1>3, <1>7, <1>8 DEF RequestInv
<1> QED BY <1>0, <1>2, <1>3, <1>9, StepKeeps

\* A key row that is found always has its response, so a batch is never run a
\* second time under its key: the request is answered from the row.
LEMMA LockKeeps ==
  ASSUME IInv, NEW r \in Requests, LockIdempotencyKey(r)
  PROVE  BatchInv'
<1> USE DEF IInv, BatchInv
<1> DEFINE k == req[r].key
           row == keys[k]
<1>1. pc[r] = "lockKey" /\ UNCHANGED <<useCount, keys, granted, req>>
  BY DEF LockIdempotencyKey, tables
<1>2. k \in Keys /\ row.present
  BY <1>1 DEF RequestInv, Waiting
<1>3. PICK s \in Requests : WrittenBy(k, s)
  BY <1>2 DEF KeyInv
<1>4. row.response # <<>>
  <2>1. Len(req[s].items) # 0
    BY <1>3, InputTypes, EmptySeq DEF WrittenBy
  <2> QED BY <1>3, <2>1 DEF WrittenBy
<1>5. Finish(r, IF row.hash = hashBatchRequest(req[r])
                  THEN Reply("ok", row.response) ELSE Reply("conflict", <<>>))
  BY <1>4 DEF LockIdempotencyKey
<1>6. AnswerInv(r)'
  <2>1. reply'[r] = IF row.hash = hashBatchRequest(req[r])
                      THEN Reply("ok", row.response) ELSE Reply("conflict", <<>>)
    BY <1>5, FinishWrites
  <2> QED BY <1>1, <1>2, <2>1 DEF AnswerInv, Reply, hashBatchRequest
<1>7. GrantsFit(r)'
  BY <1>1 DEF RequestInv, GrantsFit
<1> QED BY <1>1, <1>5, <1>6, <1>7, FinishKeeps

\* The commit of the key row stores the complete results of its own execution,
\* under a key nobody has used before.
LEMMA StoreKeeps ==
  ASSUME IInv, NEW r \in Requests, StoreBatchResponse(r)
  PROVE  BatchInv'
<1> USE DEF IInv, BatchInv
<1> DEFINE k == req[r].key
<1>1. pc[r] = "store" /\ UNCHANGED <<useCount, granted, req>>
  BY DEF StoreBatchResponse
<1>2. Executing(r)
  BY <1>1 DEF RequestInv
<1>3. PICK response : /\ Finish(r, response)
                      /\ response = Reply("ok", results[r]) \/ response = Reply("error", <<>>)
  BY DEF StoreBatchResponse
<1>4. GrantsFit(r)'
  BY <1>1 DEF RequestInv, GrantsFit
<1>5. CASE k = NoKey
  <2>1. keys' = keys
    BY <1>5 DEF StoreBatchResponse
  <2>2. AnswerInv(r)'
    BY <1>1, <1>5 DEF AnswerInv
  <2> QED BY <1>1, <1>3, <1>4, <2>1, <2>2, FinishKeeps
<1>6. CASE k # NoKey
  <2>0. k \in Keys /\ inserted[r] /\ ~keys[k].present
    BY <1>2, <1>6, InputTypes DEF Executing
  <2>1. /\ keys'[k] = [present |-> TRUE, hash |-> hashBatchRequest(req[r]), response |-> results[r]]
        /\ \A l \in Keys \ {k} : keys'[l] = keys[l]
    BY <1>6, <2>0 DEF StoreBatchResponse, TypeInv
  <2>2. /\ pc'[r] = "done" /\ reply'[r] = response
        /\ \A s \in Requests \ {r} : /\ pc'[s] = pc[s] /\ results'[s] = results[s]
                                     /\ inserted'[s] = inserted[s] /\ reply'[s] = reply[s]
    BY <1>3, FinishWrites
  <2>3. KeyMutex'
    BY <1>1, <2>2 DEF KeyMutex, HoldsKey
  <2>4. ASSUME NEW s \in Requests \ {r} PROVE RequestInv(s)'
    <3>1. req[s].key \in Keys \cup {NoKey}
      BY InputTypes
    <3>2. pc[s] \in {"items", "store"} => req[s].key # k
      BY <1>1, <2>0 DEF KeyMutex, HoldsKey
    <3>3. pc[s] \in {"idle", "key", "lockKey"} => Waiting(s)'
      BY <1>1, <2>1, <2>2 DEF RequestInv, Waiting
    <3>4. pc[s] \in {"items", "store"} => Executing(s)'
      BY <1>1, <2>1, <2>2, <3>1, <3>2 DEF RequestInv, Executing, Successes
    <3>5. GrantsFit(s)'
      BY <1>1 DEF RequestInv, GrantsFit
    <3>6. AnswerInv(s)'
      BY <1>1, <2>0, <2>1, <2>2, <3>1 DEF RequestInv, AnswerInv, hashBatchRequest
    <3> QED BY <2>2, <3>3, <3>4, <3>5, <3>6 DEF RequestInv
  <2>5. RequestInv(r)'
    <3>1. AnswerInv(r)'
      BY <1>1, <1>3, <2>1, <2>2 DEF AnswerInv, Reply, hashBatchRequest
    <3> QED BY <1>4, <2>2, <3>1 DEF RequestInv
  <2>6. KeyInv'
    <3> SUFFICES ASSUME NEW l \in Keys, keys'[l].present
                 PROVE  \E s \in Requests : WrittenBy(l, s)'
      BY DEF KeyInv
    <3>1. CASE l = k
      <4>1. WrittenBy(k, r)'
        BY <1>1, <1>2, <2>1, <2>2 DEF WrittenBy, Executing, hashBatchRequest
      <4> QED BY <3>1, <4>1, <1>1
    <3>2. CASE l # k
      <4>1. PICK s \in Requests : WrittenBy(l, s)
        BY <2>1, <3>2 DEF KeyInv
      <4>2. s # r
        BY <1>1, <4>1 DEF WrittenBy
      <4>3. WrittenBy(l, s)'
        BY <1>1, <2>1, <2>2, <3>2, <4>1, <4>2 DEF WrittenBy, Successes, hashBatchRequest
      <4> QED BY <4>3
    <3> QED BY <3>1, <3>2
  <2> QED BY <2>3, <2>4, <2>5, <2>6
<1> QED BY <1>5, <1>6

\* Every step, stuttering included, keeps keys, results and grants in line.
LEMMA BatchStep ==
  ASSUME IInv, [Next]_vars
  PROVE  BatchInv'
<1> USE DEF IInv, BatchInv
<1>1. ASSUME NEW r \in Requests, RejectInput(r) PROVE BatchInv'
  <2>1. pc[r] = "idle" /\ Finish(r, Reply("invalid_input", <<>>)) /\ UNCHANGED <<keys, granted, req>>
    BY <1>1 DEF RejectInput, tables
  <2>2. GrantsFit(r)'
    BY <2>1 DEF RequestInv, GrantsFit
  <2>3. AnswerInv(r)'
    BY <2>1, FinishWrites DEF AnswerInv, Reply
  <2> QED BY <2>1, <2>2, <2>3, FinishKeeps
<1>2. ASSUME NEW r \in Requests, Begin(r) PROVE BatchInv'
  <2>1. /\ pc[r] = "idle" /\ req[r].items # <<>>
        /\ UNCHANGED <<keys, granted, req, results, inserted, reply>>
    BY <1>2 DEF Begin, tables
  <2>2. /\ pc'[r] = IF req[r].key = NoKey THEN "items" ELSE "key"
        /\ \A s \in Requests \ {r} : pc'[s] = pc[s]
    BY <1>2 DEF Begin, TypeInv
  <2>3. Waiting(r)
    BY <2>1 DEF RequestInv
  <2>4. RequestInv(r)'
    <3>1. CASE req[r].key = NoKey
      <4>1. Len(<<>>) = 0 /\ Len(req[r].items) \in Nat
        BY InputTypes
      <4>2. Executing(r)'
        BY <2>1, <2>2, <2>3, <3>1, <4>1 DEF Waiting, Executing, Successes
      <4> QED BY <2>1, <2>2, <3>1, <4>2 DEF RequestInv, GrantsFit, AnswerInv
    <3>2. CASE req[r].key # NoKey
      <4>1. Waiting(r)'
        BY <2>1, <2>2, <2>3, <3>2, InputTypes DEF Waiting
      <4> QED BY <2>1, <2>2, <3>2, <4>1 DEF RequestInv, GrantsFit, AnswerInv, hashBatchRequest
    <3> QED BY <3>1, <3>2
  <2>5. req[r].key \in Keys /\ pc'[r] \in {"items", "store"} => KeyFree(req[r].key)
    BY <2>2, BatchAssumption
  <2> QED BY <2>1, <2>2, <2>4, <2>5, StepKeeps
<1>3. ASSUME NEW r \in Requests, CreateIdempotencyKey(r) PROVE BatchInv'
  <2>1. /\ pc[r] = "key" /\ UNCHANGED <<keys, granted, req, results, reply>>
        /\ keys[req[r].key].present \/ KeyFree(req[r].key)
    BY <1>3 DEF CreateIdempotencyKey, tables
  <2>2. /\ pc'[r] = IF keys[req[r].key].present THEN "lockKey" ELSE "items"
        /\ ~keys[req[r].key].present => inserted'[r]
        /\ \A s \in Requests \ {r} : pc'[s] = pc[s] /\ inserted'[s] = inserted[s]
    BY <1>3 DEF CreateIdempotencyKey, TypeInv
  <2>3. Waiting(r)
    BY <2>1 DEF RequestInv
  <2>4. RequestInv(r)'
    <3>1. CASE keys[req[r].key].present
      <4>1. Waiting(r)'
        BY <2>1, <2>2, <2>3, <3>1 DEF Waiting
      <4> QED BY <2>1, <2>2, <3>1, <4>1 DEF RequestInv, GrantsFit, AnswerInv, hashBatchRequest
    <3>2. CASE ~keys[req[r].key].present
      <4>1. Len(<<>>) = 0 /\ Len(req[r].items) \in Nat
        BY InputTypes
      <4>2. Executing(r)'
        BY <2>1, <2>2, <2>3, <3>2, <4>1 DEF Waiting, Executing, Successes
      <4> QED BY <2>1, <2>2, <3>2, <4>2 DEF RequestInv, GrantsFit, AnswerInv, hashBatchRequest
    <3> QED BY <3>1, <3>2
  <2> QED BY <2>1, <2>2, <2>4, StepKeeps
<1>4. ASSUME NEW r \in Requests, SkipItem(r) PROVE BatchInv'
  <2>1. HasItem(r) /\ Record(r, "skipped") /\ UNCHANGED <<keys, granted, req>>
    BY <1>4 DEF SkipItem, Record, tables
  <2>2. GrantsFit(r)' /\ "skipped" \in ItemResults
    BY <2>1 DEF RequestInv, GrantsFit, ItemResults
  <2> QED BY <2>1, <2>2, RecordKeeps
<1>5. ASSUME NEW r \in Requests, RedeemItem(r) PROVE BatchInv'
  <2>0. HasItem(r) /\ ~Skipped(r)
    BY <1>5 DEF RedeemItem
  <2>1. CASE Grant(r) /\ Record(r, "success")
    <3>1. UNCHANGED <<keys, req>> /\ "success" \in ItemResults
      BY <2>1 DEF Grant, Record, ItemResults
    <3> QED BY <2>0, <2>1, <3>1, GrantFits, RecordKeeps
  <2>2. CASE UNCHANGED tables /\ Record(r, "refused")
    <3>1. UNCHANGED <<keys, granted, req>> /\ "refused" \in ItemResults
      BY <2>2 DEF Record, tables, ItemResults
    <3>2. GrantsFit(r)'
      BY <3>1 DEF RequestInv, GrantsFit
    <3> QED BY <2>0, <2>2, <3>1, <3>2, RecordKeeps
  <2> QED BY <1>5, <2>1, <2>2 DEF RedeemItem
<1>6. ASSUME NEW r \in Requests, Abort(r) PROVE BatchInv'
  <2>1. pc[r] # "done" /\ Finish(r, Reply("error", <<>>)) /\ UNCHANGED <<keys, req>>
    BY <1>6 DEF Abort, Working, Grant, tables
  <2>2. AnswerInv(r)'
    BY <2>1, FinishWrites DEF AnswerInv, Reply
  <2>3. GrantsFit(r)' /\ \A s \in Requests \ {r} : granted'[s] = granted[s]
    <3>1. CASE UNCHANGED tables
      BY <2>1, <3>1 DEF tables, RequestInv, GrantsFit
    <3>2. CASE HasItem(r) /\ ~Skipped(r) /\ Grant(r)
      BY <2>1, <3>2, GrantFits
    <3> QED BY <1>6, <3>1, <3>2 DEF Abort
  <2> QED BY <2>1, <2>2, <2>3, FinishKeeps
<1>7. CASE UNCHANGED vars
  <2> USE <1>7 DEF vars, tables
  <2>1. KeyMutex'
    BY DEF KeyMutex, HoldsKey
  <2>2. \A s \in Requests : RequestInv(s)'
    BY DEF RequestInv, Waiting, Executing, Successes, GrantsFit, AnswerInv, hashBatchRequest
  <2>3. KeyInv'
    BY DEF KeyInv, WrittenBy, Successes, hashBatchRequest
  <2> QED BY <2>1, <2>2, <2>3
<1> HIDE DEF BatchInv
<1> QED BY <1>1, <1>2, <1>3, <1>4, <1>5, <1>6, <1>7, LockKeeps, StoreKeeps DEF Next, Step, Done

-----------------------------------------------------------------------------
(* Uses. *)

\* The members of GrantsOf(c): one pair for each success row of the code.
LEMMA GrantsMember ==
  ASSUME NEW c, NEW p
  PROVE  p \in GrantsOf(c) <=>
           \E s \in Requests : \E i \in granted[s] : p = <<s, i>> /\ req[s].items[i] = c
BY DEF GrantsOf

\* A grant adds one success row and one use, to the same code.
LEMMA GrantCounts ==
  ASSUME IInv, NEW r \in Requests, HasItem(r), ~Skipped(r), Grant(r), UNCHANGED req,
         NEW c \in Codes
  PROVE  Counted(c)'
<1> USE DEF IInv
<1> DEFINE p == <<r, Current(r)>>
<1>0. Counted(c) /\ useCount[c] \in Nat /\ Code(r) \in Codes /\ MaxUses[c] \in Nat
  BY ItemIsCode, BatchAssumption DEF TypeInv
<1>1. /\ granted'[r] = granted[r] \cup {Current(r)}
      /\ \A s \in Requests \ {r} : granted'[s] = granted[s]
      /\ Current(r) \notin granted[r]
  BY GrantFits
<1>2. \A q : q \in GrantsOf(c)' <=>
             \E s \in Requests : \E i \in granted'[s] : q = <<s, i>> /\ req[s].items[i] = c
  BY DEF GrantsOf
<1>3. CASE c = Code(r)
  <2>1. p \notin GrantsOf(c)
    BY <1>1, GrantsMember
  <2>2. GrantsOf(c)' = GrantsOf(c) \cup {p}
    <3>1. \A q : q \in GrantsOf(c)' <=> q \in GrantsOf(c) \/ q = p
      BY <1>1, <1>2, <1>3, GrantsMember DEF Code
    <3> QED BY <3>1
  <2>3. IsFiniteSet(GrantsOf(c)') /\ Cardinality(GrantsOf(c)') = Cardinality(GrantsOf(c)) + 1
    BY <1>0, <2>1, <2>2, FS_AddElement DEF Counted
  <2>4. useCount'[c] = useCount[c] + 1 /\ useCount[c] < MaxUses[c]
    BY <1>0, <1>3 DEF Grant, TypeInv
  <2> QED BY <1>0, <2>3, <2>4 DEF Counted
<1>4. CASE c # Code(r)
  <2>1. GrantsOf(c)' = GrantsOf(c)
    <3>1. \A q : q \in GrantsOf(c)' <=> q \in GrantsOf(c)
      BY <1>1, <1>2, <1>4, GrantsMember DEF Code
    <3> QED BY <3>1
  <2>2. useCount'[c] = useCount[c]
    BY <1>0, <1>4 DEF Grant, TypeInv
  <2> QED BY <1>0, <2>1, <2>2 DEF Counted
<1> QED BY <1>3, <1>4

\* The count of uses is inductive: only a grant touches it.
LEMMA CountStep ==
  ASSUME IInv, [Next]_vars, NEW c \in Codes
  PROVE  Counted(c)'
<1>1. ASSUME UNCHANGED <<useCount, granted, req>> PROVE Counted(c)'
  BY <1>1 DEF IInv, Counted, GrantsOf
<1>2. ASSUME NEW r \in Requests, RejectInput(r) \/ Begin(r) PROVE Counted(c)'
  BY <1>1, <1>2 DEF RejectInput, Begin, tables
<1>3. ASSUME NEW r \in Requests, Step(r) PROVE Counted(c)'
  <2>1. CASE CreateIdempotencyKey(r) \/ LockIdempotencyKey(r) \/ SkipItem(r)
    BY <1>1, <2>1 DEF CreateIdempotencyKey, LockIdempotencyKey, SkipItem, Record, tables
  <2>2. CASE StoreBatchResponse(r)
    BY <1>1, <2>2 DEF StoreBatchResponse
  <2>3. CASE RedeemItem(r)
    BY <1>1, <2>3, GrantCounts DEF RedeemItem, Record, tables
  <2> QED BY <1>3, <2>1, <2>2, <2>3 DEF Step
<1>4. ASSUME NEW r \in Requests, Abort(r) PROVE Counted(c)'
  BY <1>1, <1>4, GrantCounts DEF Abort, tables
<1>5. CASE UNCHANGED vars
  BY <1>1, <1>5 DEF vars, tables
<1> QED BY <1>2, <1>3, <1>4, <1>5 DEF Next, Done

-----------------------------------------------------------------------------
(* The theorems. *)

\* Before the first request nothing is stored, granted or answered.
LEMMA BatchInit == Init => IInv
<1> SUFFICES ASSUME Init PROVE IInv
  OBVIOUS
<1>1. TypeInv
  <2>1. NoKeyRow \in [present: BOOLEAN, hash: Hashes, response: Seq(ItemResults)]
    <3>1. NoKeyRow.hash \in Hashes
      BY DEF Hashes
    <3> QED BY <3>1 DEF NoKeyRow
  <2>2. NoReply \in [outcome: {"none", "ok", "error", "conflict", "invalid_input"},
                     items: Seq(ItemResults)]
    BY DEF NoReply, Reply
  <2> QED BY <2>1, <2>2 DEF Init, TypeInv
<1>2. \A r \in Requests : /\ pc[r] = "idle" /\ results[r] = <<>> /\ granted[r] = {}
                          /\ reply[r].outcome = "none"
  BY DEF Init, NoReply, Reply
<1>3. KeyMutex /\ \A r \in Requests : RequestInv(r)
  BY <1>2 DEF KeyMutex, HoldsKey, RequestInv, Waiting, GrantsFit, AnswerInv
<1>4. KeyInv
  BY DEF Init, KeyInv, NoKeyRow
<1>5. ASSUME NEW c \in Codes PROVE Counted(c)
  <2>1. GrantsOf(c) = {}
    BY <1>2, GrantsMember
  <2>2. IsFiniteSet({}) /\ Cardinality({}) = 0
    BY FS_EmptySet
  <2>3. useCount[c] = 0 /\ MaxUses[c] \in Nat
    BY BatchAssumption DEF Init
  <2> QED BY <2>1, <2>2, <2>3 DEF Counted
<1> QED BY <1>1, <1>3, <1>4, <1>5 DEF IInv, BatchInv

\* The invariant holds in every reachable state.
THEOREM BatchInvariant == Spec => []IInv
<1>1. IInv /\ [Next]_vars => IInv'
  <2> SUFFICES ASSUME IInv, [Next]_vars PROVE IInv'
    OBVIOUS
  <2>1. TypeInv'
    BY TypeStep DEF IInv, BatchInv
  <2> QED BY <2>1, BatchStep, CountStep DEF IInv
<1> QED BY <1>1, BatchInit, PTL DEF Spec

\* Every reachable state of the batch redemption is well typed.
THEOREM BatchTypes == Spec => []TypeOK
<1>1. IInv => TypeOK
  BY DEF IInv, TypeInv, BatchInv, RequestInv, GrantsFit, TypeOK, ItemResults
<1> QED BY <1>1, BatchInvariant, PTL

\* Whatever requests overlap, fail or repeat, a code is used as often as success
\* rows exist, never beyond its limit, and once per request.
THEOREM BatchUsesAreCounted == Spec => []BatchUsesCounted
<1>1. IInv => BatchUsesCounted
  BY DEF IInv, BatchInv, RequestInv, GrantsFit, Counted, BatchUsesCounted
<1> QED BY <1>1, BatchInvariant, PTL

\* A committed key stores the complete results of one execution of its request,
\* with exactly the successes which that execution committed.
THEOREM KeysHoldTheirBatches == Spec => []KeyHoldsItsBatch
<1>1. ASSUME IInv, NEW k \in Keys, NEW r \in Requests, WrittenBy(k, r)
      PROVE  granted[r] = {i \in 1 .. Len(req[r].items) : keys[k].response[i] = "success"}
  BY <1>1 DEF WrittenBy, Successes
<1>2. IInv => KeyHoldsItsBatch
  BY <1>1 DEF IInv, BatchInv, KeyInv, WrittenBy, KeyHoldsItsBatch
<1> QED BY <1>2, BatchInvariant, PTL

\* Requests answered under one key carry the same list and are given the same
\* whole result.
THEOREM ReplaysAreWhole == Spec => []WholeReplay
<1>1. IInv => WholeReplay
  <2> SUFFICES ASSUME IInv, NEW r \in Requests, NEW s \in Requests,
                      req[r].key # NoKey, req[s].key = req[r].key,
                      reply[r].outcome = "ok", reply[s].outcome = "ok"
               PROVE  req[r] = req[s] /\ reply[r].items = reply[s].items
    BY DEF WholeReplay
  <2>1. /\ hashBatchRequest(req[r]) = hashBatchRequest(req[s])
        /\ reply[r].items = reply[s].items
    BY DEF IInv, BatchInv, RequestInv, AnswerInv
  <2> QED BY <2>1, HashIsFaithful DEF IInv
<1> QED BY <1>1, BatchInvariant, PTL
=============================================================================
