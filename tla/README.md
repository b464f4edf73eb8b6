# Verification of the CDK redemption system

TLA+ models of the redemption system in `src/` (Go API and webhook worker on PostgreSQL and Redis,
React client), the TLC configurations that check them and the TLAPS proofs about them.

## 1. The system

| Part | State | Operations | Hard behaviour |
|---|---|---|---|
| Redemption of one code, `redeem.Service.Redeem` | `codes.use_count`, `codes.status`, `batches.status`, `redemptions`, `idempotency_keys`, `credentials`, `webhook_outbox` | one READ COMMITTED transaction of up to eight statements | row locks and lock waits, snapshots that are stale after a wait, `SKIP LOCKED`, rollback at every statement, a commit whose acknowledgement is lost, concurrent requests with one key |
| Batch redemption, `redeem.Service.BatchRedeem` | the same, and the connection pool | one transaction per item inside the transaction of the key | one item of several fails; a request holds a connection while it needs another |
| Toggles and credential store (`admin.go`, `credentials.go`) | `codes.status`, `batches.status`, `credentials` | toggle, upload, delete | run against the rows a redemption has locked |
| Batches and codes (`admin.go`, `batch.go`) | `batches`, `codes` | create, list, export | stock is counted outside the transaction, paging offsets |
| Webhook worker (`webhook.Worker`, `Deliverer`) | `webhook_outbox`, webhook columns of `redemptions` | lease, deliver, mark success or failure (two transactions) | leases that run out, several workers, crashes, at-least-once delivery, limits of a column |
| Resend (`AdminHandler.ResendWebhook`) | the same | replace the event of a redemption | late workers of the replaced event |
| Rate limiter | a sorted set per key in Redis | one script | clocks of several processes |
| Sessions, login, CSRF | sessions in Redis, cookies shared by the tabs | login, logout, middleware, gate of the layout | expiry, another tab that logs in between a call's header and its cookies, failures other than 401 |
| FAQ, site settings | `faq_items`, `site_settings`, the provider and the forms | create, update, delete, reorder; save | unique order checked row by row, optimistic order, validations and loads that end late |
| Redeem page and converter | form, results, history in session storage | submit one or many codes, archive, history, convert | lost responses, several successes in one answer, a panel that is unmounted while it waits |
| Lists of the administration pages | list, filter, page, selection, dialogs | load, filter, turn, select, toggle, delete, upload, create, resend | answers in any order, pages that vanish, rows and counts read by two statements, state captured by an old render |

Interaction: an HTTP handler charges the rate limiter and calls the service; the service writes the
outbox event in the redemption's transaction; worker processes poll the outbox, call the target and
write the outcome first to the outbox row, then to the redemption; administrators toggle, upload,
delete and resend through the same tables. Nothing but PostgreSQL's locks orders these actors.

What makes the core correct: a code is never used beyond its limit and every use has its row; a
credential is handed out once; a key answers the same request with the same result for ever; no
waiting lasts for ever; a redemption shows the true state of its webhook; an event ends delivered or
dead. `PROJECT.json` lists the hazards line by line with the properties aimed at each.

## 2. Modules

| Module | Models |
|---|---|
| `Redemption` | `Service.Redeem`, the toggles, upload and deletion of credentials, the clock |
| `RedeemPromise` | abstract specification: what one redemption promises its callers |
| `RedemptionProofs`, `RedemptionHistoryProofs` | theorems about `Redemption`; the second also proves that it implements `RedeemPromise` |
| `BatchRedeem`, `BatchRedeemProofs` | `Service.BatchRedeem` with its key transaction and the pool, and theorems about it |
| `WebhookOutbox`, `WebhookOutboxProofs` | `webhook.Worker`, the outbox, `ResendWebhook`, and theorems about them |
| `Lists` | filters, and pages of rows, as the pages and the queries make them |
| `RedeemPage` | the redeem form, its results, archives and history (`redeem.tsx`, `redeem-archive.ts`) |
| `Converter` | `converter.ts` and the tab around it |
| `CredentialsPage` | `credentials.tsx` with `ListCredentials`, upload and deletion, and changes made elsewhere |
| `BatchPages` | `batches.tsx`, `batch-detail.tsx` with `GetBatch`, `ListCodes` and the toggles |
| `BatchNewPage` | `batch-new.tsx` with `CreateBatch` and `ListCredentialPlans` |
| `LogsPage` | `logs.tsx` with `ListLogs` and `ResendWebhook` |
| `FaqPage` | `faq.tsx` with the FAQ handlers and queries |
| `SiteSettings` | `site-settings-provider.tsx`, `site-settings.tsx` with `SiteSettingsHandler` |
| `AdminSession` | `admin-layout.tsx`, `login.tsx`, `request` of `api.ts`, `auth.go`, `context.go`, `session.go` |
| `WebClient` | the pages under the routes of `App.tsx` |
| `WebClientProofs` | lemmas about lists of calls and pages of rows, theorems about sessions, settings and notes |
| `AdminPagesProofs` | theorems about the form for new batches, the credentials page, the redemption log |
| `RedeemPageProofs` | lemmas about loops over lists, theorems about the redeem page and the converter |
| `BatchPagesProofs` | theorems about the pages of batches, and the types of the whole client; extends the three above |
| `MCRedemption`, `MCBatchRedeem`, `MCWebhookOutbox`, `MCWebClient` | small instances for TLC |

Operators named `X_Variant` after a comment "Faulty variant" are not part of a specification: each is
a plausible bug of the code modelled by `X`, used to see that a property would notice it.

### Redemption

One action is one SQL statement that can wait or that another transaction can observe; `pc[r]` is
the next statement. Uncommitted writes are names in `wrote[r]` and take effect in `Commit`. A row
lock is held from its statement to the end of the transaction, so `HoldsKey`, `HoldsCode` and
`HoldsCred` are functions of `pc` and `pick`. `GetCodeByCode` that finds the row locked goes to
`codeWait` with the batch status of its snapshot in `batchSeen`, because after the wait PostgreSQL
re-reads only the locked code row; `start[r]` is the transaction's `NOW()`, while the batch expiry is
compared with the API's clock `now`. `Rollback` may happen at every statement. `Commit` may answer
with an error although it took effect. A request inserts at most one redemption row, which is
therefore named by the request. Texts are abstracted: a code is its normalized form, the hash is the
pair of user and code, a response is its result and its credential. `RejectInput` stands for all
checks before the transaction. `KeyFree` is waited for by `CreateIdempotencyKey` only when the row is
not committed: `ON CONFLICT DO NOTHING` does not wait for a lock on an existing row, the following
`SELECT ... FOR UPDATE` does. Rate limiting happens before the handler calls the service and is left
out.

### BatchRedeem

Items are redeemed in order; an item is one atomic step that needs a free connection, since a
redemption without a key takes effect at its commit and waits only for redemptions that have their
connection already. A keyed request holds a connection from `Begin` to its end. `Abort` is every
failure, cancellation and crash: the key transaction is rolled back, committed items stay. `refused`
stands for every business failure of an item. `granted[r]` are the items with a committed success.

### WebhookOutbox

Every statement of the worker is its own transaction and its own action. Time appears only as "the
back-off is over" and "the lease has run out". `Timely` says that no lease runs out while its worker
is busy; safety is checked without it. A lease token is identified with the attempt number. A
delivery ends with a verdict and a detail; `Storable` is the length and encoding the column accepts.
`Drop` is a crash, or a failed statement, which the worker only logs. `RemoveBatch` is the
`ON DELETE SET NULL` of `redemptions.batch_id`, which the worker handles though no handler deletes a
batch.

### RedeemPromise

Every request is answered in one step: decided once, told what was decided under its key, or refused
without a trace. `Redemption!Promise` instantiates it with `asked <- req`, `given <- redemptions`,
`got <- reply`: a `Commit` maps to `Decide`, a replay or conflict to `Repeat`, a rejection or rollback
to `Refuse`, everything else (lookups, locks, uncommitted writes, administrators) to a stutter.
`KeepsPromise` is the abstract specification as a property of the detailed one.

### The pages of the web client

Every page module has the component's state in one record, the calls on their way in a sequence or a
function, and the rows the server keeps for it. A handler that awaits is cut at the await: the action
up to the call, the server's part, and one action for the answer or the failure. Statements of the
server without a transaction around them are actions of their own. A call may
fail before or after the server executed it, and calls in one sequence are answered in any order. What
a handler captured when it was called (filter, page, the render's `load`) is part of its call; a
component that is unmounted leaves its calls behind, and their answers no longer set its state. `mine`
and `mounted` say so. Confirmation dialogs are part of the action they guard. Texts, names and
contents are model values or small sets; a JSON text of the converter is given as the value
`JSON.parse` makes of it, with fields that are strings, null or objects.

- `Lists`: a loop that pushes is a function of how many elements it has seen; a page of rows is the
  set of rows whose `Place`, the number of rows before it, lies on the page.
- `RedeemPage`: `cdkUsed` counts the uses the server granted. A batch is served item by item as in
  `RedeemPromise`. `redeemLog.settled` collects the successes that are accounted for otherwise
  (deleted, pushed out of the history, lost with their answer, not stored).
- `CredentialsPage`: a list call is `sent`, then `listed` (`credentials.go:98`), then `counted`
  (`:109`), and rows are uploaded, deleted and redeemed at any time, `credChanges` of them.
  `credBlank` is why the list call that ended last left no rows. If an upload commits between the two
  statements, an empty page becomes a valid one, its answer is shown as it is (`items: null`) and the
  skeleton stays: the reason is then `raced`, and `BlankIsExplained` allows it beside a failure, an
  answer for another choice and an empty table, and nothing else.
- `LogsPage`: `ListRedemptions` and `CountRedemptions` are two actions as well, and redemptions keep
  coming; a list may be empty with a total of one. A timer holds the query of the render that sent a
  resend. `logEarly` says that something was under way when the query was last chosen: its answer, or
  its timer, may then overtake the new one's, since the page does not tell answers apart. What is
  started later, resends and their timers included, is about the query chosen.
- `BatchPages`: `batchHaste` counts failed calls and actions taken while a call was on its way; the
  property about what is shown is stated for the administrator who waits, since the pages do not
  discard late answers and a hasty one can see an old list.
- `BatchNewPage`: the form always sends the expiry without a time zone (`datetime-local`), which
  `CreateBatch` parses as RFC 3339 (`admin.go:137`): the server refuses every form with an expiry.
  `CheckBatch` models it, and no run depends on it. The stock is counted in `CheckBatch` and the batch
  made in `CreateBatch`, with `StockMoves` in between: a batch that assigns credentials can be made
  after the last one was taken, although `docs/API_CONTRACT.md:226` says nothing is created then. Its
  redemptions answer `credential_unavailable` until credentials are uploaded, as they do when the stock
  runs out later.
- `FaqPage`: `Collides` is the unique index checked row by row in an order the database chooses.
- `SiteSettings`: a version stands for `updated_at`, which keys the form.
- `AdminSession`: a session and its token have one number. `me` reads, `change` is any mutating call.
  `Request` reads the token for the header; `AttachCookies` is the browser that sends the call later,
  with the cookies of then. `refused` remembers under which sessions a tab's changes were refused for
  their token.
- `WebClient`: the pages share nothing but cookies and settings, so the client is one of its pages,
  whichever is opened, and the modules need not be interleaved with each other.

## 3. Runs

| Run | Shows |
|---|---|
| `redemption_keys` | three requests, one key, one known and one unknown code, expiry, toggles: counts, keys, replays, final history, and that all of it implements `RedeemPromise` |
| `redemption_live` | two requests, two codes of one batch, a key and one credential that is uploaded, deleted and expires: paid once, every transaction ends, a disabled batch stops later lookups |
| `batch` | three batches, keyed or not, repeated and blank items, aborts; with one connection more than requests every batch is answered |
| `batch_pool` | violation: as many keyed batches as connections stop each other |
| `batch_retry` | violation: a retry with the same key redeems a code again |
| `webhook_safety` | two workers, lost leases, a crash, a resend, unstorable details |
| `webhook_live` | every event ends, with two workers and a crash |
| `webhook_crash` | violation: after a crash between the two updates a redemption shows pending with nothing queued |
| `webhook_unstorable` | violation: an event is delivered past `MaxAttempts` |
| `web_client` | every page: no granted use is lost by the page, archives and converted files are complete, lists are what they seem and come back once blanked, one form makes one batch, the credentials selected are among the rows shown, an upload keeps its dialog and a blank table is explained, no load and no late validation undoes a newer choice, a login in another tab costs a tab at most one change |
| `web_live` | a submission of the redeem form ends, the gate of the administration pages opens |
| `faq_move` | violation: the unique index refuses a move up or down |

The violations are described under `findings` in `PROJECT.json`.

Bounds. Three requests are the least with which one holds a lock, one waits and one comes later (a
replay of a replay); the limit of two uses with three requests reaches both the last use and the
first refusal; one credential that two codes compete for makes the lock and `SKIP LOCKED` matter, and
more of them are left to the proof; one tick of the clock separates start, expiry and check. Two workers are the least with a takeover;
`MaxAttempts = 2` has one retry and one last attempt, and `MaxLeases` is one above it so that a
crash or an unrecorded attempt can exceed it; two events are one resend. Two batch requests on two
connections fill the pool. `MaxTime`, `MaxLeases` and `MaxDrops` are the only bounds on counters.
The webhook runs allow termination: when all events have ended nothing needs to happen.
In the client two calls on their way are the least that can be answered in the wrong order, and one
failure or hasty action the least that can disturb; lists of two rows on pages of one row have a last
page that can vanish, and two changes of the rows (`MaxCredChanges`) make one fall before and one
between the two statements of a list, and one filter beside "all" lets redemptions take rows from
under it; a history of two entries overflows with the third success; two codes with a
duplicate in another writing and a blank entry make a batch with every kind of item; two files, one of
them refused, make validations that end in the wrong order; two tabs and two sessions let one tab log
in under the other (`web_live` has one session, as its gate needs no second). `MaxVersion`, `MaxFaqId`, `MaxCreates`, `MaxStockMoves`, `MaxCredChanges`,
`MaxSessions` and the `Max...Calls` bound counters and queues.

Fairness. `Redemption!FairSpec` and `BatchRedeem!FairSpec`: a request whose next statement can run
runs it (net/http schedules each handler, PostgreSQL and pgx grant what stays free). A first
statement, a rollback, a client that gives up and the administrators are not fair.
`WebhookOutbox!FairSpec`: a worker polls every five seconds for ever and finishes what it holds, and
time passes. A delivery may fail every time; nothing assumes that it succeeds.
`WebClient!ClientSpec`: a call on its way is answered or fails, since the browser gives every fetch an
end, and an archive being packed ends, in success or failure. Neither the user nor the server is
assumed to do anything: a failure without the server's help is enough.

## 4. Proofs

Every theorem is about the specification the runs check, for every value of the constants: any number
of requests, codes, keys, workers, events, tabs, files, rows and calls on their way, any size of a
pool, a page or a history. Assumed are only the named assumptions of the modules that declare the
constants: types, finite sets of requests and rows, null values that are no members, bounds that are
numbers, ids that are numbers, normalized codes that normalize to themselves, the tab "all" among the
tabs. TLC evaluates them in the runs. Few of the properties are inductive as they stand, so each proof
goes through an invariant of the implementation, checked by TLC before it was proved. Every invariant and every action property that a run checks is proved.

### Redemption

The safety properties speak of committed rows, and a commit is right only because of what its
transaction read and wrote before. `IInv` adds
- `Mutex`: two transactions never hold the same key, code or credential row;
- `KeyHolder`: who holds a key row has inserted it, and it is not committed; who is about to lock an
  existing row finds it;
- `Progress`: which writes a transaction has at each statement, and that from the check of the code
  to the commit `IncrementMatches` still holds;
- `PickFits`: a locked credential is unused, of the right plan and unexpired at the start;
- `RowOfEnded`: only an ended request has a row;
- `KeyRecordsItsOutcome`.

`LocalStep` shows once that a statement which publishes nothing keeps `IInv` if the locks it takes
were free; `CommitWrites` restates a commit as `Publish`, and the mutual exclusion makes it harmless
to the others; the admin operations wait for the locks. From `IInv` follow `IncrementIsSafe` and
`KeysAreFaithful` directly, and, each by its own induction relative to `IInv`, `CodesNotOverused`
(with cardinalities of finite sets), `CredentialsPaidOnce`, `ReplaysAreFaithful` and
`HistoryNeverRewritten`. `DisabledBatchesStop` shows that, as long as the batch stays disabled,
`Stopped` is kept: such a request is not past the check, or waits with the disabled batch in its
snapshot, or has failed.

`RedeemKeepsPromise` is the refinement. Under `RefInv` (`IInv`, `SuccessesAreCounted`,
`CredentialPaidOnce` and that only an ended request is answered) a `Commit` is `Decide`: key, use and
credential were looked up statements before, and the locks say they are still free. An answer from a
locked key row is `Repeat`, because the row holds the outcome of its request; every other answer is
`Refuse`; all other statements, and the administrators, leave what callers see alone.

### WebhookOutbox

`IInv` is `TypeOK`, `Coupling` and the three outcome properties. `Coupling` ties the worker's memory
to the rows: a row's token was handed out and belongs to a live event (`RowInv`); a busy worker has a
token that was handed out, and its verdict a reason (`WorkerInv`); no token of an event is in two
hands (`TokensDiffer`); a redemption with a status points to an event of its own (`RedemptionInv`).
The last conjunct of `WorkerInv` carries `ShownOutcomesAreReal` over the gap between the worker's two
updates: who is about to write a final status to the redemption has already made the event final, and
`EndedEventsStay`. No assumption says that a lease lasts as long as its delivery.

### BatchRedeem

`IInv` has `KeyMutex`; per request `RequestInv` (before the first item nothing is granted, while
items are handled the results tell exactly the grants and a keyed request has its uncommitted row,
an answer under a key is what the row says); `KeyInv` (a committed key was written by one ended
request, whose grants are the successes of the stored list); and `Counted`, by cardinalities of the
finite set of grants of a code. The pool plays no part: what is counted and stored is right whatever
the number of connections.

### The web client

A step of the client is a step of one page (`ClientNext` implies `[SiteNext]_siteVars` and so on), so
the invariant of a page is proved from its own actions and holds in the client. The lists of calls
are handled by the lemmas at the head of `WebClientProofs`: what sending, executing and answering a
call does to the others.
- Sessions (`SessionInv`): session and token are of the same login in the browser, in the cookies a
  call was sent with and in those its answer sets; a login's answer on its way brings a session that no
  browser, call or refusal knows (`SessionIsNew`). Under a session that refused a tab once, the tab's
  next change carries that session's token (`TokenIsRenewed`), so no session refuses a tab twice.
- Settings: a validation that counts is of the file chosen last; one load at a time is on its way, and
  until it is answered nothing can be saved (`ChecksCurrent`, `OneLoad`, `NothingBeforeLoad`).
- Notes: what ends a move asks for the list, and only the answer to that makes the order the server's.
- New batch: one creation is on its way and only while the button is locked; every batch but one is
  excused by a lost answer or a second press (`OneCreation`, `BatchesExcused`).
- Credentials: whatever replaces rows clears or cuts the selection; one upload is on its way, and its
  dialog stays. `TableInv` says what a list call may claim after each of its two statements: if the
  first read no row its page was empty, and if no row changed before the second, the page asked for is
  beyond the last one, so that the page number follows. That a page up to the last one has a row is
  arithmetic about places: `PlaceFacts` shows, by an injection between sets of one cardinality, that
  the rows have the places 0, 1, ... one each, and `PageHasRows` that the page has one of them.
- Redemption log (`LogsInv`): calls, timers and the list shown are about `LogChoices`, which is the
  query chosen, or any query if something was under way when it was chosen; and a list that `load`
  blanked is on its way or failed, since every answer is shown whatever it is about.
- Redeem page (`RedeemInv`): a granted use is on its way or noted, and one noted among the last
  `HistoryLimit` is in the history, no further down than it was noted (`HistoryKeeps`): so the limit
  cannot drop it too early, however many successes one answer brings. `FormWaits` ties the loading
  form to the one call or archive it waits for, whichever panel is mounted.
- Converter (`ConvInv`): a download was made from one text that was entered. That no account is
  dropped counts the places of the file.
- Batches and codes (`Calm`): as long as nobody hurried and nothing failed, either only loads are on
  their way, every part of the page that is not true is among them, and what they read is still so;
  or one toggle is, on a page that was true when it was sent.
- Types (`ClientShape`): `ClientTypeOK` needs, besides the invariants above, that versions are left
  for all saves the server has not executed (`SiteShape`), that a call names a code of the batch
  (`BatchShape`), and that the rows of the notes have orders which can be sorted (`FaqShape`): the
  list sent has a row for every place.

What a loop over a list computes is proved where it is needed, by contradiction at the least number
of elements for which it would fail (`LeastElement`, `Induction` of `RedeemPageProofs`, for a set of
numbers instead of a predicate), since the library's induction theorems cannot be used here.

### Only model-checked

- `EveryRequestEnds`, `EveryBatchEnds`, `EventSettles`, `SubmissionEnds`, `GateOpens`: liveness under
  fairness is out of the prover's reach.
- The violation runs, which are counterexamples.

## 5. Plan

What would come next: the rate limiter, if calls of several processes are ever charged to one window;
the refinement of a batch to the promises of its items, with `BatchRedeem` and `Redemption` composed.

## 6. Not modelled

- The rate limiter: one atomic script per call; its hard point is the drift of clocks between
  processes, which nothing else here depends on.
- The 32-bit offset of the lists of codes and logs (`admin.go:318`): the pages never ask for such a
  page.
- Parsing of uploaded credential files, random generation of codes, the export: data without control.
- The FAQ list of the redeem page, the dashboard, credential details and downloads, the logo image:
  one read-only call each. (When the call for the public FAQ fails, the list stays a skeleton and
  the error is never shown, `redeem.tsx:260`.)
- Generated queries, routing, logging, metrics, static files, configuration, one-shot commands,
  copied widgets (see `components` in `PROJECT.json`).
- `SKIP LOCKED` answers `credential_unavailable` while another transaction holds the last credential
  and may still roll back; the model takes that step, and no property forbids it.
