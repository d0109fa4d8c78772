# AfriTransfer in TLA+

Models, model-checking configurations and machine-checked proofs of
AfriTransfer, a money-transfer service that collects through GeniusPay: its
NestJS backend and the parts of its web site that decide something.
`PROJECT.json` is the index: components, runs, mutants, map from definitions to
source lines, hazards, findings, theorems.

## 1. Inventory

| Component | State it keeps | Operations | Hard behaviour | What makes it correct |
|---|---|---|---|---|
| **Transactions** `transactions.service.ts`, `transaction-status.util.ts` | tables `transactions`, `transaction_logs` | `quote`, `create`, `cancel`, `syncStatus`, `applyGatewayUpdate` (reads: `list`, `getOwnedByReference`, `getReceipt`) | requests interleave at every `await`; no database transaction; updates by id alone; GeniusPay's answer late, lost or after the 20 s timeout | a row shows only what GeniusPay gave its payment; nothing false is told or logged; terminal statuses are final except for a refund; a settled payment is reflected in the end; what is charged is what was shown |
| **Webhooks** `webhooks.service.ts` | table `webhooks` | `handleIncoming` (`store`, `process`, `applyByInternalRef`) | messages late, out of order, duplicated, two copies at once; crash between two statements | one handler per delivery; each event takes effect once; every event sent is processed in the end |
| **GeniusPay client** `geniuspay.service.ts` | none (GeniusPay holds the payment) | `createPayment`, `getPayment`, providers, account, balance | timeouts and errors of a call that took effect | an error changes nothing but what the caller does with it; GeniusPay's refusal of the platform is nobody's 401 |
| **Sessions** `tokens.service.ts` | `refresh_tokens`, `verification_tokens` | `issueTokenPair`, `rotateRefreshToken`, `revokeAllUserSessions`, `createVerificationToken`, `createOtpCode`, `consumeToken` | check-then-update races, same-second tokens | a refresh token is good for one rotation; a one-time token for one use; after a revocation no earlier session lives |
| **Accounts** `auth.service.ts`, `users.service.ts` | `users` | `register`, `login`, `verifyEmail`, phone verification, password reset and change | login in flight during a password change or a suspension | nobody is verified by another's token; old sessions end with the old password |
| **Notifications** `notifications.service.ts`, `notifications.processor.ts` | `notifications`, BullMQ queue | `enqueue`, `process` with 3 attempts | queue down, database down, crash after sending, stalled jobs, retries | messages, rows and jobs agree; a message leaves once, or once more per lost run; every job ends |
| **Fees** `fees.service.ts`, `transfer-fees.ts` | reads `settings` | `calculateTransferFees`, `getRates`, `getLimits` | settings changed between reads; four roundings | the total is what the parts add up to |
| **Countries and operators** `countries.service.ts`, `operators.service.ts`, `prisma/seed.ts` | `countries`, `operators`, `settings` | seed, `syncFromGeniusPay`, `detectByPhone`, `getOperators` | failure half-way, seed after synchronisation | a payment goes to the recipient's operator; what the administrator switched off stays off |
| **Beneficiaries** `beneficiaries.service.ts` | `beneficiaries` | `create`, `update`, `remove`, `saveBeneficiary` | read-then-create | no duplicate from `saveBeneficiary` |
| **Administration** `admin.service.ts`, `admin.controller.ts` | columns of the above | `updateUserStatus`, `setCountryActive`, `updateSetting`, admin `login` | writes under the other components' feet; roles handler by handler | who a control is shown to may use it |
| **Frontend session** `api.ts`, `auth.tsx`, `admin.ts`, layouts | `localStorage`, shared by the tabs; one refresh in flight per tab | interceptors, `refreshAccessToken`, `login`, `logout`, redirections | several tabs, lost answers, pages replaced under a call | no call is carried out twice; a page never spoils its own session; every call settles |
| **Frontend pages** `send/page.tsx`, `hooks.ts`, `admin-hooks.ts` | fields, quote, query cache | debounce, mutations, invalidations | answers to questions no longer asked | the quote shown is about the fields; a page follows its own writes |
| Infrastructure | none of its own | | | not modelled: I/O, cryptography |

Interactions: the pages call the API; `create` and `syncStatus` call GeniusPay;
GeniusPay calls `handleIncoming`; both `syncStatus` and the webhooks end in
`applyGatewayUpdate`, which calls the notifications; the worker of the queue
runs on its own. Shared state is the database, the queue, and `localStorage`
between tabs.

## 2. Modules

| Module | Models | Kind |
|---|---|---|
| `TransactionStatus` | statuses, events, the two translation tables, `isTerminal`; GeniusPay's payment as the code relies on it (`GatewayMoves`, `Claims`, `SentOf`) | operators |
| `Transfers` | the lifecycle in `TransactionsService`: one action per database statement and per GeniusPay call | state machine |
| `TransferLifecycle` | what the service promises of a transfer: every operation one step | abstract specification, refined by `Webhooks` |
| `Webhooks` | `WebhooksService` beside the requests of `Transfers` (`EXTENDS Transfers`) | composition |
| `Accounts` | `AuthService`, `TokensService`, `UsersService` and `updateUserStatus`: users, refresh tokens, one-time tokens | state machine |
| `Notifications` | `NotificationsService`, the queue and its worker: rows, jobs and messages | state machine |
| `TransferFees` | `transfer-fees.ts` in exact integers | operators |
| `Catalog` | countries, operators and settings: seed, synchronisation, the administrator's writes, the lookups | state machine |
| `Sending` | the sending page, `quote` and `create` up to GeniusPay's answer, beneficiaries (`EXTENDS Catalog, TransferFees`) | composition |
| `Access` | the routes, their guards, what they read and write; the hooks of the pages and what they declare stale | operators |
| `Browser` | the tabs of one browser, both token stores, the interceptors, against the guards and the sessions of the API (`EXTENDS Access`) | composition |
| `MCWebhooks`, `MCAccounts`, `MCSending`, `MCBrowser` | symmetry and small instances | instances |
| `Transfers_proofs`, `Webhooks_proofs`, `Lifecycle_proofs`, `Accounts_proofs`, `Notifications_proofs`, `TransferFees_proofs`, `Sending_proofs`, `Browser_proofs` | theorems | TLAPS |

The compositions share no more than the code does. A transfer keeps its owner's
id, which never changes, so `Transfers` and `Accounts` meet nowhere; `Sending`
ends where `Transfers` goes on, at the answer of `POST /payments`;
`Notifications` begins at the calls that `Transfers` counts (`Tell`); `Browser`
takes of `Accounts` what a client can see of it: whether a session is live,
revoked or rotated, and the pair that cannot be issued twice in a second.

### How the code becomes actions

Node runs a handler alone between two `await`s, and anything else may run at an
`await`. A handler is a record `task[h]`; `pc` says before which statement it
waits, and `tx`, `seen`, `completedAt`, `target`, `hook` are the locals it uses
later, with the value they had when read. The operations:

```
create       CreateInsert - AddLog - GatewayAccept - CreatePersist - NotifyInitiated
             on an error of POST /payments: GatewayError - MarkFailed - AddLog
cancel       CancelRead - CancelWrite - AddLog
syncStatus   SyncRead - GatewayShow - ApplyFind - ApplyWrite - AddLog - ApplyNotify
             on an error of GET /payments: GatewayShowError
webhook      HookReceive - HookStore - ApplyFind - ApplyWrite - AddLog - ApplyNotify - HookMark
             a copy: HookDuplicate or HookStoreRefused; an error: ApplyThrows - HookMarkError
```

`row` is the table `transactions` (status, whether `geniusPayReference` and
`completedAt` are set), `logs` is `transaction_logs`, `notices` counts the calls
of `notifyTransaction`, `hooks` is `webhooks`, `acked` the deliveries answered
200, `wire` what GeniusPay has sent. `pay` is the payment inside GeniusPay.

Abstractions, and why they are sound:

- The answer of a GeniusPay call is one action (`GatewayAccept`, `GatewayShow`)
  and its use the next, so anything may happen while the answer travels.
  `GatewayError` covers a refusal, an unreachable GeniusPay, a lost answer and
  the timeout after the payment was opened: it is enabled before and after
  `GatewayAccept`. A payment opened still later, after the timeout, touches no
  row, since its reference was never stored.
- The lookup by `geniusPayReference` and the one by `metadata.afritransfer_reference`
  (`applyByInternalRef`) find the same row once the reference is stored, and
  none before: one action, `ApplyFind`.
- `mapWebhookEventToStatus` treats `cashout.*` like `payment.*`; so does `SentOf`.
- Reading the user and enqueuing e-mail and SMS is one step (`Tell`): what
  becomes of them is `Notifications`. `notices` saturates at `NoticeCap` = 2,
  "twice or more".
- Amounts, fees and saved beneficiaries are the matter of `Sending`; texts,
  owners of transfers and audit rows are left out: no property is about them. The owner check of `cancel` and
  `syncStatus` refuses other users without writing.
- `Crash` ends one handler anywhere, for a failing statement or a dead process
  (all handlers: one `Crash` each). `ApplyThrows` is the failing statement that
  `process` catches.
- Rows of `webhooks` without a delivery id are never looked up, so they are not kept.
- `ResendsKeepId` says whether GeniusPay sends an event again under the same id;
  with `FALSE` and `NoDelivery` among the ids, copies pass the deduplication and
  only `applyGatewayUpdate` stands between them and the row.

The requests of `Accounts` are cut in the same way:

```
register      RegisterRead - RegisterCreate - SendEmailVerification - Sign - StoreSession
login         LoginRead - Sign - StoreSession
refresh       RefreshFind - RefreshRevoke - Sign - StoreSession
logout        Logout
change        ChangeRead - UpdatePassword - RevokeAllUserSessions
reset         ForgotPassword ; ResetFind - ConsumeToken - UpdatePassword - RevokeAllUserSessions
verifyEmail   VerifyEmailFind - ConsumeToken - MarkEmailVerified
requestPhone  RequestPhoneRead - SetPhone - CreateOtpCode
verifyPhone   VerifyPhoneFind - ConsumeToken - MarkPhoneVerified
profile       UpdateProfile
status        UpdateUserStatus
```

`user` is the table `users` by e-mail address, `session` is `refresh_tokens`,
`tokens` is `verification_tokens`. A request refused for an expired token, a wrong
password or an unknown token changes nothing and is not an action. More
abstractions:

- A refresh token is a JWT of the user, the second it was signed and the second
  it expires, so it is the pair of user and second, and `tokenHash` is that pair
  too: what the unique column sees. `clock` counts seconds.
- A password is the number of the change that set it; a login is one with the
  password on file, a change one with the current password. Comparing a hash
  reads nothing that the row did not give, so it is part of the read.
- `RegisterRead` looks up e-mail and phone in one step: `RegisterCreate` checks
  both again, as the unique columns do, and a refusal has no other effect.
- A token of 32 bytes is presented by its user alone; an SMS code is one of
  `Code`, and two users may draw the same.
- A handler under way may be stopped anywhere (`Crash`); the access token is
  good for `AccessTtl` seconds after the pair was issued, whatever happened to
  its refresh token or to the status of its user, as in `JwtStrategy`.
- `lastLoginAt`, names and two-factor authentication (nothing enables it) are
  left out; the e-mails and SMS are `Notifications`.
- History, read by no guard: `basis` (the password a session rests on), `parent`
  (the token it was exchanged for), `late` (its request, or that of a token it
  comes from, was in flight during a revocation), `uses`, and `abandoned` (a
  crash came between a new password and the revocation).

`Notifications` puts the statements of `enqueue` (`Create`, `Add`) beside the run of
a job (`Take` - `Accepted` or `Refused` - `MarkSent` - `Return`, or `Report` and
another attempt). `Faults` says what may fail: Redis (`AddFails`), the database
(`CallFails`, `MarkSentFails`, `ReportFails`), the channel (`Refused`), either process
(`CallFails`, `WorkerDies`). A job whose worker died is found stalled and run again
from the start, once, the default of BullMQ; the backoff of two seconds is only
a delay, and `PUSH` is never enqueued. `tally` is history: messages handed over,
runs lost after that, reports that were not written.

`Catalog` makes each upsert a step (`upserts` is the set the seed or the
synchronisation still has to write; one is `Due` when those before it have been
written), so other requests read between two and a
failure leaves the rest unwritten; a currency the table lacks is such a failure.
Names, symbols and flags are left out, and `isActive` of operators and
currencies, which nothing writes.

`Sending` has the page's side and the server's side of a transfer:

```
page      Edit, Fill - AskQuote (400 ms later) - ShowQuote or ShowQuoteError - Send - Leave or SendError
quote     QuoteLimits - QuoteRates
create    ReadCountries - CreateLimits - ResolveOperator (- DetectOperator) - CreateRates
          - GatewayAccepts (- FindBeneficiary - SaveBeneficiary); CreateFails anywhere
table     AddBeneficiary, UpdateBeneficiary, RemoveBeneficiary; the steps of Catalog
```

- Settings are read concurrently (`Promise.all`): each read yields the value of
  when it was issued or of when the last is done (`Reads`).
- A name and a well-formed number are on the form from the start, so `canSubmit`
  is the presence of a quote. One `create` is under way at a time: a second one
  meets the first in `saved` only.
- The number typed is the country it dials. The eight fields of a form keep
  those the server or the quote reads.
- Numbers are exact: hundredths of a currency, tenths of a percent, thousandths
  of a rate. The rounding of binary fractions, which `Number.EPSILON` hides, is
  left out.

`Browser` has a step per callback of a page, per request answered and per
exchange of a pair. A page offers the calls of its buttons, two standing for all
of the dashboard's and two for all of the panel's, and each call carries the
token stored when its interceptor runs. The API answers by `Guarded` of `Access`
and by the session behind a refresh token; every other handler succeeds.

- A page that is replaced forgets its calls and its exchanges, and those not yet
  answered are forgotten with it, whether they reach the API or not.
- Both items of a store are set in one callback, hence at once. `/register` is
  the login with another route. The throttling of the API and the retries of
  `react-query` are left out: they delay a call or make another like it.
- `by` and `lost` of a pair are history: who exchanged it, and whether the answer
  never arrived.

GeniusPay is external: a payment is pending, may be processing, ends completed,
failed, cancelled or expired, and a completed one may be refunded. `Claims(p)`
is the set of statuses GeniusPay has truthfully reported of a payment now `p`.

## 3. Runs

| Run | Instance | Shows |
|---|---|---|
| `transfers_liveness` | 1 transfer, 2 requests at once (create, cancel, sync), GeniusPay may fail, fair | `IInv` (the inductive invariant of the proofs), `HistoryTrue`, `GatewayBacked`, `StatusLogged`, `OnlyLateWritersRevive`, `SettledIsReflected` |
| `webhooks_races` | 1 transfer, 2 requests, 3 deliveries, crashes, stale verdicts | `HookIInv`, `OneHandlerPerDelivery`, `ToldOnce` |
| `webhooks_serial` | 1 transfer, 1 request at a time, crashes, copies without delivery id, cancels and syncs | `ToldOnce`, `ProcessedIsApplied`, refinement `ImplementsLifecycle`, `CompletionDateKept` |
| `webhooks_liveness` | 2 deliveries, 4 events, fair | `SentIsProcessed` |
| `doc_acked_is_handled` | 2 deliveries, stale verdicts | violation of `AckedIsHandled` |
| `accounts_sessions` | 1 user, 2 requests at once (login, refresh, logout, change), 3 seconds, 2 changes, crashes | `IInv`, `NoSessionOutlivesRevocation`, `RevokedForGood` |
| `accounts_tokens` | 2 users, 2 requests at once (register, verify e-mail and phone), 2 numbers, 1 code for all | `VerifiedByOwnToken` |
| `accounts_serial` | 1 user, every request, one at a time, 3 seconds, fair | `RotatedOnce`, `UsedOnce`, `ResetEndsSessions`, `OldSessionsEnd` |
| `notifications` | 1 call of 4 messages, both channels, every fault, fair | `IInv`, `Ledger`, `QueuedIsUnsaid`, `JobsSettle` |
| `sending` | Gabon and Togo seeded, a listing with Togo and Malawi, 2 amounts, 3 events, failures anywhere | `QuietQuoteIsCurrent`, `ChargedAsShown`, `FeesAreRounded`, `OperatorServesRecipient`, `PawapayNamesProvider`, `SavedOnce`, `ActivityIsAdmins` |
| `browser` | 2 tabs, one on each side of the site, 3 events, lost answers, fair | `IInv`, `ExecutedOnce`, `CallsAreServed`, `PagesFollowOwnWrites`, `OneTabKeepsItsSession`, `AdminSignedOutByTokenOnly`, `CallsSettle` |
| `doc_logout_revokes` | 1 tab, 1 event | violation of `LogoutRevokes` |

Bounds. Transfers never touch each other's rows, payments or log entries, and a
handler works on one transfer, so one transfer shows every interleaving; the
theorems hold for any number. Two handlers are enough for every race the hazards
name, because each is between one check and one write; a create, its cancel and
syncs follow each other through the same two slots without limit. `PostAnswers`
is `{"pending"}` in the runs of `Transfers` and `Webhooks`, the status of a
payment just opened; other answers are covered by the theorems. Sets of events
are chosen so that each branch of the translation and of `Applicable` is taken.
Requests may really stop coming, so deadlock is not checked (`CHECK_DEADLOCK
FALSE`).

`ToldOnce` holds in two situations and fails in a third. With webhooks alone and
one delivery id per event it is the deduplication that keeps it
(`webhooks_races`); one request at a time, it is the terminal check
(`webhooks_serial`). With two syncs at once it fails: both read the row before
either writes it. `StatusLogged` is checked for transfers that no request works
on, with `PostAnswers = {"pending"}` (`create` does not log another first
answer) and without crashes: a crash between the update and its log entry leaves
a gap that no code repairs. The refinement, too, is a property of one request at
a time: with two the unconditional updates break it, as told under Findings.

In `Accounts` the rows of different users meet only in the unique phone and in
the SMS code, so the runs on sessions have one user and the run on tokens two,
who share a single code. `MaxClock` = 2 leaves a login, a refresh in its second
and one after it; lifetimes of one or two seconds let each kind of token expire
within the bound. `MaxPassword` = 2 has a change follow a change, `MaxTokens` is
the number of one-time tokens ever made; both stop a request for good, which the
theorems do without assuming anything of their values. `RotatedOnce`, `UsedOnce`
and `ResetEndsSessions` hold of one request at a time and fail with two, since
each is a check and a write in two statements; what remains true with two is
`NoSessionOutlivesRevocation`, and it says exactly which sessions escape.

In `Notifications` calls share nothing, so one call with its two rows shows every
failure; the four messages are one of each set of channels. In `Sending` and
`Browser`, `MaxEvents` bounds what people do (a keystroke, a click, a load, a
write of the administrator, the start of a synchronisation), not what programs
do about it: every answer, timer, upsert, attempt and failure that follows is
free. Three events hold each race the hazards name: a quote needs an edit, its
race another, and a writer beside it a third; an expired token, the calls
refused for it and the act that crosses their exchange are three. The form of
`Sending` starts with every choice but the amount already made, so events are
not spent on reaching the interesting state. Gabon's currency is the sender's;
Togo is served through another operator after the synchronisation than after the
seed, and Malawi's currency is the one the tables lack, which ends a
synchronisation half-way. Of the two amounts one is whole and one must be
rounded. `Slot` = 2 calls of a tab at one time are what sharing an exchange
needs; two tabs are what a shared store needs, and the theorems hold for any
number. The two `OneTabKeepsItsSession` causes that are the code's own doing, a
pair exchanged in the second of its signature (`conflict`) and an answer lost
with the page that waited for it, are named in the property instead of hidden:
the session is over then, and the customer signs in again.

Fairness. `FairSpec` of `Accounts` is weak fairness of each request under way
(`Proceed`), and nothing of the requests that arrive. `Fairness` says that a
request in flight takes its next step: the event loop runs every ready
continuation, and a GeniusPay call answers or times out after 20 s.
`PatientSender` (strong fairness of `SyncRead`) is the environment's: the
documentation makes `sync` the fallback of the webhooks, for a sender who asks.
`GatewayAnswers` adds that GeniusPay does not fail every one of these calls for
ever; without it no service could learn of a payment. `QuietFairSpec` is the
three of them, for an instance without webhooks. `HookFairness` adds GeniusPay's
resends until 200. `FairSpec` of `Notifications` runs a call and a job in hand,
and takes the jobs that wait: the event loops of the two processes. `FairSpec`
of `Browser` is one weak fairness of all that goes on by itself: the clock, the
API and the callbacks of the pages; nobody has to click. No fairness is assumed
of cancels, crashes, losses, or the moves of a payment.

### Findings

Each is a run that expects a violation of what a comment or a document says.

- `doc_acked_is_handled`: a delivery refused as stale is stored, so its resend is "duplicate" and never applied.
- `doc_logout_revokes`: the button that signs the customer out clears the token before the call that should revoke the sessions carries it; the call is refused with 401 and the sessions live on.

Three more facts are not runs of their own, since the properties above state
what is left of the promise: a late writer overwrites a terminal status
(`OnlyLateWritersRevive` says who may); a login under way during a reset keeps
its session (`NoSessionOutlivesRevocation` says which; `ResetEndsSessions` holds
of one request at a time); a refresh in the second of its token's signature
revokes it and issues nothing (the `conflict` of `OneTabKeepsItsSession`).

## 4. Proofs

For any set of transfers, of handlers and of deliveries, any answer of
`POST /payments`, any failures:

| Theorem | Statement |
|---|---|
| `InvariantHolds` | `Spec => []IInv` |
| `TypeCorrect` | `Spec => []TypeOK` |
| `RowsAreBacked` | `Spec => []GatewayBacked` |
| `HistoryIsTrue` | `Spec => []HistoryTrue` |
| `OnlyLateWritersCanRevive` | `Spec => OnlyLateWritersRevive` |
| `HookInvariantHolds` | `HookSpec => []HookIInv` |
| `NoDeliveryTwice` | `HookSpec => []OneHandlerPerDelivery` |
| `OnlyLateWebhooksCanRevive` | `HookSpec => OnlyLateWritersRevive` |

For any set of users, of handlers, of phone numbers and of codes, any lifetimes
and any bounds (`Accounts_proofs`):

| Theorem | Statement |
|---|---|
| `AccountsInvariantHolds` | `Spec => []IInv` |
| `AccountsTypeCorrect` | `Spec => []TypeOK` |
| `RevocationCoversSessions` | `Spec => []NoSessionOutlivesRevocation` |
| `VerificationIsOwn` | `Spec => []VerifiedByOwnToken` |
| `RevokedStaysRevoked` | `Spec => RevokedForGood` |

For a transfer with its requests and webhooks (`Lifecycle_proofs`):

| Theorem | Hypothesis | Statement |
|---|---|---|
| `JournalExplainsRows` | no crash; answers of `POST /payments` read as `PENDING` | `HookSpec => []StatusLogged` |
| `FreshRequestsImplementLifecycle` | `[]AllFresh` | `HookSpec => ImplementsLifecycle` |
| `CompletionDateStays` | `[]AllFresh` | `HookSpec => CompletionDateKept` |
| `EachEventIsToldOnce` | `[]AllFresh` | `HookSpec => []ToldOnce` |
| `ProcessedWebhooksAreApplied` | `[]AllFresh` | `HookSpec => []ProcessedIsApplied` |
| `SerialRequestsImplementLifecycle` | `[]OneAtATime` | `HookSpec => ImplementsLifecycle` |
| `SerialRequestsAreExact` | `[]OneAtATime` | `ToldOnce`, `ProcessedIsApplied` and `CompletionDateKept` |

For the accounts of users whose own requests do not overlap, those of different
users still interleaving at will (`Accounts_proofs`):

| Theorem | Hypothesis | Statement |
|---|---|---|
| `TokensAreUsedOnce` | `[]OneAtATime` | `Spec => []UsedOnce` |
| `RefreshTokensRotateOnce` | `[]OneAtATime` | `Spec => []RotatedOnce` |
| `ResetEndsAllSessions` | `[]OneAtATime`, no crash | `Spec => []ResetEndsSessions` |

Assumptions: only the named `ASSUME`s of the modules (the model values are
distinct, the constants range over the sets they are drawn from, in `Sending`
the countries of a form are seeded, amounts are numbers and a listing is a
sequence), the hypotheses the tables name,
and the external model of GeniusPay: a payment takes back no claim, and an
event is sent only of a payment it is true of.

The argument. `GatewayBacked` is not inductive: an update writes `target`
without looking at the row, so what makes it true is that *every status a
handler holds is one the payment has had*, from the moment it is obtained. That
is `InFlight(h)`, one conjunct per place a handler may stand. It survives the
steps of others because claims only grow (`ClaimsGrow`), a reference is never
removed and a row never deleted. The one write that another handler could
disturb is `create`'s: before it stores the reference, no other `create` works
on the row and no reference is there (`Bound`). `IInv` adds the types and
`HistoryTrue`. Each action has its lemma; `Preserve` holds what they share, and
`WriteInv`, `QuietInv`, `NoticeInv`, `EndInv` its four forms.
`OnlyLateWritersCanRevive` follows from the snapshots in `InFlight`: a handler
before `cancel`'s or `applyGatewayUpdate`'s write has seen a status that is not
terminal, or carries a refund.

With webhooks, every step of `Transfers` keeps `IInv` by `NextInv`; what is new
is that messages are true however late (`WireTrue`), that only a webhook's
handler carries a delivery (`HookInFlight`, `MovesOn`), and that the insertion
into `webhooks` picks one handler (`OneHandlerPerDelivery`).

In `Accounts`, `NoSessionOutlivesRevocation` is not inductive either: a session
is stored with the password its request read several statements earlier.
`InFlight(h)` says the same of a request on its way to issue one: its password
is current, or it is `late`, or a revocation is due (`Covered`). A change of
password keeps this because its own handler is then before the revocation
(`Revoking`), and the revocation keeps it because it revokes the rows and makes
every request of that user late in one step. For tokens, `InFlight` says that a
request that is to mark something verified holds a consumed token of its own
user and of the right type; tokens are never removed nor given to another
(`Preserve`). `Registered` ties sessions and tokens to rows of `users`. Each
action has its lemma, and the lemmas `TaskOnly`, `SessionOnly`, `TokensOnly`,
`UserAndTokens` and `RevocationInv` are the forms they share.

### What the hypotheses are

They are what the code needs, not what the provers need: without each there is
a behaviour that breaks the property.
`AllFresh` says that what a handler in flight read of its row is what the row
still holds; it is the assumption the service makes each time it writes by id
alone. It fails as soon as two requests on one transfer overlap between a read
and its write, and then a terminal status is overwritten, a sender told twice.
`OneAtATime` (one request in flight for each transfer, or each user) is the
simple way to have it: `SerialIsFresh`. Crashes, lost answers, late and
duplicated webhooks and requests on other transfers stay free. A crash between
an update and its log entry breaks `StatusLogged`, and one between the new
password and the revocation breaks `ResetEndsSessions`: no code repairs either.

`JournalExplainsRows` holds however many requests overlap. Its invariant
`Journal` says that each status a row shows, and each status an entry starts
from, is *promised*: an entry leads to it already, or a handler in flight is
about to write that entry. An overlap may leave a wrong order, never a status
that no entry explains.

`ImplementsLifecycle` is proved step by step: each kind of step of a handler,
told by its effect (`Inserts`, `Applies`, `Logs`...: the action lemmas show that
no action has another), is one step of `TransferLifecycle` or a stutter, given
that its reads are fresh. `ToldOnce` and `ProcessedIsApplied` need more than
freshness: what a handler is going to tell has not been told and no other is going
to tell it (`Telling`), and a webhook about to be marked processed has left its row
where the event leads (`Processing`). Both last because a fresh write moves a row
only forward (`RowMoves`).

In `Accounts`, `Once` and `Chained` say what a check is worth at its write when no
other request of the user comes between: the token a request is to
consume or to act upon has not been used, and the refresh token it is to exchange
has been exchanged for nothing.
Requests of other users touch neither, although they may present the same code.
`Current` says that every live session rests on the password on file, except
between the two statements of the request that changes it.

`Notifications_proofs`, for any set of calls and any combination of faults:
`InductiveInvariant` (`Spec => []IInv`), `LedgerTheorem` (`Spec => []Ledger`) and
`QueuedTheorem` (`Spec => []QueuedIsUnsaid`). `Ledger` bounds the messages that
left by the runs lost after handing one over; what makes it inductive is the
equation `sent = lost + (1 if the run in hand has handed it over)` of `JobShape`,
and the fact that a call leaves no trace of what it has not done (`CallShape`).

`TransferFees_proofs`, for every amount, fraction and rate: `RoundingTheorem` (`roundTo`
is a multiple of the unit within half a unit) and `TotalTheorem` (the second
rounding of the total changes nothing, since the parts are multiples already).

`Sending_proofs`, for any catalogue, listing, amounts, changes and faults:

| Theorem | Statement |
|---|---|
| `SendingInvariant` | `Spec => []IInv` |
| `QuietQuoteTheorem` | `Spec => []QuietQuoteIsCurrent` |
| `OperatorTheorem` | `Spec => []OperatorServesRecipient` |
| `SavedOnceTheorem` | `Spec => []SavedOnce` |
| `ActivityTheorem` | `Spec => []ActivityIsAdmins` |
| `FeesTheorem` | `Spec => []FeesAreRounded` |
| `PawapayTheorem` | `Spec => []PawapayNamesProvider` |
| `ChargedTheorem` | `Spec`, and no step changes the currency of the sender's country, `=> []ChargedAsShown` |
| `ChargedInOneCurrency` | if `OneCurrency`, then `Spec => []ChargedAsShown` |

`QuietQuoteIsCurrent` needs the question as well as the answer: a quote being
asked for is about the fields unless the timer will ask again (`QuoteIsOfForm`).
No run checks the invariant itself, only what follows from it.
`OperatorServesRecipient` is made true at `ResolveOperator` or `DetectOperator` and
kept by `CreateShape`; `SavedOnce` rests on the look-up that still holds when the
row is inserted.

`PawapayNamesProvider` relates two tables that `create` reads at different times
while the seed and the synchronisation write them row by row. `CatalogFits` is what
their orders guarantee: a country is written before its operators
(`CountryFirst`), before the first synchronisation the rows say what the seed says
(`SeededRows`), and an operator of PawaPay's stands in a country of PawaPay's until
the seed runs over it (`OperatorsFit`). `CreateFits` carries it through the reads of
a `create` in hand, which may straddle a write.

`ChargedAsShown` compares the total shown with the total charged when no setting was
written in between. `Charging` says for each of the reads of `quote` and `create` in
hand that, if no change was made since, it has read what is there now (`StillSo`).
The currency of the sender's country decides the rounding and is no setting, so
a synchronisation that changes it would break the property: hence the hypothesis
of `ChargedTheorem`. `OneCurrency` discharges it: GeniusPay's listing gives that
country the seed's currency, or leaves it out (`SenderKept`).

`Browser_proofs`, for any number of tabs, events and lost answers:

| Theorem | Statement |
|---|---|
| `BrowserInvariant` | `Spec => []IInv` |
| `ExecutedOnceTheorem` | `Spec => []ExecutedOnce` |
| `OneTabTheorem` | `Spec => OneTabKeepsItsSession` |
| `PagesAreServed` | `Spec => []CallsAreServed` |
| `PagesRefetch` | `Spec => []PagesFollowOwnWrites` |
| `AdminStaysSignedIn` | `Spec => AdminSignedOutByTokenOnly` |

A pair is brought by one answer (`BroughtOnce`), and stored or exchanged only
when no answer brings it any more; so a pair that this tab has exchanged, with an
answer not lost, is in no hand but that answer's (`ExchangedForGood`), and no
second exchange of it can fail. Most steps only lose something (`Recedes`), and
one lemma serves them all; the others are an answer with a new pair, its
arrival, the begin of an exchange and its end.

`PagesAreServed` and `PagesRefetch` go through every page of `Access`, the routes its
hooks call, their guards and the keys its mutations declare stale: the tables are
sets and quantifiers, so the prover opens them as TLC does. `AdminStaysSignedIn`
needs to know that an answer on its way is honest (`AdminAnswers`): a 401 to the
panel was given for its token, and a login answered 200 carries a new one.

Model-checked only: liveness under fairness, which is out of the prover's reach
(`SettledIsReflected`, `SentIsProcessed`, `OldSessionsEnd`, `JobsSettle`,
`CallsSettle`).

## 5. Not modelled

- Rendering, texts and the pagination of the lists; the public page, whose
  country list falls back on constants.
- Infrastructure: Prisma (a call is one atomic statement in every module),
  cryptography, the audit rows, configuration, the throttling of the API. An
  exception no handler knows answers 500.
- Reads that decide nothing: `list`, `getReceipt`, the statistics and exports of
  the panel, the listings of GeniusPay.
- The rounding of binary fractions in `transfer-fees.ts`.

## 6. What could follow

`OneTimeToken`, an abstract token that is issued, used once or expires, refined
by `Accounts` one request at a time; a second `create` of the same sender at once
in `Sending`, which is where `saveBeneficiary` may save a number twice.
