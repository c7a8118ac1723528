# StellarPe: a TLA+ verification project

StellarPe is a custodial Stellar wallet: a Next.js server keeps encrypted
secret keys, users pay by username with a PIN, and the server signs and submits
their transactions to Horizon. This directory holds TLA+ models of the parts of
the server where requests, network answers and callbacks interleave, TLC runs on
small instances, and TLAPS proofs that hold for every instance. It covers the server's
services, the request pipeline in front of them, and the pages of the browser
that hold state across requests.

Paths below are relative to `src/` of the repository root; `services/x` stands
for `src/src/lib/services/x`.

## 1. Inventory

Node runs every handler in one process, but a handler gives up the processor at
each `await`. Everything that is read before an `await` and used after it may be
stale; that, the network's own mind and the crash of the process are the hard
behaviours of this code.

| Component | State it keeps | Operations | Interacts with | Hard behaviour | What makes it correct |
|---|---|---|---|---|---|
| PIN service (`services/pin.service.ts`, routes `users/pin`, `users/pin/verify`) | `User.pinHash`, `failedPinAttempts`, `pinLockedUntil` | `setPin`, `resetPin`, `verifyPin`, `isLocked` | payment, pool, contract and token services call `verifyPin`; the verify route reads the row a second time | read, `bcrypt.compare`, write: attempts in flight overwrite each other | counter and lock agree; a lock is earned; each attempt counts; a lock stands |
| Payment service (`services/payment.service.ts`, `payments/*`) | the `Transaction` table | `sendPayment`, `getTransactionHistory`, `resolveRecipient` | PIN, encryption, Stellar service, database | lost answers, failed inserts, crash between submission and record | the table tells what the ledger did |
| Stellar service (`services/stellar.service.ts`) | none; the ledger is external | `submitPayment`, `getBalance`, `streamPayments`, `generateKeypair`, `fundAccount` with retries | Horizon, Friendbot | stale sequence numbers, timeouts | one transaction per call; what is reported failed did not happen |
| Notification service (`services/notification.service.ts`, `events/stream`) | two Maps: SSE controllers, Horizon streams | `subscribe`, `unsubscribe`, `notifyPaymentReceived`, `startHorizonStreaming`, `stopAllStreams`, `shutdown` | the SSE route's `start` and `cancel`; the `Transaction` table | a replaced stream drains while its successor runs | one open stream per user; announced means read |
| Rate limiter (`lib/middleware/rate-limiter.ts`) | timestamps per key | `check`, `reset`, `clear` | the auth and payment routes share two instances | boundaries of a sliding window that forgets | no window lets more through than its limit |
| Auth service (`services/auth.service.ts`, `auth/*`) | `User` rows, `failedLoginAttempts`, `loginLockedUntil` | `register`, `login`, `validateToken`, `validateTokenWithSession`, `searchUsersByUsername` | wallet service, JWT | duplicate checks that race; a second lockout of the PIN's shape; tokens that outlive what they attest | unique names, a wallet per account, no token for an inactive account |
| Wallet service (`services/wallet.service.ts`) | `Wallet` row | `createWallet`, `getWalletDetails`, `decryptSecretKey` | encryption, Stellar, database | registration stops between user and wallet | every account has one funded wallet |
| Admin service (`services/admin.service.ts`, `admin/*`) | `User.status` | `getDashboardStats`, `listUsers`, `setAccountStatus` | auth service | a status changes while a login compares a password | no token after deactivation |
| Pool service (`services/pool.service.ts`, `pools/*`) | `LPPosition`, `SwapTransaction` | `deployPool`, `deposit`, `withdraw`, `swap`, `getPositions` | contract service, PIN | position read, chain call, position written; slippage checked on a simulation | recorded shares are the shares on chain |
| Contract service (`services/contract.service.ts`, `contracts/*`) | `Contract` rows | `deployContract`, `invokeContract`, `simulateContract` | Soroban RPC | two transactions and polls in sequence | a recorded contract exists |
| Token service (`services/token.service.ts`, `tokens/*`) | `Token` rows | `createToken`, `getUserTokenBalances` | contract service | deploy, initialise, mint, insert: any may fail after the ones before took effect | a recorded token is initialised and minted |
| Contact service (`services/contact.service.ts`, `contacts/*`) | `Contact` rows | create, list, update, delete | database | check, then write | unique per owner; only the owner's |
| QR service (`services/qr.service.ts`, `qr/*`) | none | `generate*`, `parseQR` | client scanner | formats shared with the client | what is generated parses back |
| Encryption service (`services/encryption.service.ts`) | none | encrypt, decrypt, zero | wallet and payment | none beyond its inputs | round trip |
| Request pipeline (`proxy.ts`, `lib/middleware/*`, all routes) | cookies, headers | guards in order | every route | which guard a route forgets | guards precede effects |
| PIN gate, payment form, profile (`app/(dashboard)/layout.tsx`, `components/PinGateScreen.tsx`, `user/send`, `*/profile`, `login`, `register`) | localStorage (token, a copy of the user), sessionStorage (`pinVerified`), React state | verify or set the PIN, send, sign out | the API, other tabs | answers to components that are gone, a countdown, a timer | one entry, one payment; no input stays disabled |
| Contacts page (`user/contacts`) | the list, a busy modal | save, delete, list | contact routes | lists that overtake each other | a quiet page shows the table |
| Other client pages (search box, toasts, scanner, pools, admin) | React state | fetch and show | the API | late answers | the screen shows the latest answer |
| Analytics, environment (`lib/utils/analytics.ts`, `lib/env.ts`) | none | aggregation, start-up check | dashboards | boundaries of periods | sums agree |
| Database schema (`prisma/schema.prisma`) | tables | unique columns | every service | decides races | see the services |
| Landing pages, styling, CI | none | none | none | none | none |

How a payment crosses the system: the route consults the payment limiter,
checks CSRF token, role and body, and calls `sendPayment`, which resolves the
recipient, reads the balance from Horizon, asks the PIN service, decrypts the
secret key, submits, waits for the ledger and inserts a row. Horizon may report
the same payment to a stream of either party, whose callback inserts a row for
it too and announces it to the recipient's SSE connection.

Facts met on the way that shape what the models can claim:

- `startHorizonStreaming`, `shutdown`, `calculateBackoff`, `validateToken`,
  `validateTokenWithSession` and `deployPool` are exported and have no caller in
  `src/`. The models keep the first two, because the services offer them and the
  requirements speak of them; runs that need streams say so (`"stream"` in `Env`).
- `proxy.ts` decodes a token and leaves the check of its signature to the route
  handlers, none of which does it. What a request carries is therefore a *claim*
  in the models, never the role of a login.
- The dashboards pass their token to `/api/events/stream` in the query, while
  `proxy.ts` reads the `Authorization` header alone. No model depends on it.
- `send`, `history` and `wallet` share one payment limiter, so a dashboard that
  polls uses up the payments of its user. `ApiRoutes` has it so.
- The pool routes answer 500 for a PIN that is locked or not set, where the
  payment route answers 423 for a locked one and 500 for one that is not set: the
  tables of `ApiRoutes` say so.
- Editing a contact cannot clear a field (an empty one is left out of the
  request), and an update does not check that what it names exists, as `create`
  does.
- Signing out leaves `pinVerified` in sessionStorage, and the timer that ends the
  session two seconds after a PIN reset is never cleared. `Dashboard` models both.
- The lockout counter knows no window of time: failures add up until a match or
  an expired lock resets them.

## 2. Plan

| Step | Module | About | State |
|---|---|---|---|
| 1 | `PinLockout`, `ForgetfulLockout`, `PinService`, `PinServiceProofs` | the PIN lockout: atomic, as overlapping requests leave it, and as written | modelled, proved |
| 2 | `IdealTransfer`, `Payments`, `PaymentsProofs` | the payment flow with network, table and Horizon streams | modelled, proved |
| 3 | `Notifications`, `SessionProofs` | the SSE connections | modelled, proved |
| 4 | `RateLimiter`, `ApiRoutes`, `ApiRoutesProofs` | the sliding window, and the guards and answers of every route in front of the services | modelled, proved |
| 5 | `Accounts`, `AccountsProofs` | registration with its wallet, login lockout, account status | modelled, proved |
| 6 | `Soroban`, `Pools`, `PoolsProofs` | deposit, withdraw and swap against the shares on chain | modelled, proved |
| 7 | `Deployment`, `DeploymentProofs` | contracts, tokens and invocations as sequences of transactions | modelled, proved |
| 8 | `Contacts`, `ContactsProofs` | checks against unique columns, and the page that shows the list | modelled, proved |
| 9 | `Dashboard`, `SessionProofs` | the browser's side of a session | modelled, proved |

What composes what: `Pools` and `Deployment` both extend `Soroban`, the network
as `contract.service.ts` uses it. `ApiRoutes` extends `RateLimiter`, whose store
its requests share, and takes from the services what each may raise. `Payments`
and `Pools` take `verifyPin` as one step with every outcome `PinService` allows;
`Accounts` and `PinService` keep different columns of the `User` row. `Dashboard`
runs against the atomic lockout of `PinLockout`, and `OtherDevice` adds what an
attempt that overlaps does to it. `PinLockout`, `ForgetfulLockout` and
`IdealTransfer` are the abstract specifications the detailed ones are compared
with.

Every safety property that a run checks is proved. Left are two abstract
specifications, each with its refinement: a log of announcements, which the
streams of `Notifications` implement up to the chunks that a hang-up drops, and a
ledger of shares, which `Pools` implements for calm merchants.

## 3. The modules

### PinService, PinLockout, ForgetfulLockout

One user's row (`user`: `pinHash`, `failed`, `lockedUntil`), a clock and any
number of requests. A request is a record of where its handler is (`pc`), what it
was asked (`call`), what it still holds from its read (`seen`), the update it has
computed (`update`), what the service returned or threw (`answer`), and what the
route read back (`reply`). Each `await` ends an action:

| Action | Code |
|---|---|
| `CallVerify` | the verify route up to the call of `verifyPin` |
| `CallSet` | `setPin`, `resetPin`: the form is checked, the hash computed |
| `ReadUnset`, `ReadLocked`, `ReadOpen` | `findUnique` in `verifyPin` and the three ways on |
| `Compare` | `bcrypt.compare` resolves; the update is computed from `seen` |
| `Write` | `prisma.user.update` |
| `Respond` | the second read of the route, for 401 and 423 |
| `QueryFails` | a database call rejects; the client hears 500 |

bcrypt is modelled by what it does: a hash matches the PIN it was made from and
no other, so the row keeps the PIN itself. `PinLockout` is the promise of the
header of `pin.service.ts`: an attempt is one step. The service keeps it for a
write whose row nobody touched since it was read. `ForgetfulLockout` is what it
keeps for all of them: a wrong PIN is counted from some number that may be lower
than the row's, the limit locks in the same step, and nobody is turned away but by
an earned lock. `Admit` is the run's bound on requests in flight.

### Payments, IdealTransfer

Per call of `sendPayment`: `pc`, `order` (who, whom, how much), `seqSeen` (the
sequence number loaded) and `result`. The network is external: `balance`,
`sequence`, and the fate of each transaction in `chain`. The database is `rows`.
The streams of the notification service are `streams` (which accounts),
`events` (callbacks that wait for their insert), `inserted` and `notified`.

| Action | Code |
|---|---|
| `Call` | `POST /api/payments/send` |
| `CheckBalance` | `resolveRecipient`, `getWalletDetails`, the comparison with amount + reserve |
| `Authorise` | `isLocked`, `verifyPin`, `decryptSecretKey`; any outcome |
| `LoadSequence`, `Submit` | `submitPayment`: `loadAccount`, then build, sign, send |
| `HorizonAnswers`, `AnswerLost` | `submitTransaction` resolves or rejects |
| `RecordCompleted` | the insert inside the `try` block |
| `RecordFailed` | the insert of the `catch` block |
| `OpenStreams`, `StopStreams` | `startHorizonStreaming`, `stopAllStreams` |
| `StreamInsert`, `Notify` | the callback of `startStreamForAddress` before and after its `await` |
| `Apply`, `Reject`, `Expire`, `OutsidePays` | the Stellar network: external |
| `Crash` | the process stops |

`Env` names what the surroundings may do in a run: `"stream"` (Horizon streams
are open), `"lost"` (an answer of Horizon is lost), `"db"` (an insert fails),
`"crash"`. Every account exists and is funded; a user may pay themselves. A
transaction is named by the call that built it. The record of a deduplication by
`stellarTxId` is `TxRecorded`, the unique column of the schema.

`IdealTransfer` is what a sender relies on: "completed" means the money has
moved, "failed" that it has not and never will. The refinement mapping takes the
calls of `doubtful` out of it: calls whose error was no verdict of the network,
because Horizon's answer was lost or the COMPLETED insert was refused. The
service answers those like failures; to the ideal their callers were told nothing.

### Notifications

`registered` is the Map of the service; `stream`, `queue` and `received` are the
ReadableStreams (external), which outlive their place in the Map: `close()` lets
a stream drain, and until it ended its client may still hang up and run the
`cancel` callback of the route. All functions are synchronous, so each is one
action: `Open` (`start` and `subscribe`), `HangUp` (`cancel` and `unsubscribe`),
`Notify`, `Shutdown`, with `Deliver` for the runtime and `Restart` for the process.

### RateLimiter, ApiRoutes

`store` is the Map of timestamps, `now` is `Date.now()`, `last` the latest
answer per key. `allowed` is a history variable: every request let through since
the last `reset`, where `store` prunes. The clock is taken to be monotonic.
`Array.filter` is `Filter`: the entries at some positions, in their order, defined
over the positions so that it can be reasoned about.

`ApiRoutes` has one record per handler of `src/app/api`: whether it asks for the
CSRF token, for which roles, for which limiter, how it reads its input, what its
service may raise, and which status its `catch` makes of it. All handlers keep
one order of guards, which is `Verdict`.

| Action | Code |
|---|---|
| `TurnAway` | `proxy.ts` (401, 403 by path), `validateCsrf`, `requireRole` |
| `ArriveLimited`, `Arrive` | `rateLimiter.check` by user or by address; the query string |
| `Body` | `await request.json()` and the zod schema |
| `Finish` | the service returns or throws; the status of the answer |
| `Restart` | a new process, with empty limiters |

### Accounts

Users are named by the registration that created them. `login` holds
`failedLoginAttempts` and `loginLockedUntil`.

| Action | Code |
|---|---|
| `Register`, `CheckUsername`, `CheckEmail` | `register`: two queries, one after the other |
| `CreateUser` | `prisma.user.create`, which a unique column may refuse |
| `Fund`, `StoreWallet` | `createWallet`: `fundAccount` with its retries, the insert |
| `Login`, `ReadLogin`, `ComparePassword`, `WriteAttempt` | `login` up to the write of the counter |
| `Sign` | `jwt.sign` of either |
| `SetStatus`, `FindTarget`, `WriteStatus` | `setAccountStatus` |
| `QueryFails` | a database call rejects |

### Soroban, Pools

`Soroban` is the external network: the sequence number of an account, the one
each transaction was built on, and its fate. `Pools` is one pool contract
(external: `ApplyDeposit`, `ApplyWithdraw`, `ApplySwap`, `Refuse`, `Lose`,
`Market`) and the handlers that call it. Shares minted are a choice of the
contract; the price falls with each swap, by whoever it is.

| Action | Code |
|---|---|
| `Start` | the route and `verifyAndDecrypt` |
| `Quote` | `swap`: `simulateContract` (`SimulatedOutput`), then the comparison with `minOutputAmount` |
| `LoadAccount`, `Simulate` | `invokeContract`: `getAccount`, build, `simulateTransaction` |
| `Reload` | the second build, when transfers must be authorised |
| `Send`, `Poll` | `sendTransaction`, `pollTransaction` |
| `ReadPosition`, `RecordPosition` | `findUnique`, then `create`, `update` or `delete` of the position |
| `RecordSwap` | `prisma.swapTransaction.create` |
| `RpcFails`, `QueryFails` | a call rejects; the transaction may have been sent |

### Deployment

A job is a sequence of transactions (`Plan`): upload and instantiate for a
contract, then initialise and mint for a token, or one call. Each goes through
`Load`, `Send` and `Poll`; the next is built when the last was found. `Record` is
the insert at the end, `AskBalances` is `getUserTokenBalances`. Beside the faults
of `Pools` the server may stop (`Crash`).

### Dashboard

`tab` is a tab's sessionStorage and its mounted page, `stored` is localStorage,
`row` what the server keeps of the PIN. A fetch is a `call`: `"live"` if its
component is still mounted, `"orphan"` if it is not and its handler runs all the
same, `"gone"` after a reload. `replaced` is a history variable: per user, the
latest end of a lock of the row that was written over while it ran.

| Action | Code |
|---|---|
| `SignIn`, `Go`, `Logout`, `Reload` | the login and register pages, the links of the dashboard, the profile's logout, the browser |
| `ServeSetting`, `ServeVerify`, `ReadBack`, `ServeSend`, `TurnDown`, `Lose` | the routes: `users/pin`, `users/pin/verify` with its second read, `payments/send`; a guard's refusal, the network's failure |
| `GatePin`, `HearGateOk`, `HearGateError` | `PinGateScreen`: what it sends and what it makes of the answers |
| `ProfilePin`, `HearProfile`, `TimerFires` | the profile page and its two-second timer |
| `FormSubmit`, `CloseModal`, `NewPayment` | the payment form before and after a payment |
| `SendPin`, `HearSend` | the payment form, its PIN dialog and its result |
| `CountdownEnds` | the interval that counts a lock down |
| `OtherDevice` | an attempt from elsewhere that read the row before: it writes the counter, and possibly the lock, of its stale read |

### Contacts

The `Contact` table, the pages that show it and the requests under way. `Insert`
and `UpdateRow` meet the unique columns (`Clashes`; nulls do not clash);
`FindOwned` is `findFirst` on id and user, and what follows it is by id alone.
`HearSave` fetches the list again, `HearList` shows whichever comes last.
An account has one address and one username, so one value stands for both.

## 4. The runs

| Run | Instance | States | Shows |
|---|---|---|---|
| `pin_concurrent` | 4 requests, 3 in flight, threshold 2, clock to 2 | 126,771 | `LockTracksCounter`, `LockoutEarned`, `AttemptsLeftMeansOpen` under every interleaving; `FreshWriteIsAtomic`: a write of a row nobody touched since it was read is a step of `PinLockout`; `ImplementsForgetfulLockout`: every other one is a step of a lockout that forgets |
| `pay_faults` | 2 calls, 2 users, 1 shop, every fault, fair | 535,728 | `CompletedIsApplied`, `AnswerIsOnRecord`, `ImplementsIdealTransfer`, `CallsEnd` |
| `sse_streams` | 2 users, 3 connections, 2 payments, fair | 48,192 | `MapIsOpenStreams`, `AnnouncedIsRead` |
| `accounts` | 1 member, 3 requests, threshold 2, 2 tries at Friendbot | 225,727 | `RegisteredIsWhole`, `LoginLockEarned`, `InactiveStaysOut` |
| `pools` | 3 calls of 2 members, every fault, a moving market | 604,000 | `CalmPositionsAgree`, `SwapsPayTheFloor`, `SuccessIsReal` |
| `deployment` | 2 jobs of one merchant, every fault, fair | 74,000 | `RecordedIsReady`, `UnrecordedIsReported`, `JobsEnd` |
| `api_routes` | 2 requests to any of 29 handlers, window 2, clock to 3 | 301,000 | `WindowNeverExceeded`, `AnswersAreHonest`, `GuardsBeforeServices`, `AnswersTellTheOutcome` |
| `dashboard` | 1 user, 1 tab, 2 fetches, 2 PINs, threshold 1, lockout 2, clock to 2, fair | 380,717 | `EntryPaidOnce`, `CountdownIsTheServers`, `InputsComeBack` |
| `contacts` | 2 users, 2 pages, 2 requests, 2 contacts | 800,000 | `ContactsAreDistinct`, `OnlyOwnersWrite`, `QuietListIsCurrent` |
| `gate_mode` | 1 user, 1 tab | violated | after a login the gate of a user with a PIN asks for a new one |
| `pay_inbound` | 1 call, 2 users, streams, no fault, fair | violated | the sender's stream takes the place of the recipient's record |
| `sse_stolen` | as `sse_streams` | violated | a late hang-up of an old stream closes the new one |

Every passing run checks its type invariant as well. Deadlock is checked in
`api_routes`, `dashboard`, `gate_mode` and `contacts`, where a client can always
do something. Elsewhere every request, payment, job or stream ends and the run
may stop.

### Bounds

- Thresholds (`MaxFailed`) of `pin_concurrent` and `accounts` are 2 where the code
  has 5, a lockout is one unit of the clock where it has 15 minutes. Two is the least threshold at which a
  counter can be stale without being zero; the proofs about the PIN hold for any
  value.
- `MaxActive` bounds the PIN requests in flight and `MaxTime` the clock. Three
  requests in flight give a reader, a writer between, and a writer after; the
  clock passes an expiry with requests on both sides of it.
- Two calls of `sendPayment` meet on one sequence number, one balance or one
  recipient, and each meets two streams. `Amount`, `Funds`, `Reserve` and `Fee`
  are chosen so that the first payment is affordable and the second passes the
  check of amount + reserve, which knows no fee, and is underfunded at the network.
  The proofs hold for any number of calls. One call is enough for `pay_inbound`,
  where its two streams and its own insert compete.
- Three connections are an old, a current and a foreign one, or three of one
  user. `MaxNotes` bounds the announced payments.
- Three requests of `accounts` are two wrong logins and one that meets the lock
  they earn, two registrations of one name and a login, or a login, a decision of
  the administrator and a login after it. Two tries at Friendbot are one lost
  answer and its retry, which finds the account funded.
- Three calls of `pools` are two deposits and a withdrawal of one merchant, or a
  swap and two calls that trade before it. The price falls from 2; the floor of a
  swap is 2 as well, so a quote can be met when it is read and missed when the
  swap is applied.
- Two jobs of one merchant share the account's sequence number, which is where
  they disturb each other; a token has four transactions. The proofs hold for any
  number of jobs.
- `api_routes` has one slot for requests: the handlers share the limiters alone,
  and `Arrive` consults them in one synchronous step. Two requests per window of
  two units, over a clock to three, fill a window, see it full and see it slide.
  Each of the 29 handlers is reached with every token, with and without CSRF.
- Two fetches of `dashboard` are a request and one that overtakes it: a
  verification and a payment, or a PIN reset and what is sent before its timer
  fires. A threshold of one makes each wrong PIN a lock; a lock lasts two units
  and an attempt of another device may replace it by one of another end, or lift
  it, while the gate counts the first down. A user sets one PIN (`NewPin`) and types either,
  for PINs are only compared for equality. `MaxUnsure` bounds the payments whose outcome a user may be left in doubt
  about in one entry.
- Two requests of `contacts` are two saves of one name, a save and the list it
  overtakes, or a write and the deletion between its check and its update. Both
  contacts may be of one user, or of two.

### Fairness

`pay_faults`, for `CallsEnd`, assumes that handlers and callbacks run to their end and that the
network settles what was sent: the event loop resumes a resolved `await`, Horizon
answers or the request fails, and a transaction with time bounds is applied,
rejected or expires (`TX_TIMEOUT_SECONDS`). Weak fairness is on `Proceed(p)` as a
whole, which leaves out the lost answer: once called, a call always has a step
enabled until it is done, except while it waits for the network, and then the
network's own step is; a crash ends the calls it finds. `pay_inbound` assumes the
same. Nobody has to pay, no stream has to open, nothing has to
crash or to fail.

`deployment` has weak fairness on `Proceed(r)`, a handler's own next step. The
network has to do nothing: `pollTransaction` gives up after its last attempt, and
that is why `JobsEnd` holds for a transaction that is never found.

`sse_streams` assumes that the runtime pumps a stream that has a chunk and a
reader; a client that hangs up is the exception `AnnouncedIsRead` names.

`dashboard` assumes that a fetch is answered or fails (`Serve`), that its handler
runs (`Hear`), that intervals and timers fire (`CountdownEnds`, `TimerFires`) and
that time passes. Nobody has to press anything. The lock of a countdown ends on
the browser's clock, so `InputsComeBack` speaks of locks that end before the
clock of the run stops.

## 5. Where the code and its documents disagree

Each of these three has a run whose counterexample is the story:

- **The gate asks for a new PIN** (`gate_mode`). `layout.tsx:53` chooses the mode
  of the gate from `pinHash` of the user kept in localStorage; the user that
  login and register return has none. After a login a tab that was not verified
  shows "set a PIN", and `POST /api/users/pin` replaces the PIN the account has.
  `stellarpe-ui-overhaul/requirements.md:214` wants the "Verify PIN" screen.
- **A stolen connection** (`sse_stolen`). `cancel` in `events/stream/route.ts:57`
  unsubscribes the user and not the connection:
  `stellar-advanced-features/requirements.md:194` says the connection.
- **The sender as recipient** (`pay_inbound`). `notification.service.ts:272` stores
  every payment that an account's stream reports as received by that account, and
  Horizon reports a payment to the streams of both parties. The sender's row takes
  the unique `stellarTxId`; the insert of `sendPayment` and that of the recipient's
  stream fail, and no row names the recipient, whose inbound transaction
  `stellar-pay/requirements.md:118` wants recorded. It needs running streams, which
  nothing in `src/` starts yet.

Others are modelled as the code has them, and the properties say what remains
true beside them:

- **Attempts are not atomic.** `pin.service.ts:13` says failed attempts are
  tracked atomically. Two requests read the same counter and the later write
  wins, so several wrong attempts may count as one. `FreshWriteIsAtomic` says
  when an attempt is atomic, `LockoutEarned` that races only forget.
- **A lock can be lifted.** A matching attempt that read the row before the lock
  writes `pinLockedUntil: null` after it. The login lockout has the same shape.
- **An accepted payment reported failed.** The COMPLETED insert is inside the
  `try`; if a stream was first, the unique column rejects it and the `catch` block
  records FAILED and answers 502 though the money moved. It needs running
  streams, which nothing in `src/` starts yet. `ImplementsIdealTransfer` holds for
  every call that is not `doubtful` in this way.
- **Nobody verifies a token.** `proxy.ts:18-21` has the proxy decode tokens and
  every route handler verify them; no handler does. `GuardsBeforeServices` can say
  only that administrators' services run for requests that *claim* to be theirs.
- **No session ends.** Requirement 4.7 (`stellar-pay/requirements.md:107`) and
  `auth.service.ts:17-18` have a PIN change invalidate all sessions.
  `validateTokenWithSession` (`auth.service.ts:408`) would refuse the tokens of
  before, and nothing calls it, so there is no session to model: a token passes
  until its 24 hours are over.
- **The gate is not told.** When a lock is lifted by another device's reset or late
  match, the gate that was told of it counts on to its old end and keeps its user
  out longer than the server would. `CountdownIsTheServers` says that it never
  counts down anything but a lock the account has, or had and lost in this way.
- **Positions drift.** Two deposits of one merchant overwrite each other's sum,
  and a deposit whose polling ends too early is on chain and not on record.
  `CalmPositionsAgree` holds for merchants to whom neither has happened.
- **A half registration.** When `createWallet` fails the user row stays, without a
  wallet, and its name is taken. `RegisteredIsWhole` speaks of registrations that
  were answered with a token.

Smaller ones: the 423 of the verify route may carry `lockedUntil: null` when its
second read finds the lock gone; the balance check ignores the fee and may be
stale at submission; when `sendPayment` records a transaction before the stream,
the stream drops the event without notifying the recipient.

## 6. What is proved

All theorems hold for every value of the constants that satisfies the named
assumption of the module (`PinAssumption`, `PaymentAssumption`,
`NotificationAssumption`, `DeploymentAssumption`, `ContactsAssumption`,
`AccountAssumption`, `PoolAssumption`, `LimiterAssumption`, `RoutesAssumption`,
`DashboardAssumption`). TLC evaluates each of them in a run.

**PinServiceProofs.** `TypeCorrect`; `CounterAndLockAgree`; `AttemptsLeftAreUsable`;
`LockoutsAreEarned`; `FreshWritesAreAtomic`; `LockoutsAreForgetful`.
`LockTracksCounter` is not inductive: an update in flight was computed from an
old row. `CounterInv` adds `HeldAgree`: what a request holds for its comparison
is below the threshold, and an update about to be written agrees with itself. It
does not matter that it is stale. `EarnedInv` adds `HeldEarned`: an update is
ahead of the wrong attempts on record by its own attempt at most, which is why
lost updates can only forget. `FreshWritesAreAtomic` adds `Judged`: an update is
what `verifyPin` makes of the row as it was read and of the PIN in that row; if
the row is still that one, the write is `Accept`, `Refuse` or `SetPin` of
`PinLockout`. `LockoutsAreForgetful` needs no invariant of its own: the three above say of
each write what `Count` and `Forgive` of `ForgetfulLockout` allow, and of each 423
what `TurnAway` asks. It holds for any number of requests in flight.

**PaymentsProofs.** `TypeCorrect` (no balance below zero, whatever is stale);
`TableMatchesLedger`; `AnswersAreOnRecord`; `PaymentsAreIdeal`.
`BaseInv` says that recipients past the balance check are resolved and that a
call that has not submitted is unknown to the network. `LedgerInv` adds
`Witnessed`: a call past acceptance and an event of a stream stand for an applied
transaction. With it each insert of a COMPLETED row is sound, and the unique
column makes it the only one. `PaymentsAreIdeal` assumes nothing of the
surroundings; `KnowingInv` adds `Knowing`: the fate of a transaction is open only
while its call waits, after a crash silenced it, or for a call in doubt, which the
refinement mapping shows as unanswered. Without `doubtful` in the mapping TLC
violates the refinement as soon as `"lost"`, `"db"` or `"stream"` is allowed.

**DeploymentProofs.** `TypeCorrect`; `RecordedJobsAreReady`; `ReportsAreTrue`.
That a recorded token is minted says nothing of the jobs that are still on their
way, so it is not inductive. `JobInv` adds `Climbing`: the transactions of a job
below its step are applied, those above it unheard of, and a job that records has
its last one applied. `OnRecord` says that who is on record has finished its plan.
`ReportInv` adds that a handler that still runs has answered nothing.

**ContactsProofs.** `TypeCorrect`; `ContactsStayDistinct`; `OnlyOwnersDo`.
`updateContact` and `deleteContact` check the owner in one query and write by id
alone in another. `TableInv` says why this is enough: ids name one contact and
are never given out again (`IdsAreNames`), so what a check found stays the
caller's, or is gone (`Sound`). The lemma `SoundStays` carries this over every step
that keeps the owners of the ids of before (`RowsStem`); each write is shown to be
such a step.
`QuietListsAreCurrent` is about a page, and `ListInv` says what is true of it while
it is not quiet: the newest list, on its way or shown, is the table's, unless a
request is under way whose answer will make the page read another (`Promise`). The
lists on their way are told apart by the order in which they were read (`Orders`),
as the page takes whichever arrives.

**AccountsProofs.** `TypeCorrect`; `RegisteredIsAlwaysWhole`;
`LoginLockAlwaysEarned`; `InactiveAlwaysStaysOut`.
Rows are inserted and never removed or renamed, so what a request has found of
the table stays true while it is suspended; `StageInv` says what that is, stage by
stage. Three invariants stand on it, one for each thing that others may change
meanwhile. `WholeInv`: names are unique and wallets have funded keys. `CounterInv`:
a counter that was read, or is about to be written, counts at most the wrong
passwords on record and its own attempt. `ShutOutInv`: a login that was called on
an inactive account has no token, or still has to read that account.

**PoolsProofs.** `TypeCorrect`; `SuccessIsAlwaysReal`; `SwapsArePaidTheFloor`;
`CalmPositionsAlwaysAgree`.
The first three follow from `StageInv`: what can have become of the transaction of
a request at each of its stages. `CalmPositionsAgree` speaks of moments at which
nothing runs and is not inductive: chain and table are written by different steps.
`CalmInv` lets them differ by what one call has done on the chain and not yet in
the table (`Due`), says that what this call has read of the table is still there,
and that a calm merchant has one such call at most.

**ApiRoutesProofs.** `TypeCorrect`; `PipelineUsesLimiter`; `WindowIsNeverExceeded`;
`AnswersAreAlwaysHonest`; `GuardsAlwaysBeforeServices`; `AnswersAlwaysTellTheOutcome`.
`PipelineUsesLimiter` shows `ApiSpec => Spec`: each step of a request is a step of
the limiter or leaves it alone, so what is proved of the limiter holds behind the
routes. The store forgets, and cannot say by itself that a window was never
exceeded. `RateInv` relates it to the whole history (`Kept`): the store is the
history's tail, what it forgot has left the window, and two accepted requests that
are `MaxRequests` apart in the history are a window apart in time; `FewInAWindow`
counts from there. It holds for every limit and window, the two limiters of the
code among them. For the routes, `RoutesAreSound` goes through the table of all 29
handlers once (a status below 300 is for a completed service only, one of the 400s
for a refusal only). `RequestInv` says that a request at its body or its service
has passed the guards of its route, with the claims it carries (`Passes`), and that an answered one has a
status that fits its outcome (`Truthful`).

**SessionProofs.** Of `Dashboard`: `TypeCorrect`; `CountdownIsNeverAhead`;
`EntriesArePaidOnce`. Of `Notifications`: `StreamTypesCorrect`;
`OneOpenStreamPerUser`.
The actions of `Dashboard` are first summarised in the five ways in which they
change a tab and its requests (`Mounts`, `Shows`, `Sends`, `Serves`, `Hears`).
`LockInv` says of every expiry that a tab shows or an answer carries that the row's
lock ends no earlier, or that a lock that ended no earlier was written over while it
ran (`KnownLock`, `LockAccounted`); `OverwriteMoves` says that no write of the row
can undo that, and `Elsewhere` that the attempts of other devices are such writes.
`EntryInv` adds
to `EntryPaidOnce` that a page waits for one request at a time (`Waiting`), that a
payment whose page is gone is not heard any more (`Ears`), and what the counts are
while a request is out (`Entry`): until it is served, no transfer is missing from
the screen, afterwards one at most, which its answer will show or leave in doubt.
Without `Waiting` two requests of one entry could both pay; this is the mutant that
breaks the property. For the streams, `MapInv` is the type invariant with the
property itself, and inductive: each function updates the Map and the stream in one
synchronous step.

**Only model-checked.** Liveness (`CallsEnd`,
`AnnouncedIsRead`, `JobsEnd`, `InputsComeBack`) is out of the provers' reach:
tlapm has no rule for `ENABLED`, on which fairness rests. What the runs of section
5 refute is not a theorem. That a mutant breaks each property, so that no theorem
is about a property that cannot fail, is shown by TLC only.

## 7. What is not modelled

- Cryptography (bcrypt beyond matching, AES-GCM, the making of JWT signatures): no
  state, and a model would assume what it should show. No path verifies a
  signature, so nothing of it is assumed either.
- Operations that only read: transaction history, dashboard statistics, user
  search, wallet details. `ApiRoutes` has their guards and answers.
- QR payloads, analytics, the start-up check of the environment: pure functions
  of strings and lists.
- Writes that take effect and are reported failed: `QueryFails` of `PinService` and
  `Pools` rejects a query that has changed nothing. `Payments` and `Deployment` crash
  between effect and answer instead.
- What the zod schemas accept field by field: `ApiRoutes` has a body that passes
  or does not.
- Client pages that fetch once and show what came, the search box, toasts and
  the scanner. The administrators' and merchants' dashboards share the layout and
  the gate of `Dashboard`; their own pages are left out.
- Several server processes: the Maps and the limiters live in the memory of one,
  and the models have one.
- Layout, wording, landing pages, CI.

## 8. Running

    tlc -workers 2 -config PayFaults.cfg MCPayments
    tlapm PaymentsProofs.tla

Every cfg starts with the reason for its instance; an MC module with a
symmetry names it. Definitions commented as mutants are plausible bugs, used to test that
each property can fail.
