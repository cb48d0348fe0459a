# A verification project for npubcash-server

npubcash-server gives a Nostr key a Lightning address. A payer asks the LNURL
endpoint for an invoice; the server has a Cashu mint create a *Mint Quote*,
stores it, and hands out the invoice. When the payer pays, the mint knows; the
server learns of it by polling the mint and by WebSocket notifications, moves
the stored quote from `UNPAID` to `PAID`, `ISSUED` or `EXPIRED`, and announces
the change to connected clients and to the zap-receipt publisher. The recipient
later lists the paid quotes and mints the ecash.

This directory holds TLA+ models of that program, the configurations that
model-check them with TLC, and proofs that TLAPS checks. Source paths below are
relative to `src/packages/server/src/` unless they start with `packages/` or
`docs/`; `map:N` is line N of `docs/mint-quote-monitoring-implementation-map.md`.

## 1. Inventory

| Component | State | Operations | Talks to |
|---|---|---|---|
| LNURL invoice creation (`controller/lnurlController.ts`) | the request in progress | create the mint quote, INSERT the row, emit `mintQuote.created`, answer | mint, quote repository, event bus |
| Mint Quote repository (`infrastructure/db/*MintQuoteRepository.ts`) | table `mint_quotes` | `create`, `getById`, `takeDueForMintPolling`, `listDueMintQueues`, `transitionState`, history queries | all of the monitoring |
| Observation handler (`domain/mintQuoteMonitoring/QuoteObservationHandler.ts`) | none between calls | `handle`: load, decide, conditional UPDATE, emit | repository, event bus |
| Polling (`.../QuotePollingService.ts`) | rounds, lanes, capacity waiters, resident quotes, timer, abort signal | `start`, `stop`, rounds, lanes, capacity drain | repository, mint client, handler |
| WebSocket monitoring (`.../QuoteWebSocketService.ts`, `domain/mintQuoteMonitor/WebSocketQuoteTransport.ts`, `domain/communicator/infra/WsConnectionManager.ts`) | watched quotes, wire subscriptions, sockets, send queues, reconnect and periodic timers, pending connections | `subscribe`, `unsubscribe`, open/close/message events, reconnects | mint sockets, request budget, event bus, handler |
| Mint requests (`MintQuoteClient.ts`, `infrastructure/RequestRateLimiter.ts`, `MintRequestBudget.ts`, `MintRequestExecutor.ts`) | token bucket and queue per mint | schedule, drain, cancel, time out | mints |
| Mint information cache (`domain/mint/MintService.ts`, `Mint.ts`) | table `mints`: information and its age | `checkMintUrl`, capability lookups | mints, repository |
| Client quote subscriptions (`websocket/`) | connections, one listener per pubkey | challenge, authenticate or time out, update, close | event bus, SDK |
| Users, settings, usernames (`controller/username.ts`, `userSettingsController.ts`, `domain/user/`) | table `l_users` | read-modify-write of settings, purchase of a name | repositories, mint information, communicator, proofs |
| Recipient blocks (`domain/recipientBlock/`) | the block list | load, check | repository |
| Wallet API and SDK (`controller/wallet.ts`, `packages/sdk/`) | the pages of a fetch, the socket of a subscription | history pages (a COUNT and a SELECT), subscription | repository, WebSocket server |
| Communicator and proofs (`domain/communicator/`, `domain/proof/`) | table `proofs` | exchange a token at its mint, keep the proofs | mints, repository |
| CBOR codec (`utils/cbor.ts`) | none | encode, decode | payment requests of the username API |
| Migrations (`migrations.ts`, `packages/server/scripts/migrate-v2-postgres.ts`) | applied migrations, copied tables | run once, copy, resume | database |

The hard behaviours: a poll and several notifications about one quote are
handled at once, each acting on a row it loaded before the others wrote theirs;
answers of a mint may be older than a payment; the process may die, or lose a
statement's reply, between any two steps; shutdown arrives while lanes await
four different things; capacity is shared by lanes that come, wait and go;
sockets close while subscriptions are being made; requests are cancelled while
they wait; an account request writes back a row it read before two awaits; a
history is read page by page while payments are inserted into it. `PROJECT.json` lists each of these hazards at its line with the
properties that cover it.

What correctness means, per component:

- *reconciliation*: nothing is settled that was not paid, every payment is
  credited, rows only move forward, `paid_at` is set once, a change is
  published at most once and after its commit, no expiry hides a payment;
- *polling*: the budget is exact and bounded, every waiter is served, every due
  quote is claimed and none too early, startup completes, both while rounds fit
  into the poll interval, shutdown completes, nothing runs after it;
- *WebSockets*: every watched quote is subscribed on the open connection, and
  only those; a lost connection is replaced; nothing survives shutdown;
- *polling answers*: an answer belongs to the quote it was asked for, and an
  unusable batch delays quotes without losing them;
- *accounts*: quotes are locked only where the mint can, a name is paid for
  once and belongs to its buyer;
- *wallets*: an update reaches its owner only, a sole subscriber is the one
  that is heard, and the history shows each payment to a fetch that began after it;
- *mint requests*: the burst and the rate are kept, waiting work is started in
  order or cancelled, and the queue never stalls.

## 2. Modules

### QuoteReconciliation, refining QuoteLedger

| In the model | In the code |
|---|---|
| `lnurl[q]`, `CreateMintQuote`, `PersistQuote`, `AnswerLnurl`, `PersistFails` | the awaits of `lnurlController`, in order; a failed INSERT or a lost reply fails the request |
| `row[q]` | the `mint_quotes` row: `state` and `paid_at`; `absent` before the INSERT |
| `mintState[q]`, `StartPayment` ... `Forget` | the mint and the payer (external): pending payments, issued ecash, pruned quotes |
| `task[q][c]` | one observation in flight: claimed, requested, observed, decided, committed; one channel `c` per observation that may overlap with others |
| `LoadQuote`, `Target` | `getById` and `toTransition`: the stale row is read here, the decision carried across the await |
| `TransitionState`, `Sources`, `PaidAt` | the conditional UPDATE with its source states and `COALESCE(paid_at, $2)` |
| `EmitStateChanged` | the emission after the UPDATE returned |
| `MintMisanswers` | a payload about another quote, which `checkQuote` lets through and the handler rejects |
| `ObservationFails`, `Crash` | a failed request or statement, a lost reply, the death of the process |

`expiresAt` is the expiry both sides know; `Skew` is how long after it the mint
still takes payments. The handler compares the start of the request with the
expiry, so `startedAt` is part of an observation. Amounts, payment requests and
users do not appear: nothing here reads them.

`QuoteLedger` is what the subsystem promises: an atomic table whose rows only
move forward, and publications that follow commits, each at most once; a crash
or lost reply may lose them. The refinement mapping takes the rows as the
ledger, the handlers' `committed` stages as what is still to be published, and
the emitted events as the publications.

### QuotePolling, refining CapacityBudget

| In the model | In the code |
|---|---|
| `service`, `timer` | `started`, `stopped`, the signal, `nextRoundTimer`, and `startServer` awaiting `start()` |
| `round`, `cutoff`, `discovered`, `skipped`, `found` | one pass of `pollDueQuotes`: `dueBefore`, `discoveredMintUrls`, `skippedMintUrls`, `foundDueQueue` |
| `lane[m]` | where the lane of a mint awaits: capability, capacity, claim, answers |
| `held`, `resident`, `waiters`, `drain` | `residentQuotesByLane`, `residentQuotes`, `capacityWaiters`, `capacityDrainScheduled` |
| `batch[m]` | the quotes of the current claim that have not been checked |
| `age[q]` | time since `last_polled_at` of an UNPAID quote; `Never` for NULL |
| `Tick`, `waited` | the clock, while the service sleeps or lanes await answers; the lanes that have awaited theirs for a tick |

Every await is a point where other lanes, the timer, new quotes, WebSocket
settlements and `Stop` may step in. `CapacitySplit` is the loop of
`drainCapacity`, one `Turn` a lane: passes over the lanes below their limits,
each with an equal share of what remains. `EvenShares` is what it promises.

A tick is the longest that one answer takes, from the claim: the wait for a
token of the mint's bucket, 20 of them a minute by default, which every request
makes however prompt the mint, then the time the mint takes,
up to the timeout, and the batch request that a single check may follow. Any
lane that awaits an answer, for the batching support or for a claimed quote,
may do so for up to a tick, or for no time. `Interval` is the poll interval in
such ticks, and `LightLoad` says that a round over all quotes fits into it.

`CapacityBudget` is what the lanes rely on in the capacity they share: an
account that serves them in the order in which they asked, several at a time,
each an even share and never from what another one holds; shutdown cancels who
waits. The refinement mapping takes `waiters` as the queue and keeps `held`: a
`LaneStep` that asks, a claim that gives unused grants back, a lane that ends, the
drain and `Stop` are its operations, every other step stutters.

### BatchPolling

QuotePolling abstracts what a lane asks and is answered; `BatchPolling` is one
lane in detail.

| In the model | In the code |
|---|---|
| `row`, `polled` | the UNPAID quotes of the mint, and the rank of their `last_polled_at`, 0 for NULL: the order `last_polled_at NULLS FIRST, id` of `takeDueForMintPolling`; one rank per claim, since a claim writes one time |
| `limit` | what `supportsQuoteBatching` said this round, 0 for no batching |
| `claim`, `late`, `at` | the quotes still to be asked for and the ones past their expiry when the request started (`requestStartedAt`) |
| `TakeDue` | one turn of `pollMintQueue` with any capacity up to the one asked for |
| `BatchAnswer`, `Usable`, `Fallback` | `checkQuotes` accepts an answer of the right shape in the requested order; otherwise `pollBatch` asks for the first `IndividualLimit` quotes one by one |
| `SingleAnswer`, `Unavailable` | `checkQuote`; a malformed answer is logged, a missing one gives up a batch |
| `checks`, `Observed`, `Forward` | `forwardResult`, one by one, into `toTransition` and the UPDATE |

`Broken` quotes are the ones a mint never answers in the expected shape. An
answer is the sequence of the quotes its payloads name, so a misordered one is a
permutation. What the mint says is read when the answer comes; its way to the
handler is as long as the steps in between.

### RequestRateLimiter

| In the model | In the code |
|---|---|
| `queue`, `status[r]` | the FIFO of queued requests and what their callers see; a cancelled request stays in the queue |
| `drain`, `sleep` | `drainQueue`: returned, running, or awaiting `waitForDelay` |
| `credit`, `elapsed` | `tokens` and `now - lastRefillAt`, both in ticks; `refillTokens` is `Refilled` |
| `DrainEnds`, `DrainWaits`, `DrainStarts` | the three ways on from the head of the queue |
| `Abort`, `RequestEnds` | the abort listener, and the executor's timeout, answer or abort |
| `debt` | history: the largest excess, over all periods up to now, of the starts over the length of the period |

A token costs `Cost` ticks. Time is relative, so no clock bounds the runs. The
bucket is refilled lazily, when the drain looks; `debt` grows at each start and
shrinks with time, whatever the drain does, which makes it an independent
account of the rate.

### QuoteSubscriptions

| In the model | In the code |
|---|---|
| `watch`, `sub`, `wires`, `queued`, `isOpen` | the transport's `MintSubscriptions`: `byQuoteId`, each `subId`, `bySubId`, the queued flag, the open flag |
| `socket`, `pending`, `stale` | the manager's socket by `readyState`, an attempt that awaits the budget, a replaced socket whose events may still come |
| `reconnect`, `periodic`, `queue` | the manager's two timers and its send queue |
| `remote` | external: the subscriptions the mint keeps for this connection |
| `Watch`, `Unwatch` | `watch` and the function it returns, down to `send` and `closeMint` |
| `OnOpen`, `OnClose` | the socket's events in the manager and then in the transport |
| `EmitCreated`, `EmitStateChanged`, `Start`, `Stop` | the service's listeners, restoration and shutdown |

Mints share only the shutdown, so one mint is modelled. `Start` restores the
active quotes before anything else runs in the process. A socket may need a
token of the mint's budget; the token is at hand or awaited. The WebSocket
constructor does not throw for the URLs a mint has.

### UserAccounts

| In the model | In the code |
|---|---|
| `users`, `mints`, `proofs` | tables `l_users` (name, mint URL, lock), `mints` (NUT-20, older than an hour or not), `proofs` |
| `request[r]` | the local variables of one handler: the copied user and the URL under check, or the name and the token |
| `SetLock`, `SetMint` | the two settings controllers up to their first await after `getUserByPubkey` |
| `FindMint`, `LoadInfo`, `StoreInfo`, `Decide` | `MintService.checkMintUrl` |
| `SaveUser`, `SavedRow` | `saveUser`, which writes every column of the copy |
| `BuyName`, `RedeemToken`, `SaveProofs`, `UpsertUsername` | `usernameController`, one action per await |
| `NameIsFree` | `UNIQUE (name)` of the table |
| `Fail` | any of these awaits rejects, or the process stops |

Each action ends at an await, so other requests step in between. `Normal` is
`normalizeUrl`, of which the models only use that it respells a URL of the same
mint (`MintAt`): it may take several rounds to settle (`https://m//`,
`https://m/`, `https://m`). The URL a user chose is stored as it was sent, the one
checked is normalized, and the loader normalizes once more, as in the code. The spelling of a name matters in one
place: `usernameExists` looks up the name as sent, the write uses its stored
form, so a lookup may miss (`canonical`). `offered`, `granted` and `overtaken`
are history.

### PaymentSync

| In the model | In the code |
|---|---|
| `row`, `Matching`, `Ordered` | the rows `getUserHistory` selects, by `paid_at` descending; equal times in any order |
| `fetch`, `Count`, `Select`, `IsLast` | `_fetchPaginatedQuotes` of the SDK; one page is the COUNT and the SELECT of one request |
| `sdk`, `Up`, `Drop` | the SDK's `SubscriptionManager`, or another client, and its socket, which the client closes or the transport loses |
| `server`, `pubkey`, `listeners`, `Remaining` | `WebSocketConnection` and `QuoteSubscriptionManager`, one listener per pubkey |
| `answers`, `inbox` | challenge responses and updates under way |
| `HandleMessage` | a challenge-response, the first or a later one, with any key |
| `Settle`, `Announce`, `LosePublication` | the UPDATE of a quote, and the later event with which `config.ts` calls `update`, or its loss with the reply to the UPDATE |

`Settle` stands for `QuoteLedger`'s changes towards PAID and ISSUED. The
application is external: it fetches again after an update. A client may answer
again after it was authorised, with another key: `keys` is history, every key a
connection authenticated with. `excused` is history too: the payments that may
never reach the wallet, each put there by the step that is the cause: `ISSUED` was
observed without `PAID`, the event was never emitted, it found no connection that
was its user's only one, the connection took the update with it, or the fetch
was raced. `PaymentsAreOnTheirWay` says that, but for equal times, nothing else
loses one: not the order of challenges, responses, closes and settlements, nor
failed requests, nor pages that shift.
`FetchMissesOnlyByRace` says exactly when a fetch may miss a payment: a row came
in between a COUNT and its SELECT, or two payments share their time.

### CBOR

`EncodeItem` and `DecodeItem` are `encodeItem` and `decodeItem` over chunks: one
byte of a head, or the bytes of one string. The program encodes a value, may
lose the end of the bytes, and decodes the rest. `MapHead` marks the last byte
of an encoded number as the code does. Integers are below 2^31; negative and
fractional numbers, eight-byte lengths and the values of floats are left out, as
are maps of 24 keys and more, whose head the code gets wrong and which no caller
builds. The module declares `RECURSIVE` operators and is for TLC only.

### V2Migration

The command `packages/server/scripts/migrate-v2-postgres.ts`, with
`runMigrations` as one step of its target transaction. A table is the set of its
keys; the checksum of a scan is the set of rows scanned. `at` is the statement
an attempt awaits, one action per statement or per group of statements that fail
alike: the receipt lookup, the source inspection, one batch of `scanTable` with
its insert, the validation of a table, the identity sequences, the receipt, the
COMMIT. What the operator sees is `report`, the pair of `status` and `retrySafe`
(`README.md:103-109` of the repository). `tx` is what an attempt's transaction
would add to `target`. The server commits or aborts it on its own after COMMIT
was sent, so that the acknowledgement can be lost on either side of the commit;
a killed command leaves its session behind until the server notices, and
`CREATE TABLE` waits for it. A second attempt that found the target empty may
run on beside the first; primary keys and the receipt table stop it.

The v2 writers are stopped, so `source` is constant. The checks of its columns
are one step that may fail.

## 3. Runs

Types are proved, not run, for `QuoteReconciliation`, `RequestRateLimiter`,
`V2Migration` and `UserAccounts`; the other runs check `TypeOK` as a part of `BudgetInv`, `RoutingInv`, `ListenerInv` or `LaneInv`,
each the conjunction of what relates one table to another.

Every cfg sets `CHECK_DEADLOCK FALSE` where the system really may stop: closed
quotes and a stopped clock, a service that was shut down.

| Run | Shows |
|---|---|
| `reconciliation_races` | one quote, a poll and two notifications, two faults, 4 instants: an invoice always has its row, `paid_at` is set exactly on settled rows, and the racing handlers implement `QuoteLedger` |
| `reconciliation_liveness` | two quotes of a mint that may answer about the other one: nothing unpaid is settled, no `EXPIRED` row hides a payment; payments are credited, changes are announced |
| `polling_safety` | two mints, prompt or slow, three quotes, two units of capacity, one failing statement, shutdown at any moment: the budget, the claims, and that the lanes' capacity implements `CapacityBudget` |
| `polling_liveness` | two mints, prompt, slow or failing once, under light load: each due quote is claimed, also after its mint was skipped, startup completes, each lane is served, shutdown completes |
| `polling_startup` | the finding below |
| `batch_polling` | three quotes, one never answered well, batches of two or three, a fallback to two, two faults: no quote is closed wrongly, and every other one is closed |
| `limiter` | four requests aborted at any moment, a burst of two, three ticks a token: the rate, the order, no rejected request sent, a drain that neither returns nor oversleeps while somebody waits, every request settles |
| `subscriptions` | three quotes in batches of two, two failures: tables, wire and connection agree, every watch is subscribed again, and a watch outlives its quote only after a late creation or a lost event |
| `user_accounts` | three overlapping requests of two users, settings and purchases, failing at any await, a mint with three spellings: locks, payments and names agree |
| `payment_sync` | two connections, two keys, each connection answering once or again, two payments read in pages of one: listeners, owners and pages, and every unknown payment is on its way or excused |
| `cbor` | numbers and lengths around every boundary, lists, maps, payment requests: what was encoded is decoded, and a missing end is noticed |
| `v2_migration` | two attempts, overlapping or in sequence, every source content, two faults: all rows and the receipt or nothing, one commit, true reports, free ids, every attempt ends |

**Bounds.** Three overlapping observations of one quote reach every order of
two writers around a third reader; the quote passes through at most three
changes, so a fourth observation repeats one of the three. Two faults allow one
on each side of a commit. Two quotes are enough for an answer about the wrong
quote. Times 0..3 with a lifetime of 1 put requests and payments before, at and
after the expiry; the liveness run has the times before and at it, and one
observation of a quote at a time, because the races are the other run's. In polling, two lanes and two units of capacity are the
smallest instance where a lane takes everything, another waits, and a third
party's room is set aside; limits 2 and 1 make shares uneven. The liveness run has
`Interval = 4` for two quotes, the least that is a light load: with 3, a round
need not end. `MaxFaults` bounds
faults, never the steps after one. The limiter needs a queue with a cancelled head before a live
request, behind a started one: four requests, so that one more is scheduled
while the drain sleeps. The subscriptions need a full batch and a single quote
(three quotes, two per batch), and two failures or lost events so that a
replacement fails too.
The migration needs two attempts, two faults (a lost
acknowledgement and a failing verifier), a table with an identity column and one
without, and more rows than a batch holds; with one row per batch every scan
ends with the empty batch that follows a full one. A batch of three with a
fallback to two leaves one quote behind, and one broken quote is one fewer than
the fallback asks for, which is what `EveryQuoteCloses` needs. Three requests
are a purchase between the read and the save of a settings request, and one
more; the away mint has three spellings, of which normalizing takes a slash at a
time. Two connections and two payments, pages
of one: a listener is replaced, and a payment shifts the other to the next page
between two requests and between COUNT and SELECT. The CBOR values lie on both
sides of 24, 256, 65536 and of each byte of a 32-bit number.

**Fairness.** The event loop runs every continuation; requests end by the
executor's timeout (`MintRequestExecutor.ts:37-59`), statements by their
result, timers fire, microtasks run, and a request gets its token in the end
(`limiter`): weak fairness of each such action, per
quote and channel or per mint. The reconciliation liveness assumes that polling
takes each `UNPAID` quote again; `polling_liveness` shows that it does while
rounds fit into the poll interval, and section 4 says when it does not. Nothing is assumed
of payers, of recipients, of faults or of shutdown. The limiter's drain and timers run and time
passes. A socket opens unless it fails, a closing one is closed in the end.
In `BatchPolling` the lane goes on and time passes for each quote; nothing is
assumed of the mint's answers, which may come in the wrong order for ever:
`EveryQuoteCloses` is what keeps paid, expired and pruned quotes from being
polled without end.
A migration's statements end, and its server acts on
what it received and drops sessions whose client is gone; the operator need not
start it.

## 4. Where the code differs from what is said of it

One run shows a disagreement:

- `StartupCompletes` (`polling_startup`): `startServer` awaits the first polling
  round (`index.ts:35`), and a round continues while it finds due quotes
  (`QuotePollingService.ts:269-274`). A mint whose lane turn takes a poll
  interval keeps it going for ever: with two quotes whose requests time out
  after 10 s each, or with seven checked one by one at 20 requests a minute, the
  first is due again when the last is done. The server never listens.
  The run has `Interval = 2`, two checks. `StartupCompletesUnderLightLoad` is what
  holds instead.

The models contain more behaviour of this kind. No property contradicts it;
`PaymentsAreOnTheirWay`, `LingeringHasACause`, `ListenerInv` and
`DueQuoteIsClaimed` name it as an exception or say where it ends:

- A quote first observed as `ISSUED` (paid and minted between two polls) goes
  from `UNPAID` to `ISSUED`; the listeners in `config.ts:168` and `:174` react to
  `PAID` only, so the client and the zap receipt miss the payment, which
  `packages/docs/docs/how-does-it-work.md:30` says is published.
- An UPDATE may commit and lose its reply (`QuoteObservationHandler.ts:52-59`).
  Then nobody emits the event: a connected client is not told of the payment,
  and the watch of the quote stays until the service stops. Later observations
  find the row settled and emit nothing, unless `PAID` turns into `ISSUED`.
- `skippedMintUrls` lives as long as the round. While other mints keep the
  round going, which above a light load they may do for ever, a mint whose
  capability lookup failed once is not looked at again; `map:362` says that one
  slow or unavailable mint does not prevent others from being checked.
  `DueQuoteIsClaimed` holds under `LightLoad` only.
- `QuoteWebSocketService.ts:101-110` judges a new quote by the row as inserted.
  If polling closes the quote between its INSERT and its `mintQuote.created`
  event, the watch made afterwards is never dropped, against `map:203`.
- After an unusable batch answer only the ten oldest quotes of the claim are
  asked for (`docs/deploy.md:49-52`), and the whole claim counts as polled.
  With ten quotes of a mint that are never answered well the ones behind them
  are never asked for. `EveryQuoteCloses` assumes fewer.
- A settings request that read the row before a name was bought writes the old
  name back (`saveUser` writes every column): the name is paid for and gone.
  `SettingsKeepTheName` shows that nothing else loses a name.
- A name that is taken between its lookup and its write costs the buyer the
  token: it was exchanged, the write fails, nothing is returned. The same
  happens without a race when the name is sent in another spelling, because
  `usernameExists` gets the name as sent. If `saveProofs` fails after the
  exchange, the server loses the proofs as well.
- `setPreferredMint` checks the normalized URL and stores the one it was sent.
- A connection may answer its challenge again, with another key
  (`connection.ts:48-57`). `authorise` replaces `pubkey`, and `close()` (38-46)
  removes the listener of the last key only: those of the earlier keys stay,
  and updates for them go to a closed socket until another connection takes
  the key. The SDK answers once.
- Of two connections of one pubkey only the last is heard, and closing either
  removes the listener of the pubkey, so both go silent. The SDK does not
  reconnect after a drop.
- A payment that arrives between the COUNT and the SELECT of a page can push
  the oldest one beyond the total the SDK stops at (`client.ts:204-209`).
  `client.ts:132` says "created since"; the query compares `paid_at`.

## 5. Proofs

`QuoteReconciliation_proofs` proves, for every set of quotes and channels, every
bound and every skew, from `BoundsAssumption` alone:

- `TypeCorrect`: `Spec => []TypeOK`.
- `SettlementIsReal`, `InvoicesAreBacked`, `PaymentTimesAreRecorded`: each is a
  part of `SafetyInv`, or follows from one. Alone none is inductive: the UPDATE acts on a
  decision made earlier, so `EvidenceInv` says what an observation in flight
  still guarantees when it is used (a reported payment stays true because
  `mintState` never leaves the settled states, `MintIsMonotone`), and
  `CreationInv` ties the invoice, the payer and the row together.
- `ExpiryIsSound`: with `Skew = 0`, an answer `UNPAID` to a request started after
  the expiry proves that the quote can never be paid. `ExpiryInv` carries
  `Dead(q)`, which is stable, from the answer through the decision to the row.
- `ReconciliationImplementsLedger`: each step is a step of the ledger or
  stutters. `PublicationInv` says that a change waits in one handler or was
  emitted once, never both: no two handlers commit the same change, because a
  row passes each state once.

`RequestRateLimiter_proofs` proves every safety property of `limiter`
for every number of requests, capacity and rate. `DrainKeepsUp` says that the drain
neither returns (`QueueIsServed`) nor sleeps too long (`NeverOversleeps`). `LimiterInv` adds to the
properties themselves what they need: `BudgetIsExact` (debt plus refilled
bucket is a full bucket) is inductive because a refill moves nothing but the
account from `elapsed` to `credit`; `SleepInv` ties a sleeping drain's timer to
the bucket (`sleep + credit + elapsed = Cost`); `QueueInv` says that a request
is queued at most once and not after it was sent. `OrderIsKept` needs both: what
the drain starts is the first one queued that was not rejected.

`V2Migration_proofs` proves every safety property of `v2_migration` for any
number of attempts, any tables and contents, any batch size. `MigrationInv`
says, besides those properties (`TargetIsAllOrNothing` is `RowsMatchReceipt` and
`CopiedOnce`): at most one transaction is live, because
`CREATE TABLE` waits (`OneIsLive`), hence the target stands still under it; the
tables before the current one are complete in it and those after it empty
(`CopiedUpTo`, where a batch that is not full is the last); from the receipt on
it holds the whole source, and the target has no receipt yet. `MaxExists`, that
a finite set of ids has a largest one, comes from the well-foundedness of the
strict subsets of a finite set. `MigrationAssumption` asks that no table is
planned twice and that the ids are finitely many.

`UserAccounts_proofs` proves every property of `user_accounts`, for any users,
mint URLs, names, tokens and any number of overlapping requests, from
`AccountsAssumption` (normalizing a URL does not change the mint it leads to, a
missing name or row is none).
The table properties are not inductive alone, since every write acts on a copy.
`LockInv` carries the lock and the mint of a settings request together from the
read to the save; `CopyInv` says that a copied name was bought, and is current
unless the request was overtaken; `TokenInv` says that an exchanged token
belongs to one purchase and to no name yet.

`QuoteSubscriptions_proofs` proves every safety property of `subscriptions`, for
any number of quotes, subscription ids and failures and any batch size, from
`SubscriptionsAssumption`. `RoutingInv` and `ConnectedWhileWatched` need
`QueueInv`: messages wait only for the socket that replaces one which was
closing under an open transport; that is also why at most two wait
(`QueueStaysShort`). `WatchesAreOnTheWire` compares the tables with what the
mint has, and needs `WireInv` on top: `QueueShape` says that the queue holds
nothing, one subscription, or one and its withdrawal, so that after the flush
the mint has exactly what the tables route (`FlushedIsRouted`); `Fresh` says
that a quote is watched once, so that no subscription of an earlier watch is
left. `WatchesStayForACause` looks at each way a watch begins or a quote closes:
a watch begins in `Start`, which takes active quotes only, or in `EmitCreated`
(`WatchBegins`); a close puts the quote in `closing`; the event that takes it
out drops the watch, since only a started service has any (`StartInv`,
`WatchEnds`), and the other step that does loses the event.

`PaymentSync_proofs` proves every property of `payment_sync`, for any users and
connections, finitely many quotes and any page size (`SyncAssumption`).
`KeysAreAuthenticated` says that the server knows a pubkey of a connection only
from a response to its challenge, and that the last one is among its keys; `AloneIsSole` that a connection that shares its pubkey with
no authorised one stays the only one, which `SoleSubscriberIsHeard` needs.
`FetchIsComplete` counts instead of sorting: the place of a row in the history
is the number of rows before it plus one (`PlaceInHistory`), rows only enter
the history (`HistoryGrows`) and so only move to later places (`PlacesGrow`),
hence a row that the pages read so far do not have is still to come (`CoverInv`),
and the page that reaches the total covers the rest (`LastPageCovers`).
`PaymentsArrive` joins the two halves of the module: the socket hands a payment
from event to update to a fetch (`WayStep`), and the fetch that has it due
either delivers it, by the argument above, or was raced and excuses it.

`QuotePolling_proofs` proves every property of `polling_safety`, for any finite
sets of mints and quotes, any limits, capacity, interval and faults
(`PollingAssumption`). `PollingInv` ties the parts together: the service to the
round (`ServiceInv`), lanes to the pass that started them (`DiscoveryInv`), the
capacity a lane holds to its stage and claim (`GrantInv`), the queue to the lanes
that wait (`QueueInv`), the budget to the sum of the shares (`AccountInv`), and
the cutoff to the ages (`CutoffInv`), which gives `ClaimsKeepTheInterval`.
`StoppedIsQuiet` needs `DiscoveryInv` and `GrantInv`: no round, no discovered
mint, no lane, no share, an empty sum. `BudgetIsKept` contains that no wake-up
is lost: an action that frees a unit, or readies a lane that one was set aside
for, schedules the drain (`StillWaiting`), and a drain that leaves a lane
waiting has handed out all it may (`DrainLeavesNone`). `WaitersAreNotStranded` follows:
were all lanes waiting, the whole capacity would be free. `BudgetInv` also
says that what the drain divides it divides evenly (`DrainIsEven`), because
`SplitIsFair` proves that of the loop for any lanes, limits and amount: the
lanes still to be visited in a pass are all at its base level, the visited ones
that are not full are one share above it (`Levelled`), and a share above one is
always affordable for the rest of its pass. The loop is a recursive function,
which `DealingIsRecursive` shows to satisfy its recursion; TLC compares it with
`EvenShares` over three lanes, limits up to four and up to nine units
(`SplitIsEven` in `MCQuotePolling`). The sum over mints is a fold that takes its
elements in an arbitrary order; `SumIsRecursive` shows that it satisfies its
recursion, and `SumRemove` that any element may be taken first.
`PollingImplementsBudget` is the refinement of `CapacityBudget`: `AskMaps`,
`ClaimMaps` and `DrainMaps` map the steps that touch the account, and need of
`PollingInv` that a lane asks with empty hands and not from the queue
(`NotWaiting`), that the sum is what is held, and that the drain divides evenly.

`BatchPolling_proofs` proves `LaneInv`, for any quotes, times, limits and
faults (`BatchAssumption`). `EvidenceInv` carries what the mint said of a quote
and whether the request started after its expiry from the claim through the
answers to the forwarding. `DueCanBeClaimed` says that the order of
`last_polled_at` and id always has a first quote among the due ones.

Induction over finite sets is done by the well-foundedness of strict inclusion
(`SubsetInduction`), since the library's induction theorems take an operator and
the installed provers cannot instantiate them. What a `RECURSIVE` operator
computes for every input is out of reach, so modules meant for proofs declare
none, and `CBOR`, which is recursive, is model-checked only. So is liveness and
everything that needs `ENABLED`: TLAPS has no support for it.

## 6. Not modelled

- Recipient blocks: a list read through a repository, with one refresh at a time
  and no effect on any other state.
- Nostr signing and relay publishing, NIP-98 checks, LNURL and zap parsing,
  configuration: pure functions or best-effort I/O with no state of the server.
- The database engines: each statement is atomic and isolated; their pools and
  adapters are left out. Several application instances are an explicit non-goal
  of the code (`map:18`).
- Instances that give names away (`amount` 0), and the two user repository
  methods without a caller (`upsertLockQuote`, `createUser`).
- The page size cap of 50 and the parsing of `limit`, `offset` and `since`; the
  SDK's settings calls and token refresh.
- In CBOR: eight-byte lengths, negative and fractional numbers, large maps.
- The frontend, the documentation site, type packages and vendored code.

## 7. Plan

1. `QuoteReconciliation`, `QuoteLedger`, `QuotePolling`, `CapacityBudget`,
   `CapacitySplit`, `BatchPolling`, `RequestRateLimiter`, `QuoteSubscriptions`,
   `UserAccounts`, `PaymentSync`, `V2Migration`: every safety property proved,
   and both refinements.
2. `QuoteSubscriptions`: to add, an abstract watch of one quote that it
   implements.
3. `CBOR`: checked. Larger numbers and negative ones.
4. `RecipientBlocks`.
