# Vexa AI backend in TLA+

A verification project for `vexa-ai-backend`: a NestJS service that sells
subscriptions and pay-as-you-go credit for an AI chat, streams answers from the
Liara AI gateway, and keeps its state in PostgreSQL (Prisma) and Redis, with
Bull queues for scheduled work. Paths below are relative to the repository root
(`src/modules/...`); PROJECT.json prefixes them with `src/`.

The service runs in one Node process, but every `await` gives way to other
requests, so a handler is a sequence of steps between which anything may
happen. A Prisma `$transaction` commits as one step, a single SQL statement or
Redis command is one step. That is the reading all modules share: **one action
per stretch of code between two awaits that touch shared state**, with the
values a handler has read so far kept in the handler's record.

## 1. Inventory

| Component | State | Operations | What is hard | What makes it correct |
|---|---|---|---|---|
| Payments (`payments/payments.service.ts`) | `Payment`, `Invoice`, `Subscription`, `DiscountRedemption` rows | `initiate`, `initiateWalletTopup`, `verifyCallback`/`verify`, `completeWalletTopup`, `issueReferralRewards` | redirects come twice, late, in the wrong order, or at the same time; reads before the transaction that uses them; crash between commit and follow-up | every payment is settled at most once and only if paid; effects all or none; activation minimum and rewards earned |
| Gateways (`payments/gateways/*`) | orders at the gateway, the configured keys | `createPayment`, `verifyPayment`, `resolve`, `byName` | a verification changes the order before its answer is read; restarts with other keys | a yes only for what was paid; a repetition is not denied |
| Growth, discount codes (`growth/*`) | `DiscountCode`, `DiscountRedemption` | `findValidCode`, `recordRedemption`, `issuePersonalCode`, `claimGift` | read-then-create; a code checked when a payment is opened and redeemed, as it then is, when it is settled | counter equals redemptions; one good code of the gift per user, and no second one redeemed but through payments that overlap |
| Wallet (`usage/pricing.service.ts`, `chat.service.ts`, `admin.service.ts`) | `Wallet.balanceToman`, `WalletTransaction` rows | gate before a message, `debitWallet`, `refundWallet`, top-up | check before an unconditional decrement; refund writes an absolute value | bounded overdraft; ledger adds up |
| Plan cache (`usage/token.service.ts`, `plans/plans.service.ts`) | Redis `plan:<user>` (TTL 1 h) | `getCachedPlan`, `invalidatePlanCache`, plan and subscription writes, `SCAN` | a fill overtaken by a write; a writer that dies before its `DEL` | stale only for a known reason, and never for good |
| Message limits (`chat.service.ts`, `token.service.ts`) | Redis `token:req:*`, `ratelimit:msg:*`; `User.lifetimeMessageCount`, `trialEndedAt` | preflight of `streamChat`, the counters after an answer | any number of requests between check and count; midnight; trial and plan limits differ | excess bounded by the requests in progress |
| Token and cost budget (`usage/*`, `queue/processors/token-flush`) | Redis counters, `DailyUsage` rows | `checkQuota`, `increment`, `trackCost`, `assertBudget`, the flush job | Iranian date for tokens, UTC date for costs; only the current day is flushed | nothing counted twice; what is lost is bounded |
| Chat (`chat.service.ts`, `conversations/*`) | `Message`, `Conversation` with summary, cutoff, title | `streamChat`, `generateTitle`, `summarizeConversation`, `update`, `findAll` | fire-and-forget summary races the next message; pages of an order that changes | every message is in the summary or in the history sent; every conversation is listed once |
| Images (`chat.service.ts`, `chat-image-cleanup`, `storage`) | `Message.imageUrl`, object storage, Redis counters | `handleImageGeneration`, `callImagesApi`, cleanup job | chain of candidates with retries; delete fails, reference removed | no link without its object, no object without its row; limits as above |
| Model router (`model-router/*`) | Redis caches of routing steps and configuration | `route`, `classifyHeuristic`, `pickFromCandidates`, administrators' writes | stale steps; fall-through order | a model the plan allows, one that sees pictures where there are pictures |
| Live statistics (`live-stats/*`) and alerts (`admin-alerts`) | Redis sorted set, peaks, counters per minute, cooldown keys | stream start and end, peak, `check` | read, compare, write; processes that die | ghosts are not reported; alerts are a cooldown apart and none is swallowed |
| Authentication (`auth/auth.service.ts`) | Redis codes, `RefreshToken` rows | `sendOtp`, `verifyOtp`, `refresh`, `logout` | read, then delete; two refreshes at once | one session per refresh token |
| Campaign and waitlist (`campaign/*`) | `LaunchCampaign`, `WaitlistEntry`, Redis caches | `applyToNewUser`, `activateByToken`, `grantEntries`, `sendDueReminders` | grant after activation; cached campaign | capacity never exceeded; a granted user is rid of the limit |
| Liara keys (`liara/*`, two jobs) | `User.liaraApiKey`, issues, `LiaraUsageSnapshot` | `getApiKeyForUser`, retry processor, usage sync | first requests race; retry job races them; a key whose answer is lost | one key per user on record; issues are open as long as they should be |
| Anonymous chat (`anon-chat/*`) | identities by address, browsers, events | messages with limits, banner, `migrateSessionToUser`, reports of the funnel | migration is a sequence of writes, repeated logins; events after counts | copied once; limits as above; the reports agree |
| Sales assistant (`sales/*`) | sessions, leads, knowledge base with vectors, Redis rate limit | `chat`, `saveLead`, follow-up, SMS, entries, `recomputeAll`, `retrieveRelevant` | saves nobody waits for; vectors of two models | one offer; the last history; never two models in one comparison |
| Cached configurations (five services) | a row in each process's memory for a minute | `getConfig`, `updateConfig` | a slow read stored late | nobody is given what was replaced a minute ago |
| Usage analytics (`usage-analytics/*`, lists of `admin`) | none: functions of the tables | overview, charts, tables, growth, categories, margin alert | costs stand in two tables, filled by two pipelines, with other boundaries of a day | reports of one table agree; those of two differ by causes that can be named |
| Feedback (`feedback/*`, `message-feedback/*`, its job) | `Feedback`, votes, summaries | submit, vote, three `summarize` | two summaries at once, rows that come in between | no row counted twice, none marked unread |
| Tickets, outages, notifications, devices | single rows, readers, tokens | replies and statuses; start and end of an outage; marks, sends, deletion of tokens | a row that changed since it was read; two statements | see the properties below |
| Queues (`queue/queue.service.ts`) | Bull's repeatable jobs in Redis | bootstrap of every process | several processes start | one job per queue |
| Admin (`admin/*`) | rows of the others | `changeUserPlan`, `refundAndDeactivatePayg`, blocking, reports | as in the components it writes to | as there |
| Subscriptions, users, invoices, articles, model registry, topics, exchange rate, SMS, Redis, Prisma | single rows, files, short caches | CRUD and I/O | little | not modelled, see section 7 |

Interactions: a settled payment writes the subscription (plan cache must be
dropped), the wallet (pay-as-you-go) and discount codes (growth); a chat request
reads the plan cache, then message limits, budget and wallet gate, is routed to a
model, streams, and then writes messages, counters and the wallet; a first login
passes the campaign's gate and brings along what the browser said before it;
administrators write to all of them, and jobs clean up, flush, remind and report.

## 2. Modules

| Module | Models | State and how it corresponds to the code |
|---|---|---|
| `Settlement` | the promise of the payments service: opened, paid, settled once | no code of its own: the abstract specification that `Payments` implements |
| `ReadThrough` | the promise of a cache that readers fill and writers clear: what a key holds is true, or the key is late until it has been absent | no code of its own: the abstract specification that `PlanCache`, `Campaign` (its one key) and `Waitlist` (the limits) implement |
| `Payments` | payments.service.ts and what it calls | `order`, `status`, `invoice`, `subscription`, `balance`, ... are the rows; `pc`, `draft`, `target`, `first` are what each request has read; `gateway` and `callback` are the gateway's side; one action per await of `initiate`, `initiateWalletTopup`, `verify`, `completeWalletTopup` |
| `Gateways` | the three gateways and their registry | `payOrder` the orders as the gateway has them, the configured list and keys, `verification` the calls whose answer is on its way |
| `Wallet` | gate, debit, refund, top-up | `balance`, the sums of CREDIT and DEBIT rows, messages and refunds in progress; history `overtaken` |
| `PlanCache` | `getCachedPlan` and everyone who deletes its keys | `sub`, `version`, `zero`, `active` are rows of Subscription and Plan, `cache` is Redis, `reader` and `writer` are requests in progress; history `overtaken` |
| `ChatQuota` | the message limits of one user in `streamChat` | counters by day and hour, `stream` the requests in progress |
| `Usage` | token and cost counters, quota, budget, the flush job | `counter` and `expires` are the Redis keys, `row` the DailyUsage rows, `flush` the job; history `used`, what was really consumed |
| `Conversation` | messages, summary, cutoff and title of one conversation | rows by number in the order of createdAt; `exchange` the requests, with what each has read; a summary is the set of messages that went into it |
| `Images`, `ImageLimits` | drawing and editing pictures, the bucket, the cleanup job; the two limits | rows and objects share names; the chain of models is any of the orders that the code's sort may leave, models that are alike in either order |
| `ModelRouter` | `route` with heuristics, stickiness, budget steps, vision; its caches | a message is a record of what the heuristic looks at; rows of models and steps, cached copies, requests and administrators in progress |
| `LiveStats` | open streams and the daily peak | the sorted set with its scores, the peak key, streams in the middle of `bumpDailyPeak` |
| `Campaign` | the soft launch: active campaign, its key, the gate of a first login, administrators | `status`, `capacity`, `granted` are LaunchCampaign rows, `active` the key `campaign:active`, `signup` and `admin` requests in progress; histories say which logins were misled by a late key |
| `Waitlist` | those the campaign refused: limit, grants, activation, reminders | `standing` (`status`), `lastStep` (`lastReminderStepSent`) are WaitlistEntry rows in the order of `queue`, `limit` the key `waitlist:limit:<user>`, `chat`, `activation`, `granter` (an administrator and the places it works off), `job` what is in progress |
| `Sessions` | one-time codes, first login, refresh tokens of one phone number | `otp`, `rate`, `attempt` are the Redis keys, `user` and `token` rows, `request` the requests in progress |
| `AnonChat`, `AnonMigration`, `AnonFunnel` | the trial chat of an address; what a login copies; the reports on both | counters and events by browser; the log of `AnonFunnel` stands for all tables, with positions for createdAt |
| `GrowthGift` | offer, claim and redemption of the welcome gift | the user's codes with expiry and uses; `payments` the rows, opened with a code, verified, settled and undone in steps of their own; `claim` the requests; histories keep which payments were settled when a payment was opened or a code claimed |
| `LiaraKeys` | provisioning, its retry job and issues, snapshots of usage | the row's key, keys at the gateway, issues, the job's list |
| `AdminAlerts`, `Notifications` | alerts with their cooldown; marks of having read, devices, sends | counters by minute, cooldown keys; rows of tokens and sends in progress |
| `Schedules`, `ConfigCache` | repeatable jobs at bootstrap; a row cached in memory | jobs by queue and cron; copies with their time by process |
| `Sales`, `SalesKb` | chat, offer, leads, follow-up; entries and their vectors | `salesCall` the requests, the lead's row, the saved history; vectors are pairs of question and model; a write and the dropping of the cache are two steps |
| `UsageReports` | the reports of usage-analytics and of the lists of admin; how `Message` and `DailyUsage` come to hold costs | `diary` the rows of Message, Payment and snapshots and the calls of classifiers, in the order of createdAt; `counters` the keys `cost:daily:*`, filled by `trackCost` or not; `daily` the DailyUsage rows, which the flush job writes from the counters of its day; every report is an operator on them |
| `Tickets`, `Outages`, `Feedback`, `ConversationList` | the services of these names | rows, and requests with what they have read |
| `PaymentsProofs`, `CachesProofs`, `CampaignProofs`, `UsageProofs`, `ChatProofs`, `PlatformProofs`, `ReportsProofs` | proofs | extend the modules above, or the `MC` module that composes them |
| `SumProofs` | facts about sums over finite sets | used by the proofs above |
| `MCPayments`, `MCWallet` | instances for TLC | orders, prices, symmetry |
| `MCCaches`, `MCLimits`, `MCChat`, `MCPlatform` | instances of several modules for TLC | `part` says which of them runs |

Modules meet where the code's components do. `Payments` and `Wallet` share the
top-up: `Payments.SettleTopup` is the transaction with all its rows,
`Wallet.TopUp` the part of it a message or a refund can see. `PlanCache.Delete`
is what `Payments.Finish` leaves out. `Gateways` takes the gateway's answer apart
that is one step in `Payments`. `Campaign.Refuse` ends where `Waitlist.Wait`
begins, `Sessions.Gate` is one step that `Campaign` takes apart, and
`AnonMigration` starts with a login. `Usage.AssertBudget`, `ChatQuota.Admit` and
`ModelRouter`'s choice are checks of the same request, whose rows are those of
`Conversation` or, for a picture, of `Images`. The parts share no row but those,
which is why they are checked apart.

Conventions: a definition named `X_Y` beside a definition `X` is what `X` would
be with a plausible mistake in the code; each property is checked to fail with
one of them. History variables decide nothing: no guard reads them. Amounts are
small numbers; texts, codes, tokens and ids are left out or are model values.

## 3. Runs and bounds

Every run of PROJECT.json is `tlc -config X.cfg M`.

| Run | Instance | Why that is enough |
|---|---|---|
| `payments` | 2 users, 2 payments, 2 requests at a time, plans of two prices, one code with one use, top-ups below and above the activation minimum | every race is between two requests, on one payment or on two payments of one user; requests are unbounded in number, redirects are never consumed |
| `wallet` | 1 user, 3 messages, 2 refunds, amounts 1 and 3, cost up to 2, credit up to 3 | the overdraft needs two messages, the lost top-up one refund; a third message and a second refund overlap them |
| `caches`: `PlanCache` | 2 users, 2 plans, one reader, two writers, 2 writes | a fill is overtaken by one write; the second writer dies or repeats it |
| `caches`: `Sessions` | 5 requests, 2 at a time, one code per window, two attempts, 3 tokens | two verifications of one code, two refreshes of one token, a code sent in between, a window that ends |
| `limits`: `Usage` | 1 user, 2 requests at a time, 3 in all, limits of 1, days of 3 units, Iran 2 ahead, keys living 4 | the day, the difference in dates and the life of a key keep their order, `Day < DayTtl < Day + IranShift` (24 h < 25 h < 27.5 h); both midnights fall into requests and into the job |
| `limits`: `ChatQuota` | 2 requests of one user, 4 messages, days of 2 hours, 3 hours | midnight, the end of the trial and both window lengths fall into a request |
| `limits`: `AnonChat` | 2 requests, 4 messages, one free, one a day, 2 days | both zones, the block and the next day, with a second request at each |
| `campaign` | 2 users, 2 campaigns, 2 administrators, capacities 0 and 1, 3 requests of administrators | two create at once, or one closes while the other changes the capacity, with a login anywhere between |
| `waitlist` | 2 users, one of them chatting, 2 administrators, 2 grants, 2 passes of the job, 2 reminders | a list of two that two administrators grant at once; a reminder repeated after a crash, and the next one |
| `chat` | 2 exchanges with summaries, 5 messages, a rename; one image request at a time, 2 in all, 2 models; 2 requests at the image limits, 2 days; 2 streams; 2 routed messages, 2 models, plans with one, both, or a cheap model of their own, one update of the steps | a summary is written while the other exchange reads, writes or summarises; an object is deleted while an answer is saved; a step list is replaced while it is read |
| `platform` | two actors of each kind that can race, one where they cannot and one curator of the knowledge base; bounds by the number of requests (2 to 4), clock ticks (1 to 3) and rows (1 to 4). The gift: 2 claims, 2 payments, codes and grace of an hour, 1 hour. The reports: 2 users, 3 half days, a cost counted up to half a day late. The names of two calls are shared by the parts and exchanged in all of them (symmetry) | two requests at once, or one request and a failure, is what each of these parts can suffer; the clock passes each boundary the code compares with (cooldown, minute, grace, midnight, page). Two codes and two payments redeem the gift twice in every way there is; the third half day lies past a midnight, with a flush and a late count on both sides of it. Two curators who write different entries meet only in the cache that both drop; the proof is for any number |
| `purchase_forgotten`, `refund_race`, `trial_end`, `usage_rows` | instances with the behaviour | section 6 |

The runs `caches`, `limits`, `chat` and `platform` check several modules that share
no state. Their initial state chooses one part, and the others stay as they
begin. What a part can do does not depend on the others, and each property is
about the state of one part, so a behaviour of all parts violates a property only
if that part alone does.

`CHECK_DEADLOCK FALSE` stands where the instance ends: time, messages or
requests are bounded. `payments` and `caches` are checked for deadlock: payments
have no such end, plans may always change, and `Sessions` rests explicitly once
its requests are used up.

What the passing runs show. A property checked for a whole part is a conjunction of
named ones, each with a comment that says what breaks it and which overlap or
failure it excepts.

- **payments** `SettledOnce`: credit, redemption and invoice of a payment come
  together and once, through lost, repeated and reordered redirects and aborted
  requests. `InvoicedOnlyIfPaid`: a redirect alone buys nothing. `RowsAddUp`:
  counters equal the rows they sum up (`UsesAreRedemptions`, `BalanceIsInvoiced`),
  and there are never more rewards than settled subscriptions (`RewardsAreEarned`).
  `SmallTopupsFollowActivation`: the activation minimum cannot be evaded.
  `ImplementsSettlement`: every step is a step of `Settlement` or none.
- **wallet** `OverdraftBounded`: the wallet goes below zero by no more than the
  messages charged at the same time may cost. `LedgerIsSound` (`LedgerAddsUp`): balance equals
  credits less debits for users none of whose refunds was overtaken.
- **caches** `PlansAreSound` (`CoherentUnlessOvertaken`): a stale plan has one of
  four known reasons. `ImplementsReadThrough`: every step is one of `ReadThrough` or
  none, so none of these reasons is forgotten before the key has been absent.
  `EventuallyCoherent`: and a plan is not stale for good. `SignInsAreSound`:
  `GuessesBounded`, `OneLoginPerCode`, `OneTokenPerSession` and `GatePassed` each hold
  but for one named overtaking or crash, which the history variables `raced`,
  `forked`, `gate`, `halfway` record. `LockEnds`: a number is not locked out for
  good unless a process died between two commands.
- **limits** `OveruseBounded` (`BudgetBounded`, `DailyCapRespected`,
  `WindowCapRespected`, `AnonLimitsRespected`) and `FreeTokensBounded`: limits are
  exceeded by no more than the requests in progress. `CountersAreSound`
  (`CountersHoldTheirDay`): no limit is reset before its day ends.
  `RowsNeverExceedUse`: the job counts nothing twice. `RowsShrinkOnlyAfterExpiry`: the
  one way a total is lost. `VisitorsAreTold`: the banner and the funnel follow the
  counts (`FunnelKeepsUp`, `BannerIsHonest`).
- **campaign** `AdmittedWithinCapacity`: the conditional UPDATE holds the capacity
  whatever races. `OneCampaignForAll` (`OneActiveUnlessCrossed`,
  `KeyCurrentUnlessOvertaken`, `RefusedOnlyIfFullOrMisled`): users are sent to a
  wrong campaign only through a key that is late. `ImplementsReadThrough`: a key that
  is late stays so until it has been absent. `KeyEventuallyCurrent`: and that comes.
- **waitlist** `QueueIsFair`: nobody passes the queue without a phone number
  (`OldestFirst`), the limit is that of the entry (`LimitCurrentUnlessOvertaken`), no
  reminder is skipped and one repeated only after a crash (`RemindersInOrder`).
  `LimitsImplementReadThrough`: the limits are a read-through cache of the entries.
  `GrantedIsUnlimited`: a granted user is rid of the low limit, for good.
- **chat** `ConversationIsWhole`: no message is forgotten or told twice unless an
  answer's summary overtook it, pictures are sent with their message, and there is
  a title. `PicturesAreKept`: links, objects and answers stay together through
  uploads, deletions and saves that fail, and the best affordable model draws
  first. `ImageLimitsRespected`. `StatisticsAreTrue`: open streams, ghosts, peaks.
  `ChoicesAreSound`: which model may be chosen, whatever the caches hold.
- **platform** `MigrationLosesNothing`; `ReportsAddUp`: reports of one table agree in
  every window (`ReportsTellOneCost`), the costs of DailyUsage and of Message differ
  only by named causes (`TablesDifferByCause`), and the reports of the funnel agree;
  `UsersGetTheirDueOnce`: one good code of the welcome gift at a time (`OneGoodCode`), a
  second one redeemed only through payments that overlap (`GiftRedeemedOnce`), and the
  time of outages; `VerificationsAreTrue`: the gateways'
  answers; `KeysAreKept`: keys, issues and usage at Liara; `AdministratorsAreTold`:
  alerts, marks, devices; `ProcessesAgree`: schedules and cached configurations;
  `AssistantKeepsUp`: the sales assistant and its knowledge base; `UsersAreHeard`:
  tickets, feedback, and the pages of conversations.

## 4. Fairness

Safety is checked under `Spec` and liveness under `FairSpec`, which adds only what
the code does not have to do itself:

- Redis drops a key once its time to live is over: weak fairness of the expiry
  action of `PlanCache`, `Campaign`, `Waitlist` (`SET ... EX`) and `Sessions`
  (`EXPIRE`). A key without a time to live does not expire.
- In `Sessions`, a request that has sent INCR goes on to EXPIRE unless it dies:
  the next line of the code, with no condition in between.

No request, payer, administrator or job is assumed to finish: `EventuallyCoherent`
and the others hold although each of them may stop or die anywhere.

## 5. What is proved

The theorems hold for every value of the constants allowed by the named
assumptions of the modules (finite sets of requests, amounts in Nat, null values
that differ from the rest). Names are those of the proof modules.

**PaymentsProofs.** `TypeCorrect`, `EffectsExactlyOnce`, `NothingInvoicedUnpaid`
follow from one invariant, `IInv == TypeOK /\ RowsAndRequests /\ SettledOnce /\
InvoicedOnlyIfPaid`. `SettledOnce` alone is not inductive: a request in `settle`
must hold an existing payment that was paid, which is `RowsAndRequests`; the unique
index on the invoice then makes a second settlement a rollback. `ActivationFirst`
strengthens `IInv` by `SmallDraftsFollowActivation`: a request about to open a
small top-up has seen a large one settled, and invoices are never removed.
`Refinement` maps `paid` to the payments the gateway holds as paid and `settled` to
the invoices, and shows each action a step of `Settlement` or a stutter.

`LedgerAddsUp` states `RowsAddUp`: a wallet, a code's counter and the rewards are
sums over rows, and every action changes at most one summand.

**SumProofs.** The community modules define a sum by recursion over subsets with an
unspecified choice. The library's induction theorems take an operator and cannot be
used here, so `SumExists`, `SumUnique` and `SumOfRest` argue by the least
counterexample (the natural numbers are well founded). `TotalReplace`, `TotalSame`,
`TotalZero` and `TotalSubset` are what the proofs about counters cite. Those about
reports need that a sum is cut into parts: `TotalOfParts` (a sum is the sum over the
keys of the sums by key), and for the tables the reports are, `TableAddsUp`,
`TableCounts` and `TableGathers`.

**CachesProofs.** `StaleOnlyIfOvertaken` of `PlanCache` from `TypeOK`, `FillsUnderWay`
(what a reader holds is current, or the reader is overtaken), `WritersAtRest` and the
property itself. `SignInSound` of `Sessions` combines four theorems, each with an
invariant of its own: guesses in a window are the counter and the requests between
counting and comparing; a code that has logged in is marked used; whoever holds a
token passed the gate or is on record as not having; tokens that are live and
refreshes that are about to issue one add up to one for each session.

`PlansAreReadThrough`, with `ActiveCampaignIsReadThrough` and `LimitsAreReadThrough` of
CampaignProofs, shows an implementation of `ReadThrough`. What a query would find is
mapped to `truth`, the keys in Redis to `kept`, and to `late` the keys a writer has
still to delete and those at which a fill was overtaken or a writer died. Commits are
steps `Write` (`CommitIsAnnounced`: of every user whose limits change, the key is late
from then on), as are reads and deaths, which make no late key forgotten; fills are
`Fill`, by what the invariants say of readers under way; DEL, expiry and a scan that
finds no key are `Drop`. `ReadThroughIsCoherent` states what the promise is worth.

**CampaignProofs.** `CapacityHolds`: whoever has passed the conditional UPDATE is
counted. `CampaignsAgree` from `OneCampaignInv`: a second active campaign, a late key
and a refusal that was not deserved each have an administrator or a filling login on
record, from the step that makes it possible (`OneCreator`, `FillsAreCurrent`) to the
one that shows it (`ApplicantsAreRight`). `WaitlistIsFair` is about `Waitlist`: the order
of the queue survives because a list under way holds everybody who waits before one it
holds (`ListsSound`) and an activation is of somebody granted (`ActivatedWereGranted`);
the limit because a fill under way stores what fits or is on record as overtaken
(`FillsFresh`); the reminders because the job's list agrees with what is recorded
(`JobSound`), and what was sent is what is recorded and at most the next one
(`SentSound`).

**UsageProofs.** `RowInv == TypeOK /\ KeysHold /\ RowsNeverExceedUse /\ ScanSound /\
WriteSound`. `KeysHold` says that a key that exists holds all that was consumed at its
date and outlives that day, and that a key that does not exist belongs to a day
that is over or on which nothing was consumed: this needs `DayTtl > Day`, and that
a key is never first written before its day. `ScanSound` says that what the scans
have missed is zero in the row already, or its key is gone for good; `WriteSound`
that what the job is about to write is no more than was consumed, and no less than
the row shows unless the key is gone. `CountersCorrect`, `RowsCorrect` and
`RowsShrinkCorrectly` follow; `FreeTokensAreBounded` uses `FreeBound`, which counts
the requests of a user that are streaming on free tokens.

`OveruseIsBounded` and `VisitorsKnow` are about `LimitsSpec`, from
`LimitsInv == BudgetInv /\ QuotaInv /\ AnonInv`. `BudgetInv` sets against a day's cost
what its requests may still cost, a sum over those in progress: a request adds to the
sum only while the counter is below the limit. `QuotaInv` does the same with the
places a day and a window have left, whatever the trial and the plan make of the
limit between. `AnonInv` holds for each of the two kinds of answers to a visitor:
counted, still owed or lost (`KindsSound`), those let in with a free place fit below the
limit; and who was shown the limited zone or spoke has the event that says so,
unless it was lost (`FunnelSound`). The assumption `AnonStream # {}` says that somebody
can ask at all.

The wallet has its proofs here too, about `WalletSpec`: `OverdraftIsBounded` and
`LedgerIsKept` (with the types) from `WInv`. A debit is begun only with a
balance that covers it, so each message in progress accounts for its own cost;
`OwnersKnown` says whose that is.

**ChatProofs** is about `ChatSpec`, in which the parts of the chat run side by side:
a step of it is a step of one part or leaves the part alone (`RouterStep` and the like),
and the part is then argued about by itself.

- `ModelsAreChosenSoundly` from `RouterInv`: the updates of the steps come in order in
  row, cache and requests (`UpdatesInOrder`), and the candidates of a request are
  allowed, active and, where it has pictures, see them (`CandidatesQualify`).
- `PanelTellsTheTruth` from `LiveInv`: a poll has pruned before it counts
  (`PollIsPruned`), and a stream about to write the peak has seen a smaller one
  (`BumpsRaise`).
- `ImageOveruseIsBounded` from `LimitsInv`. The bound alone is not inductive: of the
  day, and of every window that is still open, the images drawn are in the counter,
  about to be counted, or lost (`Counted`), and with the requests that were let in they
  fit below the limit and the other requests (`Reserved`). A request is let in only if
  its counter, and with it what others are about to count, leaves a place free. A day
  or a window that begins is empty; one that is over does not change.
- `NothingIsForgotten` from `ConversationInv`: each summary, written, being written or
  read, covers the messages up to its cutoff but for those that crossed it (`Covers`);
  `Fits` carries this through a request's history and answer; `TitleIsDue` says who is
  to set the title of a conversation that has its first answer.
- `PicturesAreKeptAlways` from `ImagesInv`: a request has rows of its own that nobody has
  seen before it saves them (`RequestsSound`, `RequestsApart`, `Unasked`), so that a step
  of it touches no row that the cleanup job works on; what that job is about to clear has
  no object left but one that could not be deleted (`CleanupSound`); a chain keeps its
  order when the models that are too dear are left out (`ChainSound`).

**PlatformProofs** does the same for `PlatformSpec`: `GatewaysTellTheTruth` (`GatewaysInv`:
a yes on its way is for an order that was paid), `KeysKept` (`KeysInv`: the key of a
request that is between creating and recording it; `SyncsInv`: what a snapshot has
seen), `ProcessesAgreeAlways` (`SchedulesInv`: who is alone at the queue has removed
what the others left; `ConfigInv`: the age of every copy), `NothingIsLost`
(`MigrationInv`: what each login has copied so far), `DueIsGivenOnce` (`GiftInv`, below;
`OutagesInv`), `AdministratorsKnow`
(`AlertsInv`, `CallsInv`, `ReadingInv`, `DevicesInv`), `EverybodyIsHeard`
(`TicketsInv`, `FeedbackInv`, `ListInv`: what a page has shown is what stood before its
cursor, but for chats that moved) and `AssistantKeepsItsWord` (`SalesInv`, `KbInv`).

`GiftInv == GiftTypes /\ OnlyTheNewest /\ SettledOnce /\ OpenedAfter /\ AskedAfter`. Only the
newest code may be good, and a claim about to make one has found it is not, unless two
claims ran at once or a code was switched on again (`OnlyTheNewest`). A settled payment
has used up its code for good, so that no payment opened later starts with it
(`SettledOnce`, `OpenedAfter`); and a claim that goes on has found every payment settled
before it undone by a failure redirect, which nothing takes back (`AskedAfter`). So two
payments that redeem the gift were open together, or the later one has a code claimed
while the earlier was open or after it was undone.

`SalesInv` adds to the properties who is about to make them true or knows why not: a
visitor who was offered the discount carries the mark, and calls that had read the
lead before are marked as having missed it (`OffersMarked`); a save carries the answer
it was begun for (`SavesFollowAnswers`), and the last answer is saved, on its way or on
record as lost (`LastIsSaved`). `KbInv` says that an entry to be imported is not there
yet and is imported by one call, whoever is still to drop the cache (`CuratorsSound`), that what a recomputation has left to
do was there when it began and what it has done is of its model (`RecomputeSound`),
and that rows on their way to the cache are those of the database until an edit
overtakes them (`RetrieversSound`). `SalesKbAssumption` keeps the two values that stand
for no text apart from the questions.

**ReportsProofs** proves `ReportsAlwaysAddUp` from `ReportsInv == UsageInv /\ FunnelInv`
with `UsageInv == DiaryTypes /\ CountedOnce`. `CountedOnce` is what the two pipelines keep:
a cost is counted once, not under a date before its own, and a DailyUsage row holds
nothing that was not counted. `FunnelInv` says that a visitor's session begins once
(`BegunOnce`) and before all that is said of it (`BegunBefore`). From there on the proofs
are about sums. Days and weeks cut the rows of DailyUsage by a key, users and segments
those of Message (`DaysAddUp`, `WeeksAddUp`, `UsersAddUp`, `SegmentsAddUp`). Between the
tables, `CostsDiffer` takes away what both have, and `WindowExplained` finds a cause for
each cost that one of them misses, from the dates under which it was written and
counted; ranges and the periods of users are both such windows (`RangeExplained`,
`PeriodExplained`). A campaign's row counts the sessions that the campaign began, each of
which it counts once (`CampaignsAddUp`, `PathsAddUp`).

**Only model-checked.** TLAPS 1.4.5 has no rule for liveness under fairness that works
without ENABLED, so `EventuallyCoherent`, `LockEnds`, `KeyEventuallyCurrent` and
`GrantedIsUnlimited` stay with TLC.

## 6. Where code and comments disagree

Four runs end in the violation of what a comment says:

- `purchase_forgotten`: a failure redirect that arrives after the settlement turns
  the row FAILED; the user has an invoice, and the welcome gift, which asks for
  COMPLETED rows, is offered again.
- `refund_race`: `refundWallet` writes zero and books what it read before; a top-up
  or a charge in between is wiped out and appears in no ledger row.
- `trial_end`: two messages that read the same message count pass the threshold
  together, and neither records the end of the trial.
- `usage_rows`: the flush writes zero over a day's tokens when their key, first
  written after midnight in Iran, expires before midnight in UTC.

The models show more, which the passing properties carry as their exceptions:

- two first payments of a referred friend verified at once issue the reward twice
  (`RewardsAreEarned` bounds it); a second top-up verified with the first switches
  the plan again;
- of two subscriptions opened early, the cheaper one settled last replaces the
  dearer, though only dearer plans can be bought (payments.service.ts:43);
- two messages answered at once take a wallet below zero (chat.service.ts:426 says
  never; `OverdraftBounded` says by how much); a user who is not on pay-as-you-go
  and has any wallet balance is exempt from the daily budget and is not debited;
- a fill that read the old plan stores it after the DEL (admin.service.ts:526 says
  the next request fetches the new plan); a plan whose price becomes or ceases to
  be zero is invalidated for the wrong set of users (`CoherentUnlessOvertaken`);
- a user may wait for a campaign that has been closed, or be let in past an active
  one, for a minute (`RefusedOnlyIfFullOrMisled`); campaigns created at once, or
  reopened, are both active; a grant may turn ACTIVATED back into GRANTED, and the
  reminders go on where they were;
- a code compared twice before its deletion logs in twice; a token refreshed twice
  at once splits its session in two, and a refresh may survive a logout
  (`OneTokenPerSession`); a first login overtaken by a second one is in before
  the campaign's gate; a restart between INCR and EXPIRE locks a number out for
  good (`LockEnds`).

The modules of the chat and of the platform show these:

- the same message is in the summary of one answer and skipped by another when two
  requests answer at once (`SummaryCoversUnlessCrossed`); a conversation whose first
  message failed or asked for an image stays without a title until a summary names
  it; an image's answer, which has no text, becomes an empty row when the cleanup
  job has removed its picture; a conversation is opened with its oldest fifty
  messages, and a visitor's prompt takes the oldest forty rows;
- a message with pictures goes to a model without vision when the plan has none
  that sees (chat.service.ts:388 says the router has made sure of one;
  `PicturesAreSeen`); the routing log does not show an override of a plan without
  steps;
- the daily peak may be lowered by two streams that start together, and counts
  streams of a dead process until a poll prunes them: streams that start or end do not;
- anon-migration.service.ts calls itself idempotent: it is for one login after
  another, two at the same time copy everything twice (`CopiedOnce`); the reports
  count migrated messages twice in the quality of conversions, and a campaign's
  revenue once for every browser of a user; an event may follow the signup it is
  said to precede always;
- usage of a user's key between the last synchronisation and midnight UTC is never
  fetched; the welcome gift can be claimed after the gift was switched off, since
  `claimGift` does not look at `gift.isActive`;
- `findValidCode` guards the opening of a payment, `recordRedemption` asks nothing at its
  settlement: two payments opened with one code both redeem it, and a second code,
  claimed after the first expired and before its payment was settled, is redeemed as
  well; a failure redirect makes a payer eligible for another gift (`GiftRedeemedOnce`);
- the cost of the overview is of DailyUsage, those of its models, users and segments are of
  Message, and `getUsers` of the back office shows a cost by the one table and its texts
  and images by the other. DailyUsage also holds what classifiers cost (chat.service.ts:771)
  and costs counted after midnight under the next date; it lacks what `trackCost` failed
  to count, and what it counted after the last flush of a UTC day, since the job looks at
  the current day only (`TablesDifferByCause`);
- any failure of a send, not only an invalid token as the comment says, deletes
  the device's row; a device keeps the first user that logged in on it;
- a report's default range begins at the time of day it is asked for, so that the
  first day's rows by day are not in it; a day's requests leave images out and its
  cost does not; tables by user and by day drop the revenue of users and of days
  without usage (`RevenueLeftOutIsOfTheSilent`); `matchSegment` does not look at
  `isActive`; a month with cost and no revenue is called safe
  (`AlertFollowsTheMargin`);
- network-outage.service.ts:6 promises the outage's length exactly; two requests
  that end it at once, or a failure between its statements, give it twice
  (`OutagesMadeUp`);
- a vote changed after it was checked is never read again, and one changed while the model
  writes is marked as read with what it said before, which `CheckedWereHeard` does not see:
  it is about rows, not about what they say; a user's reply lands on
  a ticket closed in the meantime, and never reopens one;
- a conversation at the cursor that moves or is archived between two pages
  misleads the next page (`EveryChatListedOnce`);
- an answer of the gateway other than 2xx marks a paid payment FAILED, and a
  restart that drops a gateway's key denies payments that are open at it
  (`RepeatsAreNotDenied`).

## 7. Plan, and what is not modelled

Order of work, the most important behaviour first:

1. money and limits: `Payments`, `Wallet`, `PlanCache`, `ChatQuota`, `Usage`: done,
   with proofs of all safety properties, and the refinement of `Settlement`;
2. access: `Sessions`, `Campaign`, `Waitlist`: done;
3. the chat: `Conversation`, `Images`, `ImageLimits`, `ModelRouter`, `LiveStats`: done;
4. visitors, keys and growth: `AnonChat`, `AnonMigration`, `AnonFunnel`, `LiaraKeys`,
   `GrowthGift`, `Gateways`: done;
5. the back office: `AdminAlerts`, `Notifications`, `Schedules`, `ConfigCache`, `Sales`,
   `SalesKb`, `UsageReports`, `Tickets`, `Outages`, `Feedback`, `ConversationList`: done;
6. proofs: every safety property that a run checks, and the refinements of
   `ReadThrough`.

`ModelRouter` and `ConfigCache` are not mapped to `ReadThrough`. The router's two keys
are filled and deleted like the plan's, but its model keeps one flag for all time of an
older fill having overtaken an update (`overtook`), not the keys that are late. The
copies of `ConfigCache` lie in the memory of each process: an update renews that of its
own process only, the others wait, and the promise is one of age.

Not modelled, and why. Subscriptions, users, articles, invoices (PDF): single-row
reads and writes without interplay. The model registry, topics and the exchange
rate: values cached for minutes, the hazard of `PlanCache` and `ConfigCache` again.
Of the sales assistant its usage rows, click counts and lists of leads; of the
knowledge base its list, its test page and the ranking of what it finds; of the
analytics the charts by topic and by hour, and the overview's tokens and number of
messages, which `Usage` follows; of the gateway's key the HTTP interface.
SMS, Redis and Prisma clients, seeds and configuration: I/O, modelled by their
effects where they are used. Prices per model, exchange rate, markup, prompts and
SSE: data that nothing checked here branches on.

Simplified. In `UsageReports` a payment is settled in the half day it was opened and
the diary holds those that are COMPLETED, a flush is one step for a user (`Usage`
takes it apart), and all messages of a visitor migrate at once (`AnonMigration` takes
that apart). In `Tickets`, `decided` remembers the last decision on the status, so
`LastDecisionStands` says little more than that an update which says nothing of the
status leaves it as others have set it in the meantime.
