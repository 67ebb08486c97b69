# Formal model of the vibemeet backend

The vibemeet backend sells coins to callers and spends them on video calls with
creators, on chat messages and on memberships. A running call is billed every
second in Redis; when it ends, one MongoDB transaction moves the whole-coin
amounts between the caller, the creator, the creator's agency and the agency's
business developer (BD). Around this core there are handlers for purchases,
payouts, rewards, presence, media and moments: mostly chains of awaits over
MongoDB and Redis without a transaction, on several instances at once.

This directory holds TLA+ models of the money core, with proofs, and of the
components around it. All source paths below are relative to the repository root
(`src/modules/...`, `docs/...`); PROJECT.json has the line ranges of every
definition.

## 1. Inventory

| Component | State it keeps | Operations | What is hard | Module |
|---|---|---|---|---|
| Coin arithmetic (`billing/billing.constants.ts`, `billing/staff-revenue-share.ts`) | none | micros to whole coins, staff cuts | rounding on both sides, floor at zero | `Money` |
| Settlement transaction (`billing/billing-settlement.service.ts`) | balances, CoinTransaction, StaffWalletLedger and CallHistory rows | `settleCall` | write conflicts, unknown commit result, swallowed errors | `Settlement` |
| Settlement orchestration (`billing/billing-session-finalization.service.ts`, `call-session.service.ts`, watchdog, reconciliation, lifecycle machine) | Redis guards, retry queue, dead letter; durable session | `finalizeCallSession`, retries, recovery | crash between any two awaits, expiring locks, takeover of slow owners | `Finalization` |
| Billing start (`billing/billing.service.ts`) | start, pair and slot keys, session | `startBillingSession`, `call:ended` | overlapping starts, an end that overtakes its start | `BillingStart` |
| Billing tick (`billing/billing.service.ts`, `billing.queue.ts`, `billing-heal.service.ts`, `billing-recovery.ts`) | session, wallet key, job chain | tick, flush, heal, rebuild | duplicate jobs, lost jobs, ticks that outlive their lock, write-back of a stale copy | `BillingTick` |
| Forced end (`billing/billing-termination.*.ts`) | lease, marker, job | `forceTerminateCall`, retry job | lease, job and settlement claim cross | `Termination` |
| Outbox, call history, distributed lock (`events/`, `billing/call-history-projector.service.ts`, `src/utils/distributed-lock.ts`) | domain events with claims, history rows | dispatch, projection | crashed claims, late events, heartbeat of a lost lock | `Outbox` |
| Video calls (`video/`) | Call status, active-call slot, pre-call snapshot | webhooks, end, reconciliation | webhooks lost, late and overlapping; two calls and one slot | `CallLifecycle` |
| Presence (`availability/`) | sockets, registry, lease, grace, base availability | connect, disconnect, sweep | read, await, write; sockets that go before anybody listens; crash of an instance | `Presence` |
| Purchases (`payment/`) | orders, rows, webhook events | order, verify, webhook, retry, sweep | duplicated and reordered webhooks | `Payments` |
| Memberships (`vip/`, `moments-premium/`) | membership, row, cached entitlement | purchase, grant, lazy expiry | stale expiry over a renewal, the cache beside the clock | `Membership`, `Premium` |
| Payouts (`creator/withdrawal-*.ts`, staff wallets) | withdrawal, balance, ledger | request, approve, pay, reconcile | several writes without a transaction, saved over by whoever else sets the balance | `Withdrawal` |
| Wallet and ledger (`admin/`, `creator/`, `billing/billing-reconciliation.ts`) | cached balance, ledger | adjust, refund, reward, repair | stale `$set` over `$inc`, rows without coins | `Wallet` |
| Referrals (`user/referral.service.ts`, `creator-referral/`) | three copies of a link, edge stages | apply, reward | compensation racing a purchase | `Referral`, `CreatorReferral` |
| Rewards (`telegram-reward/`, `consumer-rewards/`, `checkin/`) | bindings, buckets, claims | verify, count, claim, remind | midnight between deed and date, failing hooks, two accounts | `Telegram`, `Rewards`, `Checkin` |
| Creator catalogue (`creator/`) | profiles and five cached copies | edit, list, rank | reader filling a cache after its invalidation | `Catalog` |
| Media (`images/`, `stream/`) | upload sessions, gallery, bytes | upload, commit, moderate, sweep | sweep racing a commit | `Images`, `StreamUpload` |
| Moments (`moments/`) | rows, counters, feeds, free list | post, like, comment, fan out, preview | counters beside rows, pages after a bust | `Engagement`, `MomentsFeed`, `FreePreview` |
| VIP queue and scheduled calls (`vip/`) | sorted set and entries, scheduled calls | join, pop, confirm, announce | concurrent pops, stale saves | `VipQueue`, `VipSchedule` |
| Chat (`chat/`) | quota, idempotency keys, header cache | pre-send, webhook, quota | retries under one key, period change | `Chat` |
| Accounts (`auth/`, `user/`) | user, deleted identities, onboarding stage | login, delete, report a screen | overlapping first logins, late reports | `Account`, `Onboarding` |
| Support (`support/`) | tickets, daily counter, attachments | create, reply, assign | slots given back, sessions consumed first | `Support` |
| Portals, stories, legacy payments, fraud, analytics, metrics, audit, configuration | documents | lists, reports, CRUD | little state of their own | none |

Everything that spends or pays coins for a call passes through the settlement.
The finalizer is called by sockets, REST handlers, the video webhook, the
billing tick, the forced end, the watchdog, the reconciliation and the retry
queue, on any instance; it claims the call, calls `settleCall`, marks the records
and cleans Redis up. A call begins in `CallLifecycle` (webhooks), is started and
metered by `BillingStart` and `BillingTick`, ended by either side, by a tick or by
`Termination`, finalized by `Finalization`, settled by `Settlement`, and its
history is projected by `Outbox`. Purchases, memberships, rewards and payouts
meet the calls only in the user's balance: `Deposit` in `Settlement` stands for
every other credit, and `Wallet` studies the balance itself.

What makes the parts correct:

* settlement: the caller pays the price of the call once, or empties the wallet;
  the creator and the staff get exactly what the ledger rows say; nothing moves
  outside the step that settles; success is reported only for a settled call;
* orchestration: no record says *settled* before money moved; a settled call
  stays settled; two executions overlap only if the lock was lost; every ended
  call is paid or put into the dead letter;
* money elsewhere: nothing is credited, booked, debited, extended or rewarded
  twice or without its cause, and what is owed arrives;
* calls and content: nobody is charged for more time than passed; a creator in
  the call that holds the slot is not callable; caches and counters follow the
  documents; whatever waits is served.

PROJECT.json lists the hazards, line by line, and the properties that answer
them.

## 2. Plan

Done: the money core with its abstract account, refinement and proofs; the
orchestration; every component of the table that has a module.

Done as well: the proofs of `Finalization` and of every component of run
`money`, each for all values of its constants.

Left, in this order:

1. Proofs for components of run `product`, the exactly-once ones first: `Outbox`
   (`EventsAreProjected`), `VipSchedule`, `Termination`, `Engagement`, then the
   billing tick. Their modules use no recursion, so that the provers can be used.
2. Components still without a module: the transfer of creators between agencies
   (`admin/creator-transfer.service.ts`), the replay of dead-lettered writes
   (`processDLQ` in `billing/billing-reconciliation.ts`), the Redis circuit
   breaker, stories.

## 3. The modules

| Module | Models |
|---|---|
| `Money` | the rounding and the cuts |
| `Settlement` | `settleCall`, with the transaction semantics it relies on |
| `CallAccount` | what a settlement promises: the abstract specification |
| `SettlementRefinement` | the refinement mapping and the inductive invariant |
| `SettlementProofs` | the theorems about the settlement |
| `Finalization` | `finalizeCallSession`, retry queue, dead letter, recovery, watchdog, reconciliation |
| `BillingStart`, `BillingTick`, `Termination` | the running call: start, ticks and flush, forced end |
| `CallLifecycle`, `Presence` | the call as Stream's webhooks see it; whether a creator is shown online |
| `Outbox` | cluster lock, claims, dispatch and the history projection |
| `Payments`, `Membership`, `Premium` | purchases of coins, VIP and Moments Premium |
| `Withdrawal`, `Wallet` | payouts; the cached balance beside its ledger |
| `Referral`, `CreatorReferral`, `Telegram`, `Rewards`, `Checkin` | what pays coins for something done |
| `Catalog`, `Images`, `StreamUpload` | profiles and their caches, image and video uploads |
| `Engagement`, `MomentsFeed`, `FreePreview` | moments |
| `VipQueue`, `VipSchedule` | who is rung next, and when |
| `Chat`, `Account`, `Onboarding`, `Support` | the user's side |
| `FinalizationProofs` | the theorems about the orchestration |
| `PaymentsProofs` | the theorems about `Payments`, `Membership` and `Premium` |
| `EarningsProofs` | the theorems about `Withdrawal`, `Wallet`, `Referral` and `CreatorReferral` |
| `RewardsProofs` | the theorems about `Telegram`, `Rewards` and `Checkin` |
| `MoneyProofs`, `MoneyRewardsProofs` | from those theorems to the properties of run `money` |
| `Scenarios` | checks several components side by side |
| `MCSettlement`, `MCFinalization`, `MCMoney`, `MCProduct`, `MCLiveness` | small instances |

Operators whose comment starts with *Mutant* are deliberately wrong variants of
the definition that follows them. They are not part of any specification;
PROJECT.json names the property that each of them breaks.

### Conventions of the component modules

* A handler is a chain of awaits. What it is doing is a record (`req`, `job`,
  `exec`, `work`, ...) with a step `at` and what it has read; each action is
  the code between two awaits that touch shared state, so that other handlers,
  expiries, crashes and failing writes come in between. A MongoDB transaction is
  one action; a `save()` writes the fields the handler changed.
* Keys with a TTL disappear by an action of their own, or by a small clock where
  an order of durations matters (`StreamUpload`, `Premium`, `FreePreview`,
  `BillingTick`).
* Where the code keeps a property only as long as handlers do not overlap, a
  constant (`Overlap`, `Serial`, `SweepAlone`, `Atomic`, `Settled`, `Spanning`) says
  whether they do. The property is then checked where they take turns and a weaker
  one where they overlap; section 6 says what is lost. `Slow` (`BillingTick`,
  `CallLifecycle`) says whether handlers outlive the TTL of their lock.
* Where a property holds but for one thing the code does, a history variable
  remembers that this happened (`restored`, `excess`, `late`, `past`, `clobbered`)
  and the property names it, so that it still says something of everything else.
* Bounds are constants named in the module (`MaxFaults`, `MaxOperations`,
  `LastDay`, ...), and appear only in guards.
* History variables (`credits`, `extended`, `used`, `counted`, ...) record what
  happened for the properties; no guard reads them except as a bound.

### Settlement

`Settlers` are concurrent executions of `settleCall` for one call. The database
is a function `db` from the documents that matter to numbers. A transaction has
a snapshot (`view`, taken by the first read), the documents it wrote (`wrote`,
which it holds until it ends) and the documents others have committed since its
snapshot (`stale`). A write on a stale or a held document is a conflict: the
write is not enabled, and the error step (`TransientError`, or
`CreatorBlockAborted` inside the creator block) is. This is MongoDB's snapshot
isolation as the code uses it; the driver itself is external.

One action per write stage of the code, in its order: `Enter` /
`IdempotentExit` (totals and the already-settled check), `StartTxn`,
`DebitUser`, `ConsumeIntroPromo`, `CreditCreator` / `SkipCreator`,
`SplitStaffRevenue`, `UpsertCallHistory`, `Commit`. The error paths are actions
of their own:

* `TransientError` and `CommitUnknown` go through `RetryOrThrow`, the attempt
  loop; `CommitUnknown` looks for the settled row first;
* `CreatorBlockAborted`, `DoomedStatementFails` and `CommissionLookupThrows` are
  the `try/catch` around the creator credit, which swallows its error. If the
  server has aborted the transaction the next statement fails; if the failure
  came from outside the session the transaction goes on;
* `Throw` is any other error, and the death of the process.

`earn` (`totalEarnedCreator`) survives a retry, as in the code, where it is
declared outside the loop. `Deposit` is any other credit of the wallet;
`DeleteCreator` removes the creator and rewrites the creator's user document.

Balances and rows are whole coins, totals are micros with `CoinMicros` micros to
the coin. Names, descriptions, durations, events, metrics and notifications are
left out. Two cases of the code are folded: the creator document and the
creator's user are one flag, and an agency without commission is no agency.

### CallAccount and the refinement

`CallAccount` has no executions, locks or retries. `Settle` charges the price
and settles in one step; `CompleteCredit` adds a credit that was left out, once.
The second is needed because of a behaviour of the code: an execution that
swallowed an error settles without credit, and another one, already past the
check, may then add the credit. `SettlementRefinement` maps the balances to the
documents and *settled* to the caller's history row; it holds when the
executions read the same totals.

### Finalization

`redis` is a record of the call's keys, `mongo` of its documents. A key holds
the token of the worker that set it, `Nobody`, or `Ghost` (the token of a dead
process). `pc` names the await an execution stands at, so that other executions,
expiry and crashes come in between. The transaction is the single stage `txn`.

Executions start from the end of the call (`CallEnds`), the queue
(`ConsumeRetry`, which removes the entry before running it), `Reconcile` and
`WatchdogPass`. Then follow the guards (`DeadLetterGuard`, `TakeInflight`,
`CheckSettled`, `TakeClaim`, `TakeLock`), the durable claim (`ClaimDurable`,
`TakeOver`, `DurableClaimLost`), the lifecycle checkpoint, the
settlement, the marks (`MarkCallSettled`, `MarkDurableSettled`), the cleanup and
the `finally` block, which compares tokens for the lock and the inflight key and
does not for the claim. `drainSettlementArtifacts` deletes keys whoever holds
them. `Heartbeat` is the `SET XX` that can overwrite a successor's lock.

Line 1473 of `billing-session-finalization.service.ts` returns the promise of
`handleDurableClaimLost` inside the `try` without awaiting it, so the `finally`
block releases the keys while that function still polls, retries or
dead-letters. `FinallyFirst` is that block; `LostToSettled`, `LostTimesOut`,
`LostRace` and `LostToFailure` are what the function does, and they run after it
(stages `lostFree`, `blockedFree`) as well as before it where its
first await allows. The loser then goes on beside whichever execution takes the
keys next.

Modelled configuration: unified finalizer, durable call sessions, settlement
from the checkpoint, watchdog auto-finalize, automatic recovery. Time is
abstract: `GrowStale`, `ExpireGhost`, `ExpireFlag` and `Lapse` are the thresholds
and TTLs passing. `mongo.paid` is the settled history row (its `settledAt`,
which no later writer clears). The history status itself, the recovery
snapshots, the legacy path without durable sessions and the age limit of a retry
as a number are left out; the age limit is a nondeterministic choice for an
execution that came from the queue, the only one that can be too old.

### Where the components keep what makes the code hard

* `BillingStart`: a start whose lock ran out goes on (`late`, with every start it
  overlaps) and may seed a session that another start already bills.
* `BillingTick`: with `Slow` the cycle lock (3.5 s) expires under a tick, whose
  `MULTI` is then written without a look at the lock; `Heartbeat` sets the key
  with `XX`, whosever it is by then. Session and balance are two reads
  (`ReadSession`, `ReadBalance`).
* `CallLifecycle`: calls `Calls` of one creator share the slot; `at` and `mem` say
  where each handler of each call is and what it has read. Four small instances
  divide the state space: `Call` (two handlers of one call at once), `CallSlow`
  (two ends that outlive the finalizer's lock of 45 s, which the slow one deletes
  unconditionally), `CallTwo` (two calls, the second takes the slot of the first)
  and `CallTurns` (all handlers, one after the other). `past` remembers who took
  the slot last and whose lock expired.
* `Presence`: a connection is a chain of steps (`role`, `restore`, `listen`, `on`),
  since the disconnect listener is attached after the awaits. `Drop` loses a
  socket before that: it stays in the registry and among the tracked sockets.
  `Stall` is a live holder of the lease that misses it, `CleanupTracking` the
  periodic clean-up.
* `Withdrawal`: besides the `$inc` of a settlement (`Credit`), five handlers set
  the balance from a read (`ReadCoins`, `MoveRow`, `SaveCoins`) and two repairs
  from a sum of rows (`ReadRows`, `FixBalance`); `restored` holds once one of
  them has written what it read before a payout.
* `Wallet`: `RegrantMoment` debits a refunded purchase again; `ForceRegrant` of a
  purchase that was not refunded writes the row and takes no coins
  (`CommitForced`). `excess` is what the cache is above the ledger by that and by
  clawbacks that stopped at 0, until a repair.
* `Membership` and `Premium`: a cache key lives at least `Floor` (60 s), whatever
  is left of the membership.
* `Rewards`: a hook reads the date (`ReadDate`) after the deed it is about
  (`See`); `late` holds the deeds of hooks that waited over midnight for that.
* `Chat`: edits of a profile clear the header's caches (`SaveProfile`), promotions,
  deletions and logins do not (`ChangeQuietly`), and the TTL does
  (`HeaderExpires`).
* `FreePreview`: the clock runs in halves of a second (`Second`), a reader filters
  by one reading of it and computes the TTL, rounded up to seconds, by another.
* `Images` and `Support`: a session whose time is over may still be there when a
  commit consumes it (`late`, `orphan.late`), and the sweep that has listed it
  deletes its bytes.
* `VipQueue`: joins, leaves, pops and sweeps are two steps each and overlap;
  with `SweepAlone` the sweep waits until the others are done.

### Scenarios: several components in one run

`MCMoney`, `MCProduct` and `MCLiveness` check the components side by side. The
components share a pool of variables (`v1` to `v15`), a constant-valued variable
`scenario` says which instance a behaviour is about, and every instance is an
`INSTANCE ... WITH` of its component's module that gives it variables of the pool
and its own small constants. The states are the union of the states of the
instances, not their product; one run asks a question (is anything paid twice?)
of every component it concerns. An instance called `...Turns` or `...Day` is the
one in which handlers take turns; `...Fails`, `...Sweep`, `...Lapse` add
what their names say.

A property of such a run is a conjunction: per instance, the property of that
name in the component's module. Its comment says what they state together.

## 4. Runs

| Run | Instance | Shows |
|---|---|---|
| `settlement` | 3 executions, 3 attempts, 2 deposits, promo, BD and agency; 277 thousand states | type, ledger, charge, promo, success and staff properties, the inductive invariant and `ImplementsAccount` |
| `settlement_stale_totals` | 2 executions, two different totals, a wallet that covers both | no double charge when one reader missed the last tick |
| `settlement_uncredited` | as `settlement` | **violated**: an existing creator is not credited |
| `settlement_history_credit` | as `settlement` | **violated**: history shows 0 earned next to a credit |
| `finalization` | 2 workers, all leftovers, one key lapsing; 3.5 million states | truthful records, stable settlement, overlap only after a breach |
| `finalization_crash` | 2 workers, one crash; 4.5 million states | the same records with a crash at any step |
| `finalization_liveness` | 1 worker, 2 retries, one crash, fairness | every ended call is paid or dead-lettered |
| `finalization_overlap` | 2 workers, no faults | **violated**: two executions in the transaction |
| `finalization_repair` | 1 worker, one crash, fairness | **violated**: a paid call is never marked settled |
| `money` | 18 instances of 10 components; 1.3 million states | `PurchasesBookedOnce`, `MembershipMatchesRow`, `PaidLeftTheWallet`, `WalletFollowsLedger`, `ReferralsPaidOnce`, `RewardsPaidOnce`, `RewardStateKept` |
| `product` | 39 instances of 18 components; 2.0 million states | `BillingIsExact`, `BillingNeverTurnsBack`, `CallabilityIsTrue`, `CatalogAgrees`, `MomentsAreTrue`, `MediaAreWhole`, `EventsAreProjected`, `PlacesAreKept`, `StepsAreJustified` |
| `liveness` | 16 instances of 15 components; 105 thousand states | `MoneyArrives`, `CallsEnd`, `NobodyWaitsForever`, `DriftIsRepaired` |

Deadlock is checked in the runs of the settlement and the finalizer. In the three
others a component may stop: when its bounded clock, requests and faults are used
up there is nothing left to do.

What the properties of `money` and `product` say of each component:

| Component | Holds however handlers overlap, fail or die | Holds when they take turns |
|---|---|---|
| `Payments` | the credits of a pack are the completed row (and each reset by a wrong signature), the bonus comes once and with it, nothing is acknowledged before the coins are there | |
| `Membership` | extended exactly when the row is completed, while no verification has failed the row; the cache answers less than a minute past the membership, up to two extensions by one order | |
| `Premium` | an order counts once, two orders lose no paid time, the key outlives the membership by less than a minute (unless a stale normalization writes over a renewal) | |
| `Withdrawal` | what is marked paid was debited, and its coins do not all come back, unless a balance or a sum read before the payout is saved after it | |
| `Wallet` | one weekly claim, one upload reward, one clawback of it | cached coins are the ledger, or above it by exactly what clamped clawbacks and forced grants left |
| `Referral` | a referrer is paid once, by purchase or by call | (rewards after the link) paid is booked, the three records agree |
| `CreatorReferral` | field, row and credit of a stage come together and only for what happened | |
| `Telegram` | one reward per account and user, a binding stays, no payment without membership | |
| `Rewards`, `Checkin` | no mission or day pays twice or unearned (a deed counts for its day, or for the next if its hook waited over midnight); days follow the cycle | (no work over midnight) progress and claims are not lost |
| `BillingStart` | a billed session is seeded again only by a start that lost its lock, or overlaps one that did | nobody has two billed calls, whatever a crash left |
| `BillingTick` | never more than time or coins, also by ticks that outlive their lock; without the watchdog conserved between the two keys, and totals fall only by such a tick | (no other job) the flush charges all time to the end, but for the delta of the tick that reaches the limit |
| `CallLifecycle` | one finalizer unless the lock expired, done means settled; a creator in the billed call that took the slot last is not callable | ended is terminal |
| `Termination` | one caller of Stream, a true marker, one finalization per claim, retries queued while there is a reason | |
| `Presence` | one heartbeat per creator | offline sticks; (one instance, no registry, no socket lost before its listener) the grace timer sets offline |
| `Outbox` | processed means run to the end; settled rows stay settled | |
| `Catalog` | the role follows the profile | cached copies agree |
| `Images`, `StreamUpload` | the gallery limit, no shown image loses its bytes (unless its session was out of time), an upload is used once, posted is encoded | a video is posted once |
| `Engagement` | likes and views are their rows while never reset; comments never below zero | comments and score are exact |
| `MomentsFeed` | a page shows a hidden moment only if it was out of date when stored | pages are current |
| `FreePreview` | the version counts every change | the cache follows the schedule but for a second, and for what starts or ends between its two clocks; no order over unseen changes |
| `VipQueue`, `VipSchedule` | an entry is rung once; who waits has a place (while no sweep overlaps); one announcement | cancelled stays |
| `Chat` | a message is counted once per life of its key, charged is booked, free messages within the limit | the count is exact, the header shows every edit that clears it |
| `Onboarding` | stages only move forward, timestamps tell the stage, accepted is not turned into skipped | |
| `Account` | the audience is true | one free call per person, codes stay, one administrator |
| `Support` | tickets within the daily limit (but for slots of yesterday given back), all images of a ticket and no other's, with their bytes (unless a session was out of time); a reply survives an assignment | |

### Bounds

* Three settlers allow a conflict between two while a third has already
  settled; the theorems cover any number. `MaxAttempts = 3` is the code's value.
  The wallet (2 coins) is smaller than the price (3), and deposits (2) can lift
  it above, so that the floor and the full debit both happen; amounts are tenths
  of a coin so that both roundings bite.
* `MaxRetry` is 1 or 2 where the code has 8, and `WatchdogCap` 1 where it has 6.
  Nothing depends on the number of attempts except whether one is left: below
  the cap, at the cap and beyond it all occur.
* Two workers are the smallest set with a race; a third adds one more loser of
  the same keys. One lapse or one crash is enough to hand a key to the other
  worker, and the drains of dead letter and recovery (unbounded) do so as well.
* In the component instances two (sometimes three) handlers overlap. Every race
  found in these components is one handler's read, another's write and the
  first's write; a third handler matters where a later look-up has to see the
  outcome (`BillingStart`, `Referral`, `CreatorReferral`, tickets) and is there.
  Clocks are as long as the longest order of durations that matters: past the
  end of a membership plus the grace of its key, past the cutoff and the TTL of
  a session, two days for what resets at midnight, one cycle and a day for the
  check-in, past the limit of a call. Counters have room for one success beyond
  the limit they guard. Each property has mutants (PROJECT.json) that the same
  instance catches, which is the evidence that the bounded case is reached.
* The liveness run of the finalizer has one execution at a time, since the
  liveness graph of two is too large; restarts by the queue, the reconciliation
  and the watchdog still follow each other in any order. It starts with a
  checkpoint: a call without session and without checkpoint can only end in the
  dead letter through the retry cap, which sources that start at attempt 0 may
  reset for ever.

Symmetry is used in safety runs only: of settlers and workers, and in `money` and
`product` of the two requests `p1`, `p2` and of the two data `d1`, `d2`. An instance
that uses only one of a pair, or both in different roles, has no two reachable
states that differ by the permutation, because the domains of its functions tell
them apart.

### Fairness

Finalization: weak fairness of `Execute` says that a live process runs its event
loop; of `ConsumeRetry`, `ConsumeWithoutPayload` and `Reconcile`, that the timers of
a restarted process fire; of `ExpireGhost` and `GrowStale`, that time passes.
Strong fairness of `CheckSettled`, `CheckpointSettling`, `Recheck`,
`SettleReads` and `SettlePersists` says that a fault which could hit each of
these awaits does not hit it every single time; without it, a Mongo that is down
for ever refutes any liveness. Nothing is assumed about the end of the call
being reported, the watchdog, the recovery or the expiry of the dedup key.

`MCLiveness` names five kinds:

* `GoesOn` and `HandlerGoesOn` (weak): a handler that has begun goes on, since
  nothing but its own death stops an async function of a live process;
* `ComesRound` (weak): keys expire, delayed jobs and deferred ends are delivered;
* `Fires` (weak): `setInterval` timers of a live instance fire;
* `Recurs` (strong): the sweeps, repairs and reconciliations, which come round
  for ever, find their work at a moment when no request stands in their way. Weak
  fairness would not do: the work of a sweep is enabled and disabled by requests.

Clients, webhooks, administrators and other people promise nothing, except that
the client of `StreamUpload` keeps polling the video it waits for.

## 5. Proofs

Everything below is checked by TLAPS without any assumption beyond the ones
named. A component is proved by an inductive invariant: `Init` implies it, every
action keeps it (one lemma per action or group of like actions), and it implies
the properties. The sections say what each invariant adds to the properties, and
why they need it.

### The settlement

`SettlementProofs` proves, for every set of settlers, every price, commission,
wallet, number of attempts and deposits:

* `TypeCorrect`: the types, and that an execution outside a transaction holds
  no lock and has no stale set (any totals);
* from `Uniform` (all executions read the same totals): `TransactionsAreIsolated`
  (the inductive invariant), and from it `LedgerTheorem`, `ChargeTheorem`,
  `ChargedOnceTheorem`, `StaffCutTheorem`, `SuccessTheorem`, `NoChargeTheorem`,
  `PromoTheorem` and `RefinementTheorem`.

The properties speak of committed documents only and are not inductive: whether
a commit preserves them depends on what the transaction has computed, and when.
`TransactionInvariant` adds, per execution,

* `Locals`: it works with the call's totals and earns all or nothing;
* `WroteByStage`: which documents it can have written at its stage;
* `Isolation`: written documents are held by nobody else and are not stale, and
  whatever is neither written nor stale has in the snapshot its committed value;
* `PendingDebit`, `PendingCredit`, `PendingStaff`: each pending write is the
  function of the *currently* committed values that the abstract account asks
  for; a debit or credit that has already been committed makes the delta zero;

and `Committed`, the shape of the database before and after the settlement.
Each action has a lemma that shows it keeps the invariant (the stages through a
common lemma about `Write`, the endings through one about `Close`), `Commit` is
shown to be a `Settle` or a `CompleteCredit` of the account, and every other
step leaves the mapped documents alone or is a `Deposit`.

Assumptions: the `ASSUME`s of `Money` and `Settlement` (a positive number of
micros per coin; natural numbers for totals, coins and rates; at least one
attempt), which TLC evaluates in every run of the settlement.

### The orchestration

`FinalizationProofs` is about `Finalization` for any set of workers and any
bounds, from the assumptions of that module.

* `FinalizationTypes`: the shape of every record.
* `SettledTheorem` and `SettledStays`. `SettledMeansPaid` is not inductive: a
  worker writes "settled" some steps after it has committed. `PaidInv` adds
  `PastCommit`: an execution at one of those steps has the payment in MongoDB,
  and no step takes the payment back.
* `LockTheorem`, `OneSettlement`. `LockInv` adds `HoldsLock`: unless `breached`,
  whoever is inside the settlement is the one the lock names, so that two inside
  would be the same. A loser of the durable claim that goes on after its
  `finally` block has no lock and is not inside: it enters no transaction.

### Purchases, memberships

`PaymentsProofs`, for any number of requests, events, orders, faults and wrong
signatures (`Bounds`, `VBounds`, `QBounds`: the bounds are natural numbers, the
clock can reach the end of a plan, the shortest life of a cache key is
positive).

* Coin packs: `CreditsTheorem`, `CreditedOnceTheorem`, `AcknowledgedTheorem`.
  `Inv` adds that nothing but the pending row exists before the order is
  answered, that one request at most creates it, and that whoever is about to
  report success has seen the coins.
* VIP: `VipExtendedOnce`, `VipCompleted`, `VipCache`. `VInv` adds what a
  finalizer in its transaction can have read (`VRowFirst`), that whoever is about
  to mark an event comes after an extension (`VDoneLater`), and `VCache`: without
  an administrator, an expired membership or one that a reader has seen lapsed
  ends no later than one duration per extension from now, so that a purchase over
  it does not end before what a reader may still write to the cache; a live key
  ends less than the shortest life of a key after the membership. The proof
  fails for a third extension by the same order, and TLC shows why: a reader that
  saw the membership lapsed marks it expired after two extensions, the third
  starts again from now, and the cache holds the end of the second. The property
  says so (`extended <= 2`); only a failed row lets an order extend twice at all.
* Moments Premium: `PremiumCountsOnce`, `PremiumTimeKept`, `PremiumCache`. `QInv`
  has a part about orders and rows like `VInv` and one about time: unless
  `clobbered`, an expired membership has ended, and what a reader has read ends no
  later than the membership (`QKept`).

### Payouts, wallet, referrals

`EarningsProofs`:

* Withdrawals: `PaidIsDebited`, and `PaidLeaves` for creators. `WInv` adds that
  an execution past the check has seen enough coins (`SeenEnough`), that it saves
  `paid` after its debit (`DebitedFirst`), and that neither the wallet, nor the sum
  of the rows, nor what anyone has read of them exceeds what was credited
  (`CreatorCoins`); once a payout has left the wallet, what is read later is below
  that by the payout, and what was read before is marked stale, which is what
  `restored` reports when it is written.
* Wallet: `RewardedOnceTheorem`, `ClawbackTheorem` for operations that overlap,
  `CacheTheorem` for operations that take turns without faults (`TakingTurns`).
  `LInv` adds that a claim is taken by one operation (`TaskOnce`), that a
  clawback under way has its credit, and what the cache lacks in mid-operation
  (`TurnsAgree`): the coins differ from the rows by `excess`, that is by
  clawbacks that stopped at 0 and forced grants, and an operation about to save
  has read the coins as they are.
* Referral: `ReferrerPaidOnce`, `ReferrerPaidIsBooked`, `ReferralLinkAgrees`,
  with one entry of a code at a time or rewards that wait for the entries
  (`RApart`). `RInv` says which entry of the list is the current one, who may be
  paying (`OnePayer`) and which row is still to come; `RLink` how far the three
  records can be apart at each step. Without `RApart` the invariant is not
  inductive: two overlapping entries with failures leave two list entries, and
  each can be paid for.
* Affiliate program: `StagesTheorem`, `StagesEarned`.

### Rewards

`RewardsProofs`: `OneRewardTheorem`, `BoundTheorem` (an action property) for any
users and Telegram accounts; `CheckinTheorem`, `ReminderTheorem`, and
`ClaimedTheorem` for claims that commit on their day, for any cycle (`KBounds`);
`MissionsTheorem`, and `ProgressTheorem` (an action property) for hooks that end
before midnight, for any missions, targets and days (`MBounds`: the moments are
finitely many, no mission is both daily and single). The invariants say what a
request under way has established: a Telegram account is bound to one user and a
request past the binding is about that pair (`BoundOnce`, `BoundFirst`); the
check-ins so far are the days of the cycle in order and a reminder slot is taken
by one timer (`Cycles`, `Reminds`); what a hook is about to count or pay was done
on the day it keeps, or before the midnight it waited over, and the bucket holds
only that (`HooksSound`, `Counted`).

### Run `money`

The run puts 18 instances side by side. `MoneyProofs` and `MoneyRewardsProofs`
instantiate the proof modules with the constants of the run, show that `Init` and
`Next` of the run's instance are those of the proofs, and carry the invariants
over: each is `scenario = "..." => Inv`, and a step of another component is
impossible in that scenario. The theorems `PurchasesTheorem`,
`MembershipsTheorem`, `PayoutsTheorem`, `WalletTheorem`, `ReferralsTheorem`,
`RewardsTheorem`, `RewardStateTheorem` and `TypesTheorem` are the properties of the
run. The two modules need `NoneAssumption` of `MCMoney` (`None` is none of the
requests and data) and hypotheses such as `WBounds`, which hold for the run's
numbers.

### Only model-checked

The components of run `product`; executions of the settlement that read different
totals; all liveness, which (like `ENABLED`, induction over data and recursive
operators) is outside what the proof backends handle.

## 6. Findings

Four disagreements between the code and what the repository says of it have a run
of their own:

* *Settled for good without credit* (`settlement_uncredited`). The catch of the
  creator block zeroes a variable declared outside the attempt loop. When the
  swallowed error had aborted the transaction, the retry has nothing to credit.
* *Credit that history does not show* (`settlement_history_credit`). The
  commission rates are read outside the session after the credit was written. If
  that fails, the credit is committed, and the history row and the log say there
  is none.
* *Overlapping settlements* (`finalization_overlap`). The dead letter deletes the
  settle lock of a live execution; after the recovery a second one enters the
  transaction, against `docs/SETTLEMENT_IDEMPOTENCY.md`. The transaction still
  keeps the balances right: that is what the `settlement` run and the theorems
  show.
* *Paid calls that stay settling* (`finalization_repair`). A failure between the
  commit and the durable mark is not repaired, because every later execution
  stops at the already-settled guard before it reaches the mark.

A limit of the stale-totals result: with three executions reading two different
totals alternately, the debit row can be lowered and the difference charged
again. Two executions cannot do this, and the run shows it.

### What does not hold in the components

While the modules were written, stronger properties than those of the runs were
tried. TLC refuted most of the following on the models, the rest was met while
translating the code; they explain why a property of section 4 has its condition.
A refuted one is reproduced by checking the stronger formula on the instance
whose handlers overlap.

*Purchases and memberships*

* A signature that does not match sets a completed row to failed
  (`payment/payment.controller.ts:581`), and the next finalization credits again.
* A webhook failure that cannot be retried stores `nextRetryAt: null`, which the
  retry scan accepts, so it is attempted for ever (`payment.controller.ts:1058`).
* Both membership finalizers read the row with `.lean()` and call `save()` on it:
  a pending row always aborts the transaction, and only a missing or failed row
  can be finalized (`vip/vip-purchase-finalization.service.ts:140`); a failed row
  stays failed, so each further webhook or verification extends again (`:137`).
  With three such extensions and a late expiry the cache outlives the membership
  by days; with less than a minute left it always does, since a key lives for at
  least 60 s (`vip/vip-entitlement.service.ts:49`).
* Lazy expiry marks a membership expired by `_id` alone, over a renewal that came
  between (`vip/vip-entitlement.service.ts:83`,
  `moments-premium/moments-premium-entitlement.service.ts:45`).

*Payouts and wallet*

* Two requests at once make two active withdrawals
  (`creator/creator.controller.ts:3403`); a rejection may overwrite a withdrawal
  being paid, so that it is rejected and debited
  (`creator/withdrawal-processing.service.ts:252`); a retry after a crash, or a
  second admin, debits again (`:432`); for staff the retry then fails on the
  unique key for ever (`:353`).
* A handler that read the user before a payout and saves the balance after it
  puts the coins back (`creator/creator.controller.ts:2943`, and the other handlers
  under `ReadCoins` in `Withdrawal`).
* A forced grant of a moment that was not refunded books a debit and takes no
  coins (`moments/services/moment-purchase-admin.service.ts:118`).
* Two `refundCall`s at once both refund (`admin/admin.controller.ts:2431`).
* The queue's repair alone does not remove drift: it writes a ledger sum read
  before (`billing/billing-reconciliation.ts:238`). Together with the repair at
  login the coins come within one of the ledger (`DriftIsRepaired`).

*Calls*

* A pair lock whose call has no session yet counts as orphaned, so a second call
  takes it over while the first is being set up (`billing/billing.service.ts:461`).
* The watchdog writes a whole session back as it read it, over a tick that came
  between (`billing/billing-watchdog.service.ts:262`); the tick that reaches the
  duration limit loses its charge (`billing/billing.service.ts:2984`); a tick that
  runs for longer than 3.5 s writes over the one that took its lock (`:3079`).
* A start that runs for longer than its lock seeds the session another start
  already bills.
* An execution that lost the durable claim releases its keys while it still
  waits (`billing/billing-session-finalization.service.ts:1473` does not await).
* `ensureCallRecordExists` marks the creator busy before the check whether the
  creator is online, which then rejects the call
  (`video/call-lifecycle.service.ts:582`); `handleSessionStarted` saves
  *accepted* over an ended call (`:441`); `handleCallEnded` sets `isSettled` for
  a settlement that is only queued (`:330`); a second call's ringing overwrites
  the slot of a running one (`:817`, `:650`), whose creator is callable again
  once the second has ended, until the reconciliation; a finalizer slower than
  45 s has its lock taken and deletes that of its successor
  (`video/call-finalization.service.ts:360`); a late *accepted* marks the
  creator of an ended call busy until the TTL (`:778`).
* A forced end that loses the claim on the settlement keeps its lease for 120 s
  and never tells Stream (`billing/billing-termination.service.ts:82`); a retry
  job that meets the lease ends as *deduped* and is not repeated; a job that
  completes between `remove()` and `add()` swallows the new retry.
* A socket that goes between its registration and the disconnect listener
  (`availability/availability.gateway.ts:1008`) leaves a record which the heartbeat
  renews, so that a creator without a socket may be shown online for ever.
* Renewing a lease extends the registry records of a crashed instance
  (`availability/presence-socket-registry.service.ts:121`); the grace key
  expires together with the timer that looks for it (`:281`); an instance
  without a socket defers a heartbeat nobody takes over
  (`availability.gateway.ts:144`); a transition begun before `FORCE_OFFLINE` is
  written after it (`presence.service.ts:556`), and `FORCE_OFFLINE` drops the
  slot of a live call (`:568`).
* The sweep of the VIP queue removes the place of a caller who joined again
  meanwhile. `popNextQueuedCaller` gives up on an expired head
  (`vip/vip-call-queue.service.ts:128`); a confirmation overwrites a
  cancellation (`vip/vip-scheduling.service.ts:111`) and a call cancelled after
  the search is announced (`vip-scheduling.reconciliation.ts:32`).
* A late `failed_settlement` event marks settled rows failed
  (`billing/call-history-projector.service.ts:207`); the settled event's payload
  has a Firebase UID where an ObjectId is read, so it projects nothing
  (`billing/billing-session-finalization.service.ts:1587`); a slow dispatch is
  reclaimed and run twice (`events/domain-event.service.ts:133`); the lock's
  heartbeat overwrites a successor (`src/utils/distributed-lock.ts:72`).

*Rewards and referrals*

* A compensated request removes an entry that was paid, and a later one is paid
  again if rewards do not wait for the link (`user/referral.service.ts:672`); the
  purchase path credits and books in two writes (`:696`); a purchase may create
  the edge of a request under way, which then undoes only its own part (`:551`);
  the call path sets `rewardGranted` before the transaction that pays
  (`consumer-rewards/hooks.ts:341`).
* A Telegram claim that commits while a referral is attached is seen by neither
  side (`creator-referral/creator-referral-reward.service.ts:282`).
* A hook reads the date two awaits after what it counts (`hooks.ts:414`, `:438`), so
  that a deed just before midnight may count for the day after.
* A hook from before midnight resets the new day's bucket (`hooks.ts:371`), a
  target reached just before midnight is not paid (`:559`), and two purchases
  finalized before the hook runs forfeit the first-recharge reward (`:227`).
* A late claim of yesterday hides today's (`checkin/checkin.service.ts:302`).

*Catalogue and media*

* Creating a creator leaves a UID set with one member that counts as complete
  (`creator/creator-uids-cache.service.ts:160`), and losers of its lock rebuild as
  well (`:139`); a page read before a deactivation is stored after it
  (`creator/creator.controller.ts:552`); the deactivated creator re-enters the
  index of ranks (`:423`), which after an invalidation holds only part of the
  creators (`creator-feed-rank.service.ts:159`); without transactions deletion
  and downgrade are two writes (`creator.controller.ts:1548`).
* The orphan sweep deletes the bytes of a session a late commit consumes
  (`images/orphan-cleanup.queue.ts:61`) and forgets images whose session expired
  first (`images/upload-session.service.ts:140`); an approval or a blurhash goes
  to whatever image is in the slot now
  (`admin/admin-image-moderation.controller.ts:139`,
  `images/blurhash.worker.ts:66`); a refused metadata call has already consumed
  the session (`images/commit-image-asset.ts:68`); a reorder assigns views
  without their asset (`creator.controller.ts:2343`); any number of sessions
  pass the quota (`images/upload-quota.service.ts:78`).
* The video sweeper writes a stale copy over a ready session
  (`stream/stream-upload-session.service.ts:156`), and the sync compares a
  session with itself, so a failed video is never written
  (`stream-session-sync.service.ts:74`).

*Moments, chat, accounts, support*

* The reset to 0 in `unlikeMoment` and in the deletion of a comment makes a passing
  undercount permanent; two deletions of one comment both decrement.
* A reader that stores a feed page after its bust leaves it stale up to its TTL; a
  failed fan-out with a full id set hides a new moment; a fan-out racing an
  unfollow adds ids again.
* A free list cached exactly at `endsAt` lives up to 300 s past it; a moment that
  starts or ends between the two readings of the clock is missed for as long;
  `updatePreviewSchedule` ignores the limit; two reorders with one version both
  pass; the list is read before its version.
* A duplicate pre-send is approved for free while the key is pending, also when
  the first is refused; the webhook may reject the last free or last payable
  message; a stale reader resets the free count at a period change; after the
  key has expired a retry is charged again; the chat header can be cached stale,
  and creating, promoting or deleting a creator does not clear it at all.
* Onboarding remembers only the last mutation id of each kind; the periodic
  status report is sent as an *accept* and completes the onboarding; a
  fast-forward decided before the deadline may be written after it.
* Deleted identity and user are read in parallel (`auth/auth.controller.ts:132`), so
  a deletion in between, or one that failed to record the identity, grants the
  free call again; two late attaches overwrite each other's referral code; two
  first logins of the administrator create two; an old token recreates a user
  after the deletion.
* A ticket's upload sessions are consumed before its daily slot is reserved, so a
  refused ticket loses its images; a failure after the reservation keeps the slot,
  and a release after midnight gives back one of the next day; two replies at
  once lose one.

## 7. Not modelled

* The components with status `not_modelled` in PROJECT.json: the portals of
  agencies, BD and administrators, dashboards and analytics (they read and
  aggregate; what they change in other components is an action there), stories
  and the legacy payment endpoints (single documents), fraud, metrics, audit and
  configuration.
* Stream, Cloudflare, Razorpay, Firebase, Telegram, MongoDB, Redis and BullMQ are
  external: modelled as the code uses them, with the failures it handles.
* Texts, layouts, prices, pagination, signatures, logs, metrics, socket events and
  notifications, because no property is about them.
* Components are checked one at a time in `money`, `product` and `liveness`; what
  they share (the balance, the slot of a creator, upload sessions) appears in each
  as actions of its environment. The composition of the running call with its
  finalization is by the totals, `BillingTick` producing what `Settlement` reads.
