---------------------------- MODULE Finalization ----------------------------
(***************************************************************************)
(* finalizeCallSession and what restarts it: the orchestration that gets   *)
(* one ended call settled, by any number of concurrent executions          *)
(* ("workers") that guard themselves with Redis keys (inflight, claim,     *)
(* settle lock) and a durable claim in Mongo, retry through a Redis queue  *)
(* with a dedup key, give up into a dead letter, and may crash at any      *)
(* await.  The Mongo transaction of settleCall is one step here; module    *)
(* Settlement opens it.                                                    *)
(*                                                                         *)
(* Modelled configuration: unified finalizer, durable call sessions,       *)
(* settlement from the checkpoint, watchdog auto-finalize and automatic    *)
(* recovery enabled.  A key's token is the worker that holds it; the token *)
(* of a crashed execution becomes Ghost.                                   *)
(***************************************************************************)
EXTENDS Integers, FiniteSets

CONSTANTS
    Workers,        \* concurrent executions, over all server instances
    MaxRetry,       \* BILLING_SETTLEMENT_RETRY_MAX_ATTEMPTS
    WatchdogCap,    \* WATCHDOG_ATTEMPT_CAP
    MaxCrashes,     \* bound: process crashes
    MaxLapses,      \* bound: keys that expire under a live holder
    Leftovers,      \* <<Redis session, Mongo checkpoint>> the call may end with
    Nobody, Ghost   \* no token, the token of a crashed execution

ASSUME BoundsAssumption ==
    /\ MaxRetry \in Nat \ {0} /\ WatchdogCap \in Nat \ {0}
    /\ MaxCrashes \in Nat /\ MaxLapses \in Nat
ASSUME LeftoversAssumption == Leftovers \subseteq {"ACTIVE", "gone"} \X {"ACTIVE", "none"}
ASSUME TokenAssumption == Nobody \notin Workers /\ Ghost \notin Workers /\ Nobody # Ghost

Owners == Workers \cup {Nobody, Ghost}

Lifecycle == {"ACTIVE", "ENDING", "SETTLING", "SETTLED", "FAILED"}

VARIABLES
    redis,      \* the Redis keys of the call
    mongo,      \* the Mongo documents of the call
    pc,         \* where each worker is ("idle": no execution)
    attempt,    \* params.attempt of the execution (0: not from the queue)
    missing,    \* snapshotMeta.recoverySource = 'missing'
    result,     \* the FinalizeStatus it will return
    crashes, lapses,
    breached    \* a live holder has lost the settle lock to somebody else

vars == <<redis, mongo, pc, attempt, missing, result, crashes, lapses, breached>>
locals == <<attempt, missing, result>>
bounds == <<crashes, lapses>>

Init ==
    /\ \E left \in Leftovers :
         /\ redis = [inflight |-> Nobody, claim |-> Nobody, lock |-> Nobody,
                     settled |-> FALSE, deadLetter |-> FALSE, cooldown |-> FALSE,
                     dedup |-> FALSE, queued |-> FALSE, payload |-> 0,
                     session |-> left[1], watchdog |-> 0]
         /\ mongo = [paid |-> FALSE, call |-> "pending", durable |-> "ending",
                     stale |-> FALSE, checkpoint |-> left[2]]
    /\ pc = [w \in Workers |-> "idle"]
    /\ attempt = [w \in Workers |-> 0]
    /\ missing = [w \in Workers |-> FALSE]
    /\ result = [w \in Workers |-> "none"]
    /\ crashes = 0 /\ lapses = 0
    /\ breached = FALSE

-----------------------------------------------------------------------------
(* State functions and updates of the two stores. *)

\* Mutant: the history row is not consulted.
AlreadySettledWithoutHistory ==
    redis.settled \/ mongo.durable = "settled" \/ mongo.call = "settled"

\* isCallBillingAlreadySettled: the Redis key, the durable session, the
\* history row (its settledAt, which no later writer clears: paid), the Call.
AlreadySettled ==
    redis.settled \/ mongo.durable = "settled" \/ mongo.paid \/ mongo.call = "settled"

\* ALLOWED_TRANSITIONS, with ACTIVE for every state before the end.
Transitions ==
    [ACTIVE   |-> {"ENDING", "SETTLING", "FAILED"},
     ENDING   |-> {"SETTLING", "SETTLED", "FAILED"},
     SETTLING |-> {"SETTLED", "FAILED"},
     SETTLED  |-> {},
     FAILED   |-> {"SETTLING"}]

\* The session checkpointLifecycleState works on: rebuilt from the Mongo
\* checkpoint when Redis has none.
BaseState == IF redis.session # "gone" THEN redis.session ELSE mongo.checkpoint

\* The state it reaches; a rejected transition leaves the state.
Advance(target) ==
    IF target = BaseState \/ target \in Transitions[BaseState] THEN target ELSE BaseState

\* Release of a key that is deleted only if it still holds the own token.
ReleaseInflight(r, w) == IF r.inflight = w THEN [r EXCEPT !.inflight = Nobody] ELSE r
ReleaseLock(r, w) == IF r.lock = w THEN [r EXCEPT !.lock = Nobody] ELSE r

\* ensureTerminalBillingTeardown
Teardown(r) == [r EXCEPT !.session = "gone"]

\* drainSettlementArtifacts: deletes the keys whoever holds them.
drainSettlementArtifacts(r) ==
    [r EXCEPT !.queued = FALSE, !.payload = 0, !.dedup = FALSE, !.claim = Nobody,
              !.lock = Nobody, !.inflight = Nobody, !.watchdog = 0]

\* A drain by w takes the settle lock from a live holder.
DrainBreaches(w) == breached' = (breached \/ redis.lock \in Workers \ {w})

\* moveCallToRecoveryDeadLetter, from Redis state r.
moveCallToRecoveryDeadLetter(w, r) ==
    /\ redis' = [drainSettlementArtifacts(r) EXCEPT !.deadLetter = TRUE, !.session = "gone"]
    /\ mongo' = [mongo EXCEPT !.call = "failed_recovery_settlement",
                              !.durable = IF @ = "settled" THEN @ ELSE "failed_settlement",
                              !.stale = FALSE]
    /\ DrainBreaches(w)

\* Put attempt n into the retry queue, unless the dedup key is still there.
Queue(r, n) ==
    IF r.dedup THEN r ELSE [r EXCEPT !.dedup = TRUE, !.payload = n, !.queued = TRUE]

\* Mutant: the cap is compared before the increment.
enqueueSettlementRetryOnceMore(w, a, r) ==
    \/ /\ a > MaxRetry
       /\ moveCallToRecoveryDeadLetter(w, r)
    \/ /\ a <= MaxRetry
       /\ redis' = Queue(r, a + 1)
       /\ UNCHANGED <<mongo, breached>>

\* enqueueSettlementRetry and enqueueImmediateSettlementRetry of an execution
\* w that ran as attempt a, from Redis state r: too many attempts or (only
\* possible for a retry) too old means dead letter.
enqueueSettlementRetry(w, a, r) ==
    \/ /\ a + 1 > MaxRetry \/ a > 0
       /\ moveCallToRecoveryDeadLetter(w, r)
    \/ /\ a + 1 <= MaxRetry
       /\ redis' = Queue(r, a + 1)
       /\ UNCHANGED <<mongo, breached>>

Goto(w, next) == pc' = [pc EXCEPT ![w] = next]

\* The execution returns; the queue consumer then drops the payload unless
\* another retry is pending.
Return(w, status) ==
    /\ result' = [result EXCEPT ![w] = "none"]
    /\ Goto(w, IF attempt[w] > 0 /\ status # "pending_retry" THEN "dropPayload" ELSE "idle")
    /\ missing' = [missing EXCEPT ![w] = FALSE]
    /\ attempt' = [attempt EXCEPT ![w] = 0]
    /\ UNCHANGED bounds

\* It will return status after the finally block.
Finally(w, status) ==
    /\ result' = [result EXCEPT ![w] = status]
    /\ Goto(w, "finally")
    /\ UNCHANGED <<attempt, missing, bounds>>

Continue(w, next) ==
    /\ Goto(w, next)
    /\ UNCHANGED <<locals, bounds>>

-----------------------------------------------------------------------------
(* What starts an execution. *)

\* finalizeCallSession is entered with the given attempt; it first notes
\* whether any runtime state of the call is left.
Begin(w, a) ==
    /\ pc[w] = "idle"
    /\ Goto(w, "guard")
    /\ attempt' = [attempt EXCEPT ![w] = a]
    /\ missing' = [missing EXCEPT ![w] = redis.session = "gone" /\ mongo.checkpoint = "none"]
    /\ UNCHANGED <<result, bounds>>

\* The end of the call: socket, HTTP, webhook, billing tick, forced end.
CallEnds(w) ==
    /\ Begin(w, 0)
    /\ UNCHANGED <<redis, mongo, breached>>

\* processSettlementRetryQueue takes the entry out before it runs it.
ConsumeRetry(w) ==
    /\ redis.queued
    /\ redis.payload > 0
    /\ Begin(w, redis.payload)
    /\ redis' = [redis EXCEPT !.queued = FALSE, !.dedup = FALSE]
    /\ UNCHANGED <<mongo, breached>>

\* An entry whose payload is gone is dropped.
ConsumeWithoutPayload ==
    /\ redis.queued
    /\ redis.payload = 0
    /\ redis' = [redis EXCEPT !.queued = FALSE, !.dedup = FALSE]
    /\ UNCHANGED <<mongo, pc, locals, bounds, breached>>

\* Mutant: only sessions that have not been claimed are looked for.
ReconcileEndingOnly(w) ==
    /\ mongo.durable = "ending" /\ mongo.stale
    /\ Begin(w, 0)
    /\ UNCHANGED <<redis, mongo, breached>>

\* runSettlementOrphanRepair: durable sessions that are stale.
Reconcile(w) ==
    /\ mongo.durable \in {"ending", "settling"} /\ mongo.stale
    /\ Begin(w, 0)
    /\ UNCHANGED <<redis, mongo, breached>>

\* runCallSessionReconciliationPass: stale settling sessions are enqueued.
ReconcileEnqueue ==
    /\ mongo.durable = "settling" /\ mongo.stale
    /\ redis' = Queue(redis, 1)
    /\ UNCHANGED <<mongo, pc, locals, bounds, breached>>

\* attemptFailedSettlementRecovery: a dead-lettered, unpaid call goes back to
\* ending, once per cooldown and only while the dead letter key lives.
RecoveryApplies ==
    /\ redis.deadLetter /\ ~redis.cooldown
    /\ ~mongo.paid
    /\ mongo.durable = "failed_settlement"

attemptFailedSettlementRecovery(w) ==
    /\ redis' = Queue([drainSettlementArtifacts(redis) EXCEPT !.cooldown = TRUE,
                                                              !.deadLetter = FALSE], 1)
    /\ mongo' = [mongo EXCEPT !.durable = "ending", !.stale = FALSE]
    /\ DrainBreaches(w)

ReconcileFailed ==
    /\ RecoveryApplies
    /\ attemptFailedSettlementRecovery(Nobody)
    /\ UNCHANGED <<pc, locals, bounds>>

\* The watchdog retries a stalled settling call WatchdogCap times ...
WatchdogStalled == (mongo.durable = "settling" \/ redis.session = "SETTLING") /\ ~redis.deadLetter

WatchdogPass(w) ==
    /\ WatchdogStalled
    /\ redis.watchdog < WatchdogCap
    /\ Begin(w, 0)
    /\ redis' = [redis EXCEPT !.watchdog = @ + 1]
    /\ UNCHANGED <<mongo, breached>>

\* ... and then moves it to the dead letter.
WatchdogGivesUp ==
    /\ WatchdogStalled
    /\ redis.watchdog = WatchdogCap
    /\ moveCallToRecoveryDeadLetter(Nobody, redis)
    /\ UNCHANGED <<pc, locals, bounds>>

-----------------------------------------------------------------------------
(* The execution up to its claims. *)

\* A dead-lettered call is not touched.
DeadLetterGuard(w) ==
    /\ pc[w] = "guard"
    /\ UNCHANGED <<redis, mongo, breached>>
    /\ IF redis.deadLetter THEN Return(w, "dead_lettered") ELSE Continue(w, "inflight")

\* SET NX of the inflight key; a loser retries only for a stale settlement.
TakeInflight(w) ==
    /\ pc[w] = "inflight"
    /\ \/ /\ redis.inflight = Nobody
          /\ redis' = [redis EXCEPT !.inflight = w]
          /\ UNCHANGED <<mongo, breached>>
          /\ Continue(w, "settledCheck")
       \/ /\ redis.inflight # Nobody
          /\ IF mongo.call = "settling" /\ mongo.stale
             THEN enqueueSettlementRetry(w, attempt[w], redis)
             ELSE UNCHANGED <<redis, mongo, breached>>
          /\ Return(w, "duplicate")

\* Another instance still bills the call.
RejectStaleWorker(w) ==
    /\ pc[w] = "settledCheck"
    /\ redis.session = "ACTIVE"
    /\ enqueueSettlementRetry(w, attempt[w], ReleaseInflight(redis, w))
    /\ Return(w, "pending_retry")

\* Already settled: duplicate.  Otherwise the claim of a stale durable
\* settlement is cleared.
CheckSettled(w) ==
    /\ pc[w] = "settledCheck"
    /\ UNCHANGED <<mongo, breached>>
    /\ IF AlreadySettled
       THEN /\ redis' = ReleaseInflight(Teardown(redis), w)
            /\ Return(w, "duplicate")
       ELSE /\ redis' = IF mongo.durable = "settling" /\ mongo.stale
                        THEN [redis EXCEPT !.claim = Nobody] ELSE redis
            /\ Continue(w, "claim")

\* SET NX of the settlement claim.
TakeClaim(w) ==
    /\ pc[w] = "claim"
    /\ UNCHANGED <<mongo, breached>>
    /\ \/ /\ redis.claim = Nobody
          /\ redis' = [redis EXCEPT !.claim = w]
          /\ Continue(w, "lock")
       \/ /\ redis.claim # Nobody
          /\ UNCHANGED redis
          /\ Continue(w, "poll")

\* Mutant: the lock is set without NX.
TakeLockAlways(w) ==
    /\ pc[w] = "lock"
    /\ redis' = [redis EXCEPT !.lock = w]
    /\ UNCHANGED <<mongo, breached>>
    /\ Continue(w, "durable")

\* SET NX of the settle lock; a loser gives the claim back.
TakeLock(w) ==
    /\ pc[w] = "lock"
    /\ UNCHANGED <<mongo, breached>>
    /\ \/ /\ redis.lock = Nobody
          /\ redis' = [redis EXCEPT !.lock = w]
          /\ Continue(w, "durable")
       \/ /\ redis.lock # Nobody
          /\ redis' = [redis EXCEPT !.claim = Nobody]
          /\ Continue(w, "poll")

\* pollUntilSettled of a worker that lost the claim or the lock.
PollSettled(w) ==
    /\ pc[w] = "poll"
    /\ AlreadySettled
    /\ redis' = ReleaseInflight(Teardown(redis), w)
    /\ UNCHANGED <<mongo, breached>>
    /\ Return(w, "duplicate")

PollTimesOut(w) ==
    /\ pc[w] = "poll"
    /\ ~AlreadySettled
    /\ enqueueSettlementRetry(w, attempt[w], ReleaseInflight(redis, w))
    /\ Return(w, "pending_retry")

-----------------------------------------------------------------------------
(* The execution inside its claims. *)

\* The Call document mirrors the durable claim unless it is settled.
MirrorSettling(call) == IF call = "settled" THEN call ELSE "settling"

\* claimDurableCallSessionForSettlement: the conditional update.
ClaimDurable(w) ==
    /\ pc[w] = "durable"
    /\ \/ /\ mongo.durable = "ending"
          /\ mongo' = [mongo EXCEPT !.durable = "settling", !.stale = FALSE,
                                    !.call = MirrorSettling(@)]
          /\ UNCHANGED <<redis, breached>>
          /\ Continue(w, "checkpoint")
       \/ /\ mongo.durable = "settled"
          /\ redis' = Teardown(redis)
          /\ UNCHANGED <<mongo, breached>>
          /\ Finally(w, "duplicate")
       \/ /\ mongo.durable = "settling"
          /\ UNCHANGED <<redis, mongo, breached>>
          /\ Continue(w, "takeover")
       \/ /\ mongo.durable = "failed_settlement"
          /\ UNCHANGED <<redis, mongo, breached>>
          /\ Continue(w, "blocked")

\* A settling session that is stale is taken over, which deletes the claim.
TakeOver(w) ==
    /\ pc[w] = "takeover"
    /\ mongo.durable = "settling" /\ mongo.stale
    /\ mongo' = [mongo EXCEPT !.stale = FALSE, !.call = MirrorSettling(@)]
    /\ redis' = [redis EXCEPT !.claim = Nobody]
    /\ UNCHANGED breached
    /\ Continue(w, "checkpoint")

\* The keys an execution gives back in its finally block: the lock and the
\* inflight key only if still owned, the claim whoever owns it.
ReleaseKeys(r, w) == ReleaseInflight([ReleaseLock(r, w) EXCEPT !.claim = Nobody], w)

\* handleDurableClaimLost: the holder will be waited for (settling_active), or
\* the race for a stale session was lost (settling_stale_race); which of the
\* two shows in what follows.
DurableClaimLost(w) ==
    /\ pc[w] = "takeover"
    /\ ~(mongo.durable = "settling" /\ mongo.stale)
    /\ UNCHANGED <<redis, mongo, breached>>
    /\ Continue(w, "lost")

\* Its promise is returned and not awaited, so that the finally block runs
\* while handleDurableClaimLost goes on without the keys.
GoesOnAs == [lost |-> "lostFree", blocked |-> "blockedFree"]

FinallyFirst(w) ==
    /\ pc[w] \in DOMAIN GoesOnAs
    /\ redis' = ReleaseKeys(redis, w)
    /\ UNCHANGED <<mongo, breached>>
    /\ Continue(w, GoesOnAs[pc[w]])

\* It returns, before the finally block or after it.
Answers(w, status) == IF pc[w] \in DOMAIN GoesOnAs THEN Finally(w, status) ELSE Return(w, status)

\* Only the first look at the settled call can come before the finally block.
LostToSettled(w) ==
    /\ pc[w] \in {"lost", "lostFree"}
    /\ AlreadySettled
    /\ redis' = ReleaseInflight(Teardown(redis), w)
    /\ UNCHANGED <<mongo, breached>>
    /\ Answers(w, "duplicate")

LostTimesOut(w) ==
    /\ pc[w] = "lostFree"
    /\ ~AlreadySettled
    /\ enqueueSettlementRetry(w, attempt[w], redis)
    /\ Answers(w, "pending_retry")

\* A lost race goes straight to a retry, with one attempt less.
LostRace(w) ==
    /\ pc[w] \in {"lost", "lostFree"}
    /\ \/ /\ attempt[w] + 1 >= MaxRetry
          /\ moveCallToRecoveryDeadLetter(w, redis)
          /\ Answers(w, "dead_lettered")
       \/ /\ attempt[w] + 1 < MaxRetry
          /\ enqueueSettlementRetry(w, attempt[w], ReleaseInflight(redis, w))
          /\ Answers(w, "pending_retry")

\* A failed settlement is recovered, or retried.
LostToFailure(w) ==
    /\ pc[w] \in {"blocked", "blockedFree"}
    /\ IF RecoveryApplies
       THEN attemptFailedSettlementRecovery(w)
       ELSE enqueueSettlementRetry(w, attempt[w], ReleaseInflight(redis, w))
    /\ Answers(w, "pending_retry")

\* checkpointLifecycleState(SETTLING) succeeds when there is any state.
CheckpointSettling(w) ==
    /\ pc[w] = "checkpoint"
    /\ BaseState # "none"
    /\ redis' = [redis EXCEPT !.session = Advance("SETTLING")]
    /\ mongo' = [mongo EXCEPT !.checkpoint = Advance("SETTLING")]
    /\ UNCHANGED breached
    /\ Continue(w, "recheck")

\* With nothing to work on, or with errors in every convergence attempt, the
\* call is retried if it had no state to begin with, otherwise given up.
CheckpointImpossible(w) ==
    /\ pc[w] = "checkpoint"
    /\ \/ /\ missing[w]
          /\ enqueueSettlementRetry(w, attempt[w], redis)
          /\ Finally(w, "pending_retry")
       \/ /\ ~missing[w]
          /\ moveCallToRecoveryDeadLetter(w, redis)
          /\ Finally(w, "dead_lettered")

\* After the flush: settled meanwhile, blocked because the totals are zero,
\* or on to settleCall.
Recheck(w) ==
    /\ pc[w] = "recheck"
    /\ \/ /\ AlreadySettled
          /\ redis' = Teardown(redis)
          /\ UNCHANGED <<mongo, breached>>
          /\ Finally(w, "duplicate")
       \/ /\ ~AlreadySettled
          /\ UNCHANGED <<redis, mongo, breached>>
          /\ Continue(w, "settle")

ZeroSettlementBlocked(w) ==
    /\ pc[w] = "recheck"
    /\ ~AlreadySettled
    /\ enqueueSettlementRetry(w, attempt[w], ReleaseInflight(redis, w))
    /\ Finally(w, "pending_retry")

\* settleCall reads the history row: settled already means clean up and
\* return nothing, otherwise the transaction is entered.
SettleReads(w) ==
    /\ pc[w] = "settle"
    /\ UNCHANGED <<mongo, breached>>
    /\ \/ /\ mongo.paid
          /\ redis' = ReleaseLock([Teardown(redis) EXCEPT !.settled = TRUE], w)
          /\ Finally(w, "duplicate")
       \/ /\ ~mongo.paid
          /\ BaseState # "none"
          /\ UNCHANGED redis
          /\ Continue(w, "txn")

\* Mutant: the missing result of settleCall goes unnoticed.
SettleReadsNothingUnnoticed(w) ==
    /\ pc[w] = "settle"
    /\ ~mongo.paid
    /\ redis' = ReleaseLock(redis, w)
    /\ UNCHANGED <<mongo, breached>>
    /\ Continue(w, "markCall")

\* settleCall finds no session, or cannot read Redis: it gives up the lock
\* and returns nothing, and the finalizer retries.
SettleReadsNothing(w) ==
    /\ pc[w] = "settle"
    /\ ~mongo.paid
    /\ enqueueSettlementRetry(w, attempt[w], ReleaseLock(redis, w))
    /\ Finally(w, "pending_retry")

\* The transaction commits.  An execution that passed the history check
\* commits although another one has settled the call meanwhile; what that
\* does to the money is the subject of Settlement.
SettlePersists(w) ==
    /\ pc[w] = "txn"
    /\ mongo' = [mongo EXCEPT !.paid = TRUE]
    /\ UNCHANGED <<redis, breached>>
    /\ Continue(w, "markCall")

\* Mutant: the error of the transaction is swallowed.
SettleThrowsSwallowed(w) ==
    /\ pc[w] = "txn"
    /\ UNCHANGED <<redis, mongo, breached>>
    /\ Continue(w, "markCall")

\* The transaction fails for good; the settled key is deleted.
SettleThrows(w) ==
    /\ pc[w] = "txn"
    /\ redis' = [redis EXCEPT !.settled = FALSE]
    /\ UNCHANGED <<mongo, breached>>
    /\ Continue(w, "catch")

\* markCallSettled
MarkCallSettled(w) ==
    /\ pc[w] = "markCall"
    /\ mongo' = [mongo EXCEPT !.call = "settled"]
    /\ UNCHANGED <<redis, breached>>
    /\ Continue(w, "markDurable")

\* markDurableCallSessionSettled
MarkDurableSettled(w) ==
    /\ pc[w] = "markDurable"
    /\ mongo' = [mongo EXCEPT !.durable = "settled", !.stale = FALSE]
    /\ UNCHANGED <<redis, breached>>
    /\ Continue(w, "cleanup")

\* checkpointLifecycleState(SETTLED) and runPostPersistRedisCleanup.
CleanUp(w) ==
    /\ pc[w] = "cleanup"
    /\ redis' = [redis EXCEPT !.session = "gone", !.settled = TRUE, !.claim = Nobody]
    /\ mongo' = IF BaseState = "none" THEN mongo
                ELSE [mongo EXCEPT !.checkpoint =
                        IF Advance("SETTLED") = "SETTLED" THEN "SETTLED" ELSE @]
    /\ UNCHANGED breached
    /\ Finally(w, "settled")

\* Redis fails during the cleanup, which is logged and ignored.
CleanUpFails(w) ==
    /\ pc[w] = "cleanup"
    /\ UNCHANGED <<redis, mongo, breached>>
    /\ Finally(w, "settled")

\* A write after the commit fails.
MarkThrows(w) ==
    /\ pc[w] \in {"markCall", "markDurable"}
    /\ UNCHANGED <<redis, mongo, breached>>
    /\ Continue(w, "catch")

\* The catch block: lifecycle FAILED where allowed, and a retry.
CatchCheckpoint(w) ==
    /\ pc[w] = "catch"
    /\ IF BaseState = "none" THEN UNCHANGED <<redis, mongo>>
       ELSE /\ redis' = [redis EXCEPT !.session = Advance("FAILED")]
            /\ mongo' = [mongo EXCEPT !.checkpoint =
                           IF Advance("FAILED") = "FAILED" THEN "FAILED" ELSE @]
    /\ UNCHANGED breached
    /\ Continue(w, "catchRetry")

CatchRetry(w) ==
    /\ pc[w] = "catchRetry"
    /\ enqueueSettlementRetry(w, attempt[w], redis)
    /\ Finally(w, "pending_retry")

\* The finally block.
RunFinally(w) ==
    /\ pc[w] = "finally"
    /\ redis' = ReleaseKeys(redis, w)
    /\ UNCHANGED <<mongo, breached>>
    /\ Return(w, result[w])

\* The queue consumer deletes the payload of the entry it ran.
DropPayload(w) ==
    /\ pc[w] = "dropPayload"
    /\ redis' = [redis EXCEPT !.payload = 0]
    /\ UNCHANGED <<mongo, breached>>
    /\ Continue(w, "idle")

\* The heartbeat of the settle lock: SET XX with the own token.
Inside(w) == pc[w] \in {"durable", "takeover", "lost", "blocked", "checkpoint",
                        "recheck", "settle", "txn", "markCall", "markDurable", "cleanup",
                        "catch", "catchRetry"}

Heartbeat(w) ==
    /\ Inside(w)
    /\ redis.lock \notin {Nobody, w}
    /\ redis' = [redis EXCEPT !.lock = w]
    /\ UNCHANGED <<mongo, pc, locals, bounds, breached>>

-----------------------------------------------------------------------------
(* Time and failure. *)

\* The process dies; its keys stay until they expire.
Crash(w) ==
    /\ crashes < MaxCrashes
    /\ pc[w] # "idle"
    /\ redis' = [redis EXCEPT !.inflight = IF @ = w THEN Ghost ELSE @,
                              !.claim = IF @ = w THEN Ghost ELSE @,
                              !.lock = IF @ = w THEN Ghost ELSE @]
    /\ crashes' = crashes + 1
    /\ Goto(w, "idle")
    /\ attempt' = [attempt EXCEPT ![w] = 0]
    /\ missing' = [missing EXCEPT ![w] = FALSE]
    /\ result' = [result EXCEPT ![w] = "none"]
    /\ UNCHANGED <<mongo, lapses, breached>>

\* A key left behind by a crash expires.
ExpireGhost ==
    /\ Ghost \in {redis.inflight, redis.claim, redis.lock}
    /\ redis' = [redis EXCEPT !.inflight = IF @ = Ghost THEN Nobody ELSE @,
                              !.claim = IF @ = Ghost THEN Nobody ELSE @,
                              !.lock = IF @ = Ghost THEN Nobody ELSE @]
    /\ UNCHANGED <<mongo, pc, locals, bounds, breached>>

\* A key expires under an execution that outlives its TTL.
Lapse ==
    /\ lapses < MaxLapses
    /\ lapses' = lapses + 1
    /\ \E k \in {"inflight", "claim", "lock"} :
         /\ redis[k] \in Workers
         /\ redis' = [redis EXCEPT ![k] = Nobody]
         /\ breached' = (breached \/ k = "lock")
    /\ UNCHANGED <<mongo, pc, locals, crashes>>

\* The dedup, dead letter, settled and cooldown keys expire.
ExpireFlag ==
    /\ \E k \in {"dedup", "deadLetter", "settled", "cooldown"} :
         /\ redis[k]
         /\ redis' = [redis EXCEPT ![k] = FALSE]
    /\ UNCHANGED <<mongo, pc, locals, bounds, breached>>

\* BILLING_MAX_SETTLING_MS passes without an update of the durable session.
GrowStale ==
    /\ mongo.durable \in {"ending", "settling"}
    /\ ~mongo.stale
    /\ mongo' = [mongo EXCEPT !.stale = TRUE]
    /\ UNCHANGED <<redis, pc, locals, bounds, breached>>

-----------------------------------------------------------------------------
Execute(w) ==
    \/ DeadLetterGuard(w) \/ TakeInflight(w) \/ CheckSettled(w) \/ TakeClaim(w)
    \/ TakeLock(w) \/ PollSettled(w) \/ PollTimesOut(w) \/ ClaimDurable(w)
    \/ TakeOver(w) \/ DurableClaimLost(w) \/ FinallyFirst(w) \/ LostToSettled(w)
    \/ LostTimesOut(w) \/ LostRace(w) \/ LostToFailure(w) \/ CheckpointSettling(w)
    \/ CheckpointImpossible(w) \/ Recheck(w) \/ SettleReads(w) \/ SettleReadsNothing(w)
    \/ SettlePersists(w) \/ MarkCallSettled(w) \/ MarkDurableSettled(w)
    \/ CleanUp(w) \/ CatchCheckpoint(w) \/ CatchRetry(w) \/ RunFinally(w)
    \/ DropPayload(w)

Fail(w) ==
    \/ RejectStaleWorker(w) \/ ZeroSettlementBlocked(w)
    \/ SettleThrows(w) \/ MarkThrows(w) \/ CleanUpFails(w) \/ Crash(w)

Start(w) == CallEnds(w) \/ ConsumeRetry(w) \/ Reconcile(w) \/ WatchdogPass(w)

Next ==
    \/ \E w \in Workers : Start(w) \/ Execute(w) \/ Fail(w) \/ Heartbeat(w)
    \/ ConsumeWithoutPayload \/ ReconcileEnqueue \/ ReconcileFailed \/ WatchdogGivesUp
    \/ ExpireGhost \/ Lapse \/ ExpireFlag \/ GrowStale

Spec == Init /\ [][Next]_vars

\* Executions progress (the event loop runs); the queue, the reconciliation
\* and the expiry of keys are driven by timers of processes that restart;
\* and a fault does not hit every execution at the same place for ever.
Fairness ==
    /\ \A w \in Workers :
         /\ WF_vars(Execute(w))
         /\ SF_vars(CheckSettled(w))
         /\ SF_vars(CheckpointSettling(w))
         /\ SF_vars(Recheck(w))
         /\ SF_vars(SettleReads(w))
         /\ SF_vars(SettlePersists(w))
    /\ WF_vars(\E w \in Workers : ConsumeRetry(w))
    /\ WF_vars(\E w \in Workers : Reconcile(w))
    /\ WF_vars(ConsumeWithoutPayload)
    /\ WF_vars(ExpireGhost)
    /\ WF_vars(GrowStale)

FairSpec == Spec /\ Fairness

-----------------------------------------------------------------------------
(* Properties. *)

Pcs == {"idle", "guard", "inflight", "settledCheck", "claim", "lock", "poll", "durable",
        "takeover", "lost", "lostFree", "blocked", "blockedFree",
        "checkpoint", "recheck", "settle", "txn", "markCall",
        "markDurable", "cleanup", "catch", "catchRetry", "finally", "dropPayload"}

Statuses == {"none", "settled", "duplicate", "pending_retry", "dead_lettered"}

RedisType == [inflight : Owners, claim : Owners, lock : Owners,
              settled : BOOLEAN, deadLetter : BOOLEAN, cooldown : BOOLEAN,
              dedup : BOOLEAN, queued : BOOLEAN, payload : 0 .. MaxRetry,
              session : Lifecycle \cup {"gone"}, watchdog : 0 .. WatchdogCap]

MongoType == [paid : BOOLEAN,
              call : {"pending", "settling", "settled", "failed_recovery_settlement"},
              durable : {"ending", "settling", "settled", "failed_settlement"},
              stale : BOOLEAN, checkpoint : Lifecycle \cup {"none"}]

\* Every variable has its type.
TypeOK ==
    /\ redis \in RedisType
    /\ mongo \in MongoType
    /\ pc \in [Workers -> Pcs]
    /\ attempt \in [Workers -> 0 .. MaxRetry]
    /\ missing \in [Workers -> BOOLEAN]
    /\ result \in [Workers -> Statuses]
    /\ crashes \in 0 .. MaxCrashes /\ lapses \in 0 .. MaxLapses
    /\ breached \in BOOLEAN

\* No record says settled before the money has moved: not the Redis key, not
\* the Call, not the durable session, whatever crashed, was retried or taken
\* over (billing-session-finalization.service.ts:1556-1574).
SettledMeansPaid ==
    redis.settled \/ mongo.call = "settled" \/ mongo.durable = "settled" => mongo.paid

\* A call that counts as settled stays so, although keys expire and a late
\* dead letter overwrites the Call and the history status
\* (billing-session-finalization.service.ts:405-426).
SettledStaysSettled == [][AlreadySettled => AlreadySettled']_vars

\* Two executions are between taking the settle lock and their finally block
\* at the same time only if the lock was taken from one of them, by its TTL
\* or by a drain. An execution that lost the durable claim is out of it while
\* it polls: its finally block has already run, and what it does then may be
\* such a drain (billing-session-finalization.service.ts:1416-1473, 1717-1721).
OverlapOnlyAfterBreach ==
    \A v, w \in Workers : v # w /\ Inside(v) /\ Inside(w) => breached

\* The ended call, and a recovered one, is eventually paid or dead-lettered:
\* crashes, lost queue entries, dropped retries and abandoned claims only
\* delay it (billing-session-finalization.service.ts:531-701).
EventuallyResolved ==
    (mongo.durable = "ending") ~> (mongo.paid \/ mongo.durable = "failed_settlement")

\* SETTLEMENT_IDEMPOTENCY.md:14: only one settlement run executes at a time.
OneSettlementAtATime ==
    \A v, w \in Workers : pc[v] = "txn" /\ pc[w] = "txn" => v = w

\* billing-reconciliation.ts:341 says that reconciliation repairs stale
\* settling calls: a paid call that is left settling becomes settled.
StaleSettlingRepaired ==
    (mongo.paid /\ mongo.durable = "settling") ~> (mongo.durable = "settled")
=============================================================================
