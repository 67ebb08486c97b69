------------------------- MODULE FinalizationProofs -------------------------
(***************************************************************************)
(* Proofs about the settlement orchestration for any number of concurrent  *)
(* executions, any retry and watchdog caps and any number of crashes and   *)
(* lapsed keys: every record that says settled tells the truth, a settled  *)
(* call stays settled, and executions overlap only after one of them has   *)
(* lost the settle lock.                                                   *)
(***************************************************************************)
EXTENDS Finalization, TLAPS

\* The part of the state an execution keeps to itself has its types.
LocalsOK ==
    /\ pc \in [Workers -> Pcs]
    /\ attempt \in [Workers -> 0 .. MaxRetry]
    /\ missing \in [Workers -> BOOLEAN]
    /\ result \in [Workers -> Statuses]
    /\ crashes \in 0 .. MaxCrashes /\ lapses \in 0 .. MaxLapses

\* The shared part has its types.
StoresOK == redis \in RedisType /\ mongo \in MongoType /\ breached \in BOOLEAN

LEMMA TypeParts == TypeOK <=> LocalsOK /\ StoresOK
  BY DEF TypeOK, LocalsOK, StoresOK

-----------------------------------------------------------------------------
(* What the helpers of an execution do to its own state. *)

LEMMA ReturnTyped ==
  ASSUME LocalsOK, NEW w \in Workers, NEW status, Return(w, status)
  PROVE  LocalsOK'
<1>1. pc' \in [Workers -> Pcs]
  BY DEF LocalsOK, Return, Goto, Pcs
<1>2. attempt' \in [Workers -> 0 .. MaxRetry]
  <2>1. 0 \in 0 .. MaxRetry
    BY BoundsAssumption
  <2> QED BY <2>1, Zenon DEF LocalsOK, Return
<1>3. missing' \in [Workers -> BOOLEAN] /\ result' \in [Workers -> Statuses]
  BY DEF LocalsOK, Return, Statuses
<1> QED BY <1>1, <1>2, <1>3 DEF LocalsOK, Return, bounds

LEMMA FinallyTyped ==
  ASSUME LocalsOK, NEW w \in Workers, NEW status \in Statuses, Finally(w, status)
  PROVE  LocalsOK'
  BY DEF LocalsOK, Finally, Goto, Pcs, bounds

LEMMA ContinueTyped ==
  ASSUME LocalsOK, NEW w \in Workers, NEW next \in Pcs, Continue(w, next)
  PROVE  LocalsOK'
  BY DEF LocalsOK, Continue, Goto, locals, bounds

LEMMA BeginTyped ==
  ASSUME LocalsOK, NEW w \in Workers, NEW a \in 0 .. MaxRetry, Begin(w, a)
  PROVE  LocalsOK'
<1>1. pc' \in [Workers -> Pcs]
  BY DEF LocalsOK, Begin, Goto, Pcs
<1>2. attempt' \in [Workers -> 0 .. MaxRetry] /\ result' \in [Workers -> Statuses]
  BY DEF LocalsOK, Begin
<1>3. missing' \in [Workers -> BOOLEAN]
  BY Zenon DEF LocalsOK, Begin
<1> QED BY <1>1, <1>2, <1>3 DEF LocalsOK, Begin, bounds

LEMMA AnswersTyped ==
  ASSUME LocalsOK, NEW w \in Workers, NEW status \in Statuses, Answers(w, status)
  PROVE  LocalsOK'
  BY ReturnTyped, FinallyTyped DEF Answers

-----------------------------------------------------------------------------
(* What the helpers do to the stores. *)

LEMMA QueueTyped ==
  ASSUME NEW r \in RedisType, NEW n \in 1 .. MaxRetry
  PROVE  Queue(r, n) \in RedisType
<1>1. n \in 0 .. MaxRetry
  BY BoundsAssumption
<1> QED BY <1>1, Zenon DEF Queue, RedisType

LEMMA ReleasesTyped ==
  ASSUME NEW r \in RedisType, NEW w
  PROVE  /\ ReleaseInflight(r, w) \in RedisType
         /\ ReleaseLock(r, w) \in RedisType
         /\ Teardown(r) \in RedisType
  BY DEF ReleaseInflight, ReleaseLock, Teardown, RedisType, Owners

LEMMA KeysTyped ==
  ASSUME NEW r \in RedisType, NEW w
  PROVE  ReleaseKeys(r, w) \in RedisType
<1>1. [ReleaseLock(r, w) EXCEPT !.claim = Nobody] \in RedisType
  BY ReleasesTyped DEF RedisType, Owners
<1> QED BY <1>1, ReleasesTyped DEF ReleaseKeys

LEMMA DrainTyped ==
  ASSUME NEW r \in RedisType
  PROVE  drainSettlementArtifacts(r) \in RedisType
<1>1. 0 \in 0 .. MaxRetry /\ 0 \in 0 .. WatchdogCap
  BY BoundsAssumption
<1>2. Nobody \in Owners
  BY DEF Owners
<1> QED BY <1>1, <1>2, Zenon DEF drainSettlementArtifacts, RedisType

\* A lifecycle transition ends in a lifecycle state.
LEMMA AdvanceTyped ==
  ASSUME StoresOK, BaseState # "none", NEW target \in Lifecycle
  PROVE  Advance(target) \in Lifecycle
  BY DEF StoresOK, RedisType, MongoType, BaseState, Advance, Lifecycle

LEMMA DeadLetterTyped ==
  ASSUME StoresOK, NEW w, NEW r \in RedisType, moveCallToRecoveryDeadLetter(w, r)
  PROVE  StoresOK'
<1>1. redis' \in RedisType
  BY DrainTyped DEF moveCallToRecoveryDeadLetter, RedisType
<1>2. mongo' \in MongoType
  BY DEF StoresOK, moveCallToRecoveryDeadLetter, MongoType
<1>3. breached' \in BOOLEAN
  BY DEF StoresOK, moveCallToRecoveryDeadLetter, DrainBreaches
<1> QED BY <1>1, <1>2, <1>3 DEF StoresOK

LEMMA RetryTyped ==
  ASSUME StoresOK, NEW w, NEW a \in 0 .. MaxRetry, NEW r \in RedisType,
         enqueueSettlementRetry(w, a, r)
  PROVE  StoresOK'
<1>1. CASE moveCallToRecoveryDeadLetter(w, r)
  BY <1>1, DeadLetterTyped
<1>2. CASE a + 1 <= MaxRetry /\ redis' = Queue(r, a + 1) /\ UNCHANGED <<mongo, breached>>
  <2>1. a + 1 \in 1 .. MaxRetry
    BY <1>2, BoundsAssumption
  <2> QED BY <1>2, <2>1, QueueTyped DEF StoresOK
<1> QED BY <1>1, <1>2 DEF enqueueSettlementRetry

LEMMA RecoveryTyped ==
  ASSUME StoresOK, NEW w, attemptFailedSettlementRecovery(w)
  PROVE  StoresOK'
<1> DEFINE r == [drainSettlementArtifacts(redis) EXCEPT !.cooldown = TRUE, !.deadLetter = FALSE]
<1>1. r \in RedisType
  BY DrainTyped DEF StoresOK, RedisType
<1>2. 1 \in 1 .. MaxRetry
  BY BoundsAssumption
<1>3. redis' \in RedisType
  BY <1>1, <1>2, QueueTyped DEF attemptFailedSettlementRecovery
<1>4. mongo' \in MongoType
  BY DEF StoresOK, attemptFailedSettlementRecovery, MongoType
<1>5. breached' \in BOOLEAN
  BY DEF StoresOK, attemptFailedSettlementRecovery, DrainBreaches
<1> QED BY <1>3, <1>4, <1>5 DEF StoresOK

-----------------------------------------------------------------------------
(* Type correctness, one step per action. *)

Typed == LocalsOK /\ StoresOK

LEMMA InitTyped == Init => TypeOK
<1> SUFFICES ASSUME Init PROVE Typed
  BY TypeParts DEF Typed
<1>1. LocalsOK
  BY BoundsAssumption DEF Init, LocalsOK, Pcs, Statuses
<1>2. PICK left \in Leftovers :
        /\ redis = [inflight |-> Nobody, claim |-> Nobody, lock |-> Nobody,
                    settled |-> FALSE, deadLetter |-> FALSE, cooldown |-> FALSE,
                    dedup |-> FALSE, queued |-> FALSE, payload |-> 0,
                    session |-> left[1], watchdog |-> 0]
        /\ mongo = [paid |-> FALSE, call |-> "pending", durable |-> "ending",
                    stale |-> FALSE, checkpoint |-> left[2]]
  BY DEF Init
<1>3. left[1] \in {"ACTIVE", "gone"} /\ left[2] \in {"ACTIVE", "none"}
  BY LeftoversAssumption
<1>4. 0 \in 0 .. MaxRetry /\ 0 \in 0 .. WatchdogCap /\ Nobody \in Owners
  BY BoundsAssumption DEF Owners
<1>5. redis \in RedisType /\ mongo \in MongoType
  BY <1>2, <1>3, <1>4 DEF RedisType, MongoType, Lifecycle
<1> QED BY <1>1, <1>5 DEF Typed, StoresOK, Init

LEMMA StartTyped ==
  ASSUME Typed, NEW w \in Workers, Start(w)
  PROVE  Typed'
<1> USE DEF Typed
<1>1. 0 \in 0 .. MaxRetry
  BY BoundsAssumption
<1>2. CASE CallEnds(w)
  BY <1>1, <1>2, BeginTyped DEF CallEnds, StoresOK
<1>3. CASE ConsumeRetry(w)
  <2>1. redis.payload \in 0 .. MaxRetry
    BY DEF StoresOK, RedisType
  <2>2. redis' \in RedisType
    BY <1>3 DEF ConsumeRetry, StoresOK, RedisType
  <2> QED BY <1>3, <2>1, <2>2, BeginTyped DEF ConsumeRetry, StoresOK
<1>4. CASE Reconcile(w)
  BY <1>1, <1>4, BeginTyped DEF Reconcile, StoresOK
<1>5. CASE WatchdogPass(w)
  <2>1. redis.watchdog + 1 \in 0 .. WatchdogCap
    BY <1>5, BoundsAssumption DEF WatchdogPass, StoresOK, RedisType
  <2>2. redis' \in RedisType
    BY <1>5, <2>1 DEF WatchdogPass, StoresOK, RedisType
  <2> QED BY <1>1, <1>5, <2>2, BeginTyped DEF WatchdogPass, StoresOK
<1> QED BY <1>2, <1>3, <1>4, <1>5 DEF Start

\* The execution up to its claims.
LEMMA ClaimsTyped ==
  ASSUME Typed, NEW w \in Workers
  PROVE  /\ DeadLetterGuard(w) => Typed'
         /\ TakeInflight(w) => Typed'
         /\ RejectStaleWorker(w) => Typed'
         /\ CheckSettled(w) => Typed'
         /\ TakeClaim(w) => Typed'
         /\ TakeLock(w) => Typed'
         /\ PollSettled(w) => Typed'
         /\ PollTimesOut(w) => Typed'
<1> USE DEF Typed
<1>0. /\ attempt[w] \in 0 .. MaxRetry /\ redis \in RedisType
      /\ {"inflight", "settledCheck", "claim", "lock", "poll", "durable"} \subseteq Pcs
      /\ Nobody \in Owners /\ w \in Owners
  BY DEF LocalsOK, StoresOK, Pcs, Owners
<1>1. ASSUME DeadLetterGuard(w) PROVE Typed'
  BY <1>0, <1>1, ReturnTyped, ContinueTyped DEF DeadLetterGuard, StoresOK
<1>2. ASSUME TakeInflight(w) PROVE Typed'
  <2>1. CASE redis.inflight = Nobody
    <3>1. redis' \in RedisType
      BY <1>0, <1>2, <2>1 DEF TakeInflight, RedisType
    <3> QED BY <1>0, <1>2, <2>1, <3>1, ContinueTyped DEF TakeInflight, StoresOK
  <2>2. CASE redis.inflight # Nobody
    <3>1. LocalsOK'
      BY <1>2, <2>2, ReturnTyped DEF TakeInflight
    <3>2. StoresOK'
      BY <1>0, <1>2, <2>2, RetryTyped DEF TakeInflight, StoresOK
    <3> QED BY <3>1, <3>2
  <2> QED BY <2>1, <2>2
<1>3. ASSUME RejectStaleWorker(w) PROVE Typed'
  BY <1>0, <1>3, ReturnTyped, ReleasesTyped, RetryTyped DEF RejectStaleWorker
<1>4. ASSUME CheckSettled(w) PROVE Typed'
  <2>1. LocalsOK'
    BY <1>0, <1>4, ReturnTyped, ContinueTyped DEF CheckSettled
  <2>2. [redis EXCEPT !.claim = Nobody] \in RedisType
    BY <1>0 DEF RedisType
  <2>3. redis' \in RedisType
    BY <1>0, <1>4, <2>2, ReleasesTyped DEF CheckSettled
  <2> QED BY <1>4, <2>1, <2>3 DEF CheckSettled, StoresOK
<1>5. ASSUME TakeClaim(w) PROVE Typed'
  <2>1. [redis EXCEPT !.claim = w] \in RedisType
    BY <1>0 DEF RedisType
  <2> QED BY <1>0, <1>5, <2>1, ContinueTyped DEF TakeClaim, StoresOK
<1>6. ASSUME TakeLock(w) PROVE Typed'
  <2>1. [redis EXCEPT !.lock = w] \in RedisType /\ [redis EXCEPT !.claim = Nobody] \in RedisType
    BY <1>0 DEF RedisType
  <2> QED BY <1>0, <1>6, <2>1, ContinueTyped DEF TakeLock, StoresOK
<1>7. ASSUME PollSettled(w) PROVE Typed'
  BY <1>0, <1>7, ReturnTyped, ReleasesTyped DEF PollSettled, StoresOK
<1>8. ASSUME PollTimesOut(w) PROVE Typed'
  BY <1>0, <1>8, ReturnTyped, ReleasesTyped, RetryTyped DEF PollTimesOut
<1> QED BY <1>1, <1>2, <1>3, <1>4, <1>5, <1>6, <1>7, <1>8

\* The execution between its claims and settleCall.
LEMMA ConvergeTyped ==
  ASSUME Typed, NEW w \in Workers
  PROVE  /\ ClaimDurable(w) => Typed'
         /\ TakeOver(w) => Typed'
         /\ DurableClaimLost(w) => Typed'
         /\ CheckpointSettling(w) => Typed'
         /\ CheckpointImpossible(w) => Typed'
         /\ Recheck(w) => Typed'
         /\ ZeroSettlementBlocked(w) => Typed'
<1> USE DEF Typed
<1>0. /\ attempt[w] \in 0 .. MaxRetry /\ redis \in RedisType /\ mongo \in MongoType
      /\ {"takeover", "lost", "blocked", "checkpoint", "recheck", "settle"}
           \subseteq Pcs
      /\ {"duplicate", "pending_retry", "dead_lettered"} \subseteq Statuses
      /\ Nobody \in Owners
  BY DEF LocalsOK, StoresOK, Pcs, Owners, Statuses
<1>1. ASSUME ClaimDurable(w) PROVE Typed'
  <2>1. CASE mongo.durable = "ending"
    <3>1. mongo' \in MongoType
      BY <1>0, <1>1, <2>1 DEF ClaimDurable, MongoType, MirrorSettling
    <3> QED BY <1>0, <1>1, <2>1, <3>1, ContinueTyped DEF ClaimDurable, StoresOK
  <2>2. CASE mongo.durable = "settled"
    BY <1>0, <1>1, <2>2, FinallyTyped, ReleasesTyped DEF ClaimDurable, StoresOK
  <2>3. CASE mongo.durable = "settling"
    BY <1>0, <1>1, <2>3, ContinueTyped DEF ClaimDurable, StoresOK
  <2>4. CASE mongo.durable = "failed_settlement"
    BY <1>0, <1>1, <2>4, ContinueTyped DEF ClaimDurable, StoresOK
  <2> QED BY <1>1, <2>1, <2>2, <2>3, <2>4 DEF ClaimDurable
<1>2. ASSUME TakeOver(w) PROVE Typed'
  <2>1. redis' \in RedisType /\ mongo' \in MongoType
    BY <1>0, <1>2 DEF TakeOver, RedisType, MongoType, MirrorSettling
  <2> QED BY <1>0, <1>2, <2>1, ContinueTyped DEF TakeOver, StoresOK
<1>3. ASSUME DurableClaimLost(w) PROVE Typed'
  BY <1>0, <1>3, ContinueTyped DEF DurableClaimLost, StoresOK
<1>5. ASSUME CheckpointSettling(w) PROVE Typed'
  <2>1. Advance("SETTLING") \in Lifecycle
    BY <1>5, AdvanceTyped DEF CheckpointSettling, Lifecycle
  <2>2. redis' \in RedisType /\ mongo' \in MongoType
    BY <1>0, <1>5, <2>1 DEF CheckpointSettling, RedisType, MongoType
  <2> QED BY <1>0, <1>5, <2>2, ContinueTyped DEF CheckpointSettling, StoresOK
<1>6. ASSUME CheckpointImpossible(w) PROVE Typed'
  <2>1. LocalsOK'
    BY <1>0, <1>6, FinallyTyped DEF CheckpointImpossible
  <2>2. StoresOK'
    BY <1>0, <1>6, RetryTyped, DeadLetterTyped DEF CheckpointImpossible
  <2> QED BY <2>1, <2>2
<1>7. ASSUME Recheck(w) PROVE Typed'
  <2>1. LocalsOK'
    BY <1>0, <1>7, FinallyTyped, ContinueTyped DEF Recheck
  <2>2. StoresOK'
    BY <1>0, <1>7, ReleasesTyped DEF Recheck, StoresOK
  <2> QED BY <2>1, <2>2
<1>8. ASSUME ZeroSettlementBlocked(w) PROVE Typed'
  BY <1>0, <1>8, FinallyTyped, ReleasesTyped, RetryTyped DEF ZeroSettlementBlocked
<1> QED BY <1>1, <1>2, <1>3, <1>5, <1>6, <1>7, <1>8

\* What becomes of an execution that lost the durable claim.
LEMMA LostTyped ==
  ASSUME Typed, NEW w \in Workers
  PROVE  /\ FinallyFirst(w) => Typed'
         /\ LostToSettled(w) => Typed'
         /\ LostTimesOut(w) => Typed'
         /\ LostRace(w) => Typed'
         /\ LostToFailure(w) => Typed'
<1> USE DEF Typed
<1>0. /\ attempt[w] \in 0 .. MaxRetry /\ redis \in RedisType
      /\ {"duplicate", "pending_retry", "dead_lettered"} \subseteq Statuses
  BY DEF LocalsOK, StoresOK, Statuses
<1>1. ASSUME FinallyFirst(w) PROVE Typed'
  <2>1. GoesOnAs[pc[w]] \in Pcs
    BY <1>1 DEF FinallyFirst, GoesOnAs, Pcs
  <2> QED BY <1>0, <1>1, <2>1, KeysTyped, ContinueTyped DEF FinallyFirst, StoresOK
<1>2. ASSUME LostToSettled(w) PROVE Typed'
  BY <1>0, <1>2, AnswersTyped, ReleasesTyped DEF LostToSettled, StoresOK
<1>3. ASSUME LostTimesOut(w) PROVE Typed'
  BY <1>0, <1>3, AnswersTyped, RetryTyped DEF LostTimesOut
<1>4. ASSUME LostRace(w) PROVE Typed'
  BY <1>0, <1>4, AnswersTyped, ReleasesTyped, DeadLetterTyped, RetryTyped DEF LostRace
<1>5. ASSUME LostToFailure(w) PROVE Typed'
  <2>1. LocalsOK'
    BY <1>0, <1>5, AnswersTyped DEF LostToFailure
  <2>2. StoresOK'
    BY <1>0, <1>5, ReleasesTyped, RetryTyped, RecoveryTyped DEF LostToFailure
  <2> QED BY <2>1, <2>2
<1> QED BY <1>1, <1>2, <1>3, <1>4, <1>5

\* settleCall, the marks, the cleanup, the catch and finally blocks.
LEMMA SettleTyped ==
  ASSUME Typed, NEW w \in Workers
  PROVE  /\ SettleReads(w) => Typed'
         /\ SettleReadsNothing(w) => Typed'
         /\ SettlePersists(w) => Typed'
         /\ SettleThrows(w) => Typed'
         /\ MarkCallSettled(w) => Typed'
         /\ MarkDurableSettled(w) => Typed'
         /\ MarkThrows(w) => Typed'
         /\ CleanUp(w) => Typed'
         /\ CleanUpFails(w) => Typed'
         /\ CatchCheckpoint(w) => Typed'
         /\ CatchRetry(w) => Typed'
         /\ RunFinally(w) => Typed'
         /\ DropPayload(w) => Typed'
<1> USE DEF Typed
<1>0. /\ attempt[w] \in 0 .. MaxRetry /\ redis \in RedisType /\ mongo \in MongoType
      /\ {"txn", "markCall", "markDurable", "cleanup", "catch", "catchRetry", "idle"} \subseteq Pcs
      /\ {"duplicate", "pending_retry", "settled"} \subseteq Statuses
      /\ Nobody \in Owners
      /\ 0 \in 0 .. MaxRetry
  BY BoundsAssumption DEF LocalsOK, StoresOK, Pcs, Owners, Statuses
<1>1. ASSUME SettleReads(w) PROVE Typed'
  <2>1. [Teardown(redis) EXCEPT !.settled = TRUE] \in RedisType
    BY <1>0 DEF Teardown, RedisType
  <2>2. redis' \in RedisType
    BY <1>0, <1>1, <2>1, ReleasesTyped DEF SettleReads
  <2>3. LocalsOK'
    BY <1>0, <1>1, FinallyTyped, ContinueTyped DEF SettleReads
  <2> QED BY <1>1, <2>2, <2>3 DEF SettleReads, StoresOK
<1>2. ASSUME SettleReadsNothing(w) PROVE Typed'
  BY <1>0, <1>2, FinallyTyped, ReleasesTyped, RetryTyped DEF SettleReadsNothing
<1>3. ASSUME SettlePersists(w) PROVE Typed'
  <2>1. mongo' \in MongoType
    BY <1>0, <1>3 DEF SettlePersists, MongoType
  <2> QED BY <1>0, <1>3, <2>1, ContinueTyped DEF SettlePersists, StoresOK
<1>4. ASSUME SettleThrows(w) PROVE Typed'
  <2>1. redis' \in RedisType
    BY <1>0, <1>4 DEF SettleThrows, RedisType
  <2> QED BY <1>0, <1>4, <2>1, ContinueTyped DEF SettleThrows, StoresOK
<1>5. ASSUME MarkCallSettled(w) PROVE Typed'
  <2>1. mongo' \in MongoType
    BY <1>0, <1>5 DEF MarkCallSettled, MongoType
  <2> QED BY <1>0, <1>5, <2>1, ContinueTyped DEF MarkCallSettled, StoresOK
<1>6. ASSUME MarkDurableSettled(w) PROVE Typed'
  <2>1. mongo' \in MongoType
    BY <1>0, <1>6 DEF MarkDurableSettled, MongoType
  <2> QED BY <1>0, <1>6, <2>1, ContinueTyped DEF MarkDurableSettled, StoresOK
<1>7. ASSUME MarkThrows(w) PROVE Typed'
  BY <1>0, <1>7, ContinueTyped DEF MarkThrows, StoresOK
<1>8. ASSUME CleanUp(w) PROVE Typed'
  <2>1. redis' \in RedisType /\ mongo' \in MongoType
    BY <1>0, <1>8 DEF CleanUp, RedisType, MongoType, Lifecycle
  <2> QED BY <1>0, <1>8, <2>1, FinallyTyped DEF CleanUp, StoresOK
<1>9. ASSUME CleanUpFails(w) PROVE Typed'
  BY <1>0, <1>9, FinallyTyped DEF CleanUpFails, StoresOK
<1>10. ASSUME CatchCheckpoint(w) PROVE Typed'
  <2>1. BaseState # "none" => Advance("FAILED") \in Lifecycle
    BY AdvanceTyped DEF Lifecycle
  <2>2. redis' \in RedisType /\ mongo' \in MongoType
    BY <1>0, <1>10, <2>1 DEF CatchCheckpoint, RedisType, MongoType, Lifecycle
  <2> QED BY <1>0, <1>10, <2>2, ContinueTyped DEF CatchCheckpoint, StoresOK
<1>11. ASSUME CatchRetry(w) PROVE Typed'
  BY <1>0, <1>11, FinallyTyped, RetryTyped DEF CatchRetry
<1>12. ASSUME RunFinally(w) PROVE Typed'
  BY <1>0, <1>12, KeysTyped, ReturnTyped DEF RunFinally, StoresOK
<1>13. ASSUME DropPayload(w) PROVE Typed'
  <2>1. redis' \in RedisType
    BY <1>0, <1>13 DEF DropPayload, RedisType
  <2> QED BY <1>0, <1>13, <2>1, ContinueTyped DEF DropPayload, StoresOK
<1> QED BY <1>1, <1>2, <1>3, <1>4, <1>5, <1>6, <1>7, <1>8, <1>9, <1>10, <1>11, <1>12, <1>13

\* Crashes, heartbeats, expiries and the steps of the queue and the repairs.
LEMMA EnvironmentTyped ==
  ASSUME Typed
  PROVE  /\ \A w \in Workers : Crash(w) \/ Heartbeat(w) => Typed'
         /\ ConsumeWithoutPayload \/ ReconcileEnqueue => Typed'
         /\ ReconcileFailed \/ WatchdogGivesUp => Typed'
         /\ ExpireGhost \/ Lapse \/ ExpireFlag \/ GrowStale => Typed'
<1> USE DEF Typed
<1>0. /\ redis \in RedisType /\ mongo \in MongoType
      /\ Nobody \in Owners /\ Ghost \in Owners /\ Workers \subseteq Owners
      /\ 0 \in 0 .. MaxRetry /\ 1 \in 1 .. MaxRetry
      /\ "idle" \in Pcs /\ "none" \in Statuses
  BY BoundsAssumption DEF StoresOK, Owners, Pcs, Statuses
<1>1. ASSUME NEW w \in Workers, Crash(w) PROVE Typed'
  <2>1. redis' \in RedisType
    BY <1>0, <1>1 DEF Crash, RedisType
  <2>2. crashes' \in 0 .. MaxCrashes
    BY <1>1, BoundsAssumption DEF Crash, LocalsOK
  <2>3. pc' \in [Workers -> Pcs] /\ attempt' \in [Workers -> 0 .. MaxRetry]
    BY <1>0, <1>1, Zenon DEF Crash, Goto, LocalsOK
  <2>4. missing' \in [Workers -> BOOLEAN] /\ result' \in [Workers -> Statuses]
    BY <1>0, <1>1, Zenon DEF Crash, LocalsOK
  <2> QED BY <1>1, <2>1, <2>2, <2>3, <2>4 DEF Crash, LocalsOK, StoresOK
<1>2. ASSUME NEW w \in Workers, Heartbeat(w) PROVE Typed'
  <2>1. redis' \in RedisType
    BY <1>0, <1>2 DEF Heartbeat, RedisType
  <2> QED BY <1>2, <2>1 DEF Heartbeat, LocalsOK, StoresOK, locals, bounds
<1>3. ASSUME ConsumeWithoutPayload PROVE Typed'
  <2>1. redis' \in RedisType
    BY <1>0, <1>3 DEF ConsumeWithoutPayload, RedisType
  <2> QED BY <1>3, <2>1 DEF ConsumeWithoutPayload, LocalsOK, StoresOK, locals, bounds
<1>4. ASSUME ReconcileEnqueue PROVE Typed'
  <2>1. redis' \in RedisType
    BY <1>0, <1>4, QueueTyped DEF ReconcileEnqueue
  <2> QED BY <1>4, <2>1 DEF ReconcileEnqueue, LocalsOK, StoresOK, locals, bounds
<1>5. ASSUME ReconcileFailed PROVE Typed'
  BY <1>5, RecoveryTyped DEF ReconcileFailed, LocalsOK, locals, bounds
<1>6. ASSUME WatchdogGivesUp PROVE Typed'
  BY <1>0, <1>6, DeadLetterTyped DEF WatchdogGivesUp, LocalsOK, locals, bounds
<1>7. ASSUME ExpireGhost PROVE Typed'
  <2>1. redis' \in RedisType
    BY <1>0, <1>7 DEF ExpireGhost, RedisType
  <2> QED BY <1>7, <2>1 DEF ExpireGhost, LocalsOK, StoresOK, locals, bounds
<1>8. ASSUME Lapse PROVE Typed'
  <2>1. PICK k \in {"inflight", "claim", "lock"} :
          redis' = [redis EXCEPT ![k] = Nobody] /\ breached' = (breached \/ k = "lock")
    BY <1>8 DEF Lapse
  <2>2. redis' \in RedisType
    <3>1. CASE k = "inflight"
      BY <1>0, <2>1, <3>1 DEF RedisType
    <3>2. CASE k = "claim"
      BY <1>0, <2>1, <3>2 DEF RedisType
    <3>3. CASE k = "lock"
      BY <1>0, <2>1, <3>3 DEF RedisType
    <3> QED BY <3>1, <3>2, <3>3
  <2>3. lapses' \in 0 .. MaxLapses
    BY <1>8, BoundsAssumption DEF Lapse, LocalsOK
  <2>4. breached' \in BOOLEAN
    BY <2>1 DEF StoresOK
  <2> QED BY <1>8, <2>2, <2>3, <2>4 DEF Lapse, LocalsOK, StoresOK, locals
<1>9. ASSUME ExpireFlag PROVE Typed'
  <2>1. PICK k \in {"dedup", "deadLetter", "settled", "cooldown"} :
          redis' = [redis EXCEPT ![k] = FALSE]
    BY <1>9 DEF ExpireFlag
  <2>2. redis' \in RedisType
    <3>1. CASE k = "dedup"
      BY <1>0, <2>1, <3>1 DEF RedisType
    <3>2. CASE k = "deadLetter"
      BY <1>0, <2>1, <3>2 DEF RedisType
    <3>3. CASE k = "settled"
      BY <1>0, <2>1, <3>3 DEF RedisType
    <3>4. CASE k = "cooldown"
      BY <1>0, <2>1, <3>4 DEF RedisType
    <3> QED BY <3>1, <3>2, <3>3, <3>4
  <2> QED BY <1>9, <2>2 DEF ExpireFlag, LocalsOK, StoresOK, locals, bounds
<1>10. ASSUME GrowStale PROVE Typed'
  <2>1. mongo' \in MongoType
    BY <1>0, <1>10 DEF GrowStale, MongoType
  <2> QED BY <1>10, <2>1 DEF GrowStale, LocalsOK, StoresOK, locals, bounds
<1> QED BY <1>1, <1>2, <1>3, <1>4, <1>5, <1>6, <1>7, <1>8, <1>9, <1>10

\* Every step keeps the types.
LEMMA StepTyped ==
  ASSUME TypeOK, [Next]_vars
  PROVE  TypeOK'
<1>1. Typed
  BY TypeParts DEF Typed
<1>2. CASE UNCHANGED vars
  BY <1>2 DEF vars, TypeOK
<1>3. ASSUME NEW w \in Workers, Start(w) \/ Execute(w) \/ Fail(w) \/ Heartbeat(w)
      PROVE Typed'
  <2>1. CASE Start(w)
    BY <1>1, <2>1, StartTyped
  <2>2. CASE Execute(w)
    BY <1>1, <2>2, ClaimsTyped, ConvergeTyped, LostTyped, SettleTyped DEF Execute
  <2>3. CASE Fail(w)
    BY <1>1, <2>3, ClaimsTyped, ConvergeTyped, SettleTyped, EnvironmentTyped DEF Fail
  <2>4. CASE Heartbeat(w)
    BY <1>1, <2>4, EnvironmentTyped
  <2> QED BY <1>3, <2>1, <2>2, <2>3, <2>4
<1>4. CASE \/ ConsumeWithoutPayload \/ ReconcileEnqueue \/ ReconcileFailed \/ WatchdogGivesUp
           \/ ExpireGhost \/ Lapse \/ ExpireFlag \/ GrowStale
  <2>1. Typed'
    BY <1>1, <1>4, EnvironmentTyped
  <2> QED BY <2>1 DEF Typed, TypeOK, LocalsOK, StoresOK
<1>5. Typed' => TypeOK'
  BY DEF Typed, TypeOK, LocalsOK, StoresOK
<1> QED BY <1>2, <1>3, <1>4, <1>5 DEF Next

\* The types hold in every reachable state: attempts never pass the retry cap
\* and no queued payload does, however executions interleave and crash
\* (billing-session-finalization.service.ts:1321-1860).
THEOREM FinalizationTypes == Spec => []TypeOK
<1>1. Init => TypeOK
  BY InitTyped
<1>2. TypeOK /\ [Next]_vars => TypeOK'
  BY StepTyped
<1> QED BY <1>1, <1>2, PTL DEF Spec

-----------------------------------------------------------------------------
(* Settled means paid.  The records are marked one by one after the commit,  *)
(* so the invariant must also know that whoever is about to mark one has     *)
(* committed, and that nothing ever takes the payment back.                  *)

Committed == {"markCall", "markDurable", "cleanup"}

PastCommit == \A w \in Workers : pc[w] \in Committed => mongo.paid

PaidInv == TypeOK /\ PastCommit /\ SettledMeansPaid

\* What a step does to the payment and to the records that speak of it: it
\* keeps the payment, and a record that newly says settled is right.
KeepsPaid ==
    /\ mongo.paid => mongo'.paid
    /\ redis'.settled => redis.settled \/ mongo'.paid
    /\ mongo'.call = "settled" => mongo.call = "settled" \/ mongo'.paid
    /\ mongo'.durable = "settled" => mongo.durable = "settled" \/ mongo'.paid

\* No execution newly stands after the commit without the payment.
KeepsCommit == \A v \in Workers : pc'[v] \in Committed => pc[v] \in Committed \/ mongo'.paid

\* Stores whose settled records are those of r and the current ones.
SameRecords(r) ==
    /\ redis'.settled = r.settled
    /\ mongo'.paid = mongo.paid
    /\ mongo'.call = "settled" => mongo.call = "settled"
    /\ mongo'.durable = "settled" => mongo.durable = "settled"

LEMMA RetryKeepsRecords ==
  ASSUME StoresOK, NEW w, NEW a \in 0 .. MaxRetry, NEW r \in RedisType,
         enqueueSettlementRetry(w, a, r) \/ moveCallToRecoveryDeadLetter(w, r)
  PROVE  SameRecords(r)
<1>0. mongo \in MongoType
  BY DEF StoresOK
<1>1. CASE moveCallToRecoveryDeadLetter(w, r)
  <2>1. drainSettlementArtifacts(r) \in RedisType /\ drainSettlementArtifacts(r).settled = r.settled
    BY DrainTyped DEF drainSettlementArtifacts, RedisType
  <2>2. redis'.settled = r.settled
    BY <1>1, <2>1 DEF moveCallToRecoveryDeadLetter, RedisType
  <2> QED BY <1>0, <1>1, <2>2 DEF moveCallToRecoveryDeadLetter, MongoType, SameRecords
<1>2. CASE redis' = Queue(r, a + 1) /\ UNCHANGED mongo
  <2>1. Queue(r, a + 1).settled = r.settled
    BY DEF Queue, RedisType
  <2> QED BY <1>2, <2>1 DEF SameRecords
<1> QED BY <1>1, <1>2 DEF enqueueSettlementRetry

LEMMA RecoveryKeepsRecords ==
  ASSUME StoresOK, NEW w, attemptFailedSettlementRecovery(w)
  PROVE  SameRecords(redis)
<1>0. redis \in RedisType /\ mongo \in MongoType
  BY DEF StoresOK
<1> DEFINE r == [drainSettlementArtifacts(redis) EXCEPT !.cooldown = TRUE, !.deadLetter = FALSE]
<1>1. r \in RedisType /\ r.settled = redis.settled
  BY <1>0, DrainTyped DEF drainSettlementArtifacts, RedisType
<1>2. redis' = Queue(r, 1)
  BY DEF attemptFailedSettlementRecovery
<1> HIDE DEF r
<1>3. Queue(r, 1).settled = r.settled
  BY <1>1 DEF Queue, RedisType
<1> QED BY <1>0, <1>1, <1>2, <1>3 DEF attemptFailedSettlementRecovery, MongoType, SameRecords

\* The releases and the teardown leave the settled key and the payload alone.
LEMMA ReleasesKeepRecords ==
  ASSUME NEW r \in RedisType, NEW w
  PROVE  /\ ReleaseInflight(r, w).settled = r.settled
         /\ ReleaseLock(r, w).settled = r.settled
         /\ Teardown(r).settled = r.settled
  BY DEF ReleaseInflight, ReleaseLock, Teardown, RedisType

LEMMA KeysKeepRecords ==
  ASSUME NEW r \in RedisType, NEW w
  PROVE  ReleaseKeys(r, w).settled = r.settled
<1>1. /\ [ReleaseLock(r, w) EXCEPT !.claim = Nobody] \in RedisType
      /\ [ReleaseLock(r, w) EXCEPT !.claim = Nobody].settled = r.settled
  BY ReleasesTyped, ReleasesKeepRecords DEF RedisType, Owners
<1> QED BY <1>1, ReleasesKeepRecords DEF ReleaseKeys

LEMMA SameRecordsKeepPaid ==
  ASSUME SameRecords(redis) \/ UNCHANGED <<redis, mongo>>
         \/ (redis'.settled = redis.settled /\ UNCHANGED mongo)
  PROVE  KeepsPaid
  BY DEF SameRecords, KeepsPaid

\* The helpers of an execution put it after the commit only when told so.
LEMMA MovesKeepCommit ==
  ASSUME LocalsOK, NEW w \in Workers,
         \/ \E status : Return(w, status)
         \/ \E status : Finally(w, status)
         \/ \E next : next \notin Committed /\ Continue(w, next)
         \/ \E next : mongo'.paid /\ Continue(w, next)
         \/ \E a : Begin(w, a)
         \/ UNCHANGED pc
  PROVE  KeepsCommit
<1>1. CASE UNCHANGED pc
  BY <1>1 DEF KeepsCommit
<1>2. ASSUME NEW next, Goto(w, next), next \notin Committed \/ mongo'.paid
      PROVE  KeepsCommit
  BY <1>2 DEF KeepsCommit, Goto, LocalsOK
<1> QED BY <1>1, <1>2 DEF Return, Finally, Continue, Begin, Committed

-----------------------------------------------------------------------------
LEMMA StartKeepsPaid ==
  ASSUME Typed, NEW w \in Workers, Start(w)
  PROVE  KeepsPaid /\ KeepsCommit
<1>0. redis \in RedisType /\ LocalsOK
  BY DEF Typed, StoresOK
<1>1. KeepsCommit
  BY <1>0, MovesKeepCommit DEF Start, CallEnds, ConsumeRetry, Reconcile, WatchdogPass
<1>2. redis'.settled = redis.settled /\ UNCHANGED mongo
  BY <1>0 DEF Start, CallEnds, ConsumeRetry, Reconcile, WatchdogPass, RedisType
<1> QED BY <1>1, <1>2, SameRecordsKeepPaid

LEMMA ClaimsKeepPaid ==
  ASSUME Typed, NEW w \in Workers,
         \/ DeadLetterGuard(w) \/ TakeInflight(w) \/ RejectStaleWorker(w) \/ CheckSettled(w)
         \/ TakeClaim(w) \/ TakeLock(w) \/ PollSettled(w) \/ PollTimesOut(w)
  PROVE  KeepsPaid /\ KeepsCommit
<1>0. redis \in RedisType /\ LocalsOK /\ StoresOK /\ attempt[w] \in 0 .. MaxRetry
  BY DEF Typed, StoresOK, LocalsOK
<1>1. KeepsCommit
  BY <1>0, MovesKeepCommit
  DEF DeadLetterGuard, TakeInflight, RejectStaleWorker, CheckSettled, TakeClaim, TakeLock,
      PollSettled, PollTimesOut, Committed
<1>2. ReleaseInflight(redis, w) \in RedisType /\ Teardown(redis) \in RedisType
  BY <1>0, ReleasesTyped
<1>3. CASE DeadLetterGuard(w) \/ TakeClaim(w) \/ TakeLock(w)
  <2>1. redis'.settled = redis.settled /\ UNCHANGED mongo
    BY <1>0, <1>3 DEF DeadLetterGuard, TakeClaim, TakeLock, RedisType
  <2> QED BY <1>1, <2>1, SameRecordsKeepPaid
<1>4. CASE TakeInflight(w)
  <2>1. CASE enqueueSettlementRetry(w, attempt[w], redis)
    BY <1>0, <1>1, <2>1, RetryKeepsRecords, SameRecordsKeepPaid
  <2>2. CASE redis' = [redis EXCEPT !.inflight = w] /\ UNCHANGED mongo
    <3>1. redis'.settled = redis.settled
      BY <1>0, <2>2 DEF RedisType
    <3> QED BY <1>1, <2>2, <3>1, SameRecordsKeepPaid
  <2>3. CASE UNCHANGED <<redis, mongo>>
    BY <1>1, <2>3, SameRecordsKeepPaid
  <2> QED BY <1>4, <2>1, <2>2, <2>3 DEF TakeInflight
<1>5. CASE RejectStaleWorker(w) \/ PollTimesOut(w)
  <2>1. SameRecords(ReleaseInflight(redis, w))
    BY <1>0, <1>2, <1>5, RetryKeepsRecords DEF RejectStaleWorker, PollTimesOut
  <2>2. SameRecords(redis)
    BY <1>0, <2>1, ReleasesKeepRecords DEF SameRecords
  <2> QED BY <1>1, <2>2, SameRecordsKeepPaid
<1>6. CASE CheckSettled(w) \/ PollSettled(w)
  <2>1. [redis EXCEPT !.claim = Nobody].settled = redis.settled
    BY <1>0 DEF RedisType
  <2>2. ReleaseInflight(Teardown(redis), w).settled = redis.settled
    BY <1>0, <1>2, ReleasesKeepRecords
  <2>3. /\ UNCHANGED mongo
        /\ \/ redis' = redis \/ redis' = [redis EXCEPT !.claim = Nobody]
           \/ redis' = ReleaseInflight(Teardown(redis), w)
    BY <1>6 DEF CheckSettled, PollSettled
  <2> QED BY <1>1, <2>1, <2>2, <2>3, SameRecordsKeepPaid
<1> QED BY <1>3, <1>4, <1>5, <1>6

LEMMA ConvergeKeepsPaid ==
  ASSUME Typed, NEW w \in Workers,
         \/ ClaimDurable(w) \/ TakeOver(w) \/ DurableClaimLost(w)
         \/ CheckpointSettling(w) \/ CheckpointImpossible(w) \/ Recheck(w)
         \/ ZeroSettlementBlocked(w)
  PROVE  KeepsPaid /\ KeepsCommit
<1>0. /\ redis \in RedisType /\ mongo \in MongoType /\ LocalsOK /\ StoresOK
      /\ attempt[w] \in 0 .. MaxRetry
  BY DEF Typed, StoresOK, LocalsOK
<1>1. KeepsCommit
  BY <1>0, MovesKeepCommit
  DEF ClaimDurable, TakeOver, DurableClaimLost, CheckpointSettling,
      CheckpointImpossible, Recheck, ZeroSettlementBlocked, Committed
<1>2. ReleaseInflight(redis, w) \in RedisType /\ Teardown(redis) \in RedisType
  BY <1>0, ReleasesTyped
\* Every retry and every dead letter of these actions.
<1>3. ASSUME \/ enqueueSettlementRetry(w, attempt[w], ReleaseInflight(redis, w))
             \/ enqueueSettlementRetry(w, attempt[w], redis)
             \/ moveCallToRecoveryDeadLetter(w, redis)
             \/ attemptFailedSettlementRecovery(w)
      PROVE  KeepsPaid
  <2>1. SameRecords(redis) \/ SameRecords(ReleaseInflight(redis, w))
    BY <1>0, <1>2, <1>3, RetryKeepsRecords, RecoveryKeepsRecords
  <2>2. SameRecords(redis)
    BY <1>0, <2>1, ReleasesKeepRecords DEF SameRecords
  <2> QED BY <2>2, SameRecordsKeepPaid
<1>4. ASSUME \/ UNCHANGED redis \/ redis' = Teardown(redis)
             \/ redis' = ReleaseInflight(Teardown(redis), w),
             UNCHANGED mongo
      PROVE  KeepsPaid
  <2>1. redis'.settled = redis.settled
    BY <1>0, <1>2, <1>4, ReleasesKeepRecords
  <2> QED BY <1>4, <2>1, SameRecordsKeepPaid
<1>5. CASE ClaimDurable(w)
  <2>1. ASSUME mongo' = [mongo EXCEPT !.durable = "settling", !.stale = FALSE,
                                      !.call = MirrorSettling(@)],
               UNCHANGED redis
        PROVE  KeepsPaid
    BY <1>0, <2>1 DEF KeepsPaid, MongoType, MirrorSettling
  <2> QED BY <1>1, <1>3, <1>4, <1>5, <2>1 DEF ClaimDurable
<1>6. CASE TakeOver(w)
  BY <1>0, <1>1, <1>6 DEF TakeOver, KeepsPaid, RedisType, MongoType, MirrorSettling
<1>7. CASE DurableClaimLost(w) \/ CheckpointImpossible(w) \/ ZeroSettlementBlocked(w)
  BY <1>1, <1>3, <1>4, <1>7 DEF DurableClaimLost, CheckpointImpossible, ZeroSettlementBlocked
<1>8. CASE Recheck(w)
  BY <1>1, <1>3, <1>4, <1>8 DEF Recheck
<1>9. CASE CheckpointSettling(w)
  BY <1>0, <1>1, <1>9 DEF CheckpointSettling, KeepsPaid, RedisType, MongoType
<1> QED BY <1>5, <1>6, <1>7, <1>8, <1>9

LEMMA LostKeepsPaid ==
  ASSUME Typed, NEW w \in Workers,
         \/ FinallyFirst(w) \/ LostToSettled(w) \/ LostTimesOut(w) \/ LostRace(w)
         \/ LostToFailure(w)
  PROVE  KeepsPaid /\ KeepsCommit
<1>0. redis \in RedisType /\ LocalsOK /\ StoresOK /\ attempt[w] \in 0 .. MaxRetry
  BY DEF Typed, StoresOK, LocalsOK
<1>1. KeepsCommit
  <2>1. CASE FinallyFirst(w)
    <3>1. GoesOnAs[pc[w]] \notin Committed
      BY <2>1 DEF FinallyFirst, GoesOnAs, Committed
    <3> QED BY <1>0, <2>1, <3>1, MovesKeepCommit DEF FinallyFirst
  <2>2. CASE LostToSettled(w) \/ LostTimesOut(w) \/ LostRace(w) \/ LostToFailure(w)
    BY <1>0, <2>2, MovesKeepCommit DEF LostToSettled, LostTimesOut, LostRace, LostToFailure, Answers
  <2> QED BY <2>1, <2>2
<1>2. ReleaseInflight(redis, w) \in RedisType /\ Teardown(redis) \in RedisType
  BY <1>0, ReleasesTyped
<1>3. CASE FinallyFirst(w) \/ LostToSettled(w)
  <2>1. redis'.settled = redis.settled /\ UNCHANGED mongo
    BY <1>0, <1>2, <1>3, KeysKeepRecords, ReleasesKeepRecords DEF FinallyFirst, LostToSettled
  <2> QED BY <1>1, <2>1, SameRecordsKeepPaid
<1>4. CASE LostTimesOut(w) \/ LostRace(w) \/ LostToFailure(w)
  <2>1. SameRecords(redis) \/ SameRecords(ReleaseInflight(redis, w))
    BY <1>0, <1>2, <1>4, RetryKeepsRecords, RecoveryKeepsRecords
    DEF LostTimesOut, LostRace, LostToFailure
  <2>2. SameRecords(redis)
    BY <1>0, <2>1, ReleasesKeepRecords DEF SameRecords
  <2> QED BY <1>1, <2>2, SameRecordsKeepPaid
<1> QED BY <1>3, <1>4

LEMMA SettleKeepsPaid ==
  ASSUME Typed, PastCommit, NEW w \in Workers,
         \/ SettleReads(w) \/ SettleReadsNothing(w) \/ SettlePersists(w) \/ SettleThrows(w)
         \/ MarkCallSettled(w) \/ MarkDurableSettled(w) \/ MarkThrows(w) \/ CleanUp(w)
         \/ CleanUpFails(w) \/ CatchCheckpoint(w) \/ CatchRetry(w) \/ RunFinally(w)
         \/ DropPayload(w)
  PROVE  KeepsPaid /\ KeepsCommit
<1>0. /\ redis \in RedisType /\ mongo \in MongoType /\ LocalsOK /\ StoresOK
      /\ attempt[w] \in 0 .. MaxRetry
  BY DEF Typed, StoresOK, LocalsOK
<1>1. ASSUME \E next : next \notin Committed /\ Continue(w, next) PROVE KeepsCommit
  BY <1>0, <1>1, MovesKeepCommit
<1>2. ASSUME mongo'.paid, \E next : Continue(w, next) PROVE KeepsCommit
  BY <1>0, <1>2, MovesKeepCommit
<1>3. ASSUME \E status : Finally(w, status) \/ Return(w, status) PROVE KeepsCommit
  BY <1>0, <1>3, MovesKeepCommit
<1>4. ReleaseLock(redis, w) \in RedisType /\ Teardown(redis) \in RedisType
  BY <1>0, ReleasesTyped
<1>5. CASE SettleReads(w)
  <2>1. CASE mongo.paid
    BY <1>3, <1>5, <2>1 DEF SettleReads, KeepsPaid
  <2>2. CASE ~mongo.paid
    BY <1>1, <1>5, <2>2 DEF SettleReads, KeepsPaid, Committed
  <2> QED BY <2>1, <2>2
<1>6. CASE SettleReadsNothing(w)
  <2>1. SameRecords(ReleaseLock(redis, w))
    BY <1>0, <1>4, <1>6, RetryKeepsRecords DEF SettleReadsNothing
  <2>2. SameRecords(redis)
    BY <1>0, <2>1, ReleasesKeepRecords DEF SameRecords
  <2> QED BY <1>3, <1>6, <2>2, SameRecordsKeepPaid DEF SettleReadsNothing
<1>7. CASE SettlePersists(w)
  <2>1. mongo'.paid
    BY <1>0, <1>7 DEF SettlePersists, MongoType
  <2> QED BY <1>0, <1>2, <1>7, <2>1 DEF SettlePersists, KeepsPaid
<1>8. CASE SettleThrows(w)
  BY <1>0, <1>1, <1>8 DEF SettleThrows, KeepsPaid, RedisType, Committed
<1>9. CASE MarkCallSettled(w)
  <2>1. mongo.paid
    BY <1>9 DEF MarkCallSettled, PastCommit, Committed
  <2>2. mongo'.paid
    BY <1>0, <1>9, <2>1 DEF MarkCallSettled, MongoType
  <2> QED BY <1>0, <1>2, <1>9, <2>1, <2>2 DEF MarkCallSettled, KeepsPaid
<1>10. CASE MarkDurableSettled(w)
  <2>1. mongo.paid
    BY <1>10 DEF MarkDurableSettled, PastCommit, Committed
  <2>2. mongo'.paid
    BY <1>0, <1>10, <2>1 DEF MarkDurableSettled, MongoType
  <2> QED BY <1>0, <1>2, <1>10, <2>1, <2>2 DEF MarkDurableSettled, KeepsPaid
<1>11. CASE MarkThrows(w)
  BY <1>1, <1>11 DEF MarkThrows, KeepsPaid, Committed
<1>12. CASE CleanUp(w)
  <2>1. mongo.paid
    BY <1>12 DEF CleanUp, PastCommit, Committed
  <2>2. mongo'.paid
    BY <1>0, <1>12, <2>1 DEF CleanUp, MongoType
  <2> QED BY <1>0, <1>3, <1>12, <2>1, <2>2 DEF CleanUp, KeepsPaid
<1>13. CASE CleanUpFails(w)
  BY <1>3, <1>13 DEF CleanUpFails, KeepsPaid
<1>14. CASE CatchCheckpoint(w)
  <2>1. KeepsPaid
    BY <1>0, <1>14 DEF CatchCheckpoint, KeepsPaid, RedisType, MongoType
  <2> QED BY <1>1, <1>14, <2>1 DEF CatchCheckpoint, Committed
<1>15. CASE CatchRetry(w)
  <2>1. SameRecords(redis)
    BY <1>0, <1>15, RetryKeepsRecords DEF CatchRetry
  <2> QED BY <1>3, <1>15, <2>1, SameRecordsKeepPaid DEF CatchRetry
<1>16. CASE RunFinally(w)
  <2>1. redis'.settled = redis.settled
    BY <1>0, <1>16, KeysKeepRecords DEF RunFinally
  <2> QED BY <1>3, <1>16, <2>1, SameRecordsKeepPaid DEF RunFinally
<1>17. CASE DropPayload(w)
  BY <1>0, <1>1, <1>17 DEF DropPayload, KeepsPaid, RedisType, Committed
<1> QED BY <1>5, <1>6, <1>7, <1>8, <1>9, <1>10, <1>11, <1>12, <1>13, <1>14, <1>15, <1>16, <1>17

LEMMA EnvironmentKeepsPaid ==
  ASSUME Typed,
         \/ \E w \in Workers : Crash(w) \/ Heartbeat(w)
         \/ ConsumeWithoutPayload \/ ReconcileEnqueue \/ ReconcileFailed \/ WatchdogGivesUp
         \/ ExpireGhost \/ Lapse \/ ExpireFlag \/ GrowStale
  PROVE  KeepsPaid /\ KeepsCommit
<1>0. redis \in RedisType /\ mongo \in MongoType /\ LocalsOK /\ StoresOK
  BY DEF Typed, StoresOK
<1>1. ASSUME NEW w \in Workers, Crash(w) PROVE KeepsPaid /\ KeepsCommit
  <2>1. redis'.settled = redis.settled /\ UNCHANGED mongo
    BY <1>0, <1>1 DEF Crash, RedisType
  <2>2. KeepsCommit
    BY <1>0, <1>1 DEF Crash, Goto, KeepsCommit, LocalsOK, Committed
  <2> QED BY <2>1, <2>2, SameRecordsKeepPaid
<1>2. ASSUME UNCHANGED pc PROVE KeepsCommit
  BY <1>2 DEF KeepsCommit
<1>3. CASE (\E w \in Workers : Heartbeat(w)) \/ ConsumeWithoutPayload \/ ExpireGhost
  BY <1>0, <1>2, <1>3 DEF Heartbeat, ConsumeWithoutPayload, ExpireGhost, KeepsPaid, RedisType
<1>4. CASE ReconcileEnqueue
  <2>1. Queue(redis, 1).settled = redis.settled
    BY <1>0 DEF Queue, RedisType
  <2> QED BY <1>2, <1>4, <2>1 DEF ReconcileEnqueue, KeepsPaid
<1>5. CASE ReconcileFailed
  <2>1. SameRecords(redis)
    BY <1>0, <1>5, RecoveryKeepsRecords DEF ReconcileFailed
  <2> QED BY <1>2, <1>5, <2>1, SameRecordsKeepPaid DEF ReconcileFailed
<1>6. CASE WatchdogGivesUp
  <2>1. 0 \in 0 .. MaxRetry
    BY BoundsAssumption
  <2>2. SameRecords(redis)
    BY <1>0, <1>6, <2>1, RetryKeepsRecords DEF WatchdogGivesUp
  <2> QED BY <1>2, <1>6, <2>2, SameRecordsKeepPaid DEF WatchdogGivesUp
<1>7. CASE Lapse
  <2>1. PICK k \in {"inflight", "claim", "lock"} : redis' = [redis EXCEPT ![k] = Nobody]
    BY <1>7 DEF Lapse
  <2>2. redis'.settled = redis.settled
    BY <1>0, <2>1 DEF RedisType
  <2> QED BY <1>2, <1>7, <2>2 DEF Lapse, KeepsPaid
<1>8. CASE ExpireFlag
  <2>1. PICK k \in {"dedup", "deadLetter", "settled", "cooldown"} :
          redis' = [redis EXCEPT ![k] = FALSE]
    BY <1>8 DEF ExpireFlag
  <2>2. redis'.settled => redis.settled
    BY <1>0, <2>1 DEF RedisType
  <2> QED BY <1>2, <1>8, <2>2 DEF ExpireFlag, KeepsPaid
<1>9. CASE GrowStale
  BY <1>0, <1>2, <1>9 DEF GrowStale, KeepsPaid, MongoType
<1> QED BY <1>1, <1>3, <1>4, <1>5, <1>6, <1>7, <1>8, <1>9

LEMMA StepKeepsPaid ==
  ASSUME TypeOK, PastCommit, Next
  PROVE  KeepsPaid /\ KeepsCommit
<1>1. Typed
  BY TypeParts DEF Typed
<1>2. ASSUME NEW w \in Workers, Start(w) \/ Execute(w) \/ Fail(w) \/ Heartbeat(w)
      PROVE  KeepsPaid /\ KeepsCommit
  <2>1. CASE Start(w)
    BY <1>1, <2>1, StartKeepsPaid
  <2>2. CASE Execute(w)
    BY <1>1, <2>2, ClaimsKeepPaid, ConvergeKeepsPaid, LostKeepsPaid, SettleKeepsPaid DEF Execute
  <2>3. CASE Fail(w)
    BY <1>1, <2>3, ClaimsKeepPaid, ConvergeKeepsPaid, SettleKeepsPaid, EnvironmentKeepsPaid
    DEF Fail
  <2>4. CASE Heartbeat(w)
    BY <1>1, <2>4, EnvironmentKeepsPaid
  <2> QED BY <1>2, <2>1, <2>2, <2>3, <2>4
<1> QED BY <1>1, <1>2, EnvironmentKeepsPaid DEF Next

LEMMA PaidInvInductive == PaidInv /\ [Next]_vars => PaidInv'
<1> SUFFICES ASSUME PaidInv, [Next]_vars PROVE PaidInv'
  OBVIOUS
<1>1. TypeOK'
  BY StepTyped DEF PaidInv
<1>2. CASE Next
  <2>1. KeepsPaid /\ KeepsCommit
    BY <1>2, StepKeepsPaid DEF PaidInv
  <2>2. PastCommit'
    BY <2>1 DEF PaidInv, PastCommit, KeepsPaid, KeepsCommit
  <2>3. SettledMeansPaid'
    BY <2>1 DEF PaidInv, SettledMeansPaid, KeepsPaid
  <2> QED BY <1>1, <2>2, <2>3 DEF PaidInv
<1>3. CASE UNCHANGED vars
  BY <1>1, <1>3 DEF vars, PaidInv, PastCommit, SettledMeansPaid
<1> QED BY <1>2, <1>3

LEMMA PaidInvariant == Spec => []PaidInv
<1>1. Init => PaidInv
  <2> SUFFICES ASSUME Init PROVE PaidInv
    OBVIOUS
  <2>1. PastCommit
    BY DEF Init, PastCommit, Committed
  <2>2. SettledMeansPaid
    BY DEF Init, SettledMeansPaid
  <2> QED BY <2>1, <2>2, InitTyped DEF PaidInv
<1> QED BY <1>1, PaidInvInductive, PTL DEF Spec

\* Whatever crashes, is retried, taken over or dead-lettered, a Redis key, a
\* Call or a durable session that says settled belongs to a call whose money
\* has moved (billing-session-finalization.service.ts:1556-1574).
THEOREM SettledTheorem == Spec => []SettledMeansPaid
<1>1. PaidInv => SettledMeansPaid
  BY DEF PaidInv
<1> QED BY <1>1, PaidInvariant, PTL

\* The answer of isCallBillingAlreadySettled never goes back from yes to no:
\* the keys that expire and the late dead letter that overwrites the Call
\* leave the history row (billing-session-finalization.service.ts:405-426).
THEOREM SettledStays == Spec => SettledStaysSettled
<1>1. PaidInv => (AlreadySettled <=> mongo.paid)
  BY DEF PaidInv, SettledMeansPaid, AlreadySettled
<1>2. PaidInv' => (mongo'.paid => AlreadySettled')
  BY DEF AlreadySettled
<1>3. PaidInv /\ PaidInv' /\ [Next]_vars => [AlreadySettled => AlreadySettled']_vars
  <2> SUFFICES ASSUME PaidInv, PaidInv', Next, AlreadySettled PROVE AlreadySettled'
    BY DEF vars
  <2>1. mongo.paid => mongo'.paid
    BY StepKeepsPaid DEF PaidInv, KeepsPaid
  <2> QED BY <1>1, <1>2, <2>1
<1> QED BY <1>3, PaidInvariant, PTL DEF Spec, SettledStaysSettled

-----------------------------------------------------------------------------
(* Overlap only after a breach.  As long as nobody has lost the settle lock  *)
(* while inside, whoever is inside holds it.                                 *)

HoldsLock == ~breached => \A w \in Workers : Inside(w) => redis.lock = w

LockInv == TypeOK /\ HoldsLock

InsidePcs == {"durable", "takeover", "lost", "blocked", "checkpoint", "recheck",
              "settle", "txn", "markCall", "markDurable", "cleanup", "catch", "catchRetry"}

LEMMA InsidePrime == \A v : (Inside(v) <=> pc[v] \in InsidePcs) /\ (Inside(v)' <=> pc'[v] \in InsidePcs)
  BY DEF Inside, InsidePcs

\* A step of w leaves the lock of every other execution alone, or breaches.
OthersKeepLock(w) ==
    ~breached' => ~breached /\ (redis.lock \in Workers \ {w} => redis'.lock = redis.lock)

\* Only w moves, and not into the settlement.
Outside(w) == ~Inside(w)' /\ \A v \in Workers \ {w} : Inside(v)' => Inside(v)

LEMMA LockSame ==
  ASSUME HoldsLock, redis'.lock = redis.lock, UNCHANGED breached,
         \A v \in Workers : Inside(v)' => Inside(v)
  PROVE  HoldsLock'
  BY DEF HoldsLock

LEMMA LockLeft ==
  ASSUME HoldsLock, NEW w, OthersKeepLock(w), Outside(w)
  PROVE  HoldsLock'
  BY DEF HoldsLock, OthersKeepLock, Outside

\* Where the helpers of an execution lead.
LEMMA MovesOutside ==
  ASSUME LocalsOK, NEW w \in Workers,
         \/ \E status : Return(w, status)
         \/ \E status : Finally(w, status)
         \/ \E next : next \notin InsidePcs /\ Continue(w, next)
         \/ \E a : Begin(w, a)
  PROVE  Outside(w)
<1>1. ASSUME NEW next, Goto(w, next), next \notin InsidePcs PROVE Outside(w)
  BY <1>1, InsidePrime DEF Goto, LocalsOK, Outside
<1> QED BY <1>1 DEF Return, Finally, Continue, Begin, InsidePcs

LEMMA MovesInside ==
  ASSUME LocalsOK, NEW w \in Workers, Inside(w), NEW next, Continue(w, next)
  PROVE  \A v \in Workers : Inside(v)' => Inside(v)
  BY InsidePrime DEF Continue, Goto, LocalsOK

LEMMA ReleasesKeepLock ==
  ASSUME NEW r \in RedisType, NEW w \in Workers
  PROVE  /\ ReleaseInflight(r, w).lock = r.lock
         /\ Teardown(r).lock = r.lock
         /\ ReleaseLock(r, w).lock = IF r.lock = w THEN Nobody ELSE r.lock
  BY DEF ReleaseInflight, ReleaseLock, Teardown, RedisType

LEMMA KeysKeepLock ==
  ASSUME NEW r \in RedisType, NEW w \in Workers
  PROVE  ReleaseKeys(r, w).lock = IF r.lock = w THEN Nobody ELSE r.lock
<1>1. /\ [ReleaseLock(r, w) EXCEPT !.claim = Nobody] \in RedisType
      /\ [ReleaseLock(r, w) EXCEPT !.claim = Nobody].lock = IF r.lock = w THEN Nobody ELSE r.lock
  BY ReleasesTyped, ReleasesKeepLock DEF RedisType, Owners
<1> QED BY <1>1, ReleasesKeepLock DEF ReleaseKeys

LEMMA DeadLetterKeepsLock ==
  ASSUME Typed, NEW w, NEW r, moveCallToRecoveryDeadLetter(w, r)
  PROVE  OthersKeepLock(w)
  BY DEF moveCallToRecoveryDeadLetter, DrainBreaches, OthersKeepLock, Typed, StoresOK

LEMMA RecoveryKeepsLock ==
  ASSUME Typed, NEW w, attemptFailedSettlementRecovery(w)
  PROVE  OthersKeepLock(w)
  BY DEF attemptFailedSettlementRecovery, DrainBreaches, OthersKeepLock, Typed, StoresOK

LEMMA RetryKeepsLock ==
  ASSUME Typed, NEW w, NEW a, NEW r \in RedisType, enqueueSettlementRetry(w, a, r),
         redis.lock \in Workers \ {w} => r.lock = redis.lock
  PROVE  OthersKeepLock(w)
<1>1. CASE moveCallToRecoveryDeadLetter(w, r)
  BY <1>1, DeadLetterKeepsLock
<1>2. CASE redis' = Queue(r, a + 1) /\ UNCHANGED breached
  <2>1. Queue(r, a + 1).lock = r.lock
    BY DEF Queue, RedisType
  <2> QED BY <1>2, <2>1 DEF OthersKeepLock
<1> QED BY <1>1, <1>2 DEF enqueueSettlementRetry

LEMMA StartKeepsLock ==
  ASSUME Typed, HoldsLock, NEW w \in Workers, Start(w)
  PROVE  HoldsLock'
<1>0. redis \in RedisType /\ LocalsOK
  BY DEF Typed, StoresOK
<1>1. Outside(w)
  BY <1>0, MovesOutside DEF Start, CallEnds, ConsumeRetry, Reconcile, WatchdogPass
<1>2. redis'.lock = redis.lock /\ UNCHANGED breached
  BY <1>0 DEF Start, CallEnds, ConsumeRetry, Reconcile, WatchdogPass, RedisType
<1> QED BY <1>1, <1>2, LockLeft DEF OthersKeepLock

LEMMA ClaimsKeepLock ==
  ASSUME Typed, HoldsLock, NEW w \in Workers,
         \/ DeadLetterGuard(w) \/ TakeInflight(w) \/ RejectStaleWorker(w) \/ CheckSettled(w)
         \/ TakeClaim(w) \/ TakeLock(w) \/ PollSettled(w) \/ PollTimesOut(w)
  PROVE  HoldsLock'
<1>0. redis \in RedisType /\ LocalsOK
  BY DEF Typed, StoresOK
<1>1. ReleaseInflight(redis, w) \in RedisType /\ Teardown(redis) \in RedisType
  BY <1>0, ReleasesTyped
<1>2. CASE DeadLetterGuard(w) \/ TakeClaim(w)
  <2>1. redis'.lock = redis.lock /\ UNCHANGED breached
    BY <1>0, <1>2 DEF DeadLetterGuard, TakeClaim, RedisType
  <2>2. Outside(w)
    BY <1>0, <1>2, MovesOutside DEF DeadLetterGuard, TakeClaim, InsidePcs
  <2> QED BY <2>1, <2>2, LockLeft DEF OthersKeepLock
<1>3. CASE TakeInflight(w)
  <2>1. Outside(w)
    BY <1>0, <1>3, MovesOutside DEF TakeInflight, InsidePcs
  <2>2. CASE enqueueSettlementRetry(w, attempt[w], redis)
    BY <1>0, <2>1, <2>2, RetryKeepsLock, LockLeft
  <2>3. CASE \/ redis' = [redis EXCEPT !.inflight = w] /\ UNCHANGED breached
             \/ UNCHANGED <<redis, breached>>
    <3>1. redis'.lock = redis.lock /\ UNCHANGED breached
      BY <1>0, <2>3 DEF RedisType
    <3> QED BY <2>1, <3>1, LockLeft DEF OthersKeepLock
  <2> QED BY <1>3, <2>2, <2>3 DEF TakeInflight
<1>4. CASE RejectStaleWorker(w) \/ PollTimesOut(w)
  <2>1. Outside(w)
    BY <1>0, <1>4, MovesOutside DEF RejectStaleWorker, PollTimesOut
  <2>2. enqueueSettlementRetry(w, attempt[w], ReleaseInflight(redis, w))
    BY <1>4 DEF RejectStaleWorker, PollTimesOut
  <2>3. OthersKeepLock(w)
    BY <1>0, <1>1, <2>2, ReleasesKeepLock, RetryKeepsLock
  <2> QED BY <2>1, <2>3, LockLeft
<1>5. CASE CheckSettled(w) \/ PollSettled(w)
  <2>1. Outside(w)
    BY <1>0, <1>5, MovesOutside DEF CheckSettled, PollSettled, InsidePcs
  <2>2. [redis EXCEPT !.claim = Nobody].lock = redis.lock
    BY <1>0 DEF RedisType
  <2>3. ReleaseInflight(Teardown(redis), w).lock = redis.lock
    BY <1>0, <1>1, ReleasesKeepLock
  <2>4. /\ UNCHANGED breached
        /\ \/ redis' = redis \/ redis' = [redis EXCEPT !.claim = Nobody]
           \/ redis' = ReleaseInflight(Teardown(redis), w)
    BY <1>5 DEF CheckSettled, PollSettled
  <2> QED BY <2>1, <2>2, <2>3, <2>4, LockLeft DEF OthersKeepLock
<1>6. CASE TakeLock(w)
  <2>1. CASE redis.lock = Nobody
    <3>1. \A v \in Workers : Inside(v) => breached
      BY <2>1, TokenAssumption DEF HoldsLock
    <3>2. redis'.lock = w /\ UNCHANGED breached
      BY <1>0, <1>6, <2>1 DEF TakeLock, RedisType
    <3>3. \A v \in Workers \ {w} : Inside(v)' => Inside(v)
      BY <1>0, <1>6, <2>1, InsidePrime DEF TakeLock, Continue, Goto, LocalsOK
    <3> QED BY <3>1, <3>2, <3>3 DEF HoldsLock
  <2>2. CASE redis.lock # Nobody
    <3>1. Outside(w)
      BY <1>0, <1>6, <2>2, MovesOutside DEF TakeLock, InsidePcs
    <3>2. redis'.lock = redis.lock /\ UNCHANGED breached
      BY <1>0, <1>6, <2>2 DEF TakeLock, RedisType
    <3> QED BY <3>1, <3>2, LockLeft DEF OthersKeepLock
  <2> QED BY <2>1, <2>2
<1> QED BY <1>2, <1>3, <1>4, <1>5, <1>6

LEMMA ConvergeKeepsLock ==
  ASSUME Typed, HoldsLock, NEW w \in Workers,
         \/ ClaimDurable(w) \/ TakeOver(w) \/ DurableClaimLost(w)
         \/ CheckpointSettling(w) \/ CheckpointImpossible(w) \/ Recheck(w)
         \/ ZeroSettlementBlocked(w)
  PROVE  HoldsLock'
<1>0. redis \in RedisType /\ LocalsOK
  BY DEF Typed, StoresOK
<1>1. ReleaseInflight(redis, w) \in RedisType /\ Teardown(redis) \in RedisType
  BY <1>0, ReleasesTyped
<1>2. Inside(w)
  BY DEF ClaimDurable, TakeOver, DurableClaimLost, CheckpointSettling,
         CheckpointImpossible, Recheck, ZeroSettlementBlocked, Inside
\* The execution goes on inside.
<1>3. ASSUME \E next : Continue(w, next), redis'.lock = redis.lock, UNCHANGED breached
      PROVE  HoldsLock'
  BY <1>0, <1>2, <1>3, MovesInside, LockSame
\* It leaves: without touching the lock, or with a retry or a dead letter.
<1>4. ASSUME \E status : Finally(w, status), OthersKeepLock(w)
      PROVE  HoldsLock'
  BY <1>0, <1>4, MovesOutside, LockLeft
<1>5. ASSUME \/ enqueueSettlementRetry(w, attempt[w], ReleaseInflight(redis, w))
             \/ enqueueSettlementRetry(w, attempt[w], redis)
             \/ moveCallToRecoveryDeadLetter(w, redis)
             \/ attemptFailedSettlementRecovery(w)
      PROVE  OthersKeepLock(w)
  BY <1>0, <1>1, <1>5, ReleasesKeepLock, RetryKeepsLock, DeadLetterKeepsLock, RecoveryKeepsLock
<1>6. ASSUME \/ UNCHANGED redis \/ redis' = Teardown(redis)
             \/ redis' = ReleaseInflight(Teardown(redis), w),
             UNCHANGED breached
      PROVE  redis'.lock = redis.lock /\ OthersKeepLock(w)
  <2>1. redis'.lock = redis.lock
    BY <1>0, <1>1, <1>6, ReleasesKeepLock
  <2> QED BY <1>6, <2>1 DEF OthersKeepLock
<1>7. CASE ClaimDurable(w)
  BY <1>3, <1>4, <1>5, <1>6, <1>7 DEF ClaimDurable
<1>8. CASE TakeOver(w)
  BY <1>0, <1>3, <1>8 DEF TakeOver, RedisType
<1>9. CASE DurableClaimLost(w)
  BY <1>3, <1>4, <1>5, <1>6, <1>9 DEF DurableClaimLost
<1>10. CASE CheckpointImpossible(w) \/ ZeroSettlementBlocked(w)
  BY <1>4, <1>5, <1>10 DEF CheckpointImpossible, ZeroSettlementBlocked
<1>11. CASE Recheck(w)
  BY <1>3, <1>4, <1>5, <1>6, <1>11 DEF Recheck
<1>12. CASE CheckpointSettling(w)
  BY <1>0, <1>3, <1>12 DEF CheckpointSettling, RedisType
<1> QED BY <1>7, <1>8, <1>9, <1>10, <1>11, <1>12

LEMMA LostKeepsLock ==
  ASSUME Typed, HoldsLock, NEW w \in Workers,
         \/ FinallyFirst(w) \/ LostToSettled(w) \/ LostTimesOut(w) \/ LostRace(w)
         \/ LostToFailure(w)
  PROVE  HoldsLock'
<1>0. redis \in RedisType /\ LocalsOK
  BY DEF Typed, StoresOK
<1>1. ReleaseInflight(redis, w) \in RedisType /\ Teardown(redis) \in RedisType
  BY <1>0, ReleasesTyped
<1>2. Outside(w)
  <2>1. CASE FinallyFirst(w)
    <3>1. GoesOnAs[pc[w]] \notin InsidePcs
      BY <2>1 DEF FinallyFirst, GoesOnAs, InsidePcs
    <3> QED BY <1>0, <2>1, <3>1, MovesOutside DEF FinallyFirst
  <2>2. CASE LostToSettled(w) \/ LostTimesOut(w) \/ LostRace(w) \/ LostToFailure(w)
    BY <1>0, <2>2, MovesOutside DEF LostToSettled, LostTimesOut, LostRace, LostToFailure, Answers
  <2> QED BY <2>1, <2>2
<1>3. OthersKeepLock(w)
  <2>1. CASE FinallyFirst(w) \/ LostToSettled(w)
    BY <1>0, <1>1, <2>1, KeysKeepLock, ReleasesKeepLock
    DEF FinallyFirst, LostToSettled, OthersKeepLock
  <2>2. CASE LostTimesOut(w) \/ LostRace(w) \/ LostToFailure(w)
    BY <1>0, <1>1, <2>2, ReleasesKeepLock, RetryKeepsLock, DeadLetterKeepsLock, RecoveryKeepsLock
    DEF LostTimesOut, LostRace, LostToFailure
  <2> QED BY <2>1, <2>2
<1> QED BY <1>2, <1>3, LockLeft

LEMMA SettleKeepsLock ==
  ASSUME Typed, HoldsLock, NEW w \in Workers,
         \/ SettleReads(w) \/ SettleReadsNothing(w) \/ SettlePersists(w) \/ SettleThrows(w)
         \/ MarkCallSettled(w) \/ MarkDurableSettled(w) \/ MarkThrows(w) \/ CleanUp(w)
         \/ CleanUpFails(w) \/ CatchCheckpoint(w) \/ CatchRetry(w) \/ RunFinally(w)
         \/ DropPayload(w)
  PROVE  HoldsLock'
<1>0. redis \in RedisType /\ LocalsOK
  BY DEF Typed, StoresOK
<1>1. ReleaseLock(redis, w) \in RedisType /\ Teardown(redis) \in RedisType
  BY <1>0, ReleasesTyped
<1>2. ASSUME Inside(w), \E next : Continue(w, next), redis'.lock = redis.lock, UNCHANGED breached
      PROVE  HoldsLock'
  BY <1>0, <1>2, MovesInside, LockSame
<1>3. ASSUME \E status : Finally(w, status) \/ Return(w, status), OthersKeepLock(w)
      PROVE  HoldsLock'
  BY <1>0, <1>3, MovesOutside, LockLeft
<1>4. CASE SettleReads(w)
  <2>1. CASE mongo.paid
    <3> DEFINE r == [Teardown(redis) EXCEPT !.settled = TRUE]
    <3>1. r \in RedisType /\ r.lock = redis.lock
      BY <1>0, <1>1, ReleasesKeepLock DEF RedisType
    <3>2. redis' = ReleaseLock(r, w) /\ UNCHANGED breached
      BY <1>4, <2>1 DEF SettleReads
    <3> HIDE DEF r
    <3>3. redis'.lock = IF redis.lock = w THEN Nobody ELSE redis.lock
      BY <3>1, <3>2, ReleasesKeepLock
    <3>4. OthersKeepLock(w)
      BY <3>2, <3>3 DEF OthersKeepLock
    <3> QED BY <1>3, <1>4, <2>1, <3>4 DEF SettleReads
  <2>2. CASE ~mongo.paid
    BY <1>2, <1>4, <2>2 DEF SettleReads, Inside
  <2> QED BY <2>1, <2>2
<1>5. CASE SettleReadsNothing(w)
  <2>1. OthersKeepLock(w)
    BY <1>0, <1>1, <1>5, ReleasesKeepLock, RetryKeepsLock DEF SettleReadsNothing
  <2> QED BY <1>3, <1>5, <2>1 DEF SettleReadsNothing
<1>6. CASE SettlePersists(w) \/ MarkCallSettled(w) \/ MarkDurableSettled(w) \/ MarkThrows(w)
  BY <1>2, <1>6 DEF SettlePersists, MarkCallSettled, MarkDurableSettled, MarkThrows, Inside
<1>7. CASE SettleThrows(w)
  BY <1>0, <1>2, <1>7 DEF SettleThrows, Inside, RedisType
<1>8. CASE CleanUp(w) \/ CleanUpFails(w)
  <2>1. redis'.lock = redis.lock /\ UNCHANGED breached
    BY <1>0, <1>8 DEF CleanUp, CleanUpFails, RedisType
  <2> QED BY <1>3, <1>8, <2>1 DEF CleanUp, CleanUpFails, OthersKeepLock
<1>9. CASE CatchCheckpoint(w)
  <2>1. redis'.lock = redis.lock /\ UNCHANGED breached
    BY <1>0, <1>9 DEF CatchCheckpoint, RedisType
  <2> QED BY <1>2, <1>9, <2>1 DEF CatchCheckpoint, Inside
<1>10. CASE CatchRetry(w)
  <2>1. OthersKeepLock(w)
    BY <1>0, <1>10, RetryKeepsLock DEF CatchRetry
  <2> QED BY <1>3, <1>10, <2>1 DEF CatchRetry
<1>11. CASE RunFinally(w)
  <2>1. OthersKeepLock(w)
    BY <1>0, <1>11, KeysKeepLock DEF RunFinally, OthersKeepLock
  <2> QED BY <1>3, <1>11, <2>1 DEF RunFinally
<1>12. CASE DropPayload(w)
  <2>1. redis'.lock = redis.lock /\ UNCHANGED breached
    BY <1>0, <1>12 DEF DropPayload, RedisType
  <2>2. Outside(w)
    BY <1>0, <1>12, MovesOutside DEF DropPayload, InsidePcs
  <2> QED BY <2>1, <2>2, LockLeft DEF OthersKeepLock
<1> QED BY <1>4, <1>5, <1>6, <1>7, <1>8, <1>9, <1>10, <1>11, <1>12

LEMMA EnvironmentKeepsLock ==
  ASSUME Typed, HoldsLock,
         \/ \E w \in Workers : Crash(w) \/ Heartbeat(w)
         \/ ConsumeWithoutPayload \/ ReconcileEnqueue \/ ReconcileFailed \/ WatchdogGivesUp
         \/ ExpireGhost \/ Lapse \/ ExpireFlag \/ GrowStale
  PROVE  HoldsLock'
<1>0. redis \in RedisType /\ LocalsOK
  BY DEF Typed, StoresOK
<1>1. ASSUME NEW w \in Workers, Crash(w) PROVE HoldsLock'
  <2>1. Outside(w)
    BY <1>0, <1>1, InsidePrime DEF Crash, Goto, LocalsOK, InsidePcs, Outside
  <2>2. redis'.lock = (IF redis.lock = w THEN Ghost ELSE redis.lock) /\ UNCHANGED breached
    BY <1>0, <1>1 DEF Crash, RedisType
  <2> QED BY <2>1, <2>2, LockLeft DEF OthersKeepLock
\* A beat that finds another token in the lock comes after a breach.
<1>2. ASSUME NEW w \in Workers, Heartbeat(w) PROVE HoldsLock'
  <2>1. breached /\ UNCHANGED breached
    BY <1>2 DEF Heartbeat, HoldsLock
  <2> QED BY <2>1 DEF HoldsLock
<1>3. ASSUME UNCHANGED pc, redis'.lock = redis.lock, UNCHANGED breached
      PROVE  HoldsLock'
  BY <1>3, InsidePrime, LockSame
<1>4. ASSUME UNCHANGED pc, OthersKeepLock(Nobody) PROVE HoldsLock'
  BY <1>4, InsidePrime, TokenAssumption DEF OthersKeepLock, HoldsLock
<1>5. CASE ConsumeWithoutPayload
  BY <1>0, <1>3, <1>5 DEF ConsumeWithoutPayload, RedisType
<1>6. CASE ReconcileEnqueue
  <2>1. Queue(redis, 1).lock = redis.lock
    BY <1>0 DEF Queue, RedisType
  <2> QED BY <1>3, <1>6, <2>1 DEF ReconcileEnqueue
<1>7. CASE ReconcileFailed \/ WatchdogGivesUp
  <2>1. OthersKeepLock(Nobody)
    BY <1>7, DeadLetterKeepsLock, RecoveryKeepsLock DEF ReconcileFailed, WatchdogGivesUp
  <2> QED BY <1>4, <1>7, <2>1 DEF ReconcileFailed, WatchdogGivesUp
<1>8. CASE ExpireGhost
  <2>1. redis'.lock = IF redis.lock = Ghost THEN Nobody ELSE redis.lock
    BY <1>0, <1>8 DEF ExpireGhost, RedisType
  <2>2. OthersKeepLock(Nobody)
    BY <1>8, <2>1, TokenAssumption DEF ExpireGhost, OthersKeepLock
  <2> QED BY <1>4, <1>8, <2>2 DEF ExpireGhost
<1>9. CASE Lapse
  <2>1. PICK k \in {"inflight", "claim", "lock"} :
          redis' = [redis EXCEPT ![k] = Nobody] /\ breached' = (breached \/ k = "lock")
    BY <1>9 DEF Lapse
  <2>2. CASE k = "lock"
    BY <2>1, <2>2 DEF HoldsLock
  <2>3. CASE k # "lock"
    <3>1. redis'.lock = redis.lock
      BY <1>0, <2>1, <2>3 DEF RedisType
    <3>2. OthersKeepLock(Nobody)
      BY <2>1, <3>1 DEF OthersKeepLock
    <3> QED BY <1>4, <1>9, <3>2 DEF Lapse
  <2> QED BY <2>2, <2>3
<1>10. CASE ExpireFlag
  <2>1. PICK k \in {"dedup", "deadLetter", "settled", "cooldown"} :
          redis' = [redis EXCEPT ![k] = FALSE]
    BY <1>10 DEF ExpireFlag
  <2>2. redis'.lock = redis.lock
    BY <1>0, <2>1 DEF RedisType
  <2> QED BY <1>3, <1>10, <2>2 DEF ExpireFlag
<1>11. CASE GrowStale
  BY <1>3, <1>11 DEF GrowStale
<1> QED BY <1>1, <1>2, <1>5, <1>6, <1>7, <1>8, <1>9, <1>10, <1>11

LEMMA LockInvInductive == LockInv /\ [Next]_vars => LockInv'
<1> SUFFICES ASSUME LockInv, [Next]_vars PROVE HoldsLock'
  BY StepTyped DEF LockInv
<1>1. Typed
  BY TypeParts DEF Typed, LockInv
<1>2. HoldsLock
  BY DEF LockInv
<1>3. ASSUME NEW w \in Workers, Start(w) \/ Execute(w) \/ Fail(w) \/ Heartbeat(w)
      PROVE  HoldsLock'
  <2>1. CASE Start(w)
    BY <1>1, <1>2, <2>1, StartKeepsLock
  <2>2. CASE Execute(w)
    BY <1>1, <1>2, <2>2, ClaimsKeepLock, ConvergeKeepsLock, LostKeepsLock, SettleKeepsLock
    DEF Execute
  <2>3. CASE Fail(w)
    BY <1>1, <1>2, <2>3, ClaimsKeepLock, ConvergeKeepsLock, SettleKeepsLock, EnvironmentKeepsLock
    DEF Fail
  <2>4. CASE Heartbeat(w)
    BY <1>1, <1>2, <2>4, EnvironmentKeepsLock
  <2> QED BY <1>3, <2>1, <2>2, <2>3, <2>4
<1>4. CASE Next
  BY <1>1, <1>2, <1>3, <1>4, EnvironmentKeepsLock DEF Next
<1>5. CASE UNCHANGED vars
  BY <1>2, <1>5, InsidePrime, LockSame DEF vars
<1> QED BY <1>4, <1>5

\* Two executions are inside the settlement together only after one of them
\* has lost the settle lock, to its TTL or to a drain; as long as that has
\* not happened the lock, given back with its own token only, excludes every
\* number of them (billing-session-finalization.service.ts:1416-1454). Who lost the durable
\* claim is not inside while it waits, as its finally block has run.
THEOREM LockTheorem == Spec => []OverlapOnlyAfterBreach
<1>1. Init => LockInv
  <2> SUFFICES ASSUME Init PROVE HoldsLock
    BY InitTyped DEF LockInv
  <2> QED BY DEF Init, HoldsLock, Inside
<1>2. LockInv => OverlapOnlyAfterBreach
  BY DEF LockInv, HoldsLock, OverlapOnlyAfterBreach
<1> QED BY <1>1, <1>2, LockInvInductive, PTL DEF Spec

\* While nobody has lost the lock, at most one execution is in the
\* transaction of settleCall: what SETTLEMENT_IDEMPOTENCY.md:14 promises holds
\* as long as no lock lapses under its holder and no drain deletes a live one.
THEOREM OneSettlement == Spec => [](~breached => OneSettlementAtATime)
<1>1. OverlapOnlyAfterBreach => (~breached => OneSettlementAtATime)
  BY DEF OverlapOnlyAfterBreach, OneSettlementAtATime, Inside
<1> QED BY <1>1, LockTheorem, PTL
=============================================================================
