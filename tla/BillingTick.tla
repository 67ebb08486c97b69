----------------------------- MODULE BillingTick -----------------------------
(***************************************************************************)
(* The ticks that charge a running call.  Jobs of a BullMQ queue, one      *)
(* following the other, run _processBillingCycleInternal under a cycle     *)
(* lock; the watchdog restarts a chain that broke; the settlement flushes  *)
(* what is not charged yet.  A second costs one coin.                      *)
(***************************************************************************)
EXTENDS Integers

CONSTANTS
    Workers,      \* worker processes
    Opening,      \* coins at the start of the call
    Limit,        \* effectiveDurationLimitSeconds
    MaxDelta,     \* MAX_BILLING_DELTA_MS: seconds one tick may charge
    MaxFlush,     \* MAX_SETTLEMENT_FLUSH_ITERATIONS
    DeltaCursor,  \* billingDeltaCursorV3Enabled: ticks rebuild a lost session
    Nobody,
    Slow,         \* whether ticks outlive the TTL of the cycle lock
    MaxTime,      \* bound: seconds
    MaxRewrites,  \* bound: sessions the watchdog and a restart write back
    MaxFaults,    \* bound: crashes
    MaxLosses     \* bound: sessions lost from Redis

VARIABLES
    now,
    session,    \* in Redis: lifecycle, cursor lastProcessedAt and totals
    wallet,     \* in Redis: the micros left, a key of its own
    lock,       \* whose token is in the cycle lock
    owner,      \* instance in the runtime owner lock
    gate,       \* the schedule gate is set
    jobs,       \* queued jobs of the call
    exec,       \* what each worker, and the settlement's flush, is doing, and
                \* whether it has lost its lock, or one that has wrote meanwhile
    rewrite,    \* a session read by the watchdog, to be written back
    ending,     \* when settlement was asked for, or Never
    settled, charged,
    rewrites, faults, losses

vars == <<now, session, wallet, lock, owner, gate, jobs, exec, rewrite, ending, settled,
          charged, rewrites, faults, losses>>
queue == <<gate, jobs>>
bounds == <<rewrites, faults, losses>>
end == <<ending, settled, charged>>

Flush == "flush"
Never == -1
Executors == Workers \cup {Flush}
Gone == [state |-> "gone", at |-> 0, ded |-> 0]
Idle == [at |-> "idle", snap |-> Gone, bal |-> 0, loops |-> 0, late |-> FALSE]
Lesser(a, b) == IF a < b THEN a ELSE b
Live == session.state \in {"ACTIVE", "RECOVERING"}

\* startBillingSession has written the session and scheduled the first job.
Init ==
    /\ now = 0
    /\ session = [state |-> "ACTIVE", at |-> 0, ded |-> 0] /\ wallet = Opening
    /\ lock = Nobody /\ owner = Nobody
    /\ gate = TRUE /\ jobs = 1
    /\ exec = [w \in Executors |-> Idle]
    /\ rewrite = Gone /\ ending = Never /\ settled = FALSE /\ charged = 0
    /\ rewrites = 0 /\ faults = 0 /\ losses = 0

GoTo(w, at) == exec' = [exec EXCEPT ![w].at = at]
At(w, at) == exec[w].at = at

-----------------------------------------------------------------------------
(* one tick *)

\* Mutant: the lock is set without NX.
AcquireCycleLockAlways(w) ==
    /\ At(w, "lock")
    /\ lock' = w /\ exec' = [exec EXCEPT ![w].at = "read", ![w].late = FALSE]
    /\ UNCHANGED <<now, session, wallet, owner, queue, rewrite, end, bounds>>

AcquireCycleLock(w) ==
    /\ At(w, "lock")
    /\ IF lock = Nobody
       THEN lock' = w /\ exec' = [exec EXCEPT ![w].at = "read", ![w].late = FALSE]
       ELSE UNCHANGED lock /\ GoTo(w, "deferred")
    /\ UNCHANGED <<now, session, wallet, owner, queue, rewrite, end, bounds>>

\* BILLING_CYCLE_LOCK_TTL_MS pass without a heartbeat.
InTick(w) == exec[w].at \in {"read", "balance", "own", "charge", "persist"}
CycleLockExpires(w) ==
    /\ Slow /\ InTick(w) /\ lock = w
    /\ lock' = Nobody /\ exec' = [exec EXCEPT ![w].late = TRUE]
    /\ UNCHANGED <<now, session, wallet, owner, queue, rewrite, end, bounds>>

\* The heartbeat sets the key if there is one (XX), whosever it is by then.
Heartbeat(w) ==
    /\ InTick(w) /\ lock \notin {Nobody, w}
    /\ exec' = [exec EXCEPT ![lock].late = TRUE]
    /\ lock' = w
    /\ UNCHANGED <<now, session, wallet, owner, queue, rewrite, end, bounds>>

\* The snapshot of the start.  The cursor's update names version in $inc and in
\* $setOnInsert, which Mongo refuses, so it stays where the start put it.
StoredCheckpoint == [at |-> 0, ded |-> 0]

\* What a lost session is rebuilt as.
Checkpoint ==
    [state |-> "RECOVERING", at |-> StoredCheckpoint.at, ded |-> StoredCheckpoint.ded]

\* Read the session, or what is stored of it, and stop if the call is over.
ReadSession(w) ==
    /\ At(w, "read")
    /\ CASE settled \/ (session = Gone /\ ~DeltaCursor) \/ (session /= Gone /\ ~Live) ->
                GoTo(w, "stopped")
         [] ~settled /\ session = Gone /\ DeltaCursor ->
                exec' = [exec EXCEPT ![w].at = "own", ![w].snap = Checkpoint, ![w].bal = Opening]
         [] ~settled /\ Live ->
                exec' = [exec EXCEPT ![w].at = "balance", ![w].snap = session]
    /\ UNCHANGED <<now, session, wallet, lock, owner, queue, rewrite, end, bounds>>

\* The balance is a read of its own.
ReadBalance(w) ==
    /\ At(w, "balance")
    /\ exec' = [exec EXCEPT ![w].at = "own", ![w].bal = wallet]
    /\ UNCHANGED <<now, session, wallet, lock, owner, queue, rewrite, end, bounds>>

\* ensureRuntimeOwnership: the owner lock of another instance is taken over as
\* soon as the sequence has stood still; a draining process defers.
EnsureRuntimeOwnership(w) ==
    /\ At(w, "own")
    /\ IF owner \in {Nobody, w} \/ now > exec[w].snap.at
       THEN owner' = w /\ GoTo(w, "charge")
       ELSE UNCHANGED owner /\ GoTo(w, "deferred")
    /\ UNCHANGED <<now, session, wallet, lock, queue, rewrite, end, bounds>>

\* Mutant: the cursor stays.
ChargeTwice(w) ==
    /\ At(w, "charge")
    /\ LET snap == exec[w].snap
           take == Lesser(Lesser(now - snap.at, MaxDelta), exec[w].bal)
       IN IF take = 0 THEN GoTo(w, IF exec[w].bal = 0 THEN "settle" ELSE "ok")
          ELSE exec' = [exec EXCEPT ![w].at = "persist", ![w].snap.ded = snap.ded + take,
                                    ![w].bal = exec[w].bal - take]
    /\ UNCHANGED <<now, session, wallet, lock, owner, queue, rewrite, end, bounds>>

\* Mutant: the tick that reaches the limit charges too.
ChargePastLimit(w) ==
    /\ At(w, "charge")
    /\ LET snap == exec[w].snap
           take == Lesser(Lesser(now - snap.at, MaxDelta), exec[w].bal)
       IN IF take = 0 THEN GoTo(w, IF exec[w].bal = 0 /\ now > snap.at THEN "settle" ELSE "ok")
          ELSE exec' = [exec EXCEPT
                 ![w].at = "persist",
                 ![w].snap = [state |-> "ACTIVE", at |-> snap.at + take, ded |-> snap.ded + take],
                 ![w].bal = exec[w].bal - take]
    /\ UNCHANGED <<now, session, wallet, lock, owner, queue, rewrite, end, bounds>>

\* At most MaxDelta seconds and what the balance has.  A call that reaches its
\* limit stops here: this tick's charge is not stored.
Charge(w) ==
    /\ At(w, "charge")
    /\ LET snap == exec[w].snap
           take == Lesser(Lesser(now - snap.at, MaxDelta), exec[w].bal)
       IN IF take = 0 THEN GoTo(w, IF exec[w].bal = 0 /\ now > snap.at THEN "settle" ELSE "ok")
          ELSE IF snap.ded + take >= Limit THEN GoTo(w, "settle")
          ELSE exec' = [exec EXCEPT
                 ![w].at = "persist",
                 ![w].snap = [state |-> "ACTIVE", at |-> snap.at + take, ded |-> snap.ded + take],
                 ![w].bal = exec[w].bal - take]
    /\ UNCHANGED <<now, session, wallet, lock, owner, queue, rewrite, end, bounds>>

\* Mutant: the balance key is left to the next tick.
PersistSessionOnly(w) ==
    /\ At(w, "persist")
    /\ session' = exec[w].snap
    /\ GoTo(w, IF exec[w].bal = 0 THEN "settle" ELSE "ok")
    /\ UNCHANGED <<now, wallet, lock, owner, queue, rewrite, end, bounds>>

\* MULTI: balances and session together, over whatever is there; whose lock it
\* is by now is not asked.
Persist(w) ==
    /\ At(w, "persist")
    /\ session' = exec[w].snap /\ wallet' = exec[w].bal
    /\ exec' = [e \in Executors |->
                  CASE e = w -> [exec[w] EXCEPT !.at = IF exec[w].bal = 0 THEN "settle" ELSE "ok"]
                    [] e /= w -> [exec[e] EXCEPT !.late = @ \/ (exec[w].late /\ InTick(e))]]
    /\ UNCHANGED <<now, lock, owner, queue, rewrite, end, bounds>>

ReleaseLock(w) == lock' = IF lock = w THEN Nobody ELSE lock

-----------------------------------------------------------------------------
(* the chain of jobs *)

\* scheduleBillingJob: nothing while the gate stands.
Schedule == jobs' = jobs + (IF gate THEN 0 ELSE 1) /\ gate' = TRUE

TakeJob(w) ==
    /\ w \in Workers /\ exec[w] = Idle /\ jobs > 0
    /\ jobs' = jobs - 1 /\ gate' = FALSE
    /\ GoTo(w, "lock")
    /\ UNCHANGED <<now, session, wallet, lock, owner, rewrite, end, bounds>>

\* Mutant: a job that finds the call over keeps counting it down.
FinishJobBelowZero(w) ==
    /\ w \in Workers /\ exec[w].at \in {"ok", "deferred", "stopped", "settle"}
    /\ ReleaseLock(w)
    /\ ending' = (IF At(w, "settle") /\ ending = Never THEN now ELSE ending)
    /\ jobs' = IF At(w, "stopped") THEN jobs - 1 ELSE jobs + 1
    /\ exec' = [exec EXCEPT ![w] = Idle]
    /\ UNCHANGED <<now, session, wallet, owner, gate, rewrite, settled, charged, bounds>>

\* The worker after the tick: the next job, the settlement, or the end of the
\* chain.
FinishJob(w) ==
    /\ w \in Workers /\ exec[w].at \in {"ok", "deferred", "stopped", "settle"}
    /\ ReleaseLock(w)
    /\ ending' = IF At(w, "settle") /\ ending = Never THEN now ELSE ending
    /\ CASE exec[w].at \in {"ok", "deferred"} -> Schedule
         [] At(w, "settle") -> UNCHANGED queue
         [] At(w, "stopped") -> gate' = FALSE /\ jobs' = 0
    /\ exec' = [exec EXCEPT ![w] = Idle]
    /\ UNCHANGED <<now, session, wallet, owner, rewrite, settled, charged, bounds>>

GateExpires ==
    /\ gate /\ jobs = 0
    /\ gate' = FALSE
    /\ UNCHANGED <<now, session, wallet, lock, owner, jobs, exec, rewrite, end, bounds>>

\* needsBillingCycleReschedule and recoverBillingScheduleForCall, from the
\* watchdog, the reconciliation, a client's recovery and a start-up.
HealChain ==
    /\ Live /\ ~gate /\ jobs = 0 /\ \A w \in Workers : exec[w] = Idle
    /\ Schedule
    /\ UNCHANGED <<now, session, wallet, lock, owner, exec, rewrite, end, bounds>>

\* A chain that stands still is scheduled again whatever the gate says.
HealStalledChain ==
    /\ Live /\ now > session.at + MaxDelta /\ jobs = 0
    /\ jobs' = 1 /\ gate' = TRUE
    /\ UNCHANGED <<now, session, wallet, lock, owner, exec, rewrite, end, bounds>>

\* The watchdog marks a stalled ACTIVE session RECOVERING, and a start-up puts
\* its instance in: both write back the session they read before, without the
\* cycle lock.
ReadForRewrite ==
    /\ Live /\ rewrite = Gone /\ rewrites < MaxRewrites /\ now > session.at
    /\ rewrite' = [session EXCEPT !.state = "RECOVERING"]
    /\ rewrites' = rewrites + 1
    /\ UNCHANGED <<now, session, wallet, lock, owner, queue, exec, end, faults, losses>>

WriteBack ==
    /\ rewrite /= Gone
    /\ session' = IF session = Gone THEN Gone ELSE rewrite
    /\ rewrite' = Gone
    /\ UNCHANGED <<now, wallet, lock, owner, queue, exec, end, bounds>>

-----------------------------------------------------------------------------
(* settlement *)

EndCall ==
    /\ ending = Never /\ Live
    /\ ending' = now
    /\ UNCHANGED <<now, session, wallet, lock, owner, queue, exec, rewrite, settled, charged, bounds>>

\* flushBillingToQuiescence: ticks until the cursor has caught up, a tick stops
\* or the iterations are used up.
FlushTick ==
    /\ ending /= Never /\ ~settled /\ Live /\ exec[Flush].at \in {"idle", "ok", "deferred"}
    /\ session.at < now /\ exec[Flush].loops < MaxFlush
    /\ ReleaseLock(Flush)
    /\ exec' = [exec EXCEPT ![Flush].at = "lock", ![Flush].loops = @ + 1]
    /\ UNCHANGED <<now, session, wallet, owner, queue, rewrite, end, bounds>>

\* Mutant: one tick is taken to be enough.
SettleAfterOneTick ==
    /\ ending /= Never /\ ~settled
    /\ exec[Flush].at \in {"ok", "deferred", "settle", "stopped"}
    /\ ReleaseLock(Flush)
    /\ settled' = TRUE /\ charged' = session.ded
    /\ session' = Gone /\ wallet' = 0
    /\ exec' = [exec EXCEPT ![Flush] = Idle]
    /\ gate' = FALSE /\ jobs' = 0
    /\ UNCHANGED <<now, owner, rewrite, ending, bounds>>

\* Charges what the session says and removes it.
Settle ==
    /\ ending /= Never /\ ~settled
    /\ \/ exec[Flush].at \in {"settle", "stopped"}
       \/ /\ exec[Flush].at \in {"idle", "ok", "deferred"}
          /\ ~Live \/ session.at >= now \/ exec[Flush].loops = MaxFlush
    /\ ReleaseLock(Flush)
    /\ settled' = TRUE /\ charged' = session.ded
    /\ session' = Gone /\ wallet' = 0
    /\ exec' = [exec EXCEPT ![Flush] = Idle]
    /\ gate' = FALSE /\ jobs' = 0
    /\ UNCHANGED <<now, owner, rewrite, ending, bounds>>

-----------------------------------------------------------------------------
(* time and faults *)

Clock ==
    /\ now < MaxTime /\ ~settled
    /\ now' = now + 1
    /\ UNCHANGED <<session, wallet, lock, owner, queue, exec, rewrite, end, bounds>>

\* The process dies and its lock expires; BullMQ may put the job back.
Crash(w) ==
    /\ w \in Workers /\ exec[w] /= Idle /\ faults < MaxFaults
    /\ faults' = faults + 1
    /\ \E back \in {0, 1} : jobs' = jobs + back
    /\ ReleaseLock(w)
    /\ exec' = [exec EXCEPT ![w] = Idle]
    /\ UNCHANGED <<now, session, wallet, owner, gate, rewrite, end, rewrites, losses>>

LoseSession ==
    /\ session /= Gone /\ losses < MaxLosses
    /\ losses' = losses + 1
    /\ session' = Gone /\ wallet' = 0
    /\ UNCHANGED <<now, lock, owner, queue, exec, rewrite, end, rewrites, faults>>

-----------------------------------------------------------------------------
Tick(w) ==
    \/ AcquireCycleLock(w) \/ ReadSession(w) \/ ReadBalance(w) \/ EnsureRuntimeOwnership(w)
    \/ Charge(w) \/ Persist(w)

\* Mutant: the schedule gate is tested the wrong way round.
HealGatedOnly == gate /\ (HealChain \/ HealStalledChain)

Heal == HealChain \/ HealStalledChain

Next ==
    \/ \E w \in Executors : \/ Tick(w) \/ TakeJob(w) \/ FinishJob(w) \/ Crash(w)
                           \/ CycleLockExpires(w) \/ Heartbeat(w)
    \/ GateExpires \/ Heal \/ ReadForRewrite \/ WriteBack
    \/ EndCall \/ FlushTick \/ Settle \/ Clock \/ LoseSession

Spec == Init /\ [][Next]_vars

-----------------------------------------------------------------------------
Sessions == [state : {"gone", "ACTIVE", "RECOVERING"}, at : 0..MaxTime, ded : 0..Opening]

TypeOK ==
    /\ now \in 0..MaxTime
    /\ session \in Sessions /\ rewrite \in Sessions /\ wallet \in 0..Opening
    /\ lock \in Executors \cup {Nobody} /\ owner \in Executors \cup {Nobody}
    /\ gate \in BOOLEAN /\ jobs \in Nat
    /\ \A w \in Executors : exec[w].snap \in Sessions /\ exec[w].bal \in 0..Opening
    /\ ending \in {Never} \cup 0..MaxTime /\ settled \in BOOLEAN /\ charged \in 0..Opening

\* Whatever ticks, flushes, rebuilt and rewritten sessions do, the totals never
\* charge for more time than has passed, nor does the settlement.
NeverOvercharged == session.ded <= now /\ charged <= now

\* What the session has charged is what the balance key is short of.
Conserved == Live => wallet + session.ded = Opening

\* "billingSequence monotonic increment": a running session's totals never go
\* back, but by a tick that has lost the cycle lock, which it does not look at
\* again, or that such a tick wrote into.
NeverRolledBack ==
    session /= Gone /\ session' /= Gone /\ session'.ded < session.ded =>
        \E w \in Executors : At(w, "persist") /\ exec[w].late

\* "Drain capped billing deltas before Mongo settlement so lastProcessedAt /
\* totalDeductedMicros match wall time": all time up to the end of the
\* call is charged, as far as the coins go, but for the delta of the tick that
\* reaches the limit of the call, and nobody is charged up to that limit.
FlushCharges ==
    /\ settled /\ charged < Lesser(ending, Opening) =>
           ending >= Limit /\ charged >= Limit - MaxDelta
    /\ session.ded < Limit /\ charged < Limit

\* The call is settled.
IsSettled == settled
=============================================================================
