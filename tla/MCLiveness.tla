----------------------------- MODULE MCLiveness -----------------------------
(***************************************************************************)
(* What must happen in the end, each component with an instance of its own *)
(* and the fairness its timers, queues and jobs give it.  What comes from  *)
(* outside (clients, webhooks, administrators) promises nothing.           *)
(***************************************************************************)
EXTENDS Scenarios

CONSTANTS p1, p2, p3, d1, d2, Host, None

\* One order and one webhook event; a fault may end any request.
Pay == INSTANCE Payments WITH
    Executions <- {p1, p2}, Events <- {d1}, MaxFaults <- 1, MaxMismatches <- 0,
    order <- v1, row <- v2, bonus <- v3, user <- v4, context <- v5, event <- v6, pc
    <- v7, caller <- v8, handling <- v9, credits <- v10, resets <- v11, faults <-
    v12, mismatches <- v13

\* One withdrawal of a staff wallet; handlers die.
Staff == INSTANCE Withdrawal WITH
    Staff <- TRUE, Executions <- {p1, p2}, Withdrawals <- {d1}, Amount <- 2, Opening
    <- 2, MaxMoves <- 0, MaxFaults <- 1,
    doc <- v1, debits <- v2, ledger <- v3, wallet <- v4, earnings <- v5, credited <-
    v6, pc <- v7, target <- v8, seen <- v9, faults <- v10, net <- v11, restored <- v12,
    moved <- v13

\* Two operations of one wallet overlap, with both repairs.
Wallet == INSTANCE Wallet WITH
    Executions <- {p1, p2}, Reward <- 2, Opening <- 3, MaxOperations <- 2, MaxFaults
    <- 0,
    coins <- v1, net <- v2, rows <- v3, claimed <- v4, purchase <- v5, queued <- v6,
    excess <- v7, job <- v8, operations <- v9, faults <- v10

\* A call that ends while it is being set up.
Start == INSTANCE BillingStart WITH
    Executions <- {p1, p2}, Calls <- {d1}, Users <- {d2}, Host <- Host, NoCall <-
    None, MaxStarts <- 2, MaxStalls <- 0,
    caller <- v1, orchestrator <- v2, lock <- v3, pair <- v4, slot <- v5, session <-
    v6, pendingEnd <- v7, ended <- v8, settled <- v9, scheduled <- v10, exec <- v11,
    starts <- v12, stalls <- v13

\* Jobs are lost and a caller runs out of coins.
Tick == INSTANCE BillingTick WITH
    Workers <- {p1}, Opening <- 2, Limit <- 9, MaxDelta <- 2, MaxFlush <- 3,
    DeltaCursor <- FALSE, Nobody <- None, Slow <- FALSE, MaxTime <- 3, MaxRewrites <- 0, MaxFaults
    <- 1, MaxLosses <- 0,
    now <- v1, session <- v2, wallet <- v3, lock <- v4, owner <- v5, gate <- v6,
    jobs <- v7, exec <- v8, rewrite <- v9, ending <- v10, settled <- v11, charged <-
    v12, rewrites <- v13, faults <- v14, losses <- v15

\* One call whose webhooks may be lost.
Call == INSTANCE CallLifecycle WITH
    Calls <- {d1}, NoCall <- None, Overlap <- 1, Kinds <- {"ring", "accept", "start",
    "end", "sessionEnd", "socket", "recon"}, Toggles <- FALSE, Lossy <- TRUE, Slow <- FALSE,
    stream <- v1, mail <- v2, doc <- v3, isSettled <- v4, session <- v5, ending <-
    v6, slot <- v7, base <- v8, snap <- v9, busy <- v10, lock <- v11, done <- v12,
    at <- v13, mem <- v14, past <- v15

\* Two calls of one creator.
CallTwo == INSTANCE CallLifecycle WITH
    Calls <- {d1, d2}, NoCall <- None, Overlap <- 1, Kinds <- {"start", "end"}, Toggles <- FALSE, Lossy <- FALSE, Slow <- FALSE,
    stream <- v1, mail <- v2, doc <- v3, isSettled <- v4, session <- v5, ending <-
    v6, slot <- v7, base <- v8, snap <- v9, busy <- v10, lock <- v11, done <- v12,
    at <- v13, mem <- v14, past <- v15

\* Two instances that do not crash; a socket may go early, a lease expire.
Presence == INSTANCE Presence WITH
    Instances <- {p1, p2}, Sockets <- {d1}, None <- None, Registry <- TRUE, Atomic
    <- FALSE, MaxToggles <- 1, MaxConnects <- 2, MaxDrops <- 1, MaxCrashes <- 0, MaxCalls <- 0,
    conn <- v1, reg <- v2, tracked <- v3, intent <- v4, wish <- v5, base <- v6, call
    <- v7, slot <- v8, hb <- v9, seen <- v10, lease <- v11, timer <- v12, grace <-
    v13, op <- v14, used <- v15

\* A reader overlaps the changes of a profile.
Catalog == INSTANCE Catalog WITH
    Creators <- {d1}, Requests <- {p1}, None <- None, Rank <- FALSE, Transactions <-
    FALSE, Overlap <- TRUE, MaxEdits <- 1,
    doc <- v1, role <- v2, edits <- v3, feed <- v4, indexed <- v5, detail <- v6,
    uids <- v7, uidSet <- v8, rank <- v9, card <- v10, job <- v11, op <- v12,
    rankJobs <- v13

\* A replica dies with its claim and with the lock.
Outbox == INSTANCE Outbox WITH
    Workers <- {p1, p2}, None <- None, MaxRetries <- 1, MaxCrashes <- 1, UseOutbox
    <- TRUE, MayFail <- FALSE, Replays <- FALSE,
    order <- v1, st <- v2, retry <- v3, old <- v4, lock <- v5, w <- v6, row <- v7,
    call <- v8, ran <- v9, crashes <- v10

\* One caller of the VIP queue.
Queue == INSTANCE VipQueue WITH
    Callers <- {d1}, Poppers <- {p1}, None <- None, MaxEntries <- 2, SweepAlone <- FALSE,
    queue <- v1, entry <- v2, made <- v3, joining <- v4, leaving <- v5, pop <- v6,
    stale <- v7

\* One scheduled call and two replicas.
Schedule == INSTANCE VipSchedule WITH
    Calls <- {d1}, Replicas <- {p1, p2}, Serial <- FALSE,
    status <- v1, past <- v2, reminded <- v3, emits <- v4, confirming <- v5,
    cancelling <- v6, due <- v7

\* One referrer; nothing fails.
Referral == INSTANCE Referral WITH
    Referrers <- {d1}, Applies <- {p1}, Rewards <- {p2, p3}, None <- None, Settled
    <- TRUE, MayFail <- FALSE,
    referredBy <- v1, entries <- v2, edge <- v3, bought <- v4, paid <- v5, ledger <-
    v6, claimed <- v7, apply <- v8, reward <- v9

\* The program stays enabled and the server runs on.
CreatorReferral == INSTANCE CreatorReferral WITH
    Workers <- {p1, p2, p3}, MayDie <- FALSE, MaxJobs <- 0,
    attached <- v1, edge <- v2, rewarded <- v3, ledger <- v4, paid <- v5, telegram
    <- v6, bought <- v7, on <- v8, job <- v9, jobs <- v10

\* A daily mission; hooks do not fail and end before midnight.
Mission == INSTANCE Rewards WITH
    Daily <- {"watch_free_moments"}, Once <- {}, Moments <- {"m1", "m2"}, Creators
    <- {"c1"}, Hooks <- {p1, p2}, Target <- 2, Cap <- 2, LastDay <- 0, MaxBuys <- 0,
    MaxClaims <- 0, Spanning <- FALSE, MayFail <- FALSE,
    today <- v1, daily <- v2, followed <- v3, claimed <- v4, ledger <- v5, paid <-
    v6, did <- v7, bought <- v8, claims <- v9, hook <- v10, late <-
    v11

\* The first purchase.
Recharge == INSTANCE Rewards WITH
    Daily <- {}, Once <- {"first_recharge"}, Moments <- {}, Creators <- {}, Hooks <-
    {p1, p2}, Target <- 2, Cap <- 2, LastDay <- 0, MaxBuys <- 1, MaxClaims <- 1,
    Spanning <- FALSE, MayFail <- FALSE,
    today <- v1, daily <- v2, followed <- v3, claimed <- v4, ledger <- v5, paid <-
    v6, did <- v7, bought <- v8, claims <- v9, hook <- v10, late <-
    v11

\* The client asks; webhooks come late or not at all.
Video == INSTANCE StreamUpload WITH
    Videos <- {d1}, Handlers <- {p1, p2}, Ttl <- 4, UploadingCutoff <- 2,
    ProcessingCutoff <- 4, MaxTime <- 0, MaxHeard <- 2, MaxPosts <- 1, Serial <-
    FALSE, MayFail <- FALSE,
    now <- v1, video <- v2, sent <- v3, heard <- v4, sess <- v5, indexed <- v6,
    expires <- v7, work <- v8, posts <- v9

\* Two readers overlap the changes of a profile.
Chat == INSTANCE Chat WITH
    Requests <- {}, Readers <- {p1, p2}, Messages <- {}, Free <- 1, Cost <- 2,
    Opening <- 2, LastDay <- 1, LastProfile <- 2, Overlap <- TRUE, MayFail <- TRUE,
    day <- v1, coins <- v2, rows <- v3, quota <- v4, lock <- v5, creator <- v6,
    profile <- v7, header <- v8, req <- v9, read <- v10, counted <- v11, expired <-
    v12, given <- v13, wiped <- v14

Init ==
    \/ Begins("payments", 13) /\ Pay!Init
    \/ Begins("staff", 13) /\ Staff!Init
    \/ Begins("wallet", 10) /\ Wallet!Init
    \/ Begins("start", 13) /\ Start!Init
    \/ Begins("tick", 15) /\ Tick!Init
    \/ Begins("call", 15) /\ Call!Init
    \/ Begins("callTwo", 15) /\ CallTwo!Init
    \/ Begins("presence", 15) /\ Presence!Init
    \/ Begins("catalog", 13) /\ Catalog!Init
    \/ Begins("chat", 14) /\ Chat!Init
    \/ Begins("outbox", 10) /\ Outbox!Init
    \/ Begins("queue", 7) /\ Queue!Init
    \/ Begins("schedule", 7) /\ Schedule!Init
    \/ Begins("referral", 9) /\ Referral!Init
    \/ Begins("creatorReferral", 10) /\ CreatorReferral!Init
    \/ Begins("mission", 11) /\ Mission!Init
    \/ Begins("recharge", 11) /\ Recharge!Init
    \/ Begins("video", 9) /\ Video!Init

Next ==
    \/ Steps("payments", 13) /\ Pay!Next
    \/ Steps("staff", 13) /\ Staff!Next
    \/ Steps("wallet", 10) /\ Wallet!Next
    \/ Steps("start", 13) /\ Start!Next
    \/ Steps("tick", 15) /\ Tick!Next
    \/ Steps("call", 15) /\ Call!Next
    \/ Steps("callTwo", 15) /\ CallTwo!Next
    \/ Steps("presence", 15) /\ Presence!Next
    \/ Steps("catalog", 13) /\ Catalog!Next
    \/ Steps("chat", 14) /\ Chat!Next
    \/ Steps("outbox", 10) /\ Outbox!Next
    \/ Steps("queue", 7) /\ Queue!Next
    \/ Steps("schedule", 7) /\ Schedule!Next
    \/ Steps("referral", 9) /\ Referral!Next
    \/ Steps("creatorReferral", 10) /\ CreatorReferral!Next
    \/ Steps("mission", 11) /\ Mission!Next
    \/ Steps("recharge", 11) /\ Recharge!Next
    \/ Steps("video", 9) /\ Video!Next

\* A request, hook or job that has begun goes on unless it dies.
GoesOn(p) ==
    \/ /\ p \in {p1, p2}
       /\ \/ Steps("payments", 13) /\ Pay!Step(p)
          \/ Steps("staff", 13) /\ Staff!Continue(p)
          \/ Steps("wallet", 10) /\ Wallet!Continue(p)
          \/ Steps("start", 13) /\ Start!Continue(p)
          \/ Steps("presence", 15) /\ Presence!Finish(p)
          \/ Steps("outbox", 10) /\ Outbox!Work(p)
          \/ Steps("schedule", 7) /\ Schedule!Tick(p)
          \/ Steps("mission", 11) /\ Mission!Hook(p)
          \/ Steps("recharge", 11) /\ Recharge!Hook(p)
          \/ Steps("video", 9) /\ Video!Step(p)
    \/ /\ p = p1
       /\ \/ Steps("tick", 15) /\ (Tick!Tick(p) \/ Tick!TakeJob(p) \/ Tick!FinishJob(p))
          \/ Steps("catalog", 13) /\ Catalog!Serve(p)
          \/ Steps("referral", 9) /\ Referral!Applying(p)
    \/ p # p1 /\ Steps("referral", 9) /\ Referral!Rewarding(p)
    \/ Steps("creatorReferral", 10) /\ CreatorReferral!Step(p)

\* The handlers of a call go on.
HandlerGoesOn(h) == Steps("call", 15) /\ Call!Handle(d1, h)

\* Timers fire, keys expire, queues deliver.
ComesRound(k) ==
    \/ k = 1 /\ Steps("start", 13) /\ Start!DeferEnd(d1)
    \/ k = 2 /\ Steps("start", 13) /\ Start!FinalizeCallEnd(d1)
    \/ k = 3 /\ Steps("start", 13) /\ Start!Tick(d1)
    \/ k = 1 /\ Steps("tick", 15) /\ Tick!Clock
    \/ k = 2 /\ Steps("tick", 15) /\ Tick!GateExpires
    \/ k = 3 /\ Steps("tick", 15) /\ Tick!FlushTick
    \/ k = 4 /\ Steps("tick", 15) /\ Tick!WriteBack
    \/ k = 5 /\ Steps("tick", 15) /\ (Tick!Tick(Tick!Flush) \/ Tick!TakeJob(Tick!Flush) \/ Tick!FinishJob(Tick!Flush))
    \/ k = 1 /\ Steps("call", 15) /\ Call!HandleWebhook(d1)
    \/ k = 1 /\ Steps("presence", 15) /\ Presence!ExpirePresence
    \/ k = 2 /\ Steps("presence", 15) /\ Presence!ExpireRegistry
    \/ k = 3 /\ Steps("presence", 15) /\ Presence!ExpireLease
    \/ k = 4 /\ Steps("presence", 15) /\ Presence!ExpireGrace
    \/ k = 5 /\ Steps("presence", 15) /\ Presence!Arrive(p1, d1)
    \/ k = 6 /\ Steps("presence", 15) /\ Presence!Arrive(p2, d1)
    \/ k = 1 /\ Steps("catalog", 13) /\ Catalog!Effects(d1)
    \/ k = 2 /\ Steps("catalog", 13) /\ Catalog!ExpireDetail(d1)
    \/ k = 3 /\ Steps("catalog", 13) /\ Catalog!ExpireCard(d1)
    \/ k = 4 /\ Steps("catalog", 13) /\ Catalog!ExpireFeed
    \/ k = 5 /\ Steps("catalog", 13) /\ Catalog!ExpireUids
    \/ k = 6 /\ Steps("catalog", 13) /\ Catalog!ExpireUidSet
    \/ k = 1 /\ Steps("chat", 14) /\ Chat!HeaderExpires
    \/ k = 1 /\ Steps("outbox", 10) /\ Outbox!LockExpires
    \/ k = 2 /\ Steps("outbox", 10) /\ Outbox!ClaimAges("ending")
    \/ k = 3 /\ Steps("outbox", 10) /\ Outbox!ClaimAges("settled")
    \/ k = 1 /\ Steps("queue", 7) /\ Queue!Sweep
    \/ k = 2 /\ Steps("queue", 7) /\ Queue!Due(d1)
    \/ k = 1 /\ Steps("schedule", 7) /\ Schedule!TimePasses(d1)
    \/ k = 2 /\ Steps("schedule", 7) /\ Schedule!ConfirmSave(d1)
    \/ k = 3 /\ Steps("schedule", 7) /\ Schedule!CancelSave(d1)
    \/ k = 1 /\ Steps("video", 9) /\ Video!Encode(d1)
    \/ k = 2 /\ Steps("video", 9) /\ \E h \in {p1, p2} : Video!Poll(h, d1)

\* The intervals of an instance fire.
Fires(p, k) ==
    \/ k = 1 /\ Steps("presence", 15) /\ Presence!Heartbeat(p)
    \/ k = 2 /\ Steps("presence", 15) /\ Presence!GraceElapsed(p)
    \/ k = 3 /\ Steps("presence", 15) /\ Presence!SweepHeartbeats(p)
    \/ k = 4 /\ Steps("presence", 15) /\ Presence!CleanupTracking(p)
    \/ k = 1 /\ Steps("outbox", 10) /\ Outbox!Tick(p)

\* Jobs that come round again and again find their work in the end although
\* other requests get in their way: the sweeps, repairs and reconciliations.
Recurs(k) ==
    \/ k = 1 /\ Steps("payments", 13) /\ \E p \in {p1, p2} : Pay!Sweep(p)
    \/ k = 1 /\ Steps("staff", 13) /\ \E p \in {p1, p2} : Staff!Reconcile(p)
    \/ k = 1 /\ Steps("wallet", 10) /\ \E p \in {p1, p2} : Wallet!QueueRepair(p) \/ Wallet!QueueSkip(p)
    \/ k = 2 /\ Steps("wallet", 10) /\ \E p \in {p1, p2} : Wallet!ReadRepair(p)
    \/ k = 1 /\ Steps("tick", 15) /\ Tick!Heal
    \/ k = 2 /\ Steps("tick", 15) /\ Tick!Settle
    \/ k = 1 /\ Steps("call", 15) /\ Call!SweepSlot
    \/ k = 1 /\ Steps("callTwo", 15) /\ (CallTwo!EnsureBusy(d1) \/ CallTwo!EnsureBusy(d2))
    \/ k = 2 /\ Steps("call", 15) /\ (Call!CleanupSettled(d1) \/ Call!ReconcileEnded(d1) \/ Call!RetrySettlement(d1))

Fairness ==
    /\ \A p \in {p1, p2, p3} : WF_pool(GoesOn(p))
    /\ \A h \in Call!Handlers : WF_pool(HandlerGoesOn(h))
    /\ \A k \in 1 .. 6 : WF_pool(ComesRound(k))
    /\ \A p \in {p1, p2}, k \in 1 .. 4 : WF_pool(Fires(p, k))
    /\ \A k \in 1 .. 2 : SF_pool(Recurs(k))

Spec == Init /\ [][Next]_pool /\ Fairness

-----------------------------------------------------------------------------
\* Coins that are owed arrive: a captured payment is credited unless the
\* account is deleted (a webhook event left in processing is never claimed
\* again, and it is the sweep that makes up for it), a granted referral and
\* the purchase of a referred user are paid, the first purchase and a daily
\* mission at its target are rewarded.
MoneyArrives ==
    (\/ scenario = "payments" /\ Pay!IsCaptured
     \/ scenario = "referral" /\ Referral!EntryGranted(d1)
     \/ scenario = "creatorReferral" /\ CreatorReferral!PurchaseDue
     \/ scenario = "recharge" /\ Recharge!HasBought
     \/ scenario = "mission" /\ Mission!IsDue("watch_free_moments", 0))
    ~>
    (\/ scenario = "payments" /\ Pay!Honoured
     \/ scenario = "referral" /\ Referral!IsPaid(d1)
     \/ scenario = "creatorReferral" /\ CreatorReferral!PurchasePaid
     \/ scenario = "recharge" /\ Recharge!IsPaid("first_recharge", 0)
     \/ scenario = "mission" /\ Mission!IsPaid("watch_free_moments", 0))

\* Calls end for good: one whose caller runs out of coins is settled whatever
\* jobs are lost, a call:ended that came while its call was being set up ends
\* it, and a billed call that is over frees the creator whichever of its
\* webhooks are lost.
CallsEnd ==
    (\/ scenario = "tick"
     \/ scenario = "start" /\ Start!EndDeferred(d1)
     \/ scenario = "call" /\ Call!BilledIsOver(d1))
    ~>
    [](\/ scenario = "tick" /\ Tick!IsSettled
       \/ scenario = "start" /\ Start!IsSettled(d1)
       \/ scenario = "call" /\ Call!IsFree(d1))

\* What waits is served in the end: every event of the outbox is processed or
\* given up although replicas die with claims and with the lock, nobody waits
\* in the VIP queue for ever, a confirmed call is announced unless it is
\* cancelled, and a creator without a socket does not stay online, unless a
\* heartbeat renews the record of a socket that went before its handler
\* listened for that, and nobody takes out.
NobodyWaitsForever ==
    (\/ scenario = "outbox" /\ Outbox!Unhandled("settled")
     \/ scenario = "queue" /\ Queue!Waits(d1)
     \/ scenario = "schedule" /\ Schedule!Unannounced(d1)
     \/ scenario = "presence" /\ ~Presence!Connected)
    ~>
    (\/ scenario = "outbox" /\ ~Outbox!Unhandled("settled")
     \/ scenario = "queue" /\ ~Queue!Waits(d1)
     \/ scenario = "schedule" /\ ~Schedule!Unannounced(d1)
     \/ /\ scenario = "presence"
        /\ ~Presence!ShownOnline \/ Presence!Connected \/ Presence!GhostIsRenewed)

\* What races leave behind is repaired: the coins of a wallet settle within
\* one coin of the ledger, every cached copy of a profile, the header of a chat
\* too, agrees with MongoDB for good, a video that is encoded has a session
\* that is ready, or consumed; and again and again the reconciliation brings a staff balance back
\* to its ledger, although handlers die between the balance and the entry, and
\* the one of calls gives a creator whose billed call goes on the slot that
\* another call took.
DriftIsRepaired ==
    /\ <>[](/\ scenario = "wallet" => Wallet!NoDrift
            /\ scenario = "catalog" => Catalog!CopiesFresh
            /\ scenario = "chat" => Chat!NoStaleHeader
            /\ scenario = "video" /\ Video!IsEncoded(d1) => Video!IsUsable(d1))
    /\ []<>(/\ scenario = "staff" => Staff!BalanceIsLedger
            /\ scenario = "callTwo" => CallTwo!NoneCallable)
=============================================================================
