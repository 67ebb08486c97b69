------------------------------- MODULE Wallet -------------------------------
(***************************************************************************)
(* One user's cached balance (User.coins) beside the ledger it caches      *)
(* (the completed CoinTransactions), under the handlers that move coins    *)
(* outside calls and purchases: the admin's adjustments and refunds, task  *)
(* and upload rewards, paid chat messages, moment refunds and regrants,    *)
(* and the two repairs that set the cache back to the ledger.              *)
(***************************************************************************)
EXTENDS Integers

CONSTANTS
    Executions,     \* concurrent handler executions
    Reward,         \* coins an operation moves
    Opening,        \* coins at the start
    MaxOperations,  \* bound: operations started
    MaxFaults       \* bound: failing awaits, crashes, transaction retries

VARIABLES
    coins,      \* User.coins
    net,        \* completed credits minus debits of the ledger
    rows,       \* ledger rows of the operations that must happen once
    claimed,    \* the weekly task's progress has claimedAt
    purchase,   \* the moment purchase: bought, or refunded
    queued,     \* the user is in the balance mismatch repair queue
    excess,     \* coins beyond the ledger: left by clawbacks, or booked by forced regrants
    job,        \* what each execution is doing
    operations, faults

vars == <<coins, net, rows, claimed, purchase, queued, excess, job, operations, faults>>
books == <<coins, net, rows, claimed, purchase, queued, excess>>

Keyed == {"addCoins", "task", "upload", "clawback", "refund"}
Forced == {"momentForced", "shareForced"}
Idle == [at |-> "idle", op |-> "none", delta |-> 0, seen |-> 0]
Abs(n) == IF n < 0 THEN -n ELSE n

\* Mutant: the clawback goes below 0.
Unfloored(n) == n

Max0(n) == IF n < 0 THEN 0 ELSE n

\* What a balance lacks to 0.
Short(n) == IF n < 0 THEN -n ELSE 0

Init ==
    /\ coins = Opening /\ net = Opening
    /\ rows = [k \in Keyed |-> 0]
    /\ claimed = FALSE /\ purchase = "bought" /\ queued = FALSE /\ excess = 0
    /\ job = [p \in Executions |-> Idle]
    /\ operations = 0 /\ faults = 0

Begin(p, at, op, delta, seen) ==
    /\ job[p] = Idle /\ operations < MaxOperations
    /\ operations' = operations + 1
    /\ job' = [job EXCEPT ![p] = [at |-> at, op |-> op, delta |-> delta, seen |-> seen]]
    /\ UNCHANGED <<coins, net, rows, purchase, queued, excess, faults>>

GoTo(p, at) == job' = [job EXCEPT ![p].at = at]
End(p) == job' = [job EXCEPT ![p] = Idle]

-----------------------------------------------------------------------------
(* handlers, up to the read of the balance *)

\* A debit may not exceed the balance that was read.
AdjustUserCoins(p) ==
    /\ \E delta \in {Reward, -Reward} :
          coins + delta >= 0 /\ Begin(p, "row", "adjust", delta, coins)
    /\ UNCHANGED claimed

\* The transactionId comes from the caller, who may send it again.
AddCoins(p) ==
    /\ rows["addCoins"] = 0
    /\ Begin(p, "row", "addCoins", Reward, coins)
    /\ UNCHANGED claimed

\* The user is read, then the claim is taken with an upsert whose unique index
\* lets one through.
ClaimTask(p) == Begin(p, "claim", "task", Reward, coins) /\ UNCHANGED claimed

\* Mutant: the progress is looked up instead of claimed.
TakeClaimUnlocked(p) ==
    /\ job[p].at = "claim"
    /\ claimed' = TRUE
    /\ GoTo(p, "row")
    /\ UNCHANGED <<coins, net, rows, purchase, queued, excess, operations, faults>>

TakeClaim(p) ==
    /\ job[p].at = "claim"
    /\ claimed' = TRUE
    /\ IF claimed THEN End(p) ELSE GoTo(p, "row")
    /\ UNCHANGED <<coins, net, rows, purchase, queued, excess, operations, faults>>

CreditUploadReward(p) ==
    /\ rows["upload"] = 0
    /\ Begin(p, "row", "upload", Reward, coins)
    /\ UNCHANGED claimed

\* Mutant: what was credited is not looked up.
ClawbackUncredited(p) ==
    /\ rows["clawback"] = 0
    /\ Begin(p, "row", "clawback", -Reward, coins)
    /\ UNCHANGED claimed

ClawbackUploadReward(p) ==
    /\ rows["upload"] > 0 /\ rows["clawback"] = 0
    /\ Begin(p, "row", "clawback", -Reward, coins)
    /\ UNCHANGED claimed

\* refundCall for the caller: the rows' ids are random.
RefundCall(p) ==
    /\ rows["refund"] = 0
    /\ Begin(p, "row", "refund", Reward, coins)
    /\ UNCHANGED claimed

\* refundCall for the creator takes what the balance still has.
RefundClawback(p) ==
    /\ coins > 0
    /\ Begin(p, "row", "refundClawback", -(IF coins < Reward THEN coins ELSE Reward), coins)
    /\ UNCHANGED claimed

\* The buyer is read before the transaction that writes it.
RefundMomentPurchase(p) ==
    /\ purchase = "bought"
    /\ Begin(p, "txn", "momentRefund", Reward, coins)
    /\ UNCHANGED claimed

\* regrantMomentPurchase takes the price again, and gives the creator a share,
\* for a purchase that was refunded ...
RegrantMoment(p) ==
    /\ \/ purchase = "refunded" /\ Begin(p, "txn", "momentRegrant", -Reward, coins)
       \/ Begin(p, "txn", "shareRegrant", Reward, coins)
    /\ UNCHANGED claimed

\* ... for one that was not, with forceRepair, it writes the two rows only, and
\* with skipLedger not even them.
ForceRegrant(p) ==
    /\ \/ \E delta \in {-Reward, 0} : Begin(p, "txn", "momentForced", delta, coins)
       \/ Begin(p, "txn", "shareForced", Reward, coins)
    /\ UNCHANGED claimed

\* The creator of a refunded moment gives up to what the balance has.
RefundMomentCreator(p) ==
    Begin(p, "txn", "momentShare", -Reward, coins) /\ UNCHANGED claimed

-----------------------------------------------------------------------------
(* handlers, after the read *)

\* The ledger row first.  Rows with a fixed transactionId are unique: the
\* second insert fails and the handler answers with what is there.
WriteRow(p) ==
    /\ job[p].at = "row"
    /\ IF job[p].op \in {"addCoins", "upload", "clawback"} /\ rows[job[p].op] > 0
       THEN End(p) /\ UNCHANGED <<net, rows>>
       ELSE /\ net' = net + job[p].delta
            /\ rows' = [k \in Keyed |-> IF k = job[p].op THEN rows[k] + 1 ELSE rows[k]]
            /\ GoTo(p, "save")
    /\ UNCHANGED <<coins, claimed, purchase, queued, excess, operations, faults>>

\* Mutant: the row is written but the balance is only shown with it.
SaveCoinsNever(p) ==
    /\ job[p].at = "save"
    /\ GoTo(p, "verify")
    /\ UNCHANGED <<books, operations, faults>>

\* save() sets the balance computed from what was read; a clawback stops at 0.
SaveCoins(p) ==
    /\ job[p].at = "save"
    /\ coins' = Max0(job[p].seen + job[p].delta)
    /\ excess' = excess + Short(job[p].seen + job[p].delta)
    /\ GoTo(p, "verify")
    /\ UNCHANGED <<net, rows, claimed, purchase, queued, operations, faults>>

\* The moment transactions write balance, rows and purchase together.  A
\* regrant that would go below 0 fails the model's validation and aborts.
CommitMoment(p) ==
    /\ job[p].at = "txn" /\ job[p].op \notin Forced
    /\ LET balance == job[p].seen + job[p].delta IN
       IF job[p].op = "momentRegrant" /\ balance < 0
       THEN End(p) /\ UNCHANGED <<coins, net, purchase, excess>>
       ELSE /\ coins' = Max0(balance) /\ excess' = excess + Short(balance)
            /\ net' = net + job[p].delta
            /\ purchase' = CASE job[p].op = "momentRefund" -> "refunded"
                             [] job[p].op = "momentRegrant" -> "bought"
                             [] OTHER -> purchase
            /\ GoTo(p, "verify")
    /\ UNCHANGED <<rows, claimed, queued, operations, faults>>

CommitForced(p) ==
    /\ job[p].at = "txn" /\ job[p].op \in Forced
    /\ net' = net + job[p].delta /\ excess' = excess - job[p].delta
    /\ purchase' = IF job[p].op = "momentForced" THEN "bought" ELSE purchase
    /\ GoTo(p, "verify")
    /\ UNCHANGED <<coins, rows, claimed, queued, operations, faults>>

\* A transient error runs the callback again on the document it has changed.
RetryMoment(p) ==
    /\ job[p].at = "txn" /\ job[p].op \notin Forced /\ faults < MaxFaults
    /\ faults' = faults + 1
    /\ job' = [job EXCEPT ![p].seen = Max0(job[p].seen + job[p].delta)]
    /\ UNCHANGED <<books, operations>>

\* preSendMessage reads and writes inside one transaction.
PreSendMessage(p) ==
    /\ coins >= Reward
    /\ job[p] = Idle /\ operations < MaxOperations
    /\ operations' = operations + 1
    /\ coins' = coins - Reward /\ net' = net - Reward
    /\ GoTo(p, "verify")
    /\ UNCHANGED <<rows, claimed, purchase, queued, excess, faults>>

\* creditReward: $inc and row in one transaction.
CreditReward(p) ==
    /\ job[p] = Idle /\ operations < MaxOperations
    /\ operations' = operations + 1
    /\ coins' = coins + Reward /\ net' = net + Reward
    /\ GoTo(p, "verify")
    /\ UNCHANGED <<rows, claimed, purchase, queued, excess, faults>>

\* verifyUserBalance queues a mismatch of more than one coin.
VerifyUserBalance(p) ==
    /\ job[p].at = "verify"
    /\ queued' = (queued \/ Abs(coins - net) > 1)
    /\ End(p)
    /\ UNCHANGED <<coins, net, rows, claimed, purchase, excess, operations, faults>>

-----------------------------------------------------------------------------
(* repairs *)

\* Mutant: the debits are left out of the sum.
LedgerBalanceUnsigned == Max0(net) + 2 * Reward

LedgerBalance == Max0(net)

\* Read the balance and the ledger; one coin of difference is tolerated.
BeginRepair(p) ==
    /\ job[p] = Idle
    /\ Abs(coins - LedgerBalance) > 1
    /\ job' = [job EXCEPT ![p] = [at |-> "repair", op |-> "none", delta |-> 0, seen |-> LedgerBalance]]
    /\ UNCHANGED <<coins, net, rows, claimed, purchase, excess, operations, faults>>

\* getCanonicalCoinsAndRepairIfNeeded, on every read of the own profile.
ReadRepair(p) == BeginRepair(p) /\ UNCHANGED queued

\* processBalanceMismatchRepairs takes the user off the queue first.
QueueRepair(p) == queued /\ queued' = FALSE /\ BeginRepair(p)

\* A queued user whose balance has converged meanwhile is dropped.
QueueSkip(p) ==
    /\ queued /\ queued' = FALSE
    /\ Abs(coins - LedgerBalance) <= 1
    /\ UNCHANGED <<coins, net, rows, claimed, purchase, excess, job, operations, faults>>

ApplyRepair(p) ==
    /\ job[p].at = "repair"
    /\ coins' = job[p].seen /\ excess' = Short(net)
    /\ End(p)
    /\ UNCHANGED <<net, rows, claimed, purchase, queued, operations, faults>>

Fault(p) ==
    /\ job[p] /= Idle /\ faults < MaxFaults
    /\ faults' = faults + 1
    /\ End(p)
    /\ UNCHANGED <<books, operations>>

-----------------------------------------------------------------------------
Continue(p) ==
    \/ TakeClaim(p) \/ WriteRow(p) \/ SaveCoins(p)
    \/ CommitMoment(p) \/ CommitForced(p)
    \/ VerifyUserBalance(p) \/ ApplyRepair(p)

Next == \E p \in Executions :
    \/ AdjustUserCoins(p) \/ AddCoins(p) \/ ClaimTask(p) \/ CreditUploadReward(p)
    \/ ClawbackUploadReward(p) \/ RefundCall(p) \/ RefundClawback(p)
    \/ RefundMomentPurchase(p) \/ RegrantMoment(p) \/ ForceRegrant(p) \/ RefundMomentCreator(p)
    \/ PreSendMessage(p) \/ CreditReward(p)
    \/ Continue(p) \/ RetryMoment(p)
    \/ ReadRepair(p) \/ QueueRepair(p) \/ QueueSkip(p) \/ Fault(p)

Spec == Init /\ [][Next]_vars

-----------------------------------------------------------------------------
TypeOK ==
    /\ coins \in Nat /\ net \in Int
    /\ rows \in [Keyed -> Nat]
    /\ excess \in Int /\ claimed \in BOOLEAN /\ queued \in BOOLEAN
    /\ purchase \in {"bought", "refunded"}
    /\ job \in [Executions -> [at : {"idle", "claim", "row", "save", "txn", "verify", "repair"},
                               op : Keyed \cup {"none", "adjust", "refundClawback", "momentRefund",
                                                "momentRegrant", "momentShare", "shareRegrant"} \cup Forced,
                               delta : -Reward..Reward, seen : Nat]]
    /\ operations \in 0..MaxOperations /\ faults \in 0..MaxFaults

\* Requests that are sent twice, overlap or are retried after a crash reach
\* the ledger once: the caller's transactionId, a week's task, an upload.
RewardedOnce == \A k \in {"addCoins", "task", "upload"} : rows[k] <= 1

\* An upload reward is taken back at most once, and only after it was given.
ClawbackFollowsCredit == rows["clawback"] <= rows["upload"] /\ rows["upload"] <= 1

\* One operation at a time: between operations the cache is the ledger's
\* balance, plus exactly what clawbacks that stopped at 0 have left and what
\* forced regrants have booked without moving a coin since the last repair.
CacheIsLedger ==
    (\A p \in Executions : job[p].at \in {"idle", "verify"}) => coins = net + excess

\* The cached coins are within one coin of the ledger.
NoDrift == Abs(coins - Max0(net)) <= 1
=============================================================================
