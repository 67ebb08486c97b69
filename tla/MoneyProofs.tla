---------------------------- MODULE MoneyProofs ----------------------------
(***************************************************************************)
(* What the components' own proofs, which hold for all values of their     *)
(* constants, say about the instances that run money puts side by side.    *)
(***************************************************************************)
EXTENDS MCMoney, TLAPS, FiniteSetTheorems

\* The parameters of the other components of PaymentsProofs play no part.
PayP == INSTANCE PaymentsProofs WITH
    Executions <- {p1, p2}, Events <- {d1, d2}, MaxFaults <- 1, MaxMismatches <- 1, order <-
    v1, row <- v2, bonus <- v3, user <- v4, context <- v5, event <- v6, pc <- v7, caller <- v8,
    handling <- v9, credits <- v10, resets <- v11, faults <- v12, mismatches <- v13,
    MaxTime <- None, MaxExtensions <- None, MaxGrants <- None, Orders <- None, Handlers <-
    None, Duration <- None, Floor <- None, membership <- v1, cachedUntil <- v1, now <- v1, by
    <- v1, seen <- v1, extended <- v1, granted <- v1, revoked <- v1, checkout <- v1, member <-
    v1, copy <- v1, req <- v1, owed <- v1, clobbered <- v1

-----------------------------------------------------------------------------
(* Payments *)

\* The component of the run is the one of the proofs.
LEMMA PaySame == (Pay!Init <=> PayP!Init) /\ (Pay!Next <=> PayP!Next)
  BY DEF Pay!locals, PayP!locals, Pay!ledger, PayP!ledger, Pay!Init, PayP!Init, Pay!GoTo,
    PayP!GoTo, Pay!Start, PayP!Start, Pay!CreateOrder, PayP!CreateOrder, Pay!SavePending,
    PayP!SavePending, Pay!AttachCheckoutOrder, PayP!AttachCheckoutOrder, Pay!SaveBonus,
    PayP!SaveBonus, Pay!Capture, PayP!Capture, Pay!Complete, PayP!Complete, Pay!Credited,
    PayP!Credited, Pay!NotCredited, PayP!NotCredited, Pay!FinalizePayment,
    PayP!FinalizePayment, Pay!Reconcile, PayP!Reconcile, Pay!DeletedAfterCredit,
    PayP!DeletedAfterCredit, Pay!ResolveUser, PayP!ResolveUser, Pay!EnsurePending,
    PayP!EnsurePending, Pay!Verify, PayP!Verify, Pay!FindTransaction, PayP!FindTransaction,
    Pay!RecordSuccess, PayP!RecordSuccess, Pay!VerifyMismatch, PayP!VerifyMismatch,
    Pay!RejectTransaction, PayP!RejectTransaction, Pay!ReceiveWebhook, PayP!ReceiveWebhook,
    Pay!RetryWebhook, PayP!RetryWebhook, Pay!ClaimEvent, PayP!ClaimEvent, Pay!AcknowledgeEvent,
    PayP!AcknowledgeEvent, Pay!FailEvent, PayP!FailEvent, Pay!PaidNoCoins, PayP!PaidNoCoins,
    Pay!Sweep, PayP!Sweep, Pay!GetCheckoutStatus, PayP!GetCheckoutStatus,
    Pay!RecordHostedResult, PayP!RecordHostedResult, Pay!DeleteAccount, PayP!DeleteAccount,
    Pay!Crash, PayP!Crash, Pay!Step, PayP!Step, Pay!Next, PayP!Next

LEMMA PayBounds == PayP!Bounds
  BY DEF PayP!Bounds

PayInv == scenario = "payments" => PayP!Inv

\* Only the component at work takes a step, and it stays at work.
LEMMA PayInvInit == Init => PayInv
  BY PayBounds, PaySame, PayP!InitInv DEF PayInv, Init, Begins

LEMMA PayInvStep == PayInv /\ [Next]_pool => PayInv'
  BY PayBounds, PaySame, PayP!StepInv, PayP!StutterInv DEF PayInv, Next, Steps, pool, PayP!vars

\* In every behaviour of the run the packs, their bonuses and what is said
\* about them agree with the coins (finalizePaymentAtomically).
THEOREM PurchasesTheorem == Spec => []PurchasesBookedOnce
<1>1. PayInv => PurchasesBookedOnce
  BY DEF PayInv, PurchasesBookedOnce, PayP!Inv,
         Pay!CreditsMatchLedger, PayP!CreditsMatchLedger,
         Pay!BonusCreditedOnce, PayP!BonusCreditedOnce,
         Pay!BonusWithMain, PayP!BonusWithMain,
         Pay!AcknowledgedMeansCredited, PayP!AcknowledgedMeansCredited
<1> QED BY <1>1, PayInvInit, PayInvStep, PTL DEF Spec

-----------------------------------------------------------------------------
(* Withdrawals *)

\* The parameters of the other components of EarningsProofs play no part.
PayoutP == INSTANCE EarningsProofs WITH
    OfStaff <- FALSE, Executions <- {p1, p2}, Withdrawals <- {d1, d2}, Amount <- 2, Opening <- 4,
    MaxMoves <- 1, MaxFaults <- 1, doc <- v1, debits <- v2, ledger <- v3, wallet <- v4,
    earnings <- v5, credited <- v6, pc <- v7, target <- v8, seen <- v9, faults <- v10,
    Workers <- None, MayDie <- None, MaxJobs <- None, Referrers <- None, Applies <- None,
    Rewards <- None, None <- None, Settled <- None, MayFail <- None, Reward <- None,
    MaxOperations <- None, attached <- v1, edge <- v1, rewarded <- v1, paid <- v1, telegram <-
    v1, bought <- v1, on <- v1, job <- v1, jobs <- v1, referredBy <- v1, entries <- v1, claimed
    <- v1, apply <- v1, reward <- v1, coins <- v1, net <- v11, rows <- v1, purchase <- v1,
    queued <- v1, excess <- v1, operations <- v1,
    restored <- v12, moved <- v13

LEMMA PayoutSame == (Payout!Init <=> PayoutP!W!Init) /\ (Payout!Next <=> PayoutP!W!Next)
  BY DEF Payout!books, PayoutP!W!books, Payout!Active, PayoutP!W!Active, Payout!Init,
    PayoutP!W!Init, Payout!GoTo, PayoutP!W!GoTo, Payout!Start, PayoutP!W!Start,
    Payout!SetStatus, PayoutP!W!SetStatus, Payout!Max0, PayoutP!W!Max0, Payout!BeginRequest,
    PayoutP!W!BeginRequest, Payout!Request, PayoutP!W!Request, Payout!RequestStaff,
    PayoutP!W!RequestStaff, Payout!FindActive, PayoutP!W!FindActive, Payout!Create,
    PayoutP!W!Create, Payout!Approve, PayoutP!W!Approve, Payout!CheckBalance,
    PayoutP!W!CheckBalance, Payout!SaveApproved, PayoutP!W!SaveApproved, Payout!Reject,
    PayoutP!W!Reject, Payout!SaveRejected, PayoutP!W!SaveRejected, Payout!MarkPaid,
    PayoutP!W!MarkPaid, Payout!ReadWallet, PayoutP!W!ReadWallet, Payout!DebitRow,
    PayoutP!W!DebitRow, Payout!SaveWallet, PayoutP!W!SaveWallet, Payout!SaveMirror,
    PayoutP!W!SaveMirror, Payout!SavePaid, PayoutP!W!SavePaid, Payout!Credit, PayoutP!W!Credit,
    Payout!LedgerBalance, PayoutP!W!LedgerBalance, Payout!Reconcile, PayoutP!W!Reconcile,
    Payout!ReadBalance, PayoutP!W!ReadBalance, Payout!FixBalance, PayoutP!W!FixBalance,
    Payout!Fault, PayoutP!W!Fault, Payout!Continue, PayoutP!W!Continue,
    Payout!balance, PayoutP!W!balance, Payout!Unread, PayoutP!W!Unread, Payout!Marked,
    PayoutP!W!Marked, Payout!Points, PayoutP!W!Points, Payout!ReadCoins, PayoutP!W!ReadCoins,
    Payout!MoveRow, PayoutP!W!MoveRow, Payout!SaveCoins, PayoutP!W!SaveCoins, Payout!Drift,
    PayoutP!W!Drift, Payout!ReadRows, PayoutP!W!ReadRows, Payout!Next,
    PayoutP!W!Next

LEMMA PayoutBounds == PayoutP!WBounds
<1>1. IsFiniteSet({d1})
  BY FS_Singleton
<1>2. IsFiniteSet({d1} \cup {d2})
  BY <1>1, FS_AddElement
<1>3. {d1, d2} = {d1} \cup {d2}
  OBVIOUS
<1> QED BY <1>2, <1>3 DEF PayoutP!WBounds, PayoutP!IsFiniteSet, IsFiniteSet

PayoutInv == scenario = "payout" => PayoutP!WInv

LEMMA PayoutInvInit == Init => PayoutInv
  BY PayoutBounds, PayoutSame, PayoutP!WInitInv DEF PayoutInv, Init, Begins

LEMMA PayoutInvStep == PayoutInv /\ [Next]_pool => PayoutInv'
  BY PayoutBounds, PayoutSame, PayoutP!WStepInv, PayoutP!WStutterInv
  DEF PayoutInv, Next, Steps, pool, PayoutP!W!vars, PayoutP!W!books, PayoutP!W!balance

\* The staff wallet.
StaffP == INSTANCE EarningsProofs WITH
    OfStaff <- TRUE, Executions <- {p1, p2}, Withdrawals <- {d1}, Amount <- 2, Opening <- 2,
    MaxMoves <- 1, MaxFaults <- 1, doc <- v1, debits <- v2, ledger <- v3, wallet <- v4,
    earnings <- v5, credited <- v6, pc <- v7, target <- v8, seen <- v9, faults <- v10,
    Workers <- None, MayDie <- None, MaxJobs <- None, Referrers <- None, Applies <- None,
    Rewards <- None, None <- None, Settled <- None, MayFail <- None, Reward <- None,
    MaxOperations <- None, attached <- v1, edge <- v1, rewarded <- v1, paid <- v1, telegram <-
    v1, bought <- v1, on <- v1, job <- v1, jobs <- v1, referredBy <- v1, entries <- v1, claimed
    <- v1, apply <- v1, reward <- v1, coins <- v1, net <- v11, rows <- v1, purchase <- v1,
    queued <- v1, excess <- v1, operations <- v1,
    restored <- v12, moved <- v13

LEMMA StaffSame == (Staff!Init <=> StaffP!W!Init) /\ (Staff!Next <=> StaffP!W!Next)
<1>1. Staff!LedgerBalance = StaffP!W!LedgerBalance
  BY DEF Staff!LedgerBalance, StaffP!W!LedgerBalance, Staff!Cardinality, StaffP!W!Cardinality,
         Staff!IsFiniteSet, StaffP!W!IsFiniteSet
<1> QED
  BY <1>1 DEF Staff!books, StaffP!W!books, Staff!Active, StaffP!W!Active, Staff!Init, StaffP!W!Init,
    Staff!GoTo, StaffP!W!GoTo, Staff!Start, StaffP!W!Start, Staff!SetStatus,
    StaffP!W!SetStatus, Staff!Max0, StaffP!W!Max0, Staff!BeginRequest, StaffP!W!BeginRequest,
    Staff!Request, StaffP!W!Request, Staff!RequestStaff, StaffP!W!RequestStaff,
    Staff!FindActive, StaffP!W!FindActive, Staff!Create, StaffP!W!Create, Staff!Approve,
    StaffP!W!Approve, Staff!CheckBalance, StaffP!W!CheckBalance, Staff!SaveApproved,
    StaffP!W!SaveApproved, Staff!Reject, StaffP!W!Reject, Staff!SaveRejected,
    StaffP!W!SaveRejected, Staff!MarkPaid, StaffP!W!MarkPaid, Staff!ReadWallet,
    StaffP!W!ReadWallet, Staff!DebitRow, StaffP!W!DebitRow, Staff!SaveWallet,
    StaffP!W!SaveWallet, Staff!SaveMirror, StaffP!W!SaveMirror, Staff!SavePaid,
    StaffP!W!SavePaid, Staff!Credit, StaffP!W!Credit, Staff!Reconcile, StaffP!W!Reconcile,
    Staff!ReadBalance,
    StaffP!W!ReadBalance, Staff!FixBalance, StaffP!W!FixBalance, Staff!Fault, StaffP!W!Fault,
    Staff!Continue, StaffP!W!Continue,
    Staff!balance, StaffP!W!balance, Staff!Unread, StaffP!W!Unread, Staff!Marked,
    StaffP!W!Marked, Staff!Points, StaffP!W!Points, Staff!ReadCoins, StaffP!W!ReadCoins,
    Staff!MoveRow, StaffP!W!MoveRow, Staff!SaveCoins, StaffP!W!SaveCoins, Staff!Drift,
    StaffP!W!Drift, Staff!ReadRows, StaffP!W!ReadRows, Staff!Next, StaffP!W!Next

LEMMA StaffBounds == StaffP!WBounds
<1>1. IsFiniteSet({d1})
  BY FS_Singleton
<1> QED BY <1>1 DEF StaffP!WBounds, StaffP!IsFiniteSet, IsFiniteSet

StaffInv == scenario = "staff" => StaffP!WInv

LEMMA StaffInvInit == Init => StaffInv
  BY StaffBounds, StaffSame, StaffP!WInitInv DEF StaffInv, Init, Begins

LEMMA StaffInvStep == StaffInv /\ [Next]_pool => StaffInv'
  BY StaffBounds, StaffSame, StaffP!WStepInv, StaffP!WStutterInv
  DEF StaffInv, Next, Steps, pool, StaffP!W!vars, StaffP!W!books, StaffP!W!balance

\* In every behaviour of the run a withdrawal that is paid has its debit, and
\* the coins of a creator's have left the wallet (processWithdrawalMarkPaid).
THEOREM PayoutsTheorem == Spec => []PaidLeftTheWallet
<1>1. PayoutInv /\ StaffInv => PaidLeftTheWallet
  <2>1. PayoutInv /\ scenario = "payout" => Payout!PaidMeansDebited /\ Payout!PaidLeftTheWallet
    BY PayoutP!WLeft DEF PayoutInv, Payout!PaidMeansDebited, PayoutP!W!PaidMeansDebited,
                         Payout!PaidLeftTheWallet, PayoutP!W!PaidLeftTheWallet
  <2>2. StaffInv /\ scenario = "staff" => Staff!PaidMeansDebited
    BY StaffP!WLeft DEF StaffInv, Staff!PaidMeansDebited, StaffP!W!PaidMeansDebited
  <2> QED BY <2>1, <2>2 DEF PaidLeftTheWallet
<1> QED BY <1>1, PayoutInvInit, PayoutInvStep, StaffInvInit, StaffInvStep, PTL DEF Spec

-----------------------------------------------------------------------------
(* The wallet *)

\* Three operations that overlap.
WalletP == INSTANCE EarningsProofs WITH
    Executions <- {p1, p2}, Opening <- 3, MaxFaults <- 1, Reward <- 2, MaxOperations <- 3,
    faults <- v10, job <- v8, claimed <- v4, coins <- v1, net <- v2, rows <- v3, purchase <-
    v5, queued <- v6, excess <- v7, operations <- v9,
    OfStaff <- None, Withdrawals <- None, Amount <- None, MaxMoves <- None, Workers <- None,
    MayDie <- None, MaxJobs <- None, Referrers <- None, Applies <- None, Rewards <- None, None
    <- None, Settled <- None, MayFail <- None, doc <- v1, debits <- v1, ledger <- v1, wallet <-
    v1, earnings <- v1, credited <- v1, pc <- v1, target <- v1, seen <- v1, attached <- v1,
    edge <- v1, rewarded <- v1, paid <- v1, telegram <- v1, bought <- v1, on <- v1, jobs <- v1,
    referredBy <- v1, entries <- v1, apply <- v1, reward <- v1, restored <- v1,
    moved <- v1

LEMMA WalletSame == (Wallet!Init <=> WalletP!L!Init) /\ (Wallet!Next <=> WalletP!L!Next)
  BY DEF Wallet!books, WalletP!L!books, Wallet!Keyed, WalletP!L!Keyed, Wallet!Idle,
    WalletP!L!Idle, Wallet!Abs, WalletP!L!Abs, Wallet!Max0, WalletP!L!Max0, Wallet!Init,
    WalletP!L!Init, Wallet!Begin, WalletP!L!Begin, Wallet!GoTo, WalletP!L!GoTo, Wallet!End,
    WalletP!L!End, Wallet!AdjustUserCoins, WalletP!L!AdjustUserCoins, Wallet!AddCoins,
    WalletP!L!AddCoins, Wallet!ClaimTask, WalletP!L!ClaimTask, Wallet!TakeClaim,
    WalletP!L!TakeClaim, Wallet!CreditUploadReward, WalletP!L!CreditUploadReward,
    Wallet!ClawbackUploadReward, WalletP!L!ClawbackUploadReward, Wallet!RefundCall,
    WalletP!L!RefundCall, Wallet!RefundClawback, WalletP!L!RefundClawback,
    Wallet!RefundMomentPurchase, WalletP!L!RefundMomentPurchase, Wallet!RegrantMoment,
    WalletP!L!RegrantMoment, Wallet!RefundMomentCreator, WalletP!L!RefundMomentCreator,
    Wallet!WriteRow, WalletP!L!WriteRow, Wallet!SaveCoins, WalletP!L!SaveCoins,
    Wallet!CommitMoment, WalletP!L!CommitMoment, Wallet!RetryMoment, WalletP!L!RetryMoment,
    Wallet!PreSendMessage, WalletP!L!PreSendMessage, Wallet!CreditReward,
    WalletP!L!CreditReward, Wallet!VerifyUserBalance, WalletP!L!VerifyUserBalance,
    Wallet!LedgerBalance, WalletP!L!LedgerBalance, Wallet!BeginRepair, WalletP!L!BeginRepair,
    Wallet!ReadRepair, WalletP!L!ReadRepair, Wallet!QueueRepair, WalletP!L!QueueRepair,
    Wallet!QueueSkip, WalletP!L!QueueSkip, Wallet!ApplyRepair, WalletP!L!ApplyRepair,
    Wallet!Fault, WalletP!L!Fault, Wallet!Continue, WalletP!L!Continue,
    Wallet!Forced, WalletP!L!Forced, Wallet!Short, WalletP!L!Short, Wallet!ForceRegrant,
    WalletP!L!ForceRegrant, Wallet!CommitForced, WalletP!L!CommitForced, Wallet!Next,
    WalletP!L!Next

LEMMA WalletBounds == WalletP!LBounds
  BY DEF WalletP!LBounds

WalletInv == scenario = "wallet" => WalletP!LInv

LEMMA WalletInvInit == Init => WalletInv
  BY WalletBounds, WalletSame, WalletP!LInitInv DEF WalletInv, Init, Begins

LEMMA WalletInvStep == WalletInv /\ [Next]_pool => WalletInv'
  BY WalletBounds, WalletSame, WalletP!LStepInv, WalletP!LStutterInv
  DEF WalletInv, Next, Steps, pool, WalletP!L!vars

\* Five operations that take turns.
TurnsP == INSTANCE EarningsProofs WITH
    Executions <- {p1}, Opening <- 3, MaxFaults <- 0, Reward <- 2, MaxOperations <- 5, faults
    <- v10, job <- v8, claimed <- v4, coins <- v1, net <- v2, rows <- v3, purchase <- v5,
    queued <- v6, excess <- v7, operations <- v9,
    OfStaff <- None, Withdrawals <- None, Amount <- None, MaxMoves <- None, Workers <- None,
    MayDie <- None, MaxJobs <- None, Referrers <- None, Applies <- None, Rewards <- None, None
    <- None, Settled <- None, MayFail <- None, doc <- v1, debits <- v1, ledger <- v1, wallet <-
    v1, earnings <- v1, credited <- v1, pc <- v1, target <- v1, seen <- v1, attached <- v1,
    edge <- v1, rewarded <- v1, paid <- v1, telegram <- v1, bought <- v1, on <- v1, jobs <- v1,
    referredBy <- v1, entries <- v1, apply <- v1, reward <- v1, restored <- v1,
    moved <- v1

LEMMA WalletTurnsSame == (WalletTurns!Init <=> TurnsP!L!Init) /\ (WalletTurns!Next <=> TurnsP!L!Next)
  BY DEF WalletTurns!books, TurnsP!L!books, WalletTurns!Keyed, TurnsP!L!Keyed,
    WalletTurns!Idle, TurnsP!L!Idle, WalletTurns!Abs, TurnsP!L!Abs, WalletTurns!Max0,
    TurnsP!L!Max0, WalletTurns!Init, TurnsP!L!Init, WalletTurns!Begin, TurnsP!L!Begin,
    WalletTurns!GoTo, TurnsP!L!GoTo, WalletTurns!End, TurnsP!L!End,
    WalletTurns!AdjustUserCoins, TurnsP!L!AdjustUserCoins, WalletTurns!AddCoins,
    TurnsP!L!AddCoins, WalletTurns!ClaimTask, TurnsP!L!ClaimTask, WalletTurns!TakeClaim,
    TurnsP!L!TakeClaim, WalletTurns!CreditUploadReward, TurnsP!L!CreditUploadReward,
    WalletTurns!ClawbackUploadReward, TurnsP!L!ClawbackUploadReward, WalletTurns!RefundCall,
    TurnsP!L!RefundCall, WalletTurns!RefundClawback, TurnsP!L!RefundClawback,
    WalletTurns!RefundMomentPurchase, TurnsP!L!RefundMomentPurchase, WalletTurns!RegrantMoment,
    TurnsP!L!RegrantMoment, WalletTurns!RefundMomentCreator, TurnsP!L!RefundMomentCreator,
    WalletTurns!WriteRow, TurnsP!L!WriteRow, WalletTurns!SaveCoins, TurnsP!L!SaveCoins,
    WalletTurns!CommitMoment, TurnsP!L!CommitMoment, WalletTurns!RetryMoment,
    TurnsP!L!RetryMoment, WalletTurns!PreSendMessage, TurnsP!L!PreSendMessage,
    WalletTurns!CreditReward, TurnsP!L!CreditReward, WalletTurns!VerifyUserBalance,
    TurnsP!L!VerifyUserBalance, WalletTurns!LedgerBalance, TurnsP!L!LedgerBalance,
    WalletTurns!BeginRepair, TurnsP!L!BeginRepair, WalletTurns!ReadRepair, TurnsP!L!ReadRepair,
    WalletTurns!QueueRepair, TurnsP!L!QueueRepair, WalletTurns!QueueSkip, TurnsP!L!QueueSkip,
    WalletTurns!ApplyRepair, TurnsP!L!ApplyRepair, WalletTurns!Fault, TurnsP!L!Fault,
    WalletTurns!Continue, TurnsP!L!Continue,
    WalletTurns!Forced, TurnsP!L!Forced, WalletTurns!Short, TurnsP!L!Short,
    WalletTurns!ForceRegrant, TurnsP!L!ForceRegrant, WalletTurns!CommitForced,
    TurnsP!L!CommitForced, WalletTurns!Next, TurnsP!L!Next

LEMMA WalletTurnsBounds == TurnsP!LBounds
  BY DEF TurnsP!LBounds

WalletTurnsInv == scenario = "walletTurns" => TurnsP!LInv

LEMMA WalletTurnsInvInit == Init => WalletTurnsInv
  BY WalletTurnsBounds, WalletTurnsSame, TurnsP!LInitInv DEF WalletTurnsInv, Init, Begins

LEMMA WalletTurnsInvStep == WalletTurnsInv /\ [Next]_pool => WalletTurnsInv'
  BY WalletTurnsBounds, WalletTurnsSame, TurnsP!LStepInv, TurnsP!LStutterInv
  DEF WalletTurnsInv, Next, Steps, pool, TurnsP!L!vars

\* In every behaviour of the run the claim and the upload reward are booked
\* once, a clawback follows its credit, and operations that take turns leave
\* the balance of the ledger (adjustUserCoins, verifyUserBalance).
THEOREM WalletTheorem == Spec => []WalletFollowsLedger
<1>1. WalletInv /\ scenario = "wallet" => Wallet!RewardedOnce /\ Wallet!ClawbackFollowsCredit
  BY DEF WalletInv, WalletP!LInv, Wallet!RewardedOnce, WalletP!L!RewardedOnce,
         Wallet!ClawbackFollowsCredit, WalletP!L!ClawbackFollowsCredit
<1>2. WalletTurnsInv /\ scenario = "walletTurns" => WalletTurns!CacheIsLedger
  <2>1. TurnsP!TakingTurns
    BY DEF TurnsP!TakingTurns
  <2> QED BY <2>1, TurnsP!LCache DEF WalletTurnsInv, WalletTurns!CacheIsLedger,
    TurnsP!L!CacheIsLedger
<1>3. WalletInv /\ WalletTurnsInv => WalletFollowsLedger
  BY <1>1, <1>2 DEF WalletFollowsLedger
<1> QED BY <1>3, WalletInvInit, WalletInvStep, WalletTurnsInvInit, WalletTurnsInvStep, PTL DEF Spec

-----------------------------------------------------------------------------
(* Referrals *)

\* Two entries of a code.
ReferralP == INSTANCE EarningsProofs WITH
    Referrers <- {d1, d2}, Applies <- {p1, p2}, Rewards <- {p1, p2, p3}, None <- None, Settled
    <- TRUE, MayFail <- FALSE, ledger <- v6, edge <- v3, paid <- v5, bought <- v4, referredBy
    <- v1, entries <- v2, claimed <- v7, apply <- v8, reward <- v9,
    OfStaff <- None, Executions <- None, Withdrawals <- None, Amount <- None, Opening <- None,
    MaxMoves <- None, MaxFaults <- None, Workers <- None, MayDie <- None, MaxJobs <- None,
    Reward <- None, MaxOperations <- None, doc <- v1, debits <- v1, wallet <- v1, earnings <-
    v1, credited <- v1, pc <- v1, target <- v1, seen <- v1, faults <- v1, attached <- v1,
    rewarded <- v1, telegram <- v1, on <- v1, job <- v1, jobs <- v1, coins <- v1, net <- v1,
    rows <- v1, purchase <- v1, queued <- v1, excess <- v1, operations <- v1, restored <- v1,
    moved <- v1

LEMMA ReferralSame == (Referral!Init <=> ReferralP!R!Init) /\ (Referral!Next <=> ReferralP!R!Next)
  BY DEF Referral!link, ReferralP!R!link, Referral!money, ReferralP!R!money, Referral!NoEdge,
    ReferralP!R!NoEdge, Referral!Idle, ReferralP!R!Idle, Referral!Init, ReferralP!R!Init,
    Referral!Linking, ReferralP!R!Linking, Referral!Paying, ReferralP!R!Paying,
    Referral!MayReward, ReferralP!R!MayReward, Referral!Open, ReferralP!R!Open,
    Referral!Granted, ReferralP!R!Granted, Referral!To, ReferralP!R!To, Referral!MayEnter,
    ReferralP!R!MayEnter, Referral!Enter, ReferralP!R!Enter, Referral!Claim, ReferralP!R!Claim,
    Referral!Push, ReferralP!R!Push, Referral!CreateEdge, ReferralP!R!CreateEdge,
    Referral!Unset, ReferralP!R!Unset, Referral!Pull, ReferralP!R!Pull, Referral!Goes,
    ReferralP!R!Goes, Referral!EnsuredEdge, ReferralP!R!EnsuredEdge, Referral!Purchase,
    ReferralP!R!Purchase, Referral!Look, ReferralP!R!Look, Referral!Grant, ReferralP!R!Grant,
    Referral!Flag, ReferralP!R!Flag, Referral!Row, ReferralP!R!Row, Referral!Call,
    ReferralP!R!Call, Referral!CallGrant, ReferralP!R!CallGrant, Referral!Credit,
    ReferralP!R!Credit, Referral!Die, ReferralP!R!Die, Referral!Applying, ReferralP!R!Applying,
    Referral!Rewarding, ReferralP!R!Rewarding, Referral!Next, ReferralP!R!Next

LEMMA ReferralBounds == ReferralP!RApart
  BY NoneAssumption DEF ReferralP!RApart

ReferralInv == scenario = "referral" => ReferralP!RInv /\ ReferralP!RLink

LEMMA ReferralInvInit == Init => ReferralInv
  BY ReferralBounds, ReferralSame, ReferralP!RInitInv DEF ReferralInv, Init, Begins

LEMMA ReferralInvStep == ReferralInv /\ [Next]_pool => ReferralInv'
  BY ReferralBounds, ReferralSame, ReferralP!RStepInv, ReferralP!RStepLink,
    ReferralP!RStutterInv, ReferralP!RStutterLink
  DEF ReferralInv, Next, Steps, pool, ReferralP!R!vars

\* One entry of a code, with failures.
FailsP == INSTANCE EarningsProofs WITH
    Referrers <- {d1, d2}, Applies <- {p1}, Rewards <- {p1, p2, p3}, None <- None, Settled <-
    FALSE, MayFail <- TRUE, ledger <- v6, edge <- v3, paid <- v5, bought <- v4, referredBy <-
    v1, entries <- v2, claimed <- v7, apply <- v8, reward <- v9,
    OfStaff <- None, Executions <- None, Withdrawals <- None, Amount <- None, Opening <- None,
    MaxMoves <- None, MaxFaults <- None, Workers <- None, MayDie <- None, MaxJobs <- None,
    Reward <- None, MaxOperations <- None, doc <- v1, debits <- v1, wallet <- v1, earnings <-
    v1, credited <- v1, pc <- v1, target <- v1, seen <- v1, faults <- v1, attached <- v1,
    rewarded <- v1, telegram <- v1, on <- v1, job <- v1, jobs <- v1, coins <- v1, net <- v1,
    rows <- v1, purchase <- v1, queued <- v1, excess <- v1, operations <- v1, restored <- v1,
    moved <- v1

LEMMA ReferralFailsSame == (ReferralFails!Init <=> FailsP!R!Init) /\ (ReferralFails!Next <=> FailsP!R!Next)
  BY DEF ReferralFails!link, FailsP!R!link, ReferralFails!money, FailsP!R!money,
    ReferralFails!NoEdge, FailsP!R!NoEdge, ReferralFails!Idle, FailsP!R!Idle,
    ReferralFails!Init, FailsP!R!Init, ReferralFails!Linking, FailsP!R!Linking,
    ReferralFails!Paying, FailsP!R!Paying, ReferralFails!MayReward, FailsP!R!MayReward,
    ReferralFails!Open, FailsP!R!Open, ReferralFails!Granted, FailsP!R!Granted,
    ReferralFails!To, FailsP!R!To, ReferralFails!MayEnter, FailsP!R!MayEnter,
    ReferralFails!Enter, FailsP!R!Enter, ReferralFails!Claim, FailsP!R!Claim,
    ReferralFails!Push, FailsP!R!Push, ReferralFails!CreateEdge, FailsP!R!CreateEdge,
    ReferralFails!Unset, FailsP!R!Unset, ReferralFails!Pull, FailsP!R!Pull, ReferralFails!Goes,
    FailsP!R!Goes, ReferralFails!EnsuredEdge, FailsP!R!EnsuredEdge, ReferralFails!Purchase,
    FailsP!R!Purchase, ReferralFails!Look, FailsP!R!Look, ReferralFails!Grant, FailsP!R!Grant,
    ReferralFails!Flag, FailsP!R!Flag, ReferralFails!Row, FailsP!R!Row, ReferralFails!Call,
    FailsP!R!Call, ReferralFails!CallGrant, FailsP!R!CallGrant, ReferralFails!Credit,
    FailsP!R!Credit, ReferralFails!Die, FailsP!R!Die, ReferralFails!Applying,
    FailsP!R!Applying, ReferralFails!Rewarding, FailsP!R!Rewarding, ReferralFails!Next,
    FailsP!R!Next

LEMMA ReferralFailsBounds == FailsP!RApart
  BY NoneAssumption DEF FailsP!RApart

ReferralFailsInv == scenario = "referralFails" => FailsP!RInv /\ FailsP!RLink

LEMMA ReferralFailsInvInit == Init => ReferralFailsInv
  BY ReferralFailsBounds, ReferralFailsSame, FailsP!RInitInv DEF ReferralFailsInv, Init, Begins

LEMMA ReferralFailsInvStep == ReferralFailsInv /\ [Next]_pool => ReferralFailsInv'
  BY ReferralFailsBounds, ReferralFailsSame, FailsP!RStepInv, FailsP!RStepLink,
    FailsP!RStutterInv, FailsP!RStutterLink
  DEF ReferralFailsInv, Next, Steps, pool, FailsP!R!vars

\* The affiliate program of creators.
AffiliateP == INSTANCE EarningsProofs WITH
    Workers <- {p1, p2, p3}, MayDie <- TRUE, MaxJobs <- 3, ledger <- v4, attached <- v1, edge
    <- v2, rewarded <- v3, paid <- v5, telegram <- v6, bought <- v7, on <- v8, job <- v9, jobs
    <- v10,
    OfStaff <- None, Executions <- None, Withdrawals <- None, Amount <- None, Opening <- None,
    MaxMoves <- None, MaxFaults <- None, Referrers <- None, Applies <- None, Rewards <- None,
    None <- None, Settled <- None, MayFail <- None, Reward <- None, MaxOperations <- None, doc
    <- v1, debits <- v1, wallet <- v1, earnings <- v1, credited <- v1, pc <- v1, target <- v1,
    seen <- v1, faults <- v1, referredBy <- v1, entries <- v1, claimed <- v1, apply <- v1,
    reward <- v1, coins <- v1, net <- v1, rows <- v1, purchase <- v1, queued <- v1, excess <-
    v1, operations <- v1, restored <- v1,
    moved <- v1

LEMMA CreatorReferralSame == (CreatorReferral!Init <=> AffiliateP!C!Init) /\ (CreatorReferral!Next <=> AffiliateP!C!Next)
  BY DEF CreatorReferral!state, AffiliateP!C!state, CreatorReferral!Stages,
    AffiliateP!C!Stages, CreatorReferral!Idle, AffiliateP!C!Idle, CreatorReferral!Init,
    AffiliateP!C!Init, CreatorReferral!Run, AffiliateP!C!Run, CreatorReferral!Free,
    AffiliateP!C!Free, CreatorReferral!When, AffiliateP!C!When, CreatorReferral!Attach,
    AffiliateP!C!Attach, CreatorReferral!Create, AffiliateP!C!Create, CreatorReferral!Due,
    AffiliateP!C!Due, CreatorReferral!Stage, AffiliateP!C!Stage, CreatorReferral!Credit,
    AffiliateP!C!Credit, CreatorReferral!Finish, AffiliateP!C!Finish,
    CreatorReferral!ClaimTelegram, AffiliateP!C!ClaimTelegram, CreatorReferral!Mark,
    AffiliateP!C!Mark, CreatorReferral!Purchase, AffiliateP!C!Purchase, CreatorReferral!Unpaid,
    AffiliateP!C!Unpaid, CreatorReferral!Configure, AffiliateP!C!Configure,
    CreatorReferral!Die, AffiliateP!C!Die, CreatorReferral!Step, AffiliateP!C!Step,
    CreatorReferral!Next, AffiliateP!C!Next

CreatorReferralInv == scenario = "creatorReferral" => AffiliateP!CInv

LEMMA CreatorReferralInvInit == Init => CreatorReferralInv
  BY CreatorReferralSame, AffiliateP!CInitInv DEF CreatorReferralInv, Init, Begins

LEMMA CreatorReferralInvStep == CreatorReferralInv /\ [Next]_pool => CreatorReferralInv'
  BY CreatorReferralSame, AffiliateP!CStepInv, AffiliateP!CStutterInv
  DEF CreatorReferralInv, Next, Steps, pool, AffiliateP!C!vars

\* In every behaviour of the run a referrer is paid once for an applicant,
\* whose records agree, and the stages of a creator's referral are paid as
\* they happen (markReferralPurchaseMade, creditStage).
THEOREM ReferralsTheorem == Spec => []ReferralsPaidOnce
<1>1. ReferralInv /\ scenario = "referral" =>
        Referral!PaidOnce /\ Referral!PaidIsBooked /\ Referral!LinkAgrees
  BY ReferralP!RSays DEF ReferralInv, Referral!PaidOnce, ReferralP!R!PaidOnce,
    Referral!PaidIsBooked,
     ReferralP!R!PaidIsBooked, Referral!LinkAgrees, ReferralP!R!LinkAgrees, Referral!Quiet,
     ReferralP!R!Quiet, Referral!Linking, ReferralP!R!Linking, Referral!Paying, ReferralP!R!Paying
<1>2. ReferralFailsInv /\ scenario = "referralFails" => ReferralFails!PaidOnce
  BY FailsP!RSays DEF ReferralFailsInv, ReferralFails!PaidOnce, FailsP!R!PaidOnce
<1>3. CreatorReferralInv /\ scenario = "creatorReferral" =>
        CreatorReferral!StagesAgree /\ CreatorReferral!PaidIsEarned
  BY AffiliateP!CEarned DEF CreatorReferralInv, AffiliateP!CInv, CreatorReferral!StagesAgree,
     AffiliateP!C!StagesAgree, CreatorReferral!PaidIsEarned, AffiliateP!C!PaidIsEarned,
     CreatorReferral!Stages, AffiliateP!C!Stages
<1>4. ReferralInv /\ ReferralFailsInv /\ CreatorReferralInv => ReferralsPaidOnce
  BY <1>1, <1>2, <1>3 DEF ReferralsPaidOnce
<1> QED BY <1>4, ReferralInvInit, ReferralInvStep, ReferralFailsInvInit, ReferralFailsInvStep,
           CreatorReferralInvInit, CreatorReferralInvStep, PTL DEF Spec

-----------------------------------------------------------------------------
(* Memberships *)

\* An order over the end of a plan.
VipP == INSTANCE PaymentsProofs WITH
    Executions <- {p1, p2}, MaxFaults <- 1, MaxMismatches <- 1, MaxTime <- 2, MaxExtensions <-
    2, MaxGrants <- 0, Duration <- 1, Floor <- 2, order <- v1, row <- v2, event <- v3, pc <- v7, faults <- v14, mismatches
    <- v13, membership <- v4, cachedUntil <- v5, now <- v6, by <- v8, seen <- v9, extended <-
    v10, granted <- v11, revoked <- v12,
    Events <- None, Orders <- None, Handlers <- None, bonus <-
    v1, user <- v1, context <- v1, caller <- v1, handling <- v1, credits <- v1, resets <- v1,
    checkout <- v1, member <- v1, copy <- v1, req <- v1, owed <- v1, clobbered <- v1

LEMMA VipSame == (Vip!Init <=> VipP!V!Init) /\ (Vip!Next <=> VipP!V!Next)
  BY DEF Vip!Lapsed, VipP!V!Lapsed, Vip!Later, VipP!V!Later, Vip!LivesUntil, VipP!V!LivesUntil,
    Vip!Uncache, VipP!V!Uncache, Vip!purchase, VipP!V!purchase, Vip!bounds, VipP!V!bounds,
    Vip!NoMembership,
    VipP!V!NoMembership, Vip!Init, VipP!V!Init, Vip!GoTo, VipP!V!GoTo, Vip!Start, VipP!V!Start,
    Vip!Done, VipP!V!Done, Vip!Active, VipP!V!Active, Vip!Extended, VipP!V!Extended,
    Vip!CreateOrder, VipP!V!CreateOrder, Vip!Capture, VipP!V!Capture, Vip!Verify,
    VipP!V!Verify, Vip!VerifyMismatch, VipP!V!VerifyMismatch, Vip!ReceiveWebhook,
    VipP!V!ReceiveWebhook, Vip!ReadRow, VipP!V!ReadRow, Vip!Commit, VipP!V!Commit, Vip!Abort,
    VipP!V!Abort, Vip!BustCache, VipP!V!BustCache, Vip!MarkProcessed, VipP!V!MarkProcessed,
    Vip!ReadMembership, VipP!V!ReadMembership, Vip!MarkExpired, VipP!V!MarkExpired,
    Vip!WriteCache, VipP!V!WriteCache, Vip!ReadGrant, VipP!V!ReadGrant, Vip!Grant,
    VipP!V!Grant, Vip!Revoke, VipP!V!Revoke, Vip!Tick, VipP!V!Tick, Vip!Crash, VipP!V!Crash,
    Vip!Step, VipP!V!Step, Vip!Next, VipP!V!Next

LEMMA VipBounds == VipP!VBounds
  BY DEF VipP!VBounds

VipInv == scenario = "membership" => VipP!VInv

LEMMA VipInvInit == Init => VipInv
  BY VipBounds, VipSame, VipP!VInitInv DEF VipInv, Init, Begins

LEMMA VipInvStep == VipInv /\ [Next]_pool => VipInv'
  BY VipBounds, VipSame, VipP!VStepInv, VipP!VStutterInv DEF VipInv, Next, Steps, pool, VipP!V!vars

\* The same with the grants of an administrator.
GrantP == INSTANCE PaymentsProofs WITH
    Executions <- {p1, p2}, MaxFaults <- 1, MaxMismatches <- 0, MaxTime <- 1, MaxExtensions <-
    1, MaxGrants <- 1, Duration <- 2, Floor <- 2, order <- v1, row <- v2, event <- v3, pc <- v7, faults <- v14, mismatches
    <- v13, membership <- v4, cachedUntil <- v5, now <- v6, by <- v8, seen <- v9, extended <-
    v10, granted <- v11, revoked <- v12,
    Events <- None, Orders <- None, Handlers <- None, bonus <-
    v1, user <- v1, context <- v1, caller <- v1, handling <- v1, credits <- v1, resets <- v1,
    checkout <- v1, member <- v1, copy <- v1, req <- v1, owed <- v1, clobbered <- v1

LEMMA GrantSame == (Grant!Init <=> GrantP!V!Init) /\ (Grant!Next <=> GrantP!V!Next)
  BY DEF Grant!Lapsed, GrantP!V!Lapsed, Grant!Later, GrantP!V!Later, Grant!LivesUntil,
    GrantP!V!LivesUntil,
    Grant!Uncache, GrantP!V!Uncache, Grant!purchase, GrantP!V!purchase, Grant!bounds,
    GrantP!V!bounds, Grant!NoMembership,
    GrantP!V!NoMembership, Grant!Init, GrantP!V!Init, Grant!GoTo, GrantP!V!GoTo, Grant!Start,
    GrantP!V!Start, Grant!Done, GrantP!V!Done, Grant!Active, GrantP!V!Active, Grant!Extended,
    GrantP!V!Extended, Grant!CreateOrder, GrantP!V!CreateOrder, Grant!Capture,
    GrantP!V!Capture, Grant!Verify, GrantP!V!Verify, Grant!VerifyMismatch,
    GrantP!V!VerifyMismatch, Grant!ReceiveWebhook, GrantP!V!ReceiveWebhook, Grant!ReadRow,
    GrantP!V!ReadRow, Grant!Commit, GrantP!V!Commit, Grant!Abort, GrantP!V!Abort,
    Grant!BustCache, GrantP!V!BustCache, Grant!MarkProcessed, GrantP!V!MarkProcessed,
    Grant!ReadMembership, GrantP!V!ReadMembership, Grant!MarkExpired, GrantP!V!MarkExpired,
    Grant!WriteCache, GrantP!V!WriteCache, Grant!ReadGrant, GrantP!V!ReadGrant, Grant!Grant,
    GrantP!V!Grant, Grant!Revoke, GrantP!V!Revoke, Grant!Tick, GrantP!V!Tick, Grant!Crash,
    GrantP!V!Crash, Grant!Step, GrantP!V!Step, Grant!Next, GrantP!V!Next

LEMMA GrantBounds == GrantP!VBounds
  BY DEF GrantP!VBounds

GrantInv == scenario = "grant" => GrantP!VInv

LEMMA GrantInvInit == Init => GrantInv
  BY GrantBounds, GrantSame, GrantP!VInitInv DEF GrantInv, Init, Begins

LEMMA GrantInvStep == GrantInv /\ [Next]_pool => GrantInv'
  BY GrantBounds, GrantSame, GrantP!VStepInv, GrantP!VStutterInv
  DEF GrantInv, Next, Steps, pool, GrantP!V!vars

\* Two orders of Moments Premium.
PremiumP == INSTANCE PaymentsProofs WITH
    MaxFaults <- 2, MaxMismatches <- 0, MaxTime <- 2, MaxExtensions <- 1, Orders <- {p1, p2},
    Handlers <- {d1, d2}, Duration <- 2, Floor <- 2, order <- v1, faults <- v12, mismatches <-
    v11, cachedUntil <- v5, now <- v6, extended <- v8, checkout <- v2, member <- v3, copy <-
    v4, req <- v7, owed <- v9, clobbered <- v10,
    Executions <- None, Events <- None, MaxGrants <- None, row <- v1, bonus <- v1, user <- v1,
    context <- v1, event <- v1, pc <- v1, caller <- v1, handling <- v1, credits <- v1, resets
    <- v1, membership <- v1, by <- v1, seen <- v1, granted <- v1, revoked <- v1

LEMMA PremiumSame == (Premium!Init <=> PremiumP!Q!Init) /\ (Premium!Next <=> PremiumP!Q!Next)
  BY DEF Premium!money, PremiumP!Q!money, Premium!entitlement, PremiumP!Q!entitlement,
    Premium!NoMember, PremiumP!Q!NoMember, Premium!Idle, PremiumP!Q!Idle, Premium!Later,
    PremiumP!Q!Later, Premium!Init, PremiumP!Q!Init, Premium!Active, PremiumP!Q!Active,
    Premium!Begin, PremiumP!Q!Begin, Premium!GoOn, PremiumP!Q!GoOn, Premium!Fault,
    PremiumP!Q!Fault, Premium!CreateOrder, PremiumP!Q!CreateOrder, Premium!Capture,
    PremiumP!Q!Capture, Premium!VerifyMismatch, PremiumP!Q!VerifyMismatch, Premium!Verify,
    PremiumP!Q!Verify, Premium!ReceiveWebhook, PremiumP!Q!ReceiveWebhook, Premium!ReadRow,
    PremiumP!Q!ReadRow, Premium!Extended, PremiumP!Q!Extended, Premium!Commit,
    PremiumP!Q!Commit, Premium!Abort, PremiumP!Q!Abort, Premium!Bust, PremiumP!Q!Bust,
    Premium!Record, PremiumP!Q!Record, Premium!Lapsed, PremiumP!Q!Lapsed, Premium!IsActive,
    PremiumP!Q!IsActive, Premium!GetStatus, PremiumP!Q!GetStatus, Premium!Expire,
    PremiumP!Q!Expire, Premium!Forget, PremiumP!Q!Forget, Premium!Uncache, PremiumP!Q!Uncache,
    Premium!LivesUntil, PremiumP!Q!LivesUntil, Premium!WriteCache, PremiumP!Q!WriteCache,
    Premium!Tick, PremiumP!Q!Tick, Premium!Crash, PremiumP!Q!Crash, Premium!Next,
    PremiumP!Q!Next

LEMMA PremiumBounds == PremiumP!QBounds
  BY DEF PremiumP!QBounds

PremiumInv == scenario = "premium" => PremiumP!QInv

LEMMA PremiumInvInit == Init => PremiumInv
  BY PremiumBounds, PremiumSame, PremiumP!QInitInv DEF PremiumInv, Init, Begins

LEMMA PremiumInvStep == PremiumInv /\ [Next]_pool => PremiumInv'
  BY PremiumBounds, PremiumSame, PremiumP!QStepInv, PremiumP!QStutterInv
  DEF PremiumInv, Next, Steps, pool, PremiumP!Q!vars

\* One order whose membership ends.
LapseP == INSTANCE PaymentsProofs WITH
    MaxFaults <- 1, MaxMismatches <- 1, MaxTime <- 3, MaxExtensions <- 2, Orders <- {p3},
    Handlers <- {d1, d2}, Duration <- 1, Floor <- 2, order <- v1, faults <- v12, mismatches <-
    v11, cachedUntil <- v5, now <- v6, extended <- v8, checkout <- v2, member <- v3, copy <-
    v4, req <- v7, owed <- v9, clobbered <- v10,
    Executions <- None, Events <- None, MaxGrants <- None, row <- v1, bonus <- v1, user <- v1,
    context <- v1, event <- v1, pc <- v1, caller <- v1, handling <- v1, credits <- v1, resets
    <- v1, membership <- v1, by <- v1, seen <- v1, granted <- v1, revoked <- v1

LEMMA PremiumLapseSame == (PremiumLapse!Init <=> LapseP!Q!Init) /\ (PremiumLapse!Next <=> LapseP!Q!Next)
  BY DEF PremiumLapse!money, LapseP!Q!money, PremiumLapse!entitlement, LapseP!Q!entitlement,
    PremiumLapse!NoMember, LapseP!Q!NoMember, PremiumLapse!Idle, LapseP!Q!Idle,
    PremiumLapse!Later, LapseP!Q!Later, PremiumLapse!Init, LapseP!Q!Init, PremiumLapse!Active,
    LapseP!Q!Active, PremiumLapse!Begin, LapseP!Q!Begin, PremiumLapse!GoOn, LapseP!Q!GoOn,
    PremiumLapse!Fault, LapseP!Q!Fault, PremiumLapse!CreateOrder, LapseP!Q!CreateOrder,
    PremiumLapse!Capture, LapseP!Q!Capture, PremiumLapse!VerifyMismatch,
    LapseP!Q!VerifyMismatch, PremiumLapse!Verify, LapseP!Q!Verify, PremiumLapse!ReceiveWebhook,
    LapseP!Q!ReceiveWebhook, PremiumLapse!ReadRow, LapseP!Q!ReadRow, PremiumLapse!Extended,
    LapseP!Q!Extended, PremiumLapse!Commit, LapseP!Q!Commit, PremiumLapse!Abort,
    LapseP!Q!Abort, PremiumLapse!Bust, LapseP!Q!Bust, PremiumLapse!Record, LapseP!Q!Record,
    PremiumLapse!Lapsed, LapseP!Q!Lapsed, PremiumLapse!IsActive, LapseP!Q!IsActive,
    PremiumLapse!GetStatus, LapseP!Q!GetStatus, PremiumLapse!Expire, LapseP!Q!Expire,
    PremiumLapse!Forget, LapseP!Q!Forget, PremiumLapse!Uncache, LapseP!Q!Uncache,
    PremiumLapse!LivesUntil, LapseP!Q!LivesUntil, PremiumLapse!WriteCache, LapseP!Q!WriteCache,
    PremiumLapse!Tick, LapseP!Q!Tick, PremiumLapse!Crash, LapseP!Q!Crash, PremiumLapse!Next,
    LapseP!Q!Next

LEMMA PremiumLapseBounds == LapseP!QBounds
  BY DEF LapseP!QBounds

PremiumLapseInv == scenario = "premiumLapse" => LapseP!QInv

LEMMA PremiumLapseInvInit == Init => PremiumLapseInv
  BY PremiumLapseBounds, PremiumLapseSame, LapseP!QInitInv DEF PremiumLapseInv, Init, Begins

LEMMA PremiumLapseInvStep == PremiumLapseInv /\ [Next]_pool => PremiumLapseInv'
<1>1. ASSUME PremiumLapseInv, Next PROVE PremiumLapseInv'
  <2>1. scenario' = scenario /\ (scenario = "premiumLapse" => PremiumLapse!Next)
    BY <1>1 DEF Next, Steps
  <2>2. ASSUME scenario = "premiumLapse" PROVE LapseP!QInv'
    <3>1. LapseP!Q!Next
      BY <2>1, <2>2, PremiumLapseSame
    <3>2. LapseP!QInv
      BY <1>1, <2>2 DEF PremiumLapseInv
    <3> QED BY <3>1, <3>2, PremiumLapseBounds, LapseP!QStepInv
  <2> QED BY <2>1, <2>2 DEF PremiumLapseInv
<1>2. ASSUME PremiumLapseInv, UNCHANGED pool PROVE PremiumLapseInv'
  BY <1>2, LapseP!QStutterInv DEF PremiumLapseInv, pool, LapseP!Q!vars
<1> QED BY <1>1, <1>2

\* In every behaviour of the run a purchase extends a membership once and with
\* its completed row, loses no time that was paid for, and neither cache answers
\* past the membership and the shortest life of a key (finalizeVipPurchaseAtomically and its
\* counterpart for Moments Premium).
THEOREM MembershipsTheorem == Spec => []MembershipMatchesRow
<1>1. VipInv /\ scenario = "membership" =>
        Vip!ExtendedOncePerRow /\ Vip!CompletedHasMembership /\ Vip!CacheWithinGrace
  BY VipBounds, VipP!VSays DEF VipInv, Vip!ExtendedOncePerRow, VipP!V!ExtendedOncePerRow,
     Vip!CompletedHasMembership, VipP!V!CompletedHasMembership, Vip!NoMembership,
    VipP!V!NoMembership,
     Vip!CacheWithinGrace, VipP!V!CacheWithinGrace
<1>2. GrantInv /\ scenario = "grant" => Grant!ExtendedOncePerRow /\ Grant!CompletedHasMembership
  BY GrantBounds, GrantP!VSays DEF GrantInv, Grant!ExtendedOncePerRow, GrantP!V!ExtendedOncePerRow,
     Grant!CompletedHasMembership, GrantP!V!CompletedHasMembership, Grant!NoMembership,
    GrantP!V!NoMembership
<1>3. PremiumInv /\ scenario = "premium" =>
        Premium!OrdersCountOnce /\ Premium!PaidTimeIsKept /\ Premium!CacheWithinGrace
  BY PremiumP!QSays DEF PremiumInv, Premium!OrdersCountOnce, PremiumP!Q!OrdersCountOnce,
     Premium!PaidTimeIsKept, PremiumP!Q!PaidTimeIsKept, Premium!Active, PremiumP!Q!Active,
     Premium!CacheWithinGrace, PremiumP!Q!CacheWithinGrace
<1>4. PremiumLapseInv /\ scenario = "premiumLapse" =>
        PremiumLapse!OrdersCountOnce /\ PremiumLapse!PaidTimeIsKept /\ PremiumLapse!CacheWithinGrace
  BY LapseP!QSays DEF PremiumLapseInv, PremiumLapse!OrdersCountOnce, LapseP!Q!OrdersCountOnce,
     PremiumLapse!PaidTimeIsKept, LapseP!Q!PaidTimeIsKept, PremiumLapse!Active, LapseP!Q!Active,
     PremiumLapse!CacheWithinGrace, LapseP!Q!CacheWithinGrace
<1>5. VipInv /\ GrantInv /\ PremiumInv /\ PremiumLapseInv => MembershipMatchesRow
  BY <1>1, <1>2, <1>3, <1>4 DEF MembershipMatchesRow
<1> QED BY <1>5, VipInvInit, VipInvStep, GrantInvInit, GrantInvStep, PremiumInvInit, PremiumInvStep,
           PremiumLapseInvInit, PremiumLapseInvStep, PTL DEF Spec

\* The components of the run keep well formed states.
THEOREM TypesTheorem == Spec => []TypeOK
<1>1. PayInv /\ scenario = "payments" => Pay!TypeOK
  BY DEF PayInv, PayP!Inv, Pay!TypeOK, PayP!TypeOK, Pay!Statuses, PayP!Statuses, Pay!Points,
    PayP!Points
<1>2. VipInv /\ scenario = "membership" => Vip!TypeOK
  BY VipBounds, VipP!VSays DEF VipInv, Vip!TypeOK, VipP!V!TypeOK, Vip!Statuses, VipP!V!Statuses
<1>3. GrantInv /\ scenario = "grant" => Grant!TypeOK
  BY GrantBounds, GrantP!VSays DEF GrantInv, Grant!TypeOK, GrantP!V!TypeOK, Grant!Statuses,
    GrantP!V!Statuses
<1>4. PayoutInv /\ scenario = "payout" => Payout!TypeOK
  BY DEF PayoutInv, PayoutP!WInv, Payout!TypeOK, PayoutP!W!TypeOK, Payout!Statuses,
    PayoutP!W!Statuses,
     Payout!Points, PayoutP!W!Points
<1>5. StaffInv /\ scenario = "staff" => Staff!TypeOK
  BY DEF StaffInv, StaffP!WInv, Staff!TypeOK, StaffP!W!TypeOK, Staff!Statuses, StaffP!W!Statuses,
     Staff!Points, StaffP!W!Points
<1>6. WalletInv /\ scenario = "wallet" => Wallet!TypeOK
  <2>1. WalletInv /\ scenario = "wallet" => WalletP!L!TypeOK
    BY DEF WalletInv, WalletP!LInv
  <2>2. WalletP!L!TypeOK <=> Wallet!TypeOK
    BY Zenon DEF Wallet!TypeOK, WalletP!L!TypeOK, Wallet!Keyed, WalletP!L!Keyed, Wallet!Forced,
      WalletP!L!Forced
  <2> QED BY <2>1, <2>2
<1>7. ReferralInv /\ scenario = "referral" => Referral!TypeOK
  BY ReferralP!RSays DEF ReferralInv, Referral!TypeOK, ReferralP!R!TypeOK
<1>8. PayInv /\ VipInv /\ GrantInv /\ PayoutInv /\ StaffInv /\ WalletInv /\ ReferralInv => TypeOK
  BY <1>1, <1>2, <1>3, <1>4, <1>5, <1>6, <1>7 DEF TypeOK
<1> QED BY <1>8, PayInvInit, PayInvStep, VipInvInit, VipInvStep, GrantInvInit, GrantInvStep,
           PayoutInvInit, PayoutInvStep, StaffInvInit, StaffInvStep, WalletInvInit, WalletInvStep,
           ReferralInvInit, ReferralInvStep, PTL DEF Spec
=============================================================================
