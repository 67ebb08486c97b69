------------------------------ MODULE MCMoney -------------------------------
(***************************************************************************)
(* The components that move coins, each with its own small instance:       *)
(* purchases, memberships, Moments Premium, payouts, wallet operations,    *)
(* referrals, missions and the daily check-in.  p1 to p3 are requests,     *)
(* workers and hooks that overlap, d1 and d2 whatever else comes in twos.  *)
(***************************************************************************)
EXTENDS Scenarios, TLC

CONSTANTS p1, p2, p3, d1, d2, None

ASSUME NoneAssumption == None \notin {p1, p2, p3, d1, d2}

\* One order with two webhook events; one fault and one wrong signature.
Pay == INSTANCE Payments WITH
    Executions <- {p1, p2}, Events <- {d1, d2}, MaxFaults <- 1, MaxMismatches <- 1,
    order <- v1, row <- v2, bonus <- v3, user <- v4, context <- v5, event <- v6, pc
    <- v7, caller <- v8, handling <- v9, credits <- v10, resets <- v11, faults <-
    v12, mismatches <- v13

\* One order over the end of a plan; the row may be missing or failed.
Vip == INSTANCE Membership WITH
    Executions <- {p1, p2}, Duration <- 1, Floor <- 2, MaxTime <- 2, MaxExtensions <- 2,
    MaxGrants <- 0, MaxMismatches <- 1, MaxFaults <- 1,
    order <- v1, row <- v2, event <- v3, membership <- v4, cachedUntil <- v5, now <-
    v6, pc <- v7, by <- v8, seen <- v9, extended <- v10, granted <- v11, revoked <-
    v12, mismatches <- v13, faults <- v14

\* The same with the grants of an administrator.
Grant == INSTANCE Membership WITH
    Executions <- {p1, p2}, Duration <- 2, Floor <- 2, MaxTime <- 1, MaxExtensions <- 1, MaxGrants <- 1,
    MaxMismatches <- 0, MaxFaults <- 1,
    order <- v1, row <- v2, event <- v3, membership <- v4, cachedUntil <- v5, now <-
    v6, pc <- v7, by <- v8, seen <- v9, extended <- v10, granted <- v11, revoked <-
    v12, mismatches <- v13, faults <- v14

\* Two withdrawals of a creator, of whom every coin is asked for.
Payout == INSTANCE Withdrawal WITH
    Staff <- FALSE, Executions <- {p1, p2}, Withdrawals <- {d1, d2}, Amount <- 2,
    Opening <- 4, MaxMoves <- 1, MaxFaults <- 1,
    doc <- v1, debits <- v2, ledger <- v3, wallet <- v4, earnings <- v5, credited <-
    v6, pc <- v7, target <- v8, seen <- v9, faults <- v10, net <- v11, restored <- v12,
    moved <- v13

\* One withdrawal of a staff wallet, with its ledger and reconciliation.
Staff == INSTANCE Withdrawal WITH
    Staff <- TRUE, Executions <- {p1, p2}, Withdrawals <- {d1}, Amount <- 2, Opening
    <- 2, MaxMoves <- 1, MaxFaults <- 1,
    doc <- v1, debits <- v2, ledger <- v3, wallet <- v4, earnings <- v5, credited <-
    v6, pc <- v7, target <- v8, seen <- v9, faults <- v10, net <- v11, restored <- v12,
    moved <- v13

\* Three operations of one wallet overlap.
Wallet == INSTANCE Wallet WITH
    Executions <- {p1, p2}, Reward <- 2, Opening <- 3, MaxOperations <- 3, MaxFaults
    <- 1,
    coins <- v1, net <- v2, rows <- v3, claimed <- v4, purchase <- v5, queued <- v6,
    excess <- v7, job <- v8, operations <- v9, faults <- v10

\* Five operations of one wallet take turns, without faults.
WalletTurns == INSTANCE Wallet WITH
    Executions <- {p1}, Reward <- 2, Opening <- 3, MaxOperations <- 5, MaxFaults <-
    0,
    coins <- v1, net <- v2, rows <- v3, claimed <- v4, purchase <- v5, queued <- v6,
    excess <- v7, job <- v8, operations <- v9, faults <- v10

\* Two entries of a code; rewards wait until no entry is under way.
Referral == INSTANCE Referral WITH
    Referrers <- {d1, d2}, Applies <- {p1, p2}, Rewards <- {p1, p2, p3}, None <-
    None, Settled <- TRUE, MayFail <- FALSE,
    referredBy <- v1, entries <- v2, edge <- v3, bought <- v4, paid <- v5, ledger <-
    v6, claimed <- v7, apply <- v8, reward <- v9

\* One entry of a code; writes fail and the server stops.
ReferralFails == INSTANCE Referral WITH
    Referrers <- {d1, d2}, Applies <- {p1}, Rewards <- {p1, p2, p3}, None <- None,
    Settled <- FALSE, MayFail <- TRUE,
    referredBy <- v1, entries <- v2, edge <- v3, bought <- v4, paid <- v5, ledger <-
    v6, claimed <- v7, apply <- v8, reward <- v9

\* Two users and two Telegram accounts.
Telegram == INSTANCE Telegram WITH
    Users <- {p1, p2}, Accounts <- {d1, d2}, None <- None, Requests <- {3, 4},
    bound <- v1, claimed <- v2, ledger <- v3, paid <- v4, member <- v5, on <- v6,
    req <- v7

\* The program is switched and the server stops.
CreatorReferral == INSTANCE CreatorReferral WITH
    Workers <- {p1, p2, p3}, MayDie <- TRUE, MaxJobs <- 3,
    attached <- v1, edge <- v2, rewarded <- v3, ledger <- v4, paid <- v5, telegram
    <- v6, bought <- v7, on <- v8, job <- v9, jobs <- v10

\* Hooks fail and run over midnight.
Missions == INSTANCE Rewards WITH
    Daily <- {"watch_free_moments"}, Once <- {"first_recharge"}, Moments <- {"m1",
    "m2"}, Creators <- {"c1"}, Hooks <- {p1, p2}, Target <- 2, Cap <- 2, LastDay <-
    1, MaxBuys <- 0, MaxClaims <- 1, Spanning <- TRUE, MayFail <- TRUE,
    today <- v1, daily <- v2, followed <- v3, claimed <- v4, ledger <- v5, paid <-
    v6, did <- v7, bought <- v8, claims <- v9, hook <- v10, late <-
    v11

\* Two counting missions; hooks end before midnight.
MissionsDay == INSTANCE Rewards WITH
    Daily <- {"watch_free_moments", "like_moments"}, Once <- {"first_recharge"},
    Moments <- {"m1", "m2"}, Creators <- {"c1"}, Hooks <- {p1, p2}, Target <- 2, Cap
    <- 2, LastDay <- 1, MaxBuys <- 0, MaxClaims <- 1, Spanning <- FALSE, MayFail <-
    FALSE,
    today <- v1, daily <- v2, followed <- v3, claimed <- v4, ledger <- v5, paid <-
    v6, did <- v7, bought <- v8, claims <- v9, hook <- v10, late <-
    v11

\* The missions that pay once.
MissionsOnce == INSTANCE Rewards WITH
    Daily <- {}, Once <- {"first_message", "follow_creators", "first_recharge"},
    Moments <- {}, Creators <- {"c1", "c2"}, Hooks <- {p1, p2}, Target <- 2, Cap <-
    2, LastDay <- 0, MaxBuys <- 2, MaxClaims <- 2, Spanning <- FALSE, MayFail <-
    TRUE,
    today <- v1, daily <- v2, followed <- v3, claimed <- v4, ledger <- v5, paid <-
    v6, did <- v7, bought <- v8, claims <- v9, hook <- v10, late <-
    v11

\* Claims may commit after midnight.
Checkin == INSTANCE Checkin WITH
    Claims <- {p1, p2}, Timers <- {d1, d2}, Cycle <- 2, LastDay <- 3, Spanning <-
    TRUE,
    today <- v1, state <- v2, ledger <- v3, order <- v4, token <- v5, req <- v6,
    tick <- v7, sent <- v8

\* Claims commit on their day.
CheckinDay == INSTANCE Checkin WITH
    Claims <- {p1, p2}, Timers <- {d1}, Cycle <- 2, LastDay <- 3, Spanning <- FALSE,
    today <- v1, state <- v2, ledger <- v3, order <- v4, token <- v5, req <- v6,
    tick <- v7, sent <- v8

\* Two orders of one user and a clock that reaches the end of neither.
Premium == INSTANCE Premium WITH
    Orders <- {p1, p2}, Handlers <- {d1, d2}, Duration <- 2, Floor <- 2, MaxTime <-
    2, MaxExtensions <- 1, MaxMismatches <- 0, MaxFaults <- 2,
    order <- v1, checkout <- v2, member <- v3, copy <- v4, cachedUntil <- v5, now <-
    v6, req <- v7, extended <- v8, owed <- v9, clobbered <- v10, mismatches <- v11,
    faults <- v12

\* One order whose membership ends; its row may be failed.
PremiumLapse == INSTANCE Premium WITH
    Orders <- {p3}, Handlers <- {d1, d2}, Duration <- 1, Floor <- 2, MaxTime <- 3,
    MaxExtensions <- 2, MaxMismatches <- 1, MaxFaults <- 1,
    order <- v1, checkout <- v2, member <- v3, copy <- v4, cachedUntil <- v5, now <-
    v6, req <- v7, extended <- v8, owed <- v9, clobbered <- v10, mismatches <- v11,
    faults <- v12

Init ==
    \/ Begins("payments", 13) /\ Pay!Init
    \/ Begins("membership", 14) /\ Vip!Init
    \/ Begins("grant", 14) /\ Grant!Init
    \/ Begins("payout", 13) /\ Payout!Init
    \/ Begins("staff", 13) /\ Staff!Init
    \/ Begins("wallet", 10) /\ Wallet!Init
    \/ Begins("walletTurns", 10) /\ WalletTurns!Init
    \/ Begins("referral", 9) /\ Referral!Init
    \/ Begins("referralFails", 9) /\ ReferralFails!Init
    \/ Begins("telegram", 7) /\ Telegram!Init
    \/ Begins("creatorReferral", 10) /\ CreatorReferral!Init
    \/ Begins("missions", 11) /\ Missions!Init
    \/ Begins("missionsDay", 11) /\ MissionsDay!Init
    \/ Begins("missionsOnce", 11) /\ MissionsOnce!Init
    \/ Begins("checkin", 8) /\ Checkin!Init
    \/ Begins("checkinDay", 8) /\ CheckinDay!Init
    \/ Begins("premium", 12) /\ Premium!Init
    \/ Begins("premiumLapse", 12) /\ PremiumLapse!Init

Next ==
    \/ Steps("payments", 13) /\ Pay!Next
    \/ Steps("membership", 14) /\ Vip!Next
    \/ Steps("grant", 14) /\ Grant!Next
    \/ Steps("payout", 13) /\ Payout!Next
    \/ Steps("staff", 13) /\ Staff!Next
    \/ Steps("wallet", 10) /\ Wallet!Next
    \/ Steps("walletTurns", 10) /\ WalletTurns!Next
    \/ Steps("referral", 9) /\ Referral!Next
    \/ Steps("referralFails", 9) /\ ReferralFails!Next
    \/ Steps("telegram", 7) /\ Telegram!Next
    \/ Steps("creatorReferral", 10) /\ CreatorReferral!Next
    \/ Steps("missions", 11) /\ Missions!Next
    \/ Steps("missionsDay", 11) /\ MissionsDay!Next
    \/ Steps("missionsOnce", 11) /\ MissionsOnce!Next
    \/ Steps("checkin", 8) /\ Checkin!Next
    \/ Steps("checkinDay", 8) /\ CheckinDay!Next
    \/ Steps("premium", 12) /\ Premium!Next
    \/ Steps("premiumLapse", 12) /\ PremiumLapse!Next

Spec == Init /\ [][Next]_pool

\* Requests are alike, and so are the data.
Symmetry == Permutations({p1, p2}) \cup Permutations({d1, d2})

-----------------------------------------------------------------------------
\* The state of the component at work is well formed.
TypeOK ==
    /\ scenario = "payments" => Pay!TypeOK
    /\ scenario = "membership" => Vip!TypeOK
    /\ scenario = "grant" => Grant!TypeOK
    /\ scenario = "payout" => Payout!TypeOK
    /\ scenario = "staff" => Staff!TypeOK
    /\ scenario = "wallet" => Wallet!TypeOK
    /\ scenario = "referral" => Referral!TypeOK

\* However verify, webhooks, retries and the sweep of payments overlap, a
\* pack is credited once for its completed row (and once more each time a
\* wrong signature set a completed row back to failed), its bonus once and
\* together with it, and nothing says that a purchase is done before the
\* coins are there.
PurchasesBookedOnce ==
    /\ scenario = "payments" => Pay!CreditsMatchLedger
    /\ scenario = "payments" => Pay!BonusCreditedOnce
    /\ scenario = "payments" => Pay!BonusWithMain
    /\ scenario = "payments" => Pay!AcknowledgedMeansCredited

\* As long as no verification has failed its row, any number of webhooks and
\* verifications extend the membership once, exactly when the row is
\* completed; a completed row or a processed webhook has its membership, and
\* isVipActive answers from its cache for less than a minute (the shortest life
\* of a key) past the end of the membership, as long as a failed row has let
\* its order extend it twice at most. An order of Moments Premium counts once
\* as well, two at once lose no time that was paid for, and its key answers for
\* less than a minute after the end too, unless a status request that saw the
\* old membership lapsed writes over a new one.
MembershipMatchesRow ==
    /\ scenario = "membership" => Vip!ExtendedOncePerRow
    /\ scenario = "grant" => Grant!ExtendedOncePerRow
    /\ scenario = "membership" => Vip!CompletedHasMembership
    /\ scenario = "grant" => Grant!CompletedHasMembership
    /\ scenario = "membership" => Vip!CacheWithinGrace
    /\ scenario = "premium" => Premium!OrdersCountOnce
    /\ scenario = "premium" => Premium!PaidTimeIsKept
    /\ scenario = "premium" => Premium!CacheWithinGrace
    /\ scenario = "premiumLapse" => PremiumLapse!OrdersCountOnce
    /\ scenario = "premiumLapse" => PremiumLapse!PaidTimeIsKept
    /\ scenario = "premiumLapse" => PremiumLapse!CacheWithinGrace

\* A withdrawal marked paid has its debit, for creators and for staff,
\* whichever handlers overlap or die in markPaid, and no overlapping request
\* puts all of its coins back, but for one that saves a balance, or the
\* repair a sum, that it read before the payout.
PaidLeftTheWallet ==
    /\ scenario = "payout" => Payout!PaidMeansDebited
    /\ scenario = "staff" => Staff!PaidMeansDebited
    /\ scenario = "payout" => Payout!PaidLeftTheWallet

\* The weekly claim and the upload reward are booked once however their
\* requests overlap, a clawback only for a reward that was credited and once;
\* with operations that take turns the cached coins are the balance of the
\* ledger, or above it by what clawbacks that stopped at 0 did not take and by
\* the forced grants of moments, which are booked and not taken.
WalletFollowsLedger ==
    /\ scenario = "wallet" => Wallet!RewardedOnce
    /\ scenario = "wallet" => Wallet!ClawbackFollowsCredit
    /\ scenario = "walletTurns" => WalletTurns!CacheIsLedger

\* A referrer is paid once for an applicant, by the purchase or by the call,
\* also when writes fail and the server stops; with rewards after the link is
\* complete the payment has its ledger row and the three records of the link
\* agree. Field, row and credit of a stage of a creator referral come
\* together, and only for stages that happened.
ReferralsPaidOnce ==
    /\ scenario = "referral" => Referral!PaidOnce
    /\ scenario = "referralFails" => ReferralFails!PaidOnce
    /\ scenario = "referral" => Referral!PaidIsBooked
    /\ scenario = "referral" => Referral!LinkAgrees
    /\ scenario = "creatorReferral" => CreatorReferral!StagesAgree
    /\ scenario = "creatorReferral" => CreatorReferral!PaidIsEarned

\* However hooks, claims and their failures overlap, no mission, Telegram
\* account or check-in day pays twice or for what the user did not do (on
\* the day, or before a midnight that its hook waited over), and
\* flag, row and credit come together; check-ins follow the days of the
\* cycle, a user is reminded once a day, and with claims that commit on their
\* day a paid day shows as claimed.
RewardsPaidOnce ==
    /\ scenario = "missions" => Missions!PaidOnce
    /\ scenario = "missionsDay" => MissionsDay!PaidOnce
    /\ scenario = "missionsOnce" => MissionsOnce!PaidOnce
    /\ scenario = "missions" => Missions!PaidIsEarned
    /\ scenario = "telegram" => Telegram!OneReward
    /\ scenario = "checkin" => Checkin!OnceADay
    /\ scenario = "checkin" => Checkin!InCycle
    /\ scenario = "checkin" => Checkin!RemindedOnce
    /\ scenario = "checkinDay" => CheckinDay!ClaimedShows

\* A Telegram account once bound to a user stays bound, nobody gets from the
\* check of the membership to the payment without having been a member with
\* the bound account, and with hooks that end before midnight no hook
\* overwrites the progress another has counted.
RewardStateKept ==
    [][/\ scenario = "telegram" => Telegram!StaysBound
       /\ scenario = "telegram" => Telegram!MemberBeforePay
       /\ scenario = "missionsDay" => MissionsDay!ProgressKept]_pool
=============================================================================
