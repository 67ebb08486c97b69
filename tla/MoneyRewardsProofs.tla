------------------------- MODULE MoneyRewardsProofs -------------------------
(***************************************************************************)
(* What the proofs about the Telegram reward, the daily check-in and the   *)
(* missions, which hold for all values of their constants, say about the   *)
(* instances that run money puts side by side.                             *)
(***************************************************************************)
EXTENDS MCMoney, TLAPS, FiniteSetTheorems

\* The parameters of the other components of RewardsProofs play no part.
TelegramP == INSTANCE RewardsProofs WITH
    Users <- {p1, p2}, Accounts <- {d1, d2}, None <- None, Requests <- {3, 4}, bound <- v1,
    claimed <- v2, ledger <- v3, paid <- v4, member <- v5, on <- v6, req <- v7,
    Claims <- None, Timers <- None, Cycle <- None, LastDay <- None, Spanning <- None, Daily <-
    None, Once <- None, Moments <- None, Creators <- None, Hooks <- None, Target <- None, Cap
    <- None, MaxBuys <- None, MaxClaims <- None, MayFail <- None, today <- v1, state <- v1,
    order <- v1, token <- v1, tick <- v1, sent <- v1, daily <- v1, followed <- v1, did <- v1, late <- v1,
    bought <- v1, claims <- v1, hook <- v1

LEMMA TelegramSame == (Telegram!Init <=> TelegramP!T!Init) /\ (Telegram!Next <=> TelegramP!T!Next)
  BY DEF Telegram!Idle, TelegramP!T!Idle, Telegram!Init, TelegramP!T!Init, Telegram!To,
    TelegramP!T!To, Telegram!Done, TelegramP!T!Done, Telegram!Join, TelegramP!T!Join,
    Telegram!Quit, TelegramP!T!Quit, Telegram!Configure, TelegramP!T!Configure,
    Telegram!MayClaim, TelegramP!T!MayClaim, Telegram!MayLink, TelegramP!T!MayLink,
    Telegram!Start, TelegramP!T!Start, Telegram!Bind, TelegramP!T!Bind, Telegram!Verify,
    TelegramP!T!Verify, Telegram!Ask, TelegramP!T!Ask, Telegram!Pay, TelegramP!T!Pay,
    Telegram!Die, TelegramP!T!Die, Telegram!Next, TelegramP!T!Next

TelegramInv == scenario = "telegram" => TelegramP!TInv

\* Only the component at work takes a step, and it stays at work.
LEMMA TelegramInvInit == Init => TelegramInv
  BY TelegramSame, TelegramP!TInitInv DEF TelegramInv, Init, Begins

LEMMA TelegramInvStep == TelegramInv /\ [Next]_pool => TelegramInv'
  BY TelegramSame, TelegramP!TStepInv, TelegramP!TStutterInv
  DEF TelegramInv, Next, Steps, pool, TelegramP!T!vars

\* Claims over midnight.
CheckinP == INSTANCE RewardsProofs WITH
    Claims <- {p1, p2}, Timers <- {d1, d2}, Cycle <- 2, LastDay <- 3, Spanning <- TRUE, ledger
    <- v3, req <- v6, today <- v1, state <- v2, order <- v4, token <- v5, tick <- v7, sent <-
    v8,
    Users <- None, Accounts <- None, None <- None, Requests <- None, Daily <- None, Once <-
    None, Moments <- None, Creators <- None, Hooks <- None, Target <- None, Cap <- None,
    MaxBuys <- None, MaxClaims <- None, MayFail <- None, bound <- v1, claimed <- v1, paid <-
    v1, member <- v1, on <- v1, daily <- v1, followed <- v1, did <- v1, late <- v1, bought <- v1, claims <-
    v1, hook <- v1

LEMMA CheckinSame == (Checkin!Init <=> CheckinP!K!Init) /\ (Checkin!Next <=> CheckinP!K!Next)
  BY DEF Checkin!Never, CheckinP!K!Never, Checkin!Days, CheckinP!K!Days, Checkin!Fresh,
    CheckinP!K!Fresh, Checkin!Init, CheckinP!K!Init, Checkin!Claim, CheckinP!K!Claim,
    Checkin!After, CheckinP!K!After, Checkin!Commit, CheckinP!K!Commit, Checkin!Token,
    CheckinP!K!Token, Checkin!Eligible, CheckinP!K!Eligible, Checkin!Find, CheckinP!K!Find,
    Checkin!Slot, CheckinP!K!Slot, Checkin!Send, CheckinP!K!Send, Checkin!Midnight,
    CheckinP!K!Midnight, Checkin!Next, CheckinP!K!Next

LEMMA CheckinBounds == CheckinP!KBounds
  BY DEF CheckinP!KBounds

CheckinInv == scenario = "checkin" => CheckinP!KInv

LEMMA CheckinInvInit == Init => CheckinInv
  BY CheckinBounds, CheckinSame, CheckinP!KInitInv DEF CheckinInv, Init, Begins

LEMMA CheckinInvStep == CheckinInv /\ [Next]_pool => CheckinInv'
  BY CheckinBounds, CheckinSame, CheckinP!KStepInv, CheckinP!KStutterInv
  DEF CheckinInv, Next, Steps, pool, CheckinP!K!vars

\* Claims on their day.
CheckinDayP == INSTANCE RewardsProofs WITH
    Claims <- {p1, p2}, Timers <- {d1}, Cycle <- 2, LastDay <- 3, Spanning <- FALSE, ledger <-
    v3, req <- v6, today <- v1, state <- v2, order <- v4, token <- v5, tick <- v7, sent <- v8,
    Users <- None, Accounts <- None, None <- None, Requests <- None, Daily <- None, Once <-
    None, Moments <- None, Creators <- None, Hooks <- None, Target <- None, Cap <- None,
    MaxBuys <- None, MaxClaims <- None, MayFail <- None, bound <- v1, claimed <- v1, paid <-
    v1, member <- v1, on <- v1, daily <- v1, followed <- v1, did <- v1, late <- v1, bought <- v1, claims <-
    v1, hook <- v1

LEMMA CheckinDaySame == (CheckinDay!Init <=> CheckinDayP!K!Init) /\ (CheckinDay!Next <=> CheckinDayP!K!Next)
  BY DEF CheckinDay!Never, CheckinDayP!K!Never, CheckinDay!Days, CheckinDayP!K!Days,
    CheckinDay!Fresh, CheckinDayP!K!Fresh, CheckinDay!Init, CheckinDayP!K!Init,
    CheckinDay!Claim, CheckinDayP!K!Claim, CheckinDay!After, CheckinDayP!K!After,
    CheckinDay!Commit, CheckinDayP!K!Commit, CheckinDay!Token, CheckinDayP!K!Token,
    CheckinDay!Eligible, CheckinDayP!K!Eligible, CheckinDay!Find, CheckinDayP!K!Find,
    CheckinDay!Slot, CheckinDayP!K!Slot, CheckinDay!Send, CheckinDayP!K!Send,
    CheckinDay!Midnight, CheckinDayP!K!Midnight, CheckinDay!Next, CheckinDayP!K!Next

LEMMA CheckinDayBounds == CheckinDayP!KBounds
  BY DEF CheckinDayP!KBounds

CheckinDayInv == scenario = "checkinDay" => CheckinDayP!KInv

LEMMA CheckinDayInvInit == Init => CheckinDayInv
  BY CheckinDayBounds, CheckinDaySame, CheckinDayP!KInitInv DEF CheckinDayInv, Init, Begins

LEMMA CheckinDayInvStep == CheckinDayInv /\ [Next]_pool => CheckinDayInv'
  BY CheckinDayBounds, CheckinDaySame, CheckinDayP!KStepInv, CheckinDayP!KStutterInv
  DEF CheckinDayInv, Next, Steps, pool, CheckinDayP!K!vars

LEMMA TwoMoments == IsFiniteSet({"m1", "m2"})
<1>1. IsFiniteSet({"m1"})
  BY FS_Singleton
<1>2. IsFiniteSet({"m1"} \cup {"m2"})
  BY <1>1, FS_AddElement
<1>3. {"m1", "m2"} = {"m1"} \cup {"m2"}
  OBVIOUS
<1> QED BY <1>2, <1>3

\* Hooks that fail and run over midnight.
MissionsP == INSTANCE RewardsProofs WITH
    LastDay <- 1, Spanning <- TRUE, Daily <- {"watch_free_moments"}, Once <-
    {"first_recharge"}, Moments <- {"m1", "m2"}, Creators <- {"c1"}, Hooks <- {p1, p2}, Target
    <- 2, Cap <- 2, MaxBuys <- 0, MaxClaims <- 1, MayFail <- TRUE, claimed <- v4, ledger <- v5,
    paid <- v6, today <- v1, daily <- v2, followed <- v3, did <- v7, late <- v11, bought <- v8, claims <-
    v9, hook <- v10,
    Users <- None, Accounts <- None, None <- None, Requests <- None, Claims <- None, Timers <-
    None, Cycle <- None, bound <- v1, member <- v1, on <- v1, req <- v1, state <- v1, order <-
    v1, token <- v1, tick <- v1, sent <- v1

LEMMA MissionsSame == (Missions!Init <=> MissionsP!M!Init) /\ (Missions!Next <=> MissionsP!M!Next)
<1>1. ASSUME NEW S PROVE Missions!Cardinality(S) = MissionsP!M!Cardinality(S)
  BY DEF Missions!Cardinality, MissionsP!M!Cardinality, Missions!IsFiniteSet,
       MissionsP!M!IsFiniteSet
<1>2. ASSUME NEW t PROVE Missions!Reached(t) <=> MissionsP!M!Reached(t)
  BY <1>1 DEF Missions!Reached, MissionsP!M!Reached
<1>3. ASSUME NEW h PROVE Missions!Add(h) <=> MissionsP!M!Add(h)
  BY <1>1 DEF Missions!Add, MissionsP!M!Add, Missions!Goes, MissionsP!M!Goes, Missions!wallet,
       MissionsP!M!wallet, Missions!user, MissionsP!M!user
<1>4. ASSUME NEW h PROVE Missions!FollowAdd(h) <=> MissionsP!M!FollowAdd(h)
  BY <1>1 DEF Missions!FollowAdd, MissionsP!M!FollowAdd, Missions!Goes, MissionsP!M!Goes,
       Missions!wallet, MissionsP!M!wallet, Missions!user, MissionsP!M!user
<1>5. ASSUME NEW h PROVE Missions!TryFollow(h) <=> MissionsP!M!TryFollow(h)
  BY <1>1 DEF Missions!TryFollow, MissionsP!M!TryFollow, Missions!Goes, MissionsP!M!Goes,
       Missions!Ends, MissionsP!M!Ends, Missions!Idle, MissionsP!M!Idle, Missions!wallet,
       MissionsP!M!wallet, Missions!user, MissionsP!M!user
<1>6. ASSUME NEW h PROVE (Missions!Read(h) <=> MissionsP!M!Read(h)) /\ (Missions!TryDaily(h) <=> MissionsP!M!TryDaily(h))
  BY <1>2 DEF Missions!Read, MissionsP!M!Read, Missions!TryDaily, MissionsP!M!TryDaily,
       Missions!Goes, MissionsP!M!Goes, Missions!Ends, MissionsP!M!Ends, Missions!Idle,
       MissionsP!M!Idle, Missions!wallet, MissionsP!M!wallet, Missions!user, MissionsP!M!user
<1>7. ASSUME NEW h PROVE Missions!Hook(h) <=> MissionsP!M!Hook(h)
  BY <1>3, <1>4, <1>5, <1>6 DEF Missions!Hook, MissionsP!M!Hook,
       Missions!ReadDate, MissionsP!M!ReadDate, Missions!Reset,
       MissionsP!M!Reset, Missions!PayDaily, MissionsP!M!PayDaily, Missions!Count,
       MissionsP!M!Count, Missions!PayOnce, MissionsP!M!PayOnce, Missions!Goes,
       MissionsP!M!Goes, Missions!Ends, MissionsP!M!Ends, Missions!Idle, MissionsP!M!Idle,
       Missions!Bucket, MissionsP!M!Bucket, Missions!wallet, MissionsP!M!wallet, Missions!user,
       MissionsP!M!user
<1> QED
  BY <1>7 DEF Missions!Days, MissionsP!M!Days, Missions!wallet, MissionsP!M!wallet,
       Missions!user, MissionsP!M!user, Missions!Rows, MissionsP!M!Rows, Missions!Bucket,
       MissionsP!M!Bucket, Missions!Idle, MissionsP!M!Idle, Missions!Init, MissionsP!M!Init,
       Missions!Starts, MissionsP!M!Starts, Missions!Goes, MissionsP!M!Goes, Missions!Ends,
       MissionsP!M!Ends, Missions!See, MissionsP!M!See, Missions!ReadDate, MissionsP!M!ReadDate, Missions!Follow, MissionsP!M!Follow,
       Missions!Message, MissionsP!M!Message, Missions!Buy, MissionsP!M!Buy,
       Missions!ClaimTask, MissionsP!M!ClaimTask, Missions!Lost, MissionsP!M!Lost,
       Missions!Midnight, MissionsP!M!Midnight, Missions!Next, MissionsP!M!Next

LEMMA MissionsBounds == MissionsP!MBounds
<1>1. MissionsP!IsFiniteSet({"m1", "m2"})
  BY TwoMoments DEF MissionsP!IsFiniteSet, IsFiniteSet
<1> QED BY <1>1 DEF MissionsP!MBounds, MissionsP!Single

MissionsInv == scenario = "missions" => MissionsP!MInv

LEMMA MissionsInvInit == Init => MissionsInv
  BY MissionsBounds, MissionsSame, MissionsP!MInitInv DEF MissionsInv, Init, Begins

LEMMA MissionsInvStep == MissionsInv /\ [Next]_pool => MissionsInv'
  BY MissionsBounds, MissionsSame, MissionsP!MStepInv, MissionsP!MStutterInv
  DEF MissionsInv, Next, Steps, pool, MissionsP!M!vars

\* Two counting missions.
MissionsDayP == INSTANCE RewardsProofs WITH
    LastDay <- 1, Spanning <- FALSE, Daily <- {"watch_free_moments", "like_moments"}, Once <-
    {"first_recharge"}, Moments <- {"m1", "m2"}, Creators <- {"c1"}, Hooks <- {p1, p2}, Target
    <- 2, Cap <- 2, MaxBuys <- 0, MaxClaims <- 1, MayFail <- FALSE, claimed <- v4, ledger <-
    v5, paid <- v6, today <- v1, daily <- v2, followed <- v3, did <- v7, late <- v11, bought <- v8, claims
    <- v9, hook <- v10,
    Users <- None, Accounts <- None, None <- None, Requests <- None, Claims <- None, Timers <-
    None, Cycle <- None, bound <- v1, member <- v1, on <- v1, req <- v1, state <- v1, order <-
    v1, token <- v1, tick <- v1, sent <- v1

LEMMA MissionsDaySame == (MissionsDay!Init <=> MissionsDayP!M!Init) /\ (MissionsDay!Next <=> MissionsDayP!M!Next)
<1>1. ASSUME NEW S PROVE MissionsDay!Cardinality(S) = MissionsDayP!M!Cardinality(S)
  BY DEF MissionsDay!Cardinality, MissionsDayP!M!Cardinality, MissionsDay!IsFiniteSet,
       MissionsDayP!M!IsFiniteSet
<1>2. ASSUME NEW t PROVE MissionsDay!Reached(t) <=> MissionsDayP!M!Reached(t)
  BY <1>1 DEF MissionsDay!Reached, MissionsDayP!M!Reached
<1>3. ASSUME NEW h PROVE MissionsDay!Add(h) <=> MissionsDayP!M!Add(h)
  BY <1>1 DEF MissionsDay!Add, MissionsDayP!M!Add, MissionsDay!Goes, MissionsDayP!M!Goes,
       MissionsDay!wallet, MissionsDayP!M!wallet, MissionsDay!user, MissionsDayP!M!user
<1>4. ASSUME NEW h PROVE MissionsDay!FollowAdd(h) <=> MissionsDayP!M!FollowAdd(h)
  BY <1>1 DEF MissionsDay!FollowAdd, MissionsDayP!M!FollowAdd, MissionsDay!Goes,
       MissionsDayP!M!Goes, MissionsDay!wallet, MissionsDayP!M!wallet, MissionsDay!user,
       MissionsDayP!M!user
<1>5. ASSUME NEW h PROVE MissionsDay!TryFollow(h) <=> MissionsDayP!M!TryFollow(h)
  BY <1>1 DEF MissionsDay!TryFollow, MissionsDayP!M!TryFollow, MissionsDay!Goes,
       MissionsDayP!M!Goes, MissionsDay!Ends, MissionsDayP!M!Ends, MissionsDay!Idle,
       MissionsDayP!M!Idle, MissionsDay!wallet, MissionsDayP!M!wallet, MissionsDay!user,
       MissionsDayP!M!user
<1>6. ASSUME NEW h PROVE (MissionsDay!Read(h) <=> MissionsDayP!M!Read(h)) /\ (MissionsDay!TryDaily(h) <=> MissionsDayP!M!TryDaily(h))
  BY <1>2 DEF MissionsDay!Read, MissionsDayP!M!Read, MissionsDay!TryDaily,
       MissionsDayP!M!TryDaily, MissionsDay!Goes, MissionsDayP!M!Goes, MissionsDay!Ends,
       MissionsDayP!M!Ends, MissionsDay!Idle, MissionsDayP!M!Idle, MissionsDay!wallet,
       MissionsDayP!M!wallet, MissionsDay!user, MissionsDayP!M!user
<1>7. ASSUME NEW h PROVE MissionsDay!Hook(h) <=> MissionsDayP!M!Hook(h)
  BY <1>3, <1>4, <1>5, <1>6 DEF MissionsDay!Hook, MissionsDayP!M!Hook,
       MissionsDay!ReadDate, MissionsDayP!M!ReadDate, MissionsDay!Reset,
       MissionsDayP!M!Reset, MissionsDay!PayDaily, MissionsDayP!M!PayDaily, MissionsDay!Count,
       MissionsDayP!M!Count, MissionsDay!PayOnce, MissionsDayP!M!PayOnce, MissionsDay!Goes,
       MissionsDayP!M!Goes, MissionsDay!Ends, MissionsDayP!M!Ends, MissionsDay!Idle,
       MissionsDayP!M!Idle, MissionsDay!Bucket, MissionsDayP!M!Bucket, MissionsDay!wallet,
       MissionsDayP!M!wallet, MissionsDay!user, MissionsDayP!M!user
<1> QED
  BY <1>7 DEF MissionsDay!Days, MissionsDayP!M!Days, MissionsDay!wallet, MissionsDayP!M!wallet,
       MissionsDay!user, MissionsDayP!M!user, MissionsDay!Rows, MissionsDayP!M!Rows,
       MissionsDay!Bucket, MissionsDayP!M!Bucket, MissionsDay!Idle, MissionsDayP!M!Idle,
       MissionsDay!Init, MissionsDayP!M!Init, MissionsDay!Starts, MissionsDayP!M!Starts,
       MissionsDay!Goes, MissionsDayP!M!Goes, MissionsDay!Ends, MissionsDayP!M!Ends,
       MissionsDay!See, MissionsDayP!M!See, MissionsDay!ReadDate, MissionsDayP!M!ReadDate, MissionsDay!Follow, MissionsDayP!M!Follow,
       MissionsDay!Message, MissionsDayP!M!Message, MissionsDay!Buy, MissionsDayP!M!Buy,
       MissionsDay!ClaimTask, MissionsDayP!M!ClaimTask, MissionsDay!Lost, MissionsDayP!M!Lost,
       MissionsDay!Midnight, MissionsDayP!M!Midnight, MissionsDay!Next, MissionsDayP!M!Next

LEMMA MissionsDayBounds == MissionsDayP!MBounds
<1>1. MissionsDayP!IsFiniteSet({"m1", "m2"})
  BY TwoMoments DEF MissionsDayP!IsFiniteSet, IsFiniteSet
<1> QED BY <1>1 DEF MissionsDayP!MBounds, MissionsDayP!Single

MissionsDayInv == scenario = "missionsDay" => MissionsDayP!MInv

LEMMA MissionsDayInvInit == Init => MissionsDayInv
  BY MissionsDayBounds, MissionsDaySame, MissionsDayP!MInitInv DEF MissionsDayInv, Init, Begins

LEMMA MissionsDayInvStep == MissionsDayInv /\ [Next]_pool => MissionsDayInv'
  BY MissionsDayBounds, MissionsDaySame, MissionsDayP!MStepInv, MissionsDayP!MStutterInv
  DEF MissionsDayInv, Next, Steps, pool, MissionsDayP!M!vars

\* The missions that pay once.
MissionsOnceP == INSTANCE RewardsProofs WITH
    LastDay <- 0, Spanning <- FALSE, Daily <- {}, Once <- {"first_message", "follow_creators",
    "first_recharge"}, Moments <- {}, Creators <- {"c1", "c2"}, Hooks <- {p1, p2}, Target <- 2,
    Cap <- 2, MaxBuys <- 2, MaxClaims <- 2, MayFail <- TRUE, claimed <- v4, ledger <- v5, paid
    <- v6, today <- v1, daily <- v2, followed <- v3, did <- v7, late <- v11, bought <- v8, claims <- v9,
    hook <- v10,
    Users <- None, Accounts <- None, None <- None, Requests <- None, Claims <- None, Timers <-
    None, Cycle <- None, bound <- v1, member <- v1, on <- v1, req <- v1, state <- v1, order <-
    v1, token <- v1, tick <- v1, sent <- v1

LEMMA MissionsOnceSame == (MissionsOnce!Init <=> MissionsOnceP!M!Init) /\ (MissionsOnce!Next <=> MissionsOnceP!M!Next)
<1>1. ASSUME NEW S PROVE MissionsOnce!Cardinality(S) = MissionsOnceP!M!Cardinality(S)
  BY DEF MissionsOnce!Cardinality, MissionsOnceP!M!Cardinality, MissionsOnce!IsFiniteSet,
       MissionsOnceP!M!IsFiniteSet
<1>2. ASSUME NEW t PROVE MissionsOnce!Reached(t) <=> MissionsOnceP!M!Reached(t)
  BY <1>1 DEF MissionsOnce!Reached, MissionsOnceP!M!Reached
<1>3. ASSUME NEW h PROVE MissionsOnce!Add(h) <=> MissionsOnceP!M!Add(h)
  BY <1>1 DEF MissionsOnce!Add, MissionsOnceP!M!Add, MissionsOnce!Goes, MissionsOnceP!M!Goes,
       MissionsOnce!wallet, MissionsOnceP!M!wallet, MissionsOnce!user, MissionsOnceP!M!user
<1>4. ASSUME NEW h PROVE MissionsOnce!FollowAdd(h) <=> MissionsOnceP!M!FollowAdd(h)
  BY <1>1 DEF MissionsOnce!FollowAdd, MissionsOnceP!M!FollowAdd, MissionsOnce!Goes,
       MissionsOnceP!M!Goes, MissionsOnce!wallet, MissionsOnceP!M!wallet, MissionsOnce!user,
       MissionsOnceP!M!user
<1>5. ASSUME NEW h PROVE MissionsOnce!TryFollow(h) <=> MissionsOnceP!M!TryFollow(h)
  BY <1>1 DEF MissionsOnce!TryFollow, MissionsOnceP!M!TryFollow, MissionsOnce!Goes,
       MissionsOnceP!M!Goes, MissionsOnce!Ends, MissionsOnceP!M!Ends, MissionsOnce!Idle,
       MissionsOnceP!M!Idle, MissionsOnce!wallet, MissionsOnceP!M!wallet, MissionsOnce!user,
       MissionsOnceP!M!user
<1>6. ASSUME NEW h PROVE (MissionsOnce!Read(h) <=> MissionsOnceP!M!Read(h)) /\ (MissionsOnce!TryDaily(h) <=> MissionsOnceP!M!TryDaily(h))
  BY <1>2 DEF MissionsOnce!Read, MissionsOnceP!M!Read, MissionsOnce!TryDaily,
       MissionsOnceP!M!TryDaily, MissionsOnce!Goes, MissionsOnceP!M!Goes, MissionsOnce!Ends,
       MissionsOnceP!M!Ends, MissionsOnce!Idle, MissionsOnceP!M!Idle, MissionsOnce!wallet,
       MissionsOnceP!M!wallet, MissionsOnce!user, MissionsOnceP!M!user
<1>7. ASSUME NEW h PROVE MissionsOnce!Hook(h) <=> MissionsOnceP!M!Hook(h)
  BY <1>3, <1>4, <1>5, <1>6 DEF MissionsOnce!Hook, MissionsOnceP!M!Hook,
       MissionsOnce!ReadDate, MissionsOnceP!M!ReadDate, MissionsOnce!Reset,
       MissionsOnceP!M!Reset, MissionsOnce!PayDaily, MissionsOnceP!M!PayDaily,
       MissionsOnce!Count, MissionsOnceP!M!Count, MissionsOnce!PayOnce,
       MissionsOnceP!M!PayOnce, MissionsOnce!Goes, MissionsOnceP!M!Goes, MissionsOnce!Ends,
       MissionsOnceP!M!Ends, MissionsOnce!Idle, MissionsOnceP!M!Idle, MissionsOnce!Bucket,
       MissionsOnceP!M!Bucket, MissionsOnce!wallet, MissionsOnceP!M!wallet, MissionsOnce!user,
       MissionsOnceP!M!user
<1> QED
  BY <1>7 DEF MissionsOnce!Days, MissionsOnceP!M!Days, MissionsOnce!wallet,
       MissionsOnceP!M!wallet, MissionsOnce!user, MissionsOnceP!M!user, MissionsOnce!Rows,
       MissionsOnceP!M!Rows, MissionsOnce!Bucket, MissionsOnceP!M!Bucket, MissionsOnce!Idle,
       MissionsOnceP!M!Idle, MissionsOnce!Init, MissionsOnceP!M!Init, MissionsOnce!Starts,
       MissionsOnceP!M!Starts, MissionsOnce!Goes, MissionsOnceP!M!Goes, MissionsOnce!Ends,
       MissionsOnceP!M!Ends, MissionsOnce!See, MissionsOnceP!M!See, MissionsOnce!ReadDate, MissionsOnceP!M!ReadDate, MissionsOnce!Follow,
       MissionsOnceP!M!Follow, MissionsOnce!Message, MissionsOnceP!M!Message, MissionsOnce!Buy,
       MissionsOnceP!M!Buy, MissionsOnce!ClaimTask, MissionsOnceP!M!ClaimTask,
       MissionsOnce!Lost, MissionsOnceP!M!Lost, MissionsOnce!Midnight,
       MissionsOnceP!M!Midnight, MissionsOnce!Next, MissionsOnceP!M!Next

LEMMA MissionsOnceBounds == MissionsOnceP!MBounds
<1>1. MissionsOnceP!IsFiniteSet({})
  BY FS_EmptySet DEF MissionsOnceP!IsFiniteSet, IsFiniteSet
<1> QED BY <1>1 DEF MissionsOnceP!MBounds, MissionsOnceP!Single

MissionsOnceInv == scenario = "missionsOnce" => MissionsOnceP!MInv

LEMMA MissionsOnceInvInit == Init => MissionsOnceInv
  BY MissionsOnceBounds, MissionsOnceSame, MissionsOnceP!MInitInv DEF MissionsOnceInv, Init, Begins

LEMMA MissionsOnceInvStep == MissionsOnceInv /\ [Next]_pool => MissionsOnceInv'
  BY MissionsOnceBounds, MissionsOnceSame, MissionsOnceP!MStepInv, MissionsOnceP!MStutterInv
  DEF MissionsOnceInv, Next, Steps, pool, MissionsOnceP!M!vars

\* In every behaviour of the run no mission, account or check-in day pays
\* twice, or for what the user did not do that day or across the midnight
\* before it (creditDailyTaskReward,
\* creditOnceTaskReward, verifyAndClaimTelegramReward, claimDailyCheckIn).
THEOREM RewardsTheorem == Spec => []RewardsPaidOnce
<1>1. TelegramInv /\ scenario = "telegram" => Telegram!OneReward
  BY DEF TelegramInv, TelegramP!TInv, Telegram!OneReward, TelegramP!T!OneReward
<1>2. CheckinInv /\ scenario = "checkin" => Checkin!OnceADay /\ Checkin!InCycle /\ Checkin!RemindedOnce
  <2>1. Checkin!OnceADay <=> CheckinP!K!OnceADay
    BY DEF Checkin!OnceADay, CheckinP!K!OnceADay, Checkin!Cardinality, CheckinP!K!Cardinality,
           Checkin!IsFiniteSet, CheckinP!K!IsFiniteSet
  <2> QED BY <2>1, CheckinP!KSays DEF CheckinInv, Checkin!InCycle, CheckinP!K!InCycle,
           Checkin!RemindedOnce, CheckinP!K!RemindedOnce, Checkin!Days, CheckinP!K!Days
<1>3. CheckinDayInv /\ scenario = "checkinDay" => CheckinDay!ClaimedShows
  BY CheckinDayP!KSays DEF CheckinDayInv, CheckinDay!ClaimedShows, CheckinDayP!K!ClaimedShows
<1>4. MissionsInv /\ scenario = "missions" => Missions!PaidOnce /\ Missions!PaidIsEarned
  <2>1. Missions!PaidIsEarned <=> MissionsP!M!PaidIsEarned
    BY DEF Missions!PaidIsEarned, MissionsP!M!PaidIsEarned, Missions!Earned, MissionsP!M!Earned,
           Missions!Days, MissionsP!M!Days,
           Missions!Cardinality, MissionsP!M!Cardinality, Missions!IsFiniteSet, MissionsP!M!IsFiniteSet
  <2> QED BY <2>1 DEF MissionsInv, MissionsP!MInv, Missions!PaidOnce, MissionsP!M!PaidOnce,
           Missions!Rows, MissionsP!M!Rows, Missions!Days, MissionsP!M!Days
<1>5. MissionsDayInv /\ scenario = "missionsDay" => MissionsDay!PaidOnce
  BY DEF MissionsDayInv, MissionsDayP!MInv, MissionsDay!PaidOnce, MissionsDayP!M!PaidOnce,
         MissionsDay!Rows, MissionsDayP!M!Rows, MissionsDay!Days, MissionsDayP!M!Days
<1>6. MissionsOnceInv /\ scenario = "missionsOnce" => MissionsOnce!PaidOnce
  BY DEF MissionsOnceInv, MissionsOnceP!MInv, MissionsOnce!PaidOnce, MissionsOnceP!M!PaidOnce,
         MissionsOnce!Rows, MissionsOnceP!M!Rows, MissionsOnce!Days, MissionsOnceP!M!Days
<1>7. TelegramInv /\ CheckinInv /\ CheckinDayInv /\ MissionsInv /\ MissionsDayInv /\ MissionsOnceInv
      => RewardsPaidOnce
  BY <1>1, <1>2, <1>3, <1>4, <1>5, <1>6 DEF RewardsPaidOnce
<1> QED BY <1>7, TelegramInvInit, TelegramInvStep, CheckinInvInit, CheckinInvStep, CheckinDayInvInit,
           CheckinDayInvStep, MissionsInvInit, MissionsInvStep, MissionsDayInvInit, MissionsDayInvStep,
           MissionsOnceInvInit, MissionsOnceInvStep, PTL DEF Spec

\* In every behaviour of the run a bound account stays bound, only members are
\* paid for, and no hook overwrites what another has counted
\* (handleTelegramWebhook, getChatMember, atomicAddDailyMomentId).
THEOREM RewardStateTheorem == Spec => RewardStateKept
<1>1. ASSUME TelegramInv, Next, scenario = "telegram"
      PROVE  Telegram!StaysBound /\ Telegram!MemberBeforePay
  <2>1. Telegram!Next
    BY <1>1 DEF Next, Steps
  <2>2. TelegramP!TInv /\ TelegramP!T!Next
    BY <1>1, <2>1, TelegramSame DEF TelegramInv
  <2>3. TelegramP!T!StaysBound /\ TelegramP!T!MemberBeforePay
    BY <2>2, TelegramP!TStepKeeps, TelegramP!TStepMember
  <2> QED BY <2>3 DEF Telegram!StaysBound, TelegramP!T!StaysBound, Telegram!MemberBeforePay,
           TelegramP!T!MemberBeforePay
<1>2. ASSUME MissionsDayInv, Next, scenario = "missionsDay"
      PROVE  MissionsDay!ProgressKept
  <2>1. MissionsDay!Next
    BY <1>2 DEF Next, Steps
  <2>2. MissionsDayP!MInv /\ MissionsDayP!M!Next
    BY <1>2, <2>1, MissionsDaySame DEF MissionsDayInv
  <2>3. MissionsDayP!M!ProgressKept
    BY <2>2, MissionsDayBounds, MissionsDayP!MStepKeeps
  <2> QED BY <2>3 DEF MissionsDay!ProgressKept, MissionsDayP!M!ProgressKept
<1>3. TelegramInv /\ MissionsDayInv /\ [Next]_pool =>
        [/\ scenario = "telegram" => Telegram!StaysBound
         /\ scenario = "telegram" => Telegram!MemberBeforePay
         /\ scenario = "missionsDay" => MissionsDay!ProgressKept]_pool
  BY <1>1, <1>2
<1> QED BY <1>3, TelegramInvInit, TelegramInvStep, MissionsDayInvInit, MissionsDayInvStep, PTL
        DEF Spec, RewardStateKept
=============================================================================
