------------------------------ MODULE Rewards ------------------------------
(***************************************************************************)
(* The reward missions of one consumer: daily missions that count          *)
(* distinct moments in a bucket for the day, and missions that pay once.   *)
(* What happens elsewhere starts hooks that nobody awaits.  A hook reads   *)
(* the day some awaits after the deed and keeps it; the credit is one      *)
(* transaction under a unique ledger id.                                   *)
(***************************************************************************)
EXTENDS Naturals, FiniteSets

CONSTANTS Daily,      \* missions that count moments of a day
          Once,       \* missions that pay once
          Moments, Creators,
          Hooks,      \* hooks and claims that overlap
          Target,     \* targetCount of the counting missions
          Cap,        \* DAILY_UNIQUE_IDS_CAP and FOLLOW_UNIQUE_IDS_CAP
          LastDay, MaxBuys, MaxClaims,  \* bounds
          Spanning,   \* whether hooks run over midnight
          MayFail     \* whether a hook may fail

Days == 0 .. LastDay

VARIABLES today,
          daily,     \* UserRewardProgress.daily
          followed,  \* lifetime.followedCreatorIds
          claimed,   \* the claimed map
          ledger,    \* reward rows: the mission and its day, 0 for what pays once
          paid,      \* credits for each row
          did,       \* what the user really did on each day
          late,      \* done before the day whose date the hook has read
          bought,    \* completed gateway credits
          claims,    \* claims made by hand
          hook       \* hooks under way

vars == <<today, daily, followed, claimed, ledger, paid, did, late, bought, claims, hook>>
wallet == <<ledger, paid, claimed>>
user == <<did, late, bought, claims>>

\* The missions of the hub: one row for what pays once, one a day for the others.
Rows == (Once \X {0}) \cup (Daily \X Days)
Bucket(d) == [day |-> d, ids |-> [t \in Daily |-> {}], flag |-> {}]
Idle == [at |-> "idle", task |-> "", id |-> "", day |-> 0]

Init == /\ today = 0
        /\ daily = Bucket(LastDay + 1)  \* the empty dateKey
        /\ followed = {} /\ claimed = {} /\ ledger = {}
        /\ paid = [x \in Rows |-> 0]
        /\ did = [x \in Daily \X Days |-> {}] /\ late = did
        /\ bought = 0 /\ claims = 0
        /\ hook = [h \in Hooks |-> Idle]

Starts(h, at, t, id) == /\ hook[h].at = "idle"
                        /\ hook' = [hook EXCEPT ![h] = [at |-> at, task |-> t, id |-> id, day |-> today]]
Goes(h, at) == hook' = [hook EXCEPT ![h].at = at]
Ends(h) == hook' = [hook EXCEPT ![h] = Idle]

(***************************************************************************)
(* recordMomentViewForReward and recordMomentLikeForReward.                *)
(***************************************************************************)
See(h, t, m) == /\ Starts(h, "date", t, m)
                /\ did' = [did EXCEPT ![<<t, today>>] = @ \cup {m}]
                /\ UNCHANGED <<today, daily, followed, wallet, late, bought, claims>>

\* The configuration and the user are awaited before the date is read.
ReadDate(h) == LET k == hook[h] IN
    /\ k.at = "date"
    /\ hook' = [hook EXCEPT ![h] = [at |-> "reset", task |-> k.task, id |-> k.id, day |-> today]]
    /\ late' = IF k.day = today THEN late ELSE [late EXCEPT ![<<k.task, today>>] = @ \cup {k.id}]
    /\ UNCHANGED <<today, daily, followed, wallet, did, bought, claims>>

\* Resets the bucket whenever a hook begins.
ResetAlways(h) == /\ hook[h].at = "reset" /\ Goes(h, "add")
                  /\ daily' = Bucket(hook[h].day)
                  /\ UNCHANGED <<today, followed, wallet, user>>

\* atomicAddDailyMomentId: three calls.
Reset(h) == /\ hook[h].at = "reset" /\ Goes(h, "add")
            /\ daily' = IF daily.day = hook[h].day THEN daily ELSE Bucket(hook[h].day)
            /\ UNCHANGED <<today, followed, wallet, user>>

\* Adds to whatever bucket there is.
AddAnyDay(h) == LET k == hook[h] IN
    /\ k.at = "add" /\ Goes(h, "read")
    /\ daily' = [daily EXCEPT !.ids[k.task] = @ \cup {k.id}]
    /\ UNCHANGED <<today, followed, wallet, user>>

Add(h) == LET k == hook[h] IN
    /\ k.at = "add" /\ Goes(h, "read")
    /\ daily' = IF daily.day = k.day /\ Cardinality(daily.ids[k.task]) < Cap
                THEN [daily EXCEPT !.ids[k.task] = @ \cup {k.id}] ELSE daily
    /\ UNCHANGED <<today, followed, wallet, user>>

Reached(t) == Cardinality(daily.ids[t]) >= Target

\* Off by one at the target.
ReadAbove(h) == LET k == hook[h] IN
    /\ k.at = "read"
    /\ IF daily.day = k.day /\ Cardinality(daily.ids[k.task]) > Target /\ k.task \notin daily.flag
       THEN Goes(h, "try") ELSE Ends(h)
    /\ UNCHANGED <<today, daily, followed, wallet, user>>

Read(h) == LET k == hook[h] IN
    /\ k.at = "read"
    /\ IF daily.day = k.day /\ Reached(k.task) /\ k.task \notin daily.flag
       THEN Goes(h, "try") ELSE Ends(h)
    /\ UNCHANGED <<today, daily, followed, wallet, user>>

\* tryCreditWatchOrLikeDaily takes the day anew; a claim begins here.
TryDaily(h) == LET t == hook[h].task IN
    /\ hook[h].at = "try"
    /\ IF daily.day = today /\ Reached(t) /\ t \notin daily.flag
       THEN hook' = [hook EXCEPT ![h].at = "payDaily", ![h].day = today] ELSE Ends(h)
    /\ UNCHANGED <<today, daily, followed, wallet, user>>

\* Without the unique ledger id.
PayDailyAgain(h) == LET k == hook[h]  x == <<k.task, k.day>>  b == IF daily.day = k.day THEN daily ELSE Bucket(k.day) IN
    /\ k.at = "payDaily" /\ Ends(h)
    /\ IF daily.day = k.day /\ k.task \in daily.flag
       THEN UNCHANGED <<daily, ledger, paid>>
       ELSE /\ ledger' = ledger \cup {x} /\ paid' = [paid EXCEPT ![x] = @ + 1]
            /\ daily' = [b EXCEPT !.flag = @ \cup {k.task}]
    /\ UNCHANGED <<today, followed, claimed, user>>

\* creditDailyTaskReward: one transaction; a bucket of another day is replaced.
PayDaily(h) == LET k == hook[h]  x == <<k.task, k.day>>  b == IF daily.day = k.day THEN daily ELSE Bucket(k.day) IN
    /\ k.at = "payDaily" /\ Ends(h)
    /\ IF (daily.day = k.day /\ k.task \in daily.flag) \/ x \in ledger
       THEN UNCHANGED <<daily, ledger, paid>>
       ELSE /\ ledger' = ledger \cup {x} /\ paid' = [paid EXCEPT ![x] = @ + 1]
            /\ daily' = [b EXCEPT !.flag = @ \cup {k.task}]
    /\ UNCHANGED <<today, followed, claimed, user>>

(***************************************************************************)
(* Missions that pay once.                                                 *)
(***************************************************************************)
\* recordCreatorFollowForReward.
Follow(h, c) == /\ "follow_creators" \in Once \ claimed
                /\ Starts(h, "follow", "follow_creators", c)
                /\ UNCHANGED <<today, daily, followed, wallet, user>>

FollowAdd(h) == /\ hook[h].at = "follow" /\ Goes(h, "tryFollow")
                /\ followed' = IF Cardinality(followed) < Cap THEN followed \cup {hook[h].id} ELSE followed
                /\ UNCHANGED <<today, daily, wallet, user>>

\* tryCreditFollowCreators; a claim begins here.
TryFollow(h) == /\ hook[h].at = "tryFollow"
                /\ IF "follow_creators" \notin claimed /\ Cardinality(followed) >= Target
                   THEN Goes(h, "payOnce") ELSE Ends(h)
                /\ UNCHANGED <<today, daily, followed, wallet, user>>

\* tryCreditFirstMessage, and in the same way the first call, the photo, the
\* complete profile and the invitation.
Message(h) == /\ "first_message" \in Once \ claimed
              /\ Starts(h, "payOnce", "first_message", "")
              /\ UNCHANGED <<today, daily, followed, wallet, user>>

\* A purchase is finalized, then tryCreditFirstRecharge counts.
Buy(h) == /\ bought < MaxBuys /\ bought' = bought + 1
          /\ Starts(h, "count", "first_recharge", "")
          /\ UNCHANGED <<today, daily, followed, wallet, did, late, claims>>

\* Counts the purchases before this one.
CountBefore(h) == /\ hook[h].at = "count"
                  /\ IF bought = 0 /\ "first_recharge" \notin claimed THEN Goes(h, "payOnce") ELSE Ends(h)
                  /\ UNCHANGED <<today, daily, followed, wallet, user>>

Count(h) == /\ hook[h].at = "count"
            /\ IF bought = 1 /\ "first_recharge" \notin claimed THEN Goes(h, "payOnce") ELSE Ends(h)
            /\ UNCHANGED <<today, daily, followed, wallet, user>>

\* Trusts the check the hook made before.
PayOnceUnchecked(h) == LET t == hook[h].task IN
    /\ hook[h].at = "payOnce" /\ Ends(h)
    /\ claimed' = claimed \cup {t} /\ ledger' = ledger \cup {<<t, 0>>} /\ paid' = [paid EXCEPT ![<<t, 0>>] = @ + 1]
    /\ UNCHANGED <<today, daily, followed, user>>

\* creditOnceTaskReward: one transaction.
PayOnce(h) == LET t == hook[h].task IN
    /\ hook[h].at = "payOnce" /\ Ends(h)
    /\ IF t \in claimed \/ <<t, 0>> \in ledger
       THEN UNCHANGED wallet
       ELSE claimed' = claimed \cup {t} /\ ledger' = ledger \cup {<<t, 0>>} /\ paid' = [paid EXCEPT ![<<t, 0>>] = @ + 1]
    /\ UNCHANGED <<today, daily, followed, user>>

\* claimRewardsTask.
ClaimTask(h, t) == /\ claims < MaxClaims /\ claims' = claims + 1
                   /\ Starts(h, IF t \in Daily THEN "try" ELSE "tryFollow", t, "")
                   /\ UNCHANGED <<today, daily, followed, wallet, did, late, bought>>

\* safeRewardHook logs the error and forgets the hook.
Lost(h) == /\ MayFail /\ hook[h].at # "idle" /\ Ends(h)
           /\ UNCHANGED <<today, daily, followed, wallet, user>>

Midnight == /\ today < LastDay /\ today' = today + 1
            /\ Spanning \/ \A h \in Hooks : hook[h].at = "idle"
            /\ UNCHANGED <<daily, followed, wallet, user, hook>>

Hook(h) == \/ ReadDate(h) \/ Reset(h) \/ Add(h) \/ Read(h) \/ TryDaily(h) \/ PayDaily(h)
           \/ FollowAdd(h) \/ TryFollow(h) \/ Count(h) \/ PayOnce(h)

Next == \/ \E h \in Hooks : \/ Hook(h) \/ Message(h) \/ Buy(h) \/ Lost(h)
                            \/ \E t \in Daily, m \in Moments : See(h, t, m)
                            \/ \E c \in Creators : Follow(h, c)
                            \/ \E t \in Daily \cup (Once \cap {"follow_creators"}) : ClaimTask(h, t)
        \/ Midnight

Spec == Init /\ [][Next]_vars

----------------------------------------------------------------------------
\* No row pays twice and no wallet is credited without its row, however hooks,
\* claims and midnight interleave.
PaidOnce == \A x \in Rows : paid[x] = (IF x \in ledger THEN 1 ELSE 0)

\* What counts for a day: done on that day, or before the midnight its hook
\* has waited over.
Earned == [x \in Daily \X Days |-> did[x] \cup late[x]]

\* A day pays only what counts for it: moments seen before midnight never
\* count for the day after, unless their own hook read its date only then.
PaidIsEarned == \A t \in Daily, d \in Days : paid[<<t, d>>] > 0 => Cardinality(Earned[<<t, d>>]) >= Target

\* During a day nothing that was counted for it is lost.
ProgressKept == today' = today /\ daily.day = today =>
    daily'.day = today /\ daily.flag \subseteq daily'.flag /\ \A t \in Daily : daily.ids[t] \subseteq daily'.ids[t]

\* A daily mission has reached its target; it is paid for that day.
IsDue(t, d) == daily.day = d /\ Reached(t)
IsPaid(t, d) == paid[<<t, d>>] = 1
HasBought == bought > 0
=============================================================================
