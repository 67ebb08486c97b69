--------------------------- MODULE RewardsProofs ---------------------------
(***************************************************************************)
(* Proofs about what pays for something a user does: the Telegram join     *)
(* reward, the daily check-in and the missions, each for any number of     *)
(* users, requests, hooks and days.  The constants and variables are those *)
(* of the components; none takes steps with another.                       *)
(***************************************************************************)
EXTENDS Integers, Sequences, FiniteSets, TLAPS, FiniteSetTheorems, SequenceTheorems

CONSTANTS Users, Accounts, None, Requests,
          Claims, Timers, Cycle, LastDay, Spanning,
          Daily, Once, Moments, Creators, Hooks, Target, Cap, MaxBuys, MaxClaims, MayFail

VARIABLES bound, claimed, ledger, paid, member, on, req,
          today, state, order, token, tick, sent,
          daily, followed, did, late, bought, claims, hook

T == INSTANCE Telegram
K == INSTANCE Checkin
M == INSTANCE Rewards

-----------------------------------------------------------------------------
(* The Telegram join reward *)

TTypes ==
    /\ bound \in [Users -> Accounts \cup {None}]
    /\ claimed \subseteq Users
    /\ paid \in [Users -> Nat]
    /\ req \in [Requests -> [at : {"idle", "bind", "ask", "pay"},
                             user : Users \cup {None}, acc : Accounts \cup {None}]]

\* What the unique index on telegramUserId keeps.
BoundOnce == \A u, v \in Users : bound[u] # None /\ bound[u] = bound[v] => u = v

\* A verification keeps the account it read, which its user keeps as well; a
\* user is paid only with an account.
BoundFirst ==
    /\ \A r \in Requests : req[r].at = "bind" => req[r].user \in Users
    /\ \A r \in Requests : req[r].at \in {"ask", "pay"} =>
          /\ req[r].user \in Users
          /\ req[r].acc # None /\ bound[req[r].user] = req[r].acc
    /\ \A u \in claimed : bound[u] # None

TInv == TTypes /\ BoundOnce /\ BoundFirst /\ T!OneReward

LEMMA TInitInv == T!Init => TInv
  BY DEF T!Init, T!Idle, TInv, TTypes, BoundOnce, BoundFirst, T!OneReward

\* A request goes on and nothing else changes.
LEMMA TMoves ==
  ASSUME TInv, NEW r \in Requests,
         NEW j \in [at : {"idle", "bind", "ask", "pay"},
                    user : Users \cup {None}, acc : Accounts \cup {None}],
         req' = [req EXCEPT ![r] = j],
         j.at = "bind" => j.user \in Users,
         j.at \in {"ask", "pay"} =>
            j.user \in Users /\ j.acc # None /\ bound[j.user] = j.acc,
         UNCHANGED <<bound, claimed, ledger, paid>>
  PROVE  TInv'
<1>1. TTypes'
  BY DEF TInv, TTypes
<1>2. BoundOnce' /\ T!OneReward'
  BY DEF TInv, BoundOnce, T!OneReward
<1>3. BoundFirst'
  BY DEF TInv, TTypes, BoundFirst
<1> QED BY <1>1, <1>2, <1>3 DEF TInv

LEMMA TEnters ==
  ASSUME TInv, NEW r \in Requests, NEW u \in Users,
         T!Verify(r, u) \/ \E t \in Accounts : T!Start(r, u, t)
  PROVE  TInv'
<1>1. CASE T!Verify(r, u)
  <2> DEFINE j == [at |-> "ask", user |-> u, acc |-> bound[u]]
  <2>1. j \in [at : {"idle", "bind", "ask", "pay"}, user : Users \cup {None}, acc : Accounts \cup {None}]
    BY DEF TInv, TTypes
  <2>2. req' = [req EXCEPT ![r] = j] /\ UNCHANGED <<bound, claimed, ledger, paid>>
    BY <1>1 DEF T!Verify, T!To
  <2>3. j.at = "ask" /\ j.user = u /\ j.acc = bound[u] /\ bound[u] # None
    BY <1>1 DEF T!Verify, T!MayClaim
  <2> HIDE DEF j
  <2> QED BY <2>1, <2>2, <2>3, TMoves
<1>2. ASSUME NEW t \in Accounts, T!Start(r, u, t) PROVE TInv'
  <2> DEFINE j == [at |-> "bind", user |-> u, acc |-> t]
  <2>1. j \in [at : {"idle", "bind", "ask", "pay"}, user : Users \cup {None}, acc : Accounts \cup {None}]
    OBVIOUS
  <2>2. req' = [req EXCEPT ![r] = j] /\ UNCHANGED <<bound, claimed, ledger, paid>>
    BY <1>2 DEF T!Start, T!To
  <2>3. j.at = "bind" /\ j.user = u
    OBVIOUS
  <2> HIDE DEF j
  <2> QED BY <2>1, <2>2, <2>3, TMoves
<1> QED BY <1>1, <1>2

LEMMA TAnswers ==
  ASSUME TInv, NEW r \in Requests, T!Ask(r) \/ T!Die(r)
  PROVE  TInv'
<1>1. CASE req' = [req EXCEPT ![r] = T!Idle] /\ UNCHANGED <<bound, claimed, ledger, paid>>
  <2>1. T!Idle \in [at : {"idle", "bind", "ask", "pay"}, user : Users \cup {None}, acc : Accounts \cup {None}]
    BY DEF T!Idle
  <2>2. T!Idle.at = "idle"
    BY DEF T!Idle
  <2> QED BY <1>1, <2>1, <2>2, TMoves
<1>2. CASE /\ req[r].at = "ask" /\ T!To(r, "pay", req[r].user, req[r].acc)
           /\ UNCHANGED <<bound, claimed, ledger, paid>>
  <2> DEFINE j == [at |-> "pay", user |-> req[r].user, acc |-> req[r].acc]
  <2>1. j \in [at : {"idle", "bind", "ask", "pay"}, user : Users \cup {None}, acc : Accounts \cup {None}]
    BY DEF TInv, TTypes
  <2>2. req' = [req EXCEPT ![r] = j]
    BY <1>2 DEF T!To
  <2>3. j.at = "pay" /\ j.user \in Users /\ j.acc # None /\ bound[j.user] = j.acc
    BY <1>2 DEF TInv, BoundFirst
  <2> HIDE DEF j
  <2> QED BY <1>2, <2>1, <2>2, <2>3, TMoves
<1> QED BY <1>1, <1>2 DEF T!Ask, T!Die, T!Done

\* Bind keeps whoever is bound, and nobody shares an account.
LEMMA TBinds ==
  ASSUME TInv, NEW r \in Requests, T!Bind(r)
  PROVE  TInv' /\ T!StaysBound
<1>0. TTypes /\ BoundOnce /\ BoundFirst /\ T!OneReward
  BY DEF TInv
<1>1. PICK u \in Users, t \in Accounts \cup {None} :
        /\ req' = [req EXCEPT ![r] = T!Idle]
        /\ \/ /\ bound[u] = None /\ \A v \in Users : bound[v] # t
              /\ bound' = [bound EXCEPT ![u] = t]
           \/ bound' = bound
        /\ UNCHANGED <<claimed, ledger, paid>>
  BY <1>0 DEF T!Bind, T!Done, TTypes, BoundFirst
<1>2. T!Idle \in [at : {"idle", "bind", "ask", "pay"}, user : Users \cup {None}, acc : Accounts \cup {None}]
      /\ T!Idle.at = "idle"
  BY DEF T!Idle
<1>3. TTypes'
  BY <1>0, <1>1, <1>2 DEF TTypes
<1>4. T!StaysBound
  BY <1>0, <1>1 DEF TTypes, T!StaysBound
<1>5. BoundOnce'
  BY <1>0, <1>1 DEF TTypes, BoundOnce
<1>6. BoundFirst'
  BY <1>0, <1>1, <1>2, <1>4 DEF TTypes, BoundFirst, T!StaysBound
<1>7. T!OneReward'
  BY <1>0, <1>1, <1>4 DEF TTypes, BoundFirst, T!StaysBound, T!OneReward
<1> QED BY <1>3, <1>4, <1>5, <1>6, <1>7 DEF TInv

LEMMA TPays ==
  ASSUME TInv, NEW r \in Requests, T!Pay(r)
  PROVE  TInv'
<1>0. TTypes /\ BoundOnce /\ BoundFirst /\ T!OneReward
  BY DEF TInv
<1>1. PICK u \in Users :
        /\ bound[u] # None
        /\ req' = [req EXCEPT ![r] = T!Idle]
        /\ \/ /\ u \notin claimed
              /\ claimed' = claimed \cup {u} /\ ledger' = ledger \cup {u}
              /\ paid' = [paid EXCEPT ![u] = @ + 1]
           \/ UNCHANGED <<claimed, ledger, paid>>
        /\ bound' = bound
  BY <1>0 DEF T!Pay, T!Done, TTypes, BoundFirst
<1>2. T!Idle \in [at : {"idle", "bind", "ask", "pay"}, user : Users \cup {None}, acc : Accounts \cup {None}]
      /\ T!Idle.at = "idle"
  BY DEF T!Idle
<1>3. TTypes'
  BY <1>0, <1>1, <1>2 DEF TTypes
<1>4. BoundOnce' /\ BoundFirst'
  BY <1>0, <1>1, <1>2 DEF TTypes, BoundOnce, BoundFirst
<1>5. T!OneReward'
  <2>1. ledger' = claimed'
    BY <1>0, <1>1 DEF T!OneReward
  <2>2. \A v \in Users : paid'[v] = (IF v \in claimed' THEN 1 ELSE 0)
    BY <1>0, <1>1 DEF TTypes, T!OneReward
  <2>3. claimed' \subseteq Users /\ \A v \in claimed' : bound[v] # None
    BY <1>0, <1>1 DEF TTypes, BoundFirst
  <2>4. \A v, w \in claimed' : bound'[v] = bound'[w] => v = w
    BY <1>0, <1>1, <2>3 DEF BoundOnce
  <2> QED BY <2>1, <2>2, <2>4 DEF T!OneReward
<1> QED BY <1>3, <1>4, <1>5 DEF TInv

LEMMA TStutterInv == TInv /\ UNCHANGED T!vars => TInv'
  BY DEF T!vars, TInv, TTypes, BoundOnce, BoundFirst, T!OneReward

LEMMA TStepInv == TInv /\ T!Next => TInv'
<1> SUFFICES ASSUME TInv, T!Next PROVE TInv'
  OBVIOUS
<1>1. CASE UNCHANGED <<bound, claimed, ledger, paid, req>>
  BY <1>1 DEF TInv, TTypes, BoundOnce, BoundFirst, T!OneReward
<1> QED BY <1>1, TEnters, TAnswers, TBinds, TPays DEF T!Next, T!Join, T!Quit, T!Configure

LEMMA TStepKeeps == TInv /\ T!Next => T!StaysBound
<1> SUFFICES ASSUME TInv, T!Next PROVE T!StaysBound
  OBVIOUS
<1>1. CASE UNCHANGED bound
  BY <1>1 DEF T!StaysBound
<1> QED BY <1>1, TBinds
  DEF T!Next, T!Join, T!Quit, T!Configure, T!Verify, T!Start, T!Ask, T!Pay, T!Die

LEMMA TStepMember == TInv /\ T!Next => T!MemberBeforePay
<1> SUFFICES ASSUME TInv, T!Next, NEW r \in Requests, req[r].at # "pay", req'[r].at = "pay"
             PROVE  req[r].acc \in member /\ req[r].acc = bound[req[r].user]
  BY DEF T!MemberBeforePay
<1>0. req \in [Requests -> [at : {"idle", "bind", "ask", "pay"},
                            user : Users \cup {None}, acc : Accounts \cup {None}]]
  BY DEF TInv, TTypes
<1>1. T!Idle.at = "idle"
  BY DEF T!Idle
<1>2. T!Ask(r)
  BY <1>0, <1>1 DEF T!Next, T!Join, T!Quit, T!Configure, T!Verify, T!Start, T!Ask, T!Bind, T!Pay,
                    T!Die, T!To, T!Done
<1>3. req[r].at = "ask" /\ req[r].acc \in member
  BY <1>0, <1>1, <1>2 DEF T!Ask, T!Done
<1> QED BY <1>3 DEF TInv, BoundFirst

\* One account pays one user and one user is paid once, however webhooks and
\* verifications overlap (verifyAndClaimTelegramReward).
THEOREM OneRewardTheorem == T!Spec => []T!OneReward
<1>1. TInv => T!OneReward
  BY DEF TInv
<1> QED BY <1>1, TInitInv, TStepInv, TStutterInv, PTL DEF T!Spec

\* An account once bound stays bound to its user, and no verification gets
\* from the check of the membership to the payment without the membership of
\* the bound account (handleTelegramWebhook, getChatMember).
THEOREM BoundTheorem == T!Spec => [][T!StaysBound /\ T!MemberBeforePay]_T!vars
<1>1. TInv /\ [T!Next]_T!vars => [T!StaysBound /\ T!MemberBeforePay]_T!vars
  BY TStepKeeps, TStepMember
<1> QED BY <1>1, TInitInv, TStepInv, TStutterInv, PTL DEF T!Spec

-----------------------------------------------------------------------------
(* The daily check-in *)

\* The cycle and the run have a day.
KBounds == Cycle \in Nat \ {0} /\ LastDay \in Nat \ {0}

\* What comes after a number modulo the cycle.
LEMMA NextInCycle ==
  ASSUME NEW n \in Nat, NEW c \in Nat \ {0}
  PROVE  (n + 1) % c = IF n % c = c - 1 THEN 0 ELSE (n % c) + 1
<1>1. PICK q \in Int, m \in 0 .. c - 1 : n = c * q + m /\ n % c = m
  <2>1. n = c * (n \div c) + (n % c) /\ n % c \in 0 .. c - 1 /\ n \div c \in Int
    OBVIOUS
  <2> QED BY <2>1
<1>2. PICK p \in Int, k \in 0 .. c - 1 : n + 1 = c * p + k /\ (n + 1) % c = k
  <2>1. n + 1 = c * ((n + 1) \div c) + ((n + 1) % c) /\ (n + 1) % c \in 0 .. c - 1 /\ (n + 1) \div c \in Int
    OBVIOUS
  <2> QED BY <2>1
<1>3. c * (p - q) = m + 1 - k
  BY <1>1, <1>2
<1>4. p - q = 0 \/ p - q = 1 \/ p - q >= 2 \/ p - q <= -1
  OBVIOUS
<1>5. CASE p - q = 0
  BY <1>1, <1>2, <1>3, <1>5
<1>6. CASE p - q = 1
  BY <1>1, <1>2, <1>3, <1>6
<1>7. CASE p - q >= 2
  <2>1. c * (p - q) >= c * 2
    BY <1>7
  <2> QED BY <1>3, <2>1
<1>8. CASE p - q <= -1
  <2>1. c * (p - q) <= c * (-1)
    BY <1>8
  <2> QED BY <1>3, <2>1
<1> QED BY <1>4, <1>5, <1>6, <1>7, <1>8

KTypes ==
    /\ today \in 1 .. LastDay
    /\ state \in [next : Nat, last : Nat, index : Nat, reminded : Nat]
    /\ ledger \subseteq 1 .. today
    /\ order \in Seq(Nat)
    /\ req \in [Claims -> 0 .. today]
    /\ tick \in [Timers -> [at : {"idle", "slot", "send"}, day : Nat]]
    /\ sent \in [1 .. LastDay -> Nat]

\* The next of the cycle follows from the number of rewards, one for each row.
Cycles ==
    /\ Len(order) = Cardinality(ledger)
    /\ \A i \in 1 .. Len(order) : order[i] = ((i - 1) % Cycle) + 1
    /\ state.next = (Len(order) % Cycle) + 1

\* A tick is of today, one at most has the slot of the day, and whoever has
\* it has not sent yet.
Reminds ==
    /\ state.reminded <= today
    /\ \A d \in 1 .. LastDay : sent[d] <= 1 /\ (d > today => sent[d] = 0)
    /\ sent[today] > 0 => state.reminded = today
    /\ \A w \in Timers :
          /\ tick[w].at # "idle" => tick[w].day = today
          /\ tick[w].at = "send" =>
                /\ state.reminded = today /\ sent[today] = 0
                /\ \A v \in Timers : tick[v].at = "send" => v = w

\* With claims that commit on their day.
Shows ==
    ~ Spanning => /\ \A c \in Claims : req[c] # 0 => req[c] = today
                  /\ today \in ledger => state.last = today

KInv == KTypes /\ Cycles /\ Reminds /\ Shows

LEMMA KInitInv == KBounds /\ K!Init => KInv
<1> SUFFICES ASSUME KBounds, K!Init PROVE KInv
  OBVIOUS
<1> USE DEF K!Init, K!Fresh, K!Never, K!Days, KBounds
<1>1. KTypes
  BY DEF KTypes
<1>2. Cycles
  <2>1. 0 % Cycle = 0
    BY SMT
  <2>2. Len(order) = 0 /\ Cardinality(ledger) = 0 /\ state.next = 1
    BY FS_EmptySet
  <2> QED BY <2>1, <2>2 DEF Cycles
<1>3. Reminds
  BY DEF Reminds
<1>4. Shows
  BY DEF Shows
<1> QED BY <1>1, <1>2, <1>3, <1>4 DEF KInv

LEMMA KClaims ==
  ASSUME KBounds, KInv, NEW c \in Claims, K!Claim(c)
  PROVE  KInv'
<1>1. req' = [req EXCEPT ![c] = today] /\ UNCHANGED <<today, state, ledger, order, token, tick, sent>>
  BY DEF K!Claim
<1>2. KTypes'
  BY <1>1 DEF KInv, KTypes
<1>3. Cycles' /\ Reminds'
  BY <1>1 DEF KInv, Cycles, Reminds
<1>4. Shows'
  BY <1>1 DEF KInv, KTypes, Shows
<1> QED BY <1>2, <1>3, <1>4 DEF KInv

LEMMA KCommits ==
  ASSUME KBounds, KInv, NEW c \in Claims, K!Commit(c)
  PROVE  KInv'
<1>0. KTypes /\ Cycles /\ Reminds /\ Shows
  BY DEF KInv
<1>d. PICK d \in 1 .. today : d = req[c]
  <2>1. req[c] \in 0 .. today /\ req[c] # 0 /\ today \in Nat
    BY <1>0 DEF K!Commit, K!Never, KTypes
  <2> QED BY <2>1
<1>1. /\ req' = [req EXCEPT ![c] = 0]
      /\ IF state.last = d \/ d \in ledger
         THEN UNCHANGED <<state, ledger, order>>
         ELSE /\ ledger' = ledger \cup {d} /\ order' = Append(order, state.next)
              /\ state' = [state EXCEPT !.last = d, !.index = state.next, !.next = K!After(state.next)]
      /\ UNCHANGED <<today, token, tick, sent>>
  BY <1>d DEF K!Commit, K!Never
<1>2. CASE state.last = d \/ d \in ledger
  <2>1. UNCHANGED <<state, ledger, order, today, token, tick, sent>>
    BY <1>1, <1>2
  <2>2. KTypes'
    BY <1>0, <1>1, <2>1 DEF KTypes
  <2>3. Cycles' /\ Reminds'
    BY <1>0, <2>1 DEF Cycles, Reminds
  <2>4. Shows'
    BY <1>0, <1>1, <2>1 DEF KTypes, Shows
  <2> QED BY <2>2, <2>3, <2>4 DEF KInv
<1>3. CASE ~ (state.last = d \/ d \in ledger)
  <2>1. /\ ledger' = ledger \cup {d} /\ d \notin ledger /\ order' = Append(order, state.next)
        /\ state' = [state EXCEPT !.last = d, !.index = state.next, !.next = K!After(state.next)]
    BY <1>1, <1>3
  <2>2. K!After(state.next) \in Nat
    BY <1>0 DEF KTypes, K!After
  <2>3. /\ state' \in [next : Nat, last : Nat, index : Nat, reminded : Nat]
        /\ state'.last = d /\ state'.next = K!After(state.next) /\ state'.reminded = state.reminded
    <3>1. state' = [next |-> K!After(state.next), last |-> d, index |-> state.next,
                    reminded |-> state.reminded]
      BY <1>0, <2>1 DEF KTypes
    <3>2. d \in Nat /\ state.next \in Nat /\ state.reminded \in Nat
      BY <1>0 DEF KTypes
    <3> QED BY <2>2, <3>1, <3>2
  <2>4. KTypes'
    BY <1>0, <1>1, <2>1, <2>3 DEF KTypes
  <2>5. Cycles'
    <3> DEFINE n == Len(order)
    <3>1. n \in Nat /\ Len(order') = n + 1 /\ order'[n + 1] = state.next
          /\ \A i \in 1 .. n : order'[i] = order[i]
      BY <1>0, <2>1 DEF KTypes
    <3>2. IsFiniteSet(ledger)
      <4>1. IsFiniteSet(1 .. today)
        BY <1>0, FS_Interval DEF KTypes
      <4> QED BY <1>0, <4>1, FS_Subset DEF KTypes
    <3>3. Cardinality(ledger') = n + 1
      BY <1>0, <2>1, <3>2, FS_AddElement DEF Cycles
    <3>4. state.next = (n % Cycle) + 1 /\ n % Cycle \in 0 .. Cycle - 1
      BY <1>0, <3>1 DEF Cycles, KBounds
    <3>5. (n + 1) % Cycle = IF n % Cycle = Cycle - 1 THEN 0 ELSE (n % Cycle) + 1
      BY <3>1, NextInCycle DEF KBounds
    <3>6. state'.next = ((n + 1) % Cycle) + 1
      BY <2>3, <3>4, <3>5 DEF K!After, KBounds
    <3>7. \A i \in 1 .. n + 1 : order'[i] = ((i - 1) % Cycle) + 1
      <4> SUFFICES ASSUME NEW i \in 1 .. n + 1 PROVE order'[i] = ((i - 1) % Cycle) + 1
        OBVIOUS
      <4>1. CASE i = n + 1
        <5>1. i - 1 = n
          BY <3>1, <4>1
        <5> QED BY <3>1, <3>4, <4>1, <5>1
      <4>2. CASE i # n + 1
        <5>1. i \in 1 .. n
          BY <3>1, <4>2
        <5> QED BY <1>0, <3>1, <5>1 DEF Cycles
      <4> QED BY <4>1, <4>2
    <3> QED BY <3>1, <3>3, <3>6, <3>7 DEF Cycles
  <2>6. Reminds'
    BY <1>0, <1>1, <2>3 DEF Reminds
  <2>7. Shows'
    BY <1>0, <1>d, <1>1, <2>1, <2>3 DEF KTypes, Shows
  <2> QED BY <2>4, <2>5, <2>6, <2>7 DEF KInv
<1> QED BY <1>2, <1>3

\* A timer goes on; the claims and their rows stay.
LEMMA KTicks ==
  ASSUME KBounds, KInv, NEW w \in Timers, NEW at \in {"idle", "slot", "send"},
         tick' = [tick EXCEPT ![w] = [at |-> at, day |-> today]],
         NEW m \in Nat, state' = [state EXCEPT !.reminded = m], m <= today,
         NEW n \in {0, 1}, sent' = [sent EXCEPT ![today] = @ + n],
         sent[today] + n <= 1,
         sent[today] + n > 0 => m = today,
         \A v \in Timers \ {w} : tick[v].at = "send" => m = today /\ at # "send" /\ n = 0,
         at = "send" => m = today /\ sent[today] + n = 0,
         UNCHANGED <<today, ledger, order, req>>
  PROVE  KInv'
<1>0. KTypes /\ Cycles /\ Reminds /\ Shows
  BY DEF KInv
<1>1. state' = [next |-> state.next, last |-> state.last, index |-> state.index, reminded |-> m]
  BY <1>0 DEF KTypes
<1>2. today \in 1 .. LastDay /\ today \in Nat
  BY <1>0 DEF KTypes, KBounds
<1>3. /\ sent' \in [1 .. LastDay -> Nat] /\ sent'[today] = sent[today] + n
      /\ \A d \in 1 .. LastDay : d # today => sent'[d] = sent[d]
  BY <1>0, <1>2 DEF KTypes
<1>4. tick' \in [Timers -> [at : {"idle", "slot", "send"}, day : Nat]]
      /\ tick'[w].at = at /\ tick'[w].day = today
      /\ \A v \in Timers \ {w} : tick'[v] = tick[v]
  BY <1>0, <1>2 DEF KTypes
<1>5. KTypes'
  BY <1>0, <1>1, <1>3, <1>4 DEF KTypes
<1>6. Cycles' /\ Shows'
  BY <1>0, <1>1 DEF Cycles, Shows
<1>7. Reminds'
  <2>1. state'.reminded = m
    BY <1>1
  <2>2. \A d \in 1 .. LastDay : sent'[d] <= 1 /\ (d > today => sent'[d] = 0)
    BY <1>0, <1>2, <1>3 DEF Reminds
  <2>3. \A v \in Timers : tick'[v].at # "idle" => tick'[v].day = today
    BY <1>0, <1>4 DEF Reminds
  <2>4. \A v \in Timers : tick'[v].at = "send" =>
            /\ m = today /\ sent'[today] = 0
            /\ \A u \in Timers : tick'[u].at = "send" => u = v
    <3> SUFFICES ASSUME NEW v \in Timers, tick'[v].at = "send"
                 PROVE  /\ m = today /\ sent'[today] = 0
                        /\ \A u \in Timers : tick'[u].at = "send" => u = v
      OBVIOUS
    <3>1. CASE v = w
      BY <1>3, <1>4, <3>1
    <3>2. CASE v # w
      <4>1. tick[v].at = "send" /\ m = today /\ at # "send" /\ n = 0
        BY <1>4, <3>2
      <4>2. sent[today] = 0 /\ \A u \in Timers : tick[u].at = "send" => u = v
        BY <1>0, <4>1 DEF Reminds
      <4> QED BY <1>3, <1>4, <4>1, <4>2
    <3> QED BY <3>1, <3>2
  <2> QED BY <1>3, <2>1, <2>2, <2>3, <2>4 DEF Reminds
<1> QED BY <1>5, <1>6, <1>7 DEF KInv

LEMMA TickTo ==
  ASSUME KTypes, NEW w \in Timers, NEW at, tick[w].day = today
  PROVE  [tick EXCEPT ![w].at = at] = [tick EXCEPT ![w] = [at |-> at, day |-> today]]
<1>1. tick[w] \in [at : {"idle", "slot", "send"}, day : Nat]
  BY DEF KTypes
<1>2. [tick[w] EXCEPT !.at = at] = [at |-> at, day |-> today]
  BY <1>1
<1>3. [tick EXCEPT ![w].at = at] = [tick EXCEPT ![w] = [tick[w] EXCEPT !.at = at]]
  BY DEF KTypes
<1> QED BY <1>2, <1>3

LEMMA KFinds ==
  ASSUME KBounds, KInv, NEW w \in Timers, K!Find(w)
  PROVE  KInv'
<1>0. KTypes /\ Reminds
  BY DEF KInv
<1> DEFINE m == state.reminded
<1>1. m \in Nat /\ m <= today /\ state' = [state EXCEPT !.reminded = m]
  BY <1>0 DEF K!Find, KTypes, Reminds
<1>2. sent' = [sent EXCEPT ![today] = @ + 0] /\ sent[today] \in Nat
  BY <1>0 DEF K!Find, KTypes
<1>3. sent[today] + 0 <= 1 /\ (sent[today] + 0 > 0 => m = today)
  BY <1>0, <1>2 DEF KTypes, Reminds
<1>4. tick' = [tick EXCEPT ![w] = [at |-> "slot", day |-> today]] /\ UNCHANGED <<today, ledger, order, req>>
  BY DEF K!Find
<1>5. \A v \in Timers \ {w} : tick[v].at = "send" => m = today
  BY <1>0 DEF Reminds
<1> HIDE DEF m
<1> QED BY <1>1, <1>2, <1>3, <1>4, <1>5, KTicks

\* claimReminderSlot: one worker at most wins the day.
LEMMA KSlots ==
  ASSUME KBounds, KInv, NEW w \in Timers, K!Slot(w)
  PROVE  KInv'
<1>0. KTypes /\ Reminds
  BY DEF KInv
<1>1. tick[w].at = "slot" /\ tick[w].day = today /\ today \in Nat
  BY <1>0 DEF K!Slot, Reminds, KTypes, KBounds
<1>2. sent' = [sent EXCEPT ![today] = @ + 0] /\ sent[today] \in Nat /\ UNCHANGED <<today, ledger, order, req>>
  BY <1>0 DEF K!Slot, KTypes
<1>3. \A at \in {"idle", "send"} :
        [tick EXCEPT ![w].at = at] = [tick EXCEPT ![w] = [at |-> at, day |-> today]]
  BY <1>0, <1>1, TickTo
<1>4. CASE K!Eligible(today)
  <2>1. state.reminded # today /\ sent[today] = 0 /\ \A v \in Timers : tick[v].at # "send"
    BY <1>0, <1>2, <1>4 DEF K!Eligible, Reminds
  <2>2. state' = [state EXCEPT !.reminded = today]
        /\ tick' = [tick EXCEPT ![w] = [at |-> "send", day |-> today]]
    BY <1>1, <1>3, <1>4 DEF K!Slot
  <2>3. sent[today] + 0 <= 1 /\ sent[today] + 0 = 0 /\ today <= today /\ ~ (sent[today] + 0 > 0)
    BY <1>1, <2>1
  <2>4. \A v \in Timers \ {w} : ~ (tick[v].at = "send")
    BY <2>1
  <2> QED BY <1>1, <1>2, <2>2, <2>3, <2>4, KTicks
<1>5. CASE ~ K!Eligible(today)
  <2> DEFINE m == state.reminded
  <2>1. m \in Nat /\ m <= today /\ state' = [state EXCEPT !.reminded = m]
    BY <1>0, <1>1, <1>5 DEF K!Slot, KTypes, Reminds
  <2>2. tick' = [tick EXCEPT ![w] = [at |-> "idle", day |-> today]]
    BY <1>1, <1>3, <1>5 DEF K!Slot
  <2>3. sent[today] + 0 <= 1 /\ (sent[today] + 0 > 0 => m = today)
    BY <1>0, <1>2 DEF KTypes, Reminds
  <2>4. \A v \in Timers \ {w} : tick[v].at = "send" => m = today
    BY <1>0 DEF Reminds
  <2> HIDE DEF m
  <2> QED BY <1>2, <2>1, <2>2, <2>3, <2>4, KTicks
<1> QED BY <1>4, <1>5

LEMMA KSends ==
  ASSUME KBounds, KInv, NEW w \in Timers, K!Send(w)
  PROVE  KInv'
<1>0. KTypes /\ Reminds
  BY DEF KInv
<1>1. tick[w].at = "send" /\ tick[w].day = today /\ state.reminded = today /\ sent[today] = 0
      /\ \A v \in Timers \ {w} : tick[v].at # "send"
  BY <1>0 DEF K!Send, Reminds
<1>2. tick' = [tick EXCEPT ![w] = [at |-> "idle", day |-> today]]
  BY <1>0, <1>1, TickTo DEF K!Send
<1>3. PICK n \in {0, 1} : sent' = [sent EXCEPT ![today] = @ + n]
  BY <1>1 DEF K!Send
<1>4. today \in Nat /\ state' = [state EXCEPT !.reminded = today] /\ UNCHANGED <<today, ledger, order, req>>
  BY <1>0, <1>1 DEF K!Send, KTypes, KBounds
<1>5. sent[today] + n <= 1 /\ today <= today
  BY <1>1, <1>4
<1>6. \A v \in Timers \ {w} : ~ (tick[v].at = "send")
  BY <1>1
<1> QED BY <1>2, <1>3, <1>4, <1>5, <1>6, KTicks

LEMMA KMidnight ==
  ASSUME KBounds, KInv, K!Midnight
  PROVE  KInv'
<1>0. KTypes /\ Cycles /\ Reminds /\ Shows
  BY DEF KInv
<1>1. /\ today \in Nat /\ today' = today + 1 /\ today' \in 1 .. LastDay
      /\ UNCHANGED <<state, ledger, order, req, tick, sent>>
      /\ \A w \in Timers : tick[w].at = "idle"
      /\ Spanning \/ \A c \in Claims : req[c] = 0
  BY <1>0 DEF K!Midnight, K!Never, KTypes, KBounds
<1>2. KTypes'
  BY <1>0, <1>1 DEF KTypes
<1>3. Cycles'
  BY <1>0, <1>1 DEF Cycles
<1>4. Reminds'
  BY <1>0, <1>1 DEF Reminds, KTypes
<1>5. Shows'
  BY <1>0, <1>1 DEF Shows, KTypes
<1> QED BY <1>2, <1>3, <1>4, <1>5 DEF KInv

LEMMA KStutterInv == KInv /\ UNCHANGED K!vars => KInv'
  BY DEF K!vars, KInv, KTypes, Cycles, Reminds, Shows

LEMMA KStepInv == KBounds /\ KInv /\ K!Next => KInv'
<1> SUFFICES ASSUME KBounds, KInv, K!Next PROVE KInv'
  OBVIOUS
<1>1. CASE K!Token
  BY <1>1 DEF K!Token, KInv, KTypes, Cycles, Reminds, Shows
<1> QED BY <1>1, KClaims, KCommits, KFinds, KSlots, KSends, KMidnight DEF K!Next

LEMMA KSays ==
  ASSUME KInv
  PROVE  K!OnceADay /\ K!InCycle /\ K!RemindedOnce /\ (~ Spanning => K!ClaimedShows)
<1>1. K!OnceADay
  BY DEF KInv, Cycles, K!OnceADay, K!Cardinality, Cardinality, K!IsFiniteSet, IsFiniteSet
<1>2. K!InCycle
  <2>1. DOMAIN order = 1 .. Len(order)
    BY DEF KInv, KTypes
  <2> QED BY <2>1 DEF KInv, Cycles, K!InCycle
<1>3. K!RemindedOnce
  BY DEF KInv, Reminds, K!RemindedOnce, K!Days
<1>4. ~ Spanning => K!ClaimedShows
  BY DEF KInv, Shows, K!ClaimedShows
<1> QED BY <1>1, <1>2, <1>3, <1>4

\* A day is paid at most once and the rewards follow the cycle, also when
\* claims commit over midnight and in another order (claimDailyCheckIn).
THEOREM CheckinTheorem == ASSUME KBounds PROVE K!Spec => [](K!OnceADay /\ K!InCycle)
<1> QED BY KInitInv, KStepInv, KStutterInv, KSays, PTL DEF K!Spec

\* However many workers run the reminder job, a user gets one message a day
\* at most (claimReminderSlot).
THEOREM ReminderTheorem == ASSUME KBounds PROVE K!Spec => []K!RemindedOnce
<1> QED BY KInitInv, KStepInv, KStutterInv, KSays, PTL DEF K!Spec

\* With claims that commit on their day, a paid day shows as claimed
\* (getCheckInStatusForUser).
THEOREM ClaimedTheorem == ASSUME KBounds, ~ Spanning PROVE K!Spec => []K!ClaimedShows
<1> QED BY KInitInv, KStepInv, KStutterInv, KSays, PTL DEF K!Spec

-----------------------------------------------------------------------------
(* The missions *)

\* The missions that pay once have names of their own.
Single == {"follow_creators", "first_message", "first_recharge"}

MBounds ==
    /\ LastDay \in Nat /\ Target \in Nat
    /\ IsFiniteSet(Moments)
    /\ Daily \cap Single = {}

MDays == 0 .. LastDay
Buckets == [day : 0 .. LastDay + 1, ids : [Daily -> SUBSET Moments], flag : SUBSET Daily]
HookPoints ==
    {"idle", "date", "reset", "add", "read", "try", "payDaily", "follow", "tryFollow", "count", "payOnce"}
HookRecords ==
    [at : HookPoints, task : Daily \cup Single \cup {""}, id : Moments \cup Creators \cup {""},
     day : MDays]

MTypes ==
    /\ today \in MDays
    /\ daily \in Buckets
    /\ paid \in [M!Rows -> Nat]
    /\ did \in [Daily \X MDays -> SUBSET Moments]
    /\ late \in [Daily \X MDays -> SUBSET Moments]
    /\ M!Earned \in [Daily \X MDays -> SUBSET Moments]
    /\ hook \in [Hooks -> HookRecords]

\* What a hook is about to count counts for the day it keeps, and what it is
\* about to pay was earned for that day.
Sound(k) ==
    /\ k.at \in {"date", "reset", "add"} => k.task \in Daily /\ k.id \in M!Earned[<<k.task, k.day>>]
    /\ k.at \in {"read", "try", "payDaily"} => k.task \in Daily
    /\ k.at = "payDaily" => M!Cardinality(M!Earned[<<k.task, k.day>>]) >= Target
    /\ k.at \in {"follow", "tryFollow", "count", "payOnce"} => k.task \in Single

HooksSound == \A h \in Hooks : Sound(hook[h])

\* The bucket of a day holds what counts for that day.
Counted == daily.day \in MDays => \A t \in Daily : daily.ids[t] \subseteq M!Earned[<<t, daily.day>>]

\* With hooks that end before midnight.
OnTheirDay == ~ Spanning => \A h \in Hooks : hook[h].at # "idle" => hook[h].day = today

MInv == MTypes /\ HooksSound /\ Counted /\ OnTheirDay /\ M!PaidOnce /\ M!PaidIsEarned

LEMMA MSame == UNCHANGED <<did, late>> => M!Earned' = M!Earned
  BY DEF M!Earned

LEMMA MCount ==
  ASSUME NEW S, IsFiniteSet(S), NEW U \in SUBSET S
  PROVE  M!Cardinality(U) \in Nat /\ M!Cardinality(S) \in Nat /\ M!Cardinality(U) <= M!Cardinality(S)
<1>1. Cardinality(U) \in Nat /\ Cardinality(S) \in Nat /\ Cardinality(U) <= Cardinality(S)
  BY FS_Subset, FS_CardinalityType
<1>2. M!Cardinality(U) = Cardinality(U) /\ M!Cardinality(S) = Cardinality(S)
  BY DEF M!Cardinality, Cardinality, M!IsFiniteSet, IsFiniteSet
<1> QED BY <1>1, <1>2

\* The number of moments done on a day only grows.
LEMMA MGrows ==
  ASSUME MBounds, NEW A \in SUBSET Moments, NEW B \in SUBSET Moments, A \subseteq B, M!Cardinality(A) >= Target
  PROVE  M!Cardinality(B) >= Target
<1>1. IsFiniteSet(B)
  BY FS_Subset DEF MBounds
<1>2. M!Cardinality(A) \in Nat /\ M!Cardinality(B) \in Nat /\ M!Cardinality(A) <= M!Cardinality(B)
  BY <1>1, MCount
<1> QED BY <1>2 DEF MBounds

LEMMA MEnds == MBounds => M!Idle \in HookRecords /\ M!Idle.at = "idle" /\ Sound(M!Idle)
  BY DEF MBounds, M!Idle, HookRecords, HookPoints, MDays, Sound

LEMMA MInitInv == MBounds /\ M!Init => MInv
<1> SUFFICES ASSUME MBounds, M!Init PROVE MInv
  OBVIOUS
<1> USE DEF M!Days, MDays, MBounds
<1>i. /\ today = 0 /\ daily = M!Bucket(LastDay + 1) /\ ledger = {}
      /\ paid = [x \in M!Rows |-> 0]
      /\ did = [x \in Daily \X MDays |-> {}] /\ late = [x \in Daily \X MDays |-> {}]
      /\ hook = [h \in Hooks |-> M!Idle]
  BY DEF M!Init
<1>1. MTypes
  <2>1. daily \in Buckets
    BY <1>i DEF Buckets, M!Bucket
  <2>2. today \in MDays
    BY <1>i
  <2>3. paid \in [M!Rows -> Nat] /\ did \in [Daily \X MDays -> SUBSET Moments]
          /\ late \in [Daily \X MDays -> SUBSET Moments]
    BY <1>i
  <2>5. M!Earned \in [Daily \X MDays -> SUBSET Moments]
    BY <2>3 DEF M!Earned
  <2>4. hook \in [Hooks -> HookRecords]
    BY <1>i, MEnds
  <2> QED BY <2>1, <2>2, <2>3, <2>4, <2>5 DEF MTypes
<1>2. HooksSound
  BY <1>i, MEnds DEF HooksSound
<1>3. Counted
  BY <1>i DEF Counted, M!Bucket
<1>4. OnTheirDay
  BY <1>i, MEnds DEF OnTheirDay
<1>5. M!PaidOnce
  BY <1>i DEF M!PaidOnce
<1>6. M!PaidIsEarned
  <2>1. \A t \in Daily, d \in MDays : paid[<<t, d>>] = 0
    BY <1>i DEF M!Rows
  <2>2. ASSUME NEW t \in Daily, NEW d \in MDays PROVE ~ (paid[<<t, d>>] > 0)
    <3>1. paid[<<t, d>>] = 0
      BY <2>1
    <3> QED BY <3>1
  <2> QED BY <2>2 DEF M!PaidIsEarned
<1> QED BY <1>1, <1>2, <1>3, <1>4, <1>5, <1>6 DEF MInv

\* One hook goes on, what was done grows, and the bucket, the rows and the
\* credits change as the hypotheses say.
LEMMA MKeeps ==
  ASSUME MBounds, MInv, NEW h \in Hooks, NEW j \in HookRecords,
         hook' = [hook EXCEPT ![h] = j], today' = today,
         did' \in [Daily \X MDays -> SUBSET Moments], late' \in [Daily \X MDays -> SUBSET Moments],
         \A x \in Daily \X MDays : M!Earned[x] \subseteq M!Earned'[x],
         Sound(j)', ~ Spanning /\ j.at # "idle" => j.day = today,
         daily' \in Buckets, Counted',
         paid' \in [M!Rows -> Nat], M!PaidOnce', M!PaidIsEarned'
  PROVE  MInv'
<1>0. MTypes /\ HooksSound /\ OnTheirDay
  BY DEF MInv
<1>1. hook' \in [Hooks -> HookRecords] /\ hook'[h] = j /\ \A g \in Hooks \ {h} : hook'[g] = hook[g]
  BY <1>0 DEF MTypes
<1>e. M!Earned' \in [Daily \X MDays -> SUBSET Moments]
  BY DEF M!Earned, M!Days, MDays
<1>2. MTypes'
  BY <1>0, <1>1, <1>e DEF MTypes
<1>3. HooksSound'
  <2> SUFFICES ASSUME NEW g \in Hooks, g # h PROVE Sound(hook[g])'
    BY <1>1 DEF HooksSound, Sound
  <2>1. hook'[g] = hook[g] /\ hook[g] \in HookRecords /\ Sound(hook[g])
    BY <1>0, <1>1 DEF MTypes, HooksSound
  <2>2. ASSUME hook[g].at \in {"date", "reset", "add"}
        PROVE  hook[g].task \in Daily /\ hook[g].id \in M!Earned'[<<hook[g].task, hook[g].day>>]
    <3>1. <<hook[g].task, hook[g].day>> \in Daily \X MDays
      BY <2>1, <2>2 DEF Sound, HookRecords
    <3> QED BY <2>1, <2>2, <3>1 DEF Sound
  <2>3. ASSUME hook[g].at = "payDaily"
        PROVE  M!Cardinality(M!Earned'[<<hook[g].task, hook[g].day>>]) >= Target
    <3>1. <<hook[g].task, hook[g].day>> \in Daily \X MDays
      BY <2>1, <2>3 DEF Sound, HookRecords
    <3>2. /\ M!Earned[<<hook[g].task, hook[g].day>>] \in SUBSET Moments
          /\ M!Earned'[<<hook[g].task, hook[g].day>>] \in SUBSET Moments
          /\ M!Earned[<<hook[g].task, hook[g].day>>] \subseteq M!Earned'[<<hook[g].task, hook[g].day>>]
      BY <1>0, <1>e, <3>1 DEF MTypes
    <3>3. M!Cardinality(M!Earned[<<hook[g].task, hook[g].day>>]) >= Target
      BY <2>1, <2>3 DEF Sound
    <3> QED BY <3>2, <3>3, MGrows
  <2> QED BY <2>1, <2>2, <2>3 DEF Sound
<1>4. OnTheirDay'
  BY <1>0, <1>1 DEF OnTheirDay
<1> QED BY <1>2, <1>3, <1>4 DEF MInv

\* Only the hook changes.
LEMMA MMoves ==
  ASSUME MBounds, MInv, NEW h \in Hooks, NEW j \in HookRecords,
         hook' = [hook EXCEPT ![h] = j], Sound(j), ~ Spanning /\ j.at # "idle" => j.day = today,
         UNCHANGED <<today, daily, ledger, paid, did, late>>
  PROVE  MInv'
<1>1. Sound(j)'
  BY MSame DEF Sound
<1>2. /\ daily' \in Buckets /\ paid' \in [M!Rows -> Nat]
      /\ did' \in [Daily \X MDays -> SUBSET Moments] /\ late' \in [Daily \X MDays -> SUBSET Moments]
      /\ \A x \in Daily \X MDays : M!Earned[x] \subseteq M!Earned'[x]
  BY MSame DEF MInv, MTypes
<1>3. Counted' /\ M!PaidOnce' /\ M!PaidIsEarned'
  BY MSame DEF MInv, Counted, M!PaidOnce, M!PaidIsEarned
<1> QED BY <1>1, <1>2, <1>3, MKeeps

LEMMA MGoes ==
  ASSUME MInv, NEW h \in Hooks, NEW at \in HookPoints, M!Goes(h, at)
  PROVE  \E j \in HookRecords :
            /\ hook' = [hook EXCEPT ![h] = j] /\ j.at = at
            /\ j.task = hook[h].task /\ j.id = hook[h].id /\ j.day = hook[h].day
<1>1. hook \in [Hooks -> HookRecords]
  BY DEF MInv, MTypes
<1>2. PICK k \in HookRecords : k = hook[h]
  BY <1>1
<1>6. k = [at |-> k.at, task |-> k.task, id |-> k.id, day |-> k.day]
  BY DEF HookRecords
<1>3. [k EXCEPT !.at = at] = [at |-> at, task |-> k.task, id |-> k.id, day |-> k.day]
  BY <1>6
<1>4. [at |-> at, task |-> k.task, id |-> k.id, day |-> k.day] \in HookRecords
  BY DEF HookRecords
<1>5. hook' = [hook EXCEPT ![h] = [k EXCEPT !.at = at]]
  BY <1>1, <1>2 DEF M!Goes
<1> QED BY <1>2, <1>3, <1>4, <1>5

\* A hook is forgotten or ends.
LEMMA MLoses ==
  ASSUME MBounds, MInv, NEW h \in Hooks, M!Ends(h), UNCHANGED <<today, daily, ledger, paid, did, late>>
  PROVE  MInv'
<1>1. hook' = [hook EXCEPT ![h] = M!Idle]
  BY DEF M!Ends
<1> QED BY <1>1, MEnds, MMoves

LEMMA MStarts ==
  ASSUME MBounds, MInv, NEW h \in Hooks,
         NEW at \in {"try", "follow", "tryFollow", "count", "payOnce"},
         NEW t \in Daily \cup Single, NEW id \in Creators \cup {""}, M!Starts(h, at, t, id),
         at = "try" => t \in Daily, at # "try" => t \in Single,
         UNCHANGED <<today, daily, ledger, paid, did, late>>
  PROVE  MInv'
<1> DEFINE j == [at |-> at, task |-> t, id |-> id, day |-> today]
<1>1. hook' = [hook EXCEPT ![h] = j]
  BY DEF M!Starts
<1>2. j \in HookRecords
  BY DEF MInv, MTypes, HookRecords, HookPoints
<1>3. Sound(j)
  BY DEF Sound
<1>4. j.day = today
  OBVIOUS
<1> HIDE DEF j
<1> QED BY <1>1, <1>2, <1>3, <1>4, MMoves

\* Hooks of missions that pay once, and claims, begin.
LEMMA MEnters ==
  ASSUME MBounds, MInv, NEW h \in Hooks,
         \/ M!Message(h) \/ M!Buy(h) \/ \E c \in Creators : M!Follow(h, c)
         \/ \E t \in Daily \cup (Once \cap {"follow_creators"}) : M!ClaimTask(h, t)
  PROVE  MInv'
<1>1. CASE M!Message(h)
  BY <1>1, MStarts DEF M!Message, M!wallet, M!user, Single
<1>2. CASE M!Buy(h)
  BY <1>2, MStarts DEF M!Buy, M!wallet, Single
<1>3. ASSUME NEW c \in Creators, M!Follow(h, c) PROVE MInv'
  BY <1>3, MStarts DEF M!Follow, M!wallet, M!user, Single
<1>4. ASSUME NEW t \in Daily, M!ClaimTask(h, t) PROVE MInv'
  <2>1. M!Starts(h, "try", t, "") /\ UNCHANGED <<today, daily, ledger, paid, did, late>>
    BY <1>4 DEF M!ClaimTask, M!wallet
  <2> QED BY <2>1, MStarts
<1>5. ASSUME M!ClaimTask(h, "follow_creators"), "follow_creators" \notin Daily PROVE MInv'
  <2>1. M!Starts(h, "tryFollow", "follow_creators", "") /\ UNCHANGED <<today, daily, ledger, paid, did, late>>
    BY <1>5 DEF M!ClaimTask, M!wallet
  <2> QED BY <2>1, MStarts DEF Single
<1> QED BY <1>1, <1>2, <1>3, <1>4, <1>5

\* A hook that changes nothing but itself.
LEMMA MLooks ==
  ASSUME MBounds, MInv, NEW h \in Hooks,
         M!Read(h) \/ M!FollowAdd(h) \/ M!TryFollow(h) \/ M!Count(h) \/ M!Lost(h)
  PROVE  MInv'
<1>1. UNCHANGED <<today, daily, ledger, paid, did, late>>
  BY DEF M!Read, M!FollowAdd, M!TryFollow, M!Count, M!Lost, M!wallet, M!user
<1>2. CASE M!Ends(h)
  BY <1>1, <1>2, MLoses
<1>3. ASSUME NEW at \in {"try", "tryFollow", "payOnce"}, M!Goes(h, at),
             at = "try" => hook[h].task \in Daily, at # "try" => hook[h].task \in Single,
             hook[h].at # "idle"
      PROVE  MInv'
  <2>1. PICK j \in HookRecords : /\ hook' = [hook EXCEPT ![h] = j] /\ j.at = at
                                 /\ j.task = hook[h].task /\ j.id = hook[h].id /\ j.day = hook[h].day
    BY <1>3, MGoes DEF HookPoints
  <2>2. Sound(j)
    BY <1>3, <2>1 DEF Sound
  <2>3. ~ Spanning => j.day = today
    BY <1>3, <2>1 DEF MInv, OnTheirDay
  <2> QED BY <1>1, <2>1, <2>2, <2>3, MMoves
<1>4. Sound(hook[h])
  BY DEF MInv, HooksSound
<1>5. CASE M!Read(h)
  BY <1>2, <1>3, <1>4, <1>5 DEF M!Read, Sound
<1>6. CASE M!FollowAdd(h)
  BY <1>3, <1>4, <1>6 DEF M!FollowAdd, Sound
<1>7. CASE M!TryFollow(h)
  BY <1>2, <1>3, <1>4, <1>7 DEF M!TryFollow, Sound
<1>8. CASE M!Count(h)
  BY <1>2, <1>3, <1>4, <1>8 DEF M!Count, Sound
<1>9. CASE M!Lost(h)
  BY <1>2, <1>9 DEF M!Lost
<1> QED BY <1>5, <1>6, <1>7, <1>8, <1>9

LEMMA MTries ==
  ASSUME MBounds, MInv, NEW h \in Hooks, M!TryDaily(h)
  PROVE  MInv'
<1>0. MTypes /\ HooksSound /\ Counted
  BY DEF MInv
<1>1. UNCHANGED <<today, daily, ledger, paid, did, late>>
  BY DEF M!TryDaily, M!wallet, M!user
<1>2. CASE M!Ends(h)
  BY <1>1, <1>2, MLoses
<1>3. CASE /\ daily.day = today /\ M!Reached(hook[h].task)
           /\ hook' = [hook EXCEPT ![h].at = "payDaily", ![h].day = today]
  <2>1. PICK k \in HookRecords : k = hook[h] /\ k.task \in Daily
    BY <1>0 DEF M!TryDaily, MTypes, HooksSound, Sound
  <2> DEFINE j == [at |-> "payDaily", task |-> k.task, id |-> k.id, day |-> today]
  <2>2. k = [at |-> k.at, task |-> k.task, id |-> k.id, day |-> k.day]
    BY DEF HookRecords
  <2>3. [k EXCEPT !.at = "payDaily", !.day = today] = j
    <3>1. [k EXCEPT !.at = "payDaily"] = [at |-> "payDaily", task |-> k.task, id |-> k.id, day |-> k.day]
      BY <2>2
    <3>2. [k EXCEPT !.at = "payDaily", !.day = today] = [[k EXCEPT !.at = "payDaily"] EXCEPT !.day = today]
      BY DEF HookRecords
    <3>3. [[at |-> "payDaily", task |-> k.task, id |-> k.id, day |-> k.day] EXCEPT !.day = today] = j
      OBVIOUS
    <3> QED BY <3>1, <3>2, <3>3
  <2>4. hook' = [hook EXCEPT ![h] = [k EXCEPT !.at = "payDaily", !.day = today]]
    BY <1>0, <1>3, <2>1 DEF MTypes
  <2>5. j \in HookRecords /\ j.at = "payDaily" /\ j.task = k.task /\ j.day = today
    BY <1>0 DEF MTypes, HookRecords, HookPoints
  <2>6. M!Cardinality(M!Earned[<<k.task, today>>]) >= Target
    <3>1. M!Cardinality(daily.ids[k.task]) >= Target
      BY <1>3, <2>1 DEF M!Reached
    <3>2. /\ daily.ids[k.task] \in SUBSET Moments /\ M!Earned[<<k.task, today>>] \in SUBSET Moments
          /\ daily.ids[k.task] \subseteq M!Earned[<<k.task, today>>]
      BY <1>0, <1>3, <2>1 DEF MTypes, Counted, Buckets
    <3> QED BY <3>1, <3>2, MGrows
  <2>7. Sound(j)
    BY <2>1, <2>5, <2>6 DEF Sound
  <2> HIDE DEF j
  <2> QED BY <1>1, <2>3, <2>4, <2>5, <2>7, MMoves
<1> QED BY <1>2, <1>3 DEF M!TryDaily

\* What counts for a day only grows, and a hook goes on.
LEMMA MEarns ==
  ASSUME MBounds, MInv, NEW h \in Hooks, NEW j \in HookRecords,
         hook' = [hook EXCEPT ![h] = j], UNCHANGED <<today, daily, ledger, paid>>,
         did' \in [Daily \X MDays -> SUBSET Moments], late' \in [Daily \X MDays -> SUBSET Moments],
         \A x \in Daily \X MDays : M!Earned[x] \subseteq M!Earned'[x],
         Sound(j)', j.day = today
  PROVE  MInv'
<1>0. MTypes /\ Counted /\ M!PaidOnce /\ M!PaidIsEarned
  BY DEF MInv
<1>e. M!Earned' \in [Daily \X MDays -> SUBSET Moments]
  BY DEF M!Earned, M!Days, MDays
<1>6. Counted' /\ daily' \in Buckets
  <2>1. daily.day \in MDays => \A s \in Daily : <<s, daily.day>> \in Daily \X MDays
    OBVIOUS
  <2> QED BY <1>0, <2>1 DEF Counted, MTypes
<1>7. M!PaidOnce' /\ paid' \in [M!Rows -> Nat]
  BY <1>0 DEF M!PaidOnce, MTypes
<1>8. M!PaidIsEarned'
  <2> SUFFICES ASSUME NEW s \in Daily, NEW d \in MDays, paid[<<s, d>>] > 0
               PROVE  M!Cardinality(M!Earned'[<<s, d>>]) >= Target
    BY DEF M!PaidIsEarned, M!Days, MDays
  <2>1. M!Cardinality(M!Earned[<<s, d>>]) >= Target
    BY <1>0 DEF M!PaidIsEarned, M!Days, MDays
  <2>2. <<s, d>> \in Daily \X MDays
    OBVIOUS
  <2>3. /\ M!Earned[<<s, d>>] \in SUBSET Moments /\ M!Earned'[<<s, d>>] \in SUBSET Moments
        /\ M!Earned[<<s, d>>] \subseteq M!Earned'[<<s, d>>]
    BY <1>0, <1>e, <2>2 DEF MTypes
  <2> QED BY <2>1, <2>3, MGrows
<1> QED BY <1>6, <1>7, <1>8, MKeeps

\* A moment is seen or liked.
LEMMA MSees ==
  ASSUME MBounds, MInv, NEW h \in Hooks, NEW t \in Daily, NEW m \in Moments, M!See(h, t, m)
  PROVE  MInv'
<1>0. MTypes
  BY DEF MInv
<1>1. /\ hook' = [hook EXCEPT ![h] = [at |-> "date", task |-> t, id |-> m, day |-> today]]
      /\ did' = [did EXCEPT ![<<t, today>>] = @ \cup {m}]
      /\ UNCHANGED <<today, daily, ledger, paid, late>>
  BY DEF M!See, M!Starts, M!wallet
<1>j. PICK j \in HookRecords : j = [at |-> "date", task |-> t, id |-> m, day |-> today]
  BY <1>0 DEF MTypes, HookRecords, HookPoints
<1>2. j.at = "date" /\ j.task = t /\ j.id = m /\ j.day = today
  BY <1>j
<1>3. <<t, today>> \in Daily \X MDays
  BY <1>0 DEF MTypes
<1>4. /\ did' \in [Daily \X MDays -> SUBSET Moments] /\ late' \in [Daily \X MDays -> SUBSET Moments]
      /\ \A x \in Daily \X MDays : did[x] \subseteq did'[x]
      /\ m \in did'[<<t, today>>]
  BY <1>0, <1>1, <1>3 DEF MTypes
<1>5. \A x \in Daily \X MDays : M!Earned[x] \subseteq M!Earned'[x]
  BY <1>1, <1>4 DEF M!Earned, M!Days, MDays
<1>6. Sound(j)'
  BY <1>2, <1>3, <1>4 DEF Sound, M!Earned, M!Days, MDays
<1> QED BY <1>1, <1>j, <1>2, <1>4, <1>5, <1>6, MEarns

\* The date is read: today, which may be later than the deed.
LEMMA MReadsDate ==
  ASSUME MBounds, MInv, NEW h \in Hooks, M!ReadDate(h)
  PROVE  MInv'
<1>0. MTypes /\ HooksSound
  BY DEF MInv
<1>1. PICK k \in HookRecords : /\ k = hook[h] /\ k.at = "date" /\ k.task \in Daily
                              /\ k.id \in M!Earned[<<k.task, k.day>>]
  BY <1>0 DEF M!ReadDate, MTypes, HooksSound, Sound
<1>m. <<k.task, k.day>> \in Daily \X MDays /\ k.id \in Moments
  <2>1. <<k.task, k.day>> \in Daily \X MDays
    BY <1>1 DEF HookRecords
  <2> QED BY <1>0, <1>1, <2>1 DEF MTypes
<1>2. /\ hook' = [hook EXCEPT ![h] = [at |-> "reset", task |-> k.task, id |-> k.id, day |-> today]]
      /\ \/ k.day = today /\ late' = late
         \/ late' = [late EXCEPT ![<<k.task, today>>] = @ \cup {k.id}]
      /\ UNCHANGED <<today, daily, ledger, paid, did>>
  BY <1>1 DEF M!ReadDate, M!wallet
<1>j. PICK j \in HookRecords : j = [at |-> "reset", task |-> k.task, id |-> k.id, day |-> today]
  BY <1>0, <1>1, <1>m DEF MTypes, HookRecords, HookPoints
<1>3. j.at = "reset" /\ j.task = k.task /\ j.id = k.id /\ j.day = today
  BY <1>j
<1>4. <<k.task, today>> \in Daily \X MDays
  BY <1>0, <1>1 DEF MTypes
<1>5. /\ did' \in [Daily \X MDays -> SUBSET Moments] /\ late' \in [Daily \X MDays -> SUBSET Moments]
      /\ \A x \in Daily \X MDays : late[x] \subseteq late'[x]
  BY <1>0, <1>1, <1>2, <1>4, <1>m DEF MTypes
<1>6. \A x \in Daily \X MDays : M!Earned[x] \subseteq M!Earned'[x]
  BY <1>2, <1>5 DEF M!Earned, M!Days, MDays
<1>7. k.id \in M!Earned'[<<k.task, today>>]
  <2>1. CASE k.day = today /\ late' = late
    BY <1>1, <1>2, <1>4, <1>6, <2>1
  <2>2. CASE late' = [late EXCEPT ![<<k.task, today>>] = @ \cup {k.id}]
    BY <1>0, <1>4, <2>2 DEF MTypes, M!Earned, M!Days, MDays
  <2> QED BY <1>2, <2>1, <2>2
<1>8. Sound(j)'
  BY <1>1, <1>2, <1>3, <1>7 DEF Sound
<1> QED BY <1>2, <1>j, <1>3, <1>5, <1>6, <1>8, MEarns

\* The bucket of the hook's day, an empty one if there was another.
LEMMA FreshBucket ==
  ASSUME MBounds, NEW d \in MDays
  PROVE  /\ M!Bucket(d) \in Buckets /\ M!Bucket(d).day = d
         /\ M!Bucket(d).flag = {} /\ \A t \in Daily : M!Bucket(d).ids[t] = {}
  BY DEF M!Bucket, Buckets, MDays, MBounds

LEMMA MResets ==
  ASSUME MBounds, MInv, NEW h \in Hooks, M!Reset(h)
  PROVE  MInv'
<1>0. MTypes /\ HooksSound /\ Counted /\ OnTheirDay /\ M!PaidOnce /\ M!PaidIsEarned
  BY DEF MInv
<1>1. PICK j \in HookRecords : /\ hook' = [hook EXCEPT ![h] = j] /\ j.at = "add"
                               /\ j.task = hook[h].task /\ j.id = hook[h].id /\ j.day = hook[h].day
  BY MGoes DEF M!Reset, HookPoints
<1>2. /\ UNCHANGED <<today, ledger, paid, did, late>> /\ j.day \in MDays
      /\ daily' = daily \/ daily' = M!Bucket(j.day)
  BY <1>1 DEF M!Reset, M!wallet, M!user, HookRecords
<1>3. Sound(hook[h]) /\ hook[h].at = "reset"
  BY <1>0 DEF HooksSound, M!Reset
<1>4. Sound(j)'
  BY <1>1, <1>2, <1>3, MSame DEF Sound
<1>5. daily' \in Buckets /\ Counted'
  BY <1>0, <1>2, FreshBucket, MSame DEF MTypes, Counted
<1>6. /\ paid' \in [M!Rows -> Nat]
      /\ did' \in [Daily \X MDays -> SUBSET Moments] /\ late' \in [Daily \X MDays -> SUBSET Moments]
      /\ \A x \in Daily \X MDays : M!Earned[x] \subseteq M!Earned'[x]
  BY <1>0, <1>2, MSame DEF MTypes
<1>7. M!PaidOnce' /\ M!PaidIsEarned'
  BY <1>0, <1>2, MSame DEF M!PaidOnce, M!PaidIsEarned
<1>8. ~ Spanning => j.day = today
  BY <1>0, <1>1, <1>3 DEF OnTheirDay
<1> QED BY <1>1, <1>2, <1>4, <1>5, <1>6, <1>7, <1>8, MKeeps

LEMMA MAdds ==
  ASSUME MBounds, MInv, NEW h \in Hooks, M!Add(h)
  PROVE  MInv'
<1>0. MTypes /\ HooksSound /\ Counted /\ OnTheirDay /\ M!PaidOnce /\ M!PaidIsEarned
  BY DEF MInv
<1>1. PICK j \in HookRecords : /\ hook' = [hook EXCEPT ![h] = j] /\ j.at = "read"
                               /\ j.task = hook[h].task /\ j.id = hook[h].id /\ j.day = hook[h].day
  BY MGoes DEF M!Add, HookPoints
<1>2. /\ UNCHANGED <<today, ledger, paid, did, late>> /\ j.day \in MDays
      /\ \/ daily' = daily
         \/ daily.day = j.day /\ daily' = [daily EXCEPT !.ids[j.task] = @ \cup {j.id}]
  BY <1>1 DEF M!Add, M!wallet, M!user, HookRecords
<1>3. Sound(hook[h]) /\ hook[h].at = "add"
  BY <1>0 DEF HooksSound, M!Add
<1>4. Sound(j)' /\ j.task \in Daily /\ j.id \in M!Earned[<<j.task, j.day>>]
  BY <1>1, <1>2, <1>3, MSame DEF Sound
<1>5. daily' \in Buckets /\ Counted'
  <2>1. CASE daily' = daily
    BY <1>0, <1>2, <2>1, MSame DEF MTypes, Counted
  <2>2. CASE daily.day = j.day /\ daily' = [daily EXCEPT !.ids[j.task] = @ \cup {j.id}]
    <3>1. j.id \in Moments
      <4>1. <<j.task, j.day>> \in Daily \X MDays
        BY <1>2, <1>4
      <4> QED BY <1>0, <1>4, <4>1 DEF MTypes
    <3>2. daily \in Buckets /\ daily.ids \in [Daily -> SUBSET Moments]
      BY <1>0 DEF MTypes, Buckets
    <3>3. /\ daily'.day = daily.day /\ daily'.flag = daily.flag
          /\ daily'.ids = [daily.ids EXCEPT ![j.task] = @ \cup {j.id}]
      BY <2>2, <3>2 DEF Buckets
    <3>4. daily' = [daily EXCEPT !.ids = [daily.ids EXCEPT ![j.task] = @ \cup {j.id}]]
      BY <2>2, <3>2 DEF Buckets
    <3>5. [daily.ids EXCEPT ![j.task] = @ \cup {j.id}] \in [Daily -> SUBSET Moments]
      BY <3>1, <3>2
    <3>6. daily' \in Buckets
      BY <3>2, <3>4, <3>5 DEF Buckets
    <3>7. Counted'
      BY <1>0, <1>2, <1>4, <2>2, <3>2, <3>3, MSame DEF Counted
    <3> QED BY <3>6, <3>7
  <2> QED BY <1>2, <2>1, <2>2
<1>6. /\ paid' \in [M!Rows -> Nat]
      /\ did' \in [Daily \X MDays -> SUBSET Moments] /\ late' \in [Daily \X MDays -> SUBSET Moments]
      /\ \A x \in Daily \X MDays : M!Earned[x] \subseteq M!Earned'[x]
  BY <1>0, <1>2, MSame DEF MTypes
<1>7. M!PaidOnce' /\ M!PaidIsEarned'
  BY <1>0, <1>2, MSame DEF M!PaidOnce, M!PaidIsEarned
<1>8. ~ Spanning => j.day = today
  BY <1>0, <1>1, <1>3 DEF OnTheirDay
<1> QED BY <1>1, <1>2, <1>4, <1>5, <1>6, <1>7, <1>8, MKeeps

\* One more row and one more credit, as both transactions write them.
LEMMA MPays ==
  ASSUME MBounds, MInv, NEW h \in Hooks, NEW x, x \notin ledger, M!Ends(h),
         ledger' = ledger \cup {x}, paid' = [paid EXCEPT ![x] = @ + 1],
         \A t \in Daily, d \in MDays : x = <<t, d>> => M!Cardinality(M!Earned[x]) >= Target,
         daily' \in Buckets, Counted', UNCHANGED <<today, did, late>>
  PROVE  MInv'
<1>0. MTypes /\ M!PaidOnce /\ M!PaidIsEarned
  BY DEF MInv
<1>1. paid' \in [M!Rows -> Nat]
  <2>1. paid \in [M!Rows -> Nat]
    BY <1>0 DEF MTypes
  <2>2. paid' = [y \in M!Rows |-> IF y = x THEN paid[y] + 1 ELSE paid[y]]
    BY <2>1
  <2>3. \A y \in M!Rows : (IF y = x THEN paid[y] + 1 ELSE paid[y]) \in Nat
    BY <2>1
  <2> QED BY <2>2, <2>3
<1>2. \A y \in M!Rows : paid'[y] = IF y = x THEN paid[y] + 1 ELSE paid[y]
  BY <1>0 DEF MTypes
<1>3. M!PaidOnce'
  <2> SUFFICES ASSUME NEW y \in M!Rows PROVE paid'[y] = (IF y \in ledger' THEN 1 ELSE 0)
    BY DEF M!PaidOnce, M!Rows, M!Days
  <2> QED BY <1>0, <1>2 DEF M!PaidOnce
<1>4. M!PaidIsEarned'
  <2> SUFFICES ASSUME NEW t \in Daily, NEW d \in MDays, paid'[<<t, d>>] > 0
               PROVE  M!Cardinality(M!Earned[<<t, d>>]) >= Target
    BY MSame DEF M!PaidIsEarned, M!Days, MDays
  <2>1. <<t, d>> \in M!Rows
    BY DEF M!Rows, M!Days, MDays
  <2>2. CASE x = <<t, d>>
    BY <2>2
  <2>3. CASE x # <<t, d>>
    <3>1. paid[<<t, d>>] > 0
      BY <1>2, <2>1, <2>3
    <3> QED BY <1>0, <3>1 DEF M!PaidIsEarned, M!Days, MDays
  <2> QED BY <2>2, <2>3
<1>5. /\ did' \in [Daily \X MDays -> SUBSET Moments] /\ late' \in [Daily \X MDays -> SUBSET Moments]
      /\ \A y \in Daily \X MDays : M!Earned[y] \subseteq M!Earned'[y]
  BY <1>0, MSame DEF MTypes
<1>6. PICK j \in HookRecords : j = M!Idle
  BY MEnds
<1>7. hook' = [hook EXCEPT ![h] = j] /\ j.at = "idle"
  BY <1>6, MEnds DEF M!Ends
<1>8. Sound(j)'
  BY <1>7 DEF Sound
<1> QED BY <1>1, <1>3, <1>4, <1>5, <1>7, <1>8, MKeeps

\* creditDailyTaskReward.
LEMMA MPaysDaily ==
  ASSUME MBounds, MInv, NEW h \in Hooks, M!PayDaily(h)
  PROVE  MInv'
<1>0. MTypes /\ HooksSound /\ Counted
  BY DEF MInv
<1>1. PICK k \in HookRecords : k = hook[h]
  BY <1>0 DEF MTypes
<1>2. k.at = "payDaily" /\ k.task \in Daily /\ k.day \in MDays
      /\ M!Cardinality(M!Earned[<<k.task, k.day>>]) >= Target
  BY <1>0, <1>1 DEF M!PayDaily, HooksSound, Sound, HookRecords
<1>3. M!Ends(h) /\ UNCHANGED <<today, did, late>>
  BY DEF M!PayDaily, M!user
<1>4. CASE UNCHANGED <<daily, ledger, paid>>
  BY <1>3, <1>4, MLoses
<1>5. ASSUME NEW b \in Buckets, b = daily \/ b = M!Bucket(k.day), <<k.task, k.day>> \notin ledger,
             ledger' = ledger \cup {<<k.task, k.day>>}, paid' = [paid EXCEPT ![<<k.task, k.day>>] = @ + 1],
             daily' = [b EXCEPT !.flag = @ \cup {k.task}]
      PROVE  MInv'
  <2>1. /\ daily' \in Buckets /\ daily'.day = b.day /\ daily'.ids = b.ids
    BY <1>2, <1>5 DEF Buckets
  <2>2. Counted'
    BY <1>0, <1>2, <1>3, <1>5, <2>1, FreshBucket, MSame DEF Counted
  <2>3. \A t \in Daily, d \in MDays : <<k.task, k.day>> = <<t, d>> =>
            M!Cardinality(M!Earned[<<k.task, k.day>>]) >= Target
    BY <1>2
  <2> QED BY <1>3, <1>5, <2>1, <2>2, <2>3, MPays
<1>6. daily \in Buckets /\ M!Bucket(k.day) \in Buckets
  BY <1>0, <1>2, FreshBucket DEF MTypes
<1> QED BY <1>1, <1>4, <1>5, <1>6 DEF M!PayDaily

\* creditOnceTaskReward.
LEMMA MPaysOnce ==
  ASSUME MBounds, MInv, NEW h \in Hooks, M!PayOnce(h)
  PROVE  MInv'
<1>0. MTypes /\ HooksSound /\ Counted
  BY DEF MInv
<1>1. PICK t \in Single : t = hook[h].task
  BY <1>0 DEF M!PayOnce, HooksSound, Sound
<1>2. M!Ends(h) /\ UNCHANGED <<today, did, late, daily>>
  BY DEF M!PayOnce, M!user
<1>3. CASE UNCHANGED <<ledger, paid>>
  BY <1>2, <1>3, MLoses
<1>4. CASE /\ <<t, 0>> \notin ledger /\ ledger' = ledger \cup {<<t, 0>>}
           /\ paid' = [paid EXCEPT ![<<t, 0>>] = @ + 1]
  <2>1. daily' \in Buckets /\ Counted'
    BY <1>0, <1>2, MSame DEF MTypes, Counted
  <2>2. \A s \in Daily, d \in MDays : <<t, 0>> = <<s, d>> => M!Cardinality(M!Earned[<<t, 0>>]) >= Target
    BY DEF MBounds
  <2> QED BY <1>2, <1>4, <2>1, <2>2, MPays
<1> QED BY <1>1, <1>3, <1>4 DEF M!PayOnce, M!wallet

LEMMA MMidnight ==
  ASSUME MBounds, MInv, M!Midnight
  PROVE  MInv'
<1>1. /\ today' = today + 1 /\ today' \in MDays
      /\ UNCHANGED <<daily, ledger, paid, did, late, hook>>
      /\ Spanning \/ \A h \in Hooks : hook[h].at = "idle"
  BY DEF M!Midnight, M!wallet, M!user, MInv, MTypes, MDays, MBounds
<1>2. MTypes'
  BY <1>1, MSame DEF MInv, MTypes
<1>3. HooksSound' /\ Counted' /\ M!PaidOnce' /\ M!PaidIsEarned'
  BY <1>1, MSame DEF MInv, HooksSound, Sound, Counted, M!PaidOnce, M!PaidIsEarned
<1>4. OnTheirDay'
  BY <1>1 DEF MInv, OnTheirDay
<1> QED BY <1>2, <1>3, <1>4 DEF MInv

LEMMA MStepInv == MBounds /\ MInv /\ M!Next => MInv'
  BY MSees, MReadsDate, MEnters, MResets, MAdds, MLooks, MTries, MPaysDaily, MPaysOnce, MMidnight
  DEF M!Next, M!Hook

LEMMA MStutterInv == MInv /\ UNCHANGED M!vars => MInv'
  BY MSame DEF M!vars, MInv, MTypes, HooksSound, Sound, Counted, OnTheirDay, M!PaidOnce, M!PaidIsEarned

\* With hooks that end before midnight, no hook replaces the bucket of the day.
LEMMA MStepKeeps ==
  ASSUME MBounds, MInv, ~ Spanning, M!Next
  PROVE  M!ProgressKept
<1> SUFFICES ASSUME today' = today, daily.day = today
             PROVE  /\ daily'.day = today /\ daily.flag \subseteq daily'.flag
                    /\ \A t \in Daily : daily.ids[t] \subseteq daily'.ids[t]
  BY DEF M!ProgressKept
<1>0. daily \in Buckets /\ OnTheirDay /\ HooksSound /\ hook \in [Hooks -> HookRecords]
  BY DEF MInv, MTypes
<1>1. CASE daily' = daily
  BY <1>1
<1>2. ASSUME NEW h \in Hooks, M!Reset(h) PROVE daily' = daily
  BY <1>0, <1>2 DEF M!Reset, OnTheirDay
<1>3. ASSUME NEW h \in Hooks, M!Add(h), daily' # daily
      PROVE  /\ daily'.day = today /\ daily.flag \subseteq daily'.flag
             /\ \A t \in Daily : daily.ids[t] \subseteq daily'.ids[t]
  <2>1. PICK k \in HookRecords : k = hook[h] /\ daily' = [daily EXCEPT !.ids[k.task] = @ \cup {k.id}]
    BY <1>0, <1>3 DEF M!Add
  <2>2. /\ daily'.day = daily.day /\ daily'.flag = daily.flag
        /\ daily'.ids = [daily.ids EXCEPT ![k.task] = @ \cup {k.id}]
    BY <1>0, <2>1 DEF Buckets
  <2>3. daily.ids \in [Daily -> SUBSET Moments]
    BY <1>0 DEF Buckets
  <2> QED BY <2>2, <2>3
<1>4. ASSUME NEW h \in Hooks, M!PayDaily(h), daily' # daily
      PROVE  /\ daily'.day = today /\ daily.flag \subseteq daily'.flag
             /\ \A t \in Daily : daily.ids[t] \subseteq daily'.ids[t]
  <2>1. PICK k \in HookRecords : k = hook[h] /\ k.day = today
    BY <1>0, <1>4 DEF M!PayDaily, OnTheirDay
  <2>2. daily' = [daily EXCEPT !.flag = @ \cup {k.task}]
    BY <1>4, <2>1 DEF M!PayDaily
  <2>3. daily'.day = daily.day /\ daily'.flag = daily.flag \cup {k.task} /\ daily'.ids = daily.ids
    BY <1>0, <2>2 DEF Buckets
  <2> QED BY <2>3
<1>5. CASE M!Midnight
  BY <1>5 DEF M!Midnight
<1> QED BY <1>1, <1>2, <1>3, <1>4, <1>5
  DEF M!Next, M!Hook, M!Read, M!TryDaily, M!FollowAdd, M!TryFollow, M!Count, M!PayOnce, M!Message,
      M!Buy, M!Lost, M!See, M!ReadDate, M!Follow, M!ClaimTask

\* No row of a mission pays twice and no credit comes without its row, and a
\* day pays only what was done on that day or while a hook that read its date
\* on that day was under way, however hooks, claims, failures and midnight
\* interleave (creditDailyTaskReward, creditOnceTaskReward).
THEOREM MissionsTheorem == ASSUME MBounds PROVE M!Spec => [](M!PaidOnce /\ M!PaidIsEarned)
<1>1. MInv => M!PaidOnce /\ M!PaidIsEarned
  BY DEF MInv
<1> QED BY <1>1, MInitInv, MStepInv, MStutterInv, PTL DEF M!Spec

\* With hooks that end before midnight nothing counted for a day is lost
\* during the day (atomicAddDailyMomentId).
THEOREM ProgressTheorem ==
  ASSUME MBounds, ~ Spanning PROVE M!Spec => [][M!ProgressKept]_M!vars
<1>1. MInv /\ [M!Next]_M!vars => [M!ProgressKept]_M!vars
  BY MStepKeeps
<1> QED BY <1>1, MInitInv, MStepInv, MStutterInv, PTL DEF M!Spec
=============================================================================
