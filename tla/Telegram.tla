----------------------------- MODULE Telegram -----------------------------
(***************************************************************************)
(* The Telegram join reward.  A user opens a signed link, the bot's        *)
(* webhook binds the Telegram account that pressed Start, and Verify asks  *)
(* Telegram for the membership before one transaction pays.  Webhooks      *)
(* arrive more than once, two links may be opened by one account and       *)
(* accounts join and leave the channel meanwhile.                          *)
(***************************************************************************)
EXTENDS Naturals, FiniteSets

CONSTANTS Users, Accounts, None,
          Requests      \* webhooks and verifications that overlap

VARIABLES bound,    \* User.telegramUserId
          claimed,  \* User.telegramRewardClaimed
          ledger,   \* telegram_join_reward_ rows
          paid,     \* credits of each wallet
          member,   \* accounts in the channel, at Telegram
          on,       \* TelegramRewardConfig is enabled and complete
          req       \* requests under way

vars == <<bound, claimed, ledger, paid, member, on, req>>
Idle == [at |-> "idle", user |-> None, acc |-> None]

Init == /\ bound = [u \in Users |-> None]
        /\ claimed = {} /\ ledger = {}
        /\ paid = [u \in Users |-> 0]
        /\ member = {} /\ on = TRUE
        /\ req = [r \in Requests |-> Idle]

To(r, at, u, t) == req' = [req EXCEPT ![r] = [at |-> at, user |-> u, acc |-> t]]
Done(r) == req' = [req EXCEPT ![r] = Idle]

\* Telegram and the administrator.
Join(t) == t \notin member /\ member' = member \cup {t} /\ UNCHANGED <<bound, claimed, ledger, paid, on, req>>
Quit(t) == t \in member /\ member' = member \ {t} /\ UNCHANGED <<bound, claimed, ledger, paid, on, req>>
Configure == on' = ~ on /\ UNCHANGED <<bound, claimed, ledger, paid, member, req>>

\* assertConfigReady, getTelegramRewardStatus: who may still claim.
MayClaim(u) == on /\ u \notin claimed /\ bound[u] # None

\* createTelegramLinkToken: a link is for a user without an account.
MayLink(u) == bound[u] = None

\* handleTelegramWebhook: a valid link of the user, opened by the account, up
\* to the checks that refuse an account or a user who is bound already.
Start(r, u, t) == /\ req[r].at = "idle"
                  /\ \A v \in Users \ {u} : bound[v] # t
                  /\ MayLink(u)
                  /\ To(r, "bind", u, t)
                  /\ UNCHANGED <<bound, claimed, ledger, paid, member, on>>

\* Without the condition on telegramUserId.
BindAnyway(r) == LET u == req[r].user  t == req[r].acc IN
    /\ req[r].at = "bind" /\ Done(r)
    /\ bound' = IF \A v \in Users \ {u} : bound[v] # t THEN [bound EXCEPT ![u] = t] ELSE bound
    /\ UNCHANGED <<claimed, ledger, paid, member, on>>

\* Without the unique index.
BindShared(r) == LET u == req[r].user  t == req[r].acc IN
    /\ req[r].at = "bind" /\ Done(r)
    /\ bound' = IF bound[u] = None THEN [bound EXCEPT ![u] = t] ELSE bound
    /\ UNCHANGED <<claimed, ledger, paid, member, on>>

\* The conditional update under the unique index on telegramUserId.
Bind(r) == LET u == req[r].user  t == req[r].acc IN
    /\ req[r].at = "bind" /\ Done(r)
    /\ bound' = IF bound[u] = None /\ \A v \in Users : bound[v] # t THEN [bound EXCEPT ![u] = t] ELSE bound
    /\ UNCHANGED <<claimed, ledger, paid, member, on>>

\* verifyAndClaimTelegramReward, up to the question to Telegram.
Verify(r, u) == /\ req[r].at = "idle" /\ MayClaim(u)
                /\ To(r, "ask", u, bound[u])
                /\ UNCHANGED <<bound, claimed, ledger, paid, member, on>>

\* Takes every answer for a membership.
AskFailOpen(r) == /\ req[r].at = "ask"
                  /\ To(r, "pay", req[r].user, req[r].acc)
                  /\ UNCHANGED <<bound, claimed, ledger, paid, member, on>>

\* getChatMember: not a member, or an error, ends the request.
Ask(r) == /\ req[r].at = "ask"
          /\ \/ req[r].acc \in member /\ To(r, "pay", req[r].user, req[r].acc)
             \/ Done(r)
          /\ UNCHANGED <<bound, claimed, ledger, paid, member, on>>

\* The transaction: row, flag and credit, or nothing.
Pay(r) == LET u == req[r].user IN
    /\ req[r].at = "pay" /\ Done(r)
    /\ \/ /\ u \notin claimed \cup ledger
          /\ claimed' = claimed \cup {u} /\ ledger' = ledger \cup {u}
          /\ paid' = [paid EXCEPT ![u] = @ + 1]
       \/ UNCHANGED <<claimed, ledger, paid>>
    /\ UNCHANGED <<bound, member, on>>

\* The server stops.
Die(r) == /\ req[r].at # "idle" /\ Done(r)
          /\ UNCHANGED <<bound, claimed, ledger, paid, member, on>>

Next == \/ \E t \in Accounts : Join(t) \/ Quit(t)
        \/ Configure
        \/ \E r \in Requests : \/ \E u \in Users : Verify(r, u) \/ \E t \in Accounts : Start(r, u, t)
                               \/ Bind(r) \/ Ask(r) \/ Pay(r) \/ Die(r)

Spec == Init /\ [][Next]_vars

----------------------------------------------------------------------------
\* One account pays one user and one user is paid once, however webhooks and
\* verifications overlap; the flag, the row and the credit come together.
OneReward == /\ \A u, v \in claimed : bound[u] = bound[v] => u = v
             /\ \A u \in Users : paid[u] = (IF u \in claimed THEN 1 ELSE 0)
             /\ ledger = claimed

\* An account that was bound stays bound to the same user.
StaysBound == \A u \in Users : bound[u] # None => bound'[u] = bound[u]

\* Only the transaction of a request whose account was a member pays: nobody
\* can go from the check of the membership to the payment without it.
MemberBeforePay == \A r \in Requests : req[r].at # "pay" /\ req'[r].at = "pay" => req[r].acc \in member /\ req[r].acc = bound[req[r].user]
=============================================================================
