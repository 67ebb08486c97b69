-------------------------- MODULE CreatorReferral --------------------------
(***************************************************************************)
(* The affiliate program of creators: one user who entered a creator's     *)
(* code, and three stages that pay the creator (signup, Telegram reward,   *)
(* first purchase).  The attachment looks back at what the user did        *)
(* before, the claim and the purchase look for the edge, and none of them  *)
(* waits for another.                                                      *)
(***************************************************************************)
EXTENDS Naturals, Sequences

CONSTANTS Workers,   \* requests and hooks that overlap
          MayDie,    \* whether the server may stop
          MaxJobs    \* bound on hooks that are not started by new events

VARIABLES attached,  \* applyReferralCode linked the user to the creator
          edge,      \* CreatorReferralEdge: there or not, telegramJoinedAt
          rewarded,  \* stages with a rewardedAt
          ledger,    \* stages with a ledger row
          paid,      \* credits of the creator for each stage
          telegram,  \* User.telegramRewardClaimed
          bought,    \* a completed purchase
          on,        \* the program is enabled
          job,       \* requests and hooks under way
          jobs       \* how many were started by the administrator

vars == <<attached, edge, rewarded, ledger, paid, telegram, bought, on, job, jobs>>
state == <<edge, rewarded, ledger, paid>>
Stages == {"attach", "telegram", "purchase"}
Idle == [at |-> "idle", todo |-> <<>>]

Init == /\ attached = FALSE
        /\ edge = [there |-> FALSE, joined |-> FALSE]
        /\ rewarded = {} /\ ledger = {}
        /\ paid = [s \in Stages |-> 0]
        /\ telegram = FALSE /\ bought = FALSE /\ on = TRUE
        /\ job = [w \in Workers |-> Idle] /\ jobs = 0

Run(w, at, todo) == job' = [job EXCEPT ![w] = [at |-> at, todo |-> todo]]
Free(w) == job[w].at = "idle"
When(c, s) == IF c THEN <<s>> ELSE <<>>

(***************************************************************************)
(* createCreatorReferralEdgeAfterAttach: reads the claim, creates the edge *)
(* and pays what is due.                                                   *)
(***************************************************************************)
Attach(w) == /\ Free(w) /\ ~ attached
             /\ attached' = TRUE
             /\ Run(w, "create", When(telegram, "telegram"))
             /\ UNCHANGED <<state, telegram, bought, on, jobs>>

\* Looks for purchases before it creates the edge.
CreateLate(w) == /\ job[w].at = "create"
                 /\ edge' = [there |-> TRUE, joined |-> job[w].todo # <<>>]
                 /\ Run(w, "pay", <<"attach">> \o job[w].todo)
                 /\ UNCHANGED <<attached, rewarded, ledger, paid, telegram, bought, on, jobs>>

Create(w) == /\ job[w].at = "create"
             /\ edge' = [there |-> TRUE, joined |-> job[w].todo # <<>>]
             /\ Run(w, "pay", <<"attach">> \o job[w].todo \o <<"backfill">>)
             /\ UNCHANGED <<attached, rewarded, ledger, paid, telegram, bought, on, jobs>>

(***************************************************************************)
(* creditStage.  The edge's field, the row and the credit are one          *)
(* transaction; a row without the field is adopted.                        *)
(***************************************************************************)
\* Does not look for a purchase.
DueAny(s) == s = "telegram" => edge.joined

Due(s) == IF s = "backfill" THEN bought ELSE IF s = "telegram" THEN edge.joined ELSE TRUE
Stage(s) == IF s = "backfill" THEN "purchase" ELSE s

\* The field is set after the transaction.
CreditFieldless(w) == LET s == Stage(Head(job[w].todo)) IN
    /\ job[w].at = "pay" /\ job[w].todo # <<>>
    /\ Run(w, "pay", Tail(job[w].todo))
    /\ IF on /\ edge.there /\ Due(Head(job[w].todo)) /\ s \notin rewarded
       THEN ledger' = ledger \cup {s} /\ paid' = [paid EXCEPT ![s] = @ + 1]
       ELSE UNCHANGED <<ledger, paid>>
    /\ UNCHANGED <<attached, edge, rewarded, telegram, bought, on, jobs>>

Credit(w) == LET s == Stage(Head(job[w].todo)) IN
    /\ job[w].at = "pay" /\ job[w].todo # <<>>
    /\ Run(w, "pay", Tail(job[w].todo))
    /\ IF on /\ edge.there /\ Due(Head(job[w].todo)) /\ s \notin rewarded
       THEN /\ rewarded' = rewarded \cup {s} /\ ledger' = ledger \cup {s}
            /\ paid' = IF s \in ledger THEN paid ELSE [paid EXCEPT ![s] = @ + 1]
       ELSE UNCHANGED <<rewarded, ledger, paid>>
    /\ UNCHANGED <<attached, edge, telegram, bought, on, jobs>>

Finish(w) == /\ job[w].at = "pay" /\ job[w].todo = <<>>
             /\ Run(w, "idle", <<>>)
             /\ UNCHANGED <<attached, state, telegram, bought, on, jobs>>

(***************************************************************************)
(* The Telegram reward commits, then markCreatorReferralTelegramJoined     *)
(* runs unawaited.  A claim that was made before returns at once.          *)
(***************************************************************************)
ClaimTelegram(w) == /\ Free(w) /\ ~ telegram
                    /\ telegram' = TRUE /\ Run(w, "mark", <<>>)
                    /\ UNCHANGED <<attached, state, bought, on, jobs>>

Mark(w) == /\ job[w].at = "mark"
           /\ edge' = [edge EXCEPT !.joined = edge.there]
           /\ IF edge.there THEN Run(w, "pay", <<"telegram">>) ELSE Run(w, "idle", <<>>)
           /\ UNCHANGED <<attached, rewarded, ledger, paid, telegram, bought, on, jobs>>

\* A purchase commits, then onCreatorReferralPurchase runs unawaited.
Purchase(w) == /\ Free(w) /\ ~ bought
               /\ bought' = TRUE /\ Run(w, "pay", <<"purchase">>)
               /\ UNCHANGED <<attached, state, telegram, on, jobs>>

\* What the reconciliation finds unpaid.
Unpaid == When("attach" \notin rewarded, "attach")
          \o When(edge.joined /\ "telegram" \notin rewarded, "telegram")
          \o When("purchase" \notin rewarded, "backfill")

\* The administrator saves the configuration; when it is enabled
\* reconcileUnpaidCreatorReferrals runs on what it reads of the edge.
Configure(w, b) == /\ Free(w) /\ jobs < MaxJobs /\ jobs' = jobs + 1
                   /\ on' = b
                   /\ Run(w, "pay", IF b /\ edge.there THEN Unpaid ELSE <<>>)
                   /\ UNCHANGED <<attached, state, telegram, bought>>

\* The server stops; hooks are not repeated.
Die(w) == /\ MayDie /\ ~ Free(w) /\ Run(w, "idle", <<>>)
          /\ UNCHANGED <<attached, state, telegram, bought, on, jobs>>

Step(w) == Create(w) \/ Credit(w) \/ Finish(w) \/ Mark(w)

Next == \E w \in Workers : \/ Attach(w) \/ Step(w) \/ ClaimTelegram(w) \/ Purchase(w) \/ Die(w)
                           \/ \E b \in BOOLEAN : Configure(w, b)

Spec == Init /\ [][Next]_vars

----------------------------------------------------------------------------
\* Field, ledger row and credit of a stage come together, each at most once.
StagesAgree == \A s \in Stages : /\ (s \in rewarded) = (s \in ledger)
                                 /\ paid[s] = (IF s \in ledger THEN 1 ELSE 0)

\* Nothing is paid for what the user has not done.
PaidIsEarned == /\ paid["attach"] > 0 => attached
                /\ paid["telegram"] > 0 => telegram
                /\ paid["purchase"] > 0 => bought

\* A referred user has bought; the creator has been paid for it.
PurchaseDue == edge.there /\ bought
PurchasePaid == paid["purchase"] = 1
=============================================================================
