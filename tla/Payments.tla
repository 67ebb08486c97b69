------------------------------ MODULE Payments ------------------------------
(***************************************************************************)
(* The purchase of one coin pack: createWebOrder makes a Razorpay order    *)
(* and the pending ledger rows, and any number of executions of            *)
(* verifyWebPayment, of the webhook processor, of its retry worker and of  *)
(* the reconcile sweep credit it, each a chain of awaits that may stop     *)
(* (error or crash) between any two of them.                               *)
(*                                                                         *)
(* Modelled configuration: the real payment provider, a valid checkout     *)
(* token of the buyer, notes of a wallet product with its coins and price, *)
(* and a pack that carries a VIP bonus.  Time is left out: a retry is due  *)
(* whenever its event may be claimed.                                      *)
(***************************************************************************)
EXTENDS Integers, FiniteSets

CONSTANTS
    Executions,     \* concurrent handler and worker executions
    Events,         \* webhook event ids of the order (payment.captured, order.paid)
    MaxFaults,      \* bound: provider errors, database errors and crashes
    MaxMismatches       \* bound: verifications with a signature that does not match

VARIABLES
    order,      \* the order at Razorpay
    row, bonus, \* status of the ledger rows pay_<order> and pay_bonus_<order>
    user,       \* the buyer's account exists
    context,    \* the CheckoutContext
    event,      \* the PaymentWebhookEvents
    pc, caller, \* where each execution is, and on whose behalf
    handling,   \* the webhook event an execution has in hand
    credits,    \* how often main and bonus coins were added to the wallet
    resets,     \* how often a completed row was set back to failed
    faults, mismatches

vars == <<order, row, bonus, user, context, event, pc, caller, handling,
          credits, resets, faults, mismatches>>
locals == <<pc, caller, handling>>
ledger == <<row, bonus, credits, resets>>

Statuses == {"none", "pending", "completed", "failed"}
Points == {"idle", "savePending", "attach", "saveBonus", "reject", "find",
           "finalize", "record", "claim", "acknowledge", "fail",
           "reconcile", "resolve", "ensure", "refinalize"}

Init ==
    /\ order = "none" /\ row = "none" /\ bonus = "none" /\ user = TRUE
    /\ context = [status |-> "created", order |-> FALSE]
    /\ event = [e \in Events |-> "none"]
    /\ pc = [p \in Executions |-> "idle"]
    /\ caller = [p \in Executions |-> "nobody"]
    /\ handling \in [Executions -> Events]
    /\ credits = [main |-> 0, bonus |-> 0]
    /\ resets = 0 /\ faults = 0 /\ mismatches = 0

GoTo(p, point) == pc' = [pc EXCEPT ![p] = point] /\ UNCHANGED <<caller, handling>>

Start(p, who, point) ==
    /\ pc[p] = "idle"
    /\ caller' = [caller EXCEPT ![p] = who]
    /\ pc' = [pc EXCEPT ![p] = point]

-----------------------------------------------------------------------------
(* createWebOrder *)

CreateOrder(p) ==
    /\ order = "none" /\ user
    /\ Start(p, "create", "savePending")
    /\ order' = "creating"
    /\ UNCHANGED <<ledger, user, context, event, handling, faults, mismatches>>

\* createPendingCoinTransaction; when the save fails the order stays behind at
\* Razorpay without a row (payment.orphan_razorpay_order).
SavePending(p) ==
    /\ pc[p] = "savePending"
    /\ \/ row' = "pending" /\ GoTo(p, "attach") /\ UNCHANGED <<order, faults>>
       \/ /\ faults < MaxFaults
          /\ faults' = faults + 1 /\ order' = "orphan"
          /\ GoTo(p, "idle") /\ UNCHANGED row
    /\ UNCHANGED <<bonus, credits, resets, user, context, event, mismatches>>

AttachCheckoutOrder(p) ==
    /\ pc[p] = "attach"
    /\ context' = IF context.status = "created"
                  THEN [status |-> "pending", order |-> TRUE] ELSE context
    /\ GoTo(p, "saveBonus")
    /\ UNCHANGED <<order, ledger, user, event, faults, mismatches>>

\* Mutant: the order id is returned before the bonus row is written.
AttachThenOffer(p) ==
    /\ pc[p] = "saveBonus"
    /\ order' = "offered"
    /\ \/ bonus' = "pending" /\ GoTo(p, "idle")
       \/ GoTo(p, "saveBonus") /\ UNCHANGED bonus
    /\ UNCHANGED <<row, credits, resets, user, context, event, faults, mismatches>>

\* createPendingBonusCoinTransaction, then the response with the order id.
SaveBonus(p) ==
    /\ pc[p] = "saveBonus"
    /\ bonus' = "pending" /\ order' = "offered"
    /\ GoTo(p, "idle")
    /\ UNCHANGED <<row, credits, resets, user, context, event, faults, mismatches>>

\* Razorpay captures a payment for an order it knows.
Capture ==
    /\ order \in {"offered", "orphan"}
    /\ order' = "captured"
    /\ UNCHANGED <<ledger, user, context, event, locals, faults, mismatches>>

-----------------------------------------------------------------------------
(* finalizePaymentAtomically, one Mongo transaction *)

\* Mutant: the row is completed whatever its status.
CompleteRegardless ==
    /\ row' = "completed"
    /\ bonus' = IF bonus = "pending" THEN "completed" ELSE bonus
    /\ credits' = [main  |-> credits.main + 1,
                   bonus |-> credits.bonus + IF bonus = "pending" THEN 1 ELSE 0]

\* Mutant: the retry of a completed order adds the bonus again.
CompleteBonusAgain ==
    /\ row' = "completed"
    /\ bonus' = IF bonus = "none" THEN bonus ELSE "completed"
    /\ credits' = [main  |-> credits.main + IF row = "completed" THEN 0 ELSE 1,
                   bonus |-> credits.bonus + IF bonus = "none" THEN 0 ELSE 1]

\* The row unless it is completed, the bonus row unless it is completed, and
\* the coins of those that changed.
Complete ==
    /\ row' = "completed"
    /\ bonus' = IF bonus = "none" THEN bonus ELSE "completed"
    /\ credits' = [main  |-> credits.main + IF row = "completed" THEN 0 ELSE 1,
                   bonus |-> credits.bonus + IF bonus \in {"none", "completed"} THEN 0 ELSE 1]

\* Where an execution goes on when its order is credited, and when it is not.
Credited(p) ==
    CASE caller[p] = "verify"  -> "record"
      [] caller[p] = "webhook" -> "acknowledge"
      [] OTHER                 -> "idle"
NotCredited(p) == IF caller[p] = "webhook" THEN "fail" ELSE "idle"

\* Called directly, a missing row (TRANSACTION_NOT_FOUND) leads to the
\* reconciliation; called by the reconciliation, it is its failure.  A missing
\* user and an aborted transaction are failures of both.
FinalizePayment(p) ==
    /\ pc[p] \in {"finalize", "refinalize"}
    /\ \/ row # "none" /\ user /\ Complete /\ GoTo(p, Credited(p)) /\ UNCHANGED faults
       \/ /\ row = "none" /\ pc[p] = "finalize"
          /\ GoTo(p, "reconcile") /\ UNCHANGED <<row, bonus, credits, faults>>
       \/ /\ row # "none" /\ ~user
          /\ GoTo(p, NotCredited(p)) /\ UNCHANGED <<row, bonus, credits, faults>>
       \/ /\ faults < MaxFaults /\ faults' = faults + 1
          /\ GoTo(p, NotCredited(p)) /\ UNCHANGED <<row, bonus, credits>>
    /\ UNCHANGED <<order, resets, user, context, event, mismatches>>

-----------------------------------------------------------------------------
(* reconcileCapturedWalletPayment *)

\* The captured payment is fetched again and the main row read; a completed
\* row ends it as already_completed.
Reconcile(p) ==
    /\ pc[p] = "reconcile"
    /\ \/ GoTo(p, IF row = "completed" THEN Credited(p) ELSE "resolve") /\ UNCHANGED faults
       \/ /\ faults < MaxFaults /\ faults' = faults + 1 /\ GoTo(p, NotCredited(p))
    /\ UNCHANGED <<order, ledger, user, context, event, mismatches>>

\* Mutant: a missing user is always taken for one deleted after the credit.
DeletedAfterCreditAlways == TRUE

\* CheckoutContext.findOne({ orderId, status: 'success' })
DeletedAfterCredit == context.order /\ context.status = "success"

\* resolveWalletUser, and what a missing user means: the webhook takes
\* user_deleted_after_credit for processed.
ResolveUser(p) ==
    /\ pc[p] = "resolve"
    /\ GoTo(p, IF user THEN "ensure"
               ELSE IF caller[p] = "webhook" /\ DeletedAfterCredit THEN "acknowledge"
               ELSE NotCredited(p))
    /\ UNCHANGED <<order, ledger, user, context, event, faults, mismatches>>

\* ensurePendingCoinTransaction; the unique transactionId makes it a no-op
\* when the row exists by now.
EnsurePending(p) ==
    /\ pc[p] = "ensure"
    /\ row' = IF row = "none" THEN "pending" ELSE row
    /\ GoTo(p, "refinalize")
    /\ UNCHANGED <<order, bonus, credits, resets, user, context, event, faults, mismatches>>

-----------------------------------------------------------------------------
(* verifyWebPayment *)

\* A matching signature and a payment the provider says is captured.
Verify(p) ==
    /\ order = "captured" /\ user
    /\ Start(p, "verify", "find")
    /\ UNCHANGED <<order, ledger, user, context, event, handling, faults, mismatches>>

FindTransaction(p) ==
    /\ pc[p] = "find"
    /\ GoTo(p, IF row = "none" THEN "reconcile" ELSE "finalize")
    /\ UNCHANGED <<order, ledger, user, context, event, faults, mismatches>>

\* recordCheckoutResult(checkoutId, 'success'), whatever the status was.
RecordSuccess(p) ==
    /\ pc[p] = "record"
    /\ context' = [context EXCEPT !.status = "success"]
    /\ GoTo(p, "idle")
    /\ UNCHANGED <<order, ledger, user, event, faults, mismatches>>

\* The signature does not match: the context fails, whatever its status was ...
VerifyMismatch(p) ==
    /\ order \in {"offered", "captured"} /\ user /\ mismatches < MaxMismatches
    /\ Start(p, "verify", "reject")
    /\ context' = [context EXCEPT !.status = "failed"]
    /\ mismatches' = mismatches + 1
    /\ UNCHANGED <<order, ledger, user, event, handling, faults>>

\* ... and so does the row.
RejectTransaction(p) ==
    /\ pc[p] = "reject"
    /\ row' = IF row = "none" THEN row ELSE "failed"
    /\ resets' = resets + IF row = "completed" THEN 1 ELSE 0
    /\ GoTo(p, "idle")
    /\ UNCHANGED <<order, bonus, credits, user, context, event, faults, mismatches>>

-----------------------------------------------------------------------------
(* The webhook, its retries, the sweep *)

\* handleRazorpayWebhook stores the event; a duplicate delivery changes nothing.
ReceiveWebhook(p, e) ==
    /\ order = "captured" /\ event[e] = "none"
    /\ Start(p, "webhook", "claim")
    /\ handling' = [handling EXCEPT ![p] = e]
    /\ event' = [event EXCEPT ![e] = "received"]
    /\ UNCHANGED <<order, ledger, user, context, faults, mismatches>>

\* retryFailedPaymentWebhooks: nextRetryAt missing, null or due.
RetryWebhook(p, e) ==
    /\ event[e] \in {"received", "failed"}
    /\ Start(p, "webhook", "claim")
    /\ handling' = [handling EXCEPT ![p] = e]
    /\ UNCHANGED <<order, ledger, user, context, event, faults, mismatches>>

\* The claim of processStoredRazorpayWebhookEvent and its provider check.  The
\* attempts it counts decide about nothing: see FailEvent.
ClaimEvent(p) ==
    LET e == handling[p] IN
    /\ pc[p] = "claim"
    /\ \/ /\ event[e] \in {"received", "failed"}
          /\ event' = [event EXCEPT ![e] = "processing"]
          /\ \/ GoTo(p, "finalize") /\ UNCHANGED faults
             \/ faults < MaxFaults /\ faults' = faults + 1 /\ GoTo(p, "fail")
       \/ /\ event[e] \notin {"received", "failed"}
          /\ GoTo(p, "idle") /\ UNCHANGED <<event, faults>>
    /\ UNCHANGED <<order, ledger, user, context, mismatches>>

AcknowledgeEvent(p) ==
    /\ pc[p] = "acknowledge"
    /\ event' = [event EXCEPT ![handling[p]] = "processed"]
    /\ GoTo(p, "idle")
    /\ UNCHANGED <<order, ledger, user, context, faults, mismatches>>

\* Retriable or not, the event may be claimed again: nextRetryAt is a date
\* when it is retriable and null, which the claim accepts too, when it is not.
FailEvent(p) ==
    /\ pc[p] = "fail"
    /\ event' = [event EXCEPT ![handling[p]] = "failed"]
    /\ GoTo(p, "idle")
    /\ UNCHANGED <<order, ledger, user, context, faults, mismatches>>

\* Mutant: a failed row is taken for a payment that failed.
PaidNoCoinsPendingOnly ==
    /\ order = "captured"
    /\ IF row = "none" THEN ~DeletedAfterCredit ELSE row = "pending"

\* runPaymentErrorCheck: NO_COIN_TRANSACTION, PAID_BUT_PENDING, PAID_BUT_FAILED.
PaidNoCoins ==
    /\ order = "captured"
    /\ IF row = "none" THEN ~DeletedAfterCredit ELSE row # "completed"

Sweep(p) ==
    /\ PaidNoCoins
    /\ Start(p, "sweep", "reconcile")
    /\ UNCHANGED <<order, ledger, user, context, event, handling, faults, mismatches>>

-----------------------------------------------------------------------------
(* The checkout context, the account, crashes *)

\* getCheckoutStatus copies the row's final status unless it has succeeded.
GetCheckoutStatus ==
    /\ user /\ context.order /\ context.status # "success"
    /\ row \in {"completed", "failed"}
    /\ context' = [context EXCEPT !.status = IF row = "completed" THEN "success" ELSE "failed"]
    /\ UNCHANGED <<order, ledger, user, event, locals, faults, mismatches>>

\* recordHostedCheckoutResult
RecordHostedResult ==
    /\ context.status \in {"created", "pending"}
    /\ \E status \in {"cancelled", "failed"} : context' = [context EXCEPT !.status = status]
    /\ UNCHANGED <<order, ledger, user, event, locals, faults, mismatches>>

\* deleteAccount keeps the payment rows.
DeleteAccount ==
    /\ user /\ user' = FALSE
    /\ UNCHANGED <<order, ledger, context, event, locals, faults, mismatches>>

Crash(p) ==
    /\ pc[p] # "idle" /\ faults < MaxFaults
    /\ faults' = faults + 1
    /\ GoTo(p, "idle")
    /\ UNCHANGED <<order, ledger, user, context, event, mismatches>>

Step(p) ==
    \/ SavePending(p) \/ AttachCheckoutOrder(p) \/ SaveBonus(p)
    \/ FinalizePayment(p) \/ Reconcile(p) \/ ResolveUser(p) \/ EnsurePending(p)
    \/ FindTransaction(p) \/ RecordSuccess(p) \/ RejectTransaction(p)
    \/ ClaimEvent(p) \/ AcknowledgeEvent(p) \/ FailEvent(p)

Next ==
    \/ \E p \in Executions :
          \/ CreateOrder(p) \/ Verify(p) \/ VerifyMismatch(p) \/ Sweep(p)
          \/ \E e \in Events : ReceiveWebhook(p, e) \/ RetryWebhook(p, e)
          \/ Step(p) \/ Crash(p)
    \/ Capture \/ GetCheckoutStatus \/ RecordHostedResult \/ DeleteAccount

Spec == Init /\ [][Next]_vars

-----------------------------------------------------------------------------

\* The state is well formed.
TypeOK ==
    /\ order \in {"none", "creating", "offered", "orphan", "captured"}
    /\ row \in Statuses /\ bonus \in Statuses \ {"failed"}
    /\ user \in BOOLEAN
    /\ context \in [status : {"created", "pending", "success", "failed", "cancelled"},
                    order : BOOLEAN]
    /\ event \in [Events -> {"none", "received", "processing", "processed", "failed"}]
    /\ pc \in [Executions -> Points]
    /\ caller \in [Executions -> {"nobody", "create", "verify", "webhook", "sweep"}]
    /\ handling \in [Executions -> Events]
    /\ credits \in [main : Nat, bonus : Nat]
    /\ resets \in Nat /\ faults \in 0 .. MaxFaults /\ mismatches \in 0 .. MaxMismatches

\* However verify, the webhooks, their retries and the sweep overlap, the pack
\* is credited once for the completed row (finalizePaymentAtomically), plus
\* once for each time verifyWebPayment set a completed row back to failed.
CreditsMatchLedger == credits.main = resets + IF row = "completed" THEN 1 ELSE 0

\* The bonus is credited once, and exactly when its row is completed.
BonusCreditedOnce == credits.bonus = IF bonus = "completed" THEN 1 ELSE 0

\* A paid order never keeps a pending bonus: createWebOrder writes the bonus
\* row before it returns the order, and the finalizer completes both.
BonusWithMain == row = "completed" => bonus # "pending"

\* What tells the buyer or Razorpay that the purchase is done, the success of
\* the checkout context and a processed webhook, is only said of credited coins.
AcknowledgedMeansCredited ==
    context.status = "success" \/ (\E e \in Events : event[e] = "processed")
        => credits.main > 0

\* What a captured payment leads to.
Honoured == credits.main > 0 \/ ~user
IsCaptured == order = "captured"
=============================================================================
