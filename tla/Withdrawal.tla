----------------------------- MODULE Withdrawal -----------------------------
(***************************************************************************)
(* Payouts: a creator (or a staff member, when Staff) requests withdrawals *)
(* of Amount coins, admins approve, reject and mark them paid, while the   *)
(* wallet is credited, set by other handlers from balances they have read, *)
(* repaired from its rows and, for staff, reconciled with its ledger.      *)
(* Each handler is a chain of awaits without a transaction; an execution   *)
(* may stop between any two of them.                                       *)
(***************************************************************************)
EXTENDS Integers, FiniteSets

CONSTANTS
    Staff,          \* a staff wallet (BD or agency) rather than a creator's
    Executions,     \* concurrent handler and worker executions
    Withdrawals,    \* the withdrawal documents that may come to exist
    Amount,         \* coins of one withdrawal
    Opening,        \* coins in the wallet at the start
    MaxMoves,       \* bound: coins credited or taken by others later on
    MaxFaults       \* bound: failing awaits and crashes

VARIABLES
    doc,        \* the Withdrawal documents: status, and whether transactionId is set
    debits,     \* debit rows (CoinTransaction) of a withdrawal: none, one, several
    ledger,     \* withdrawals with their StaffWalletLedger debit
    wallet,     \* User.coins, or User.staffCoinsBalance
    earnings,   \* Creator.earningsCoins
    credited,   \* coins ever credited to the wallet, the opening included
    moved,      \* coins credited or taken by others
    net,        \* CoinTransaction rows of the wallet: credits minus debits
    restored,   \* the balance goes back to a read that precedes the last payout
    pc, target, \* where each execution is, and on which withdrawal
    seen,       \* the coins and earnings it has read, and whether before a payout
    faults

balance == <<wallet, earnings, credited, moved, net, restored>>
books == <<doc, debits, ledger, balance>>
vars == <<books, pc, target, seen, faults>>

Statuses == {"none", "pending", "approved", "rejected", "paid"}
Active == {"pending", "approved"}
Points == {"idle", "findActive", "create", "checkBalance", "saveApproved", "saveRejected",
           "readWallet", "debitRow", "saveWallet", "saveMirror", "savePaid",
           "readBalance", "fixBalance", "moveRow", "saveCredit", "saveDebit"}

Unread == [coins |-> 0, earnings |-> 0, stale |-> FALSE]

Init ==
    /\ doc = [w \in Withdrawals |-> [status |-> "none", tx |-> FALSE]]
    /\ debits = [w \in Withdrawals |-> 0]
    /\ ledger = {}
    /\ wallet = Opening /\ earnings = Opening /\ credited = Opening /\ net = Opening
    /\ restored = FALSE /\ moved = 0
    /\ pc = [p \in Executions |-> "idle"]
    /\ target \in [Executions -> Withdrawals]
    /\ seen = [p \in Executions |-> Unread]
    /\ faults = 0

\* An execution that ends forgets what it has read.
GoTo(p, point) ==
    /\ pc' = [pc EXCEPT ![p] = point]
    /\ seen' = IF point = "idle" THEN [seen EXCEPT ![p] = Unread] ELSE seen
    /\ UNCHANGED target

Start(p, w, point) ==
    /\ pc[p] = "idle"
    /\ pc' = [pc EXCEPT ![p] = point]
    /\ target' = [target EXCEPT ![p] = w]

SetStatus(w, status) == doc' = [doc EXCEPT ![w].status = status]

Max0(n) == IF n < 0 THEN 0 ELSE n

-----------------------------------------------------------------------------
(* requestWithdrawal, createStaffWithdrawalRequest *)

\* The amount may not exceed the balance.
BeginRequest(p) ==
    /\ Amount <= wallet
    /\ \E w \in Withdrawals : doc[w].status = "none" /\ Start(p, w, "findActive")
    /\ UNCHANGED <<books, seen, faults>>

Request(p) == ~Staff /\ BeginRequest(p)

\* createStaffWithdrawalRequest makes the same checks on staffCoinsBalance.
RequestStaff(p) == Staff /\ BeginRequest(p)

FindActive(p) ==
    /\ pc[p] = "findActive"
    /\ GoTo(p, IF \E w \in Withdrawals : doc[w].status \in Active THEN "idle" ELSE "create")
    /\ UNCHANGED <<books, faults>>

Create(p) ==
    /\ pc[p] = "create"
    /\ \E w \in Withdrawals :
          /\ doc[w].status = "none"
          /\ SetStatus(w, "pending")
    /\ GoTo(p, "idle")
    /\ UNCHANGED <<debits, ledger, balance, faults>>

-----------------------------------------------------------------------------
(* processWithdrawalApproval, processWithdrawalRejection *)

Approve(p) ==
    /\ \E w \in Withdrawals : doc[w].status = "pending" /\ Start(p, w, "checkBalance")
    /\ UNCHANGED <<books, seen, faults>>

CheckBalance(p) ==
    /\ pc[p] = "checkBalance"
    /\ GoTo(p, IF wallet < Amount THEN "idle" ELSE "saveApproved")
    /\ UNCHANGED <<books, faults>>

SaveApproved(p) ==
    /\ pc[p] = "saveApproved"
    /\ SetStatus(target[p], "approved")
    /\ GoTo(p, "idle")
    /\ UNCHANGED <<debits, ledger, balance, faults>>

Reject(p) ==
    /\ \E w \in Withdrawals : doc[w].status \in Active /\ Start(p, w, "saveRejected")
    /\ UNCHANGED <<books, seen, faults>>

SaveRejected(p) ==
    /\ pc[p] = "saveRejected"
    /\ SetStatus(target[p], "rejected")
    /\ GoTo(p, "idle")
    /\ UNCHANGED <<debits, ledger, balance, faults>>

-----------------------------------------------------------------------------
(* processWithdrawalMarkPaid *)

\* The transactionId of an earlier attempt skips the debit.
MarkPaid(p) ==
    /\ \E w \in Withdrawals :
          /\ doc[w].status = "approved"
          /\ Start(p, w, IF doc[w].tx THEN "savePaid" ELSE "readWallet")
    /\ UNCHANGED <<books, seen, faults>>

ReadWallet(p) ==
    /\ pc[p] = "readWallet"
    /\ IF wallet < Amount
       THEN GoTo(p, "idle")
       ELSE /\ pc' = [pc EXCEPT ![p] = "debitRow"]
            /\ seen' = [seen EXCEPT ![p] = [coins |-> wallet, earnings |-> earnings, stale |-> FALSE]]
            /\ UNCHANGED target
    /\ UNCHANGED <<books, faults>>

\* Mutant: the debit row is left to a later job.
DebitRowLater(p) ==
    /\ pc[p] = "debitRow"
    /\ GoTo(p, "saveWallet")
    /\ UNCHANGED <<books, faults>>

\* Whoever is at one of these points sets the balance from what it has read.
Marked(points) == [q \in Executions |-> [seen[q] EXCEPT !.stale = @ \/ pc[q] \in points]]

\* The row's id is random, so nothing keeps it from being written again.  A
\* repair that has summed up the rows before does not know it.
DebitRow(p) ==
    /\ pc[p] = "debitRow"
    /\ debits' = [debits EXCEPT ![target[p]] = IF @ = 2 THEN 2 ELSE @ + 1]
    /\ net' = net - Amount
    /\ pc' = [pc EXCEPT ![p] = "saveWallet"] /\ seen' = Marked({"fixBalance"})
    /\ UNCHANGED <<doc, ledger, wallet, earnings, credited, moved, restored, target, faults>>

\* Mutant: the coins already left the wallet with the request.
SaveWalletNot(p) ==
    /\ pc[p] = "saveWallet"
    /\ GoTo(p, "saveMirror")
    /\ UNCHANGED <<books, faults>>

\* save() writes the balance computed from what was read ($set, not $inc).  The
\* handlers that have read the balance before do not know it.
SaveWallet(p) ==
    /\ pc[p] = "saveWallet"
    /\ wallet' = seen[p].coins - Amount /\ restored' = FALSE
    /\ pc' = [pc EXCEPT ![p] = "saveMirror"]
    /\ seen' = Marked({"moveRow", "saveCredit", "saveDebit"})
    /\ UNCHANGED <<doc, debits, ledger, earnings, credited, moved, net, target, faults>>

\* Mutant: the ledger entry is written only after the withdrawal is paid.
SaveMirrorSkipped(p) ==
    /\ pc[p] = "saveMirror"
    /\ GoTo(p, "savePaid")
    /\ UNCHANGED <<books, faults>>

\* Creator: earningsCoins.  Staff: the ledger entry, whose idempotencyKey is
\* unique per withdrawal; a second one throws and ends the handler.
SaveMirror(p) ==
    /\ pc[p] = "saveMirror"
    /\ \/ /\ ~Staff
          /\ earnings' = Max0(seen[p].earnings - Amount)
          /\ GoTo(p, "savePaid") /\ UNCHANGED ledger
       \/ /\ Staff
          /\ ledger' = ledger \cup {target[p]}
          /\ GoTo(p, IF target[p] \in ledger THEN "idle" ELSE "savePaid")
          /\ UNCHANGED earnings
    /\ UNCHANGED <<doc, debits, wallet, credited, moved, net, restored, faults>>

SavePaid(p) ==
    /\ pc[p] = "savePaid"
    /\ doc' = [doc EXCEPT ![target[p]] = [status |-> "paid", tx |-> TRUE]]
    /\ GoTo(p, "idle")
    /\ UNCHANGED <<debits, ledger, balance, faults>>

-----------------------------------------------------------------------------
(* the wallet's other writers *)

\* A settlement credits a coin: wallet and mirror move in one transaction.
Credit ==
    /\ moved < MaxMoves /\ moved' = moved + 1
    /\ wallet' = wallet + 1 /\ earnings' = earnings + 1
    /\ credited' = credited + 1 /\ net' = net + 1
    /\ UNCHANGED <<doc, debits, ledger, restored, pc, target, seen, faults>>

\* claimTaskReward, adjustUserCoins, refundCall, creditMomentUploadReward and
\* its clawback read the user ...
ReadCoins(p) ==
    /\ ~Staff /\ moved < MaxMoves
    /\ Start(p, target[p], "moveRow")
    /\ seen' = [seen EXCEPT ![p] = [coins |-> wallet, earnings |-> earnings, stale |-> restored]]
    /\ UNCHANGED <<books, faults>>

\* ... write a row of coins given or, while the balance read lasts, taken ...
MoveRow(p) ==
    /\ pc[p] = "moveRow"
    /\ moved < MaxMoves /\ moved' = moved + 1
    /\ \/ /\ credited' = credited + 1 /\ net' = net + 1
          /\ GoTo(p, "saveCredit")
       \/ /\ seen[p].coins > 0 /\ net' = net - 1
          /\ GoTo(p, "saveDebit") /\ UNCHANGED credited
    /\ UNCHANGED <<doc, debits, ledger, wallet, earnings, restored, faults>>

\* ... and save the user and, for an upload, the creator with what they read.
SaveCoins(p) ==
    /\ pc[p] \in {"saveCredit", "saveDebit"}
    /\ LET change == IF pc[p] = "saveCredit" THEN 1 ELSE -1 IN
          /\ wallet' = seen[p].coins + change /\ restored' = seen[p].stale
          /\ earnings' \in {earnings, Max0(seen[p].earnings + change)}
    /\ GoTo(p, "idle")
    /\ UNCHANGED <<doc, debits, ledger, credited, moved, net, faults>>

Drift(a, b) == IF a > b THEN a - b ELSE b - a

\* processBalanceMismatchRepairs and the repair on reading a profile: a balance
\* more than one coin off the rows' is set to it.
ReadRows(p) ==
    /\ ~Staff /\ Drift(wallet, Max0(net)) > 1
    /\ Start(p, target[p], "fixBalance")
    /\ seen' = [seen EXCEPT ![p] = [coins |-> Max0(net), earnings |-> 0, stale |-> FALSE]]
    /\ UNCHANGED <<books, faults>>

LedgerBalance == credited - Amount * Cardinality(ledger)

\* Mutant: the reconciliation takes the cached balance for the ledger's.
ReconcileCached(p) ==
    /\ Staff
    /\ \E w \in Withdrawals : Start(p, w, "readBalance")
    /\ seen' = [seen EXCEPT ![p].coins = wallet]
    /\ UNCHANGED <<books, faults>>

\* reconcileStaffBalance, with the auto fix on: sum the ledger, read the
\* balance, and set it when they differ.
Reconcile(p) ==
    /\ Staff
    /\ \E w \in Withdrawals : Start(p, w, "readBalance")
    /\ seen' = [seen EXCEPT ![p].coins = LedgerBalance]
    /\ UNCHANGED <<books, faults>>

ReadBalance(p) ==
    /\ pc[p] = "readBalance"
    /\ GoTo(p, IF wallet = seen[p].coins THEN "idle" ELSE "fixBalance")
    /\ UNCHANGED <<books, faults>>

FixBalance(p) ==
    /\ pc[p] = "fixBalance"
    /\ wallet' = Max0(seen[p].coins) /\ restored' = seen[p].stale
    /\ GoTo(p, "idle")
    /\ UNCHANGED <<doc, debits, ledger, earnings, credited, moved, net, faults>>

Fault(p) ==
    /\ pc[p] /= "idle" /\ faults < MaxFaults
    /\ faults' = faults + 1
    /\ GoTo(p, "idle")
    /\ UNCHANGED books

-----------------------------------------------------------------------------
Continue(p) ==
    \/ FindActive(p) \/ Create(p) \/ CheckBalance(p) \/ SaveApproved(p) \/ SaveRejected(p)
    \/ ReadWallet(p) \/ DebitRow(p) \/ SaveWallet(p) \/ SaveMirror(p) \/ SavePaid(p)
    \/ ReadBalance(p) \/ FixBalance(p) \/ MoveRow(p) \/ SaveCoins(p)

Next ==
    \/ Credit
    \/ \E p \in Executions :
          \/ Request(p) \/ RequestStaff(p) \/ Approve(p) \/ Reject(p) \/ MarkPaid(p) \/ Reconcile(p)
          \/ ReadCoins(p) \/ ReadRows(p) \/ Continue(p) \/ Fault(p)

Spec == Init /\ [][Next]_vars

-----------------------------------------------------------------------------
TypeOK ==
    /\ doc \in [Withdrawals -> [status : Statuses, tx : BOOLEAN]]
    /\ debits \in [Withdrawals -> 0..2]
    /\ ledger \subseteq Withdrawals
    /\ wallet \in Nat /\ earnings \in Nat /\ credited \in Nat /\ moved \in 0..MaxMoves
    /\ net \in Int /\ restored \in BOOLEAN
    /\ pc \in [Executions -> Points] /\ target \in [Executions -> Withdrawals]
    /\ seen \in [Executions -> [coins : Int, earnings : Nat, stale : BOOLEAN]]
    /\ faults \in 0..MaxFaults

\* A withdrawal that is paid, or that carries a transactionId, has its debit
\* row, and for staff its ledger entry, whichever handlers overlapped or
\* stopped on the way (processWithdrawalMarkPaid writes the status last).
PaidMeansDebited ==
    \A w \in Withdrawals :
        doc[w].tx \/ doc[w].status = "paid" =>
            debits[w] > 0 /\ (Staff => w \in ledger)

\* Once a creator withdrawal is paid the coins of one payout at least are gone
\* from the wallet: overlapping payouts do not bring back all that was credited,
\* and no other handler does unless it sets the balance from a read, or a repair
\* from a sum of rows, that precedes the payout.
PaidLeftTheWallet ==
    (\E w \in Withdrawals : doc[w].status = "paid") /\ ~restored => wallet + Amount <= credited

\* The staff balance is what the ledger says.
BalanceIsLedger == wallet = LedgerBalance
=============================================================================
