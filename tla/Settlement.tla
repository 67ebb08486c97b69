----------------------------- MODULE Settlement -----------------------------
(***************************************************************************)
(* settleCall: the MongoDB transaction that moves the money of one ended   *)
(* call.  Several executions ("settlers") may be inside it at once, since  *)
(* the Redis locks that guard it can expire or be drained; what then keeps *)
(* the balances right is the transaction, its ledger rows and its retry    *)
(* loop, which is what this module describes.                              *)
(*                                                                         *)
(* A transaction works on the snapshot it took with its first read         *)
(* (view), collects the documents it wrote (wrote) and the documents that  *)
(* somebody else committed since (stale).  A write succeeds only on a      *)
(* document that is neither stale nor written by another open transaction; *)
(* otherwise the server aborts the transaction with a transient error.     *)
(***************************************************************************)
EXTENDS Money

CONSTANTS
    Settlers,        \* concurrent executions of settleCall for the call
    Totals,          \* [wallet, intro, earned]: micros an execution may read
    InitialCoins,    \* the caller's wallet when the call ends
    BdBps,           \* commission of the BD (0: the agency has no BD)
    AgencyBps,       \* commission of the agency (0: no agency)
    MaxAttempts,     \* SETTLEMENT_TXN_MAX_ATTEMPTS
    MaxDeposit       \* bound: coins that reach the wallet from elsewhere

ASSUME TotalsAssumption ==
    Totals \subseteq [wallet : Nat, intro : Nat, earned : Nat]
ASSUME CoinsAssumption == InitialCoins \in Nat /\ MaxDeposit \in Nat
ASSUME BpsAssumption   == BdBps \in Nat /\ AgencyBps \in Nat
ASSUME AttemptsAssumption == MaxAttempts \in Nat \ {0}

(***************************************************************************)
(* The documents of one call, each reduced to a number: balances (wallet,  *)
(* host, bd, agency), the coins on ledger rows (debit, credit, bdLine,     *)
(* agencyLine; 0 = no row), and flags: promo = unused intro credits,       *)
(* creator = the creator documents exist, history = the caller's           *)
(* CallHistory row is settled, hostHistory = 1 + coinsEarned of the        *)
(* creator's row (0 = not settled).                                        *)
(***************************************************************************)
Docs == {"wallet", "promo", "debit", "host", "credit", "bd", "bdLine",
         "agency", "agencyLine", "creator", "history", "hostHistory"}

Stages == {"begin", "debit", "promo", "credit", "staff", "history", "commit",
           "doomed"}

VARIABLES
    db,         \* committed documents
    deposited,  \* coins other parts of the system added to the wallet
    pc,         \* stage of each settler ("idle" outside settleCall)
    attempt,    \* attempt of the transaction loop
    totals,     \* the totals the settler read
    earn,       \* totalEarnedCreator, declared outside the attempt loop
    view,       \* snapshot plus own writes of the open transaction
    wrote,      \* documents written by the open transaction
    stale,      \* documents committed by others since the snapshot
    outcome     \* how the settler's last execution ended

vars == <<db, deposited, pc, attempt, totals, earn, view, wrote, stale, outcome>>

EmptyDb == [d \in Docs |-> IF d = "wallet" THEN InitialCoins
                           ELSE IF d \in {"promo", "creator"} THEN 1 ELSE 0]

NoTotals == [wallet |-> 0, intro |-> 0, earned |-> 0]

Init ==
    /\ db        = EmptyDb
    /\ deposited = 0
    /\ pc        = [s \in Settlers |-> "idle"]
    /\ attempt   = [s \in Settlers |-> 0]
    /\ totals    = [s \in Settlers |-> NoTotals]
    /\ earn      = [s \in Settlers |-> 0]
    /\ view      = [s \in Settlers |-> EmptyDb]
    /\ wrote     = [s \in Settlers |-> {}]
    /\ stale     = [s \in Settlers |-> {}]
    /\ outcome   = [s \in Settlers |-> "none"]

-----------------------------------------------------------------------------
InTxn(s) == pc[s] \in {"debit", "promo", "credit", "staff", "history", "commit"}

\* Mutant: the debit is rounded down.
UserTargetRoundedDown(s) == microsToCreatorCreditWholeCoins(totals[s].wallet)

UserTarget(s) == microsToUserDebitWholeCoins(totals[s].wallet)

\* The documents of W can be written by s without a write conflict.
NoConflict(s, W) ==
    /\ W \cap stale[s] = {}
    /\ \A t \in Settlers \ {s} : W \cap wrote[t] = {}

\* The stage writes the documents of W as given by new, and moves on.
Write(s, W, new, next) ==
    /\ NoConflict(s, W)
    /\ view'  = [view EXCEPT ![s] = [d \in Docs |-> IF d \in W THEN new[d] ELSE view[s][d]]]
    /\ wrote' = [wrote EXCEPT ![s] = @ \cup W]
    /\ pc'    = [pc EXCEPT ![s] = next]
    /\ UNCHANGED <<db, deposited, attempt, totals, stale, outcome>>

\* What somebody commits is stale for every other open transaction.
Stale(s, W) == [t \in Settlers |-> IF InTxn(t) /\ t # s THEN stale[t] \cup W ELSE {}]

\* Mutant: the transaction is left open.
CloseKeepsLocks(s) ==
    /\ view' = [view EXCEPT ![s] = EmptyDb]
    /\ UNCHANGED wrote

\* The open transaction of s is gone: its locks and snapshot with it.
Close(s) ==
    /\ wrote' = [wrote EXCEPT ![s] = {}]
    /\ view'  = [view EXCEPT ![s] = EmptyDb]

\* The execution ends.
Leave(s, result) ==
    /\ Close(s)
    /\ pc'      = [pc EXCEPT ![s] = "idle"]
    /\ outcome' = [outcome EXCEPT ![s] = result]
    /\ attempt' = [attempt EXCEPT ![s] = 0]
    /\ totals'  = [totals EXCEPT ![s] = NoTotals]
    /\ earn'    = [earn EXCEPT ![s] = 0]

\* An error that isTransientMongoTransactionError accepts starts the
\* transaction again while attempts remain; earn and totals are variables of
\* the function, not of the attempt, and keep their values.
RetryOrThrow(s) ==
    /\ UNCHANGED <<db, deposited>>
    /\ stale' = [stale EXCEPT ![s] = {}]
    /\ \/ /\ attempt[s] + 1 < MaxAttempts
          /\ attempt' = [attempt EXCEPT ![s] = @ + 1]
          /\ pc'      = [pc EXCEPT ![s] = "begin"]
          /\ Close(s)
          /\ UNCHANGED <<totals, earn, outcome>>
       \/ /\ attempt[s] + 1 >= MaxAttempts
          /\ Leave(s, "thrown")

-----------------------------------------------------------------------------
(* The stages of settleCall. *)

\* The settler reads the totals and finds no settled CallHistory row.
Enter(s) ==
    /\ pc[s] = "idle"
    /\ db["history"] = 0
    /\ \E t \in Totals :
         /\ totals' = [totals EXCEPT ![s] = t]
         /\ earn'   = [earn EXCEPT ![s] = microsToCreatorCreditWholeCoins(t.earned)]
    /\ pc'      = [pc EXCEPT ![s] = "begin"]
    /\ outcome' = [outcome EXCEPT ![s] = "none"]
    /\ UNCHANGED <<db, deposited, attempt, view, wrote, stale>>

\* The row is already settled: idempotent exit.
IdempotentExit(s) ==
    /\ pc[s] = "idle"
    /\ db["history"] = 1
    /\ outcome' = [outcome EXCEPT ![s] = "duplicate"]
    /\ UNCHANGED <<db, deposited, pc, attempt, totals, earn, view, wrote, stale>>

\* startTransaction; the first read (the user) takes the snapshot.
StartTxn(s) ==
    /\ pc[s] = "begin"
    /\ view' = [view EXCEPT ![s] = db]
    /\ pc'   = [pc EXCEPT ![s] = "debit"]
    /\ UNCHANGED <<db, deposited, attempt, totals, earn, wrote, stale, outcome>>

\* Mutant: the whole target is debited, whatever the debit row shows.
DebitUserAgain(s) ==
    /\ pc[s] = "debit"
    /\ Write(s, {"wallet", "debit"},
             [view[s] EXCEPT !["wallet"] = WalletAfterDebit(@, UserTarget(s)),
                             !["debit"]  = UserTarget(s)], "promo")
    /\ UNCHANGED earn

\* Mutant: no debit row is written.
DebitUserWithoutRow(s) ==
    LET delta == OwedDelta(UserTarget(s), view[s]["debit"])
    IN  /\ pc[s] = "debit"
        /\ Write(s, {"wallet"}, [view[s] EXCEPT !["wallet"] = WalletAfterDebit(@, delta)], "promo")
        /\ UNCHANGED earn

\* Debit what the debit row does not show yet, then upsert the row.
DebitUser(s) ==
    LET target == UserTarget(s)
        delta  == OwedDelta(target, view[s]["debit"])
        W      == {d \in {"wallet"} : delta > 0} \cup {d \in {"debit"} : target > 0}
    IN  /\ pc[s] = "debit"
        /\ Write(s, W, [view[s] EXCEPT !["wallet"] = WalletAfterDebit(@, delta),
                                       !["debit"]  = target], "promo")
        /\ UNCHANGED earn

\* Mutant: the update does not take part in the transaction.
ConsumeIntroPromoOutside(s) ==
    /\ pc[s] = "promo"
    /\ db' = [db EXCEPT !["promo"] = 0]
    /\ pc' = [pc EXCEPT ![s] = "credit"]
    /\ UNCHANGED <<deposited, attempt, totals, earn, view, wrote, stale, outcome>>

\* Intro credits are consumed once, by a filtered update of the user.
ConsumeIntroPromo(s) ==
    LET W == {d \in {"wallet", "promo"} : totals[s].intro > 0 /\ view[s]["promo"] = 1}
    IN  /\ pc[s] = "promo"
        /\ Write(s, W, [view[s] EXCEPT !["promo"] = 0], "credit")
        /\ UNCHANGED earn

\* Mutant: the whole amount is credited, whatever the credit row shows.
CreditCreatorAgain(s) ==
    /\ pc[s] = "credit"
    /\ earn[s] > 0
    /\ view[s]["creator"] = 1
    /\ Write(s, {"credit", "host"},
             [view[s] EXCEPT !["host"] = @ + earn[s], !["credit"] = earn[s]], "staff")
    /\ UNCHANGED earn

\* Credit what the credit row does not show yet, then upsert the row.
CreditCreator(s) ==
    LET delta == OwedDelta(earn[s], view[s]["credit"])
    IN  /\ pc[s] = "credit"
        /\ earn[s] > 0
        /\ view[s]["creator"] = 1
        /\ Write(s, {"credit"} \cup {d \in {"host"} : delta > 0},
                 [view[s] EXCEPT !["host"] = @ + delta, !["credit"] = earn[s]], "staff")
        /\ UNCHANGED earn

\* Nothing to credit, or the creator documents are missing: settle without.
SkipCreator(s) ==
    /\ pc[s] = "credit"
    /\ earn[s] = 0 \/ view[s]["creator"] = 0
    /\ earn' = [earn EXCEPT ![s] = 0]
    /\ Write(s, {}, view[s], "history")

\* Mutant: the agency's cut is taken of what the caller paid.
SplitStaffRevenueOfPrice(s) ==
    LET cut == StaffCut(UserTarget(s), AgencyBps)
    IN  /\ pc[s] = "staff"
        /\ Write(s, {d \in {"agency", "agencyLine"} : view[s]["agencyLine"] = 0},
                 [view[s] EXCEPT !["agency"] = @ + cut, !["agencyLine"] = cut], "history")
        /\ UNCHANGED earn

\* BD and agency each get their cut, once per idempotency key.
SplitStaffRevenue(s) ==
    LET bdCut     == StaffCut(earn[s], BdBps)
        agencyCut == StaffCut(earn[s], AgencyBps)
        W == {d \in {"bd", "bdLine"} : bdCut > 0 /\ view[s]["bdLine"] = 0} \cup
             {d \in {"agency", "agencyLine"} : agencyCut > 0 /\ view[s]["agencyLine"] = 0}
    IN  /\ pc[s] = "staff"
        /\ Write(s, W, [view[s] EXCEPT !["bd"] = @ + bdCut,
                                       !["bdLine"] = bdCut,
                                       !["agency"] = @ + agencyCut,
                                       !["agencyLine"] = agencyCut], "history")
        /\ UNCHANGED earn

\* The creator block swallows its errors and carries on with nothing earned.
\* A server error has already aborted the transaction ...
CreatorBlockAborted(s) ==
    /\ pc[s] \in {"credit", "staff"}
    /\ earn[s] > 0
    /\ earn'  = [earn EXCEPT ![s] = 0]
    /\ pc'    = [pc EXCEPT ![s] = "doomed"]
    /\ stale' = [stale EXCEPT ![s] = {}]
    /\ Close(s)
    /\ UNCHANGED <<db, deposited, attempt, totals, outcome>>

\* ... so that the next statement finds no transaction, a transient error ...
DoomedStatementFails(s) ==
    /\ pc[s] = "doomed"
    /\ RetryOrThrow(s)

\* ... while a failure outside the session (the commission rates are read
\* without it) leaves the transaction open with what it has written.
CommissionLookupThrows(s) ==
    /\ pc[s] = "staff"
    /\ AgencyBps > 0
    /\ earn' = [earn EXCEPT ![s] = 0]
    /\ Write(s, {}, view[s], "history")

\* Both CallHistory rows become settled; the creator's only if it exists.
UpsertCallHistory(s) ==
    /\ pc[s] = "history"
    /\ Write(s, {"history"} \cup {d \in {"hostHistory"} : view[s]["creator"] = 1},
             [view[s] EXCEPT !["history"] = 1, !["hostHistory"] = 1 + earn[s]], "commit")
    /\ UNCHANGED earn

Commit(s) ==
    /\ pc[s] = "commit"
    /\ db' = [d \in Docs |-> IF d \in wrote[s] THEN view[s][d] ELSE db[d]]
    /\ stale' = Stale(s, wrote[s])
    /\ Leave(s, "settled")
    /\ UNCHANGED deposited

\* Mutant: an unknown commit result is taken for a success.
CommitUnknownAssumed(s) ==
    /\ pc[s] = "commit"
    /\ Leave(s, "settled")
    /\ stale' = [stale EXCEPT ![s] = {}]
    /\ UNCHANGED <<db, deposited>>

\* UnknownTransactionCommitResult of a commit that was not applied: a call
\* that is settled anyway counts as success.  (One that was applied is seen
\* settled, which is the step Commit.)
CommitUnknown(s) ==
    /\ pc[s] = "commit"
    /\ \/ /\ db["history"] = 1
          /\ Leave(s, "settled")
          /\ stale' = [stale EXCEPT ![s] = {}]
          /\ UNCHANGED <<db, deposited>>
       \/ /\ db["history"] = 0
          /\ RetryOrThrow(s)

\* A transient error: a write conflict, a fail-over, a lost connection.
TransientError(s) ==
    /\ pc[s] \in {"debit", "promo", "history", "commit"}
    /\ RetryOrThrow(s)

\* Any other error leaves the loop at once, and so does a crash.
Throw(s, result) ==
    /\ pc[s] \in Stages
    /\ result = "crashed" \/ pc[s] \notin {"credit", "staff"}
    /\ Leave(s, result)
    /\ stale' = [stale EXCEPT ![s] = {}]
    /\ UNCHANGED <<db, deposited>>

-----------------------------------------------------------------------------
(* The rest of the system. *)

\* Another flow (a payment, a reward) credits the wallet; a write outside a
\* transaction waits for open transactions that hold the document.
Deposit ==
    /\ deposited < MaxDeposit
    /\ \A t \in Settlers : "wallet" \notin wrote[t]
    /\ deposited' = deposited + 1
    /\ db'    = [db EXCEPT !["wallet"] = @ + 1]
    /\ stale' = [t \in Settlers |-> IF InTxn(t) THEN stale[t] \cup {"wallet"} ELSE {}]
    /\ UNCHANGED <<pc, attempt, totals, earn, view, wrote, outcome>>

\* An administrator removes the creator, which also rewrites the user
\* document that holds the creator's balance; it fails while a transaction
\* holds that document.
DeleteCreator ==
    /\ db["creator"] = 1
    /\ \A t \in Settlers : "host" \notin wrote[t]
    /\ db' = [db EXCEPT !["creator"] = 0]
    /\ stale' = [t \in Settlers |-> IF InTxn(t) THEN stale[t] \cup {"host"} ELSE {}]
    /\ UNCHANGED <<deposited, pc, attempt, totals, earn, view, wrote, outcome>>

SettleStep(s) ==
    \/ Enter(s) \/ IdempotentExit(s) \/ StartTxn(s) \/ DebitUser(s)
    \/ ConsumeIntroPromo(s) \/ CreditCreator(s) \/ SkipCreator(s)
    \/ SplitStaffRevenue(s) \/ UpsertCallHistory(s) \/ Commit(s)

FaultStep(s) ==
    \/ CreatorBlockAborted(s) \/ DoomedStatementFails(s)
    \/ CommissionLookupThrows(s) \/ CommitUnknown(s) \/ TransientError(s)
    \/ Throw(s, "thrown") \/ Throw(s, "crashed")

Next ==
    \/ \E s \in Settlers : SettleStep(s) \/ FaultStep(s)
    \/ Deposit
    \/ DeleteCreator

Spec == Init /\ [][Next]_vars

-----------------------------------------------------------------------------
(* Properties. *)

\* Coins this call has taken from the wallet so far.
Charged == InitialCoins + deposited - db["wallet"]

Targets == {microsToUserDebitWholeCoins(t.wallet) : t \in Totals}
Earnings == {microsToCreatorCreditWholeCoins(t.earned) : t \in Totals}

\* Every variable has its type; a settler outside a transaction holds no
\* write lock and no snapshot.
TypeOK ==
    /\ db \in [Docs -> Nat]
    /\ deposited \in 0 .. MaxDeposit
    /\ pc \in [Settlers -> Stages \cup {"idle"}]
    /\ attempt \in [Settlers -> 0 .. MaxAttempts - 1]
    /\ totals \in [Settlers -> Totals \cup {NoTotals}]
    /\ earn \in [Settlers -> Earnings \cup {0}]
    /\ view \in [Settlers -> [Docs -> Nat]]
    /\ wrote \in [Settlers -> SUBSET Docs]
    /\ stale \in [Settlers -> SUBSET Docs]
    /\ outcome \in [Settlers -> {"none", "settled", "duplicate", "thrown", "crashed"}]
    /\ \A s \in Settlers : ~InTxn(s) => wrote[s] = {} /\ stale[s] = {}

\* However many executions run, retry, conflict or crash, a wallet has been
\* credited exactly what its ledger rows show: the creator's, the BD's and
\* the agency's (billing-settlement.service.ts:706-774 and 808-882).
WalletsMatchLedger ==
    /\ db["host"] = db["credit"]
    /\ db["bd"] = db["bdLine"]
    /\ db["agency"] = db["agencyLine"]

\* A settled call has its debit row, and the caller paid exactly that amount,
\* or less only because the wallet was emptied (billing-settlement.service.ts
\* :605-663, the $max floor).
SettledChargedInFull ==
    db["history"] = 1 =>
        \E target \in Targets :
            /\ target = db["debit"]
            /\ \/ Charged = target
               \/ /\ Charged < target
                  /\ InitialCoins <= Charged
                  /\ Charged <= InitialCoins + deposited

\* The caller is never charged more than one settlement's worth, before the
\* call is settled and after ("balance moves once").
ChargedAtMostOnce == \E target \in Targets : Charged <= target

\* Staff commission exists only next to the creator credit it is a cut of.
StaffCutOfCreditedEarnings ==
    /\ db["bdLine"] \in {0, StaffCut(db["credit"], BdBps)}
    /\ db["agencyLine"] \in {0, StaffCut(db["credit"], AgencyBps)}

\* settleCall reports success only for a call whose history is settled, also
\* when the commit's result was unknown (billing-settlement.service.ts:1030).
SuccessMeansSettled ==
    \A s \in Settlers : outcome[s] \in {"settled", "duplicate"} => db["history"] = 1

\* A step that finds the call settled takes nothing from the wallet, whatever
\* executions were already past the idempotency check (billing-settlement
\* .service.ts:403-426 is not repeated inside the retry loop).
NoChargeAfterSettled == [][db["history"] = 1 => db'["wallet"] >= db["wallet"]]_vars

\* The intro credits are consumed only in the transaction that settles.
PromoConsumedWithSettlement ==
    [][db'["promo"] # db["promo"] => db'["history"] = 1]_vars

\* The comment at billing-settlement.service.ts:687-688: a call is settled
\* without creator credit only when creator documents are missing.
UncreditedOnlyIfCreatorMissing ==
    db["history"] = 1 /\ db["creator"] = 1 => db["credit"] \in Earnings

\* The creator's CallHistory row shows as earned what the credit row shows.
HistoryShowsCredit ==
    db["hostHistory"] > 0 => db["hostHistory"] = 1 + db["credit"]
=============================================================================
