------------------------ MODULE SettlementRefinement ------------------------
(***************************************************************************)
(* The transaction of Settlement implements CallAccount when its           *)
(* executions read the same totals: every commit is a Settle or a          *)
(* CompleteCredit, and every other step stutters or is a Deposit.          *)
(***************************************************************************)
EXTENDS Settlement

CallTotals == CHOOSE t \in Totals : TRUE

Price  == microsToUserDebitWholeCoins(CallTotals.wallet)
Earned == microsToCreatorCreditWholeCoins(CallTotals.earned)

Account == INSTANCE CallAccount WITH
    BdCut     <- StaffCut(Earned, BdBps),
    AgencyCut <- StaffCut(Earned, AgencyBps),
    wallet    <- db["wallet"],
    debit     <- db["debit"],
    host      <- db["host"],
    bd        <- db["bd"],
    agency    <- db["agency"],
    settled   <- db["history"] = 1

\* settleCall, with its concurrent executions, retries and crashes, moves
\* money the way the abstract account does (billing-settlement.service.ts
\* :571-1109).
ImplementsAccount == Account!Spec

-----------------------------------------------------------------------------
(***************************************************************************)
(* The inductive invariant behind the refinement and the safety properties *)
(* of Settlement.  Account-level facts about the committed documents are   *)
(* not inductive: one has to know that an open transaction computed its    *)
(* writes from values that are still the committed ones.                   *)
(***************************************************************************)
Uniform == Totals # {} /\ \A t \in Totals : t = CallTotals

BdCut     == StaffCut(Earned, BdBps)
AgencyCut == StaffCut(Earned, AgencyBps)

CreditDocs == {"credit", "host", "bd", "bdLine", "agency", "agencyLine"}
StaffDocs  == {"bd", "bdLine", "agency", "agencyLine"}

\* The committed documents: nothing moves before the call is settled, and
\* afterwards the rows show the fixed amounts.
Committed ==
    /\ db["history"] \in {0, 1}
    /\ db["history"] = 0 => /\ db["wallet"] = InitialCoins + deposited
                            /\ \A d \in CreditDocs \cup {"debit"} : db[d] = 0
    /\ db["history"] = 1 => /\ db["debit"] = Price
                            /\ Charged >= 0
                            /\ \/ Charged = Price
                               \/ /\ Charged < Price
                                  /\ InitialCoins <= Charged
                                  /\ Charged <= InitialCoins + deposited
    /\ db["credit"] \in {0, Earned}
    /\ db["host"] = db["credit"]
    /\ db["bdLine"] \in {0, BdCut}
    /\ db["bd"] = db["bdLine"]
    /\ db["agencyLine"] \in {0, AgencyCut}
    /\ db["agency"] = db["agencyLine"]
    /\ (db["bdLine"] # 0 \/ db["agencyLine"] # 0) => db["credit"] = Earned

\* The function-level variables of a running settler.
Locals(s) ==
    /\ pc[s] \in Stages => totals[s] = CallTotals
    /\ earn[s] \in {0, Earned}
    /\ pc[s] = "staff" => earn[s] = Earned /\ Earned > 0

\* Which documents a transaction can have written at its stage.
WroteByStage(s) ==
    /\ pc[s] = "debit" => wrote[s] = {}
    /\ pc[s] \in {"promo", "credit"} => wrote[s] \cap (CreditDocs \cup {"history"}) = {}
    /\ pc[s] = "staff" => "credit" \in wrote[s] /\ wrote[s] \cap (StaffDocs \cup {"history"}) = {}
    /\ pc[s] = "history" => "history" \notin wrote[s]
    /\ pc[s] = "commit" => "history" \in wrote[s] /\ view[s]["history"] = 1
    /\ InTxn(s) /\ pc[s] # "debit" /\ Price > 0 => "debit" \in wrote[s]
    /\ InTxn(s) /\ pc[s] # "debit" /\ OwedDelta(Price, db["debit"]) > 0 => "wallet" \in wrote[s]

\* Locks are exclusive, and what is neither stale nor written is current.
Isolation(s) ==
    /\ wrote[s] \cap stale[s] = {}
    /\ \A t \in Settlers \ {s} : wrote[s] \cap wrote[t] = {}
    /\ InTxn(s) => \A d \in Docs \ {"creator"} :
                       d \notin stale[s] \cup wrote[s] => view[s][d] = db[d]

\* The pending writes, in terms of the committed values they will replace.
PendingDebit(s) ==
    /\ "debit" \in wrote[s] => view[s]["debit"] = Price
    /\ "wallet" \in wrote[s] =>
         view[s]["wallet"] = WalletAfterDebit(db["wallet"], OwedDelta(Price, db["debit"]))

PendingCredit(s) ==
    /\ "credit" \in wrote[s] => view[s]["credit"] = Earned
    /\ "host" \in wrote[s] => /\ "credit" \in wrote[s]
                              /\ view[s]["host"] = db["host"] + OwedDelta(Earned, db["credit"])
    /\ "credit" \in wrote[s] /\ OwedDelta(Earned, db["credit"]) > 0 => "host" \in wrote[s]

PendingStaff(s) ==
    /\ "bd" \in wrote[s] <=> "bdLine" \in wrote[s]
    /\ "agency" \in wrote[s] <=> "agencyLine" \in wrote[s]
    /\ "bdLine" \in wrote[s] => /\ "credit" \in wrote[s]
                                /\ view[s]["bdLine"] = BdCut
                                /\ view[s]["bd"] = db["bd"] + BdCut
                                /\ db["bdLine"] = 0
    /\ "agencyLine" \in wrote[s] => /\ "credit" \in wrote[s]
                                    /\ view[s]["agencyLine"] = AgencyCut
                                    /\ view[s]["agency"] = db["agency"] + AgencyCut
                                    /\ db["agencyLine"] = 0

TxnInv(s) ==
    /\ Locals(s)
    /\ WroteByStage(s)
    /\ Isolation(s)
    /\ PendingDebit(s)
    /\ PendingCredit(s)
    /\ PendingStaff(s)

\* A settler that reported success did so for a settled call.
Reported(s) == outcome[s] \in {"settled", "duplicate"} => db["history"] = 1

\* Transactions work on current values, hold exclusive locks and, committed,
\* leave the rows and balances of one settlement (billing-settlement
\* .service.ts:571-1109); the invariant from which the theorems follow.
TransactionInvariant ==
    /\ TypeOK
    /\ Committed
    /\ \A s \in Settlers : TxnInv(s) /\ Reported(s)
=============================================================================
