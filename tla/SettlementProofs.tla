-------------------------- MODULE SettlementProofs --------------------------
(***************************************************************************)
(* Proofs about settleCall for any number of concurrent executions, any    *)
(* totals, any commission rates and any number of attempts, as long as the *)
(* executions read the same totals (Uniform).                              *)
(***************************************************************************)
EXTENDS SettlementRefinement, TLAPS

\* Whole-coin conversions divide naturals by a positive number.
LEMMA DivNat == \A m, c \in Nat : c > 0 => m \div c \in Nat
  BY Z3

\* The call's totals exist, and its price, earnings and cuts are naturals.
LEMMA AmountsNat ==
  ASSUME Uniform
  PROVE  /\ CallTotals \in Totals
         /\ CallTotals \in [wallet : Nat, intro : Nat, earned : Nat]
         /\ Price \in Nat /\ Earned \in Nat
         /\ BdCut \in Nat /\ AgencyCut \in Nat
<1>1. CallTotals \in Totals
  BY DEF Uniform, CallTotals
<1>2. CallTotals \in [wallet : Nat, intro : Nat, earned : Nat]
  BY <1>1, TotalsAssumption
<1>3. CallTotals.wallet \in Nat /\ CallTotals.earned \in Nat
  BY <1>2
<1>4. Price \in Nat
  <2>1. CASE CallTotals.wallet = 0
    BY <2>1 DEF Price, microsToUserDebitWholeCoins
  <2>2. CASE CallTotals.wallet > 0
    <3>1. CallTotals.wallet + CoinMicros - 1 \in Nat /\ CoinMicros \in Nat /\ CoinMicros > 0
      BY <1>3, <2>2, CoinMicrosAssumption
    <3>2. (CallTotals.wallet + CoinMicros - 1) \div CoinMicros \in Nat
      BY <3>1, DivNat
    <3> QED BY <1>3, <2>2, <3>2 DEF Price, microsToUserDebitWholeCoins
  <2> QED BY <1>3, <2>1, <2>2
<1>5. Earned \in Nat
  <2>1. CallTotals.earned \div CoinMicros \in Nat
    BY <1>3, DivNat, CoinMicrosAssumption
  <2> QED BY <1>3, <2>1 DEF Earned, microsToCreatorCreditWholeCoins
<1>6. \A bps \in Nat : StaffCut(Earned, bps) \in Nat
  <2> SUFFICES ASSUME NEW bps \in Nat PROVE StaffCut(Earned, bps) \in Nat
    OBVIOUS
  <2>1. Earned * bps \in Nat
    BY <1>5
  <2> QED BY <2>1, DivNat DEF StaffCut
<1>7. BdCut \in Nat /\ AgencyCut \in Nat
  BY <1>6, BpsAssumption DEF BdCut, AgencyCut
<1> QED BY <1>1, <1>2, <1>4, <1>5, <1>7

\* Every amount a settler can compute is a natural number.
LEMMA EarningsNat ==
  /\ Earnings \cup {0} \subseteq Nat
  /\ \A t \in Totals \cup {NoTotals} : microsToUserDebitWholeCoins(t.wallet) \in Nat
  /\ \A e, bps \in Nat : StaffCut(e, bps) \in Nat
<1>1. \A m \in Nat : microsToCreatorCreditWholeCoins(m) \in Nat
  BY DivNat, CoinMicrosAssumption DEF microsToCreatorCreditWholeCoins
<1>2. \A m \in Nat : microsToUserDebitWholeCoins(m) \in Nat
  <2> SUFFICES ASSUME NEW m \in Nat, m > 0
               PROVE  (m + CoinMicros - 1) \div CoinMicros \in Nat
    BY DEF microsToUserDebitWholeCoins
  <2>1. m + CoinMicros - 1 \in Nat /\ CoinMicros \in Nat /\ CoinMicros > 0
    BY CoinMicrosAssumption
  <2> QED BY <2>1, DivNat
<1>3. \A t \in Totals \cup {NoTotals} : t.wallet \in Nat /\ t.earned \in Nat
  BY TotalsAssumption DEF NoTotals
<1>4. \A e, bps \in Nat : StaffCut(e, bps) \in Nat
  <2> SUFFICES ASSUME NEW e \in Nat, NEW bps \in Nat PROVE StaffCut(e, bps) \in Nat
    OBVIOUS
  <2>1. e * bps \in Nat
    OBVIOUS
  <2> QED BY <2>1, DivNat DEF StaffCut
<1>5. \A e \in Earnings : e \in Nat
  BY <1>1, <1>3 DEF Earnings
<1>6. \A t \in Totals \cup {NoTotals} : microsToUserDebitWholeCoins(t.wallet) \in Nat
  BY <1>2, <1>3
<1> QED BY <1>4, <1>5, <1>6

\* The initial state has the declared types.
LEMMA InitType == Init => TypeOK
  BY CoinsAssumption, AttemptsAssumption
  DEF Init, TypeOK, EmptyDb, Docs, NoTotals, Earnings, Stages, InTxn

\* A write keeps the types and moves to a stage inside the transaction.
LEMMA WriteType ==
  ASSUME TypeOK, NEW s \in Settlers, NEW W \in SUBSET Docs, NEW new, NEW next,
         \A d \in W : new[d] \in Nat,
         next \in {"promo", "credit", "staff", "history", "commit"},
         earn' \in [Settlers -> Earnings \cup {0}],
         InTxn(s), Write(s, W, new, next)
  PROVE  TypeOK'
<1>1. view' \in [Settlers -> [Docs -> Nat]]
  BY DEF TypeOK, Write
<1>2. wrote' \in [Settlers -> SUBSET Docs]
  BY DEF TypeOK, Write
<1>3. pc' \in [Settlers -> Stages \cup {"idle"}]
  BY DEF TypeOK, Write, Stages
<1>4. \A t \in Settlers : ~InTxn(t)' => wrote'[t] = {} /\ stale'[t] = {}
  BY DEF TypeOK, Write, InTxn
<1> QED BY <1>1, <1>2, <1>3, <1>4 DEF TypeOK, Write

\* The documents of a call that has not been settled have their type.
LEMMA EmptyDbType == EmptyDb \in [Docs -> Nat]
  BY CoinsAssumption DEF EmptyDb, Docs

\* The end of an execution keeps the types.
LEMMA LeaveType ==
  ASSUME TypeOK, NEW s \in Settlers,
         NEW result \in {"none", "settled", "duplicate", "thrown", "crashed"},
         db' \in [Docs -> Nat], deposited' = deposited,
         stale' \in [Settlers -> SUBSET Docs], stale'[s] = {},
         \A t \in Settlers \ {s} : ~InTxn(t) => stale'[t] = {},
         Leave(s, result)
  PROVE  TypeOK'
<1>1. \A t \in Settlers : ~InTxn(t)' => wrote'[t] = {} /\ stale'[t] = {}
  BY DEF TypeOK, Leave, Close, InTxn
<1>2. view' \in [Settlers -> [Docs -> Nat]]
  BY EmptyDbType DEF TypeOK, Leave, Close
<1>3. attempt' \in [Settlers -> 0 .. MaxAttempts - 1]
  BY AttemptsAssumption DEF TypeOK, Leave
<1> QED BY <1>1, <1>2, <1>3 DEF TypeOK, Leave, Close

\* A retried or abandoned attempt keeps the types.
LEMMA RetryOrThrowType ==
  ASSUME TypeOK, NEW s \in Settlers, RetryOrThrow(s)
  PROVE  TypeOK'
<1>1. CASE attempt[s] + 1 < MaxAttempts /\ attempt' = [attempt EXCEPT ![s] = @ + 1]
           /\ pc' = [pc EXCEPT ![s] = "begin"] /\ Close(s) /\ UNCHANGED <<totals, earn, outcome>>
  <2>1. \A t \in Settlers : ~InTxn(t)' => wrote'[t] = {} /\ stale'[t] = {}
    BY <1>1 DEF TypeOK, RetryOrThrow, Close, InTxn
  <2>2. view' \in [Settlers -> [Docs -> Nat]]
    BY <1>1, EmptyDbType DEF TypeOK, Close
  <2>3. attempt' \in [Settlers -> 0 .. MaxAttempts - 1]
    BY <1>1, AttemptsAssumption DEF TypeOK
  <2>4. pc' \in [Settlers -> Stages \cup {"idle"}]
    BY <1>1 DEF TypeOK, Stages
  <2> QED BY <1>1, <2>1, <2>2, <2>3, <2>4 DEF TypeOK, RetryOrThrow, Close
<1>2. CASE Leave(s, "thrown")
  BY <1>2, LeaveType DEF TypeOK, RetryOrThrow
<1> QED BY <1>1, <1>2 DEF RetryOrThrow

\* Every action keeps the types.
LEMMA NextType == TypeOK /\ [Next]_vars => TypeOK'
<1> SUFFICES ASSUME TypeOK, [Next]_vars PROVE TypeOK'
  OBVIOUS
<1>0. ASSUME NEW s \in Settlers
      PROVE  /\ view[s] \in [Docs -> Nat] /\ earn[s] \in Nat /\ UserTarget(s) \in Nat
             /\ \A d \in Docs : view[s][d] \in Nat
  <2>1. totals[s] \in Totals \cup {NoTotals} /\ earn[s] \in Earnings \cup {0}
    BY DEF TypeOK
  <2>2. UserTarget(s) \in Nat /\ earn[s] \in Nat
    BY <2>1, EarningsNat DEF UserTarget
  <2> QED BY <2>2 DEF TypeOK
<1>1. ASSUME NEW s \in Settlers, Enter(s) PROVE TypeOK'
  <2>1. PICK t \in Totals : /\ totals' = [totals EXCEPT ![s] = t]
                            /\ earn' = [earn EXCEPT ![s] = microsToCreatorCreditWholeCoins(t.earned)]
    BY <1>1 DEF Enter
  <2>2. earn' \in [Settlers -> Earnings \cup {0}]
    BY <2>1 DEF TypeOK, Earnings
  <2>3. totals' \in [Settlers -> Totals \cup {NoTotals}]
    BY <2>1 DEF TypeOK
  <2>4. \A u \in Settlers : ~InTxn(u)' => wrote'[u] = {} /\ stale'[u] = {}
    BY <1>1 DEF TypeOK, Enter, InTxn
  <2> QED BY <1>1, <2>2, <2>3, <2>4 DEF TypeOK, Enter, Stages
<1>2. ASSUME NEW s \in Settlers, IdempotentExit(s) PROVE TypeOK'
  BY <1>2 DEF TypeOK, IdempotentExit, InTxn
<1>3. ASSUME NEW s \in Settlers, StartTxn(s) PROVE TypeOK'
  BY <1>3 DEF TypeOK, StartTxn, InTxn, Stages
<1>4. ASSUME NEW s \in Settlers, DebitUser(s) PROVE TypeOK'
  <2> DEFINE target == UserTarget(s)
             delta  == OwedDelta(target, view[s]["debit"])
             W      == {d \in {"wallet"} : delta > 0} \cup {d \in {"debit"} : target > 0}
             new    == [view[s] EXCEPT !["wallet"] = WalletAfterDebit(@, delta), !["debit"] = target]
  <2>0. target \in Nat /\ view[s]["wallet"] \in Nat /\ view[s]["debit"] \in Nat
    BY <1>0 DEF Docs
  <2> HIDE DEF target
  <2>1. delta \in Nat
    BY <2>0 DEF OwedDelta, PositivePart
  <2> HIDE DEF delta
  <2>2. WalletAfterDebit(view[s]["wallet"], delta) \in Nat
    BY <2>0, <2>1 DEF WalletAfterDebit, PositivePart
  <2>4. \A d \in W : new[d] \in Nat
    BY <1>0, <2>0, <2>1, <2>2 DEF Docs
  <2>3. W \in SUBSET Docs /\ InTxn(s) /\ Write(s, W, new, "promo") /\ earn' = earn
    BY <1>4 DEF DebitUser, InTxn, Docs, target, delta
  <2> HIDE DEF W, new
  <2> QED BY <2>4, <2>3, WriteType DEF TypeOK
<1>5. ASSUME NEW s \in Settlers, ConsumeIntroPromo(s) PROVE TypeOK'
  <2> DEFINE W   == {d \in {"wallet", "promo"} : totals[s].intro > 0 /\ view[s]["promo"] = 1}
             new == [view[s] EXCEPT !["promo"] = 0]
  <2>2. \A d \in W : new[d] \in Nat
    BY <1>0 DEF Docs
  <2>3. W \in SUBSET Docs /\ InTxn(s) /\ Write(s, W, new, "credit") /\ earn' = earn
    BY <1>5 DEF ConsumeIntroPromo, InTxn, Docs
  <2> HIDE DEF W, new
  <2> QED BY <2>2, <2>3, WriteType DEF TypeOK
<1>6. ASSUME NEW s \in Settlers, CreditCreator(s) PROVE TypeOK'
  <2> DEFINE delta == OwedDelta(earn[s], view[s]["credit"])
             W     == {"credit"} \cup {d \in {"host"} : delta > 0}
             new   == [view[s] EXCEPT !["host"] = @ + delta, !["credit"] = earn[s]]
  <2>0. earn[s] \in Nat /\ view[s]["host"] \in Nat /\ view[s]["credit"] \in Nat
    BY <1>0 DEF Docs
  <2>1. delta \in Nat
    BY <2>0 DEF OwedDelta, PositivePart
  <2> HIDE DEF delta
  <2>2. \A d \in W : new[d] \in Nat
    BY <1>0, <2>0, <2>1 DEF Docs
  <2>3. W \in SUBSET Docs /\ InTxn(s) /\ Write(s, W, new, "staff") /\ earn' = earn
    BY <1>6 DEF CreditCreator, InTxn, Docs, delta
  <2> HIDE DEF W, new
  <2> QED BY <2>2, <2>3, WriteType DEF TypeOK
<1>7. ASSUME NEW s \in Settlers, SkipCreator(s) \/ CommissionLookupThrows(s) PROVE TypeOK'
  <2>1. InTxn(s) /\ Write(s, {}, view[s], "history") /\ earn' = [earn EXCEPT ![s] = 0]
    BY <1>7 DEF SkipCreator, CommissionLookupThrows, InTxn
  <2>2. earn' \in [Settlers -> Earnings \cup {0}]
    BY <2>1 DEF TypeOK
  <2> QED BY <2>1, <2>2, WriteType
<1>8. ASSUME NEW s \in Settlers, SplitStaffRevenue(s) PROVE TypeOK'
  <2> DEFINE bdCut == StaffCut(earn[s], BdBps)
             agencyCut == StaffCut(earn[s], AgencyBps)
             W == {d \in {"bd", "bdLine"} : bdCut > 0 /\ view[s]["bdLine"] = 0} \cup
                  {d \in {"agency", "agencyLine"} : agencyCut > 0 /\ view[s]["agencyLine"] = 0}
             new == [view[s] EXCEPT !["bd"] = @ + bdCut,
                                       !["bdLine"] = bdCut,
                                       !["agency"] = @ + agencyCut,
                                       !["agencyLine"] = agencyCut]
  <2>1. bdCut \in Nat /\ agencyCut \in Nat
    BY <1>0, BpsAssumption, EarningsNat
  <2> HIDE DEF bdCut, agencyCut
  <2>0. /\ view[s]["bd"] \in Nat /\ view[s]["agency"] \in Nat
        /\ \A d \in {"bd", "bdLine", "agency", "agencyLine"} : d \in Docs
    BY <1>0 DEF Docs
  <2>2. \A d \in W : new[d] \in Nat
    BY <1>0, <2>0, <2>1
  <2>3. W \in SUBSET Docs /\ InTxn(s) /\ Write(s, W, new, "history") /\ earn' = earn
    BY <1>8 DEF SplitStaffRevenue, InTxn, Docs, bdCut, agencyCut
  <2> HIDE DEF W, new
  <2> QED BY <2>2, <2>3, WriteType DEF TypeOK
<1>9. ASSUME NEW s \in Settlers, UpsertCallHistory(s) PROVE TypeOK'
  <2> DEFINE W   == {"history"} \cup {d \in {"hostHistory"} : view[s]["creator"] = 1}
             new == [view[s] EXCEPT !["history"] = 1, !["hostHistory"] = 1 + earn[s]]
  <2>1. earn[s] \in Nat /\ 1 + earn[s] \in Nat
    BY <1>0
  <2>2. \A d \in W : new[d] \in Nat
    BY <1>0, <2>1 DEF Docs
  <2>3. W \in SUBSET Docs /\ InTxn(s) /\ Write(s, W, new, "commit") /\ earn' = earn
    BY <1>9 DEF UpsertCallHistory, InTxn, Docs
  <2> HIDE DEF W, new
  <2> QED BY <2>2, <2>3, WriteType DEF TypeOK
<1>10. ASSUME NEW s \in Settlers, Commit(s) PROVE TypeOK'
  <2>1. db' \in [Docs -> Nat] /\ deposited' = deposited /\ Leave(s, "settled")
    BY <1>10 DEF Commit, TypeOK
  <2>2. /\ stale' \in [Settlers -> SUBSET Docs] /\ stale'[s] = {}
        /\ \A t \in Settlers \ {s} : ~InTxn(t) => stale'[t] = {}
    BY <1>10 DEF Commit, Stale, TypeOK
  <2> QED BY <2>1, <2>2, LeaveType
<1>11. ASSUME NEW s \in Settlers, CreatorBlockAborted(s) PROVE TypeOK'
  <2>1. \A t \in Settlers : ~InTxn(t)' => wrote'[t] = {} /\ stale'[t] = {}
    BY <1>11 DEF TypeOK, CreatorBlockAborted, Close, InTxn
  <2>2. view' \in [Settlers -> [Docs -> Nat]]
    BY <1>11, EmptyDbType DEF TypeOK, CreatorBlockAborted, Close
  <2> QED BY <1>11, <2>1, <2>2 DEF TypeOK, CreatorBlockAborted, Close, Stages
<1>12. ASSUME NEW s \in Settlers,
              DoomedStatementFails(s) \/ TransientError(s) \/ CommitUnknown(s) PROVE TypeOK'
  <2>1. CASE RetryOrThrow(s)
    BY <2>1, RetryOrThrowType
  <2>2. CASE Leave(s, "settled") /\ stale' = [stale EXCEPT ![s] = {}] /\ UNCHANGED <<db, deposited>>
    BY <2>2, LeaveType DEF TypeOK
  <2> QED BY <1>12, <2>1, <2>2 DEF DoomedStatementFails, TransientError, CommitUnknown
<1>13. ASSUME NEW s \in Settlers, Throw(s, "thrown") \/ Throw(s, "crashed") PROVE TypeOK'
  BY <1>13, LeaveType DEF Throw, TypeOK
<1>14. ASSUME Deposit PROVE TypeOK'
  <2>0. db \in [Docs -> Nat] /\ db["wallet"] + 1 \in Nat
    BY DEF TypeOK, Docs
  <2>1. db' \in [Docs -> Nat]
    <3>1. db' = [db EXCEPT !["wallet"] = db["wallet"] + 1]
      BY <1>14 DEF Deposit
    <3> QED BY <2>0, <3>1
  <2>2. deposited' \in 0 .. MaxDeposit
    BY <1>14, CoinsAssumption DEF Deposit, TypeOK
  <2>3. stale' \in [Settlers -> SUBSET Docs]
    BY <1>14 DEF Deposit, TypeOK, Docs
  <2>4. \A t \in Settlers : ~InTxn(t)' => wrote'[t] = {} /\ stale'[t] = {}
    BY <1>14 DEF Deposit, TypeOK, InTxn
  <2> QED BY <1>14, <2>1, <2>2, <2>3, <2>4 DEF Deposit, TypeOK
<1>15. ASSUME DeleteCreator PROVE TypeOK'
  <2>1. db' \in [Docs -> Nat]
    BY <1>15 DEF DeleteCreator, TypeOK, Docs
  <2>2. stale' \in [Settlers -> SUBSET Docs]
    BY <1>15 DEF DeleteCreator, TypeOK, Docs
  <2>3. \A t \in Settlers : ~InTxn(t)' => wrote'[t] = {} /\ stale'[t] = {}
    BY <1>15 DEF DeleteCreator, TypeOK, InTxn
  <2> QED BY <1>15, <2>1, <2>2, <2>3 DEF DeleteCreator, TypeOK
<1>16. ASSUME UNCHANGED vars PROVE TypeOK'
  BY <1>16 DEF vars, TypeOK, InTxn
<1> QED BY <1>1, <1>2, <1>3, <1>4, <1>5, <1>6, <1>7, <1>8, <1>9, <1>10, <1>11,
           <1>12, <1>13, <1>14, <1>15, <1>16 DEF Next, SettleStep, FaultStep

\* Type correctness, for every instance: in particular a settler that is not
\* inside a transaction holds no lock, however its last one ended.
THEOREM TypeCorrect == Spec => []TypeOK
<1>1. Init => TypeOK
  BY InitType
<1> QED BY <1>1, NextType, PTL DEF Spec

-----------------------------------------------------------------------------
(* The transaction invariant. *)

\* A step that leaves the committed documents and the state of settler t
\* alone, and keeps the locks of t exclusive, keeps what is known about t.
LEMMA FrameTxn ==
  ASSUME NEW t \in Settlers, TxnInv(t),
         db' = db, pc'[t] = pc[t], totals'[t] = totals[t], earn'[t] = earn[t],
         view'[t] = view[t], wrote'[t] = wrote[t], stale'[t] = stale[t],
         \A u \in Settlers \ {t} : wrote[t] \cap wrote'[u] = {}
  PROVE  TxnInv(t)'
<1>1. Locals(t)'
  BY DEF TxnInv, Locals
<1>2. WroteByStage(t)'
  BY DEF TxnInv, WroteByStage, InTxn
<1>3. Isolation(t)'
  BY DEF TxnInv, Isolation, InTxn
<1>4. PendingDebit(t)' /\ PendingCredit(t)' /\ PendingStaff(t)'
  BY DEF TxnInv, PendingDebit, PendingCredit, PendingStaff
<1> QED BY <1>1, <1>2, <1>3, <1>4 DEF TxnInv

\* What is known of the documents depends on them and the deposits only.
LEMMA FrameCommitted ==
  ASSUME Committed, db' = db, deposited' = deposited
  PROVE  Committed'
  BY DEF Committed, Charged

\* A write inside the transaction of s: the other settlers see nothing of
\* it, and the isolation of s is kept.
LEMMA WriteFrame ==
  ASSUME TransactionInvariant, NEW s \in Settlers, NEW W \in SUBSET Docs, NEW new, NEW next,
         InTxn(s), next \in {"promo", "credit", "staff", "history", "commit"},
         \A t \in Settlers \ {s} : earn'[t] = earn[t],
         Write(s, W, new, next), TypeOK',
         Locals(s)', WroteByStage(s)', PendingDebit(s)', PendingCredit(s)', PendingStaff(s)'
  PROVE  TransactionInvariant'
<1>1. Committed'
  BY FrameCommitted DEF TransactionInvariant, Write
<1>2. \A t \in Settlers : Reported(t)'
  BY DEF TransactionInvariant, Reported, Write
<1>3. ASSUME NEW t \in Settlers \ {s} PROVE TxnInv(t)'
  <2>1. \A u \in Settlers \ {t} : wrote[t] \cap wrote'[u] = {}
    <3> SUFFICES ASSUME NEW u \in Settlers \ {t} PROVE wrote[t] \cap wrote'[u] = {}
      OBVIOUS
    <3>1. wrote[t] \cap wrote[u] = {}
      BY DEF TransactionInvariant, TxnInv, Isolation
    <3>2. CASE u = s
      BY <3>1, <3>2 DEF Write, NoConflict, TransactionInvariant, TypeOK
    <3>3. CASE u # s
      BY <3>1, <3>3 DEF Write, TransactionInvariant, TypeOK
    <3> QED BY <3>2, <3>3
  <2>2. /\ pc'[t] = pc[t] /\ totals'[t] = totals[t] /\ earn'[t] = earn[t]
        /\ view'[t] = view[t] /\ wrote'[t] = wrote[t] /\ stale'[t] = stale[t] /\ db' = db
    BY DEF Write, TransactionInvariant, TypeOK
  <2>3. TxnInv(t)
    BY DEF TransactionInvariant
  <2> QED BY <2>1, <2>2, <2>3, FrameTxn
<1>4. Isolation(s)'
  <2>1. wrote'[s] = wrote[s] \cup W /\ stale'[s] = stale[s] /\ db' = db /\ Isolation(s)
    BY DEF Write, TransactionInvariant, TypeOK, TxnInv
  <2>2. wrote'[s] \cap stale'[s] = {}
    BY <2>1 DEF Write, NoConflict, Isolation
  <2>3. \A t \in Settlers \ {s} : wrote'[s] \cap wrote'[t] = {}
    BY <2>1 DEF Write, NoConflict, Isolation, TransactionInvariant, TypeOK
  <2>4. \A d \in Docs : d \notin W => view'[s][d] = view[s][d]
    BY DEF Write, TransactionInvariant, TypeOK
  <2>5. \A d \in Docs \ {"creator"} : d \notin stale'[s] \cup wrote'[s] => view'[s][d] = db'[d]
    BY <2>1, <2>4 DEF Isolation
  <2> QED BY <2>2, <2>3, <2>5 DEF Isolation
<1>5. TxnInv(s)'
  BY <1>4 DEF TxnInv
<1> QED BY <1>1, <1>2, <1>3, <1>5 DEF TransactionInvariant

\* A settler whose transaction is gone, without any committed effect.
LEMMA CloseFrame ==
  ASSUME TransactionInvariant, NEW s \in Settlers, TypeOK',
         NEW q \in {"begin", "idle", "doomed"},
         db' = db, deposited' = deposited,
         pc' = [pc EXCEPT ![s] = q],
         Close(s), stale' = [stale EXCEPT ![s] = {}],
         q # "idle" => totals'[s] = CallTotals,
         earn'[s] \in {0, Earned},
         \A t \in Settlers \ {s} : earn'[t] = earn[t] /\ totals'[t] = totals[t],
         \A t \in Settlers : Reported(t)'
  PROVE  TransactionInvariant'
<1>1. Committed'
  BY FrameCommitted DEF TransactionInvariant
<1>2. ASSUME NEW t \in Settlers \ {s} PROVE TxnInv(t)'
  <2>1. \A u \in Settlers \ {t} : wrote[t] \cap wrote'[u] = {}
    BY DEF Close, TransactionInvariant, TypeOK, TxnInv, Isolation
  <2>2. /\ pc'[t] = pc[t] /\ totals'[t] = totals[t] /\ earn'[t] = earn[t]
        /\ view'[t] = view[t] /\ wrote'[t] = wrote[t] /\ stale'[t] = stale[t]
    BY DEF Close, TransactionInvariant, TypeOK
  <2>3. TxnInv(t)
    BY DEF TransactionInvariant
  <2> QED BY <2>1, <2>2, <2>3, FrameTxn
<1>3. TxnInv(s)'
  <2>1. pc'[s] = q /\ wrote'[s] = {} /\ stale'[s] = {}
    BY DEF Close, TransactionInvariant, TypeOK
  <2>2. Locals(s)'
    BY <2>1 DEF Locals, Stages
  <2>3. WroteByStage(s)'
    BY <2>1 DEF WroteByStage, InTxn
  <2>4. Isolation(s)'
    BY <2>1 DEF Isolation, InTxn
  <2>5. PendingDebit(s)' /\ PendingCredit(s)' /\ PendingStaff(s)'
    BY <2>1 DEF PendingDebit, PendingCredit, PendingStaff
  <2> QED BY <2>2, <2>3, <2>4, <2>5 DEF TxnInv
<1> QED BY <1>1, <1>2, <1>3 DEF TransactionInvariant

\* The stages that write keep the invariant.
LEMMA DebitUserInv ==
  ASSUME Uniform, TransactionInvariant, TypeOK', NEW s \in Settlers, DebitUser(s)
  PROVE  TransactionInvariant'
<1> DEFINE target == UserTarget(s)
           delta  == OwedDelta(target, view[s]["debit"])
           W      == {d \in {"wallet"} : delta > 0} \cup {d \in {"debit"} : target > 0}
           new    == [view[s] EXCEPT !["wallet"] = WalletAfterDebit(@, delta), !["debit"] = target]
<1>1. /\ Write(s, W, new, "promo") /\ pc[s] = "debit" /\ InTxn(s) /\ earn' = earn
      /\ W \in SUBSET Docs
  BY DEF DebitUser, InTxn, Docs
<1>2. target = Price
  BY <1>1 DEF TransactionInvariant, TxnInv, Locals, UserTarget, Price, Stages
<1>3. wrote[s] = {} /\ Price \in Nat
  BY <1>1, AmountsNat DEF TransactionInvariant, TxnInv, WroteByStage
<1>4. /\ pc'[s] = "promo" /\ wrote'[s] = W /\ db' = db
      /\ \A d \in W : view'[s][d] = new[d]
  BY <1>1, <1>3 DEF Write, TransactionInvariant, TypeOK
<1>5. view[s] \in [Docs -> Nat] /\ {"wallet", "debit"} \subseteq Docs
  BY DEF TransactionInvariant, TypeOK, Docs
<1>6. Price > 0 => "debit" \notin stale[s] /\ view[s]["debit"] = db["debit"]
  BY <1>1, <1>2, <1>3, <1>5 DEF Write, NoConflict, TransactionInvariant, TxnInv, Isolation
<1>7. delta > 0 => view[s]["wallet"] = db["wallet"] /\ Price > 0
  <2>1. delta > 0 => "wallet" \notin stale[s]
    BY <1>1 DEF Write, NoConflict
  <2>2. delta > 0 => Price > 0
    BY <1>2, <1>3, <1>5 DEF OwedDelta, PositivePart
  <2> QED BY <1>1, <1>3, <1>5, <2>1, <2>2 DEF TransactionInvariant, TxnInv, Isolation
<1>8. /\ delta > 0 => delta = OwedDelta(Price, db["debit"])
      /\ OwedDelta(Price, db["debit"]) > 0 => delta > 0
  <2>1. db["debit"] \in Nat
    BY <1>5 DEF TransactionInvariant, TypeOK
  <2>2. CASE Price > 0
    BY <1>2, <1>6, <2>2
  <2>3. CASE Price = 0
    BY <1>2, <1>5, <2>1, <2>3 DEF OwedDelta, PositivePart
  <2> QED BY <1>3, <2>2, <2>3
<1> HIDE DEF delta
<1>9. Locals(s)'
  BY <1>1, <1>4 DEF Write, TransactionInvariant, TypeOK, TxnInv, Locals, Stages
<1>10. WroteByStage(s)'
  BY <1>2, <1>4, <1>8 DEF WroteByStage, InTxn, CreditDocs
<1>11. PendingDebit(s)'
  <2>1. "debit" \in W => view'[s]["debit"] = Price
    BY <1>2, <1>4, <1>5
  <2>2. "wallet" \in W => view'[s]["wallet"] = WalletAfterDebit(db["wallet"], delta)
    BY <1>4, <1>5, <1>7
  <2> QED BY <1>4, <1>8, <2>1, <2>2 DEF PendingDebit
<1>12. PendingCredit(s)' /\ PendingStaff(s)'
  BY <1>4 DEF PendingCredit, PendingStaff
<1> HIDE DEF W, new
<1> QED BY <1>1, <1>9, <1>10, <1>11, <1>12, WriteFrame DEF TransactionInvariant

\* Consuming the promo writes the user document without changing the wallet
\* in the view, so it needs the wallet to be current or already written.
LEMMA ConsumeIntroPromoInv ==
  ASSUME Uniform, TransactionInvariant, TypeOK', NEW s \in Settlers, ConsumeIntroPromo(s)
  PROVE  TransactionInvariant'
<1> DEFINE W   == {d \in {"wallet", "promo"} : totals[s].intro > 0 /\ view[s]["promo"] = 1}
           new == [view[s] EXCEPT !["promo"] = 0]
<1>1. /\ Write(s, W, new, "credit") /\ pc[s] = "promo" /\ InTxn(s) /\ earn' = earn
      /\ W \in SUBSET Docs
  BY DEF ConsumeIntroPromo, InTxn, Docs
<1>2. /\ pc'[s] = "credit" /\ wrote'[s] = wrote[s] \cup W /\ db' = db
      /\ \A d \in Docs \ {"promo"} : view'[s][d] = view[s][d]
  BY <1>1 DEF Write, TransactionInvariant, TypeOK
<1>3. /\ Locals(s) /\ WroteByStage(s) /\ Isolation(s) /\ PendingDebit(s)
      /\ {"wallet", "debit", "credit"} \subseteq Docs
  BY DEF TransactionInvariant, TxnInv, Docs
<1>4. Locals(s)'
  BY <1>1, <1>2, <1>3 DEF Write, TransactionInvariant, TypeOK, Locals, Stages
<1>5. WroteByStage(s)'
  BY <1>1, <1>2, <1>3 DEF WroteByStage, InTxn, CreditDocs
<1>6. "wallet" \in W /\ "wallet" \notin wrote[s] =>
        view[s]["wallet"] = WalletAfterDebit(db["wallet"], OwedDelta(Price, db["debit"]))
  <2> SUFFICES ASSUME "wallet" \in W, "wallet" \notin wrote[s]
               PROVE  view[s]["wallet"] = WalletAfterDebit(db["wallet"], OwedDelta(Price, db["debit"]))
    OBVIOUS
  <2>1. view[s]["wallet"] = db["wallet"]
    BY <1>1, <1>3 DEF Write, NoConflict, Isolation
  <2>2. db["wallet"] \in Nat /\ db["debit"] \in Nat /\ Price \in Nat
    BY <1>3, AmountsNat DEF TransactionInvariant, TypeOK
  <2>3. OwedDelta(Price, db["debit"]) = 0
    BY <1>1, <1>3, <2>2 DEF WroteByStage, OwedDelta, PositivePart
  <2> QED BY <2>1, <2>2, <2>3 DEF WalletAfterDebit, PositivePart
<1>7. PendingDebit(s)'
  BY <1>2, <1>3, <1>6 DEF PendingDebit
<1>8. wrote'[s] \cap CreditDocs = {}
  BY <1>1, <1>2, <1>3 DEF WroteByStage, CreditDocs
<1>9. PendingCredit(s)' /\ PendingStaff(s)'
  BY <1>8 DEF PendingCredit, PendingStaff, CreditDocs
<1> HIDE DEF W, new
<1> QED BY <1>1, <1>4, <1>5, <1>7, <1>9, WriteFrame

\* The credit is computed from a credit row that is still the committed one.
LEMMA CreditCreatorInv ==
  ASSUME Uniform, TransactionInvariant, TypeOK', NEW s \in Settlers, CreditCreator(s)
  PROVE  TransactionInvariant'
<1> DEFINE delta == OwedDelta(earn[s], view[s]["credit"])
           W     == {"credit"} \cup {d \in {"host"} : delta > 0}
           new   == [view[s] EXCEPT !["host"] = @ + delta, !["credit"] = earn[s]]
<1>1. /\ Write(s, W, new, "staff") /\ pc[s] = "credit" /\ earn[s] > 0 /\ InTxn(s) /\ earn' = earn
      /\ W \in SUBSET Docs
  BY DEF CreditCreator, InTxn, Docs
<1>2. /\ Locals(s) /\ WroteByStage(s) /\ Isolation(s) /\ PendingDebit(s)
      /\ {"wallet", "debit", "credit", "host"} \subseteq Docs
      /\ view[s] \in [Docs -> Nat] /\ db \in [Docs -> Nat]
  BY DEF TransactionInvariant, TypeOK, TxnInv, Docs
<1>3. earn[s] = Earned /\ Earned > 0 /\ Earned \in Nat
  BY <1>1, <1>2, AmountsNat DEF Locals
<1>4. /\ pc'[s] = "staff" /\ wrote'[s] = wrote[s] \cup W /\ db' = db
      /\ \A d \in W : view'[s][d] = new[d]
      /\ \A d \in Docs \ W : view'[s][d] = view[s][d]
  BY <1>1 DEF Write, TransactionInvariant, TypeOK
<1>5. "credit" \notin wrote[s] /\ "host" \notin wrote[s]
  BY <1>1, <1>2 DEF WroteByStage, CreditDocs
<1>6. view[s]["credit"] = db["credit"]
  BY <1>1, <1>2, <1>5 DEF Write, NoConflict, Isolation
<1>7. delta > 0 => view[s]["host"] = db["host"]
  BY <1>1, <1>2, <1>5 DEF Write, NoConflict, Isolation
<1>8. delta = OwedDelta(Earned, db["credit"])
  BY <1>3, <1>6
<1> HIDE DEF delta
<1>9. Locals(s)'
  BY <1>1, <1>2, <1>3, <1>4 DEF Write, TransactionInvariant, TypeOK, Locals, Stages
<1>10. WroteByStage(s)'
  <2>1. wrote'[s] \cap (StaffDocs \cup {"history"}) = {}
    BY <1>1, <1>2, <1>4 DEF WroteByStage, StaffDocs, CreditDocs
  <2> QED BY <1>1, <1>2, <1>4, <2>1 DEF WroteByStage, InTxn
<1>11. PendingDebit(s)'
  BY <1>2, <1>4 DEF PendingDebit
<1>12. PendingCredit(s)'
  <2>1. view'[s]["credit"] = Earned
    BY <1>2, <1>3, <1>4
  <2>2. delta > 0 => view'[s]["host"] = db["host"] + delta
    BY <1>2, <1>4, <1>7
  <2> QED BY <1>4, <1>5, <1>8, <2>1, <2>2 DEF PendingCredit
<1>13. PendingStaff(s)'
  <2>1. wrote'[s] \cap StaffDocs = {}
    BY <1>1, <1>2, <1>4 DEF WroteByStage, StaffDocs, CreditDocs
  <2> QED BY <2>1 DEF PendingStaff, StaffDocs
<1> HIDE DEF W, new
<1> QED BY <1>1, <1>9, <1>10, <1>11, <1>12, <1>13, WriteFrame

\* Settling without creator credit writes nothing.
LEMMA SkipCreatorInv ==
  ASSUME TransactionInvariant, TypeOK', NEW s \in Settlers,
         SkipCreator(s) \/ CommissionLookupThrows(s)
  PROVE  TransactionInvariant'
<1>1. /\ Write(s, {}, view[s], "history") /\ pc[s] \in {"credit", "staff"} /\ InTxn(s)
      /\ earn' = [earn EXCEPT ![s] = 0]
  BY DEF SkipCreator, CommissionLookupThrows, InTxn
<1>2. /\ pc'[s] = "history" /\ wrote'[s] = wrote[s] /\ db' = db /\ earn'[s] = 0
      /\ \A d \in Docs : view'[s][d] = view[s][d]
      /\ totals'[s] = totals[s]
      /\ \A t \in Settlers \ {s} : earn'[t] = earn[t]
  BY <1>1 DEF Write, TransactionInvariant, TypeOK
<1>3. /\ Locals(s) /\ WroteByStage(s) /\ PendingDebit(s) /\ PendingCredit(s) /\ PendingStaff(s)
      /\ {"wallet", "debit", "credit", "host", "bd", "bdLine", "agency", "agencyLine"} \subseteq Docs
  BY DEF TransactionInvariant, TxnInv, Docs
<1>4. Locals(s)'
  BY <1>1, <1>2, <1>3 DEF Locals, Stages
<1>5. WroteByStage(s)'
  BY <1>1, <1>2, <1>3 DEF WroteByStage, InTxn
<1>6. PendingDebit(s)'
  BY <1>2, <1>3 DEF PendingDebit
<1>7. PendingCredit(s)'
  BY <1>2, <1>3 DEF PendingCredit
<1>8. PendingStaff(s)'
  BY <1>2, <1>3 DEF PendingStaff
<1> QED BY <1>1, <1>2, <1>4, <1>5, <1>6, <1>7, <1>8, WriteFrame

\* A cut is added only where no line exists yet, and next to the credit.
LEMMA SplitStaffRevenueInv ==
  ASSUME Uniform, TransactionInvariant, TypeOK', NEW s \in Settlers, SplitStaffRevenue(s)
  PROVE  TransactionInvariant'
<1> DEFINE bdCut == StaffCut(earn[s], BdBps)
           agencyCut == StaffCut(earn[s], AgencyBps)
           W == {d \in {"bd", "bdLine"} : bdCut > 0 /\ view[s]["bdLine"] = 0} \cup
                {d \in {"agency", "agencyLine"} : agencyCut > 0 /\ view[s]["agencyLine"] = 0}
           new == [view[s] EXCEPT !["bd"] = @ + bdCut,
                                     !["bdLine"] = bdCut,
                                     !["agency"] = @ + agencyCut,
                                     !["agencyLine"] = agencyCut]
<1>1. /\ Write(s, W, new, "history") /\ pc[s] = "staff" /\ InTxn(s) /\ earn' = earn
      /\ W \in SUBSET Docs
  BY DEF SplitStaffRevenue, InTxn, Docs
<1>2. /\ Locals(s) /\ WroteByStage(s) /\ Isolation(s) /\ PendingDebit(s) /\ PendingCredit(s)
      /\ {"wallet", "debit", "credit", "host", "bd", "bdLine", "agency", "agencyLine"} \subseteq Docs
      /\ view[s] \in [Docs -> Nat] /\ db \in [Docs -> Nat]
  BY DEF TransactionInvariant, TypeOK, TxnInv, Docs
<1>3. earn[s] = Earned /\ bdCut = BdCut /\ agencyCut = AgencyCut
  BY <1>1, <1>2 DEF Locals, BdCut, AgencyCut
<1> HIDE DEF bdCut, agencyCut
<1>4. /\ pc'[s] = "history" /\ wrote'[s] = wrote[s] \cup W /\ db' = db
      /\ \A d \in W : view'[s][d] = new[d]
      /\ \A d \in Docs \ W : view'[s][d] = view[s][d]
      /\ totals'[s] = totals[s]
  BY <1>1 DEF Write, TransactionInvariant, TypeOK
<1>5. /\ "credit" \in wrote[s]
      /\ \A d \in StaffDocs : d \notin wrote[s]
  BY <1>1, <1>2 DEF WroteByStage
<1>6. \A d \in W : view[s][d] = db[d]
  <2>1. \A d \in W : d \in StaffDocs /\ d # "creator" /\ d \in Docs /\ d \notin stale[s]
    BY <1>1 DEF Write, NoConflict, StaffDocs
  <2> QED BY <1>1, <1>2, <1>5, <2>1 DEF Isolation
<1>7. Locals(s)'
  BY <1>1, <1>2, <1>4 DEF Locals, Stages
<1>8. WroteByStage(s)'
  BY <1>1, <1>2, <1>4 DEF WroteByStage, InTxn
<1>9. PendingDebit(s)'
  BY <1>2, <1>4 DEF PendingDebit
<1>10. PendingCredit(s)'
  BY <1>2, <1>4 DEF PendingCredit
<1>11. PendingStaff(s)'
  <2>1. /\ "bd" \in wrote'[s] <=> "bd" \in W
        /\ "bdLine" \in wrote'[s] <=> "bdLine" \in W
        /\ "agency" \in wrote'[s] <=> "agency" \in W
        /\ "agencyLine" \in wrote'[s] <=> "agencyLine" \in W
    BY <1>4, <1>5 DEF StaffDocs
  <2>2. "bd" \in W <=> "bdLine" \in W
    OBVIOUS
  <2>3. "agency" \in W <=> "agencyLine" \in W
    OBVIOUS
  <2>4. "bdLine" \in W => /\ view'[s]["bdLine"] = BdCut
                          /\ view'[s]["bd"] = db["bd"] + BdCut
                          /\ db["bdLine"] = 0
    <3> SUFFICES ASSUME "bdLine" \in W, "bd" \in W
                 PROVE  /\ view'[s]["bdLine"] = BdCut
                        /\ view'[s]["bd"] = db["bd"] + BdCut
                        /\ db["bdLine"] = 0
      BY <2>2
    <3>1. new["bdLine"] = BdCut /\ new["bd"] = view[s]["bd"] + BdCut /\ view[s]["bdLine"] = 0
      BY <1>2, <1>3
    <3> QED BY <1>4, <1>6, <3>1
  <2>5. "agencyLine" \in W => /\ view'[s]["agencyLine"] = AgencyCut
                              /\ view'[s]["agency"] = db["agency"] + AgencyCut
                              /\ db["agencyLine"] = 0
    <3> SUFFICES ASSUME "agencyLine" \in W, "agency" \in W
                 PROVE  /\ view'[s]["agencyLine"] = AgencyCut
                        /\ view'[s]["agency"] = db["agency"] + AgencyCut
                        /\ db["agencyLine"] = 0
      BY <2>3
    <3>1. /\ new["agencyLine"] = AgencyCut /\ new["agency"] = view[s]["agency"] + AgencyCut
          /\ view[s]["agencyLine"] = 0
      BY <1>2, <1>3
    <3> QED BY <1>4, <1>6, <3>1
  <2> HIDE DEF W, new
  <2> QED BY <1>4, <1>5, <2>1, <2>2, <2>3, <2>4, <2>5 DEF PendingStaff
<1> HIDE DEF W, new
<1> QED BY <1>1, <1>7, <1>8, <1>9, <1>10, <1>11, WriteFrame

\* The history rows are written last, which is what makes a commit a settlement.
LEMMA UpsertCallHistoryInv ==
  ASSUME TransactionInvariant, TypeOK', NEW s \in Settlers, UpsertCallHistory(s)
  PROVE  TransactionInvariant'
<1> DEFINE W   == {"history"} \cup {d \in {"hostHistory"} : view[s]["creator"] = 1}
           new == [view[s] EXCEPT !["history"] = 1, !["hostHistory"] = 1 + earn[s]]
<1>1. /\ Write(s, W, new, "commit") /\ pc[s] = "history" /\ InTxn(s) /\ earn' = earn
      /\ W \in SUBSET Docs
  BY DEF UpsertCallHistory, InTxn, Docs
<1>2. /\ Locals(s) /\ WroteByStage(s) /\ PendingDebit(s) /\ PendingCredit(s) /\ PendingStaff(s)
      /\ view[s] \in [Docs -> Nat] /\ "history" \in Docs
      /\ {"wallet", "debit", "credit", "host", "bd", "bdLine", "agency", "agencyLine"} \subseteq Docs
  BY DEF TransactionInvariant, TypeOK, TxnInv, Docs
<1>3. /\ pc'[s] = "commit" /\ wrote'[s] = wrote[s] \cup W /\ db' = db
      /\ view'[s]["history"] = 1
      /\ \A d \in Docs \ {"history", "hostHistory"} : view'[s][d] = view[s][d]
      /\ totals'[s] = totals[s]
  BY <1>1, <1>2 DEF Write, TransactionInvariant, TypeOK
<1>4. Locals(s)'
  BY <1>1, <1>2, <1>3 DEF Locals, Stages
<1>5. WroteByStage(s)'
  BY <1>1, <1>2, <1>3 DEF WroteByStage, InTxn
<1>6. PendingDebit(s)'
  BY <1>2, <1>3 DEF PendingDebit
<1>7. PendingCredit(s)'
  BY <1>2, <1>3 DEF PendingCredit
<1>8. PendingStaff(s)'
  BY <1>2, <1>3 DEF PendingStaff
<1> HIDE DEF W, new
<1> QED BY <1>1, <1>4, <1>5, <1>6, <1>7, <1>8, WriteFrame

\* What a commit does to the committed documents.
LEMMA CommitEffect ==
  ASSUME Uniform, TransactionInvariant, NEW s \in Settlers, Commit(s)
  PROVE  /\ db'["history"] = 1
         /\ db'["debit"] = Price
         /\ db'["wallet"] = WalletAfterDebit(db["wallet"], OwedDelta(Price, db["debit"]))
         /\ db'["credit"] \in {db["credit"], Earned}
         /\ db'["host"] = db'["credit"]
         /\ db'["bdLine"] \in {db["bdLine"], BdCut} /\ db'["bd"] = db'["bdLine"]
         /\ db'["agencyLine"] \in {db["agencyLine"], AgencyCut} /\ db'["agency"] = db'["agencyLine"]
         /\ (db'["bdLine"] # 0 \/ db'["agencyLine"] # 0) => db'["credit"] = Earned
<1>1. /\ pc[s] = "commit" /\ InTxn(s)
      /\ \A d \in Docs : db'[d] = IF d \in wrote[s] THEN view[s][d] ELSE db[d]
  BY DEF Commit, InTxn
<1>2. /\ WroteByStage(s) /\ PendingDebit(s) /\ PendingCredit(s) /\ PendingStaff(s) /\ Committed
      /\ db \in [Docs -> Nat]
  BY DEF TransactionInvariant, TxnInv, TypeOK
<1>3. {"history", "wallet", "debit", "credit", "host", "bd", "bdLine", "agency", "agencyLine"} \subseteq Docs
  BY DEF Docs
<1>4. /\ Price \in Nat /\ Earned \in Nat /\ BdCut \in Nat /\ AgencyCut \in Nat
      /\ db["wallet"] \in Nat /\ db["debit"] \in Nat /\ db["credit"] \in Nat
  BY <1>2, <1>3, AmountsNat
<1>5. db'["history"] = 1
  BY <1>1, <1>2, <1>3 DEF WroteByStage
<1>6. db'["debit"] = Price
  <2>1. CASE "debit" \in wrote[s]
    BY <1>1, <1>2, <1>3, <2>1 DEF PendingDebit
  <2>2. CASE "debit" \notin wrote[s]
    <3>1. Price = 0
      BY <1>1, <1>2, <1>4, <2>2 DEF WroteByStage
    <3>2. db["debit"] = 0
      BY <1>2, <3>1 DEF Committed
    <3> QED BY <1>1, <1>3, <2>2, <3>1, <3>2
  <2> QED BY <2>1, <2>2
<1>7. db'["wallet"] = WalletAfterDebit(db["wallet"], OwedDelta(Price, db["debit"]))
  <2>1. CASE "wallet" \in wrote[s]
    BY <1>1, <1>2, <1>3, <2>1 DEF PendingDebit
  <2>2. CASE "wallet" \notin wrote[s]
    <3>1. OwedDelta(Price, db["debit"]) = 0
      BY <1>1, <1>2, <1>4, <2>2 DEF WroteByStage, OwedDelta, PositivePart
    <3>2. db'["wallet"] = db["wallet"]
      BY <1>1, <1>3, <2>2
    <3> QED BY <1>4, <3>1, <3>2 DEF WalletAfterDebit, PositivePart
  <2> QED BY <2>1, <2>2
<1>8. db'["credit"] \in {db["credit"], Earned} /\ ("credit" \in wrote[s] => db'["credit"] = Earned)
  BY <1>1, <1>2, <1>3 DEF PendingCredit
<1>9. db'["host"] = db'["credit"]
  <2>1. CASE "host" \in wrote[s]
    <3>1. db'["credit"] = Earned /\ db'["host"] = db["host"] + OwedDelta(Earned, db["credit"])
      BY <1>1, <1>2, <1>3, <1>8, <2>1 DEF PendingCredit
    <3>2. db["host"] = db["credit"] /\ db["credit"] \in {0, Earned}
      BY <1>2 DEF Committed
    <3> QED BY <1>4, <3>1, <3>2 DEF OwedDelta, PositivePart
  <2>2. CASE "host" \notin wrote[s]
    <3>1. db'["host"] = db["host"] /\ db["host"] = db["credit"] /\ db["credit"] \in {0, Earned}
      BY <1>1, <1>2, <1>3, <2>2 DEF Committed
    <3>2. CASE "credit" \in wrote[s]
      <4>1. OwedDelta(Earned, db["credit"]) <= 0
        BY <1>2, <1>4, <2>2, <3>2 DEF PendingCredit, OwedDelta, PositivePart
      <4>2. db["credit"] = Earned
        BY <1>4, <3>1, <4>1 DEF OwedDelta, PositivePart
      <4> QED BY <1>8, <3>1, <3>2, <4>2
    <3>3. CASE "credit" \notin wrote[s]
      BY <1>1, <1>3, <3>1, <3>3
    <3> QED BY <3>2, <3>3
  <2> QED BY <2>1, <2>2
<1>10. db'["bdLine"] \in {db["bdLine"], BdCut} /\ db'["bd"] = db'["bdLine"]
  <2>1. CASE "bdLine" \in wrote[s]
    BY <1>1, <1>2, <1>3, <1>4, <2>1 DEF PendingStaff, Committed
  <2>2. CASE "bdLine" \notin wrote[s]
    BY <1>1, <1>2, <1>3, <2>2 DEF PendingStaff, Committed
  <2> QED BY <2>1, <2>2
<1>11. db'["agencyLine"] \in {db["agencyLine"], AgencyCut} /\ db'["agency"] = db'["agencyLine"]
  <2>1. CASE "agencyLine" \in wrote[s]
    BY <1>1, <1>2, <1>3, <1>4, <2>1 DEF PendingStaff, Committed
  <2>2. CASE "agencyLine" \notin wrote[s]
    BY <1>1, <1>2, <1>3, <2>2 DEF PendingStaff, Committed
  <2> QED BY <2>1, <2>2
<1>12. (db'["bdLine"] # 0 \/ db'["agencyLine"] # 0) => db'["credit"] = Earned
  <2>1. CASE "credit" \in wrote[s]
    BY <1>8, <2>1
  <2>2. CASE "credit" \notin wrote[s]
    BY <1>1, <1>2, <1>3, <2>2 DEF PendingStaff, Committed
  <2> QED BY <2>1, <2>2
<1> QED BY <1>5, <1>6, <1>7, <1>8, <1>9, <1>10, <1>11, <1>12

\* A commit keeps the invariant: no other open transaction relied on the
\* values it replaces, as those became stale for it.
LEMMA CommitInv ==
  ASSUME Uniform, TransactionInvariant, TypeOK', NEW s \in Settlers, Commit(s)
  PROVE  TransactionInvariant'
<1>1. /\ pc[s] = "commit" /\ Leave(s, "settled") /\ deposited' = deposited
      /\ \A d \in Docs : db'[d] = IF d \in wrote[s] THEN view[s][d] ELSE db[d]
      /\ stale' = Stale(s, wrote[s])
  BY DEF Commit
<1>2. Price \in Nat /\ db["wallet"] \in Nat /\ db["debit"] \in Nat /\ Earned \in Nat
      /\ deposited \in Nat /\ InitialCoins \in Nat
  BY AmountsNat, CoinsAssumption DEF TransactionInvariant, TypeOK, Docs
<1>3. Committed'
  <2>1. Committed
    BY DEF TransactionInvariant
  <2>2. \/ Charged' = Price
        \/ Charged' < Price /\ InitialCoins <= Charged' /\ Charged' <= InitialCoins + deposited'
    <3>1. Charged' = InitialCoins + deposited - db'["wallet"]
      BY <1>1 DEF Charged
    <3>2. CASE db["history"] = 0
      <4>1. db["debit"] = 0 /\ db["wallet"] = InitialCoins + deposited
        BY <2>1, <3>2 DEF Committed
      <4>2. db'["wallet"] = WalletAfterDebit(InitialCoins + deposited, Price)
        BY <1>2, <4>1, CommitEffect DEF OwedDelta, PositivePart, WalletAfterDebit
      <4> QED BY <1>1, <1>2, <3>1, <4>2 DEF WalletAfterDebit, PositivePart
    <3>3. CASE db["history"] = 1
      <4>1. db["debit"] = Price
        BY <2>1, <3>3 DEF Committed
      <4>2. db'["wallet"] = db["wallet"]
        BY <1>2, <4>1, CommitEffect DEF OwedDelta, PositivePart, WalletAfterDebit
      <4> QED BY <1>1, <2>1, <3>1, <3>3, <4>2 DEF Committed, Charged
    <3> QED BY <2>1, <3>2, <3>3 DEF Committed
  <2>3. Charged' >= 0
    <3>1. db'["wallet"] \in Nat /\ deposited' \in Nat
      BY DEF TypeOK, Docs
    <3>2. Charged' \in Int
      BY <1>2, <3>1 DEF Charged
    <3> QED BY <1>2, <2>2, <3>2
  <2> QED BY <2>1, <2>2, <2>3, CommitEffect DEF Committed
<1>4. \A t \in Settlers : Reported(t)'
  BY CommitEffect DEF Reported
<1>5. TxnInv(s)'
  <2>1. pc'[s] = "idle" /\ wrote'[s] = {} /\ stale'[s] = {} /\ earn'[s] = 0
    BY <1>1 DEF Leave, Close, Stale, TransactionInvariant, TypeOK
  <2>2. Locals(s)'
    BY <2>1 DEF Locals, Stages
  <2>3. WroteByStage(s)'
    BY <2>1 DEF WroteByStage, InTxn
  <2>4. Isolation(s)'
    BY <2>1 DEF Isolation, InTxn
  <2>5. PendingDebit(s)' /\ PendingCredit(s)' /\ PendingStaff(s)'
    BY <2>1 DEF PendingDebit, PendingCredit, PendingStaff
  <2> QED BY <2>2, <2>3, <2>4, <2>5 DEF TxnInv
<1>6. ASSUME NEW t \in Settlers \ {s} PROVE TxnInv(t)'
  <2>1. /\ pc'[t] = pc[t] /\ totals'[t] = totals[t] /\ earn'[t] = earn[t]
        /\ view'[t] = view[t] /\ wrote'[t] = wrote[t]
        /\ stale'[t] = IF InTxn(t) THEN stale[t] \cup wrote[s] ELSE {}
    BY <1>1 DEF Leave, Close, Stale, TransactionInvariant, TypeOK
  <2>2. /\ Locals(t) /\ WroteByStage(t) /\ Isolation(t)
        /\ PendingDebit(t) /\ PendingCredit(t) /\ PendingStaff(t)
        /\ wrote[t] \cap wrote[s] = {}
        /\ ~InTxn(t) => wrote[t] = {}
    BY DEF TransactionInvariant, TypeOK, TxnInv, Isolation
  <2>3. \A d \in Docs : d \notin wrote[s] => db'[d] = db[d]
    BY <1>1
  <2>4. {"wallet", "debit", "credit", "host", "bd", "bdLine", "agency", "agencyLine"} \subseteq Docs
    BY DEF Docs
  <2>5. InTxn(t) /\ pc[t] # "debit" => OwedDelta(Price, db'["debit"]) = OwedDelta(Price, db["debit"])
    <3>1. CASE Price > 0
      BY <2>2, <2>3, <2>4, <3>1 DEF WroteByStage
    <3>2. CASE Price = 0
      BY <1>2, <3>2, CommitEffect DEF OwedDelta, PositivePart
    <3> QED BY <1>2, <3>1, <3>2
  <2>6. Locals(t)'
    BY <2>1, <2>2 DEF Locals
  <2>7. WroteByStage(t)'
    BY <2>1, <2>2, <2>5 DEF WroteByStage, InTxn
  <2>8. Isolation(t)'
    <3>1. wrote'[t] \cap stale'[t] = {}
      BY <2>1, <2>2 DEF Isolation
    <3>2. \A u \in Settlers \ {t} : wrote'[t] \cap wrote'[u] = {}
      BY <1>1, <2>1, <2>2 DEF Leave, Close, Isolation, TransactionInvariant, TypeOK
    <3>3. InTxn(t)' => \A d \in Docs \ {"creator"} :
                         d \notin stale'[t] \cup wrote'[t] => view'[t][d] = db'[d]
      BY <2>1, <2>2, <2>3 DEF Isolation, InTxn
    <3> QED BY <3>1, <3>2, <3>3 DEF Isolation
  <2>9. PendingDebit(t)'
    <3>1. "wallet" \in wrote[t] => InTxn(t) /\ pc[t] # "debit"
      BY <2>2 DEF WroteByStage
    <3>2. "wallet" \in wrote[t] => db'["wallet"] = db["wallet"]
      BY <2>2, <2>3, <2>4
    <3> QED BY <2>1, <2>2, <2>5, <3>1, <3>2 DEF PendingDebit
  <2>10. PendingCredit(t)'
    <3>1. /\ "credit" \in wrote[t] => db'["credit"] = db["credit"]
          /\ "host" \in wrote[t] => db'["host"] = db["host"]
      BY <2>2, <2>3, <2>4
    <3> QED BY <2>1, <2>2, <3>1 DEF PendingCredit
  <2>11. PendingStaff(t)'
    <3>1. /\ "bd" \in wrote[t] => db'["bd"] = db["bd"]
          /\ "bdLine" \in wrote[t] => db'["bdLine"] = db["bdLine"]
          /\ "agency" \in wrote[t] => db'["agency"] = db["agency"]
          /\ "agencyLine" \in wrote[t] => db'["agencyLine"] = db["agencyLine"]
      BY <2>2, <2>3, <2>4
    <3> QED BY <2>1, <2>2, <3>1 DEF PendingStaff
  <2> QED BY <2>6, <2>7, <2>8, <2>9, <2>10, <2>11 DEF TxnInv
<1> QED BY <1>3, <1>4, <1>5, <1>6 DEF TransactionInvariant

\* The wallet grows, so no open transaction may still rely on its old value.
LEMMA DepositInv ==
  ASSUME TransactionInvariant, TypeOK', Deposit
  PROVE  TransactionInvariant'
<1>1. /\ deposited' = deposited + 1 /\ db' = [db EXCEPT !["wallet"] = @ + 1]
      /\ \A t \in Settlers : "wallet" \notin wrote[t]
      /\ stale' = [t \in Settlers |-> IF InTxn(t) THEN stale[t] \cup {"wallet"} ELSE {}]
      /\ UNCHANGED <<pc, attempt, totals, earn, view, wrote, outcome>>
  BY DEF Deposit
<1>2. /\ db'["wallet"] = db["wallet"] + 1
      /\ \A d \in Docs \ {"wallet"} : db'[d] = db[d]
      /\ db["wallet"] \in Nat /\ deposited \in Nat /\ InitialCoins \in Nat
  BY <1>1, CoinsAssumption DEF TransactionInvariant, TypeOK, Docs
<1>3. {"history", "debit", "credit", "host", "bd", "bdLine", "agency", "agencyLine"} \subseteq Docs \ {"wallet"}
  BY DEF Docs
<1>4. Committed'
  <2>1. Committed
    BY DEF TransactionInvariant
  <2>2. Charged' = Charged
    BY <1>1, <1>2 DEF Charged
  <2>3. /\ db'["history"] = db["history"] /\ db'["debit"] = db["debit"]
        /\ \A d \in CreditDocs \cup {"debit"} : db'[d] = db[d]
    BY <1>2, <1>3 DEF CreditDocs
  <2>4. Charged \in Int
    BY <1>2 DEF Charged
  <2>5. db'["history"] = 0 => /\ db'["wallet"] = InitialCoins + deposited'
                              /\ \A d \in CreditDocs \cup {"debit"} : db'[d] = 0
    BY <1>1, <1>2, <2>1, <2>3 DEF Committed
  <2>6. db'["history"] = 1 => /\ db'["debit"] = Price
                              /\ Charged' >= 0
                              /\ \/ Charged' = Price
                                 \/ /\ Charged' < Price
                                    /\ InitialCoins <= Charged'
                                    /\ Charged' <= InitialCoins + deposited'
    BY <1>1, <1>2, <2>1, <2>2, <2>3, <2>4 DEF Committed
  <2> QED BY <2>1, <2>3, <2>5, <2>6 DEF Committed, CreditDocs
<1>5. \A t \in Settlers : Reported(t)'
  BY <1>1, <1>2, <1>3 DEF Reported, TransactionInvariant
<1>6. ASSUME NEW t \in Settlers PROVE TxnInv(t)'
  <2>1. /\ Locals(t) /\ WroteByStage(t) /\ Isolation(t)
        /\ PendingDebit(t) /\ PendingCredit(t) /\ PendingStaff(t)
        /\ stale'[t] = IF InTxn(t) THEN stale[t] \cup {"wallet"} ELSE {}
        /\ ~InTxn(t) => wrote[t] = {}
    BY <1>1 DEF TransactionInvariant, TypeOK, TxnInv
  <2>2. Locals(t)' /\ WroteByStage(t)'
    BY <1>1, <1>2, <1>3, <2>1 DEF Locals, WroteByStage, InTxn
  <2>3. Isolation(t)'
    BY <1>1, <1>2, <2>1 DEF Isolation, InTxn
  <2>4. PendingDebit(t)' /\ PendingCredit(t)' /\ PendingStaff(t)'
    BY <1>1, <1>2, <1>3, <2>1 DEF PendingDebit, PendingCredit, PendingStaff
  <2> QED BY <2>2, <2>3, <2>4 DEF TxnInv
<1> QED BY <1>4, <1>5, <1>6 DEF TransactionInvariant

\* No pending write depends on the creator documents still existing.
LEMMA DeleteCreatorInv ==
  ASSUME TransactionInvariant, TypeOK', DeleteCreator
  PROVE  TransactionInvariant'
<1>1. /\ UNCHANGED <<deposited, pc, attempt, totals, earn, view, wrote, outcome>>
      /\ \A t \in Settlers : "host" \notin wrote[t]
      /\ stale' = [t \in Settlers |-> IF InTxn(t) THEN stale[t] \cup {"host"} ELSE {}]
      /\ \A d \in Docs \ {"creator"} : db'[d] = db[d]
  BY DEF DeleteCreator, TransactionInvariant, TypeOK
<1>2. {"history", "wallet", "debit", "credit", "host", "bd", "bdLine", "agency", "agencyLine"}
         \subseteq Docs \ {"creator"}
  BY DEF Docs
<1>3. Committed'
  <2>1. \A d \in CreditDocs \cup {"debit", "wallet", "history"} : db'[d] = db[d]
    BY <1>1, <1>2 DEF CreditDocs
  <2> QED BY <1>1, <2>1 DEF TransactionInvariant, Committed, Charged, CreditDocs
<1>4. \A t \in Settlers : Reported(t)'
  BY <1>1, <1>2 DEF Reported, TransactionInvariant
<1>5. ASSUME NEW t \in Settlers PROVE TxnInv(t)'
  <2>1. /\ Locals(t) /\ WroteByStage(t) /\ Isolation(t)
        /\ PendingDebit(t) /\ PendingCredit(t) /\ PendingStaff(t)
        /\ stale'[t] = IF InTxn(t) THEN stale[t] \cup {"host"} ELSE {}
        /\ ~InTxn(t) => wrote[t] = {}
    BY <1>1 DEF TransactionInvariant, TypeOK, TxnInv
  <2>2. Locals(t)' /\ WroteByStage(t)'
    BY <1>1, <1>2, <2>1 DEF Locals, WroteByStage, InTxn
  <2>3. Isolation(t)'
    BY <1>1, <2>1 DEF Isolation, InTxn
  <2>4. PendingDebit(t)' /\ PendingCredit(t)' /\ PendingStaff(t)'
    BY <1>1, <1>2, <2>1 DEF PendingDebit, PendingCredit, PendingStaff
  <2> QED BY <2>2, <2>3, <2>4 DEF TxnInv
<1> QED BY <1>3, <1>4, <1>5 DEF TransactionInvariant

\* Entering settleCall, and taking the snapshot.
LEMMA EnterInv ==
  ASSUME Uniform, TransactionInvariant, TypeOK', NEW s \in Settlers,
         Enter(s) \/ IdempotentExit(s) \/ StartTxn(s)
  PROVE  TransactionInvariant'
<1>1. /\ db' = db /\ deposited' = deposited /\ wrote' = wrote /\ stale' = stale
      /\ pc[s] \in {"idle", "begin"}
  BY DEF Enter, IdempotentExit, StartTxn
<1>2. Committed'
  BY <1>1, FrameCommitted DEF TransactionInvariant
<1>3. wrote[s] = {} /\ stale[s] = {}
  BY <1>1 DEF TransactionInvariant, TypeOK, InTxn
<1>4. ASSUME NEW t \in Settlers \ {s} PROVE TxnInv(t)'
  <2>1. /\ pc'[t] = pc[t] /\ totals'[t] = totals[t] /\ earn'[t] = earn[t]
        /\ view'[t] = view[t]
    BY DEF Enter, IdempotentExit, StartTxn, TransactionInvariant, TypeOK
  <2>2. TxnInv(t) /\ \A u \in Settlers \ {t} : wrote[t] \cap wrote'[u] = {}
    BY <1>1 DEF TransactionInvariant, TxnInv, Isolation
  <2> QED BY <1>1, <2>1, <2>2, FrameTxn
<1>5. CASE Enter(s)
  <2>1. PICK u \in Totals : /\ totals' = [totals EXCEPT ![s] = u]
                            /\ earn' = [earn EXCEPT ![s] = microsToCreatorCreditWholeCoins(u.earned)]
    BY <1>5 DEF Enter
  <2>2. u = CallTotals
    BY <2>1 DEF Uniform
  <2>3. totals'[s] = CallTotals /\ earn'[s] = Earned /\ pc'[s] = "begin"
    BY <1>5, <2>1, <2>2 DEF Enter, Earned, TransactionInvariant, TypeOK
  <2>4. Locals(s)'
    BY <2>3 DEF Locals
  <2>5. WroteByStage(s)' /\ Isolation(s)'
    BY <1>1, <1>3, <2>3 DEF WroteByStage, Isolation, InTxn
  <2>6. PendingDebit(s)' /\ PendingCredit(s)' /\ PendingStaff(s)'
    BY <1>1, <1>3 DEF PendingDebit, PendingCredit, PendingStaff
  <2>7. \A t \in Settlers : Reported(t)'
    BY <1>1, <1>5 DEF Enter, Reported, TransactionInvariant, TypeOK
  <2> QED BY <1>2, <1>4, <2>4, <2>5, <2>6, <2>7 DEF TransactionInvariant, TxnInv
<1>6. CASE IdempotentExit(s)
  <2>1. \A t \in Settlers : Reported(t)'
    BY <1>1, <1>6 DEF IdempotentExit, Reported, TransactionInvariant, TypeOK
  <2>2. TxnInv(s) /\ \A u \in Settlers \ {s} : wrote[s] \cap wrote'[u] = {}
    BY <1>1 DEF TransactionInvariant, TxnInv, Isolation
  <2>3. TxnInv(s)'
    BY <1>6, <2>2, FrameTxn DEF IdempotentExit
  <2> QED BY <1>2, <1>4, <2>1, <2>3 DEF TransactionInvariant
<1>7. CASE StartTxn(s)
  <2>1. pc'[s] = "debit" /\ view'[s] = db /\ totals' = totals /\ earn' = earn /\ outcome' = outcome
    BY <1>7 DEF StartTxn, TransactionInvariant, TypeOK
  <2>2. Locals(s)'
    BY <1>7, <2>1 DEF StartTxn, TransactionInvariant, TxnInv, Locals, Stages
  <2>3. WroteByStage(s)'
    BY <1>1, <1>3, <2>1 DEF WroteByStage
  <2>4. Isolation(s)'
    BY <1>1, <1>3, <2>1 DEF Isolation
  <2>5. PendingDebit(s)' /\ PendingCredit(s)' /\ PendingStaff(s)'
    BY <1>1, <1>3 DEF PendingDebit, PendingCredit, PendingStaff
  <2>6. \A t \in Settlers : Reported(t)'
    BY <1>1, <2>1 DEF Reported, TransactionInvariant
  <2> QED BY <1>2, <1>4, <2>2, <2>3, <2>4, <2>5, <2>6 DEF TransactionInvariant, TxnInv
<1> QED BY <1>5, <1>6, <1>7

\* An execution that ends or retries without committing.
LEMMA LeaveInv ==
  ASSUME TransactionInvariant, TypeOK', NEW s \in Settlers,
         NEW result \in {"settled", "thrown", "crashed"},
         result = "settled" => db["history"] = 1,
         db' = db, deposited' = deposited,
         Leave(s, result), stale' = [stale EXCEPT ![s] = {}]
  PROVE  TransactionInvariant'
<1>1. /\ pc' = [pc EXCEPT ![s] = "idle"] /\ Close(s) /\ earn'[s] = 0
      /\ \A t \in Settlers \ {s} : earn'[t] = earn[t] /\ totals'[t] = totals[t]
  BY DEF Leave, TransactionInvariant, TypeOK
<1>2. \A t \in Settlers : Reported(t)'
  BY DEF Leave, Reported, TransactionInvariant, TypeOK
<1> QED BY <1>1, <1>2, CloseFrame

\* An attempt that fails leaves nothing behind but totals and earn.
LEMMA RetryOrThrowInv ==
  ASSUME TransactionInvariant, TypeOK', NEW s \in Settlers, pc[s] \in Stages, RetryOrThrow(s)
  PROVE  TransactionInvariant'
<1>1. /\ db' = db /\ deposited' = deposited /\ stale' = [stale EXCEPT ![s] = {}]
      /\ totals[s] = CallTotals /\ earn[s] \in {0, Earned}
  BY DEF RetryOrThrow, TransactionInvariant, TxnInv, Locals
<1>2. CASE Leave(s, "thrown")
  BY <1>1, <1>2, LeaveInv
<1>3. CASE pc' = [pc EXCEPT ![s] = "begin"] /\ Close(s) /\ UNCHANGED <<totals, earn, outcome>>
  <2>1. \A t \in Settlers : Reported(t)'
    BY <1>1, <1>3 DEF Reported, TransactionInvariant
  <2> QED BY <1>1, <1>3, <2>1, CloseFrame
<1> QED BY <1>2, <1>3 DEF RetryOrThrow

\* Every fault closes the transaction without committed effect, or (a failed
\* commission lookup) carries on like a settlement without creator.
LEMMA FaultInv ==
  ASSUME Uniform, TransactionInvariant, TypeOK', NEW s \in Settlers, FaultStep(s)
  PROVE  TransactionInvariant'
<1>1. CASE CreatorBlockAborted(s)
  <2>1. /\ pc' = [pc EXCEPT ![s] = "doomed"] /\ earn'[s] = 0 /\ pc[s] \in Stages
        /\ \A t \in Settlers \ {s} : earn'[t] = earn[t]
        /\ totals' = totals
    BY <1>1 DEF CreatorBlockAborted, Stages, TransactionInvariant, TypeOK
  <2>2. totals'[s] = CallTotals
    BY <2>1 DEF TransactionInvariant, TxnInv, Locals
  <2>3. \A t \in Settlers : Reported(t)'
    BY <1>1 DEF CreatorBlockAborted, Reported, TransactionInvariant
  <2> QED BY <1>1, <2>1, <2>2, <2>3, CloseFrame DEF CreatorBlockAborted
<1>2. CASE DoomedStatementFails(s) \/ TransientError(s)
  BY <1>2, RetryOrThrowInv DEF DoomedStatementFails, TransientError, Stages
<1>3. CASE CommitUnknown(s)
  <2>1. pc[s] \in Stages
    BY <1>3 DEF CommitUnknown, Stages
  <2>2. CASE RetryOrThrow(s)
    BY <2>1, <2>2, RetryOrThrowInv
  <2>3. CASE /\ db["history"] = 1 /\ Leave(s, "settled")
             /\ stale' = [stale EXCEPT ![s] = {}] /\ UNCHANGED <<db, deposited>>
    BY <2>3, LeaveInv
  <2> QED BY <1>3, <2>2, <2>3 DEF CommitUnknown
<1>4. CASE CommissionLookupThrows(s)
  BY <1>4, SkipCreatorInv
<1>5. CASE Throw(s, "thrown")
  BY <1>5, LeaveInv DEF Throw
<1>6. CASE Throw(s, "crashed")
  BY <1>6, LeaveInv DEF Throw
<1> QED BY <1>1, <1>2, <1>3, <1>4, <1>5, <1>6 DEF FaultStep

\* The initial state satisfies the transaction invariant.
LEMMA InitInv == Init /\ Uniform => TransactionInvariant
<1> SUFFICES ASSUME Init, Uniform PROVE TransactionInvariant
  OBVIOUS
<1>1. /\ \A d \in CreditDocs \cup {"debit", "history"} : db[d] = 0
      /\ db["wallet"] = InitialCoins /\ deposited = 0
  BY DEF Init, EmptyDb, CreditDocs, Docs
<1>2. Price \in Nat /\ Earned \in Nat /\ BdCut \in Nat /\ AgencyCut \in Nat /\ InitialCoins \in Nat
  BY AmountsNat, CoinsAssumption
<1>3. Committed
  BY <1>1, <1>2 DEF Committed, CreditDocs
<1>4. ASSUME NEW s \in Settlers PROVE TxnInv(s) /\ Reported(s)
  <2>1. /\ pc[s] = "idle" /\ earn[s] = 0 /\ wrote[s] = {} /\ stale[s] = {} /\ outcome[s] = "none"
    BY DEF Init
  <2>2. Locals(s) /\ WroteByStage(s) /\ Isolation(s) /\ Reported(s)
    BY <2>1 DEF Locals, WroteByStage, Isolation, Reported, Stages, InTxn
  <2>3. PendingDebit(s) /\ PendingCredit(s) /\ PendingStaff(s)
    BY <2>1 DEF PendingDebit, PendingCredit, PendingStaff
  <2> QED BY <2>2, <2>3 DEF TxnInv
<1> QED BY <1>3, <1>4, InitType DEF TransactionInvariant

\* Every step keeps the transaction invariant.
LEMMA NextInv == Uniform /\ TransactionInvariant /\ [Next]_vars => TransactionInvariant'
<1> SUFFICES ASSUME Uniform, TransactionInvariant, [Next]_vars PROVE TransactionInvariant'
  OBVIOUS
<1>1. TypeOK'
  BY NextType DEF TransactionInvariant
<1>2. ASSUME NEW s \in Settlers, SettleStep(s) PROVE TransactionInvariant'
  BY <1>1, <1>2, EnterInv, DebitUserInv, ConsumeIntroPromoInv, CreditCreatorInv, SkipCreatorInv,
     SplitStaffRevenueInv, UpsertCallHistoryInv, CommitInv DEF SettleStep
<1>3. ASSUME NEW s \in Settlers, FaultStep(s) PROVE TransactionInvariant'
  BY <1>1, <1>3, FaultInv
<1>4. CASE Deposit
  BY <1>1, <1>4, DepositInv
<1>5. CASE DeleteCreator
  BY <1>1, <1>5, DeleteCreatorInv
<1>6. CASE UNCHANGED vars
  <2>1. Committed' /\ \A s \in Settlers : Reported(s)'
    BY <1>6, FrameCommitted DEF vars, TransactionInvariant, Reported
  <2>2. ASSUME NEW s \in Settlers PROVE TxnInv(s)'
    <3>1. TxnInv(s) /\ \A u \in Settlers \ {s} : wrote[s] \cap wrote'[u] = {}
      BY <1>6 DEF vars, TransactionInvariant, TxnInv, Isolation
    <3> QED BY <1>6, <3>1, FrameTxn DEF vars
  <2> QED BY <1>1, <2>1, <2>2 DEF TransactionInvariant
<1> QED BY <1>2, <1>3, <1>4, <1>5, <1>6 DEF Next

\* Whatever executions of settleCall overlap, retry, conflict or crash, an
\* open transaction works on current values under exclusive locks, and the
\* committed documents are those of one settlement.
THEOREM TransactionsAreIsolated ==
  ASSUME Uniform
  PROVE  Spec => []TransactionInvariant
<1>1. Init => TransactionInvariant
  BY InitInv
<1>2. TransactionInvariant /\ [Next]_vars => TransactionInvariant'
  BY NextInv
<1> QED BY <1>1, <1>2, PTL DEF Spec

-----------------------------------------------------------------------------
(* What follows from it. *)

\* Executions that read the same totals aim at one price.
LEMMA UniformTargets == Uniform => Targets = {Price}
  BY AmountsNat DEF Uniform, Targets, Price

\* The safety properties of Settlement follow from the invariant.
LEMMA InvImpliesSafety ==
  ASSUME Uniform, TransactionInvariant
  PROVE  /\ WalletsMatchLedger /\ SettledChargedInFull /\ ChargedAtMostOnce
         /\ StaffCutOfCreditedEarnings /\ SuccessMeansSettled
<1>1. Committed
  BY DEF TransactionInvariant
<1>2. /\ Price \in Nat /\ Earned \in Nat /\ InitialCoins \in Nat /\ deposited \in Nat
      /\ db["wallet"] \in Nat
  BY AmountsNat, CoinsAssumption DEF TransactionInvariant, TypeOK, Docs
<1>3. Charged \in Int
  BY <1>2 DEF Charged
<1>4. WalletsMatchLedger
  BY <1>1 DEF Committed, WalletsMatchLedger
<1>5. SettledChargedInFull
  BY <1>1, UniformTargets DEF Committed, SettledChargedInFull
<1>6. ChargedAtMostOnce
  <2>1. CASE db["history"] = 0
    <3>1. Charged = 0
      BY <1>1, <1>2, <2>1 DEF Committed, Charged
    <3> QED BY <1>2, <3>1, UniformTargets DEF ChargedAtMostOnce
  <2>2. CASE db["history"] = 1
    <3>1. Charged <= Price
      BY <1>1, <1>2, <1>3, <2>2 DEF Committed
    <3> QED BY <3>1, UniformTargets DEF ChargedAtMostOnce
  <2> QED BY <1>1, <2>1, <2>2 DEF Committed
<1>7. StaffCutOfCreditedEarnings
  BY <1>1 DEF Committed, StaffCutOfCreditedEarnings, BdCut, AgencyCut
<1>8. SuccessMeansSettled
  BY DEF TransactionInvariant, Reported, SuccessMeansSettled
<1> QED BY <1>4, <1>5, <1>6, <1>7, <1>8

\* The creator's, the BD's and the agency's balances agree with the ledger
\* rows of the call after any number of overlapping, retried and crashed
\* executions (billing-settlement.service.ts:706-774, 808-882).
THEOREM LedgerTheorem ==
  ASSUME Uniform
  PROVE  Spec => []WalletsMatchLedger
<1>1. TransactionInvariant => WalletsMatchLedger
  BY InvImpliesSafety
<1> QED BY <1>1, TransactionsAreIsolated, PTL

\* A settled call has charged its price, or emptied a smaller wallet
\* (billing-settlement.service.ts:605-663).
THEOREM ChargeTheorem ==
  ASSUME Uniform
  PROVE  Spec => []SettledChargedInFull
<1>1. TransactionInvariant => SettledChargedInFull
  BY InvImpliesSafety
<1> QED BY <1>1, TransactionsAreIsolated, PTL

\* The caller is never charged twice for a call, settled or not.
THEOREM ChargedOnceTheorem ==
  ASSUME Uniform
  PROVE  Spec => []ChargedAtMostOnce
<1>1. TransactionInvariant => ChargedAtMostOnce
  BY InvImpliesSafety
<1> QED BY <1>1, TransactionsAreIsolated, PTL

\* Commission rows are cuts of the creator credit of the same call
\* (billing-settlement.service.ts:776-882).
THEOREM StaffCutTheorem ==
  ASSUME Uniform
  PROVE  Spec => []StaffCutOfCreditedEarnings
<1>1. TransactionInvariant => StaffCutOfCreditedEarnings
  BY InvImpliesSafety
<1> QED BY <1>1, TransactionsAreIsolated, PTL

\* settleCall reports success only for a settled call, also after a commit
\* of unknown result (billing-settlement.service.ts:1024-1060).
THEOREM SuccessTheorem ==
  ASSUME Uniform
  PROVE  Spec => []SuccessMeansSettled
<1>1. TransactionInvariant => SuccessMeansSettled
  BY InvImpliesSafety
<1> QED BY <1>1, TransactionsAreIsolated, PTL

\* Only a commit, a deposit and the removal of the creator change documents.
LEMMA DbFrame ==
  ASSUME [Next]_vars
  PROVE  \/ db' = db /\ deposited' = deposited
         \/ \E s \in Settlers : Commit(s)
         \/ Deposit
         \/ DeleteCreator
<1>1. ASSUME NEW s \in Settlers, SettleStep(s), ~Commit(s)
      PROVE  db' = db /\ deposited' = deposited
  BY <1>1 DEF SettleStep, Enter, IdempotentExit, StartTxn, DebitUser, ConsumeIntroPromo,
     CreditCreator, SkipCreator, SplitStaffRevenue, UpsertCallHistory, Write
<1>2. ASSUME NEW s \in Settlers, FaultStep(s)
      PROVE  db' = db /\ deposited' = deposited
  BY <1>2 DEF FaultStep, CreatorBlockAborted, DoomedStatementFails, CommissionLookupThrows,
     CommitUnknown, TransientError, Throw, RetryOrThrow, Write
<1>3. CASE UNCHANGED vars
  BY <1>3 DEF vars
<1> QED BY <1>1, <1>2, <1>3 DEF Next

\* Once the call is settled no step takes coins from the wallet, although
\* executions that passed the idempotency check earlier still run
\* (billing-settlement.service.ts:403-426).
THEOREM NoChargeTheorem ==
  ASSUME Uniform
  PROVE  Spec => NoChargeAfterSettled
<1>1. TransactionInvariant /\ [Next]_vars =>
        [db["history"] = 1 => db'["wallet"] >= db["wallet"]]_vars
  <2> SUFFICES ASSUME TransactionInvariant, [Next]_vars, db["history"] = 1
               PROVE  db'["wallet"] >= db["wallet"]
    OBVIOUS
  <2>1. /\ db["wallet"] \in Nat /\ db["debit"] = Price /\ Price \in Nat
        /\ db \in [Docs -> Nat] /\ "wallet" \in Docs
    BY AmountsNat DEF TransactionInvariant, TypeOK, Committed, Docs
  <2>2. CASE db' = db
    BY <2>1, <2>2
  <2>3. ASSUME NEW s \in Settlers, Commit(s) PROVE db'["wallet"] >= db["wallet"]
    BY <2>1, <2>3, CommitEffect DEF WalletAfterDebit, OwedDelta, PositivePart
  <2>4. CASE Deposit
    BY <2>1, <2>4 DEF Deposit
  <2>5. CASE DeleteCreator
    BY <2>1, <2>5 DEF DeleteCreator
  <2> QED BY <2>2, <2>3, <2>4, <2>5, DbFrame
<1> QED BY <1>1, TransactionsAreIsolated, PTL DEF Spec, NoChargeAfterSettled

\* The intro credits are consumed only by the commit that settles the call
\* (billing-settlement.service.ts:665-682).
THEOREM PromoTheorem ==
  ASSUME Uniform
  PROVE  Spec => PromoConsumedWithSettlement
<1>1. TransactionInvariant /\ [Next]_vars =>
        [db'["promo"] # db["promo"] => db'["history"] = 1]_vars
  <2> SUFFICES ASSUME TransactionInvariant, [Next]_vars, db'["promo"] # db["promo"]
               PROVE  db'["history"] = 1
    OBVIOUS
  <2>1. db \in [Docs -> Nat] /\ "promo" \in Docs
    BY DEF TransactionInvariant, TypeOK, Docs
  <2>2. ~Deposit /\ ~DeleteCreator
    BY <2>1 DEF Deposit, DeleteCreator
  <2>3. PICK s \in Settlers : Commit(s)
    BY <2>2, DbFrame
  <2> QED BY <2>3, CommitEffect
<1> QED BY <1>1, TransactionsAreIsolated, PTL DEF Spec, PromoConsumedWithSettlement

-----------------------------------------------------------------------------
(* Refinement. *)

\* A commit is the abstract settlement, or completes one.
LEMMA CommitImplements ==
  ASSUME Uniform, TransactionInvariant, NEW s \in Settlers, Commit(s)
  PROVE  Account!Settle \/ Account!CompleteCredit
<1>1. /\ Committed /\ deposited' = deposited
      /\ Price \in Nat /\ db["wallet"] \in Nat /\ db["debit"] \in Nat
  BY AmountsNat DEF TransactionInvariant, TypeOK, Docs, Commit
<1>2. Account!Credit
  BY <1>1, CommitEffect DEF Account!Credit, Committed, BdCut, AgencyCut
<1>3. CASE db["history"] = 0
  <2>1. db["debit"] = 0
    BY <1>1, <1>3 DEF Committed
  <2>2. db'["wallet"] = IF db["wallet"] > Price THEN db["wallet"] - Price ELSE 0
    BY <1>1, <2>1, CommitEffect DEF WalletAfterDebit, OwedDelta, PositivePart
  <2>3. db'["history"] = 1 /\ db'["debit"] = Price
    BY CommitEffect
  <2> QED BY <1>1, <1>2, <1>3, <2>2, <2>3 DEF Account!Settle
<1>4. CASE db["history"] = 1
  <2>1. db["debit"] = Price
    BY <1>1, <1>4 DEF Committed
  <2>2. db'["wallet"] = db["wallet"]
    BY <1>1, <2>1, CommitEffect DEF WalletAfterDebit, OwedDelta, PositivePart
  <2>3. db'["history"] = 1 /\ db'["debit"] = db["debit"]
    BY <2>1, CommitEffect
  <2> QED BY <1>1, <1>2, <1>4, <2>2, <2>3 DEF Account!CompleteCredit
<1> QED BY <1>1, <1>3, <1>4 DEF Committed

\* settleCall implements the abstract account: the retry loop, the snapshot
\* transactions, the ledger rows and the crashes are invisible in the money
\* (billing-settlement.service.ts:571-1109).
THEOREM RefinementTheorem ==
  ASSUME Uniform
  PROVE  Spec => ImplementsAccount
<1>1. Init => Account!Init
  BY DEF Init, EmptyDb, Docs, Account!Init
<1>2. TransactionInvariant /\ [Next]_vars => [Account!Next]_(Account!vars)
  <2> SUFFICES ASSUME TransactionInvariant, [Next]_vars
               PROVE  Account!Next \/ UNCHANGED Account!vars
    OBVIOUS
  <2>1. CASE db' = db /\ deposited' = deposited
    BY <2>1 DEF Account!vars
  <2>2. ASSUME NEW s \in Settlers, Commit(s) PROVE Account!Next
    BY <2>2, CommitImplements DEF Account!Next
  <2>3. CASE Deposit
    <3>1. /\ db \in [Docs -> Nat]
          /\ {"wallet", "debit", "host", "bd", "agency", "history"} \subseteq Docs
      BY DEF TransactionInvariant, TypeOK, Docs
    <3>2. Account!Deposit
      BY <2>3, <3>1 DEF Deposit, Account!Deposit
    <3> QED BY <3>2 DEF Account!Next
  <2>4. CASE DeleteCreator
    <3>1. /\ db \in [Docs -> Nat]
          /\ {"wallet", "debit", "host", "bd", "agency", "history"} \subseteq Docs
      BY DEF TransactionInvariant, TypeOK, Docs
    <3> QED BY <2>4, <3>1 DEF DeleteCreator, Account!vars
  <2> QED BY <2>1, <2>2, <2>3, <2>4, DbFrame
<1> QED BY <1>1, <1>2, TransactionsAreIsolated, PTL DEF Spec, ImplementsAccount, Account!Spec
=============================================================================
