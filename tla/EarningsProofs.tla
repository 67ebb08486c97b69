--------------------------- MODULE EarningsProofs ---------------------------
(***************************************************************************)
(* Proofs about the components that pay coins out and in outside calls and *)
(* purchases: withdrawals, the wallet's operations, referrals and the      *)
(* affiliate program of creators, each for any number of requests that     *)
(* overlap, any number of faults and any amounts.  The constants and       *)
(* variables are those of the components; none takes steps with another.   *)
(***************************************************************************)
EXTENDS Integers, Sequences, FiniteSets, TLAPS, FiniteSetTheorems, SequenceTheorems

CONSTANTS OfStaff, Executions, Withdrawals, Amount, Opening, MaxMoves, MaxFaults,
          Workers, MayDie, MaxJobs,
          Referrers, Applies, Rewards, None, Settled, MayFail,
          Reward, MaxOperations

VARIABLES doc, debits, ledger, wallet, earnings, credited, moved, restored, pc, target, seen, faults,
          attached, edge, rewarded, paid, telegram, bought, on, job, jobs,
          referredBy, entries, claimed, apply, reward,
          coins, net, rows, purchase, queued, excess, operations

W == INSTANCE Withdrawal WITH Staff <- OfStaff
C == INSTANCE CreatorReferral
R == INSTANCE Referral
L == INSTANCE Wallet

-----------------------------------------------------------------------------
(* Withdrawals *)

\* Amounts and bounds are numbers, and the withdrawals of the run are finitely many.
WBounds ==
    /\ Amount \in Nat /\ Opening \in Nat /\ MaxMoves \in Nat /\ MaxFaults \in Nat
    /\ IsFiniteSet(Withdrawals)

WSeen == [coins : Int, earnings : Nat, stale : BOOLEAN]

\* processWithdrawalMarkPaid and the other handlers go on only with a balance
\* that covers what they take, so that what they save is no less than 0.
Enough(p) ==
    /\ pc[p] \in {"debitRow", "saveWallet"} => seen[p].coins >= Amount
    /\ pc[p] \in {"moveRow", "saveCredit"} => seen[p].coins >= 0
    /\ pc[p] = "saveDebit" => seen[p].coins > 0

SeenEnough == \A p \in Executions : Enough(p)

\* The debit row comes before the balance, the ledger entry of staff before the status.
DebitedFirst ==
    \A p \in Executions :
        /\ pc[p] \in {"saveWallet", "saveMirror", "savePaid"} => debits[target[p]] > 0
        /\ pc[p] = "savePaid" /\ OfStaff => target[p] \in ledger

\* Some withdrawal has a debit row.
AnyRow == \E w \in Withdrawals : debits[w] > 0

\* Some execution has saved a balance less the amount.
AnyLeft ==
    \/ \E p \in Executions : pc[p] \in {"saveMirror", "savePaid"}
    \/ \E w \in Withdrawals : doc[w].tx \/ doc[w].status = "paid"

\* What an execution has read of a creator's wallet: no more than was credited,
\* and less by one payout when it was read after it.
Borrowed(p) ==
    /\ seen[p].coins <= credited
    /\ pc[p] = "saveCredit" => seen[p].coins < credited
    /\ pc[p] # "readBalance"
    /\ AnyRow /\ pc[p] = "fixBalance" /\ ~ seen[p].stale => W!Max0(seen[p].coins) + Amount <= credited
    /\ AnyLeft /\ ~ seen[p].stale =>
          /\ pc[p] \in {"moveRow", "saveDebit"} => seen[p].coins + Amount <= credited
          /\ pc[p] = "saveCredit" => seen[p].coins + 1 + Amount <= credited

\* No balance of a creator exceeds what was credited, and none that was set
\* from a read after a payout brings its amount back.
CreatorCoins ==
    ~ OfStaff =>
        /\ wallet <= credited /\ net <= credited
        /\ \A p \in Executions : Borrowed(p)
        /\ AnyRow => Amount <= credited /\ net + Amount <= credited
        /\ AnyLeft /\ ~ restored => wallet + Amount <= credited

WInv == W!TypeOK /\ SeenEnough /\ DebitedFirst /\ W!PaidMeansDebited /\ CreatorCoins

LEMMA WInitInv == WBounds /\ W!Init => WInv
<1> SUFFICES ASSUME WBounds, W!Init PROVE WInv
  OBVIOUS
<1>1. W!TypeOK
  <2>1. W!Unread \in [coins : Int, earnings : Nat, stale : BOOLEAN]
    BY DEF W!Unread
  <2>2. seen \in [Executions -> [coins : Int, earnings : Nat, stale : BOOLEAN]]
    BY <2>1 DEF W!Init
  <2>3. /\ doc \in [Withdrawals -> [status : W!Statuses, tx : BOOLEAN]]
        /\ pc \in [Executions -> W!Points] /\ target \in [Executions -> Withdrawals]
    BY DEF W!Init, W!Statuses, W!Points
  <2>4. debits \in [Withdrawals -> 0..2] /\ ledger \subseteq Withdrawals
    BY DEF W!Init
  <2>5. /\ wallet \in Nat /\ earnings \in Nat /\ credited \in Nat /\ moved \in 0..MaxMoves
        /\ net \in Int /\ faults \in 0..MaxFaults
    BY DEF W!Init, WBounds
  <2>6. restored \in BOOLEAN
    BY DEF W!Init
  <2> QED BY <2>2, <2>3, <2>4, <2>5, <2>6 DEF W!TypeOK
<1>2. SeenEnough /\ DebitedFirst /\ W!PaidMeansDebited
  BY DEF W!Init, SeenEnough, Enough, DebitedFirst, W!PaidMeansDebited
<1>3. CreatorCoins
  <2>1. ~ AnyRow /\ ~ AnyLeft
    BY DEF W!Init, AnyRow, AnyLeft
  <2> QED BY <2>1 DEF W!Init, W!Unread, CreatorCoins, Borrowed, WBounds
<1> QED BY <1>1, <1>2, <1>3 DEF WInv

\* Whoever has a payout behind him has its row.
LEMMA WLeftRow == WInv /\ AnyLeft => AnyRow
<1> SUFFICES ASSUME WInv, AnyLeft PROVE AnyRow
  OBVIOUS
<1>1. \A p \in Executions : target[p] \in Withdrawals
  BY DEF WInv, W!TypeOK
<1> QED BY <1>1 DEF WInv, AnyLeft, AnyRow, DebitedFirst, W!PaidMeansDebited

\* A step that leaves the books alone and moves one execution.
LEMMA WMoveKeeps ==
  ASSUME WInv, NEW p \in Executions, NEW point \in W!Points,
         pc' = [pc EXCEPT ![p] = point], target' \in [Executions -> Withdrawals],
         \A q \in Executions \ {p} : target'[q] = target[q],
         NEW s \in WSeen, seen' = [seen EXCEPT ![p] = s],
         UNCHANGED <<doc, debits, ledger, wallet, earnings, credited, moved, net, restored>>,
         faults' \in 0..MaxFaults,
         point \in {"debitRow", "saveWallet"} => s.coins >= Amount,
         point = "moveRow" => s.coins >= 0, point \notin {"saveCredit", "saveDebit"},
         point \in {"saveWallet", "saveMirror", "savePaid"} => debits[target'[p]] > 0,
         point = "savePaid" /\ OfStaff => target'[p] \in ledger,
         ~ OfStaff => /\ s.coins <= credited /\ point # "readBalance"
                      /\ point = "fixBalance" /\ AnyRow => W!Max0(s.coins) + Amount <= credited
                      /\ point = "moveRow" /\ AnyLeft /\ ~ s.stale => s.coins + Amount <= credited
                      /\ point \in {"saveMirror", "savePaid"} => AnyLeft
  PROVE  WInv'
<1>0. /\ pc \in [Executions -> W!Points] /\ target \in [Executions -> Withdrawals]
      /\ seen \in [Executions -> WSeen]
  BY DEF WInv, W!TypeOK, WSeen
<1>a. /\ pc'[p] = point /\ seen'[p] = s
      /\ \A q \in Executions \ {p} : pc'[q] = pc[q] /\ seen'[q] = seen[q]
  BY <1>0
<1>1. W!TypeOK'
  BY <1>0 DEF WInv, W!TypeOK, WSeen
<1>2. SeenEnough'
  BY <1>a DEF WInv, SeenEnough, Enough
<1>3. DebitedFirst'
  BY <1>a DEF WInv, DebitedFirst
<1>4. W!PaidMeansDebited'
  BY DEF WInv, W!PaidMeansDebited
<1>5. CreatorCoins'
  <2> SUFFICES ASSUME ~ OfStaff PROVE CreatorCoins'
    BY DEF CreatorCoins
  <2>1. (AnyLeft' => AnyLeft) /\ AnyRow' = AnyRow
    BY <1>0, <1>a DEF AnyLeft, AnyRow
  <2>2. Borrowed(p)'
    BY <1>a, <2>1 DEF Borrowed
  <2>3. \A q \in Executions \ {p} : Borrowed(q)'
    BY <1>a, <2>1 DEF WInv, CreatorCoins, Borrowed
  <2> QED BY <2>1, <2>2, <2>3 DEF WInv, CreatorCoins
<1> QED BY <1>1, <1>2, <1>3, <1>4, <1>5 DEF WInv

\* The same for the actions that begin a handler.
LEMMA WStarts ==
  ASSUME WInv, NEW p \in Executions, NEW w \in Withdrawals,
         NEW point \in {"findActive", "checkBalance", "saveRejected", "readWallet"},
         W!Start(p, w, point), UNCHANGED <<W!books, seen, faults>>
  PROVE  WInv'
<1>0. pc \in [Executions -> W!Points] /\ target \in [Executions -> Withdrawals]
      /\ faults \in 0..MaxFaults /\ seen \in [Executions -> WSeen]
  BY DEF WInv, W!TypeOK, WSeen
<1>1. target' \in [Executions -> Withdrawals] /\ \A q \in Executions \ {p} : target'[q] = target[q]
  BY <1>0 DEF W!Start
<1>2. pc' = [pc EXCEPT ![p] = point] /\ point \in W!Points
  BY DEF W!Start, W!Points
<1>3. seen[p] \in WSeen /\ seen' = [seen EXCEPT ![p] = seen[p]] /\ (~ OfStaff => seen[p].coins <= credited)
  BY <1>0 DEF WInv, CreatorCoins, Borrowed
<1> QED BY <1>0, <1>1, <1>2, <1>3, WMoveKeeps DEF W!books, W!balance

\* And for those that go on without a write.
LEMMA WGoes ==
  ASSUME WBounds, WInv, NEW p \in Executions, NEW point \in W!Points, W!GoTo(p, point),
         UNCHANGED W!books, faults' \in 0..MaxFaults,
         point \in {"idle", "create", "saveApproved"} \/ (OfStaff /\ point = "fixBalance")
  PROVE  WInv'
<1>0. target \in [Executions -> Withdrawals] /\ seen \in [Executions -> WSeen] /\ credited \in Nat
  BY DEF WInv, W!TypeOK, WSeen
<1>1. PICK s \in WSeen : seen' = [seen EXCEPT ![p] = s] /\ (~ OfStaff => s.coins <= credited)
  <2>1. CASE point = "idle"
    <3>1. W!Unread \in WSeen /\ W!Unread.coins = 0
      BY DEF W!Unread, WSeen
    <3>2. seen' = [seen EXCEPT ![p] = W!Unread]
      BY <2>1 DEF W!GoTo
    <3>3. W!Unread.coins <= credited
      BY <1>0, <3>1
    <3> QED BY <3>1, <3>2, <3>3
  <2>2. CASE point # "idle"
    BY <1>0, <2>2 DEF W!GoTo, WInv, CreatorCoins, Borrowed
  <2> QED BY <2>1, <2>2
<1>2. pc' = [pc EXCEPT ![p] = point] /\ target' = target
  BY DEF W!GoTo
<1> QED BY <1>0, <1>1, <1>2, WMoveKeeps DEF W!books, W!balance

LEMMA WBegin ==
  ASSUME WInv, NEW p \in Executions,
         W!Request(p) \/ W!RequestStaff(p) \/ W!Approve(p) \/ W!Reject(p)
  PROVE  WInv'
<1>1. CASE W!BeginRequest(p)
  BY <1>1, WStarts DEF W!BeginRequest
<1>2. CASE W!Approve(p)
  BY <1>2, WStarts DEF W!Approve
<1>3. CASE W!Reject(p)
  BY <1>3, WStarts DEF W!Reject
<1> QED BY <1>1, <1>2, <1>3 DEF W!Request, W!RequestStaff

LEMMA WMarkPaid ==
  ASSUME WInv, NEW p \in Executions, W!MarkPaid(p)
  PROVE  WInv'
<1>1. PICK w \in Withdrawals :
        doc[w].status = "approved" /\ W!Start(p, w, IF doc[w].tx THEN "savePaid" ELSE "readWallet")
  BY DEF W!MarkPaid
<1>2. UNCHANGED <<W!books, seen, faults>>
  BY DEF W!MarkPaid
<1>3. CASE ~ doc[w].tx
  BY <1>1, <1>2, <1>3, WStarts
<1>4. CASE doc[w].tx
  <2>1. pc' = [pc EXCEPT ![p] = "savePaid"] /\ target' = [target EXCEPT ![p] = w]
    BY <1>1, <1>4 DEF W!Start
  <2>2. target \in [Executions -> Withdrawals] /\ faults \in 0..MaxFaults /\ "savePaid" \in W!Points
        /\ seen \in [Executions -> WSeen]
    BY DEF WInv, W!TypeOK, W!Points, WSeen
  <2>3. target'[p] = w /\ target' \in [Executions -> Withdrawals]
        /\ \A q \in Executions \ {p} : target'[q] = target[q]
    BY <2>1, <2>2
  <2>4. debits[w] > 0 /\ (OfStaff => w \in ledger)
    BY <1>4 DEF WInv, W!PaidMeansDebited
  <2>5. AnyLeft
    BY <1>4 DEF AnyLeft
  <2>6. seen[p] \in WSeen /\ seen' = [seen EXCEPT ![p] = seen[p]] /\ (~ OfStaff => seen[p].coins <= credited)
    BY <1>2, <2>2 DEF WInv, CreatorCoins, Borrowed
  <2>7. UNCHANGED <<doc, debits, ledger, wallet, earnings, credited, moved, net, restored, faults>>
    BY <1>2 DEF W!books, W!balance
  <2> HIDE DEF WSeen, W!Points
  <2> QED BY <2>1, <2>2, <2>3, <2>4, <2>5, <2>6, <2>7, WMoveKeeps
<1> QED BY <1>3, <1>4

LEMMA WChecks ==
  ASSUME WBounds, WInv, NEW p \in Executions,
         W!FindActive(p) \/ W!CheckBalance(p) \/ W!ReadBalance(p) \/ W!Fault(p)
  PROVE  WInv'
<1>0. faults \in 0..MaxFaults /\ pc[p] \in W!Points
  BY DEF WInv, W!TypeOK
<1>1. {"idle", "create", "saveApproved", "fixBalance"} \subseteq W!Points
  BY DEF W!Points
<1>2. CASE W!FindActive(p)
  BY <1>0, <1>1, <1>2, WGoes DEF W!FindActive
<1>3. CASE W!CheckBalance(p)
  BY <1>0, <1>1, <1>3, WGoes DEF W!CheckBalance
<1>4. CASE W!ReadBalance(p)
  <2>1. OfStaff
    BY <1>4 DEF WInv, CreatorCoins, Borrowed, W!ReadBalance
  <2> QED BY <1>0, <1>1, <1>4, <2>1, WGoes DEF W!ReadBalance
<1>5. CASE W!Fault(p)
  <2>1. faults' \in 0..MaxFaults
    BY <1>0, <1>5 DEF W!Fault, WBounds
  <2> QED BY <1>1, <1>5, <2>1, WGoes DEF W!Fault
<1> QED BY <1>2, <1>3, <1>4, <1>5

\* An execution that ends, and what it has read forgotten.
LEMMA WEnds ==
  ASSUME WInv, NEW p \in Executions, W!GoTo(p, "idle")
  PROVE  /\ pc' \in [Executions -> W!Points] /\ pc'[p] = "idle" /\ target' = target
         /\ seen' \in [Executions -> WSeen] /\ seen'[p] = W!Unread
         /\ \A q \in Executions \ {p} : pc'[q] = pc[q] /\ seen'[q] = seen[q]
<1>1. /\ pc \in [Executions -> W!Points] /\ seen \in [Executions -> WSeen]
      /\ W!Unread \in WSeen /\ "idle" \in W!Points
  BY DEF WInv, W!TypeOK, WSeen, W!Unread, W!Points
<1>2. pc' = [pc EXCEPT ![p] = "idle"] /\ seen' = [seen EXCEPT ![p] = W!Unread] /\ target' = target
  BY DEF W!GoTo
<1> HIDE DEF W!Unread
<1> QED BY <1>1, <1>2

\* An execution ends after it has written the status of a withdrawal.
LEMMA WStatus ==
  ASSUME WInv, NEW p \in Executions, NEW w \in Withdrawals,
         doc' \in [Withdrawals -> [status : W!Statuses, tx : BOOLEAN]],
         \A v \in Withdrawals \ {w} : doc'[v] = doc[v],
         doc'[w].tx \/ doc'[w].status = "paid" =>
            debits[w] > 0 /\ (OfStaff => w \in ledger) /\ (OfStaff \/ AnyLeft),
         W!GoTo(p, "idle"),
         UNCHANGED <<debits, ledger, W!balance, faults>>
  PROVE  WInv'
<1>0. /\ pc' \in [Executions -> W!Points] /\ pc'[p] = "idle" /\ target' = target
      /\ seen' \in [Executions -> WSeen] /\ seen'[p] = W!Unread
      /\ \A q \in Executions \ {p} : pc'[q] = pc[q] /\ seen'[q] = seen[q]
  BY WEnds
<1>u. UNCHANGED <<debits, ledger, wallet, earnings, credited, moved, net, restored, faults>>
  BY DEF W!balance
<1>1. W!TypeOK'
  BY <1>0, <1>u DEF WInv, W!TypeOK, WSeen
<1>2. SeenEnough' /\ DebitedFirst'
  BY <1>0, <1>u DEF WInv, SeenEnough, Enough, DebitedFirst
<1>3. W!PaidMeansDebited'
  BY <1>u DEF WInv, W!PaidMeansDebited
<1>4. CreatorCoins'
  <2> SUFFICES ASSUME ~ OfStaff PROVE CreatorCoins'
    BY DEF CreatorCoins
  <2>1. (AnyLeft' => AnyLeft) /\ AnyRow' = AnyRow
    BY <1>0, <1>u DEF AnyLeft, AnyRow
  <2>2. credited \in Nat
    BY DEF WInv, W!TypeOK
  <2>3. Borrowed(p)'
    BY <1>0, <1>u, <2>2 DEF Borrowed, W!Unread
  <2>4. \A q \in Executions \ {p} : Borrowed(q)'
    BY <1>0, <1>u, <2>1 DEF WInv, CreatorCoins, Borrowed
  <2> QED BY <1>u, <2>1, <2>3, <2>4 DEF WInv, CreatorCoins
<1> QED BY <1>1, <1>2, <1>3, <1>4 DEF WInv

LEMMA WWriteStatus ==
  ASSUME WInv, NEW p \in Executions,
         W!Create(p) \/ W!SaveApproved(p) \/ W!SaveRejected(p) \/ W!SavePaid(p)
  PROVE  WInv'
<1>0. doc \in [Withdrawals -> [status : W!Statuses, tx : BOOLEAN]] /\ target[p] \in Withdrawals
  BY DEF WInv, W!TypeOK
<1>1. ASSUME NEW w \in Withdrawals, NEW status \in {"pending", "approved", "rejected"},
             doc' = [doc EXCEPT ![w].status = status], W!GoTo(p, "idle"),
             UNCHANGED <<debits, ledger, W!balance, faults>>
      PROVE  WInv'
  <2>1. doc' \in [Withdrawals -> [status : W!Statuses, tx : BOOLEAN]]
    BY <1>0, <1>1 DEF W!Statuses
  <2>2. \A v \in Withdrawals \ {w} : doc'[v] = doc[v]
    BY <1>0, <1>1
  <2>3. doc'[w].tx \/ doc'[w].status = "paid" =>
           debits[w] > 0 /\ (OfStaff => w \in ledger) /\ (OfStaff \/ AnyLeft)
    BY <1>0, <1>1 DEF WInv, W!PaidMeansDebited, AnyLeft
  <2> QED BY <1>1, <2>1, <2>2, <2>3, WStatus
<1>2. CASE W!Create(p) \/ W!SaveApproved(p) \/ W!SaveRejected(p)
  BY <1>0, <1>1, <1>2 DEF W!Create, W!SaveApproved, W!SaveRejected, W!SetStatus
<1>3. CASE W!SavePaid(p)
  <2>1. doc' = [doc EXCEPT ![target[p]] = [status |-> "paid", tx |-> TRUE]]
        /\ W!GoTo(p, "idle") /\ UNCHANGED <<debits, ledger, W!balance, faults>>
    BY <1>3 DEF W!SavePaid
  <2>2. doc' \in [Withdrawals -> [status : W!Statuses, tx : BOOLEAN]]
        /\ \A v \in Withdrawals \ {target[p]} : doc'[v] = doc[v]
    BY <1>0, <2>1 DEF W!Statuses
  <2>3. debits[target[p]] > 0 /\ (OfStaff => target[p] \in ledger) /\ AnyLeft
    BY <1>3 DEF WInv, DebitedFirst, AnyLeft, W!SavePaid
  <2> QED BY <1>0, <2>1, <2>2, <2>3, WStatus
<1> QED BY <1>2, <1>3

\* What begins or goes on with a read of the wallet or of its rows.
LEMMA WReads ==
  ASSUME WBounds, WInv, NEW p \in Executions, W!ReadWallet(p) \/ W!ReadCoins(p) \/ W!ReadRows(p)
  PROVE  WInv'
<1>0. /\ target \in [Executions -> Withdrawals] /\ seen \in [Executions -> WSeen]
      /\ wallet \in Nat /\ earnings \in Nat /\ credited \in Nat /\ net \in Int /\ restored \in BOOLEAN
      /\ Amount \in Nat /\ faults \in 0..MaxFaults
  BY DEF WInv, W!TypeOK, WBounds, WSeen
<1>1. ~ OfStaff => /\ wallet <= credited /\ net <= credited
                   /\ AnyRow => Amount <= credited /\ net + Amount <= credited
                   /\ AnyLeft /\ ~ restored => wallet + Amount <= credited
  BY DEF WInv, CreatorCoins
<1>2. CASE W!ReadWallet(p) /\ wallet < Amount
  BY <1>0, <1>2, WGoes DEF W!ReadWallet, W!Points
<1>3. CASE W!ReadWallet(p) /\ ~ (wallet < Amount)
  <2>1. PICK s \in WSeen : s.coins = wallet /\ seen' = [seen EXCEPT ![p] = s]
    <3> DEFINE r == [coins |-> wallet, earnings |-> earnings, stale |-> FALSE]
    <3>1. r \in WSeen /\ r.coins = wallet
      BY <1>0 DEF WSeen
    <3>2. seen' = [seen EXCEPT ![p] = r]
      BY <1>3 DEF W!ReadWallet
    <3> QED BY <3>1, <3>2
  <2>2. /\ pc' = [pc EXCEPT ![p] = "debitRow"] /\ "debitRow" \in W!Points /\ target' = target
        /\ UNCHANGED <<W!books, faults>>
    BY <1>3 DEF W!ReadWallet, W!Points
  <2>3. s.coins >= Amount
    BY <1>0, <1>3, <2>1
  <2>4. UNCHANGED <<doc, debits, ledger, wallet, earnings, credited, moved, net, restored, faults>>
    BY <2>2 DEF W!books, W!balance
  <2> QED BY <1>0, <1>1, <2>1, <2>2, <2>3, <2>4, WMoveKeeps
<1>4. CASE W!ReadCoins(p)
  <2> DEFINE s == [coins |-> wallet, earnings |-> earnings, stale |-> restored]
  <2>1. s \in WSeen /\ s.coins = wallet /\ s.stale = restored /\ seen' = [seen EXCEPT ![p] = s]
    BY <1>0, <1>4 DEF W!ReadCoins, WSeen
  <2>2. /\ pc' = [pc EXCEPT ![p] = "moveRow"] /\ "moveRow" \in W!Points
        /\ target' = [target EXCEPT ![p] = target[p]]
        /\ UNCHANGED <<W!books, faults>>
    BY <1>4 DEF W!ReadCoins, W!Start, W!Points
  <2>3. target' = target
    BY <1>0, <2>2
  <2> HIDE DEF s
  <2>4. UNCHANGED <<doc, debits, ledger, wallet, earnings, credited, moved, net, restored, faults>>
    BY <2>2 DEF W!books, W!balance
  <2>5. s.coins >= 0 /\ (~ OfStaff => s.coins <= credited)
        /\ (~ OfStaff /\ AnyLeft /\ ~ s.stale => s.coins + Amount <= credited)
    BY <1>0, <1>1, <2>1
  <2>6. target' \in [Executions -> Withdrawals] /\ \A q \in Executions \ {p} : target'[q] = target[q]
    BY <1>0, <2>3
  <2>7. faults' \in 0..MaxFaults
    BY <1>0, <2>4
  <2> QED BY <2>1, <2>2, <2>4, <2>5, <2>6, <2>7, WMoveKeeps
<1>5. CASE W!ReadRows(p)
  <2>0. W!Max0(net) \in Nat /\ W!Max0(W!Max0(net)) = W!Max0(net)
        /\ (~ OfStaff => W!Max0(net) <= credited /\ (AnyRow => W!Max0(net) + Amount <= credited))
    BY <1>0, <1>1 DEF W!Max0
  <2>1. PICK s \in WSeen : s.coins = W!Max0(net) /\ s.stale = FALSE /\ seen' = [seen EXCEPT ![p] = s]
    <3> DEFINE r == [coins |-> W!Max0(net), earnings |-> 0, stale |-> FALSE]
    <3>1. r \in WSeen /\ r.coins = W!Max0(net) /\ r.stale = FALSE
      BY <2>0 DEF WSeen
    <3>2. seen' = [seen EXCEPT ![p] = r]
      BY <1>5 DEF W!ReadRows
    <3> QED BY <3>1, <3>2
  <2>2. /\ pc' = [pc EXCEPT ![p] = "fixBalance"] /\ "fixBalance" \in W!Points
        /\ target' = [target EXCEPT ![p] = target[p]]
        /\ UNCHANGED <<W!books, faults>>
    BY <1>5 DEF W!ReadRows, W!Start, W!Points
  <2>3. target' = target
    BY <1>0, <2>2
  <2>4. UNCHANGED <<doc, debits, ledger, wallet, earnings, credited, moved, net, restored, faults>>
    BY <2>2 DEF W!books, W!balance
  <2>5. ~ OfStaff => s.coins <= credited /\ (AnyRow => W!Max0(s.coins) + Amount <= credited)
    BY <2>0, <2>1
  <2>6. target' \in [Executions -> Withdrawals] /\ \A q \in Executions \ {p} : target'[q] = target[q]
    BY <1>0, <2>3
  <2>7. faults' \in 0..MaxFaults
    BY <1>0, <2>4
  <2> QED BY <2>1, <2>2, <2>4, <2>5, <2>6, <2>7, WMoveKeeps
<1> QED BY <1>2, <1>3, <1>4, <1>5

\* Marking changes nothing but the mark.
LEMMA WMarks ==
  ASSUME WInv, NEW points \in SUBSET W!Points, seen' = W!Marked(points)
  PROVE  /\ seen' \in [Executions -> WSeen]
         /\ \A q \in Executions : /\ seen'[q].coins = seen[q].coins
                                  /\ seen[q].stale => seen'[q].stale
                                  /\ pc[q] \in points => seen'[q].stale
<1>0. seen \in [Executions -> WSeen]
  BY DEF WInv, W!TypeOK, WSeen
<1>1. \A q \in Executions :
        /\ seen'[q] = [seen[q] EXCEPT !.stale = seen[q].stale \/ pc[q] \in points]
        /\ seen[q] \in WSeen /\ (seen[q].stale \/ pc[q] \in points) \in BOOLEAN
  BY <1>0 DEF W!Marked, WSeen
<1>2. \A q \in Executions :
        /\ seen'[q] \in WSeen /\ seen'[q].coins = seen[q].coins
        /\ seen'[q].stale = (seen[q].stale \/ pc[q] \in points)
  BY <1>1 DEF WSeen
<1> QED BY <1>2 DEF W!Marked

LEMMA WDebitRow ==
  ASSUME WBounds, WInv, NEW p \in Executions, W!DebitRow(p)
  PROVE  WInv'
<1> DEFINE w == target[p]
<1>0. /\ pc \in [Executions -> W!Points] /\ w \in Withdrawals /\ net \in Int /\ credited \in Nat
      /\ debits \in [Withdrawals -> 0..2] /\ Amount \in Nat
      /\ \A q \in Executions : seen[q].coins \in Int
  BY DEF WInv, W!TypeOK, WBounds
<1>1. /\ debits' \in [Withdrawals -> 0..2] /\ debits'[w] > 0
      /\ \A v \in Withdrawals : debits[v] > 0 => debits'[v] > 0
  BY <1>0 DEF W!DebitRow
<1>2. /\ pc[p] = "debitRow" /\ pc' = [pc EXCEPT ![p] = "saveWallet"] /\ net' = net - Amount
      /\ UNCHANGED <<doc, ledger, wallet, earnings, credited, moved, restored, target, faults>>
  BY DEF W!DebitRow
<1>3. /\ seen' \in [Executions -> WSeen]
      /\ \A q \in Executions : /\ seen'[q].coins = seen[q].coins
                               /\ seen[q].stale => seen'[q].stale
                               /\ pc[q] = "fixBalance" => seen'[q].stale
  BY WMarks DEF W!DebitRow, W!Points
<1>p. /\ pc' \in [Executions -> W!Points] /\ pc'[p] = "saveWallet"
      /\ \A q \in Executions \ {p} : pc'[q] = pc[q]
  BY <1>0, <1>2 DEF W!Points
<1>4. W!TypeOK'
  BY <1>0, <1>1, <1>2, <1>3, <1>p DEF WInv, W!TypeOK, WSeen
<1>5. SeenEnough'
  <2> SUFFICES ASSUME NEW q \in Executions PROVE Enough(q)'
    BY DEF SeenEnough
  <2>1. Enough(q) /\ seen'[q].coins = seen[q].coins
    BY <1>3 DEF WInv, SeenEnough
  <2> QED BY <1>2, <1>p, <2>1 DEF Enough
<1>6. DebitedFirst'
  <2> SUFFICES ASSUME NEW q \in Executions
               PROVE  /\ pc'[q] \in {"saveWallet", "saveMirror", "savePaid"} => debits'[target[q]] > 0
                      /\ pc'[q] = "savePaid" /\ OfStaff => target[q] \in ledger
    BY <1>2 DEF DebitedFirst
  <2>1. target[q] \in Withdrawals
    BY DEF WInv, W!TypeOK
  <2> QED BY <1>1, <1>2, <1>p, <2>1 DEF WInv, DebitedFirst
<1>7. W!PaidMeansDebited'
  BY <1>1, <1>2 DEF WInv, W!PaidMeansDebited
<1>8. CreatorCoins'
  <2> SUFFICES ASSUME ~ OfStaff PROVE CreatorCoins'
    BY DEF CreatorCoins
  <2>1. AnyLeft' => AnyLeft
    BY <1>2, <1>p DEF AnyLeft
  <2>2. Amount <= credited /\ net' + Amount <= credited /\ net' <= credited
    <3>1. seen[p].coins >= Amount /\ seen[p].coins <= credited /\ net <= credited
      BY <1>2 DEF WInv, SeenEnough, Enough, CreatorCoins, Borrowed
    <3> QED BY <1>0, <1>2, <3>1
  <2>3. ASSUME NEW q \in Executions PROVE Borrowed(q)'
    <3>1. /\ Borrowed(q) /\ seen'[q].coins = seen[q].coins /\ (seen[q].stale => seen'[q].stale)
          /\ pc'[q] = "fixBalance" => seen'[q].stale
          /\ pc'[q] = pc[q] \/ pc'[q] = "saveWallet"
      BY <1>3, <1>p DEF WInv, CreatorCoins
    <3> QED BY <1>2, <2>1, <3>1 DEF Borrowed
  <2> QED BY <1>2, <2>1, <2>2, <2>3 DEF WInv, CreatorCoins
<1> QED BY <1>4, <1>5, <1>6, <1>7, <1>8 DEF WInv

\* What is saved stays below what was credited, and whoever has read the
\* balance before is marked.
LEMMA WSaveWallet ==
  ASSUME WBounds, WInv, NEW p \in Executions, W!SaveWallet(p)
  PROVE  WInv'
<1>0. /\ pc \in [Executions -> W!Points] /\ seen[p].coins \in Int /\ Amount \in Nat
      /\ credited \in Nat
  BY DEF WInv, W!TypeOK, WBounds
<1>1. /\ pc[p] = "saveWallet" /\ pc' = [pc EXCEPT ![p] = "saveMirror"]
      /\ wallet' = seen[p].coins - Amount /\ restored' = FALSE
      /\ UNCHANGED <<doc, debits, ledger, earnings, credited, moved, net, target, faults>>
  BY DEF W!SaveWallet
<1>2. /\ seen' \in [Executions -> WSeen]
      /\ \A q \in Executions : /\ seen'[q].coins = seen[q].coins
                               /\ seen[q].stale => seen'[q].stale
                               /\ pc[q] \in {"moveRow", "saveCredit", "saveDebit"} => seen'[q].stale
  BY WMarks DEF W!SaveWallet, W!Points
<1>p. /\ pc' \in [Executions -> W!Points] /\ pc'[p] = "saveMirror"
      /\ \A q \in Executions \ {p} : pc'[q] = pc[q]
  BY <1>0, <1>1 DEF W!Points
<1>3. wallet' \in Nat
  BY <1>0, <1>1 DEF WInv, SeenEnough, Enough
<1>4. W!TypeOK'
  BY <1>1, <1>2, <1>3, <1>p DEF WInv, W!TypeOK, WSeen
<1>5. SeenEnough'
  <2> SUFFICES ASSUME NEW q \in Executions PROVE Enough(q)'
    BY DEF SeenEnough
  <2>1. Enough(q) /\ seen'[q].coins = seen[q].coins
    BY <1>2 DEF WInv, SeenEnough
  <2> QED BY <1>p, <2>1 DEF Enough
<1>6. DebitedFirst' /\ W!PaidMeansDebited'
  BY <1>1, <1>p DEF WInv, DebitedFirst, W!PaidMeansDebited
<1>7. CreatorCoins'
  <2> SUFFICES ASSUME ~ OfStaff PROVE CreatorCoins'
    BY DEF CreatorCoins
  <2>1. seen[p].coins <= credited
    BY DEF WInv, CreatorCoins, Borrowed
  <2>2. wallet' + Amount <= credited /\ wallet' <= credited
    BY <1>0, <1>1, <2>1
  <2>3. AnyRow' = AnyRow
    BY <1>1 DEF AnyRow
  <2>4. ASSUME NEW q \in Executions PROVE Borrowed(q)'
    <3>1. /\ Borrowed(q) /\ seen'[q].coins = seen[q].coins /\ (seen[q].stale => seen'[q].stale)
          /\ pc'[q] \in {"moveRow", "saveCredit", "saveDebit"} => seen'[q].stale
          /\ pc'[q] = pc[q] \/ pc'[q] = "saveMirror"
      BY <1>2, <1>p DEF WInv, CreatorCoins
    <3> QED BY <1>1, <2>3, <3>1 DEF Borrowed
  <2> QED BY <1>1, <2>2, <2>3, <2>4 DEF WInv, CreatorCoins
<1> QED BY <1>4, <1>5, <1>6, <1>7 DEF WInv

LEMMA WSaveMirror ==
  ASSUME WBounds, WInv, NEW p \in Executions, W!SaveMirror(p)
  PROVE  WInv'
<1> DEFINE w == target[p]
<1>0. /\ pc \in [Executions -> W!Points] /\ w \in Withdrawals /\ ledger \subseteq Withdrawals
      /\ seen \in [Executions -> WSeen] /\ credited \in Nat
  BY DEF WInv, W!TypeOK, WSeen
<1>1. /\ pc[p] = "saveMirror"
      /\ UNCHANGED <<doc, debits, wallet, credited, moved, net, restored, target, faults>>
      /\ \/ pc' = [pc EXCEPT ![p] = "idle"] /\ seen' = [seen EXCEPT ![p] = W!Unread]
         \/ pc' = [pc EXCEPT ![p] = "savePaid"] /\ (OfStaff => w \in ledger') /\ seen' = seen
      /\ ledger \subseteq ledger' /\ ledger' \subseteq Withdrawals
  BY <1>0 DEF W!SaveMirror, W!GoTo
<1>p. /\ pc' \in [Executions -> W!Points] /\ pc'[p] \in {"idle", "savePaid"}
      /\ \A q \in Executions \ {p} : pc'[q] = pc[q] /\ seen'[q] = seen[q]
      /\ seen' \in [Executions -> WSeen] /\ seen'[p] \in {seen[p], W!Unread}
  <2>1. W!Unread \in WSeen
    BY DEF W!Unread, WSeen
  <2> HIDE DEF W!Unread
  <2> QED BY <1>0, <1>1, <2>1 DEF W!Points
<1>2. earnings' \in Nat
  <2>1. CASE UNCHANGED earnings
    BY <2>1 DEF WInv, W!TypeOK
  <2>2. CASE earnings' = W!Max0(seen[p].earnings - Amount)
    <3>1. ASSUME NEW n \in Int PROVE W!Max0(n) \in Nat
      BY DEF W!Max0
    <3>2. seen[p].earnings - Amount \in Int
      BY DEF WInv, W!TypeOK, WBounds
    <3> QED BY <2>2, <3>1, <3>2
  <2> QED BY <2>1, <2>2 DEF W!SaveMirror
<1>3. W!TypeOK'
  BY <1>1, <1>2, <1>p DEF WInv, W!TypeOK, WSeen
<1>4. SeenEnough'
  BY <1>p DEF WInv, SeenEnough, Enough
<1>5. DebitedFirst' /\ W!PaidMeansDebited'
  BY <1>0, <1>1, <1>p DEF WInv, DebitedFirst, W!PaidMeansDebited
<1>6. CreatorCoins'
  <2> SUFFICES ASSUME ~ OfStaff PROVE CreatorCoins'
    BY DEF CreatorCoins
  <2>1. (AnyLeft' => AnyLeft) /\ AnyRow' = AnyRow
    BY <1>1, <1>p DEF AnyLeft, AnyRow
  <2>2. Borrowed(p)'
    BY <1>0, <1>1, <1>p DEF WInv, CreatorCoins, Borrowed, W!Unread
  <2>3. \A q \in Executions \ {p} : Borrowed(q)'
    BY <1>1, <1>p, <2>1 DEF WInv, CreatorCoins, Borrowed
  <2> QED BY <1>1, <2>1, <2>2, <2>3 DEF WInv, CreatorCoins
<1> QED BY <1>3, <1>4, <1>5, <1>6 DEF WInv

LEMMA WCredit ==
  ASSUME WBounds, WInv, W!Credit
  PROVE  WInv'
<1>0. /\ wallet \in Nat /\ earnings \in Nat /\ credited \in Nat /\ net \in Int /\ Amount \in Nat
      /\ moved \in 0..MaxMoves
  BY DEF WInv, W!TypeOK, WBounds
<1>1. /\ wallet' = wallet + 1 /\ earnings' = earnings + 1 /\ credited' = credited + 1 /\ net' = net + 1
      /\ moved < MaxMoves /\ moved' = moved + 1
      /\ UNCHANGED <<doc, debits, ledger, restored, pc, target, seen, faults>>
  BY DEF W!Credit
<1>2. W!TypeOK'
  BY <1>0, <1>1 DEF WInv, W!TypeOK, WBounds
<1>3. SeenEnough' /\ DebitedFirst' /\ W!PaidMeansDebited'
  BY <1>1 DEF WInv, SeenEnough, Enough, DebitedFirst, W!PaidMeansDebited
<1>4. CreatorCoins'
  <2> SUFFICES ASSUME ~ OfStaff PROVE CreatorCoins'
    BY DEF CreatorCoins
  <2>1. AnyLeft' = AnyLeft /\ AnyRow' = AnyRow
    BY <1>1 DEF AnyLeft, AnyRow
  <2>2. ASSUME NEW p \in Executions PROVE Borrowed(p)'
    <3>1. seen[p].coins \in Int /\ W!Max0(seen[p].coins) \in Int /\ Borrowed(p)
      BY DEF WInv, CreatorCoins, W!TypeOK, W!Max0
    <3> QED BY <1>0, <1>1, <2>1, <3>1 DEF Borrowed
  <2>3. /\ wallet' <= credited' /\ net' <= credited'
        /\ AnyRow' => Amount <= credited' /\ net' + Amount <= credited'
        /\ AnyLeft' /\ ~ restored' => wallet' + Amount <= credited'
    BY <1>0, <1>1, <2>1 DEF WInv, CreatorCoins
  <2> QED BY <2>2, <2>3 DEF CreatorCoins
<1> QED BY <1>2, <1>3, <1>4 DEF WInv

\* The rows of the other handlers: what is credited is credited with its row.
LEMMA WMoveRow ==
  ASSUME WBounds, WInv, NEW p \in Executions, W!MoveRow(p)
  PROVE  WInv'
<1>0. /\ pc \in [Executions -> W!Points] /\ credited \in Nat /\ net \in Int /\ Amount \in Nat
      /\ moved \in 0..MaxMoves /\ \A q \in Executions : seen[q].coins \in Int
  BY DEF WInv, W!TypeOK, WBounds
<1>1. PICK point \in {"saveCredit", "saveDebit"} :
        /\ pc' = [pc EXCEPT ![p] = point]
        /\ point = "saveCredit" => credited' = credited + 1 /\ net' = net + 1
        /\ point = "saveDebit" => credited' = credited /\ net' = net - 1 /\ seen[p].coins > 0
  BY DEF W!MoveRow, W!GoTo
<1>2. /\ pc[p] = "moveRow" /\ moved < MaxMoves /\ moved' = moved + 1
      /\ UNCHANGED <<doc, debits, ledger, wallet, earnings, restored, target, seen, faults>>
  BY DEF W!MoveRow, W!GoTo
<1>p. /\ pc' \in [Executions -> W!Points] /\ pc'[p] = point
      /\ \A q \in Executions \ {p} : pc'[q] = pc[q]
  BY <1>0, <1>1 DEF W!Points
<1>3. W!TypeOK'
  BY <1>0, <1>1, <1>2, <1>p DEF WInv, W!TypeOK, WBounds
<1>4. SeenEnough'
  BY <1>1, <1>2, <1>p DEF WInv, SeenEnough, Enough
<1>5. DebitedFirst' /\ W!PaidMeansDebited'
  BY <1>2, <1>p DEF WInv, DebitedFirst, W!PaidMeansDebited
<1>6. CreatorCoins'
  <2> SUFFICES ASSUME ~ OfStaff PROVE CreatorCoins'
    BY DEF CreatorCoins
  <2>1. (AnyLeft' => AnyLeft) /\ AnyRow' = AnyRow
    BY <1>2, <1>p DEF AnyLeft, AnyRow
  <2>2. credited' >= credited /\ credited' \in Nat /\ (point = "saveCredit" => credited' = credited + 1)
    BY <1>0, <1>1
  <2>3. Borrowed(p)'
    <3>1. Borrowed(p)
      BY DEF WInv, CreatorCoins
    <3> QED BY <1>0, <1>1, <1>2, <1>p, <2>1, <2>2, <3>1 DEF Borrowed
  <2>4. ASSUME NEW q \in Executions \ {p} PROVE Borrowed(q)'
    <3>1. seen[q].coins \in Int /\ W!Max0(seen[q].coins) \in Int /\ Borrowed(q)
      BY <1>0 DEF WInv, CreatorCoins, W!Max0
    <3> QED BY <1>0, <1>2, <1>p, <2>1, <2>2, <3>1 DEF Borrowed
  <2>5. /\ wallet' <= credited' /\ net' <= credited'
        /\ AnyRow' => Amount <= credited' /\ net' + Amount <= credited'
        /\ AnyLeft' /\ ~ restored' => wallet' + Amount <= credited'
    <3>1. wallet \in Nat
      BY DEF WInv, W!TypeOK
    <3> QED BY <1>0, <1>1, <1>2, <2>1, <2>2, <3>1 DEF WInv, CreatorCoins
  <2> QED BY <2>3, <2>4, <2>5 DEF CreatorCoins
<1> QED BY <1>3, <1>4, <1>5, <1>6 DEF WInv

\* What the other handlers, the repair and the reconciliation save.
LEMMA WSaves ==
  ASSUME WBounds, WInv, NEW p \in Executions, W!SaveCoins(p) \/ W!FixBalance(p)
  PROVE  WInv'
<1>0. /\ seen[p] \in WSeen /\ credited \in Nat /\ earnings \in Nat /\ Amount \in Nat
  BY DEF WInv, W!TypeOK, WBounds, WSeen
<1>e. /\ pc' \in [Executions -> W!Points] /\ pc'[p] = "idle" /\ target' = target
      /\ seen' \in [Executions -> WSeen] /\ seen'[p] = W!Unread
      /\ \A q \in Executions \ {p} : pc'[q] = pc[q] /\ seen'[q] = seen[q]
  BY WEnds DEF W!SaveCoins, W!FixBalance
<1>u. restored' = seen[p].stale /\ UNCHANGED <<doc, debits, ledger, credited, moved, net, faults>>
  BY DEF W!SaveCoins, W!FixBalance
<1>m. \A n \in Int : W!Max0(n) \in Nat /\ W!Max0(n) >= n /\ (n >= 0 => W!Max0(n) = n)
  BY DEF W!Max0
<1>1. earnings' \in Nat
  <2>1. seen[p].earnings + 1 \in Int /\ seen[p].earnings + (-1) \in Int
    BY <1>0 DEF WSeen
  <2>2. CASE W!FixBalance(p)
    BY <1>0, <2>2 DEF W!FixBalance
  <2>3. CASE W!SaveCoins(p)
    <3>1. PICK change \in {1, -1} : earnings' \in {earnings, W!Max0(seen[p].earnings + change)}
      BY <2>3 DEF W!SaveCoins
    <3>2. W!Max0(seen[p].earnings + change) \in Nat
      BY <1>m, <2>1, <3>1
    <3> QED BY <1>0, <3>1, <3>2
  <2> QED BY <2>2, <2>3
<1>2. /\ wallet' \in Nat
      /\ ~ OfStaff => wallet' <= credited /\ (AnyLeft /\ ~ seen[p].stale => wallet' + Amount <= credited)
  <2>0. Enough(p) /\ (~ OfStaff => Borrowed(p)) /\ seen[p].coins \in Int
    BY <1>0 DEF WInv, SeenEnough, CreatorCoins, WSeen
  <2>1. CASE W!FixBalance(p)
    <3>1. pc[p] = "fixBalance" /\ wallet' = W!Max0(seen[p].coins)
      BY <2>1 DEF W!FixBalance
    <3>2. AnyLeft => AnyRow
      BY WLeftRow
    <3> QED BY <1>0, <1>m, <2>0, <3>1, <3>2 DEF Borrowed, W!Max0
  <2>2. CASE W!SaveCoins(p) /\ pc[p] = "saveCredit"
    <3>1. wallet' = seen[p].coins + 1
      BY <2>2 DEF W!SaveCoins
    <3> QED BY <1>0, <2>0, <2>2, <3>1 DEF Borrowed, Enough
  <2>3. CASE W!SaveCoins(p) /\ pc[p] = "saveDebit"
    <3>1. wallet' = seen[p].coins + (-1)
      BY <2>3 DEF W!SaveCoins
    <3> QED BY <1>0, <2>0, <2>3, <3>1 DEF Borrowed, Enough
  <2> QED BY <2>1, <2>2, <2>3 DEF W!SaveCoins
<1>3. W!TypeOK'
  BY <1>0, <1>1, <1>2, <1>e, <1>u DEF WInv, W!TypeOK, WSeen
<1>4. SeenEnough' /\ DebitedFirst' /\ W!PaidMeansDebited'
  BY <1>e, <1>u DEF WInv, SeenEnough, Enough, DebitedFirst, W!PaidMeansDebited
<1>5. CreatorCoins'
  <2> SUFFICES ASSUME ~ OfStaff PROVE CreatorCoins'
    BY DEF CreatorCoins
  <2>1. (AnyLeft' => AnyLeft) /\ AnyRow' = AnyRow
    BY <1>e, <1>u DEF AnyLeft, AnyRow
  <2>2. Borrowed(p)'
    BY <1>0, <1>e, <1>u DEF Borrowed, W!Unread
  <2>3. \A q \in Executions \ {p} : Borrowed(q)'
    BY <1>e, <1>u, <2>1 DEF WInv, CreatorCoins, Borrowed
  <2> QED BY <1>2, <1>u, <2>1, <2>2, <2>3 DEF WInv, CreatorCoins
<1> QED BY <1>3, <1>4, <1>5 DEF WInv

LEMMA WReconcile ==
  ASSUME WBounds, WInv, NEW p \in Executions, W!Reconcile(p)
  PROVE  WInv'
<1>0. /\ target \in [Executions -> Withdrawals]
      /\ seen \in [Executions -> WSeen] /\ credited \in Nat
      /\ ledger \subseteq Withdrawals /\ faults \in 0..MaxFaults
  BY DEF WInv, W!TypeOK, WSeen
<1>1. W!LedgerBalance \in Int
  <2>1. Cardinality(ledger) \in Nat
    BY <1>0, FS_Subset, FS_CardinalityType DEF WBounds
  <2>2. Amount * Cardinality(ledger) \in Nat
    BY <2>1 DEF WBounds
  <2>3. W!LedgerBalance = credited - Amount * Cardinality(ledger)
    BY DEF W!LedgerBalance, W!Cardinality, Cardinality, W!IsFiniteSet, IsFiniteSet
  <2> QED BY <1>0, <2>2, <2>3
<1>2. PICK w \in Withdrawals : pc' = [pc EXCEPT ![p] = "readBalance"] /\ target' = [target EXCEPT ![p] = w]
  BY DEF W!Reconcile, W!Start
<1>3. OfStaff /\ UNCHANGED <<doc, debits, ledger, wallet, earnings, credited, moved, net, restored, faults>>
  BY DEF W!Reconcile, W!books, W!balance
<1>4. PICK s \in WSeen : seen' = [seen EXCEPT ![p] = s]
  <2>1. [seen[p] EXCEPT !.coins = W!LedgerBalance] \in WSeen
    BY <1>0, <1>1 DEF WSeen
  <2>2. seen' = [seen EXCEPT ![p] = [seen[p] EXCEPT !.coins = W!LedgerBalance]]
    BY <1>0 DEF W!Reconcile
  <2> QED BY <2>1, <2>2
<1>5. /\ target' \in [Executions -> Withdrawals] /\ \A q \in Executions \ {p} : target'[q] = target[q]
      /\ "readBalance" \in W!Points
  BY <1>0, <1>2 DEF W!Points
<1> QED BY <1>0, <1>2, <1>3, <1>4, <1>5, WMoveKeeps

LEMMA WStepInv == WBounds /\ WInv /\ W!Next => WInv'
<1> SUFFICES ASSUME WBounds, WInv, W!Next PROVE WInv'
  OBVIOUS
<1>1. CASE W!Credit
  BY <1>1, WCredit
<1>2. ASSUME NEW p \in Executions, W!Continue(p) PROVE WInv'
  BY <1>2, WChecks, WWriteStatus, WReads, WDebitRow, WSaveWallet, WSaveMirror, WMoveRow,
     WSaves DEF W!Continue
<1>3. ASSUME NEW p \in Executions,
             \/ W!Request(p) \/ W!RequestStaff(p) \/ W!Approve(p) \/ W!Reject(p)
             \/ W!MarkPaid(p) \/ W!Reconcile(p) \/ W!ReadCoins(p) \/ W!ReadRows(p) \/ W!Fault(p)
      PROVE  WInv'
  BY <1>3, WBegin, WMarkPaid, WReconcile, WReads, WChecks
<1> QED BY <1>1, <1>2, <1>3 DEF W!Next

LEMMA WStutterInv == WInv /\ UNCHANGED W!vars => WInv'
  BY DEF W!vars, W!books, W!balance, WInv, W!TypeOK, SeenEnough, Enough, DebitedFirst, W!PaidMeansDebited,
     CreatorCoins, Borrowed, AnyLeft, AnyRow

\* What was paid out to a creator has left the wallet, and a withdrawal that is
\* paid has its debit row and its ledger entry.
LEMMA WLeft == WInv => W!PaidMeansDebited /\ (~ OfStaff => W!PaidLeftTheWallet)
  BY DEF WInv, CreatorCoins, AnyLeft, W!PaidLeftTheWallet

\* Any number of handlers in markPaid, and of crashes in it: a withdrawal that
\* is paid, or carries a transactionId, has its debit row and, for staff, its
\* ledger entry (processWithdrawalMarkPaid).
THEOREM PaidIsDebited ==
  ASSUME WBounds PROVE W!Spec => []W!PaidMeansDebited
<1> QED BY WInitInv, WStepInv, WStutterInv, WLeft, PTL DEF W!Spec

\* Once a creator withdrawal is paid the coins of one payout at least are gone,
\* whichever payouts overlap and whatever other handlers save, unless they save
\* what they have read or summed up before the payout (processWithdrawalMarkPaid
\* beside claimTaskReward, adjustUserCoins, refundCall and the balance repairs).
THEOREM PaidLeaves ==
  ASSUME WBounds, ~ OfStaff PROVE W!Spec => []W!PaidLeftTheWallet
<1> QED BY WInitInv, WStepInv, WStutterInv, WLeft, PTL DEF W!Spec

-----------------------------------------------------------------------------
(* The affiliate program of creators *)

\* What a hook may still have to pay: the stage of a purchase only after one.
Payable == {"attach", "telegram", "backfill"} \cup (IF bought THEN {"purchase"} ELSE {})

CTypes ==
    /\ attached \in BOOLEAN /\ telegram \in BOOLEAN /\ bought \in BOOLEAN
    /\ edge \in [there : BOOLEAN, joined : BOOLEAN]
    /\ rewarded \subseteq C!Stages /\ ledger \subseteq C!Stages
    /\ paid \in [C!Stages -> Nat]
    /\ job \in [Workers -> [at : {"idle", "create", "pay", "mark"}, todo : Seq(Payable)]]

\* The edge says no more than what happened, and a hook is under way only
\* after what it works for.
EdgeEarned ==
    /\ edge.there => attached
    /\ edge.joined => telegram
    /\ \A w \in Workers :
          /\ job[w].at = "create" => attached /\ (job[w].todo # <<>> => telegram)
          /\ job[w].at = "mark" => telegram

\* A row is there only for a stage that was reached.
RowsEarned ==
    /\ "attach" \in ledger => attached
    /\ "telegram" \in ledger => telegram
    /\ "purchase" \in ledger => bought

CInv == CTypes /\ EdgeEarned /\ RowsEarned /\ C!StagesAgree

LEMMA CEarned == CInv => C!PaidIsEarned
  BY DEF CInv, RowsEarned, C!StagesAgree, C!PaidIsEarned, C!Stages

LEMMA CInitInv == C!Init => CInv
<1> SUFFICES ASSUME C!Init PROVE CInv
  OBVIOUS
<1>1. <<>> \in Seq(Payable)
  OBVIOUS
<1>2. CTypes
  BY <1>1 DEF C!Init, CTypes, C!Idle
<1>3. EdgeEarned /\ RowsEarned /\ C!StagesAgree
  BY DEF C!Init, EdgeEarned, RowsEarned, C!StagesAgree, C!Idle
<1> QED BY <1>2, <1>3 DEF CInv

LEMMA MoreInSeq ==
  ASSUME NEW A, NEW B, A \subseteq B PROVE Seq(A) \subseteq Seq(B)
<1> SUFFICES ASSUME NEW s \in Seq(A) PROVE s \in Seq(B)
  OBVIOUS
<1>1. Len(s) \in Nat /\ s \in [1..Len(s) -> A]
  OBVIOUS
<1>2. s \in [1..Len(s) -> B]
  BY <1>1
<1> QED BY <1>1, <1>2

\* A worker takes up or goes on with a list of stages, and the user has done
\* no less than before.
LEMMA CRuns ==
  ASSUME CTypes, NEW w \in Workers, NEW at \in {"idle", "create", "pay", "mark"},
         NEW todo \in Seq(Payable'), C!Run(w, at, todo),
         bought' \in BOOLEAN, bought => bought'
  PROVE  /\ job' \in [Workers -> [at : {"idle", "create", "pay", "mark"}, todo : Seq(Payable')]]
         /\ job'[w] = [at |-> at, todo |-> todo]
         /\ \A v \in Workers \ {w} : job'[v] = job[v]
<1>1. Seq(Payable) \subseteq Seq(Payable')
  BY MoreInSeq DEF Payable
<1>2. job' = [job EXCEPT ![w] = [at |-> at, todo |-> todo]]
  BY DEF C!Run
<1>3. job \in [Workers -> [at : {"idle", "create", "pay", "mark"}, todo : Seq(Payable')]]
  BY <1>1 DEF CTypes
<1> QED BY <1>2, <1>3

\* What is true after a step that pays nothing.
LEMMA CKeeps ==
  ASSUME CInv, NEW w \in Workers, NEW at \in {"idle", "create", "pay", "mark"},
         NEW todo \in Seq(Payable'), C!Run(w, at, todo),
         attached' \in BOOLEAN, attached => attached',
         telegram' \in BOOLEAN, telegram => telegram',
         bought' \in BOOLEAN, bought => bought',
         edge' \in [there : BOOLEAN, joined : BOOLEAN],
         edge'.there => attached', edge'.joined => telegram',
         at = "create" => attached' /\ (todo # <<>> => telegram'),
         at = "mark" => telegram',
         UNCHANGED <<rewarded, ledger, paid>>
  PROVE  CInv'
<1>1. /\ job' \in [Workers -> [at : {"idle", "create", "pay", "mark"}, todo : Seq(Payable')]]
      /\ job'[w] = [at |-> at, todo |-> todo]
      /\ \A v \in Workers \ {w} : job'[v] = job[v]
  BY CRuns DEF CInv
<1>2. CTypes'
  BY <1>1 DEF CInv, CTypes
<1>3. EdgeEarned'
  BY <1>1 DEF CInv, EdgeEarned
<1>4. RowsEarned' /\ C!StagesAgree'
  BY DEF CInv, RowsEarned, C!StagesAgree
<1> QED BY <1>2, <1>3, <1>4 DEF CInv

LEMMA WhenSeq ==
  ASSUME NEW A, NEW c \in BOOLEAN, NEW s \in A PROVE C!When(c, s) \in Seq(A)
  BY DEF C!When

LEMMA CStarts ==
  ASSUME CInv, NEW w \in Workers, C!Attach(w) \/ C!ClaimTelegram(w) \/ C!Purchase(w)
  PROVE  CInv'
<1>0. /\ attached \in BOOLEAN /\ telegram \in BOOLEAN /\ bought \in BOOLEAN
      /\ edge \in [there : BOOLEAN, joined : BOOLEAN]
      /\ (edge.there => attached) /\ (edge.joined => telegram)
  BY DEF CInv, CTypes, EdgeEarned
<1>1. CASE C!Attach(w)
  <2>1. C!When(telegram, "telegram") \in Seq(Payable')
    BY <1>0, WhenSeq DEF Payable
  <2>2. C!When(telegram, "telegram") # <<>> => telegram
    BY <1>0 DEF C!When
  <2>3. /\ attached' = TRUE /\ C!Run(w, "create", C!When(telegram, "telegram"))
        /\ UNCHANGED <<edge, rewarded, ledger, paid, telegram, bought>>
    BY <1>1 DEF C!Attach, C!state
  <2> QED BY <1>0, <2>1, <2>2, <2>3, CKeeps
<1>2. CASE C!ClaimTelegram(w)
  <2>1. /\ telegram' = TRUE /\ C!Run(w, "mark", <<>>)
        /\ UNCHANGED <<edge, rewarded, ledger, paid, attached, bought>>
    BY <1>2 DEF C!ClaimTelegram, C!state
  <2>2. <<>> \in Seq(Payable')
    OBVIOUS
  <2> QED BY <1>0, <2>1, <2>2, CKeeps
<1>3. CASE C!Purchase(w)
  <2>1. /\ bought' = TRUE /\ C!Run(w, "pay", <<"purchase">>)
        /\ UNCHANGED <<edge, rewarded, ledger, paid, attached, telegram>>
    BY <1>3 DEF C!Purchase, C!state
  <2>2. <<"purchase">> \in Seq(Payable')
    BY <2>1 DEF Payable
  <2> QED BY <1>0, <2>1, <2>2, CKeeps
<1> QED BY <1>1, <1>2, <1>3

LEMMA CEdges ==
  ASSUME CInv, NEW w \in Workers, C!Create(w) \/ C!Mark(w)
  PROVE  CInv'
<1>0. /\ attached \in BOOLEAN /\ telegram \in BOOLEAN /\ bought \in BOOLEAN
      /\ edge \in [there : BOOLEAN, joined : BOOLEAN] /\ job[w].todo \in Seq(Payable)
      /\ edge.there => attached
  BY DEF CInv, CTypes, EdgeEarned
<1>1. CASE C!Create(w)
  <2> DEFINE todo == <<"attach">> \o job[w].todo \o <<"backfill">>
  <2>1. /\ job[w].at = "create" /\ C!Run(w, "pay", todo)
        /\ edge' = [there |-> TRUE, joined |-> job[w].todo # <<>>]
        /\ UNCHANGED <<attached, rewarded, ledger, paid, telegram, bought>>
    BY <1>1 DEF C!Create
  <2>2. attached /\ (job[w].todo # <<>> => telegram)
    BY <2>1 DEF CInv, EdgeEarned
  <2>3. <<"attach">> \in Seq(Payable) /\ <<"backfill">> \in Seq(Payable)
    BY DEF Payable
  <2>4. todo \in Seq(Payable')
    BY <1>0, <2>1, <2>3, ConcatProperties DEF Payable
  <2> HIDE DEF todo
  <2> QED BY <1>0, <2>1, <2>2, <2>4, CKeeps
<1>2. CASE C!Mark(w)
  <2>1. /\ job[w].at = "mark" /\ edge' = [edge EXCEPT !.joined = edge.there]
        /\ IF edge.there THEN C!Run(w, "pay", <<"telegram">>) ELSE C!Run(w, "idle", <<>>)
        /\ UNCHANGED <<attached, rewarded, ledger, paid, telegram, bought>>
    BY <1>2 DEF C!Mark
  <2>2. telegram
    BY <2>1 DEF CInv, EdgeEarned
  <2>3. edge' \in [there : BOOLEAN, joined : BOOLEAN] /\ edge'.there = edge.there
    BY <1>0, <2>1
  <2>4. <<"telegram">> \in Seq(Payable') /\ <<>> \in Seq(Payable')
    BY DEF Payable
  <2>5. CASE edge.there
    BY <1>0, <2>1, <2>2, <2>3, <2>4, <2>5, CKeeps
  <2>6. CASE ~ edge.there
    BY <1>0, <2>1, <2>2, <2>3, <2>4, <2>6, CKeeps
  <2> QED BY <2>5, <2>6
<1> QED BY <1>1, <1>2

LEMMA CConfigures ==
  ASSUME CInv, NEW w \in Workers,
         C!Finish(w) \/ C!Die(w) \/ \E b \in BOOLEAN : C!Configure(w, b)
  PROVE  CInv'
<1>0. /\ attached \in BOOLEAN /\ telegram \in BOOLEAN /\ bought \in BOOLEAN
      /\ edge \in [there : BOOLEAN, joined : BOOLEAN]
      /\ (edge.there => attached) /\ (edge.joined => telegram)
  BY DEF CInv, CTypes, EdgeEarned
<1>1. UNCHANGED <<attached, edge, rewarded, ledger, paid, telegram, bought>>
  BY DEF C!Finish, C!Die, C!Configure, C!state
<1>2. <<>> \in Seq(Payable')
  OBVIOUS
<1>3. CASE C!Finish(w) \/ C!Die(w)
  BY <1>0, <1>1, <1>2, <1>3, CKeeps DEF C!Finish, C!Die
<1>4. ASSUME NEW b \in BOOLEAN, C!Configure(w, b) PROVE CInv'
  <2>1. C!Unpaid \in Seq(Payable')
    <3>1. /\ C!When("attach" \notin rewarded, "attach") \in Seq(Payable)
          /\ C!When(edge.joined /\ "telegram" \notin rewarded, "telegram") \in Seq(Payable)
          /\ C!When("purchase" \notin rewarded, "backfill") \in Seq(Payable)
      BY <1>0, WhenSeq DEF Payable
    <3> QED BY <1>1, <3>1, ConcatProperties DEF C!Unpaid, Payable
  <2>2. C!Run(w, "pay", IF b /\ edge.there THEN C!Unpaid ELSE <<>>)
    BY <1>4 DEF C!Configure
  <2>3. (IF b /\ edge.there THEN C!Unpaid ELSE <<>>) \in Seq(Payable')
    BY <1>2, <2>1
  <2> QED BY <1>0, <1>1, <2>2, <2>3, CKeeps
<1> QED BY <1>3, <1>4

\* creditStage pays a stage that is due, once.
LEMMA CCredit ==
  ASSUME CInv, NEW w \in Workers, C!Credit(w)
  PROVE  CInv'
<1> DEFINE h == Head(job[w].todo)
           s == C!Stage(h)
<1>0. /\ attached \in BOOLEAN /\ telegram \in BOOLEAN /\ bought \in BOOLEAN
      /\ edge \in [there : BOOLEAN, joined : BOOLEAN]
      /\ (edge.there => attached) /\ (edge.joined => telegram)
      /\ job[w].todo \in Seq(Payable)
  BY DEF CInv, CTypes, EdgeEarned
<1>1. /\ job[w].todo # <<>> /\ C!Run(w, "pay", Tail(job[w].todo))
      /\ UNCHANGED <<attached, edge, telegram, bought>>
  BY DEF C!Credit
<1>2. h \in Payable /\ Tail(job[w].todo) \in Seq(Payable')
  <2>1. Payable' = Payable
    BY <1>1 DEF Payable
  <2> QED BY <1>0, <1>1, <2>1, HeadTailProperties
<1>3. CASE UNCHANGED <<rewarded, ledger, paid>>
  BY <1>0, <1>1, <1>2, <1>3, CKeeps
<1>4. CASE /\ edge.there /\ C!Due(h) /\ s \notin rewarded
           /\ rewarded' = rewarded \cup {s} /\ ledger' = ledger \cup {s}
           /\ paid' = IF s \in ledger THEN paid ELSE [paid EXCEPT ![s] = @ + 1]
  <2>1. s \in C!Stages
    BY <1>2 DEF C!Stage, C!Stages, Payable
  <2>2. /\ s = "attach" => attached
        /\ s = "telegram" => telegram
        /\ s = "purchase" => bought
    BY <1>0, <1>2, <1>4 DEF C!Stage, C!Due, Payable
  <2>3. /\ job' \in [Workers -> [at : {"idle", "create", "pay", "mark"}, todo : Seq(Payable')]]
        /\ job'[w] = [at |-> "pay", todo |-> Tail(job[w].todo)]
        /\ \A v \in Workers \ {w} : job'[v] = job[v]
    BY <1>0, <1>1, <1>2, CRuns DEF CInv
  <2>4. EdgeEarned'
    BY <1>1, <2>3 DEF CInv, EdgeEarned
  <2> HIDE DEF s
  <2>5. rewarded \subseteq C!Stages /\ ledger \subseteq C!Stages /\ paid \in [C!Stages -> Nat]
    BY DEF CInv, CTypes
  <2>6. CTypes'
    BY <1>0, <1>1, <1>4, <2>1, <2>3, <2>5 DEF CTypes
  <2>7. RowsEarned'
    BY <1>1, <1>4, <2>2 DEF CInv, RowsEarned
  <2>8. C!StagesAgree'
    <3>1. s \notin ledger /\ paid[s] = 0
      BY <1>4, <2>1 DEF CInv, C!StagesAgree
    <3>2. paid' = [paid EXCEPT ![s] = 1]
      BY <1>4, <3>1
    <3> QED BY <1>4, <2>1, <2>5, <3>1, <3>2 DEF CInv, C!StagesAgree
  <2> QED BY <2>4, <2>6, <2>7, <2>8 DEF CInv
<1> QED BY <1>3, <1>4 DEF C!Credit

LEMMA CStepInv == CInv /\ C!Next => CInv'
  BY CStarts, CEdges, CConfigures, CCredit DEF C!Next, C!Step

LEMMA CStutterInv == CInv /\ UNCHANGED C!vars => CInv'
  BY DEF C!vars, CInv, CTypes, EdgeEarned, RowsEarned, C!StagesAgree, Payable

\* The field of a stage, its ledger row and its credit come together and at
\* most once, whatever the attachment, the claim, the purchase and the
\* reconciliation find of each other (creditStage).
THEOREM StagesTheorem == C!Spec => []C!StagesAgree
<1>1. CInv => C!StagesAgree
  BY DEF CInv
<1> QED BY <1>1, CInitInv, CStepInv, CStutterInv, PTL DEF C!Spec

\* And only for what the user did.
THEOREM StagesEarned == C!Spec => []C!PaidIsEarned
  BY CEarned, CInitInv, CStepInv, CStutterInv, PTL DEF C!Spec

-----------------------------------------------------------------------------
(* Referral codes *)

\* None is nobody's, and entries of codes do not overlap with each other, or
\* not with the rewards.  (Two entries that overlap with a reward may pay it
\* twice: the compensation of one of them makes room for a second entry.)
RApart == None \notin Referrers /\ (Settled \/ \A a, b \in Applies : a = b)

RTypes ==
    /\ referredBy \in Referrers \cup {None}
    /\ entries \in [Referrers -> Seq(BOOLEAN)]
    /\ edge \in [ref : Referrers \cup {None}, granted : BOOLEAN]
    /\ edge.ref = None => edge = R!NoEdge
    /\ bought \in BOOLEAN
    /\ paid \in [Referrers -> Nat]
    /\ ledger \subseteq Referrers /\ claimed \subseteq ledger
    /\ apply \in [Applies -> [at : {"new", "claim", "push", "edge", "unset", "pull", "done"},
                              ref : Referrers \cup {None}]]
    /\ \A a \in Applies : R!Linking(a) => apply[a].ref \in Referrers
    /\ reward \in [Rewards -> [at : {"new", "look", "grant", "flag", "row", "callGrant", "credit", "done"},
                               ref : Referrers \cup {None}]]
    /\ \A w \in Rewards :
          reward[w].at \in {"grant", "flag", "row", "callGrant", "credit"} => reward[w].ref \in Referrers

\* Nobody will push another entry: no request is before its push, and none
\* that comes may begin.
NoPush ==
    \A a \in Applies :
        /\ apply[a].at \notin {"claim", "push"}
        /\ apply[a].at = "new" =>
              bought \/ (referredBy # None /\ \A b \in Applies : ~ R!Linking(b))

\* An open entry that a reward finds is the last one.
LastEntry ==
    /\ Settled => \A w \in Rewards : R!Paying(w) => NoPush
    /\ ~ Settled => \A r \in Referrers : R!Open(r) => \A a \in Applies : apply[a].at \notin {"new", "claim", "push"}

\* The call path has taken the entry and not paid yet.
Crediting(w, r) == reward[w].at = "credit" /\ reward[w].ref = r

\* Whoever grants an entry has the only right to pay its referrer.
OnePayer ==
    /\ \A r \in Referrers :
          /\ paid[r] <= 1
          /\ r \in ledger => paid[r] = 1
          /\ paid[r] > 0 \/ (\E w \in Rewards : Crediting(w, r)) => ~ R!Open(r) /\ NoPush
    /\ \A w \in Rewards :
          /\ reward[w].at = "credit" => paid[reward[w].ref] = 0
          /\ reward[w].at \in {"flag", "row"} => paid[reward[w].ref] = 1
    /\ \A v, w \in Rewards : reward[v].at = "credit" /\ reward[w] = reward[v] => v = w

\* A credit of the purchase path whose row is not there is about to get it.
RowToCome ==
    ~ MayFail => \A r \in Referrers : paid[r] > 0 /\ r \notin ledger =>
        \E w \in Rewards : reward[w].at \in {"flag", "row"} /\ reward[w].ref = r

RInv == RTypes /\ LastEntry /\ OnePayer /\ RowToCome

\* A request has claimed the applicant and not linked it yet.
Half(a) == apply[a].at \in {"push", "edge"}

\* Without failures and with rewards after it the link grows in one piece.
RLink ==
    Settled /\ ~ MayFail =>
        /\ \A a \in Applies :
              /\ apply[a].at \notin {"unset", "pull"}
              /\ Half(a) => apply[a].ref = referredBy /\ edge = R!NoEdge
              /\ \A b \in Applies : Half(a) /\ Half(b) => a = b
        /\ edge.ref = IF \E a \in Applies : Half(a) THEN None ELSE referredBy
        /\ \A r \in Referrers :
              Len(entries[r]) = IF r = referredBy /\ \A a \in Applies : apply[a].at # "push" THEN 1 ELSE 0

LEMMA RInitInv == RApart /\ R!Init => RInv /\ RLink
<1> SUFFICES ASSUME RApart, R!Init PROVE RInv /\ RLink
  OBVIOUS
<1> USE DEF R!Init, R!Idle, R!NoEdge
<1>1. RTypes
  <2>1. /\ referredBy \in Referrers \cup {None} /\ bought \in BOOLEAN
        /\ edge \in [ref : Referrers \cup {None}, granted : BOOLEAN]
        /\ edge.ref = None => edge = R!NoEdge
        /\ ledger \subseteq Referrers /\ claimed \subseteq ledger
    OBVIOUS
  <2>2. <<>> \in Seq(BOOLEAN)
    OBVIOUS
  <2>3. entries \in [Referrers -> Seq(BOOLEAN)] /\ paid \in [Referrers -> Nat]
    BY <2>2
  <2>4. /\ apply \in [Applies -> [at : {"new", "claim", "push", "edge", "unset", "pull", "done"},
                                   ref : Referrers \cup {None}]]
        /\ \A a \in Applies : R!Linking(a) => apply[a].ref \in Referrers
    BY DEF R!Linking
  <2>5. /\ reward \in [Rewards -> [at : {"new", "look", "grant", "flag", "row", "callGrant", "credit", "done"},
                                    ref : Referrers \cup {None}]]
        /\ \A w \in Rewards :
              reward[w].at \in {"grant", "flag", "row", "callGrant", "credit"} => reward[w].ref \in Referrers
    OBVIOUS
  <2> QED BY <2>1, <2>3, <2>4, <2>5 DEF RTypes
<1>2. LastEntry /\ OnePayer /\ RowToCome
  BY DEF LastEntry, OnePayer, RowToCome, R!Paying, R!Open, Crediting
<1>3. RLink
  BY DEF RLink, RApart, Half
<1> QED BY <1>1, <1>2, <1>3 DEF RInv

\* What a request does to the requests, as far as payments depend on it.
AppliesStep(a) ==
    /\ apply[a].at # "done"
    /\ \A b \in Applies \ {a} : apply'[b] = apply[b]
    /\ apply[a].at = "new" => R!MayEnter /\ apply'[a].at = "claim"
    /\ apply[a].at = "claim" => apply'[a].at \in {"push", "done"}
    /\ apply[a].at = "push" => apply'[a].at = "edge"
    /\ apply[a].at \in {"edge", "unset", "pull"} => apply'[a].at \in {"unset", "pull", "done"}
    /\ \A r \in Referrers : R!Open(r)' => R!Open(r) \/ apply[a].at = "push"
    /\ UNCHANGED <<bought, paid, ledger, claimed, reward>>

LEMMA RAppliesStep ==
  ASSUME RTypes, NEW a \in Applies, (\E r \in Referrers : R!Enter(a, r)) \/ R!Applying(a)
  PROVE  AppliesStep(a) /\ RTypes'
<1>0. apply[a] \in [at : {"new", "claim", "push", "edge", "unset", "pull", "done"},
                    ref : Referrers \cup {None}]
  BY DEF RTypes
<1>1. ASSUME NEW r \in Referrers, R!Enter(a, r) PROVE AppliesStep(a) /\ RTypes'
  <2>1. /\ apply[a].at = "new" /\ R!MayEnter
        /\ apply' = [apply EXCEPT ![a] = [at |-> "claim", ref |-> r]]
        /\ UNCHANGED <<referredBy, entries, edge, bought, paid, ledger, claimed, reward>>
    BY <1>1 DEF R!Enter, R!link, R!money
  <2>2. AppliesStep(a)
    BY <2>1 DEF AppliesStep, RTypes, R!Open
  <2>3. RTypes'
    BY <2>1 DEF RTypes, R!Linking, R!NoEdge
  <2> QED BY <2>2, <2>3
<1>2. ASSUME NEW at \in {"push", "edge", "unset", "pull", "done"}, R!To(a, at), R!Linking(a)
      PROVE  /\ apply'[a].at = at /\ \A b \in Applies \ {a} : apply'[b] = apply[b]
             /\ apply' \in [Applies -> [at : {"new", "claim", "push", "edge", "unset", "pull", "done"},
                                        ref : Referrers \cup {None}]]
             /\ \A b \in Applies : R!Linking(b)' => apply'[b].ref \in Referrers
  <2>1. apply' = [apply EXCEPT ![a] = [@ EXCEPT !.at = at]]
    BY <1>2 DEF R!To
  <2>2. [apply[a] EXCEPT !.at = at] \in [at : {"new", "claim", "push", "edge", "unset", "pull", "done"},
                                         ref : Referrers \cup {None}]
        /\ [apply[a] EXCEPT !.at = at].at = at /\ [apply[a] EXCEPT !.at = at].ref = apply[a].ref
    BY <1>0
  <2> QED BY <1>2, <2>1, <2>2 DEF RTypes, R!Linking
<1>3. CASE R!Claim(a)
  <2>1. PICK at \in {"push", "done"} : R!To(a, at)
    BY <1>3 DEF R!Claim
  <2>2. /\ apply[a].at = "claim" /\ referredBy' \in {referredBy, apply[a].ref}
        /\ UNCHANGED <<entries, edge, bought, paid, ledger, claimed, reward>>
    BY <1>3 DEF R!Claim, R!money
  <2>3. R!Linking(a)
    BY <2>2 DEF R!Linking
  <2>4. AppliesStep(a)
    BY <1>2, <2>1, <2>2, <2>3 DEF AppliesStep, R!Open
  <2>5. RTypes'
    BY <1>2, <2>1, <2>2, <2>3 DEF RTypes, R!NoEdge
  <2> QED BY <2>4, <2>5
<1>4. CASE R!Push(a)
  <2>1. /\ apply[a].at = "push" /\ R!To(a, "edge")
        /\ entries' = [entries EXCEPT ![apply[a].ref] = Append(@, FALSE)]
        /\ UNCHANGED <<referredBy, edge, bought, paid, ledger, claimed, reward>>
    BY <1>4 DEF R!Push, R!money
  <2>2. R!Linking(a)
    BY <2>1 DEF R!Linking
  <2>3. AppliesStep(a)
    BY <1>2, <2>1, <2>2 DEF AppliesStep
  <2>4. entries' \in [Referrers -> Seq(BOOLEAN)]
    <3>1. \A s \in Seq(BOOLEAN) : Append(s, FALSE) \in Seq(BOOLEAN)
      OBVIOUS
    <3> QED BY <2>1, <3>1 DEF RTypes
  <2>5. RTypes'
    BY <1>2, <2>1, <2>2, <2>4 DEF RTypes, R!NoEdge
  <2> QED BY <2>3, <2>5
<1>5. CASE R!CreateEdge(a)
  <2>1. PICK at \in {"unset", "done"} : R!To(a, at)
    BY <1>5 DEF R!CreateEdge
  <2>2. /\ apply[a].at = "edge" /\ edge' \in {edge, [ref |-> apply[a].ref, granted |-> FALSE]}
        /\ UNCHANGED <<referredBy, entries, bought, paid, ledger, claimed, reward>>
    BY <1>5 DEF R!CreateEdge, R!money
  <2>3. R!Linking(a)
    BY <2>2 DEF R!Linking
  <2>4. AppliesStep(a)
    BY <1>2, <2>1, <2>2, <2>3 DEF AppliesStep, R!Open
  <2>5. edge' \in [ref : Referrers \cup {None}, granted : BOOLEAN] /\ (edge'.ref = None => edge' = R!NoEdge)
    <3>1. CASE edge' = edge
      BY <3>1 DEF RTypes, R!NoEdge
    <3>2. CASE edge' = [ref |-> apply[a].ref, granted |-> FALSE]
      BY <1>0, <3>2 DEF R!NoEdge
    <3> QED BY <2>2, <3>1, <3>2
  <2>6. RTypes'
    BY <1>2, <2>1, <2>2, <2>3, <2>5 DEF RTypes, R!NoEdge
  <2> QED BY <2>4, <2>6
<1>6. CASE R!Unset(a)
  <2>1. /\ apply[a].at = "unset" /\ R!To(a, "pull") /\ referredBy' = None
        /\ UNCHANGED <<entries, edge, bought, paid, ledger, claimed, reward>>
    BY <1>6 DEF R!Unset, R!money
  <2>2. R!Linking(a)
    BY <2>1 DEF R!Linking
  <2>3. AppliesStep(a)
    BY <1>2, <2>1, <2>2 DEF AppliesStep, R!Open
  <2>4. RTypes'
    BY <1>2, <2>1, <2>2 DEF RTypes, R!NoEdge
  <2> QED BY <2>3, <2>4
<1>7. CASE R!Pull(a)
  <2>1. /\ apply[a].at = "pull" /\ R!To(a, "done")
        /\ entries' = [entries EXCEPT ![apply[a].ref] = <<>>]
        /\ UNCHANGED <<referredBy, edge, bought, paid, ledger, claimed, reward>>
    BY <1>7 DEF R!Pull, R!money
  <2>2. R!Linking(a)
    BY <2>1 DEF R!Linking
  <2>3. <<>> \in Seq(BOOLEAN) /\ DOMAIN <<>> = {}
    OBVIOUS
  <2>4. \A r \in Referrers : R!Open(r)' => R!Open(r)
    BY <2>1, <2>3 DEF R!Open, RTypes
  <2>5. AppliesStep(a)
    BY <1>2, <2>1, <2>2, <2>4 DEF AppliesStep
  <2>6. entries' \in [Referrers -> Seq(BOOLEAN)]
    BY <2>1, <2>3 DEF RTypes
  <2>7. RTypes'
    BY <1>2, <2>1, <2>2, <2>6 DEF RTypes, R!NoEdge
  <2> QED BY <2>5, <2>7
<1> QED BY <1>1, <1>3, <1>4, <1>5, <1>6, <1>7 DEF R!Applying

\* A request opens no entry once nobody will push.
LEMMA AppliesNoPush ==
  ASSUME RTypes, NEW a \in Applies, AppliesStep(a), NoPush
  PROVE  NoPush' /\ \A r \in Referrers : R!Open(r)' => R!Open(r)
<1>1. apply[a].at \in {"edge", "unset", "pull"} /\ R!Linking(a)
  BY DEF AppliesStep, NoPush, RTypes, R!MayEnter, R!Linking
<1>2. \A b \in Applies : apply[b].at = "new" => bought
  BY <1>1 DEF NoPush
<1>3. \A b \in Applies : apply'[b].at = "new" => apply[b].at = "new"
  BY <1>1 DEF AppliesStep
<1>4. \A b \in Applies : apply'[b].at \notin {"claim", "push"}
  BY <1>1 DEF AppliesStep, NoPush
<1>5. bought' = bought
  BY DEF AppliesStep
<1> QED BY <1>1, <1>2, <1>3, <1>4, <1>5 DEF NoPush, AppliesStep

LEMMA RApplies ==
  ASSUME RApart, RInv, NEW a \in Applies, (\E r \in Referrers : R!Enter(a, r)) \/ R!Applying(a)
  PROVE  RInv'
<1>1. AppliesStep(a) /\ RTypes' /\ RTypes
  BY RAppliesStep DEF RInv
<1>2. UNCHANGED <<bought, paid, ledger, claimed, reward>>
  BY <1>1 DEF AppliesStep
<1>3. NoPush => NoPush' /\ \A r \in Referrers : R!Open(r)' => R!Open(r)
  BY <1>1, AppliesNoPush
<1>4. LastEntry'
  <2>1. CASE Settled
    BY <1>2, <1>3, <2>1 DEF RInv, LastEntry, R!Paying
  <2>2. CASE ~ Settled
    <3>1. \A b \in Applies : b = a
      BY <2>2 DEF RApart
    <3> SUFFICES ASSUME NEW r \in Referrers, R!Open(r)' PROVE apply'[a].at \notin {"new", "claim", "push"}
      BY <2>2, <3>1 DEF LastEntry
    <3>2. apply[a].at = "push" \/ apply[a].at \notin {"new", "claim", "push"}
      BY <1>1, <2>2 DEF RInv, LastEntry, AppliesStep
    <3> QED BY <1>1, <3>2 DEF AppliesStep, RTypes
  <2> QED BY <2>1, <2>2
<1>5. OnePayer' /\ RowToCome'
  BY <1>2, <1>3 DEF RInv, OnePayer, RowToCome, Crediting
<1> QED BY <1>1, <1>4, <1>5 DEF RInv

\* What a purchase or a call does to the link and to the other rewards.
RewardsStep(w, at, r) ==
    /\ reward' = [reward EXCEPT ![w] = [at |-> at, ref |-> r]]
    /\ UNCHANGED <<referredBy, apply>>
    /\ bought => bought'
    /\ \A s \in Referrers : R!Open(s)' => R!Open(s)

\* Nobody pushes because of a reward.
LEMMA RewardsNoPush ==
  ASSUME NEW w \in Rewards, NEW at, NEW r, RewardsStep(w, at, r), NoPush
  PROVE  NoPush'
  BY DEF RewardsStep, NoPush, R!Linking

LEMMA RewardsLast ==
  ASSUME RTypes, LastEntry, NEW w \in Rewards, NEW at, NEW r, RewardsStep(w, at, r),
         R!Paying(w) \/ at = "done" \/ (Settled => NoPush')
  PROVE  LastEntry'
<1>1. NoPush => NoPush'
  BY RewardsNoPush
<1>2. CASE Settled
  BY <1>1, <1>2 DEF LastEntry, RewardsStep, RTypes, R!Paying
<1>3. CASE ~ Settled
  BY <1>3 DEF LastEntry, RewardsStep
<1> QED BY <1>2, <1>3

\* A step that moves no money.
LEMMA RewardsQuiet ==
  ASSUME RTypes, OnePayer, RowToCome, NEW w \in Rewards, NEW at, NEW r, RewardsStep(w, at, r),
         UNCHANGED <<paid, ledger>>,
         at \notin {"flag", "row", "credit"},
         reward[w].at \notin {"flag", "row"}
  PROVE  OnePayer' /\ RowToCome'
<1>1. NoPush => NoPush'
  BY RewardsNoPush
<1>2. /\ \A v \in Rewards \ {w} : reward'[v] = reward[v]
      /\ reward'[w] = [at |-> at, ref |-> r]
  BY DEF RewardsStep, RTypes
<1>3. OnePayer'
  <2>1. \A s \in Referrers : (\E v \in Rewards : Crediting(v, s)') => \E v \in Rewards : Crediting(v, s)
    BY <1>2 DEF Crediting
  <2>2. \A s \in Referrers : R!Open(s)' => R!Open(s)
    BY DEF RewardsStep
  <2>3. \A s \in Referrers :
          /\ paid'[s] <= 1
          /\ s \in ledger' => paid'[s] = 1
          /\ paid'[s] > 0 \/ (\E v \in Rewards : Crediting(v, s)') => ~ R!Open(s)' /\ NoPush'
    BY <1>1, <2>1, <2>2 DEF OnePayer
  <2>4. \A v \in Rewards :
          /\ reward'[v].at = "credit" => paid'[reward'[v].ref] = 0
          /\ reward'[v].at \in {"flag", "row"} => paid'[reward'[v].ref] = 1
    BY <1>2 DEF OnePayer
  <2>5. \A u, v \in Rewards : reward'[u].at = "credit" /\ reward'[v] = reward'[u] => u = v
    BY <1>2 DEF OnePayer
  <2> QED BY <2>3, <2>4, <2>5 DEF OnePayer, Crediting
<1>4. RowToCome'
  <2> SUFFICES ASSUME ~ MayFail, NEW s \in Referrers, paid'[s] > 0, s \notin ledger'
               PROVE  \E v \in Rewards : reward'[v].at \in {"flag", "row"} /\ reward'[v].ref = s
    BY DEF RowToCome
  <2>1. PICK v \in Rewards : reward[v].at \in {"flag", "row"} /\ reward[v].ref = s
    BY DEF RowToCome
  <2> QED BY <1>2, <2>1
<1> QED BY <1>3, <1>4

\* Granting an entry closes it and opens no other.
LEMMA GrantedCloses ==
  ASSUME RTypes, NEW r \in Referrers, entries' = [entries EXCEPT ![r] = R!Granted(r)]
  PROVE  /\ entries' \in [Referrers -> Seq(BOOLEAN)]
         /\ ~ R!Open(r)' /\ \A s \in Referrers : R!Open(s)' => R!Open(s)
         /\ \A s \in Referrers : Len(entries'[s]) = Len(entries[s])
<1>1. entries \in [Referrers -> Seq(BOOLEAN)]
  BY DEF RTypes
<1>2. DOMAIN entries[r] = 1..Len(entries[r]) /\ Len(entries[r]) \in Nat
  BY <1>1
<1>3. R!Granted(r) \in Seq(BOOLEAN) /\ Len(R!Granted(r)) = Len(entries[r])
  BY <1>2 DEF R!Granted
<1>4. \A i \in DOMAIN R!Granted(r) : R!Granted(r)[i]
  BY DEF R!Granted
<1>5. entries'[r] = R!Granted(r) /\ \A s \in Referrers \ {r} : entries'[s] = entries[s]
  BY <1>1
<1>6. ~ R!Open(r)'
  BY <1>4, <1>5 DEF R!Open
<1>7. \A s \in Referrers : R!Open(s)' => R!Open(s)
  BY <1>5, <1>6 DEF R!Open
<1> QED BY <1>1, <1>3, <1>5, <1>6, <1>7

LEMMA RewardsTypes ==
  ASSUME RTypes, NEW w \in Rewards,
         NEW at \in {"look", "grant", "flag", "row", "callGrant", "credit", "done"},
         NEW r \in Referrers \cup {None}, RewardsStep(w, at, r),
         at \in {"grant", "flag", "row", "callGrant", "credit"} => r \in Referrers,
         entries' \in [Referrers -> Seq(BOOLEAN)],
         edge' \in [ref : Referrers \cup {None}, granted : BOOLEAN],
         edge'.ref = None => edge' = R!NoEdge,
         bought' \in BOOLEAN, paid' \in [Referrers -> Nat],
         ledger' \subseteq Referrers, claimed' \subseteq ledger'
  PROVE  RTypes'
<1>1. /\ reward' \in [Rewards -> [at : {"new", "look", "grant", "flag", "row", "callGrant", "credit", "done"},
                                  ref : Referrers \cup {None}]]
      /\ \A v \in Rewards :
            reward'[v].at \in {"grant", "flag", "row", "callGrant", "credit"} => reward'[v].ref \in Referrers
  BY DEF RTypes, RewardsStep
<1>2. UNCHANGED <<referredBy, apply>>
  BY DEF RewardsStep
<1> QED BY <1>1, <1>2 DEF RTypes, R!Linking, R!NoEdge

\* An edge that is marked stays the edge it is.
LEMMA MarkedEdge ==
  ASSUME RTypes, edge' = [edge EXCEPT !.granted = edge # R!NoEdge]
  PROVE  /\ edge' \in [ref : Referrers \cup {None}, granted : BOOLEAN]
         /\ (edge'.ref = None => edge' = R!NoEdge) /\ edge'.ref = edge.ref
         /\ (edge = R!NoEdge => edge' = R!NoEdge)
<1>0. edge \in [ref : Referrers \cup {None}, granted : BOOLEAN] /\ (edge.ref = None => edge = R!NoEdge)
  BY DEF RTypes
<1>1. CASE edge = R!NoEdge
  <2>1. edge' = [edge EXCEPT !.granted = FALSE]
    BY <1>1
  <2>2. edge' = R!NoEdge
    BY <1>1, <2>1 DEF R!NoEdge
  <2> QED BY <1>0, <1>1, <2>2
<1>2. CASE edge # R!NoEdge
  <2>1. edge' = [edge EXCEPT !.granted = TRUE]
    BY <1>2
  <2>2. edge' \in [ref : Referrers \cup {None}, granted : BOOLEAN] /\ edge'.ref = edge.ref
    BY <1>0, <2>1
  <2> QED BY <1>0, <1>2, <2>2
<1> QED BY <1>1, <1>2

LEMMA EnsuredTypes ==
  ASSUME RTypes
  PROVE  /\ R!EnsuredEdge \in [ref : Referrers \cup {None}, granted : BOOLEAN]
         /\ R!EnsuredEdge.ref = None => R!EnsuredEdge = R!NoEdge
<1>1. CASE edge # R!NoEdge
  <2>1. R!EnsuredEdge = [edge EXCEPT !.granted = @ \/ (entries[edge.ref] # <<>> /\ Head(entries[edge.ref]))]
    BY <1>1 DEF R!EnsuredEdge
  <2>2. edge.ref \in Referrers /\ edge \in [ref : Referrers \cup {None}, granted : BOOLEAN]
    BY <1>1 DEF RTypes
  <2>3. R!EnsuredEdge.ref = edge.ref /\ R!EnsuredEdge \in [ref : Referrers \cup {None}, granted : BOOLEAN]
    BY <2>1, <2>2
  <2>4. edge.ref # None
    BY <1>1 DEF RTypes
  <2> QED BY <2>3, <2>4
<1>2. CASE edge = R!NoEdge /\ referredBy # None /\ entries[referredBy] # <<>>
  <2>1. R!EnsuredEdge = [ref |-> referredBy, granted |-> Head(entries[referredBy])]
    BY <1>2 DEF R!EnsuredEdge
  <2>2. entries[referredBy] \in Seq(BOOLEAN)
    BY <1>2 DEF RTypes
  <2>3. Head(entries[referredBy]) \in BOOLEAN
    BY <1>2, <2>2
  <2> QED BY <1>2, <2>1, <2>3 DEF RTypes
<1>3. CASE edge = R!NoEdge /\ ~ (referredBy # None /\ entries[referredBy] # <<>>)
  <2>1. R!EnsuredEdge = R!NoEdge
    BY <1>3 DEF R!EnsuredEdge
  <2> QED BY <2>1 DEF R!NoEdge
<1> QED BY <1>1, <1>2, <1>3

LEMMA RPurchase ==
  ASSUME RInv, NEW w \in Rewards, R!Purchase(w)
  PROVE  RInv'
<1>1. /\ R!MayReward /\ reward[w].at = "new" /\ bought' = TRUE
      /\ reward' = [reward EXCEPT ![w] = [at |-> "look", ref |-> None]]
      /\ edge' = R!EnsuredEdge
      /\ UNCHANGED <<referredBy, entries, paid, ledger, claimed, apply>>
  BY DEF R!Purchase, R!Goes, R!money
<1>2. RewardsStep(w, "look", None)
  BY <1>1 DEF RewardsStep, R!Open
<1>3. RTypes
  BY DEF RInv
<1>4. RTypes'
  BY <1>1, <1>2, <1>3, EnsuredTypes, RewardsTypes DEF RTypes
<1>5. Settled => NoPush'
  BY <1>1 DEF NoPush, R!MayReward, R!Linking
<1>6. LastEntry'
  BY <1>2, <1>3, <1>5, RewardsLast DEF RInv
<1>7. OnePayer' /\ RowToCome'
  BY <1>1, <1>2, <1>3, RewardsQuiet DEF RInv
<1> QED BY <1>4, <1>6, <1>7 DEF RInv

LEMMA RCall ==
  ASSUME RInv, NEW w \in Rewards, R!Call(w)
  PROVE  RInv'
<1>1. PICK at \in {"done", "callGrant"}, r \in Referrers \cup {None} :
        /\ reward' = [reward EXCEPT ![w] = [at |-> at, ref |-> r]]
        /\ at = "callGrant" => referredBy # None /\ r = referredBy
  BY DEF R!Call, R!Goes, RInv, RTypes
<1>2. /\ R!MayReward /\ reward[w].at = "new"
      /\ UNCHANGED <<referredBy, entries, edge, bought, paid, ledger, claimed, apply>>
  BY DEF R!Call, R!link, R!money
<1>3. RewardsStep(w, at, r)
  BY <1>1, <1>2 DEF RewardsStep, R!Open
<1>4. RTypes /\ (at = "callGrant" => r \in Referrers)
  BY <1>1 DEF RInv, RTypes
<1>5. RTypes'
  <2>1. /\ entries' \in [Referrers -> Seq(BOOLEAN)]
        /\ edge' \in [ref : Referrers \cup {None}, granted : BOOLEAN]
        /\ edge'.ref = None => edge' = R!NoEdge
        /\ bought' \in BOOLEAN /\ paid' \in [Referrers -> Nat]
        /\ ledger' \subseteq Referrers /\ claimed' \subseteq ledger'
    BY <1>2, <1>4 DEF RTypes
  <2> QED BY <1>3, <1>4, <2>1, RewardsTypes
<1>6. Settled /\ at = "callGrant" => NoPush'
  BY <1>1, <1>2 DEF NoPush, R!MayReward, R!Linking
<1>7. LastEntry'
  BY <1>3, <1>4, <1>6, RewardsLast DEF RInv
<1>8. OnePayer' /\ RowToCome'
  BY <1>2, <1>3, <1>4, RewardsQuiet DEF RInv
<1> QED BY <1>5, <1>7, <1>8 DEF RInv

LEMMA RLook ==
  ASSUME RInv, NEW w \in Rewards, R!Look(w)
  PROVE  RInv'
<1>0. RTypes /\ reward[w].at = "look" /\ R!Paying(w)
  BY DEF RInv, R!Look, R!Paying
<1>1. UNCHANGED <<referredBy, bought, paid, ledger, claimed, apply>>
  BY DEF R!Look, R!money
<1>2. ASSUME NEW at \in {"done", "grant"}, NEW r \in Referrers \cup {None},
             RewardsStep(w, at, r), at = "grant" => r \in Referrers,
             entries' \in [Referrers -> Seq(BOOLEAN)],
             edge' \in [ref : Referrers \cup {None}, granted : BOOLEAN],
             edge'.ref = None => edge' = R!NoEdge
      PROVE  RInv'
  <2>1. RTypes'
    <3>1. /\ bought' \in BOOLEAN /\ paid' \in [Referrers -> Nat]
          /\ ledger' \subseteq Referrers /\ claimed' \subseteq ledger'
      BY <1>0, <1>1 DEF RTypes
    <3> QED BY <1>0, <1>2, <3>1, RewardsTypes
  <2>2. LastEntry'
    BY <1>0, <1>2, RewardsLast DEF RInv
  <2>3. OnePayer' /\ RowToCome'
    BY <1>0, <1>1, <1>2, RewardsQuiet DEF RInv
  <2> QED BY <2>1, <2>2, <2>3 DEF RInv
<1>3. CASE R!Goes(w, "done", None) /\ UNCHANGED <<entries, edge>>
  <2>1. RewardsStep(w, "done", None)
    BY <1>1, <1>3 DEF RewardsStep, R!Goes, R!Open
  <2> QED BY <1>0, <1>2, <1>3, <2>1 DEF RTypes, R!NoEdge
<1>4. CASE /\ referredBy # None /\ entries' = [entries EXCEPT ![referredBy] = R!Granted(referredBy)]
           /\ edge' = [edge EXCEPT !.granted = edge # R!NoEdge] /\ R!Goes(w, "done", None)
  <2>1. referredBy \in Referrers
    BY <1>0, <1>4 DEF RTypes
  <2>2. entries' \in [Referrers -> Seq(BOOLEAN)] /\ \A s \in Referrers : R!Open(s)' => R!Open(s)
    BY <1>0, <1>4, <2>1, GrantedCloses
  <2>3. RewardsStep(w, "done", None)
    BY <1>1, <1>4, <2>2 DEF RewardsStep, R!Goes
  <2>4. edge' \in [ref : Referrers \cup {None}, granted : BOOLEAN] /\ (edge'.ref = None => edge' = R!NoEdge)
    BY <1>0, <1>4, MarkedEdge
  <2> QED BY <1>2, <2>2, <2>3, <2>4
<1>5. CASE referredBy # None /\ R!Goes(w, "grant", referredBy) /\ UNCHANGED <<entries, edge>>
  <2>1. referredBy \in Referrers
    BY <1>0, <1>5 DEF RTypes
  <2>2. RewardsStep(w, "grant", referredBy)
    BY <1>1, <1>5 DEF RewardsStep, R!Goes, R!Open
  <2> QED BY <1>0, <1>2, <1>5, <2>1, <2>2 DEF RTypes, R!NoEdge
<1> QED BY <1>3, <1>4, <1>5 DEF R!Look

\* Who finds an open entry finds the last one, and nobody has paid for it or will.
LEMMA OpenUnpaid ==
  ASSUME RInv, NEW w \in Rewards, R!Paying(w), NEW r \in Referrers, R!Open(r)
  PROVE  /\ NoPush /\ paid[r] = 0 /\ r \notin ledger
         /\ \A v \in Rewards : ~ Crediting(v, r)
<1>1. NoPush
  <2>1. CASE Settled
    BY <2>1 DEF RInv, LastEntry
  <2>2. CASE ~ Settled
    BY <2>2 DEF RInv, LastEntry, NoPush
  <2> QED BY <2>1, <2>2
<1>2. paid[r] \in Nat
  BY DEF RInv, RTypes
<1> QED BY <1>1, <1>2 DEF RInv, OnePayer

LEMMA RGrant ==
  ASSUME RInv, NEW w \in Rewards, R!Grant(w)
  PROVE  RInv'
<1>r. PICK r \in Referrers : r = reward[w].ref
  BY DEF RInv, RTypes, R!Grant, R!CallGrant
<1>0. RTypes /\ reward[w].at = "grant" /\ R!Paying(w) /\ r \in Referrers /\ paid \in [Referrers -> Nat]
  BY <1>r DEF RInv, R!Grant, R!Paying, RTypes
<1>1. UNCHANGED <<referredBy, edge, bought, ledger, claimed, apply>>
  BY DEF R!Grant
<1>2. CASE ~ R!Open(r) /\ R!Goes(w, "done", None) /\ UNCHANGED <<entries, paid>>
  <2>1. RewardsStep(w, "done", None)
    BY <1>1, <1>2 DEF RewardsStep, R!Goes, R!Open
  <2>2. RTypes'
    BY <1>0, <1>1, <1>2, <2>1, RewardsTypes DEF RTypes, R!NoEdge
  <2>3. LastEntry'
    BY <1>0, <2>1, RewardsLast DEF RInv
  <2>4. OnePayer' /\ RowToCome'
    BY <1>0, <1>1, <1>2, <2>1, RewardsQuiet DEF RInv
  <2> QED BY <2>2, <2>3, <2>4 DEF RInv
<1>3. CASE /\ R!Open(r) /\ entries' = [entries EXCEPT ![r] = R!Granted(r)]
           /\ paid' = [paid EXCEPT ![r] = @ + 1] /\ R!Goes(w, "flag", r)
  <2>1. NoPush /\ paid[r] = 0 /\ r \notin ledger /\ \A v \in Rewards : ~ Crediting(v, r)
    BY <1>0, <1>3, OpenUnpaid
  <2>2. /\ entries' \in [Referrers -> Seq(BOOLEAN)] /\ ~ R!Open(r)'
        /\ \A s \in Referrers : R!Open(s)' => R!Open(s)
    BY <1>0, <1>3, GrantedCloses
  <2>3. RewardsStep(w, "flag", r)
    BY <1>1, <1>3, <2>2 DEF RewardsStep, R!Goes
  <2>4. paid' \in [Referrers -> Nat] /\ paid'[r] = 1 /\ \A s \in Referrers \ {r} : paid'[s] = paid[s]
    BY <1>0, <1>3, <2>1
  <2>5. RTypes'
    BY <1>0, <1>1, <2>2, <2>3, <2>4, RewardsTypes DEF RTypes, R!NoEdge
  <2>6. LastEntry'
    BY <1>0, <2>3, RewardsLast DEF RInv
  <2>7. NoPush'
    BY <2>1, <2>3, RewardsNoPush
  <2>8. /\ \A v \in Rewards \ {w} : reward'[v] = reward[v]
        /\ reward'[w] = [at |-> "flag", ref |-> r]
    BY <1>0, <2>3 DEF RewardsStep, RTypes
  <2>9. OnePayer'
    <3>1. \A s \in Referrers :
            /\ paid'[s] <= 1
            /\ s \in ledger' => paid'[s] = 1
            /\ paid'[s] > 0 \/ (\E v \in Rewards : Crediting(v, s)') => ~ R!Open(s)' /\ NoPush'
      <4> TAKE s \in Referrers
      <4>1. CASE s = r
        BY <1>1, <2>1, <2>2, <2>4, <2>7, <4>1
      <4>2. CASE s # r
        <5>1. (\E v \in Rewards : Crediting(v, s)') => \E v \in Rewards : Crediting(v, s)
          BY <2>8 DEF Crediting
        <5>2. paid'[s] = paid[s]
          BY <2>4, <4>2
        <5>3. R!Open(s)' => R!Open(s)
          BY <2>2
        <5> QED BY <1>1, <2>7, <5>1, <5>2, <5>3 DEF RInv, OnePayer
      <4> QED BY <4>1, <4>2
    <3>2. \A v \in Rewards :
            /\ reward'[v].at = "credit" => paid'[reward'[v].ref] = 0
            /\ reward'[v].at \in {"flag", "row"} => paid'[reward'[v].ref] = 1
      <4> TAKE v \in Rewards
      <4>1. CASE v = w
        BY <2>4, <2>8, <4>1
      <4>2. CASE v # w
        <5>1. reward'[v] = reward[v]
          BY <2>8, <4>2
        <5>2. reward[v].at \in {"credit", "flag", "row"} => reward[v].ref \in Referrers \ {r}
          BY <1>0, <2>1 DEF RInv, RTypes, OnePayer, Crediting
        <5> QED BY <2>4, <5>1, <5>2 DEF RInv, OnePayer
      <4> QED BY <4>1, <4>2
    <3>3. \A u, v \in Rewards : reward'[u].at = "credit" /\ reward'[v] = reward'[u] => u = v
      BY <2>8 DEF RInv, OnePayer
    <3> QED BY <3>1, <3>2, <3>3 DEF OnePayer, Crediting
  <2>10. RowToCome'
    <3> SUFFICES ASSUME ~ MayFail, NEW s \in Referrers, paid'[s] > 0, s \notin ledger'
                 PROVE  \E v \in Rewards : reward'[v].at \in {"flag", "row"} /\ reward'[v].ref = s
      BY DEF RowToCome
    <3>1. CASE s = r
      BY <2>8, <3>1
    <3>2. CASE s # r
      <4>1. PICK v \in Rewards : reward[v].at \in {"flag", "row"} /\ reward[v].ref = s
        BY <1>1, <2>4, <3>2 DEF RInv, RowToCome
      <4> QED BY <1>0, <2>8, <4>1
    <3> QED BY <3>1, <3>2
  <2> QED BY <2>5, <2>6, <2>9, <2>10 DEF RInv
<1> QED BY <1>r, <1>2, <1>3 DEF R!Grant

LEMMA RCallGrant ==
  ASSUME RInv, NEW w \in Rewards, R!CallGrant(w)
  PROVE  RInv'
<1>r. PICK r \in Referrers : r = reward[w].ref
  BY DEF RInv, RTypes, R!Grant, R!CallGrant
<1>0. RTypes /\ reward[w].at = "callGrant" /\ R!Paying(w) /\ r \in Referrers
  BY <1>r DEF RInv, R!CallGrant, R!Paying, RTypes
<1>1. UNCHANGED <<referredBy, edge, bought, paid, ledger, claimed, apply>>
  BY DEF R!CallGrant, R!money
<1>2. CASE ~ R!Open(r) /\ R!Goes(w, "done", None) /\ UNCHANGED entries
  <2>1. RewardsStep(w, "done", None)
    BY <1>1, <1>2 DEF RewardsStep, R!Goes, R!Open
  <2>2. RTypes'
    BY <1>0, <1>1, <1>2, <2>1, RewardsTypes DEF RTypes, R!NoEdge
  <2>3. LastEntry'
    BY <1>0, <2>1, RewardsLast DEF RInv
  <2>4. OnePayer' /\ RowToCome'
    BY <1>0, <1>1, <2>1, RewardsQuiet DEF RInv
  <2> QED BY <2>2, <2>3, <2>4 DEF RInv
<1>3. CASE R!Open(r) /\ entries' = [entries EXCEPT ![r] = R!Granted(r)] /\ R!Goes(w, "credit", r)
  <2>1. NoPush /\ paid[r] = 0 /\ r \notin ledger /\ \A v \in Rewards : ~ Crediting(v, r)
    BY <1>0, <1>3, OpenUnpaid
  <2>2. /\ entries' \in [Referrers -> Seq(BOOLEAN)] /\ ~ R!Open(r)'
        /\ \A s \in Referrers : R!Open(s)' => R!Open(s)
    BY <1>0, <1>3, GrantedCloses
  <2>3. RewardsStep(w, "credit", r)
    BY <1>1, <1>3, <2>2 DEF RewardsStep, R!Goes
  <2>4. RTypes'
    BY <1>0, <1>1, <2>2, <2>3, RewardsTypes DEF RTypes, R!NoEdge
  <2>5. LastEntry'
    BY <1>0, <2>3, RewardsLast DEF RInv
  <2>6. NoPush'
    BY <2>1, <2>3, RewardsNoPush
  <2>7. /\ \A v \in Rewards \ {w} : reward'[v] = reward[v]
        /\ reward'[w] = [at |-> "credit", ref |-> r]
    BY <1>0, <2>3 DEF RewardsStep, RTypes
  <2>8. \A s \in Referrers :
            /\ paid'[s] <= 1
            /\ s \in ledger' => paid'[s] = 1
            /\ paid'[s] > 0 \/ (\E v \in Rewards : Crediting(v, s)') => ~ R!Open(s)' /\ NoPush'
    <3> TAKE s \in Referrers
    <3>1. CASE s = r
      BY <1>1, <2>1, <2>2, <2>6, <3>1
    <3>2. CASE s # r
      <4>1. (\E v \in Rewards : Crediting(v, s)') => \E v \in Rewards : Crediting(v, s)
        BY <2>7, <3>2 DEF Crediting
      <4>2. R!Open(s)' => R!Open(s)
        BY <2>2
      <4> QED BY <1>1, <2>6, <4>1, <4>2 DEF RInv, OnePayer
    <3> QED BY <3>1, <3>2
  <2>9. \A v \in Rewards :
            /\ reward'[v].at = "credit" => paid'[reward'[v].ref] = 0
            /\ reward'[v].at \in {"flag", "row"} => paid'[reward'[v].ref] = 1
    BY <1>1, <2>1, <2>7 DEF RInv, OnePayer
  <2>10. \A u, v \in Rewards : reward'[u].at = "credit" /\ reward'[v] = reward'[u] => u = v
    BY <2>1, <2>7 DEF RInv, OnePayer, Crediting
  <2>11. OnePayer'
    BY <2>8, <2>9, <2>10 DEF OnePayer, Crediting
  <2>12. RowToCome'
    BY <1>0, <1>1, <2>7 DEF RInv, RowToCome
  <2> QED BY <2>4, <2>5, <2>11, <2>12 DEF RInv
<1> QED BY <1>r, <1>2, <1>3 DEF R!CallGrant

\* The end of the purchase path: the edge is marked, then the row is written.
LEMMA RFlagRow ==
  ASSUME RInv, NEW w \in Rewards, R!Flag(w) \/ R!Row(w)
  PROVE  RInv'
<1>1. PICK r \in Referrers : r = reward[w].ref
  BY DEF RInv, RTypes, R!Flag, R!Row
<1>2. PICK at \in {"row", "done"}, n \in Referrers \cup {None} :
        /\ reward' = [reward EXCEPT ![w] = [at |-> at, ref |-> n]]
        /\ (at = "row" /\ n = r) \/ (at = "done" /\ r \in ledger')
        /\ ledger' \in {ledger, ledger \cup {r}}
  BY <1>1 DEF R!Flag, R!Row, R!Goes, R!money
<1>3. /\ reward[w].at \in {"flag", "row"} /\ RTypes /\ R!Paying(w) /\ paid[r] = 1
  BY <1>1 DEF RInv, R!Flag, R!Row, R!Paying, OnePayer
<1>4. /\ UNCHANGED <<referredBy, entries, bought, paid, apply>>
      /\ claimed' \subseteq ledger' /\ ledger' \subseteq Referrers
      /\ edge' \in {edge, [edge EXCEPT !.granted = edge # R!NoEdge]}
  BY <1>1, <1>3 DEF R!Flag, R!Row, R!money, R!link, RTypes
<1>5. RewardsStep(w, at, n)
  BY <1>2, <1>4 DEF RewardsStep, R!Open
<1>6. RTypes'
  <2>1. /\ edge' \in [ref : Referrers \cup {None}, granted : BOOLEAN]
        /\ edge'.ref = None => edge' = R!NoEdge
    <3>1. CASE edge' = edge
      BY <1>3, <3>1 DEF RTypes
    <3>2. CASE edge' = [edge EXCEPT !.granted = edge # R!NoEdge]
      BY <1>3, <3>2, MarkedEdge
    <3> QED BY <1>4, <3>1, <3>2
  <2>2. entries' \in [Referrers -> Seq(BOOLEAN)] /\ bought' \in BOOLEAN /\ paid' \in [Referrers -> Nat]
    BY <1>3, <1>4 DEF RTypes
  <2>3. /\ at \in {"grant", "flag", "row", "callGrant", "credit"} => n \in Referrers
        /\ at \in {"look", "grant", "flag", "row", "callGrant", "credit", "done"}
    BY <1>2
  <2> QED BY <1>3, <1>4, <1>5, <2>1, <2>2, <2>3, RewardsTypes
<1>7. LastEntry'
  BY <1>3, <1>5, RewardsLast DEF RInv
<1>8. NoPush => NoPush'
  BY <1>5, RewardsNoPush
<1>9. /\ \A v \in Rewards \ {w} : reward'[v] = reward[v]
      /\ reward'[w] = [at |-> at, ref |-> n]
  BY <1>2, <1>3 DEF RTypes
<1>10. OnePayer'
  <2>1. \A s \in Referrers :
          /\ paid'[s] <= 1
          /\ s \in ledger' => paid'[s] = 1
          /\ paid'[s] > 0 \/ (\E v \in Rewards : Crediting(v, s)') => ~ R!Open(s)' /\ NoPush'
    <3> TAKE s \in Referrers
    <3>1. (\E v \in Rewards : Crediting(v, s)') => \E v \in Rewards : Crediting(v, s)
      BY <1>9 DEF Crediting
    <3>2. R!Open(s)' => R!Open(s)
      BY <1>4 DEF R!Open
    <3>3. s \in ledger' => paid[s] = 1
      BY <1>2, <1>3 DEF RInv, OnePayer
    <3> QED BY <1>4, <1>8, <3>1, <3>2, <3>3 DEF RInv, OnePayer
  <2>2. \A v \in Rewards :
          /\ reward'[v].at = "credit" => paid'[reward'[v].ref] = 0
          /\ reward'[v].at \in {"flag", "row"} => paid'[reward'[v].ref] = 1
    BY <1>2, <1>3, <1>4, <1>9 DEF RInv, OnePayer
  <2>3. \A u, v \in Rewards : reward'[u].at = "credit" /\ reward'[v] = reward'[u] => u = v
    BY <1>9 DEF RInv, OnePayer
  <2> QED BY <2>1, <2>2, <2>3 DEF OnePayer, Crediting
<1>11. RowToCome'
  <2> SUFFICES ASSUME ~ MayFail, NEW s \in Referrers, paid'[s] > 0, s \notin ledger'
               PROVE  \E v \in Rewards : reward'[v].at \in {"flag", "row"} /\ reward'[v].ref = s
    BY DEF RowToCome
  <2>1. PICK v \in Rewards : reward[v].at \in {"flag", "row"} /\ reward[v].ref = s
    BY <1>2, <1>4 DEF RInv, RowToCome
  <2>2. CASE v = w
    BY <1>1, <1>2, <1>9, <2>1, <2>2
  <2>3. CASE v # w
    BY <1>9, <2>1, <2>3
  <2> QED BY <2>2, <2>3
<1> QED BY <1>6, <1>7, <1>10, <1>11 DEF RInv

\* creditOnceTaskReward pays whoever has taken the entry, and nobody else has.
LEMMA RCredit ==
  ASSUME RInv, NEW w \in Rewards, R!Credit(w)
  PROVE  RInv'
<1>1. PICK r \in Referrers : r = reward[w].ref
  BY DEF RInv, RTypes, R!Credit
<1>2. /\ reward[w].at = "credit" /\ RTypes /\ R!Paying(w) /\ paid[r] = 0 /\ paid \in [Referrers -> Nat]
      /\ reward' = [reward EXCEPT ![w] = [at |-> "done", ref |-> None]]
      /\ UNCHANGED <<referredBy, entries, edge, bought, apply>>
  BY <1>1 DEF RInv, OnePayer, R!Credit, R!Paying, R!Goes, R!link, RTypes
<1>3. RewardsStep(w, "done", None)
  BY <1>2 DEF RewardsStep, R!Open
<1>4. LastEntry'
  BY <1>2, <1>3, RewardsLast DEF RInv
<1>5. CASE UNCHANGED <<paid, ledger, claimed>>
  <2>1. RTypes'
    BY <1>2, <1>3, <1>5, RewardsTypes DEF RTypes, R!NoEdge
  <2>2. OnePayer' /\ RowToCome'
    BY <1>2, <1>3, <1>5, RewardsQuiet DEF RInv
  <2> QED BY <1>4, <2>1, <2>2 DEF RInv
<1>6. CASE paid' = [paid EXCEPT ![r] = @ + 1] /\ ledger' = ledger \cup {r} /\ claimed' = claimed \cup {r}
  <2>1. paid' \in [Referrers -> Nat] /\ paid'[r] = 1 /\ \A s \in Referrers \ {r} : paid'[s] = paid[s]
    BY <1>2, <1>6
  <2>2. RTypes'
    <3>1. /\ entries' \in [Referrers -> Seq(BOOLEAN)]
          /\ edge' \in [ref : Referrers \cup {None}, granted : BOOLEAN]
          /\ edge'.ref = None => edge' = R!NoEdge
          /\ bought' \in BOOLEAN /\ ledger' \subseteq Referrers /\ claimed' \subseteq ledger'
      BY <1>2, <1>6 DEF RTypes
    <3> QED BY <1>2, <1>3, <2>1, <3>1, RewardsTypes
  <2>3. /\ \A v \in Rewards \ {w} : reward'[v] = reward[v]
        /\ reward'[w] = [at |-> "done", ref |-> None]
    BY <1>2 DEF RTypes
  <2>4. NoPush => NoPush'
    BY <1>3, RewardsNoPush
  <2>5. Crediting(w, r)
    BY <1>1, <1>2 DEF Crediting
  <2>6. \A v \in Rewards : Crediting(v, r) => v = w
    <3> SUFFICES ASSUME NEW v \in Rewards, Crediting(v, r) PROVE v = w
      OBVIOUS
    <3>1. reward[v] = reward[w]
      BY <1>1, <1>2 DEF Crediting, RTypes
    <3> QED BY <1>2, <3>1 DEF RInv, OnePayer
  <2>7. \A s \in Referrers :
          /\ paid'[s] <= 1
          /\ s \in ledger' => paid'[s] = 1
          /\ paid'[s] > 0 \/ (\E v \in Rewards : Crediting(v, s)') => ~ R!Open(s)' /\ NoPush'
    <3> TAKE s \in Referrers
    <3>1. (\E v \in Rewards : Crediting(v, s)') => \E v \in Rewards : Crediting(v, s)
      BY <2>3 DEF Crediting
    <3>2. R!Open(s)' => R!Open(s)
      BY <1>2 DEF R!Open
    <3>3. CASE s = r
      <4>1. ~ R!Open(s) /\ NoPush
        BY <2>5, <3>3 DEF RInv, OnePayer
      <4> QED BY <2>1, <2>4, <3>2, <3>3, <4>1
    <3>4. CASE s # r
      <4>1. paid'[s] = paid[s] /\ (s \in ledger' => s \in ledger)
        BY <1>6, <2>1, <3>4
      <4> QED BY <2>4, <3>1, <3>2, <4>1 DEF RInv, OnePayer
    <3> QED BY <3>3, <3>4
  <2>8. \A v \in Rewards :
          /\ reward'[v].at = "credit" => paid'[reward'[v].ref] = 0
          /\ reward'[v].at \in {"flag", "row"} => paid'[reward'[v].ref] = 1
    <3> TAKE v \in Rewards
    <3>1. CASE v = w
      BY <2>3, <3>1
    <3>2. CASE v # w
      <4>1. reward'[v] = reward[v] /\ ~ Crediting(v, r)
        BY <2>3, <2>6, <3>2
      <4>2. reward[v].at \in {"credit", "flag", "row"} => reward[v].ref \in Referrers \ {r}
        BY <1>2, <4>1 DEF RInv, RTypes, OnePayer, Crediting
      <4> QED BY <2>1, <4>1, <4>2 DEF RInv, OnePayer
    <3> QED BY <3>1, <3>2
  <2>9. \A u, v \in Rewards : reward'[u].at = "credit" /\ reward'[v] = reward'[u] => u = v
    BY <2>3 DEF RInv, OnePayer
  <2>10. OnePayer'
    BY <2>7, <2>8, <2>9 DEF OnePayer, Crediting
  <2>11. RowToCome'
    <3> SUFFICES ASSUME ~ MayFail, NEW s \in Referrers, paid'[s] > 0, s \notin ledger'
                 PROVE  \E v \in Rewards : reward'[v].at \in {"flag", "row"} /\ reward'[v].ref = s
      BY DEF RowToCome
    <3>1. s # r /\ paid[s] > 0 /\ s \notin ledger
      BY <1>6, <2>1
    <3>2. PICK v \in Rewards : reward[v].at \in {"flag", "row"} /\ reward[v].ref = s
      BY <3>1 DEF RInv, RowToCome
    <3> QED BY <1>2, <2>3, <3>2
  <2> QED BY <1>4, <2>2, <2>10, <2>11 DEF RInv
<1> QED BY <1>1, <1>5, <1>6 DEF R!Credit, R!money

LEMMA RDie ==
  ASSUME RInv, R!Die
  PROVE  RInv'
<1>1. /\ MayFail
      /\ UNCHANGED <<referredBy, entries, edge, bought, paid, ledger, claimed>>
      /\ apply' = [a \in Applies |-> IF R!Linking(a) THEN [apply[a] EXCEPT !.at = "done"] ELSE apply[a]]
      /\ reward' = [w \in Rewards |-> IF R!Paying(w) THEN [at |-> "done", ref |-> None] ELSE reward[w]]
  BY DEF R!Die, R!link, R!money
<1>2. \A w \in Rewards : reward'[w].at \in {"new", "done"}
  BY <1>1 DEF R!Paying
<1>3. \A a \in Applies : apply'[a].at \in {"new", "done"} /\ (apply'[a].at = "new" => apply[a].at = "new")
  <2> TAKE a \in Applies
  <2>1. apply[a] \in [at : {"new", "claim", "push", "edge", "unset", "pull", "done"}, ref : Referrers \cup {None}]
    BY DEF RInv, RTypes
  <2>2. CASE R!Linking(a)
    BY <1>1, <2>1, <2>2
  <2>3. CASE ~ R!Linking(a)
    BY <1>1, <2>1, <2>3 DEF R!Linking
  <2> QED BY <2>2, <2>3
<1>4. RTypes'
  <2>1. apply' \in [Applies -> [at : {"new", "claim", "push", "edge", "unset", "pull", "done"},
                                ref : Referrers \cup {None}]]
    BY <1>1 DEF RInv, RTypes
  <2>2. reward' \in [Rewards -> [at : {"new", "look", "grant", "flag", "row", "callGrant", "credit", "done"},
                                 ref : Referrers \cup {None}]]
    BY <1>1 DEF RInv, RTypes
  <2> QED BY <1>1, <1>2, <1>3, <2>1, <2>2 DEF RInv, RTypes, R!Linking, R!NoEdge
<1>5. NoPush => NoPush'
  BY <1>1, <1>3 DEF NoPush, R!Linking
<1>6. LastEntry'
  BY <1>1, <1>2, <1>3 DEF RInv, LastEntry, R!Paying, R!Open
<1>7. OnePayer'
  BY <1>1, <1>2, <1>5 DEF RInv, OnePayer, R!Open, Crediting
<1> QED BY <1>1, <1>4, <1>6, <1>7 DEF RInv, RowToCome

LEMMA RStepInv == RApart /\ RInv /\ R!Next => RInv'
  BY RApplies, RPurchase, RCall, RLook, RGrant, RFlagRow, RCallGrant, RCredit, RDie
  DEF R!Next, R!Rewarding

LEMMA RStutterInv == RInv /\ UNCHANGED R!vars => RInv'
<1> SUFFICES ASSUME RInv, UNCHANGED R!vars PROVE RInv'
  OBVIOUS
<1> USE DEF R!vars
<1>1. RTypes'
  BY DEF RInv, RTypes, R!Linking, R!NoEdge
<1>2. NoPush' = NoPush
  BY DEF NoPush, R!Linking
<1>3. LastEntry' /\ OnePayer' /\ RowToCome'
  BY <1>2 DEF RInv, LastEntry, OnePayer, RowToCome, R!Paying, R!Open, Crediting
<1> QED BY <1>1, <1>3 DEF RInv

\* Rewards leave the ends of the link and the number of its entries alone.
LEMMA RLinkRewards ==
  ASSUME RTypes, RLink, UNCHANGED <<referredBy, apply>>, edge'.ref = edge.ref,
         edge = R!NoEdge => edge' = R!NoEdge,
         \A r \in Referrers : Len(entries'[r]) = Len(entries[r])
  PROVE  RLink'
  BY DEF RLink, Half, R!NoEdge

LEMMA RLinkPurchase ==
  ASSUME RApart, Settled, RTypes, RLink, NEW w \in Rewards, R!Purchase(w)
  PROVE  RLink'
<1> SUFFICES ASSUME ~ MayFail PROVE RLink'
  BY DEF RLink
<1>1. R!MayReward /\ edge' = R!EnsuredEdge /\ UNCHANGED <<referredBy, entries, apply>>
  BY DEF R!Purchase
<1>2. \A a \in Applies : ~ Half(a)
  BY <1>1 DEF R!MayReward, R!Linking, Half
<1>3. edge.ref = referredBy
  BY <1>2 DEF RLink
<1>4. edge'.ref = edge.ref
  <2>1. CASE edge # R!NoEdge
    <3>1. edge' = [edge EXCEPT !.granted = @ \/ (entries[edge.ref] # <<>> /\ Head(entries[edge.ref]))]
      BY <1>1, <2>1 DEF R!EnsuredEdge
    <3> QED BY <3>1 DEF RTypes
  <2>2. CASE edge = R!NoEdge
    BY <1>1, <1>3, <2>2 DEF R!EnsuredEdge, R!NoEdge
  <2> QED BY <2>1, <2>2
<1>5. ASSUME edge = R!NoEdge PROVE edge' = R!NoEdge
  <2>1. referredBy = None
    BY <1>3, <1>5 DEF R!NoEdge
  <2> QED BY <1>1, <1>5, <2>1 DEF R!EnsuredEdge
<1> QED BY <1>1, <1>4, <1>5, RLinkRewards

LEMMA RLinkRewarding ==
  ASSUME RTypes, RLink, NEW w \in Rewards, R!Call(w) \/ R!Rewarding(w)
  PROVE  RLink'
<1>1. UNCHANGED <<referredBy, apply>>
  BY DEF R!Call, R!Rewarding, R!Look, R!Grant, R!Flag, R!Row, R!CallGrant, R!Credit, R!link
<1>2. UNCHANGED edge \/ edge' = [edge EXCEPT !.granted = edge # R!NoEdge]
  BY DEF R!Call, R!Rewarding, R!Look, R!Grant, R!Flag, R!Row, R!CallGrant, R!Credit, R!link
<1>3. edge'.ref = edge.ref /\ (edge = R!NoEdge => edge' = R!NoEdge)
  BY <1>2, MarkedEdge
<1>4. \A r \in Referrers : Len(entries'[r]) = Len(entries[r])
  <2>1. CASE UNCHANGED entries
    BY <2>1
  <2>2. ASSUME NEW r \in Referrers, entries' = [entries EXCEPT ![r] = R!Granted(r)]
        PROVE  \A s \in Referrers : Len(entries'[s]) = Len(entries[s])
    BY <2>2, GrantedCloses
  <2>3. CASE R!Look(w)
    BY <2>1, <2>2, <2>3 DEF R!Look, RTypes
  <2>4. CASE R!Grant(w) \/ R!CallGrant(w)
    <3>1. PICK r \in Referrers : r = reward[w].ref
      BY <2>4 DEF RTypes, R!Grant, R!CallGrant
    <3> QED BY <2>1, <2>2, <2>4, <3>1 DEF R!Grant, R!CallGrant
  <2>5. CASE R!Call(w) \/ R!Flag(w) \/ R!Row(w) \/ R!Credit(w)
    BY <2>1, <2>5 DEF R!Call, R!Flag, R!Row, R!Credit, R!link
  <2> QED BY <2>3, <2>4, <2>5 DEF R!Rewarding
<1> QED BY <1>1, <1>3, <1>4, RLinkRewards

LEMMA RLinkApplies ==
  ASSUME RApart, RTypes, RLink, NEW a \in Applies,
         (\E r \in Referrers : R!Enter(a, r)) \/ R!Applying(a)
  PROVE  RLink'
<1> SUFFICES ASSUME Settled, ~ MayFail PROVE RLink'
  BY DEF RLink
<1>0. /\ apply \in [Applies -> [at : {"new", "claim", "push", "edge", "unset", "pull", "done"},
                                ref : Referrers \cup {None}]]
      /\ None \notin Referrers /\ apply[a].at \notin {"unset", "pull"}
      /\ \A b \in Applies : Half(b) => apply[b].ref = referredBy /\ referredBy \in Referrers
  BY DEF RTypes, RApart, RLink, Half, R!Linking
<1>1. ASSUME NEW r \in Referrers, R!Enter(a, r) PROVE RLink'
  <2>1. apply' = [apply EXCEPT ![a] = [at |-> "claim", ref |-> r]] /\ apply[a].at = "new"
        /\ UNCHANGED <<referredBy, entries, edge>>
    BY <1>1 DEF R!Enter, R!link
  <2>2. \A b \in Applies : (Half(b)' <=> Half(b)) /\ (Half(b) => apply'[b] = apply[b])
                           /\ (apply'[b].at # "push" <=> apply[b].at # "push")
                           /\ (apply'[b].at \in {"unset", "pull"} => apply[b].at \in {"unset", "pull"})
    BY <1>0, <2>1 DEF Half
  <2> QED BY <2>1, <2>2 DEF RLink, R!NoEdge
<1>2. CASE R!Claim(a) /\ referredBy # None
  <2>1. apply' = [apply EXCEPT ![a] = [@ EXCEPT !.at = "done"]] /\ apply[a].at = "claim"
        /\ UNCHANGED <<referredBy, entries, edge>>
    BY <1>2 DEF R!Claim, R!To
  <2>2. [apply[a] EXCEPT !.at = "done"].at = "done"
    BY <1>0
  <2>3. \A b \in Applies : (Half(b)' <=> Half(b)) /\ (Half(b) => apply'[b] = apply[b])
                           /\ (apply'[b].at # "push" <=> apply[b].at # "push")
                           /\ (apply'[b].at \in {"unset", "pull"} => apply[b].at \in {"unset", "pull"})
    BY <1>0, <2>1, <2>2 DEF Half
  <2> QED BY <2>1, <2>3 DEF RLink, R!NoEdge
<1>3. CASE R!Claim(a) /\ referredBy = None
  <2>1. /\ apply' = [apply EXCEPT ![a] = [@ EXCEPT !.at = "push"]] /\ apply[a].at = "claim"
        /\ referredBy' = apply[a].ref /\ UNCHANGED <<entries, edge>>
    BY <1>3 DEF R!Claim, R!To
  <2>2. [apply[a] EXCEPT !.at = "push"].at = "push" /\ [apply[a] EXCEPT !.at = "push"].ref = apply[a].ref
    BY <1>0
  <2>3. \A b \in Applies : ~ Half(b)
    BY <1>0, <1>3
  <2>4. edge = R!NoEdge
    BY <1>3, <2>3 DEF RLink, RTypes
  <2>5. /\ apply'[a].at = "push" /\ apply'[a].ref = referredBy'
        /\ \A b \in Applies \ {a} : apply'[b] = apply[b]
    BY <1>0, <2>1, <2>2
  <2>6. Half(a)' /\ \A b \in Applies \ {a} : ~ Half(b)'
    BY <2>3, <2>5 DEF Half
  <2>7. \A r \in Referrers : Len(entries[r]) = 0
    BY <1>0, <1>3 DEF RLink
  <2>8. edge'.ref = None /\ edge' = R!NoEdge
    BY <2>1, <2>4 DEF R!NoEdge
  <2>9. \A b \in Applies : apply'[b].at \notin {"unset", "pull"}
    BY <2>5 DEF RLink
  <2> QED BY <2>1, <2>5, <2>6, <2>7, <2>8, <2>9 DEF RLink, R!NoEdge
<1>4. CASE R!Push(a)
  <2>1. /\ apply' = [apply EXCEPT ![a] = [@ EXCEPT !.at = "edge"]] /\ apply[a].at = "push"
        /\ entries' = [entries EXCEPT ![apply[a].ref] = Append(@, FALSE)]
        /\ UNCHANGED <<referredBy, edge>>
    BY <1>4 DEF R!Push, R!To
  <2>2. [apply[a] EXCEPT !.at = "edge"].at = "edge" /\ [apply[a] EXCEPT !.at = "edge"].ref = apply[a].ref
    BY <1>0
  <2>3. /\ apply'[a].at = "edge" /\ apply'[a].ref = apply[a].ref
        /\ \A b \in Applies \ {a} : apply'[b] = apply[b]
    BY <1>0, <2>1, <2>2
  <2>4. Half(a) /\ apply[a].ref = referredBy /\ referredBy \in Referrers
    BY <1>0, <2>1 DEF Half
  <2>5. \A b \in Applies : (Half(b)' <=> Half(b)) /\ apply'[b].ref = apply[b].ref
                           /\ apply'[b].at \notin {"unset", "pull", "push"}
    BY <2>1, <2>3, <2>4 DEF RLink, Half
  <2>6. \A r \in Referrers : Len(entries[r]) = 0
    BY <2>1 DEF RLink
  <2>7. entries \in [Referrers -> Seq(BOOLEAN)]
    BY DEF RTypes
  <2>8. Len(entries'[referredBy]) = 1 /\ \A r \in Referrers \ {referredBy} : Len(entries'[r]) = 0
    BY <2>1, <2>4, <2>6, <2>7
  <2> QED BY <2>1, <2>4, <2>5, <2>8 DEF RLink, R!NoEdge
<1>5. CASE R!CreateEdge(a)
  <2>1. /\ apply[a].at = "edge" /\ Half(a) /\ edge = R!NoEdge
    BY <1>5 DEF R!CreateEdge, Half, RLink
  <2>2. /\ apply' = [apply EXCEPT ![a] = [@ EXCEPT !.at = "done"]]
        /\ edge' = [ref |-> apply[a].ref, granted |-> FALSE]
        /\ UNCHANGED <<referredBy, entries>>
    BY <1>5, <2>1 DEF R!CreateEdge, R!To
  <2>3. [apply[a] EXCEPT !.at = "done"].at = "done"
    BY <1>0
  <2>4. apply'[a].at = "done" /\ \A b \in Applies \ {a} : apply'[b] = apply[b]
    BY <1>0, <2>2, <2>3
  <2>5. \A b \in Applies : ~ Half(b)' /\ apply'[b].at \notin {"unset", "pull"}
                           /\ apply[b].at # "push" /\ apply'[b].at # "push"
    BY <2>1, <2>4 DEF RLink, Half
  <2>6. edge'.ref = referredBy
    BY <1>0, <2>1, <2>2
  <2> QED BY <2>2, <2>5, <2>6 DEF RLink
<1> QED BY <1>0, <1>1, <1>2, <1>3, <1>4, <1>5 DEF R!Applying, R!Unset, R!Pull

LEMMA RStepLink == RApart /\ RInv /\ RLink /\ R!Next => RLink'
<1> SUFFICES ASSUME RApart, RInv, RLink, R!Next, Settled, ~ MayFail PROVE RLink'
  BY DEF RLink
<1> QED BY RLinkApplies, RLinkPurchase, RLinkRewarding DEF R!Next, R!Die, RInv

LEMMA RStutterLink == RLink /\ UNCHANGED R!vars => RLink'
  BY DEF R!vars, RLink, Half, R!NoEdge

\* What the invariants say when no request and no reward is under way.
LEMMA RSays ==
  ASSUME RInv, RLink
  PROVE  /\ R!TypeOK /\ R!PaidOnce
         /\ ~ MayFail => R!PaidIsBooked
         /\ Settled /\ ~ MayFail => R!LinkAgrees
<1>1. R!TypeOK
  BY DEF RInv, RTypes, R!TypeOK
<1>2. R!PaidOnce
  BY DEF RInv, OnePayer, R!PaidOnce
<1>3. ASSUME ~ MayFail PROVE R!PaidIsBooked
  <2> SUFFICES ASSUME R!Quiet, NEW r \in Referrers PROVE paid[r] = (IF r \in ledger THEN 1 ELSE 0)
    BY DEF R!PaidIsBooked
  <2>1. CASE r \in ledger
    BY <2>1 DEF RInv, OnePayer
  <2>2. CASE r \notin ledger
    <3>1. paid[r] \in Nat
      BY DEF RInv, RTypes
    <3>2. \A w \in Rewards : reward[w].at \notin {"flag", "row"}
      BY DEF R!Quiet, R!Paying
    <3> QED BY <1>3, <2>2, <3>1, <3>2 DEF RInv, RowToCome
  <2> QED BY <2>1, <2>2
<1>4. ASSUME Settled, ~ MayFail PROVE R!LinkAgrees
  <2> SUFFICES ASSUME R!Quiet
               PROVE  /\ edge.ref = referredBy
                      /\ \A r \in Referrers : Len(entries[r]) = (IF r = referredBy THEN 1 ELSE 0)
    BY DEF R!LinkAgrees
  <2>1. \A a \in Applies : ~ Half(a) /\ apply[a].at # "push"
    BY DEF R!Quiet, R!Linking, Half
  <2> QED BY <1>4, <2>1 DEF RLink
<1> QED BY <1>1, <1>2, <1>3, <1>4

\* A referrer is paid at most once for an applicant, however purchases, calls,
\* failed writes and crashes interleave with an entry of the code, or entries
\* with each other before the rewards (the flag of the entry and the ledger
\* row that processReferralRewardOnPurchase and
\* tryCreditSuccessfulReferralOnCall share).
THEOREM ReferrerPaidOnce == ASSUME RApart PROVE R!Spec => []R!PaidOnce
<1> QED BY RInitInv, RStepInv, RStutterInv, RStepLink, RStutterLink, RSays, PTL DEF R!Spec

\* Without failures every payment has its ledger row once all is done
\* (processReferralRewardOnPurchase, creditOnceTaskReward).
THEOREM ReferrerPaidIsBooked == ASSUME RApart, ~ MayFail PROVE R!Spec => []R!PaidIsBooked
<1> QED BY RInitInv, RStepInv, RStutterInv, RStepLink, RStutterLink, RSays, PTL DEF R!Spec

\* Without failures, and with rewards after the entries, field, list entry and
\* edge name the same referrer (applyReferralCode).
THEOREM ReferralLinkAgrees == ASSUME RApart, Settled, ~ MayFail PROVE R!Spec => []R!LinkAgrees
<1> QED BY RInitInv, RStepInv, RStutterInv, RStepLink, RStutterLink, RSays, PTL DEF R!Spec

-----------------------------------------------------------------------------
(* The wallet's operations *)

LBounds == Reward \in Nat /\ Opening \in Nat /\ MaxOperations \in Nat /\ MaxFaults \in Nat

\* Whoever is about to write the row of the weekly task has won its claim.
TaskOnce ==
    /\ rows["task"] <= 1
    /\ rows["task"] > 0 => claimed
    /\ \A p \in Executions : job[p].at = "row" /\ job[p].op = "task" =>
          /\ claimed /\ rows["task"] = 0
          /\ \A q \in Executions : job[q].at = "row" /\ job[q].op = "task" => p = q

\* A clawback is under way only after the credit, and only the task is claimed.
ClawbackAfter ==
    \A p \in Executions :
        /\ job[p].at = "row" /\ job[p].op = "clawback" => rows["upload"] > 0
        /\ job[p].at = "claim" => job[p].op = "task"

\* The balance c is the ledger's n and what was booked or left beside it.
Agrees(e, c, n) == c = n + e

\* Operations take turns and none is broken off.
TakingTurns == MaxFaults = 0 /\ \A p, q \in Executions : p = q

\* What the one operation under way has read is what is there, and what it
\* will save agrees with the row it has written.
TurnsAgree ==
    TakingTurns =>
        /\ (\A p \in Executions : job[p].at # "save") => Agrees(excess, coins, net)
        /\ \A p \in Executions :
              /\ job[p].at \in {"claim", "row", "txn", "save"} => job[p].seen = coins
              /\ job[p].at = "save" => Agrees(excess, job[p].seen + job[p].delta, net)
              /\ job[p].at = "repair" => job[p].seen = L!LedgerBalance

LInv == /\ L!TypeOK /\ L!RewardedOnce /\ L!ClawbackFollowsCredit
        /\ TaskOnce /\ ClawbackAfter /\ TurnsAgree

\* What an execution may be doing.
LPoints == {"idle", "claim", "row", "save", "txn", "verify", "repair"}
LJobs == [at : LPoints,
          op : L!Keyed \cup {"none", "adjust", "refundClawback", "momentRefund", "momentRegrant", "momentShare",
                              "shareRegrant"} \cup L!Forced,
          delta : -Reward..Reward, seen : Nat]

LEMMA LTyped == L!TypeOK <=>
    /\ coins \in Nat /\ net \in Int
    /\ rows \in [L!Keyed -> Nat]
    /\ claimed \in BOOLEAN /\ queued \in BOOLEAN /\ excess \in Int
    /\ purchase \in {"bought", "refunded"}
    /\ job \in [Executions -> LJobs]
    /\ operations \in 0..MaxOperations /\ faults \in 0..MaxFaults
  BY DEF L!TypeOK, LJobs, LPoints

LEMMA LInitInv == LBounds /\ L!Init => LInv
<1> SUFFICES ASSUME LBounds, L!Init PROVE LInv
  OBVIOUS
<1> USE DEF L!Init, L!Idle, LBounds
<1>1. [at |-> "idle", op |-> "none", delta |-> 0, seen |-> 0] \in LJobs
  BY DEF LJobs, LPoints
<1>2. L!TypeOK
  <2>1. rows \in [L!Keyed -> Nat] /\ job \in [Executions -> LJobs]
    BY <1>1
  <2>2. /\ coins \in Nat /\ net \in Int /\ excess \in Int
        /\ operations \in 0..MaxOperations /\ faults \in 0..MaxFaults
    OBVIOUS
  <2>3. claimed \in BOOLEAN /\ queued \in BOOLEAN /\ purchase \in {"bought", "refunded"}
    OBVIOUS
  <2> QED BY <2>1, <2>2, <2>3, LTyped
<1>3. L!RewardedOnce /\ L!ClawbackFollowsCredit
  BY DEF L!RewardedOnce, L!ClawbackFollowsCredit, L!Keyed
<1>4. TaskOnce /\ ClawbackAfter
  BY DEF TaskOnce, ClawbackAfter, L!Keyed
<1>5. TurnsAgree
  BY DEF TurnsAgree, Agrees
<1> QED BY <1>2, <1>3, <1>4, <1>5 DEF LInv

\* p takes up something else, everybody else goes on as before.
Becomes(p, j) == job' = [job EXCEPT ![p] = j]

LEMMA LBecomes ==
  ASSUME L!TypeOK, NEW p \in Executions, NEW j \in LJobs, Becomes(p, j)
  PROVE  /\ job' \in [Executions -> LJobs] /\ job'[p] = j
         /\ \A q \in Executions \ {p} : job'[q] = job[q]
  BY LTyped DEF Becomes

\* The same job at another point.
LEMMA LGoes ==
  ASSUME L!TypeOK, NEW p \in Executions, NEW at \in LPoints, L!GoTo(p, at)
  PROVE  \E j \in LJobs : /\ Becomes(p, j)
                          /\ j.at = at /\ j.op = job[p].op /\ j.delta = job[p].delta /\ j.seen = job[p].seen
<1>1. job[p] \in LJobs
  BY LTyped
<1>2. [job[p] EXCEPT !.at = at] \in LJobs
  BY <1>1 DEF LJobs
<1>3. Becomes(p, [job[p] EXCEPT !.at = at])
  BY LTyped DEF Becomes, L!GoTo
<1> QED BY <1>1, <1>2, <1>3 DEF LJobs

LEMMA LEnds ==
  ASSUME LBounds, NEW p \in Executions, L!End(p)
  PROVE  /\ L!Idle \in LJobs /\ Becomes(p, L!Idle) /\ L!Idle.at = "idle" /\ L!Idle.op = "none"
  BY DEF L!End, Becomes, L!Idle, LJobs, LPoints, LBounds

\* A step of p that writes no row.
LEMMA LKeeps ==
  ASSUME LBounds, LInv, NEW p \in Executions, NEW j \in LJobs, Becomes(p, j),
         coins' \in Nat, net' \in Int, queued' \in BOOLEAN, excess' \in Int,
         purchase' \in {"bought", "refunded"},
         operations' \in 0..MaxOperations, faults' \in 0..MaxFaults,
         UNCHANGED rows, claimed' \in BOOLEAN, claimed => claimed',
         j.at = "row" /\ j.op = "task" => ~ claimed /\ claimed',
         j.at = "row" /\ j.op = "clawback" => rows["upload"] > 0,
         j.at = "claim" => j.op = "task",
         TakingTurns =>
            /\ j.at # "save" => Agrees(excess', coins', net')
            /\ j.at \in {"claim", "row", "txn", "save"} => j.seen = coins'
            /\ j.at = "save" => Agrees(excess', j.seen + j.delta, net')
            /\ j.at = "repair" => j.seen = L!Max0(net')
  PROVE  LInv'
<1>0. L!TypeOK /\ rows \in [L!Keyed -> Nat]
  BY LTyped DEF LInv
<1>1. /\ job' \in [Executions -> LJobs] /\ job'[p] = j
      /\ \A q \in Executions \ {p} : job'[q] = job[q]
  BY <1>0, LBecomes
<1>2. L!TypeOK'
  BY <1>0, <1>1, LTyped DEF L!TypeOK, LJobs, LPoints
<1>3. L!RewardedOnce' /\ L!ClawbackFollowsCredit'
  BY DEF LInv, L!RewardedOnce, L!ClawbackFollowsCredit
<1>4. TaskOnce'
  <2>1. rows["task"] \in Nat
    BY <1>0 DEF L!Keyed
  <2> QED BY <1>1, <2>1 DEF LInv, TaskOnce
<1>5. ClawbackAfter'
  BY <1>1 DEF LInv, ClawbackAfter
<1>6. TurnsAgree'
  <2> SUFFICES ASSUME TakingTurns
               PROVE  /\ (\A q \in Executions : job'[q].at # "save") => Agrees(excess', coins', net')
                      /\ \A q \in Executions :
                            /\ job'[q].at \in {"claim", "row", "txn", "save"} => job'[q].seen = coins'
                            /\ job'[q].at = "save" => Agrees(excess', job'[q].seen + job'[q].delta, net')
                            /\ job'[q].at = "repair" => job'[q].seen = L!Max0(net')
    BY DEF TurnsAgree, TakingTurns, L!LedgerBalance, L!Max0, Agrees
  <2>1. \A q \in Executions : q = p
    BY DEF TakingTurns
  <2> QED BY <1>1, <2>1
<1> QED BY <1>2, <1>3, <1>4, <1>5, <1>6 DEF LInv

\* With operations that take turns a job knows what is there.
LEMMA LTurn ==
  ASSUME LInv, TakingTurns, NEW p \in Executions
  PROVE  /\ job[p].at # "save" => Agrees(excess, coins, net)
         /\ job[p].at \in {"claim", "row", "txn", "save"} => job[p].seen = coins
         /\ job[p].at = "save" => Agrees(excess, job[p].seen + job[p].delta, net)
         /\ job[p].at = "repair" => job[p].seen = L!Max0(net)
<1>1. \A q \in Executions : q = p
  BY DEF TakingTurns
<1>2. TurnsAgree
  BY DEF LInv
<1>3. /\ (\A q \in Executions : job[q].at # "save") => Agrees(excess, coins, net)
      /\ \A q \in Executions :
            /\ job[q].at \in {"claim", "row", "txn", "save"} => job[q].seen = coins
            /\ job[q].at = "save" => Agrees(excess, job[q].seen + job[q].delta, net)
            /\ job[q].at = "repair" => job[q].seen = L!Max0(net)
  BY <1>2 DEF TurnsAgree, L!LedgerBalance
<1> QED BY <1>1, <1>3

\* The handlers up to the read of the balance.
LEMMA LBegins ==
  ASSUME LBounds, LInv, NEW p \in Executions, NEW at \in {"claim", "row", "txn"},
         NEW op \in L!Keyed \cup {"adjust", "refundClawback", "momentRefund", "momentRegrant", "momentShare",
                                 "shareRegrant"} \cup L!Forced,
         NEW delta \in -Reward..Reward, L!Begin(p, at, op, delta, coins), UNCHANGED claimed,
         op = "task" <=> at = "claim",
         op = "clawback" => rows["upload"] > 0
  PROVE  LInv'
<1> DEFINE j == [at |-> at, op |-> op, delta |-> delta, seen |-> coins]
<1>0. /\ coins \in Nat /\ net \in Int /\ claimed \in BOOLEAN /\ queued \in BOOLEAN /\ excess \in Int
      /\ purchase \in {"bought", "refunded"} /\ operations \in 0..MaxOperations /\ faults \in 0..MaxFaults
  BY LTyped DEF LInv
<1>1. /\ job[p] = L!Idle /\ operations' = operations + 1 /\ operations < MaxOperations
      /\ Becomes(p, j) /\ UNCHANGED <<coins, net, rows, purchase, queued, excess, faults>>
  BY DEF L!Begin, Becomes
<1>2. j \in LJobs /\ j.at = at /\ j.op = op /\ j.seen = coins
  BY <1>0 DEF LJobs, LPoints
<1>3. operations' \in 0..MaxOperations
  BY <1>0, <1>1 DEF LBounds
<1>4. TakingTurns => Agrees(excess, coins, net)
  BY <1>1, LTurn DEF L!Idle
<1> HIDE DEF j
<1> QED BY <1>0, <1>1, <1>2, <1>3, <1>4, LKeeps

LEMMA LHandlers ==
  ASSUME LBounds, LInv, NEW p \in Executions,
         \/ L!AdjustUserCoins(p) \/ L!AddCoins(p) \/ L!ClaimTask(p) \/ L!CreditUploadReward(p)
         \/ L!ClawbackUploadReward(p) \/ L!RefundCall(p) \/ L!RefundClawback(p)
         \/ L!RefundMomentPurchase(p) \/ L!RegrantMoment(p) \/ L!ForceRegrant(p) \/ L!RefundMomentCreator(p)
  PROVE  LInv'
<1>0. coins \in Nat /\ Reward \in Nat
  BY LTyped DEF LInv, LBounds
<1>1. {Reward, 0, -Reward} \subseteq -Reward..Reward
      /\ (coins > 0 => -(IF coins < Reward THEN coins ELSE Reward) \in -Reward..Reward)
  BY <1>0
<1>2. {"addCoins", "task", "upload", "clawback", "refund"} = L!Keyed
  BY DEF L!Keyed
<1>3. CASE L!AdjustUserCoins(p)
  <2>1. PICK delta \in {Reward, -Reward} : L!Begin(p, "row", "adjust", delta, coins)
    BY <1>3 DEF L!AdjustUserCoins
  <2>2. delta \in -Reward..Reward
    BY <1>1
  <2> QED BY <1>3, <2>1, <2>2, LBegins DEF L!AdjustUserCoins
<1>4. CASE L!AddCoins(p)
  BY <1>1, <1>2, <1>4, LBegins DEF L!AddCoins
<1>5. CASE L!ClaimTask(p)
  BY <1>1, <1>2, <1>5, LBegins DEF L!ClaimTask
<1>6. CASE L!CreditUploadReward(p)
  BY <1>1, <1>2, <1>6, LBegins DEF L!CreditUploadReward
<1>7. CASE L!ClawbackUploadReward(p)
  BY <1>1, <1>2, <1>7, LBegins DEF L!ClawbackUploadReward
<1>8. CASE L!RefundCall(p)
  BY <1>1, <1>2, <1>8, LBegins DEF L!RefundCall
<1>9. CASE L!RefundClawback(p)
  <2>1. -(IF coins < Reward THEN coins ELSE Reward) \in -Reward..Reward
    BY <1>1, <1>9 DEF L!RefundClawback
  <2> QED BY <1>9, <2>1, LBegins DEF L!RefundClawback
<1>10. CASE L!RefundMomentPurchase(p)
  BY <1>1, <1>10, LBegins DEF L!RefundMomentPurchase
<1>11. CASE L!RegrantMoment(p)
  BY <1>1, <1>11, LBegins DEF L!RegrantMoment
<1>12. CASE L!RefundMomentCreator(p)
  BY <1>1, <1>12, LBegins DEF L!RefundMomentCreator
<1>13. CASE L!ForceRegrant(p)
  <2>1. PICK op \in L!Forced, delta \in {Reward, 0, -Reward} : L!Begin(p, "txn", op, delta, coins)
    BY <1>13 DEF L!ForceRegrant, L!Forced
  <2>2. delta \in -Reward..Reward /\ op # "task" /\ op # "clawback"
    BY <1>1, <2>1 DEF L!Forced
  <2> QED BY <1>13, <2>1, <2>2, LBegins DEF L!ForceRegrant
<1> QED BY <1>3, <1>4, <1>5, <1>6, <1>7, <1>8, <1>9, <1>10, <1>11, <1>12, <1>13

LEMMA LTakeClaim ==
  ASSUME LBounds, LInv, NEW p \in Executions, L!TakeClaim(p)
  PROVE  LInv'
<1>0. /\ L!TypeOK /\ coins \in Nat /\ net \in Int /\ claimed \in BOOLEAN /\ queued \in BOOLEAN /\ excess \in Int
      /\ purchase \in {"bought", "refunded"} /\ operations \in 0..MaxOperations /\ faults \in 0..MaxFaults
  BY LTyped DEF LInv
<1>1. /\ job[p].at = "claim" /\ claimed' = TRUE
      /\ UNCHANGED <<coins, net, rows, purchase, queued, excess, operations, faults>>
  BY DEF L!TakeClaim
<1>2. TakingTurns => Agrees(excess, coins, net) /\ job[p].seen = coins
  BY <1>1, LTurn
<1>3. CASE claimed
  <2>1. L!End(p)
    BY <1>3 DEF L!TakeClaim
  <2>2. L!Idle \in LJobs /\ Becomes(p, L!Idle) /\ L!Idle.at = "idle"
    BY <2>1, LEnds
  <2> QED BY <1>0, <1>1, <1>2, <2>2, LKeeps
<1>4. CASE ~ claimed
  <2>1. L!GoTo(p, "row") /\ "row" \in LPoints
    BY <1>4 DEF L!TakeClaim, LPoints
  <2>2. PICK j \in LJobs : Becomes(p, j) /\ j.at = "row" /\ j.op = job[p].op /\ j.seen = job[p].seen
    BY <1>0, <2>1, LGoes
  <2>3. job[p].op # "clawback"
    BY <1>1 DEF LInv, ClawbackAfter
  <2> QED BY <1>0, <1>1, <1>2, <1>4, <2>2, <2>3, LKeeps
<1> QED BY <1>3, <1>4

\* The row of a job, unless one with its fixed id is there.
LEMMA LWriteRow ==
  ASSUME LBounds, LInv, NEW p \in Executions, L!WriteRow(p)
  PROVE  LInv'
<1>0. /\ L!TypeOK /\ coins \in Nat /\ net \in Int /\ claimed \in BOOLEAN /\ queued \in BOOLEAN /\ excess \in Int
      /\ purchase \in {"bought", "refunded"} /\ operations \in 0..MaxOperations /\ faults \in 0..MaxFaults
      /\ rows \in [L!Keyed -> Nat] /\ job \in [Executions -> LJobs]
  BY LTyped DEF LInv
<1>1. /\ job[p].at = "row"
      /\ UNCHANGED <<coins, claimed, purchase, queued, excess, operations, faults>>
  BY DEF L!WriteRow
<1>2. TakingTurns => Agrees(excess, coins, net) /\ job[p].seen = coins
  BY <1>1, LTurn
<1>3. CASE job[p].op \in {"addCoins", "upload", "clawback"} /\ rows[job[p].op] > 0
  <2>1. L!End(p) /\ UNCHANGED <<net, rows>>
    BY <1>3 DEF L!WriteRow
  <2>2. L!Idle \in LJobs /\ Becomes(p, L!Idle) /\ L!Idle.at = "idle"
    BY <2>1, LEnds
  <2> QED BY <1>0, <1>1, <1>2, <2>1, <2>2, LKeeps
<1>4. CASE ~ (job[p].op \in {"addCoins", "upload", "clawback"} /\ rows[job[p].op] > 0)
  <2>1. /\ net' = net + job[p].delta /\ L!GoTo(p, "save") /\ "save" \in LPoints
        /\ rows' = [k \in L!Keyed |-> IF k = job[p].op THEN rows[k] + 1 ELSE rows[k]]
    BY <1>4 DEF L!WriteRow, LPoints
  <2>2. PICK j \in LJobs : /\ Becomes(p, j) /\ j.at = "save" /\ j.op = job[p].op
                           /\ j.delta = job[p].delta /\ j.seen = job[p].seen
    BY <1>0, <2>1, LGoes
  <2>3. /\ job' \in [Executions -> LJobs] /\ job'[p] = j
        /\ \A q \in Executions \ {p} : job'[q] = job[q]
    BY <1>0, <2>2, LBecomes
  <2>4. job[p].delta \in Int
    BY <1>0 DEF LJobs, LBounds
  <2>5. rows' \in [L!Keyed -> Nat] /\ net' \in Int
    BY <1>0, <2>1, <2>4
  <2>6. L!TypeOK'
    BY <1>0, <1>1, <2>3, <2>5 DEF L!TypeOK, LJobs, LPoints
  <2>7. \A k \in L!Keyed : rows[k] \in Nat /\ rows'[k] = IF k = job[p].op THEN rows[k] + 1 ELSE rows[k]
    BY <1>0, <2>1
  <2>8. {"addCoins", "task", "upload", "clawback", "refund"} = L!Keyed
    BY DEF L!Keyed
  <2>9. /\ rows["task"] \in Nat
        /\ rows'["task"] = IF job[p].op = "task" THEN rows["task"] + 1 ELSE rows["task"]
    BY <2>7, <2>8
  <2>10. TaskOnce'
    <3>1. CASE job[p].op = "task"
      <4>1. claimed /\ rows["task"] = 0
            /\ \A q \in Executions : job[q].at = "row" /\ job[q].op = "task" => q = p
        BY <1>1, <3>1 DEF LInv, TaskOnce
      <4>2. \A q \in Executions : ~ (job'[q].at = "row" /\ job'[q].op = "task")
        BY <2>2, <2>3, <4>1
      <4> QED BY <1>1, <2>9, <3>1, <4>1, <4>2 DEF TaskOnce
    <3>2. CASE job[p].op # "task"
      BY <1>1, <2>2, <2>3, <2>9, <3>2 DEF LInv, TaskOnce
    <3> QED BY <3>1, <3>2
  <2>11. /\ rows["upload"] \in Nat /\ rows["clawback"] \in Nat /\ rows["addCoins"] \in Nat
         /\ rows'["upload"] = IF job[p].op = "upload" THEN rows["upload"] + 1 ELSE rows["upload"]
         /\ rows'["clawback"] = IF job[p].op = "clawback" THEN rows["clawback"] + 1 ELSE rows["clawback"]
         /\ rows'["addCoins"] = IF job[p].op = "addCoins" THEN rows["addCoins"] + 1 ELSE rows["addCoins"]
    BY <2>7, <2>8
  <2>12. /\ job[p].op = "clawback" => rows["upload"] > 0 /\ rows["clawback"] = 0
         /\ job[p].op = "upload" => rows["upload"] = 0
         /\ job[p].op = "addCoins" => rows["addCoins"] = 0
    BY <1>1, <1>4, <2>11 DEF LInv, ClawbackAfter
  <2>13. L!ClawbackFollowsCredit'
    BY <2>11, <2>12 DEF LInv, L!ClawbackFollowsCredit
  <2>14. L!RewardedOnce'
    <3>1. rows'["addCoins"] <= 1 /\ rows'["upload"] <= 1
      BY <2>11, <2>12 DEF LInv, L!RewardedOnce
    <3>2. rows'["task"] <= 1
      BY <2>10 DEF TaskOnce
    <3> QED BY <3>1, <3>2 DEF L!RewardedOnce
  <2>15. ClawbackAfter'
    BY <2>2, <2>3, <2>11 DEF LInv, ClawbackAfter
  <2>16. TurnsAgree'
    <3> SUFFICES ASSUME TakingTurns PROVE TurnsAgree'
      BY DEF TurnsAgree, TakingTurns
    <3>1. \A q \in Executions : q = p
      BY DEF TakingTurns
    <3>2. Agrees(excess, j.seen + j.delta, net')
      BY <1>0, <1>2, <2>1, <2>2, <2>4 DEF Agrees
    <3>3. j.seen = coins'
      BY <1>1, <1>2, <2>2
    <3> QED BY <1>1, <2>2, <2>3, <3>1, <3>2, <3>3 DEF TurnsAgree
  <2> QED BY <2>6, <2>10, <2>13, <2>14, <2>15, <2>16 DEF LInv
<1> QED BY <1>3, <1>4

\* Taking what a balance has keeps it in agreement with the ledger.
LEMMA Max0Agrees ==
  ASSUME NEW e \in Int, NEW b \in Int, NEW n \in Int, Agrees(e, b, n)
  PROVE  Agrees(e + L!Short(b), L!Max0(b), n) /\ L!Max0(b) \in Nat
  BY DEF Agrees, L!Max0, L!Short

LEMMA LSaveCoins ==
  ASSUME LBounds, LInv, NEW p \in Executions, L!SaveCoins(p)
  PROVE  LInv'
<1>0. /\ L!TypeOK /\ coins \in Nat /\ net \in Int /\ claimed \in BOOLEAN /\ queued \in BOOLEAN /\ excess \in Int
      /\ purchase \in {"bought", "refunded"} /\ operations \in 0..MaxOperations /\ faults \in 0..MaxFaults
      /\ job \in [Executions -> LJobs]
  BY LTyped DEF LInv
<1>1. /\ job[p].at = "save" /\ coins' = L!Max0(job[p].seen + job[p].delta)
      /\ excess' = excess + L!Short(job[p].seen + job[p].delta) /\ L!GoTo(p, "verify")
      /\ UNCHANGED <<net, rows, claimed, purchase, queued, operations, faults>>
  BY DEF L!SaveCoins
<1>2. PICK j \in LJobs : Becomes(p, j) /\ j.at = "verify" /\ j.op = job[p].op
  BY <1>0, <1>1, LGoes DEF LPoints
<1>3. job[p].seen + job[p].delta \in Int
  BY <1>0 DEF LJobs, LBounds
<1>4. coins' \in Nat
  BY <1>1, <1>3 DEF L!Max0
<1>5. excess' \in Int
  BY <1>0, <1>1, <1>3 DEF L!Short
<1>6. TakingTurns => Agrees(excess', coins', net)
  BY <1>0, <1>1, <1>3, LTurn, Max0Agrees
<1> QED BY <1>0, <1>1, <1>2, <1>4, <1>5, <1>6, LKeeps

LEMMA LCommitMoment ==
  ASSUME LBounds, LInv, NEW p \in Executions, L!CommitMoment(p)
  PROVE  LInv'
<1>0. /\ L!TypeOK /\ coins \in Nat /\ net \in Int /\ claimed \in BOOLEAN /\ queued \in BOOLEAN /\ excess \in Int
      /\ purchase \in {"bought", "refunded"} /\ operations \in 0..MaxOperations /\ faults \in 0..MaxFaults
      /\ job \in [Executions -> LJobs]
  BY LTyped DEF LInv
<1>1. /\ job[p].at = "txn" /\ UNCHANGED <<rows, claimed, queued, operations, faults>>
  BY DEF L!CommitMoment
<1>2. TakingTurns => Agrees(excess, coins, net) /\ job[p].seen = coins
  BY <1>1, LTurn
<1>3. CASE L!End(p) /\ UNCHANGED <<coins, net, purchase, excess>>
  <2>1. L!Idle \in LJobs /\ Becomes(p, L!Idle) /\ L!Idle.at = "idle"
    BY <1>3, LEnds
  <2> QED BY <1>0, <1>1, <1>2, <1>3, <2>1, LKeeps
<1>4. CASE /\ coins' = L!Max0(job[p].seen + job[p].delta)
           /\ excess' = excess + L!Short(job[p].seen + job[p].delta)
           /\ net' = net + job[p].delta /\ purchase' \in {"refunded", "bought", purchase}
           /\ L!GoTo(p, "verify")
  <2>1. PICK j \in LJobs : Becomes(p, j) /\ j.at = "verify" /\ j.op = job[p].op
    BY <1>0, <1>4, LGoes DEF LPoints
  <2>2. job[p].seen \in Nat /\ job[p].delta \in Int
    BY <1>0 DEF LJobs, LBounds
  <2>3. coins' \in Nat /\ net' \in Int
    BY <1>0, <1>4, <2>2 DEF L!Max0
  <2>4. excess' \in Int /\ purchase' \in {"bought", "refunded"}
    BY <1>0, <1>4, <2>2 DEF L!Short
  <2>5. TakingTurns => Agrees(excess', coins', net')
    <3> SUFFICES ASSUME TakingTurns PROVE Agrees(excess', coins', net')
      OBVIOUS
    <3>1. Agrees(excess, job[p].seen + job[p].delta, net')
      BY <1>0, <1>2, <1>4, <2>2 DEF Agrees
    <3>2. job[p].seen + job[p].delta \in Int
      BY <2>2
    <3> QED BY <1>0, <1>4, <2>3, <3>1, <3>2, Max0Agrees
  <2> QED BY <1>0, <1>1, <2>1, <2>3, <2>4, <2>5, LKeeps
<1> QED BY <1>3, <1>4 DEF L!CommitMoment

\* The rows of a forced regrant are all the difference it makes.
LEMMA LCommitForced ==
  ASSUME LBounds, LInv, NEW p \in Executions, L!CommitForced(p)
  PROVE  LInv'
<1>0. /\ L!TypeOK /\ coins \in Nat /\ net \in Int /\ claimed \in BOOLEAN /\ queued \in BOOLEAN /\ excess \in Int
      /\ purchase \in {"bought", "refunded"} /\ operations \in 0..MaxOperations /\ faults \in 0..MaxFaults
      /\ job \in [Executions -> LJobs]
  BY LTyped DEF LInv
<1>1. /\ job[p].at = "txn" /\ net' = net + job[p].delta /\ excess' = excess - job[p].delta
      /\ purchase' \in {"bought", purchase} /\ L!GoTo(p, "verify")
      /\ UNCHANGED <<coins, rows, claimed, queued, operations, faults>>
  BY DEF L!CommitForced
<1>2. PICK j \in LJobs : Becomes(p, j) /\ j.at = "verify" /\ j.op = job[p].op
  BY <1>0, <1>1, LGoes DEF LPoints
<1>3. job[p].delta \in Int
  BY <1>0 DEF LJobs, LBounds
<1>4. net' \in Int /\ excess' \in Int /\ purchase' \in {"bought", "refunded"}
  BY <1>0, <1>1, <1>3
<1>5. TakingTurns => Agrees(excess', coins, net')
  <2>1. TakingTurns => Agrees(excess, coins, net)
    BY <1>1, LTurn
  <2> QED BY <1>0, <1>1, <1>3, <2>1 DEF Agrees
<1> QED BY <1>0, <1>1, <1>2, <1>4, <1>5, LKeeps

LEMMA LRetryMoment ==
  ASSUME LBounds, LInv, NEW p \in Executions, L!RetryMoment(p)
  PROVE  LInv'
<1>0. /\ L!TypeOK /\ coins \in Nat /\ net \in Int /\ claimed \in BOOLEAN /\ queued \in BOOLEAN /\ excess \in Int
      /\ purchase \in {"bought", "refunded"} /\ operations \in 0..MaxOperations /\ faults \in 0..MaxFaults
      /\ job \in [Executions -> LJobs] /\ MaxFaults \in Nat
  BY LTyped DEF LInv, LBounds
<1>1. /\ job[p].at = "txn" /\ faults < MaxFaults /\ faults' = faults + 1
      /\ Becomes(p, [job[p] EXCEPT !.seen = L!Max0(job[p].seen + job[p].delta)])
      /\ UNCHANGED <<coins, net, rows, claimed, purchase, queued, excess, operations>>
  BY <1>0 DEF L!RetryMoment, L!books, Becomes
<1>2. L!Max0(job[p].seen + job[p].delta) \in Nat
  BY <1>0 DEF L!Max0, LJobs, LBounds
<1>3. PICK j \in LJobs : Becomes(p, j) /\ j.at = "txn"
  <2>1. job[p] \in LJobs
    BY <1>0
  <2>2. [job[p] EXCEPT !.seen = L!Max0(job[p].seen + job[p].delta)] \in LJobs
        /\ [job[p] EXCEPT !.seen = L!Max0(job[p].seen + job[p].delta)].at = job[p].at
    BY <1>2, <2>1 DEF LJobs
  <2> QED BY <1>1, <2>2
<1>4. faults' \in 0..MaxFaults /\ ~ TakingTurns
  BY <1>0, <1>1 DEF TakingTurns
<1> QED BY <1>0, <1>1, <1>3, <1>4, LKeeps

\* The operations whose balance and row are one transaction.
LEMMA LAtOnce ==
  ASSUME LBounds, LInv, NEW p \in Executions, L!PreSendMessage(p) \/ L!CreditReward(p)
  PROVE  LInv'
<1>0. /\ L!TypeOK /\ coins \in Nat /\ net \in Int /\ claimed \in BOOLEAN /\ queued \in BOOLEAN /\ excess \in Int
      /\ purchase \in {"bought", "refunded"} /\ operations \in 0..MaxOperations /\ faults \in 0..MaxFaults
      /\ job \in [Executions -> LJobs] /\ Reward \in Nat /\ MaxOperations \in Nat
  BY LTyped DEF LInv, LBounds
<1>1. /\ job[p] = L!Idle /\ operations < MaxOperations /\ operations' = operations + 1
      /\ L!GoTo(p, "verify") /\ UNCHANGED <<rows, claimed, purchase, queued, excess, faults>>
  BY DEF L!PreSendMessage, L!CreditReward
<1>2. \/ coins >= Reward /\ coins' = coins - Reward /\ net' = net - Reward
      \/ coins' = coins + Reward /\ net' = net + Reward
  BY DEF L!PreSendMessage, L!CreditReward
<1>3. PICK j \in LJobs : Becomes(p, j) /\ j.at = "verify"
  BY <1>0, <1>1, LGoes DEF LPoints
<1>4. coins' \in Nat /\ net' \in Int /\ operations' \in 0..MaxOperations
  BY <1>0, <1>1, <1>2
<1>5. TakingTurns => Agrees(excess, coins, net)
  BY <1>1, LTurn DEF L!Idle
<1>6. TakingTurns => Agrees(excess, coins', net')
  BY <1>0, <1>2, <1>5 DEF Agrees
<1> QED BY <1>0, <1>1, <1>3, <1>4, <1>6, LKeeps

LEMMA LVerifies ==
  ASSUME LBounds, LInv, NEW p \in Executions, L!VerifyUserBalance(p) \/ L!ApplyRepair(p) \/ L!Fault(p)
  PROVE  LInv'
<1>0. /\ L!TypeOK /\ coins \in Nat /\ net \in Int /\ claimed \in BOOLEAN /\ queued \in BOOLEAN /\ excess \in Int
      /\ purchase \in {"bought", "refunded"} /\ operations \in 0..MaxOperations /\ faults \in 0..MaxFaults
      /\ job \in [Executions -> LJobs] /\ MaxFaults \in Nat
  BY LTyped DEF LInv, LBounds
<1>1. L!End(p) /\ UNCHANGED <<net, rows, claimed, purchase, operations>>
  BY DEF L!VerifyUserBalance, L!ApplyRepair, L!Fault, L!books
<1>2. L!Idle \in LJobs /\ Becomes(p, L!Idle) /\ L!Idle.at = "idle"
  BY <1>1, LEnds
<1>3. CASE L!VerifyUserBalance(p)
  <2>1. queued' \in BOOLEAN /\ job[p].at = "verify" /\ UNCHANGED <<coins, excess, faults>>
    BY <1>3 DEF L!VerifyUserBalance
  <2>2. TakingTurns => Agrees(excess, coins, net)
    BY <2>1, LTurn
  <2> QED BY <1>0, <1>1, <1>2, <2>1, <2>2, LKeeps
<1>4. CASE L!ApplyRepair(p)
  <2>1. /\ job[p].at = "repair" /\ coins' = job[p].seen /\ excess' = L!Short(net)
        /\ UNCHANGED <<queued, faults>>
    BY <1>4 DEF L!ApplyRepair
  <2>2. coins' \in Nat /\ excess' \in Int
    BY <1>0, <2>1 DEF LJobs, L!Short
  <2>3. TakingTurns => job[p].seen = L!Max0(net)
    BY <2>1, LTurn
  <2>4. TakingTurns => Agrees(excess', coins', net)
    BY <1>0, <2>1, <2>3 DEF Agrees, L!Max0, L!Short
  <2> QED BY <1>0, <1>1, <1>2, <2>1, <2>2, <2>4, LKeeps
<1>5. CASE L!Fault(p)
  <2>1. faults < MaxFaults /\ faults' = faults + 1 /\ UNCHANGED <<coins, excess, queued>>
    BY <1>5 DEF L!Fault, L!books
  <2>2. faults' \in 0..MaxFaults /\ ~ TakingTurns
    BY <1>0, <2>1 DEF TakingTurns
  <2> QED BY <1>0, <1>1, <1>2, <2>1, <2>2, LKeeps
<1> QED BY <1>3, <1>4, <1>5

LEMMA LRepairs ==
  ASSUME LBounds, LInv, NEW p \in Executions, L!ReadRepair(p) \/ L!QueueRepair(p)
  PROVE  LInv'
<1> DEFINE j == [at |-> "repair", op |-> "none", delta |-> 0, seen |-> L!Max0(net)]
<1>0. /\ L!TypeOK /\ coins \in Nat /\ net \in Int /\ claimed \in BOOLEAN /\ queued \in BOOLEAN /\ excess \in Int
      /\ purchase \in {"bought", "refunded"} /\ operations \in 0..MaxOperations /\ faults \in 0..MaxFaults
  BY LTyped DEF LInv
<1>1. /\ job[p] = L!Idle /\ Becomes(p, j) /\ queued' \in BOOLEAN
      /\ UNCHANGED <<coins, net, rows, claimed, purchase, excess, operations, faults>>
  BY <1>0 DEF L!ReadRepair, L!QueueRepair, L!BeginRepair, L!LedgerBalance, Becomes
<1>2. L!Max0(net) \in Nat
  BY <1>0 DEF L!Max0
<1>3. j \in LJobs /\ j.at = "repair" /\ j.seen = L!Max0(net)
  BY <1>2 DEF LJobs, LPoints, LBounds
<1>4. TakingTurns => Agrees(excess, coins, net)
  BY <1>1, LTurn DEF L!Idle
<1>5. L!Max0(net') = L!Max0(net)
  BY <1>1
<1> HIDE DEF j
<1> QED BY <1>0, <1>1, <1>3, <1>4, <1>5, LKeeps

\* Nothing but the queue changes.
LEMMA LStand ==
  ASSUME LInv, queued' \in BOOLEAN,
         UNCHANGED <<coins, net, rows, claimed, purchase, excess, job, operations, faults>>
  PROVE  LInv'
<1>1. L!TypeOK' /\ L!RewardedOnce' /\ L!ClawbackFollowsCredit'
  BY DEF LInv, L!TypeOK, L!RewardedOnce, L!ClawbackFollowsCredit
<1>2. TaskOnce' /\ ClawbackAfter'
  BY DEF LInv, TaskOnce, ClawbackAfter
<1>3. TurnsAgree'
  BY DEF LInv, TurnsAgree, TakingTurns, Agrees, L!LedgerBalance, L!Max0
<1> QED BY <1>1, <1>2, <1>3 DEF LInv

LEMMA LStepInv == LBounds /\ LInv /\ L!Next => LInv'
<1> SUFFICES ASSUME LBounds, LInv, NEW p \in Executions,
      \/ L!AdjustUserCoins(p) \/ L!AddCoins(p) \/ L!ClaimTask(p) \/ L!CreditUploadReward(p)
      \/ L!ClawbackUploadReward(p) \/ L!RefundCall(p) \/ L!RefundClawback(p)
      \/ L!RefundMomentPurchase(p) \/ L!RegrantMoment(p) \/ L!ForceRegrant(p) \/ L!RefundMomentCreator(p)
      \/ L!PreSendMessage(p) \/ L!CreditReward(p)
      \/ L!Continue(p) \/ L!RetryMoment(p)
      \/ L!ReadRepair(p) \/ L!QueueRepair(p) \/ L!QueueSkip(p) \/ L!Fault(p)
    PROVE LInv'
  BY DEF L!Next
<1>1. CASE L!QueueSkip(p)
  BY <1>1, LStand DEF L!QueueSkip
<1>2. CASE L!Continue(p)
  BY <1>2, LTakeClaim, LWriteRow, LSaveCoins, LCommitMoment, LCommitForced, LVerifies DEF L!Continue
<1> QED BY <1>1, <1>2, LHandlers, LAtOnce, LRetryMoment, LRepairs, LVerifies

LEMMA LStutterInv == LInv /\ UNCHANGED L!vars => LInv'
<1> SUFFICES ASSUME LInv, UNCHANGED L!vars PROVE LInv'
  OBVIOUS
<1>1. queued' \in BOOLEAN
  BY LTyped DEF LInv, L!vars
<1> QED BY <1>1, LStand DEF L!vars

LEMMA LCache == LInv => (TakingTurns => L!CacheIsLedger)
  BY DEF LInv, TurnsAgree, L!CacheIsLedger, Agrees

\* Requests that are sent twice, overlap or are tried again after a crash
\* reach the ledger once (addCoins, claimTaskReward, creditMomentUploadReward).
THEOREM RewardedOnceTheorem == ASSUME LBounds PROVE L!Spec => []L!RewardedOnce
<1>1. LInv => L!RewardedOnce
  BY DEF LInv
<1> QED BY <1>1, LInitInv, LStepInv, LStutterInv, PTL DEF L!Spec

\* An upload reward is taken back once, and only after it was given
\* (debitMomentUploadRewardClawback).
THEOREM ClawbackTheorem == ASSUME LBounds PROVE L!Spec => []L!ClawbackFollowsCredit
<1>1. LInv => L!ClawbackFollowsCredit
  BY DEF LInv
<1> QED BY <1>1, LInitInv, LStepInv, LStutterInv, PTL DEF L!Spec

\* Operations that take turns, and are not broken off, leave the cached coins
\* at the balance of the ledger, but for what clawbacks that stopped at 0 and
\* regrants with forceRepair have left between them (User.coins beside the
\* CoinTransactions, regrantMomentPurchase).
THEOREM CacheTheorem == ASSUME LBounds, TakingTurns PROVE L!Spec => []L!CacheIsLedger
<1> QED BY LCache, LInitInv, LStepInv, LStutterInv, PTL DEF L!Spec
=============================================================================
