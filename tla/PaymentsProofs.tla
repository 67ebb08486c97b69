--------------------------- MODULE PaymentsProofs ---------------------------
(***************************************************************************)
(* Proofs about what is bought, for any number of concurrent               *)
(* verifications, webhooks, retries and sweeps, faults and wrong           *)
(* signatures: the coins of a pack follow its ledger rows, a VIP or        *)
(* Moments Premium membership its row, their caches the membership, and    *)
(* nothing says done before the purchase is there.                         *)
(***************************************************************************)
EXTENDS Payments, TLAPS

\* The bounds are numbers.
Bounds == MaxFaults \in Nat /\ MaxMismatches \in Nat

\* createWebOrder between the creation of the order and its answer.
Ordering == {"savePending", "attach", "saveBonus"}

\* Until the order is answered nobody else works for it, and it has no more
\* than its pending row.
BeforeOffer ==
    order \in {"none", "creating"} =>
        /\ \A p \in Executions : pc[p] \in Ordering \cup {"idle"}
        /\ row \in {"none", "pending"} /\ bonus = "none"

\* No webhook of the payment before there can be a payment.
EventsLater == order \in {"none", "creating"} => \A e \in Events : event[e] = "none"

\* One execution at most creates the order.
OneOrderer ==
    \A p \in Executions : pc[p] \in Ordering =>
        /\ order = "creating"
        /\ \A q \in Executions : pc[q] \in Ordering => p = q

NoRowYet ==
    /\ order = "none" => row = "none"
    /\ \A p \in Executions : pc[p] = "savePending" => row = "none"

\* Whoever is about to report success has seen the coins credited.
DoneMeansCredited ==
    \A p \in Executions : pc[p] \in {"record", "acknowledge"} => credits.main > 0

\* Only a wrong signature leads to the reset of a row.
ResetsAreMismatches ==
    mismatches = 0 => resets = 0 /\ \A p \in Executions : pc[p] # "reject"

Inv ==
    /\ TypeOK
    /\ BeforeOffer /\ EventsLater /\ OneOrderer /\ NoRowYet
    /\ CreditsMatchLedger /\ BonusCreditedOnce /\ BonusWithMain
    /\ DoneMeansCredited /\ AcknowledgedMeansCredited
    /\ ResetsAreMismatches

LEMMA InitInv == Bounds /\ Init => Inv
<1> SUFFICES ASSUME Bounds, Init PROVE Inv
  OBVIOUS
<1> USE DEF Init
<1>1. TypeOK
  BY DEF Bounds, TypeOK, Statuses, Points
<1>2. /\ BeforeOffer /\ EventsLater /\ OneOrderer /\ NoRowYet
      /\ DoneMeansCredited /\ ResetsAreMismatches
  BY DEF BeforeOffer, EventsLater, OneOrderer, NoRowYet, DoneMeansCredited, ResetsAreMismatches, Ordering
<1>3. CreditsMatchLedger /\ BonusCreditedOnce /\ BonusWithMain /\ AcknowledgedMeansCredited
  BY DEF CreditsMatchLedger, BonusCreditedOnce, BonusWithMain, AcknowledgedMeansCredited
<1> QED BY <1>1, <1>2, <1>3 DEF Inv

-----------------------------------------------------------------------------
(* How an execution moves. *)

\* p goes to point and leaves everybody else where they are.
Moves(p, point) == pc' = [pc EXCEPT ![p] = point]

\* The part of TypeOK about the executions.
LEMMA MovesTyped ==
  ASSUME TypeOK, NEW p \in Executions, NEW point \in Points, Moves(p, point)
  PROVE  pc' \in [Executions -> Points]
  BY DEF TypeOK, Moves

\* A move outside createWebOrder keeps what the invariant says of the
\* executions, if it reports success only of credited coins and resets a row
\* only after a mismatch.
LEMMA MoveKeeps ==
  ASSUME Inv, NEW p \in Executions, NEW point \in Points \ Ordering, Moves(p, point),
         order \in {"none", "creating"} => point = "idle" /\ UNCHANGED <<row, bonus>>,
         UNCHANGED order,
         credits.main \in Nat, credits'.main \in Nat, credits'.main >= credits.main,
         point \in {"record", "acknowledge"} => credits'.main > 0,
         point = "reject" => mismatches' # 0,
         UNCHANGED <<resets, mismatches>> \/ mismatches' # 0
  PROVE  /\ BeforeOffer' /\ OneOrderer' /\ NoRowYet'
         /\ DoneMeansCredited' /\ ResetsAreMismatches'
<1> USE DEF Moves
<1>0. pc \in [Executions -> Points]
  BY DEF Inv, TypeOK
<1>1. BeforeOffer'
  BY <1>0 DEF Inv, BeforeOffer
<1>2. OneOrderer'
  BY <1>0 DEF Inv, OneOrderer
<1>3. NoRowYet'
  BY <1>0 DEF Inv, NoRowYet, OneOrderer, Ordering
<1>4. DoneMeansCredited'
  BY <1>0 DEF Inv, DoneMeansCredited
<1>5. ResetsAreMismatches'
  BY <1>0 DEF Inv, ResetsAreMismatches
<1> QED BY <1>1, <1>2, <1>3, <1>4, <1>5

\* Nothing moves and the rows stay.
LEMMA StandKeeps ==
  ASSUME Inv, UNCHANGED <<pc, row, bonus, credits, resets, mismatches>>,
         {order, order'} \cap {"none", "creating"} # {} => UNCHANGED order
  PROVE  /\ BeforeOffer' /\ OneOrderer' /\ NoRowYet'
         /\ DoneMeansCredited' /\ ResetsAreMismatches'
         /\ CreditsMatchLedger' /\ BonusCreditedOnce' /\ BonusWithMain'
<1>1. BeforeOffer' /\ NoRowYet'
  BY DEF Inv, BeforeOffer, NoRowYet
<1>2. OneOrderer'
  BY DEF Inv, OneOrderer
<1>3. DoneMeansCredited' /\ ResetsAreMismatches'
  BY DEF Inv, DoneMeansCredited, ResetsAreMismatches
<1>4. CreditsMatchLedger' /\ BonusCreditedOnce' /\ BonusWithMain'
  BY DEF Inv, CreditsMatchLedger, BonusCreditedOnce, BonusWithMain
<1> QED BY <1>1, <1>2, <1>3, <1>4

LEMMA EventsKeep ==
  ASSUME Inv, UNCHANGED event, order' \in {"none", "creating"} => order \in {"none", "creating"}
  PROVE  EventsLater'
  BY DEF Inv, EventsLater

\* Without a change of the books they still agree.
LEMMA BooksKeep ==
  ASSUME Inv, UNCHANGED ledger
  PROVE  CreditsMatchLedger' /\ BonusCreditedOnce' /\ BonusWithMain'
  BY DEF Inv, ledger, CreditsMatchLedger, BonusCreditedOnce, BonusWithMain

-----------------------------------------------------------------------------
(* finalizePaymentAtomically *)

\* The transaction leaves exactly one credit per completed row.
LEMMA CompleteBooks ==
  ASSUME TypeOK, CreditsMatchLedger, BonusCreditedOnce, Complete, UNCHANGED resets
  PROVE  /\ row' = "completed" /\ bonus' \in {"none", "completed"}
         /\ credits' \in [main : Nat, bonus : Nat]
         /\ credits'.main >= credits.main /\ credits'.main > 0
         /\ CreditsMatchLedger' /\ BonusCreditedOnce' /\ BonusWithMain'
<1>1. /\ credits.main \in Nat /\ credits.bonus \in Nat /\ resets \in Nat
      /\ bonus \in {"none", "pending", "completed"}
  BY DEF TypeOK, Statuses
<1>2. /\ credits'.main = credits.main + IF row = "completed" THEN 0 ELSE 1
      /\ credits'.bonus = credits.bonus + IF bonus \in {"none", "completed"} THEN 0 ELSE 1
      /\ row' = "completed"
      /\ bonus' = IF bonus = "none" THEN bonus ELSE "completed"
  BY DEF Complete
<1>3. credits'.main = resets + 1
  BY <1>1, <1>2 DEF CreditsMatchLedger
<1>4. credits'.bonus = IF bonus' = "completed" THEN 1 ELSE 0
  BY <1>1, <1>2 DEF BonusCreditedOnce
<1>5. credits' \in [main : Nat, bonus : Nat]
  BY <1>1, <1>2 DEF Complete
<1> QED BY <1>1, <1>2, <1>3, <1>4, <1>5 DEF CreditsMatchLedger, BonusCreditedOnce, BonusWithMain

-----------------------------------------------------------------------------
(* createWebOrder *)

LEMMA OrderingKeeps ==
  ASSUME Bounds, Inv, NEW p \in Executions,
         CreateOrder(p) \/ SavePending(p) \/ AttachCheckoutOrder(p) \/ SaveBonus(p)
  PROVE  Inv'
<1>0. pc \in [Executions -> Points] /\ TypeOK
  BY DEF Inv, TypeOK
<1>1. CASE CreateOrder(p)
  <2> USE <1>1 DEF CreateOrder, Start
  <2>1. TypeOK'
    BY <1>0, Zenon DEF TypeOK, Points, ledger
  <2>2. \A q \in Executions : pc[q] = "idle"
    BY <1>0 DEF Inv, BeforeOffer, OneOrderer
  <2>3. BeforeOffer' /\ OneOrderer' /\ ResetsAreMismatches'
    BY <1>0, <2>2 DEF Inv, BeforeOffer, OneOrderer, ResetsAreMismatches, Ordering, ledger
  <2>4. NoRowYet'
    BY <1>0, <2>2 DEF Inv, NoRowYet, ledger
  <2>5. DoneMeansCredited' /\ AcknowledgedMeansCredited'
    BY <1>0, <2>2 DEF Inv, DoneMeansCredited, AcknowledgedMeansCredited, ledger
  <2>6. EventsLater'
    BY EventsKeep
  <2> QED BY <2>1, <2>3, <2>4, <2>5, <2>6, BooksKeep DEF Inv
<1>2. CASE SavePending(p)
  <2> USE <1>2 DEF SavePending, GoTo
  <2>1. order = "creating" /\ bonus = "none" /\ row = "none"
    BY DEF Inv, BeforeOffer, OneOrderer, NoRowYet, Ordering
  <2>2. TypeOK'
    <3>1. pc' \in [Executions -> Points]
      BY <1>0 DEF Points
    <3>2. faults' \in 0 .. MaxFaults
      BY <1>0 DEF Bounds, TypeOK
    <3> QED BY <1>0, <3>1, <3>2 DEF TypeOK, Statuses
  <2>3. \A q \in Executions \ {p} : pc[q] = "idle" /\ pc'[q] = "idle"
    BY <1>0, <2>1 DEF Inv, BeforeOffer, OneOrderer, Ordering
  <2>4. pc'[p] \in {"attach", "idle"} /\ (order' = "creating" <=> pc'[p] = "attach")
        /\ order' \in {"creating", "orphan"}
    BY <1>0, <2>1
  <2>5. BeforeOffer' /\ OneOrderer' /\ NoRowYet'
    BY <2>1, <2>3, <2>4 DEF BeforeOffer, OneOrderer, NoRowYet, Ordering
  <2>6. DoneMeansCredited' /\ ResetsAreMismatches'
    BY <1>0 DEF Inv, DoneMeansCredited, ResetsAreMismatches
  <2>7. CreditsMatchLedger' /\ BonusCreditedOnce' /\ BonusWithMain'
    BY <2>1 DEF Inv, CreditsMatchLedger, BonusCreditedOnce, BonusWithMain
  <2>8. EventsLater' /\ AcknowledgedMeansCredited'
    BY EventsKeep DEF Inv, BeforeOffer, AcknowledgedMeansCredited, Ordering
  <2> QED BY <2>2, <2>5, <2>6, <2>7, <2>8 DEF Inv
<1>3. CASE AttachCheckoutOrder(p)
  <2> USE <1>3 DEF AttachCheckoutOrder, GoTo
  <2>1. pc' \in [Executions -> Points]
    BY <1>0 DEF Points
  <2>2. TypeOK'
    BY <1>0, <2>1 DEF TypeOK, ledger
  <2>3. BeforeOffer' /\ OneOrderer' /\ NoRowYet'
    BY <1>0 DEF Inv, BeforeOffer, OneOrderer, NoRowYet, Ordering, ledger
  <2>4. DoneMeansCredited' /\ ResetsAreMismatches'
    BY <1>0 DEF Inv, DoneMeansCredited, ResetsAreMismatches, ledger
  <2>5. EventsLater' /\ AcknowledgedMeansCredited'
    BY <1>0, EventsKeep DEF Inv, AcknowledgedMeansCredited, ledger
  <2> QED BY <2>2, <2>3, <2>4, <2>5, BooksKeep DEF Inv
<1>4. CASE SaveBonus(p)
  <2> USE <1>4 DEF SaveBonus, GoTo
  <2>1. pc' \in [Executions -> Points]
    BY <1>0 DEF Points
  <2>2. TypeOK'
    BY <1>0, <2>1 DEF TypeOK, Statuses
  <2>3. order = "creating" /\ bonus = "none" /\ row # "completed"
    BY DEF Inv, BeforeOffer, OneOrderer, Ordering
  <2>4. \A q \in Executions : pc'[q] = "idle"
    BY <1>0, <2>3 DEF Inv, BeforeOffer, OneOrderer, Ordering
  <2>5. BeforeOffer' /\ OneOrderer' /\ NoRowYet'
    BY <2>4 DEF BeforeOffer, OneOrderer, NoRowYet, Ordering
  <2>6. DoneMeansCredited' /\ ResetsAreMismatches'
    BY <2>4 DEF Inv, DoneMeansCredited, ResetsAreMismatches
  <2>7. CreditsMatchLedger' /\ BonusCreditedOnce' /\ BonusWithMain'
    BY <2>3 DEF Inv, CreditsMatchLedger, BonusCreditedOnce, BonusWithMain
  <2>8. EventsLater' /\ AcknowledgedMeansCredited'
    BY EventsKeep DEF Inv, BeforeOffer, AcknowledgedMeansCredited, Ordering
  <2> QED BY <2>2, <2>5, <2>6, <2>7, <2>8 DEF Inv
<1> QED BY <1>1, <1>2, <1>3, <1>4

-----------------------------------------------------------------------------
(* The credit of a captured payment *)

\* Work on the order begins only after it was answered.
LEMMA AfterOffer ==
  ASSUME Inv, NEW p \in Executions, pc[p] \notin Ordering \cup {"idle"}
  PROVE  order \notin {"none", "creating"}
  BY DEF Inv, BeforeOffer

\* A completed row has been credited.
LEMMA CompletedCredited == Inv /\ row = "completed" => credits.main > 0
<1> SUFFICES ASSUME Inv, row = "completed" PROVE credits.main > 0
  OBVIOUS
<1>1. resets \in Nat /\ credits.main = resets + 1
  BY DEF Inv, TypeOK, CreditsMatchLedger
<1> QED BY <1>1

LEMMA CreditedPoints ==
  ASSUME TypeOK, NEW p \in Executions
  PROVE  /\ Credited(p) \in {"record", "acknowledge", "idle"}
         /\ NotCredited(p) \in {"fail", "idle"}
         /\ {"record", "acknowledge", "idle", "fail", "resolve", "ensure", "refinalize",
             "reconcile", "find", "finalize", "claim", "reject"} \subseteq Points \ Ordering
  BY DEF Credited, NotCredited, Points, Ordering

\* A step that only moves p, and perhaps counts a fault.
LEMMA OnlyMoves ==
  ASSUME Bounds, Inv, NEW p \in Executions, NEW point \in Points \ Ordering,
         GoTo(p, point),
         order \in {"none", "creating"} => point = "idle",
         point \in {"record", "acknowledge"} => credits.main > 0,
         point # "reject",
         UNCHANGED faults \/ (faults < MaxFaults /\ faults' = faults + 1),
         UNCHANGED <<order, ledger, user, context, event, mismatches>>
  PROVE  Inv'
<1> USE DEF GoTo, ledger
<1>1. credits.main \in Nat /\ TypeOK
  BY DEF Inv, TypeOK
<1>2. TypeOK'
  <2>1. pc' \in [Executions -> Points]
    BY <1>1 DEF TypeOK
  <2>2. faults' \in 0 .. MaxFaults
    BY <1>1 DEF Bounds, TypeOK
  <2> QED BY <1>1, <2>1, <2>2 DEF TypeOK
<1>3. /\ BeforeOffer' /\ OneOrderer' /\ NoRowYet'
      /\ DoneMeansCredited' /\ ResetsAreMismatches'
  <2>1. Moves(p, point) /\ credits' = credits /\ credits.main >= credits.main
    BY <1>1 DEF Moves
  <2>2. credits'.main \in Nat /\ credits'.main >= credits.main
    BY <1>1, <2>1
  <2> QED BY <1>1, <2>1, <2>2, MoveKeeps
<1>4. EventsLater' /\ AcknowledgedMeansCredited'
  BY EventsKeep DEF Inv, AcknowledgedMeansCredited
<1> QED BY <1>2, <1>3, <1>4, BooksKeep DEF Inv

LEMMA FinalizeKeeps ==
  ASSUME Bounds, Inv, NEW p \in Executions, FinalizePayment(p)
  PROVE  Inv'
<1>0. TypeOK /\ order \notin {"none", "creating"} /\ credits.main \in Nat
  BY AfterOffer DEF Inv, TypeOK, FinalizePayment, Ordering
<1>1. CASE Complete /\ GoTo(p, Credited(p)) /\ UNCHANGED faults
  <2> USE DEF FinalizePayment, GoTo
  <2>1. /\ row' = "completed" /\ bonus' \in {"none", "completed"}
        /\ credits' \in [main : Nat, bonus : Nat]
        /\ credits'.main >= credits.main /\ credits'.main > 0
        /\ CreditsMatchLedger' /\ BonusCreditedOnce' /\ BonusWithMain'
    BY <1>1, CompleteBooks DEF Inv
  <2>2. credits'.main \in Nat
    BY <2>1
  <2>3. Credited(p) \in Points \ Ordering /\ Credited(p) # "reject"
    BY <1>0, CreditedPoints
  <2>4. /\ BeforeOffer' /\ OneOrderer' /\ NoRowYet'
        /\ DoneMeansCredited' /\ ResetsAreMismatches'
    BY <1>0, <1>1, <2>1, <2>2, <2>3, MoveKeeps DEF Moves
  <2>5. pc' \in [Executions -> Points]
    BY <1>0, <1>1, <2>3 DEF TypeOK
  <2>6. TypeOK'
    BY <1>0, <1>1, <2>1, <2>5 DEF TypeOK, Statuses
  <2>7. EventsLater' /\ AcknowledgedMeansCredited'
    BY <2>1, EventsKeep DEF AcknowledgedMeansCredited
  <2> QED BY <2>1, <2>4, <2>6, <2>7 DEF Inv
<1>2. CASE GoTo(p, "reconcile") /\ UNCHANGED <<row, bonus, credits, faults>>
  BY <1>0, <1>2, OnlyMoves, CreditedPoints DEF FinalizePayment, ledger
<1>3. CASE /\ GoTo(p, NotCredited(p)) /\ UNCHANGED <<row, bonus, credits>>
           /\ UNCHANGED faults \/ (faults < MaxFaults /\ faults' = faults + 1)
  <2>1. NotCredited(p) \in Points \ Ordering /\ NotCredited(p) \in {"fail", "idle"}
    BY <1>0, CreditedPoints
  <2> QED BY <1>0, <1>3, <2>1, OnlyMoves DEF FinalizePayment, ledger
<1> QED BY <1>1, <1>2, <1>3 DEF FinalizePayment

\* reconcileCapturedWalletPayment and the steps that only decide where to go.
LEMMA DecideKeeps ==
  ASSUME Bounds, Inv, NEW p \in Executions,
         Reconcile(p) \/ ResolveUser(p) \/ FindTransaction(p)
  PROVE  Inv'
<1>0. TypeOK /\ order \notin {"none", "creating"}
  BY AfterOffer DEF Inv, Reconcile, ResolveUser, FindTransaction, Ordering
<1>1. /\ Credited(p) \in Points \ Ordering /\ Credited(p) # "reject"
      /\ NotCredited(p) \in Points \ Ordering /\ NotCredited(p) \in {"fail", "idle"}
      /\ {"resolve", "ensure", "acknowledge", "reconcile", "finalize"} \subseteq Points \ Ordering
  BY <1>0, CreditedPoints
<1>2. CASE Reconcile(p)
  <2>1. PICK point : GoTo(p, point) /\ point \in Points \ Ordering /\ point # "reject"
                     /\ (point \in {"record", "acknowledge"} => row = "completed")
    BY <1>1, <1>2 DEF Reconcile
  <2>2. point \in {"record", "acknowledge"} => credits.main > 0
    BY <2>1, CompletedCredited
  <2> QED BY <1>0, <1>2, <2>1, <2>2, OnlyMoves DEF Reconcile
<1>3. CASE ResolveUser(p)
  <2>1. PICK point : GoTo(p, point) /\ point \in Points \ Ordering /\ point # "reject"
                     /\ (point \in {"record", "acknowledge"} => DeletedAfterCredit)
    BY <1>1, <1>3 DEF ResolveUser
  <2>2. DeletedAfterCredit => credits.main > 0
    BY DEF Inv, DeletedAfterCredit, AcknowledgedMeansCredited
  <2> QED BY <1>0, <1>3, <2>1, <2>2, OnlyMoves DEF ResolveUser
<1>4. CASE FindTransaction(p)
  <2>1. PICK point : GoTo(p, point) /\ point \in {"reconcile", "finalize"}
    BY <1>4 DEF FindTransaction
  <2> QED BY <1>0, <1>1, <1>4, <2>1, OnlyMoves DEF FindTransaction
<1> QED BY <1>2, <1>3, <1>4

LEMMA EnsureKeeps ==
  ASSUME Bounds, Inv, NEW p \in Executions, EnsurePending(p)
  PROVE  Inv'
<1> USE DEF EnsurePending, GoTo
<1>0. TypeOK /\ order \notin {"none", "creating"} /\ credits.main \in Nat
  BY AfterOffer DEF Inv, TypeOK, Ordering
<1>1. "refinalize" \in Points \ Ordering
  BY DEF Points, Ordering
<1>2. /\ BeforeOffer' /\ OneOrderer' /\ NoRowYet'
      /\ DoneMeansCredited' /\ ResetsAreMismatches'
  <2>1. Moves(p, "refinalize")
    BY DEF Moves
  <2>2. credits'.main \in Nat /\ credits'.main >= credits.main
    BY <1>0
  <2> QED BY <1>0, <1>1, <2>1, <2>2, MoveKeeps
<1>3. TypeOK'
  BY <1>0, <1>1 DEF TypeOK, Statuses
<1>4. CreditsMatchLedger' /\ BonusCreditedOnce' /\ BonusWithMain'
  BY DEF Inv, CreditsMatchLedger, BonusCreditedOnce, BonusWithMain
<1>5. EventsLater' /\ AcknowledgedMeansCredited'
  BY EventsKeep DEF Inv, AcknowledgedMeansCredited
<1> QED BY <1>2, <1>3, <1>4, <1>5 DEF Inv

\* A step outside createWebOrder that leaves the books alone.
LEMMA UnbookedKeeps ==
  ASSUME Inv, TypeOK', NEW p \in Executions, NEW point \in Points \ Ordering, Moves(p, point),
         order \in {"none", "creating"} => point = "idle",
         UNCHANGED <<order, ledger>>,
         point \in {"record", "acknowledge"} => credits.main > 0,
         point = "reject" => mismatches' # 0,
         UNCHANGED mismatches \/ mismatches' # 0,
         UNCHANGED event \/ order \notin {"none", "creating"},
         AcknowledgedMeansCredited'
  PROVE  Inv'
<1>1. credits.main \in Nat /\ credits' = credits /\ row' = row /\ bonus' = bonus /\ resets' = resets
  BY DEF Inv, TypeOK, ledger
<1>2. credits'.main \in Nat /\ credits'.main >= credits.main
  BY <1>1
<1>3. /\ BeforeOffer' /\ OneOrderer' /\ NoRowYet'
      /\ DoneMeansCredited' /\ ResetsAreMismatches'
  BY <1>1, <1>2, MoveKeeps
<1>4. EventsLater'
  BY DEF Inv, EventsLater
<1> QED BY <1>3, <1>4, BooksKeep DEF Inv

LEMMA VerifyKeeps ==
  ASSUME Bounds, Inv, NEW p \in Executions,
         Verify(p) \/ VerifyMismatch(p) \/ RecordSuccess(p)
  PROVE  Inv'
<1>0. TypeOK /\ {"find", "reject", "idle"} \subseteq Points \ Ordering
  BY DEF Inv, Points, Ordering
<1>1. CASE Verify(p)
  <2> USE <1>1 DEF Verify, Start
  <2>1. pc' \in [Executions -> Points] /\ TypeOK'
    BY <1>0, Zenon DEF TypeOK, ledger
  <2>2. AcknowledgedMeansCredited'
    BY DEF Inv, AcknowledgedMeansCredited, ledger
  <2> QED BY <1>0, <2>1, <2>2, UnbookedKeeps DEF Moves
<1>2. CASE VerifyMismatch(p)
  <2> USE <1>2 DEF VerifyMismatch, Start
  <2>1. pc' \in [Executions -> Points] /\ caller' \in [Executions -> {"nobody", "create", "verify", "webhook", "sweep"}]
    BY <1>0, Zenon DEF TypeOK
  <2>2. mismatches' \in 0 .. MaxMismatches /\ mismatches' # 0
    BY <1>0 DEF TypeOK, Bounds
  <2>3. TypeOK'
    BY <1>0, <2>1, <2>2 DEF TypeOK, ledger
  <2>4. AcknowledgedMeansCredited'
    BY <1>0 DEF Inv, TypeOK, AcknowledgedMeansCredited, ledger
  <2> QED BY <1>0, <2>2, <2>3, <2>4, UnbookedKeeps DEF Moves
<1>3. CASE RecordSuccess(p)
  <2> USE <1>3 DEF RecordSuccess, GoTo
  <2>1. TypeOK'
    BY <1>0 DEF TypeOK, ledger
  <2>2. AcknowledgedMeansCredited'
    BY DEF Inv, DoneMeansCredited, AcknowledgedMeansCredited, ledger
  <2> QED BY <1>0, <2>1, <2>2, UnbookedKeeps DEF Moves
<1> QED BY <1>1, <1>2, <1>3

\* The reset of a completed row is counted.
LEMMA RejectKeeps ==
  ASSUME Bounds, Inv, NEW p \in Executions, RejectTransaction(p)
  PROVE  Inv'
<1> USE DEF RejectTransaction, GoTo
<1>0. /\ TypeOK /\ order \notin {"none", "creating"} /\ credits.main \in Nat /\ resets \in Nat
      /\ "idle" \in Points \ Ordering /\ mismatches # 0
  BY AfterOffer DEF Inv, TypeOK, Points, Ordering, ResetsAreMismatches
<1>1. resets' \in Nat /\ CreditsMatchLedger'
  BY <1>0 DEF Inv, CreditsMatchLedger
<1>2. BonusCreditedOnce' /\ BonusWithMain' /\ AcknowledgedMeansCredited'
  BY DEF Inv, BonusCreditedOnce, BonusWithMain, AcknowledgedMeansCredited
<1>3. TypeOK'
  BY <1>0, <1>1 DEF TypeOK, Statuses
<1>4. /\ BeforeOffer' /\ OneOrderer' /\ NoRowYet'
      /\ DoneMeansCredited' /\ ResetsAreMismatches'
  <2>1. Moves(p, "idle") /\ credits'.main \in Nat /\ credits'.main >= credits.main
    BY <1>0 DEF Moves
  <2> QED BY <1>0, <2>1, MoveKeeps
<1>5. EventsLater'
  BY EventsKeep
<1> QED BY <1>1, <1>2, <1>3, <1>4, <1>5 DEF Inv

LEMMA WebhookKeeps ==
  ASSUME Bounds, Inv, NEW p \in Executions, NEW e \in Events,
         ReceiveWebhook(p, e) \/ RetryWebhook(p, e)
  PROVE  Inv'
<1> USE DEF ReceiveWebhook, RetryWebhook, Start
<1>0. TypeOK /\ "claim" \in Points \ Ordering
  BY DEF Inv, Points, Ordering
<1>1. order \notin {"none", "creating"}
  BY DEF Inv, EventsLater
<1>2. TypeOK'
  <2>1. pc' = [pc EXCEPT ![p] = "claim"] /\ handling' = [handling EXCEPT ![p] = e]
        /\ caller' = [caller EXCEPT ![p] = "webhook"]
    OBVIOUS
  <2>3. pc' \in [Executions -> Points] /\ handling' \in [Executions -> Events]
        /\ caller' \in [Executions -> {"nobody", "create", "verify", "webhook", "sweep"}]
    BY <1>0, <2>1 DEF TypeOK
  <2>2. event' \in [Events -> {"none", "received", "processing", "processed", "failed"}]
    BY <1>0 DEF TypeOK
  <2> QED BY <1>0, <2>2, <2>3 DEF TypeOK, ledger
<1>3. AcknowledgedMeansCredited'
  BY <1>0 DEF Inv, TypeOK, AcknowledgedMeansCredited, ledger
<1> QED BY <1>0, <1>1, <1>2, <1>3, UnbookedKeeps DEF Moves

LEMMA EventKeeps ==
  ASSUME Bounds, Inv, NEW p \in Executions,
         ClaimEvent(p) \/ AcknowledgeEvent(p) \/ FailEvent(p) \/ Sweep(p)
  PROVE  Inv'
<1>0. /\ TypeOK /\ handling[p] \in Events
      /\ {"finalize", "fail", "idle", "reconcile"} \subseteq Points \ Ordering
  BY DEF Inv, TypeOK, Points, Ordering
<1>1. order \notin {"none", "creating"}
  BY AfterOffer DEF ClaimEvent, AcknowledgeEvent, FailEvent, Sweep, PaidNoCoins, Ordering
<1>2. CASE ClaimEvent(p)
  <2> USE DEF ClaimEvent, GoTo
  <2>1. PICK point \in {"finalize", "fail", "idle"} : Moves(p, point)
    BY <1>2 DEF Moves
  <2>2. TypeOK'
    <3>1. pc' \in [Executions -> Points] /\ UNCHANGED <<caller, handling>>
      BY <1>0, <1>2 DEF TypeOK
    <3>2. event' \in [Events -> {"none", "received", "processing", "processed", "failed"}]
      BY <1>0, <1>2 DEF TypeOK
    <3>3. faults' \in 0 .. MaxFaults
      BY <1>0, <1>2 DEF TypeOK, Bounds
    <3> QED BY <1>0, <1>2, <3>1, <3>2, <3>3 DEF TypeOK, ledger
  <2>3. AcknowledgedMeansCredited'
    <3>1. \A e \in Events : event'[e] = "processed" => event[e] = "processed"
      BY <1>0, <1>2 DEF TypeOK
    <3> QED BY <1>2, <3>1 DEF Inv, AcknowledgedMeansCredited, ledger
  <2> QED BY <1>0, <1>1, <1>2, <2>1, <2>2, <2>3, UnbookedKeeps
<1>3. CASE AcknowledgeEvent(p)
  <2> USE <1>3 DEF AcknowledgeEvent, GoTo
  <2>1. TypeOK'
    BY <1>0 DEF TypeOK, ledger
  <2>2. AcknowledgedMeansCredited'
    BY DEF Inv, DoneMeansCredited, AcknowledgedMeansCredited, ledger
  <2> QED BY <1>0, <1>1, <2>1, <2>2, UnbookedKeeps DEF Moves
<1>4. CASE FailEvent(p)
  <2> USE <1>4 DEF FailEvent, GoTo
  <2>1. TypeOK'
    BY <1>0 DEF TypeOK, ledger
  <2>2. AcknowledgedMeansCredited'
    BY <1>0 DEF Inv, TypeOK, AcknowledgedMeansCredited, ledger
  <2> QED BY <1>0, <1>1, <2>1, <2>2, UnbookedKeeps DEF Moves
<1>5. CASE Sweep(p)
  <2> USE <1>5 DEF Sweep, Start
  <2>1. TypeOK'
    BY <1>0, Zenon DEF TypeOK, ledger
  <2>2. AcknowledgedMeansCredited'
    BY DEF Inv, AcknowledgedMeansCredited, ledger
  <2> QED BY <1>0, <1>1, <2>1, <2>2, UnbookedKeeps DEF Moves
<1> QED BY <1>2, <1>3, <1>4, <1>5

LEMMA OutsideKeeps ==
  ASSUME Bounds, Inv,
         Capture \/ GetCheckoutStatus \/ RecordHostedResult \/ DeleteAccount
  PROVE  Inv'
<1>0. TypeOK
  BY DEF Inv
<1>1. /\ BeforeOffer' /\ OneOrderer' /\ NoRowYet'
      /\ DoneMeansCredited' /\ ResetsAreMismatches'
      /\ CreditsMatchLedger' /\ BonusCreditedOnce' /\ BonusWithMain'
  <2>1. UNCHANGED <<pc, row, bonus, credits, resets, mismatches>>
    BY DEF Capture, GetCheckoutStatus, RecordHostedResult, DeleteAccount, locals, ledger
  <2>2. {order, order'} \cap {"none", "creating"} # {} => UNCHANGED order
    BY DEF Capture, GetCheckoutStatus, RecordHostedResult, DeleteAccount
  <2> QED BY <2>1, <2>2, StandKeeps
<1>2. TypeOK'
  BY <1>0 DEF TypeOK, Capture, GetCheckoutStatus, RecordHostedResult, DeleteAccount, locals, ledger
<1>3. EventsLater'
  BY DEF Inv, EventsLater, Capture, GetCheckoutStatus, RecordHostedResult, DeleteAccount
<1>4. AcknowledgedMeansCredited'
  <2>1. CASE GetCheckoutStatus
    <3>1. context'.status = "success" => row = "completed"
      BY <1>0, <2>1 DEF GetCheckoutStatus, TypeOK
    <3> QED BY <2>1, <3>1, CompletedCredited
            DEF Inv, AcknowledgedMeansCredited, GetCheckoutStatus, ledger
  <2>2. CASE RecordHostedResult
    BY <1>0, <2>2 DEF Inv, TypeOK, AcknowledgedMeansCredited, RecordHostedResult, ledger
  <2>3. CASE Capture \/ DeleteAccount
    BY <2>3 DEF Inv, AcknowledgedMeansCredited, Capture, DeleteAccount, ledger
  <2> QED BY <2>1, <2>2, <2>3
<1> QED BY <1>1, <1>2, <1>3, <1>4 DEF Inv

LEMMA CrashKeeps ==
  ASSUME Bounds, Inv, NEW p \in Executions, Crash(p)
  PROVE  Inv'
<1>1. "idle" \in Points \ Ordering
  BY DEF Points, Ordering
<1> QED BY <1>1, OnlyMoves DEF Crash

\* Every step keeps the invariant.
LEMMA StepInv ==
  ASSUME Bounds, Inv, Next
  PROVE  Inv'
<1>1. ASSUME NEW p \in Executions, Step(p) PROVE Inv'
  BY <1>1, OrderingKeeps, FinalizeKeeps, DecideKeeps, EnsureKeeps, VerifyKeeps, RejectKeeps,
     EventKeeps
  DEF Step
<1>2. ASSUME NEW p \in Executions,
             \/ CreateOrder(p) \/ Verify(p) \/ VerifyMismatch(p) \/ Sweep(p)
             \/ \E e \in Events : ReceiveWebhook(p, e) \/ RetryWebhook(p, e)
             \/ Crash(p)
      PROVE  Inv'
  BY <1>2, OrderingKeeps, VerifyKeeps, EventKeeps, WebhookKeeps, CrashKeeps
<1> QED BY <1>1, <1>2, OutsideKeeps DEF Next

LEMMA StutterInv == Inv /\ UNCHANGED vars => Inv'
  BY DEF Inv, vars, TypeOK, BeforeOffer, EventsLater, OneOrderer, NoRowYet, CreditsMatchLedger,
         BonusCreditedOnce, BonusWithMain, DoneMeansCredited, AcknowledgedMeansCredited,
         ResetsAreMismatches

LEMMA Invariant ==
  ASSUME Bounds
  PROVE  Spec => []Inv
<1>1. Init => Inv
  BY InitInv
<1>2. Inv /\ [Next]_vars => Inv'
  BY StepInv, StutterInv
<1> QED BY <1>1, <1>2, PTL DEF Spec

-----------------------------------------------------------------------------
\* However many verifications, webhooks, retries and sweeps overlap, the pack
\* is credited once for its completed row and once more for each time a wrong
\* signature set a completed row back to failed, and the bonus exactly when
\* its row is completed, which it is with the row of the pack
\* (finalizePaymentAtomically, payment.service.ts).
THEOREM CreditsTheorem ==
  ASSUME Bounds
  PROVE  Spec => [](CreditsMatchLedger /\ BonusCreditedOnce /\ BonusWithMain)
<1>1. Inv => CreditsMatchLedger /\ BonusCreditedOnce /\ BonusWithMain
  BY DEF Inv
<1> QED BY <1>1, Invariant, PTL

\* Without a wrong signature the pack is credited once at most, whatever
\* crashes, is delivered twice or retried.
THEOREM CreditedOnceTheorem ==
  ASSUME Bounds
  PROVE  Spec => [](mismatches = 0 => credits.main \in {0, 1})
<1>1. Inv => (mismatches = 0 => credits.main \in {0, 1})
  BY DEF Inv, ResetsAreMismatches, CreditsMatchLedger
<1> QED BY <1>1, Invariant, PTL

\* Neither the success of the checkout context nor a processed webhook is ever
\* ahead of the coins, also when the buyer has deleted the account
\* (reconcileCapturedWalletPayment, recordCheckoutResult).
THEOREM AcknowledgedTheorem ==
  ASSUME Bounds
  PROVE  Spec => []AcknowledgedMeansCredited
<1>1. Inv => AcknowledgedMeansCredited
  BY DEF Inv
<1> QED BY <1>1, Invariant, PTL

-----------------------------------------------------------------------------
(* VIP memberships *)

CONSTANTS MaxTime, MaxExtensions, MaxGrants, Duration, Floor
VARIABLES membership, cachedUntil, now, by, seen, extended, granted, revoked

V == INSTANCE Membership

VBounds ==
    /\ Duration \in Nat /\ Floor \in Nat \ {0}
    /\ MaxTime \in Nat /\ MaxExtensions \in Nat /\ MaxGrants \in Nat /\ MaxMismatches \in Nat

VPoints == {"idle", "finalize", "transaction", "bust", "processed", "cache", "uncache", "grant"}
VMemberships == [status : {"none", "active", "expired", "cancelled"}, expiry : Nat]
VSeen == [row : V!Statuses, membership : VMemberships]

VTypes ==
    /\ order \in {"none", "offered", "orphan", "captured"} /\ row \in V!Statuses
    /\ event \in {"none", "received", "processed"}
    /\ membership \in VMemberships
    /\ cachedUntil \in Nat /\ now \in 0 .. MaxTime
    /\ pc \in [Executions -> VPoints]
    /\ by \in [Executions -> {"nobody", "verify", "webhook", "reader", "admin"}]
    /\ seen \in [Executions -> VSeen]
    /\ extended \in 0 .. MaxExtensions /\ granted \in 0 .. MaxGrants
    /\ revoked \in BOOLEAN /\ mismatches \in Nat

\* Nobody finalizes before there is an order; a finalizer in its transaction
\* has not read a completed row, nor a failed one unless a signature failed.
VRowFirst ==
    /\ order = "none" => row = "none" /\ \A p \in Executions : pc[p] \notin {"finalize", "transaction"}
    /\ \A p \in Executions : pc[p] = "transaction" => seen[p].row # "completed"
    /\ mismatches = 0 => row # "failed" /\ \A p \in Executions : seen[p].row # "failed"

\* A completed row, and whoever is about to say that the purchase is done, come
\* after an extension.
VDoneLater ==
    /\ row = "completed" => extended > 0
    /\ \A p \in Executions :
          pc[p] = "processed" \/ (pc[p] = "bust" /\ by[p] = "webhook") => extended > 0

\* A grant that was computed is an administrator's.
VGrants ==
    /\ \A p \in Executions : pc[p] = "grant" =>
          by[p] = "admin" /\ seen[p].membership.status = "active" /\ granted > 0
    /\ membership.status = "none" => membership.expiry = 0
    /\ membership.status = "cancelled" => revoked

\* What the order has added to a membership it extended once at most.
VAdded == IF extended = 0 THEN 0 ELSE Duration

\* Without an administrator the end of the membership only moves on, as long as
\* the order has not extended it twice over a request that saw it lapsed.
VReads(p) ==
    pc[p] = "cache" /\ seen[p].membership.status = "active" =>
        /\ seen[p].membership.expiry > now => membership.expiry >= seen[p].membership.expiry
        /\ extended <= 1 => membership.expiry <= V!Later(seen[p].membership.expiry, now) + VAdded

VCache ==
    extended <= 2 /\ ~ revoked /\ granted = 0 =>
        /\ cachedUntil > 0 => cachedUntil < membership.expiry + Floor
        /\ membership.status = "expired" /\ extended <= 1 => membership.expiry <= now + VAdded
        /\ \A p \in Executions : VReads(p)

VInv == /\ VTypes /\ VRowFirst /\ VDoneLater /\ VGrants /\ VCache
        /\ V!ExtendedOncePerRow /\ V!CompletedHasMembership

LEMMA VInitInv == VBounds /\ V!Init => VInv
<1> SUFFICES ASSUME VBounds, V!Init PROVE VInv
  OBVIOUS
<1> USE DEF VBounds, V!NoMembership
<1>i. /\ order = "none" /\ row = "none" /\ event = "none" /\ extended = 0
      /\ membership \in VMemberships
      /\ membership.status \in {"none", "active"} /\ (membership.status = "none" => membership.expiry = 0)
      /\ cachedUntil = 0 /\ now = 0 /\ granted = 0 /\ revoked = FALSE /\ mismatches = 0
      /\ pc = [p \in Executions |-> "idle"] /\ by = [p \in Executions |-> "nobody"]
  BY DEF V!Init, VMemberships
<1>s. /\ seen \in [Executions -> VSeen]
      /\ \A p \in Executions : seen[p].row = "none" /\ seen[p].membership.expiry = 0
  BY DEF V!Init, VSeen, VMemberships, V!Statuses
<1>1. VTypes
  <2>1. /\ pc \in [Executions -> VPoints]
        /\ by \in [Executions -> {"nobody", "verify", "webhook", "reader", "admin"}]
    BY <1>i DEF VPoints
  <2>2. now \in 0 .. MaxTime /\ extended \in 0 .. MaxExtensions /\ granted \in 0 .. MaxGrants
    BY <1>i
  <2> QED BY <1>i, <1>s, <2>1, <2>2 DEF VTypes, V!Statuses
<1>3. VRowFirst /\ VDoneLater /\ VGrants
  BY <1>i, <1>s DEF VRowFirst, VDoneLater, VGrants
<1>4. VCache
  BY <1>i, <1>s DEF VCache, VReads
<1>5. V!ExtendedOncePerRow /\ V!CompletedHasMembership
  BY <1>i DEF V!ExtendedOncePerRow, V!CompletedHasMembership
<1> QED BY <1>1, <1>3, <1>4, <1>5 DEF VInv

\* The membership after a purchase or a grant.
LEMMA VExtends ==
  ASSUME VBounds, VInv
  PROVE  /\ V!Extended(membership) \in VMemberships /\ V!Extended(membership).status = "active"
         /\ V!Extended(membership) # V!NoMembership
         /\ V!Extended(membership).expiry =
               IF membership.status = "active" /\ membership.expiry > now THEN membership.expiry + Duration ELSE now + Duration
  BY DEF VInv, VTypes, VBounds, V!Extended, V!Active, V!NoMembership, VMemberships

\* Steps that leave the membership, the row, the key and the counters alone.
LEMMA VMoves ==
  ASSUME VBounds, VInv, NEW p \in Executions, NEW to \in VPoints, pc' = [pc EXCEPT ![p] = to],
         NEW who \in {"nobody", "verify", "webhook", "reader", "admin"}, by' = [by EXCEPT ![p] = who],
         NEW s \in VSeen, seen' = [seen EXCEPT ![p] = s],
         order' \in {"none", "offered", "orphan", "captured"}, order # "none" => order' # "none",
         order' = "none" => to \notin {"finalize", "transaction"},
         event' \in {"none", "received", "processed"}, event' = "processed" => extended > 0,
         to = "transaction" => s.row # "completed",
         mismatches = 0 => s.row # "failed",
         to = "processed" \/ (to = "bust" /\ who = "webhook") => extended > 0,
         to # "grant",
         to = "cache" => s.membership = membership,
         UNCHANGED <<row, membership, cachedUntil, now, extended, granted, revoked, mismatches>>
  PROVE  VInv'
<1>0. /\ VTypes /\ VRowFirst /\ VDoneLater /\ VGrants /\ VCache
      /\ V!ExtendedOncePerRow /\ V!CompletedHasMembership
  BY DEF VInv
<1>1. /\ pc' \in [Executions -> VPoints] /\ pc'[p] = to /\ \A q \in Executions \ {p} : pc'[q] = pc[q]
      /\ by' \in [Executions -> {"nobody", "verify", "webhook", "reader", "admin"}] /\ by'[p] = who
      /\ \A q \in Executions \ {p} : by'[q] = by[q]
      /\ seen' \in [Executions -> VSeen] /\ seen'[p] = s /\ \A q \in Executions \ {p} : seen'[q] = seen[q]
  BY <1>0 DEF VTypes
<1>2. VTypes'
  BY <1>0, <1>1 DEF VTypes
<1>4. VRowFirst'
  BY <1>0, <1>1 DEF VRowFirst
<1>5. VDoneLater'
  BY <1>0, <1>1 DEF VDoneLater
<1>6. VGrants'
  BY <1>0, <1>1 DEF VGrants
<1>7. VCache'
  <2> SUFFICES ASSUME extended <= 2, ~ revoked, granted = 0 PROVE VCache'
    BY DEF VCache
  <2>1. membership.expiry \in Nat /\ now \in Nat /\ extended \in Nat /\ VAdded \in Nat /\ VAdded' = VAdded
    BY <1>0 DEF VTypes, VMemberships, VAdded, VBounds
  <2>2. VReads(p)'
    BY <1>1, <2>1 DEF VReads, V!Later
  <2>3. \A q \in Executions \ {p} : VReads(q)'
    BY <1>0, <1>1, <2>1 DEF VCache, VReads, V!Later
  <2> QED BY <1>0, <2>1, <2>2, <2>3 DEF VCache
<1>8. V!ExtendedOncePerRow' /\ V!CompletedHasMembership'
  BY <1>0 DEF V!ExtendedOncePerRow, V!CompletedHasMembership, V!NoMembership
<1> QED BY <1>2, <1>4, <1>5, <1>6, <1>7, <1>8 DEF VInv

\* An execution moves and keeps what it has read.
LEMMA VGoes ==
  ASSUME VBounds, VInv, NEW p \in Executions, NEW to \in VPoints, pc' = [pc EXCEPT ![p] = to],
         \/ by' = by
         \/ \E who \in {"verify", "webhook", "reader", "admin"} :
               by' = [by EXCEPT ![p] = who] /\ ~ (to = "bust" /\ who = "webhook"),
         seen' = seen, order' = order, event' \in {"none", "received", "processed"},
         event' = "processed" => extended > 0,
         to \in {"idle", "finalize", "bust", "processed"},
         to = "finalize" => order # "none",
         to = "processed" \/ (to = "bust" /\ by[p] = "webhook" /\ by' = by) => extended > 0,
         UNCHANGED <<row, membership, cachedUntil, now, extended, granted, revoked, mismatches>>
  PROVE  VInv'
<1>0. VTypes /\ VRowFirst
  BY DEF VInv
<1>1. PICK who \in {"nobody", "verify", "webhook", "reader", "admin"} :
        by' = [by EXCEPT ![p] = who] /\ (to = "bust" /\ who = "webhook" => extended > 0)
  BY <1>0 DEF VTypes
<1>2. PICK s \in VSeen : s = seen[p]
  BY <1>0 DEF VTypes
<1>3. seen' = [seen EXCEPT ![p] = s]
  BY <1>0, <1>2 DEF VTypes
<1>4. mismatches = 0 => s.row # "failed"
  BY <1>0, <1>2 DEF VRowFirst
<1>5. order' \in {"none", "offered", "orphan", "captured"}
  BY <1>0 DEF VTypes
<1>6. /\ to \notin {"transaction", "grant", "cache"}
      /\ order # "none" => order' # "none"
      /\ order' = "none" => to \notin {"finalize", "transaction"}
  OBVIOUS
<1>7. /\ to = "transaction" => s.row # "completed"
      /\ to = "processed" \/ (to = "bust" /\ who = "webhook") => extended > 0
      /\ to # "grant"
      /\ to = "cache" => s.membership = membership
  BY <1>1, <1>6
<1>8. by' = [by EXCEPT ![p] = who]
  BY <1>1
<1>9. /\ pc' = [pc EXCEPT ![p] = to] /\ to \in VPoints
      /\ event' \in {"none", "received", "processed"} /\ (event' = "processed" => extended > 0)
      /\ UNCHANGED <<row, membership, cachedUntil, now, extended, granted, revoked, mismatches>>
  OBVIOUS
<1> QED BY ONLY VBounds, VInv, <1>3, <1>4, <1>5, <1>6, <1>7, <1>8, <1>9, VMoves

LEMMA VRequests ==
  ASSUME VBounds, VInv, NEW p \in Executions,
         V!Verify(p) \/ V!ReceiveWebhook(p) \/ V!Abort(p) \/ V!MarkProcessed(p) \/ V!Crash(p)
  PROVE  VInv'
<1>0. VTypes /\ VDoneLater /\ V!CompletedHasMembership
  BY DEF VInv
<1> USE DEF V!purchase, V!bounds, V!Start, V!GoTo, VPoints
<1>1. event \in {"none", "received", "processed"} /\ (event = "processed" => extended > 0)
  BY <1>0 DEF VTypes, V!CompletedHasMembership
<1>2. CASE V!Verify(p)
  <2>1. /\ pc' = [pc EXCEPT ![p] = "finalize"] /\ by' = [by EXCEPT ![p] = "verify"] /\ order = "captured"
        /\ UNCHANGED <<seen, order, event, row, membership, cachedUntil, now, extended, granted, revoked, mismatches>>
    BY <1>2 DEF V!Verify
  <2> QED BY <1>1, <2>1, VGoes
<1>3. CASE V!ReceiveWebhook(p)
  <2>1. /\ pc' = [pc EXCEPT ![p] = "finalize"] /\ by' = [by EXCEPT ![p] = "webhook"] /\ order = "captured"
        /\ event' = "received"
        /\ UNCHANGED <<seen, order, row, membership, cachedUntil, now, extended, granted, revoked, mismatches>>
    BY <1>3 DEF V!ReceiveWebhook
  <2> QED BY <2>1, VGoes
<1>4. CASE V!Abort(p)
  <2>1. /\ pc' = [pc EXCEPT ![p] = "idle"] /\ by' = by
        /\ UNCHANGED <<seen, order, event, row, membership, cachedUntil, now, extended, granted, revoked, mismatches>>
    BY <1>4 DEF V!Abort
  <2> QED BY <1>1, <2>1, VGoes
<1>5. CASE V!MarkProcessed(p)
  <2>1. /\ pc[p] = "processed" /\ pc' = [pc EXCEPT ![p] = "idle"] /\ by' = by /\ event' = "processed"
        /\ UNCHANGED <<seen, order, row, membership, cachedUntil, now, extended, granted, revoked, mismatches>>
    BY <1>5 DEF V!MarkProcessed
  <2>2. extended > 0
    BY <1>0, <2>1 DEF VDoneLater
  <2> QED BY <2>1, <2>2, VGoes
<1>6. CASE V!Crash(p)
  <2>1. /\ pc' = [pc EXCEPT ![p] = "idle"] /\ by' = by
        /\ UNCHANGED <<seen, order, event, row, membership, cachedUntil, now, extended, granted, revoked, mismatches>>
    BY <1>6 DEF V!Crash
  <2> QED BY <1>1, <2>1, VGoes
<1> QED BY <1>2, <1>3, <1>4, <1>5, <1>6

LEMMA VReadsRow ==
  ASSUME VBounds, VInv, NEW p \in Executions, V!ReadRow(p)
  PROVE  VInv'
<1>0. VTypes /\ VRowFirst /\ VDoneLater /\ V!CompletedHasMembership
  BY DEF VInv
<1>1. PICK s \in VSeen : /\ s.row = row /\ s.membership = seen[p].membership
                         /\ seen' = [seen EXCEPT ![p] = s]
  <2>1. seen \in [Executions -> VSeen] /\ row \in V!Statuses
    BY <1>0 DEF VTypes
  <2>2. [seen[p] EXCEPT !.row = row] \in VSeen /\ [seen[p] EXCEPT !.row = row].row = row
        /\ [seen[p] EXCEPT !.row = row].membership = seen[p].membership
    BY <2>1 DEF VSeen
  <2>3. seen' = [seen EXCEPT ![p] = [seen[p] EXCEPT !.row = row]]
    BY <2>1 DEF V!ReadRow
  <2> QED BY <2>2, <2>3
<1>2. PICK to \in {"transaction", "processed", "idle"} :
        /\ pc' = [pc EXCEPT ![p] = to] /\ pc[p] = "finalize"
        /\ to = "transaction" => row # "completed"
        /\ to = "processed" => row = "completed"
  BY DEF V!ReadRow, V!GoTo, V!Done
<1>3. PICK who \in {"nobody", "verify", "webhook", "reader", "admin"} : by' = [by EXCEPT ![p] = who]
  BY <1>0 DEF V!ReadRow, V!GoTo, VTypes
<1>4. UNCHANGED <<order, event, row, membership, cachedUntil, now, extended, granted, revoked, mismatches>>
  BY DEF V!ReadRow, V!purchase, V!bounds
<1>5. /\ order' \in {"none", "offered", "orphan", "captured"} /\ order # "none" /\ order' # "none"
      /\ event' \in {"none", "received", "processed"} /\ (event' = "processed" => extended > 0)
  BY <1>0, <1>2, <1>4 DEF VTypes, VRowFirst, V!CompletedHasMembership
<1>6. /\ mismatches = 0 => s.row # "failed"
      /\ to = "transaction" => s.row # "completed"
      /\ to = "processed" => extended > 0
  BY <1>0, <1>1, <1>2 DEF VRowFirst, VDoneLater
<1>7. to \in VPoints /\ to \notin {"grant", "cache", "bust"}
  BY DEF VPoints
<1> QED BY <1>1, <1>2, <1>3, <1>4, <1>5, <1>6, <1>7, VMoves

\* isVipActive and the first half of a grant.
LEMMA VReadsMembership ==
  ASSUME VBounds, VInv, NEW p \in Executions, V!ReadMembership(p)
  PROVE  VInv'
<1>0. VTypes /\ VRowFirst /\ V!CompletedHasMembership
  BY DEF VInv
<1>1. PICK s \in VSeen : s.row = seen[p].row /\ s.membership = membership /\ seen' = [seen EXCEPT ![p] = s]
  <2>1. seen \in [Executions -> VSeen] /\ membership \in VMemberships
    BY <1>0 DEF VTypes
  <2>2. [seen[p] EXCEPT !.membership = membership] \in VSeen
        /\ [seen[p] EXCEPT !.membership = membership].row = seen[p].row
        /\ [seen[p] EXCEPT !.membership = membership].membership = membership
    BY <2>1 DEF VSeen
  <2>3. seen' = [seen EXCEPT ![p] = [seen[p] EXCEPT !.membership = membership]]
    BY <2>1 DEF V!ReadMembership
  <2> QED BY <2>2, <2>3
<1>2. /\ pc' = [pc EXCEPT ![p] = "cache"] /\ by' = [by EXCEPT ![p] = "reader"] /\ "cache" \in VPoints
      /\ UNCHANGED <<order, event, row, membership, cachedUntil, now, extended, granted, revoked, mismatches>>
  BY DEF V!ReadMembership, V!Start, V!purchase, V!bounds, VPoints
<1>3. /\ order' \in {"none", "offered", "orphan", "captured"} /\ (order # "none" => order' # "none")
      /\ event' \in {"none", "received", "processed"} /\ (event' = "processed" => extended > 0)
      /\ mismatches = 0 => s.row # "failed"
  BY <1>0, <1>1, <1>2 DEF VTypes, VRowFirst, V!CompletedHasMembership
<1> QED BY <1>1, <1>2, <1>3, VMoves

\* A step of an execution that writes the membership or the key; the row, the
\* order and the events stay.
LEMMA VWrites ==
  ASSUME VBounds, VInv, NEW p \in Executions, NEW to \in VPoints, pc' = [pc EXCEPT ![p] = to],
         by' \in [Executions -> {"nobody", "verify", "webhook", "reader", "admin"}],
         \A q \in Executions \ {p} : by'[q] = by[q],
         to \notin {"finalize", "transaction", "grant"},
         to = "processed" \/ (to = "bust" /\ by'[p] = "webhook") => extended > 0,
         membership' \in VMemberships,
         membership # V!NoMembership => membership' # V!NoMembership,
         membership'.status = "none" => membership'.expiry = 0,
         membership'.status = "cancelled" => revoked',
         cachedUntil' \in Nat,
         revoked' \in BOOLEAN, VCache',
         UNCHANGED <<order, event, row, seen, now, extended, granted, mismatches>>
  PROVE  VInv'
<1>0. /\ VTypes /\ VRowFirst /\ VDoneLater /\ VGrants
      /\ V!ExtendedOncePerRow /\ V!CompletedHasMembership
  BY DEF VInv
<1>1. /\ pc' \in [Executions -> VPoints] /\ pc'[p] = to /\ \A q \in Executions \ {p} : pc'[q] = pc[q]
  BY <1>0 DEF VTypes
<1>2. VTypes'
  BY <1>0, <1>1 DEF VTypes
<1>4. VRowFirst' /\ VDoneLater'
  BY <1>0, <1>1 DEF VRowFirst, VDoneLater
<1>5. VGrants'
  BY <1>0, <1>1 DEF VGrants
<1>6. V!ExtendedOncePerRow' /\ V!CompletedHasMembership'
  BY <1>0 DEF V!ExtendedOncePerRow, V!CompletedHasMembership, V!NoMembership
<1> QED BY <1>2, <1>4, <1>5, <1>6 DEF VInv

\* What the cache invariant keeps when the end of the membership does not move
\* and no execution begins to read it.
LEMMA VCacheStays ==
  ASSUME VBounds, VInv, NEW p \in Executions, NEW to \in VPoints, pc' = [pc EXCEPT ![p] = to], to # "cache",
         membership'.expiry = membership.expiry,
         \/ membership'.status = membership.status
         \/ pc[p] = "cache" /\ V!Lapsed(seen[p].membership),
         cachedUntil' \in {cachedUntil, 0}
            \/ (pc[p] = "cache" /\ cachedUntil' = V!LivesUntil(seen[p].membership)),
         UNCHANGED <<seen, now, extended, granted, revoked>>
  PROVE  VCache'
<1>0. VTypes /\ VCache
  BY DEF VInv
<1>1. /\ pc'[p] = to /\ \A q \in Executions \ {p} : pc'[q] = pc[q]
  BY <1>0 DEF VTypes
<1>2. /\ now \in Nat /\ extended \in Nat /\ membership.expiry \in Nat /\ VAdded \in Nat /\ VAdded' = VAdded
      /\ seen[p].membership.expiry \in Nat /\ Floor \in Nat \ {0}
  BY <1>0 DEF VTypes, VMemberships, VSeen, VAdded, VBounds
<1> SUFFICES ASSUME extended <= 2, ~ revoked, granted = 0 PROVE VCache'
  BY DEF VCache
<1>3. \A q \in Executions : VReads(q)
  BY <1>0 DEF VCache
<1>4. \A q \in Executions : VReads(q)'
  BY <1>1, <1>2, <1>3 DEF VReads, V!Later
<1>5. cachedUntil' > 0 => cachedUntil' < membership.expiry + Floor
  BY <1>0, <1>2, <1>3 DEF VCache, VReads, V!LivesUntil, V!Active, V!Later
<1>6. membership'.status = "expired" /\ extended <= 1 => membership.expiry <= now + VAdded
  BY <1>0, <1>2, <1>3 DEF VCache, VReads, V!Lapsed, V!Later
<1> QED BY <1>2, <1>4, <1>5, <1>6 DEF VCache

LEMMA VCaches ==
  ASSUME VBounds, VInv, NEW p \in Executions,
         V!BustCache(p) \/ V!MarkExpired(p) \/ V!Uncache(p) \/ V!WriteCache(p)
  PROVE  VInv'
<1>0. VTypes /\ VDoneLater /\ VGrants
  BY DEF VInv
<1>1. /\ by' = by /\ by \in [Executions -> {"nobody", "verify", "webhook", "reader", "admin"}]
      /\ UNCHANGED <<order, event, row, seen, now, extended, granted, mismatches, revoked>>
  BY <1>0 DEF V!BustCache, V!MarkExpired, V!Uncache, V!WriteCache, V!GoTo, V!purchase, V!bounds, VTypes
<1>2. /\ membership \in VMemberships /\ seen[p].membership \in VMemberships
      /\ membership.status = "none" => membership.expiry = 0
      /\ membership.status = "cancelled" => revoked
      /\ cachedUntil \in Nat /\ revoked \in BOOLEAN /\ now \in Nat /\ Floor \in Nat
  BY <1>0 DEF VTypes, VGrants, VBounds, VSeen
<1>3. CASE V!BustCache(p) \/ V!Uncache(p)
  <2>1. PICK to \in {"processed", "idle"} :
          /\ pc' = [pc EXCEPT ![p] = to] /\ (to = "processed" => pc[p] = "bust" /\ by[p] = "webhook")
    BY <1>3 DEF V!BustCache, V!Uncache, V!GoTo, V!Done
  <2>2. cachedUntil' = 0 /\ membership' = membership
    BY <1>3 DEF V!BustCache, V!Uncache
  <2>3. to \in VPoints /\ to # "cache" /\ (to = "processed" => extended > 0)
    BY <1>0, <2>1 DEF VPoints, VDoneLater
  <2>4. VCache'
    BY <1>1, <2>1, <2>2, <2>3, VCacheStays
  <2> QED BY <1>1, <1>2, <2>1, <2>2, <2>3, <2>4, VWrites
<1>4. CASE V!MarkExpired(p)
  <2>1. /\ pc[p] = "cache" /\ pc' = [pc EXCEPT ![p] = "uncache"] /\ "uncache" \in VPoints
        /\ V!Lapsed(seen[p].membership)
        /\ membership' = [membership EXCEPT !.status = "expired"] /\ cachedUntil' = cachedUntil
    BY <1>4 DEF V!MarkExpired, V!GoTo, VPoints
  <2>2. /\ membership' \in VMemberships /\ membership'.expiry = membership.expiry
        /\ membership'.status = "expired" /\ membership' # V!NoMembership
    BY <1>2, <2>1 DEF VMemberships, V!NoMembership
  <2>3. VCache'
    BY <1>1, <2>1, <2>2, VCacheStays
  <2> QED BY <1>1, <1>2, <2>1, <2>2, <2>3, VWrites
<1>5. CASE V!WriteCache(p)
  <2>1. /\ pc[p] = "cache" /\ pc' = [pc EXCEPT ![p] = "idle"] /\ "idle" \in VPoints
        /\ membership' = membership /\ cachedUntil' = V!LivesUntil(seen[p].membership)
    BY <1>5 DEF V!WriteCache, V!GoTo, VPoints
  <2>2. cachedUntil' \in Nat
    BY <1>2, <2>1 DEF V!LivesUntil, V!Later, VMemberships
  <2>3. VCache'
    BY <1>1, <2>1, VCacheStays
  <2> QED BY <1>1, <1>2, <2>1, <2>2, <2>3, VWrites
<1> QED BY <1>3, <1>4, <1>5

\* The administrator.
LEMMA VAdministers ==
  ASSUME VBounds, VInv, NEW p \in Executions, V!Grant(p) \/ V!Revoke(p)
  PROVE  VInv'
<1>0. VTypes /\ VDoneLater /\ VGrants
  BY DEF VInv
<1>1. /\ UNCHANGED <<order, event, row, seen, now, extended, granted, mismatches, cachedUntil>>
      /\ cachedUntil \in Nat /\ revoked \in BOOLEAN
      /\ now \in 0 .. MaxTime /\ extended \in Nat /\ granted \in Nat
  BY <1>0 DEF V!Grant, V!Revoke, V!purchase, VTypes
<1>2. CASE V!Grant(p)
  <2>1. /\ pc[p] = "grant" /\ pc' = [pc EXCEPT ![p] = "bust"] /\ by' = by /\ revoked' = revoked
        /\ membership' = seen[p].membership /\ "bust" \in VPoints
    BY <1>2 DEF V!Grant, V!GoTo, VPoints
  <2>2. /\ by[p] = "admin" /\ membership'.status = "active" /\ granted > 0
        /\ by' \in [Executions -> {"nobody", "verify", "webhook", "reader", "admin"}]
        /\ membership' \in VMemberships
    BY <1>0, <2>1 DEF VTypes, VGrants, VSeen
  <2>3. membership' # V!NoMembership
    BY <2>2 DEF V!NoMembership
  <2>4. VCache'
    BY <1>1, <2>2 DEF VCache
  <2> QED BY <1>1, <2>1, <2>2, <2>3, <2>4, VWrites
<1>3. CASE V!Revoke(p)
  <2>1. /\ pc' = [pc EXCEPT ![p] = "bust"] /\ by' = [by EXCEPT ![p] = "admin"] /\ revoked' = TRUE
        /\ membership' = [status |-> "cancelled", expiry |-> now] /\ "bust" \in VPoints
    BY <1>3 DEF V!Revoke, V!Start, VPoints
  <2>2. /\ by'[p] = "admin" /\ \A q \in Executions \ {p} : by'[q] = by[q]
        /\ by' \in [Executions -> {"nobody", "verify", "webhook", "reader", "admin"}]
    BY <1>0, <2>1 DEF VTypes
  <2>3. /\ membership' \in VMemberships
        /\ membership'.status = "cancelled" /\ membership' # V!NoMembership
    BY <1>1, <2>1 DEF VMemberships, V!NoMembership, VBounds
  <2>4. VCache'
    BY <2>1 DEF VCache
  <2> QED BY <1>1, <2>1, <2>2, <2>3, <2>4, VWrites
<1> QED BY <1>2, <1>3

LEMMA VReadsGrant ==
  ASSUME VBounds, VInv, NEW p \in Executions, V!ReadGrant(p)
  PROVE  VInv'
<1>0. /\ VTypes /\ VRowFirst /\ VDoneLater /\ VGrants
      /\ V!ExtendedOncePerRow /\ V!CompletedHasMembership
  BY DEF VInv
<1> DEFINE m == V!Extended(membership)
<1>1. m \in VMemberships /\ m.status = "active"
  BY VExtends
<1> HIDE DEF m
<1>2. PICK s \in VSeen : s.row = seen[p].row /\ s.membership = m /\ seen' = [seen EXCEPT ![p] = s]
  <2>1. seen \in [Executions -> VSeen]
    BY <1>0 DEF VTypes
  <2>2. [seen[p] EXCEPT !.membership = m] \in VSeen /\ [seen[p] EXCEPT !.membership = m].row = seen[p].row
        /\ [seen[p] EXCEPT !.membership = m].membership = m
    BY <1>1, <2>1 DEF VSeen
  <2>3. seen' = [seen EXCEPT ![p] = [seen[p] EXCEPT !.membership = m]]
    BY <2>1 DEF V!ReadGrant, m
  <2> QED BY <2>2, <2>3
<1>3. /\ pc' = [pc EXCEPT ![p] = "grant"] /\ by' = [by EXCEPT ![p] = "admin"]
      /\ granted' = granted + 1 /\ granted < MaxGrants
      /\ UNCHANGED <<order, event, row, membership, cachedUntil, now, extended, revoked, mismatches>>
  BY DEF V!ReadGrant, V!Start, V!purchase
<1>4. /\ pc' \in [Executions -> VPoints] /\ pc'[p] = "grant" /\ \A q \in Executions \ {p} : pc'[q] = pc[q]
      /\ by' \in [Executions -> {"nobody", "verify", "webhook", "reader", "admin"}] /\ by'[p] = "admin"
      /\ \A q \in Executions \ {p} : by'[q] = by[q]
      /\ seen' \in [Executions -> VSeen] /\ seen'[p] = s /\ \A q \in Executions \ {p} : seen'[q] = seen[q]
  BY <1>0, <1>2, <1>3 DEF VTypes, VPoints
<1>5. granted' \in 0 .. MaxGrants /\ granted' > 0 /\ granted \in Nat /\ extended \in Nat
  BY <1>0, <1>3 DEF VTypes, VBounds
<1>6. VTypes'
  BY <1>0, <1>3, <1>4, <1>5 DEF VTypes
<1>8. VRowFirst' /\ VDoneLater'
  BY <1>0, <1>2, <1>3, <1>4 DEF VRowFirst, VDoneLater
<1>9. VGrants'
  BY <1>0, <1>1, <1>2, <1>3, <1>4, <1>5 DEF VGrants
<1>10. VCache'
  BY <1>5 DEF VCache
<1>11. V!ExtendedOncePerRow' /\ V!CompletedHasMembership'
  BY <1>0, <1>3 DEF V!ExtendedOncePerRow, V!CompletedHasMembership, V!NoMembership
<1> QED BY <1>6, <1>8, <1>9, <1>10, <1>11 DEF VInv

\* The transaction of a purchase.  While the order has extended the membership
\* once at most, one that is marked expired ends within one duration, so its new
\* end is not before the old one.
LEMMA VCommits ==
  ASSUME VBounds, VInv, NEW p \in Executions, V!Commit(p)
  PROVE  VInv'
<1>0. /\ VTypes /\ VRowFirst /\ VDoneLater /\ VGrants /\ VCache
      /\ V!ExtendedOncePerRow /\ V!CompletedHasMembership
  BY DEF VInv
<1>1. /\ pc[p] = "transaction" /\ pc' = [pc EXCEPT ![p] = "bust"]
      /\ seen[p].row # "pending" /\ (seen[p].row = "none" => row = "none")
      /\ row' = IF seen[p].row = "none" THEN "completed" ELSE row
      /\ extended' = extended + 1 /\ extended < MaxExtensions
      /\ UNCHANGED <<by, order, event, cachedUntil, now, seen, granted, revoked, mismatches>>
  BY DEF V!Commit, V!GoTo, V!bounds
<1>2. /\ membership' \in VMemberships /\ membership'.status = "active" /\ membership' # V!NoMembership
      /\ membership'.expiry =
            IF membership.status = "active" /\ membership.expiry > now THEN membership.expiry + Duration ELSE now + Duration
  BY VExtends DEF V!Commit
<1>3. /\ pc' \in [Executions -> VPoints] /\ pc'[p] = "bust" /\ \A q \in Executions \ {p} : pc'[q] = pc[q]
  BY <1>0, <1>1 DEF VTypes, VPoints
<1>4. /\ extended' \in 0 .. MaxExtensions /\ extended' > 0 /\ extended \in Nat /\ granted \in Nat
      /\ Duration \in Nat /\ Floor \in Nat /\ now \in Nat /\ membership.expiry \in Nat /\ cachedUntil \in Nat
      /\ \A q \in Executions : seen[q].membership.expiry \in Nat
  BY <1>0, <1>1 DEF VTypes, VBounds, VSeen, VMemberships
<1>5. row' \in V!Statuses
  BY <1>0, <1>1 DEF VTypes, V!Statuses
<1>6. VTypes'
  BY <1>0, <1>1, <1>2, <1>3, <1>4, <1>5 DEF VTypes
<1>8. order # "none" /\ (mismatches = 0 => seen[p].row = "none")
  BY <1>0, <1>1 DEF VRowFirst, VTypes, VSeen, V!Statuses
<1>9. VRowFirst'
  BY <1>0, <1>1, <1>3, <1>8 DEF VRowFirst
<1>10. VDoneLater'
  BY <1>4 DEF VDoneLater
<1>11. VGrants'
  BY <1>0, <1>1, <1>2, <1>3 DEF VGrants
<1>12. VCache'
  <2> SUFFICES ASSUME extended' <= 2, ~ revoked', granted' = 0 PROVE VCache'
    BY DEF VCache
  <2>1. extended <= 1 /\ extended <= 2 /\ ~ revoked /\ granted = 0
    BY <1>1, <1>4
  <2>2. /\ cachedUntil > 0 => cachedUntil < membership.expiry + Floor
        /\ membership.status = "expired" => membership.expiry <= now + VAdded
        /\ \A q \in Executions : VReads(q)
    BY <1>0, <2>1 DEF VCache
  <2>3. membership.expiry > now => membership'.expiry >= membership.expiry
    <3>1. membership.status \in {"none", "active", "expired"}
      BY <1>0, <2>1 DEF VTypes, VMemberships, VGrants
    <3>2. membership.status = "none" => membership.expiry = 0
      BY <1>0 DEF VGrants
    <3> QED BY <1>2, <1>4, <2>1, <2>2, <3>1, <3>2 DEF VAdded
  <2>4. membership'.expiry >= now /\ membership'.expiry >= membership.expiry
    BY <1>2, <1>4, <2>3
  <2>5. cachedUntil' > 0 => cachedUntil' < membership'.expiry + Floor
    BY <1>1, <1>4, <2>2, <2>4, <1>2 DEF VMemberships
  <2>6. ASSUME NEW q \in Executions PROVE VReads(q)'
    <3> SUFFICES ASSUME pc'[q] = "cache", seen[q].membership.status = "active" PROVE VReads(q)'
      BY <1>1 DEF VReads
    <3>1. pc[q] = "cache"
      BY <1>3
    <3>2. seen[q].membership.expiry > now => membership'.expiry >= seen[q].membership.expiry
      BY <1>2, <1>4, <2>2, <2>4, <3>1 DEF VReads, VMemberships
    <3>3. extended' <= 1 => membership'.expiry <= V!Later(seen[q].membership.expiry, now) + VAdded'
      <4>1. extended' <= 1 => extended = 0 /\ VAdded = 0 /\ VAdded' = Duration
        BY <1>1, <1>4 DEF VAdded
      <4> QED BY <1>2, <1>4, <2>2, <3>1, <4>1 DEF VReads, V!Later
    <3> QED BY <1>1, <3>2, <3>3 DEF VReads
  <2> QED BY <1>2, <2>5, <2>6 DEF VCache
<1>13. V!ExtendedOncePerRow'
  BY <1>0, <1>1, <1>4, <1>8 DEF V!ExtendedOncePerRow
<1>14. V!CompletedHasMembership'
  BY <1>2, <1>4 DEF V!CompletedHasMembership, V!NoMembership
<1> QED BY <1>6, <1>9, <1>10, <1>11, <1>12, <1>13, <1>14 DEF VInv

\* The order, a signature that fails the row, and the clock.
LEMMA VHappens ==
  ASSUME VBounds, VInv, (\E p \in Executions : V!CreateOrder(p) \/ V!VerifyMismatch(p)) \/ V!Capture \/ V!Tick
  PROVE  VInv'
<1>0. /\ VTypes /\ VRowFirst /\ VDoneLater /\ VGrants /\ VCache
      /\ V!ExtendedOncePerRow /\ V!CompletedHasMembership
  BY DEF VInv
<1>t. /\ now \in 0 .. MaxTime /\ extended \in Nat /\ membership.expiry \in Nat /\ cachedUntil \in Nat
      /\ mismatches \in Nat
  BY <1>0 DEF VTypes, VMemberships
<1>1. CASE (\E p \in Executions : V!CreateOrder(p)) \/ V!Capture
  <2>1. /\ UNCHANGED <<event, extended, membership, cachedUntil, now, pc, by, seen, granted, revoked, mismatches>>
        /\ order' \in {"offered", "orphan", "captured"}
        /\ row' = row \/ (order = "none" /\ row' = "pending")
    BY <1>1 DEF V!CreateOrder, V!Capture, V!bounds
  <2>2. row' \in V!Statuses /\ (row' = "completed" <=> row = "completed") /\ (row' = "failed" => row = "failed")
    BY <1>0, <2>1 DEF VTypes, VRowFirst, V!Statuses
  <2>3. VTypes'
    BY <1>0, <2>1, <2>2 DEF VTypes
  <2>4. VRowFirst' /\ VDoneLater' /\ VGrants'
    BY <1>0, <2>1, <2>2 DEF VRowFirst, VDoneLater, VGrants
  <2>5. VCache'
    BY <1>0, <2>1 DEF VCache, VReads, VAdded
  <2>6. V!ExtendedOncePerRow' /\ V!CompletedHasMembership'
    BY <1>0, <2>1, <2>2 DEF V!ExtendedOncePerRow, V!CompletedHasMembership, V!NoMembership
  <2> QED BY <2>3, <2>4, <2>5, <2>6 DEF VInv
<1>2. CASE \E p \in Executions : V!VerifyMismatch(p)
  <2>1. /\ UNCHANGED <<order, event, extended, membership, cachedUntil, now, pc, by, seen, granted, revoked>>
        /\ mismatches' = mismatches + 1 /\ (row' = row \/ row' = "failed") /\ order # "none"
    BY <1>2 DEF V!VerifyMismatch
  <2>2. row' \in V!Statuses /\ mismatches' \in Nat /\ mismatches' # 0
    BY <1>0, <1>t, <2>1 DEF VTypes, V!Statuses
  <2>3. VTypes'
    BY <1>0, <2>1, <2>2 DEF VTypes
  <2>4. VRowFirst' /\ VDoneLater' /\ VGrants'
    BY <1>0, <2>1, <2>2 DEF VRowFirst, VDoneLater, VGrants
  <2>5. VCache'
    BY <1>0, <2>1 DEF VCache, VReads, VAdded
  <2>6. V!ExtendedOncePerRow' /\ V!CompletedHasMembership'
    BY <1>0, <2>1, <2>2 DEF V!ExtendedOncePerRow, V!CompletedHasMembership, V!NoMembership
  <2> QED BY <2>3, <2>4, <2>5, <2>6 DEF VInv
<1>3. CASE V!Tick
  <2>1. /\ UNCHANGED <<order, row, event, extended, membership, cachedUntil, pc, by, seen, granted, revoked, mismatches>>
        /\ now' = now + 1 /\ now < MaxTime
    BY <1>3 DEF V!Tick, V!purchase, V!bounds
  <2>2. now' \in 0 .. MaxTime /\ now' >= now
    BY <1>t, <2>1 DEF VBounds
  <2>3. VTypes'
    BY <1>0, <2>1, <2>2 DEF VTypes
  <2>4. VRowFirst' /\ VDoneLater' /\ VGrants'
    BY <1>0, <2>1 DEF VRowFirst, VDoneLater, VGrants
  <2>5. VCache'
    <3> SUFFICES ASSUME extended <= 2, ~ revoked, granted = 0 PROVE VCache'
      BY <2>1 DEF VCache
    <3>1. /\ \A q \in Executions : seen[q].membership.expiry \in Nat
          /\ VAdded \in Nat /\ VAdded' = VAdded
      BY <1>0, <2>1 DEF VTypes, VSeen, VMemberships, VAdded, VBounds
    <3>2. membership.status = "expired" /\ extended <= 1 => membership.expiry <= now' + VAdded
      BY <1>0, <1>t, <2>1, <3>1 DEF VCache
    <3>3. ASSUME NEW q \in Executions PROVE VReads(q)'
      <4>1. VReads(q)
        BY <1>0 DEF VCache
      <4> QED BY <1>t, <2>1, <3>1, <4>1 DEF VReads, V!Later
    <3> QED BY <1>0, <2>1, <3>1, <3>2, <3>3 DEF VCache
  <2>6. V!ExtendedOncePerRow' /\ V!CompletedHasMembership'
    BY <1>0, <2>1 DEF V!ExtendedOncePerRow, V!CompletedHasMembership, V!NoMembership
  <2> QED BY <2>3, <2>4, <2>5, <2>6 DEF VInv
<1> QED BY <1>1, <1>2, <1>3

LEMMA VStepInv == VBounds /\ VInv /\ V!Next => VInv'
<1> SUFFICES ASSUME VBounds, VInv, V!Next PROVE VInv'
  OBVIOUS
<1>1. CASE (\E p \in Executions : V!CreateOrder(p) \/ V!VerifyMismatch(p)) \/ V!Capture \/ V!Tick
  BY <1>1, VHappens
<1>2. ASSUME NEW p \in Executions,
             \/ V!Verify(p) \/ V!ReceiveWebhook(p) \/ V!ReadMembership(p) \/ V!ReadGrant(p) \/ V!Revoke(p)
             \/ V!Step(p) \/ V!Crash(p)
      PROVE  VInv'
  BY <1>2, VRequests, VReadsRow, VReadsMembership, VReadsGrant, VCaches, VAdministers, VCommits DEF V!Step
<1> QED BY <1>1, <1>2 DEF V!Next

LEMMA VStutterInv == VInv /\ UNCHANGED V!vars => VInv'
<1> SUFFICES ASSUME VInv, UNCHANGED V!vars PROVE VInv'
  OBVIOUS
<1>0. UNCHANGED <<order, row, event, membership, cachedUntil, now, pc, by, seen, extended, granted, revoked, mismatches>>
  BY DEF V!vars
<1>1. VTypes' /\ VRowFirst' /\ VDoneLater' /\ VGrants'
  BY <1>0 DEF VInv, VTypes, VRowFirst, VDoneLater, VGrants
<1>2. VCache'
  BY <1>0 DEF VInv, VCache, VReads, VAdded
<1>3. V!ExtendedOncePerRow' /\ V!CompletedHasMembership'
  BY <1>0 DEF VInv, V!ExtendedOncePerRow, V!CompletedHasMembership, V!NoMembership
<1> QED BY <1>1, <1>2, <1>3 DEF VInv

LEMMA VSays ==
  VBounds /\ VInv => /\ V!TypeOK /\ V!ExtendedOncePerRow /\ V!CompletedHasMembership
                     /\ V!CacheWithinGrace
<1> SUFFICES ASSUME VBounds, VInv
             PROVE  V!TypeOK /\ V!ExtendedOncePerRow /\ V!CompletedHasMembership /\ V!CacheWithinGrace
  OBVIOUS
<1>1. V!TypeOK
  BY DEF VInv, VTypes, V!TypeOK, VSeen, VMemberships
<1>2. V!CacheWithinGrace
  BY DEF VInv, VCache, V!CacheWithinGrace
<1> QED BY <1>1, <1>2 DEF VInv

LEMMA VAlways == ASSUME VBounds PROVE V!Spec => []VInv
<1>1. V!Init => VInv
  BY VInitInv
<1>2. VInv /\ [V!Next]_V!vars => VInv'
  BY VStepInv, VStutterInv
<1> QED BY <1>1, <1>2, PTL DEF V!Spec

\* However many verifications and webhooks finalize a VIP order at once, crash
\* or fail, it extends the membership exactly when its row is completed, and
\* once, as long as no signature has failed its row.
THEOREM VipExtendedOnce == ASSUME VBounds PROVE V!Spec => []V!ExtendedOncePerRow
<1>1. VInv => V!ExtendedOncePerRow
  BY VSays
<1> QED BY <1>1, VAlways, PTL

\* A completed row has its membership, so VIP_MEMBERSHIP_MISSING_AFTER_COMPLETED_TXN
\* is never thrown, and a processed webhook event has extended the membership.
THEOREM VipCompleted == ASSUME VBounds PROVE V!Spec => []V!CompletedHasMembership
<1>1. VInv => V!CompletedHasMembership
  BY VSays
<1> QED BY <1>1, VAlways, PTL

\* isVipActive answers from its cache for less than the shortest life of a key
\* (60 s in cacheVipActive) past the end of the membership, as long as no administrator acts and no failed row lets its order extend the
\* membership a third time, also when a lapsed membership is marked expired late.
THEOREM VipCache == ASSUME VBounds PROVE V!Spec => []V!CacheWithinGrace
<1>1. VInv => V!CacheWithinGrace
  BY VSays
<1> QED BY <1>1, VAlways, PTL

-----------------------------------------------------------------------------
(* Moments Premium *)

CONSTANTS Orders, Handlers
VARIABLES checkout, member, copy, req, owed, clobbered

Q == INSTANCE Premium

QBounds == Duration \in Nat /\ Floor \in Nat \ {0}

QRows == {"none", "pending", "completed", "failed"}
QMembers == [status : {"none", "active", "expired"}, expiry : Nat]

\* A handler that finalizes an order has read its row or is about to; one that
\* asks for the membership goes on with what it read.
QNew == [at : {"finalize"}, by : {"verify", "webhook"}, order : Orders]
QFinal == [at : {"transaction", "bust", "record"}, by : {"verify", "webhook"}, order : Orders, row : QRows]
QReader == [at : {"expire", "forget", "uncache", "cache"}, member : QMembers]
QStatus == [at : {"expire", "forget", "uncache"}]
QReqs == {Q!Idle} \cup QNew \cup QFinal \cup QReader \cup QStatus

QTypes ==
    /\ order \in [Orders -> [gate : {"none", "offered", "captured"}, row : QRows,
                             event : {"none", "received", "processed"}]]
    /\ checkout \in [Orders -> {"created", "pending", "success", "failed"}]
    /\ extended \in [Orders -> Nat] /\ mismatches \in Nat
    /\ req \in [Handlers -> QReqs]

\* Nobody finalizes an order that was not made, and whoever is in a transaction
\* has not read a completed row, nor a failed one unless a signature failed.
QRowFirst ==
    /\ \A o \in Orders : order[o].gate = "none" => order[o].row = "none"
    /\ \A h \in Handlers :
          /\ req[h].at \in {"finalize", "transaction"} => order[req[h].order].gate # "none"
          /\ req[h].at = "transaction" => req[h].row # "completed"
          /\ req[h].at = "transaction" /\ mismatches = 0 => req[h].row # "failed"
    /\ mismatches = 0 => \A o \in Orders : order[o].row # "failed"

\* A completed row, and whoever is about to report success, come after an
\* extension by that order.
QDoneLater ==
    /\ \A o \in Orders : order[o].row = "completed" => extended[o] > 0
    /\ \A h \in Handlers : req[h].at \in {"bust", "record"} => extended[req[h].order] > 0

QMoney == QTypes /\ QRowFirst /\ QDoneLater /\ Q!OrdersCountOnce

QTimes ==
    /\ member \in QMembers /\ copy \in Nat /\ cachedUntil \in Nat /\ now \in Nat /\ owed \in Nat
    /\ clobbered \in BOOLEAN
    /\ member.status = "none" => member.expiry = 0

\* Unless a normalization was overtaken by a purchase, an expired membership has
\* ended and what a reader has read ends no later than the membership.
QKept ==
    ~ clobbered =>
        /\ member.status = "expired" => member.expiry <= now
        /\ \A h \in Handlers : req[h].at = "cache" => req[h].member.expiry <= member.expiry

QTime == QTimes /\ QKept /\ Q!PaidTimeIsKept /\ Q!CacheWithinGrace

QInv == QMoney /\ QTime

LEMMA QInitInv == QBounds /\ Q!Init => QInv
<1> SUFFICES ASSUME QBounds, Q!Init PROVE QInv
  OBVIOUS
<1>1. /\ order = [o \in Orders |-> [gate |-> "none", row |-> "none", event |-> "none"]]
      /\ checkout = [o \in Orders |-> "created"] /\ extended = [o \in Orders |-> 0] /\ mismatches = 0
      /\ req = [h \in Handlers |-> Q!Idle]
      /\ member = Q!NoMember /\ copy = 0 /\ cachedUntil = 0 /\ now = 1 /\ owed = 0 /\ clobbered = FALSE
  BY DEF Q!Init
<1>2. \A h \in Handlers : req[h].at = "idle"
  BY <1>1 DEF Q!Idle
<1>3. member.status = "none" /\ member.expiry = 0 /\ member \in QMembers
  BY <1>1 DEF Q!NoMember, QMembers
<1>4. QTypes
  BY <1>1 DEF QTypes, QRows, QReqs
<1>5. QRowFirst /\ QDoneLater /\ Q!OrdersCountOnce
  BY <1>1, <1>2 DEF QRowFirst, QDoneLater, Q!OrdersCountOnce
<1>6. QTimes /\ QKept
  BY <1>1, <1>2, <1>3 DEF QTimes, QKept
<1>7. Q!PaidTimeIsKept /\ Q!CacheWithinGrace
  BY <1>1, <1>3 DEF Q!PaidTimeIsKept, Q!CacheWithinGrace, Q!Active
<1> QED BY <1>4, <1>5, <1>6, <1>7 DEF QInv, QMoney, QTime

\* A handler goes on; rows, gates and extensions stay.
LEMMA QMoneyMoves ==
  ASSUME QMoney, NEW h \in Handlers, NEW r \in QReqs, req' = [req EXCEPT ![h] = r],
         r.at \in {"finalize", "transaction"} => order[r.order].gate # "none",
         r.at = "transaction" => r.row # "completed" /\ (mismatches = 0 => r.row # "failed"),
         r.at \in {"bust", "record"} => extended[r.order] > 0,
         order' \in [Orders -> [gate : {"none", "offered", "captured"}, row : QRows,
                                event : {"none", "received", "processed"}]],
         \A o \in Orders : order'[o].gate = order[o].gate /\ order'[o].row = order[o].row,
         checkout' \in [Orders -> {"created", "pending", "success", "failed"}],
         \A o \in Orders : checkout'[o] = "success" \/ order'[o].event = "processed" => extended[o] > 0,
         UNCHANGED <<extended, mismatches>>
  PROVE  QMoney'
<1>0. QTypes /\ QRowFirst /\ QDoneLater /\ Q!OrdersCountOnce
  BY DEF QMoney
<1>1. req' \in [Handlers -> QReqs] /\ req'[h] = r /\ \A g \in Handlers \ {h} : req'[g] = req[g]
  BY <1>0 DEF QTypes
<1>2. QTypes'
  BY <1>0, <1>1 DEF QTypes
<1>o. \A g \in Handlers : req[g].at \in {"finalize", "transaction", "bust", "record"} => req[g].order \in Orders
  BY <1>0 DEF QTypes, QReqs, QNew, QFinal, QReader, QStatus, Q!Idle
<1>r. r.at \in {"finalize", "transaction", "bust", "record"} => r.order \in Orders
  BY DEF QReqs, QNew, QFinal, QReader, QStatus, Q!Idle
<1>3. QRowFirst'
  BY <1>0, <1>1, <1>o, <1>r DEF QRowFirst
<1>4. QDoneLater'
  BY <1>0, <1>1, <1>o, <1>r DEF QDoneLater
<1>5. Q!OrdersCountOnce'
  BY <1>0 DEF Q!OrdersCountOnce
<1> QED BY <1>2, <1>3, <1>4, <1>5 DEF QMoney

LEMMA QTimeMoves ==
  ASSUME QMoney, QTime, NEW h \in Handlers, NEW r \in QReqs, req' = [req EXCEPT ![h] = r],
         r.at = "cache" => r.member.expiry <= member.expiry,
         UNCHANGED <<member, copy, cachedUntil, now, owed, clobbered>>
  PROVE  QTime'
<1>0. QTimes /\ QKept /\ Q!PaidTimeIsKept /\ Q!CacheWithinGrace
  BY DEF QTime
<1>1. req'[h] = r /\ \A g \in Handlers \ {h} : req'[g] = req[g]
  BY DEF QMoney, QTypes
<1>2. QTimes'
  BY <1>0 DEF QTimes
<1>3. QKept'
  BY <1>0, <1>1 DEF QKept
<1>4. Q!PaidTimeIsKept' /\ Q!CacheWithinGrace'
  BY <1>0 DEF Q!PaidTimeIsKept, Q!CacheWithinGrace, Q!Active
<1> QED BY <1>2, <1>3, <1>4 DEF QTime

\* From one step of a handler to the next.
LEMMA QGoes ==
  ASSUME QMoney, NEW h \in Handlers, NEW from, NEW to, Q!GoOn(h, from, to),
         \/ to = "idle"
         \/ from = "transaction" /\ to = "bust"
         \/ from = "bust" /\ to = "record"
         \/ from = "expire" /\ to = "forget"
         \/ from = "forget" /\ to = "uncache"
  PROVE  \E r \in QReqs : /\ req' = [req EXCEPT ![h] = r] /\ r.at = to
                          /\ to \in {"bust", "record"} => r.order = req[h].order
<1>0. req[h] \in QReqs
  BY DEF QMoney, QTypes
<1>1. CASE to = "idle"
  <2>1. req' = [req EXCEPT ![h] = Q!Idle] /\ Q!Idle \in QReqs /\ Q!Idle.at = to
    BY <1>1 DEF Q!GoOn, Q!Idle, QReqs
  <2> QED BY <1>1, <2>1
<1>2. CASE to # "idle"
  <2>1. req[h].at = from /\ req' = [req EXCEPT ![h] = [req[h] EXCEPT !.at = to]]
    BY <1>2 DEF Q!GoOn
  <2>2. CASE from \in {"transaction", "bust"}
    <3>1. req[h] \in QFinal
      BY <1>0, <2>1, <2>2 DEF QReqs, QNew, QFinal, QReader, QStatus, Q!Idle
    <3>2. /\ [req[h] EXCEPT !.at = to] \in QFinal /\ [req[h] EXCEPT !.at = to].at = to
          /\ [req[h] EXCEPT !.at = to].order = req[h].order
      BY <1>2, <2>2, <3>1 DEF QFinal
    <3> QED BY <2>1, <3>2 DEF QReqs
  <2>3. CASE from \in {"expire", "forget"}
    <3>0. to \in {"forget", "uncache"}
      BY <1>2, <2>3
    <3>1. req[h] \in QReader \/ req[h] \in QStatus
      BY <1>0, <2>1, <2>3 DEF QReqs, QNew, QFinal, QReader, QStatus, Q!Idle
    <3>2. CASE req[h] \in QReader
      <4>1. [req[h] EXCEPT !.at = to] \in QReader /\ [req[h] EXCEPT !.at = to].at = to
        BY <3>0, <3>2 DEF QReader
      <4> QED BY <2>1, <3>0, <4>1 DEF QReqs
    <3>3. CASE req[h] \in QStatus
      <4>1. [req[h] EXCEPT !.at = to] \in QStatus /\ [req[h] EXCEPT !.at = to].at = to
        BY <3>0, <3>3 DEF QStatus
      <4> QED BY <2>1, <3>0, <4>1 DEF QReqs
    <3> QED BY <3>1, <3>2, <3>3
  <2> QED BY <1>2, <2>2, <2>3
<1> QED BY <1>1, <1>2

\* Requests that come in, and those that end early.
LEMMA QRequests ==
  ASSUME QInv, NEW h \in Handlers,
         \/ \E o \in Orders : Q!Verify(h, o) \/ Q!ReceiveWebhook(h, o)
         \/ Q!ReadRow(h) \/ Q!Abort(h) \/ Q!IsActive(h) \/ Q!GetStatus(h) \/ Q!Crash(h)
  PROVE  QInv'
<1>0. QMoney /\ QTime /\ QTypes /\ QRowFirst /\ QDoneLater /\ Q!OrdersCountOnce /\ QTimes
  BY DEF QInv, QMoney, QTime
<1> USE DEF Q!money, Q!entitlement
<1>s. \A o \in Orders : checkout[o] = "success" \/ order[o].event = "processed" => extended[o] > 0
  BY <1>0 DEF Q!OrdersCountOnce
<1>i. Q!Idle \in QReqs /\ Q!Idle.at = "idle"
  BY DEF QReqs, Q!Idle
<1>1. ASSUME NEW o \in Orders, Q!Verify(h, o)
      PROVE  QInv'
  <2> DEFINE r == [at |-> "finalize", by |-> "verify", order |-> o]
  <2>1. /\ req' = [req EXCEPT ![h] = r] /\ order[o].gate = "captured"
        /\ UNCHANGED <<order, checkout, extended, mismatches, member, copy, cachedUntil, now, owed, clobbered>>
    BY <1>1 DEF Q!Verify, Q!Begin
  <2>2. r \in QReqs /\ r.at = "finalize" /\ r.order = o
    BY DEF QReqs, QNew
  <2>3. QMoney' /\ QTime'
    <3> HIDE DEF r
    <3>1. QMoney'
      BY <1>0, <1>s, <2>1, <2>2, QMoneyMoves DEF QTypes
    <3>2. QTime'
      BY <1>0, <2>1, <2>2, QTimeMoves
    <3> QED BY <3>1, <3>2
  <2> QED BY <2>3 DEF QInv
<1>2. ASSUME NEW o \in Orders, Q!ReceiveWebhook(h, o)
      PROVE  QInv'
  <2> DEFINE r == [at |-> "finalize", by |-> "webhook", order |-> o]
  <2>1. /\ req' = [req EXCEPT ![h] = r] /\ order[o].gate = "captured"
        /\ order' = [order EXCEPT ![o].event = "received"]
        /\ UNCHANGED <<checkout, extended, mismatches, member, copy, cachedUntil, now, owed, clobbered>>
    BY <1>2 DEF Q!ReceiveWebhook, Q!Begin
  <2>2. r \in QReqs /\ r.at = "finalize" /\ r.order = o
    BY DEF QReqs, QNew
  <2>4. /\ order' \in [Orders -> [gate : {"none", "offered", "captured"}, row : QRows,
                                event : {"none", "received", "processed"}]]
        /\ \A x \in Orders : order'[x].gate = order[x].gate /\ order'[x].row = order[x].row
        /\ \A x \in Orders : order'[x].event = "processed" => order[x].event = "processed"
    BY <1>0, <2>1 DEF QTypes
  <2> HIDE DEF r
  <2>5. QMoney'
    BY <1>0, <1>s, <2>1, <2>2, <2>4, QMoneyMoves DEF QTypes
  <2>6. QTime'
    BY <1>0, <2>1, <2>2, QTimeMoves
  <2> QED BY <2>5, <2>6 DEF QInv
<1>3. CASE Q!ReadRow(h)
  <2> DEFINE o == req[h].order
             r == [at |-> IF order[o].row = "completed" THEN "record" ELSE "transaction",
                   by |-> req[h].by, order |-> o, row |-> order[o].row]
  <2>1. /\ req' = [req EXCEPT ![h] = r] /\ req[h].at = "finalize"
        /\ UNCHANGED <<order, checkout, extended, mismatches, member, copy, cachedUntil, now, owed, clobbered>>
    BY <1>3 DEF Q!ReadRow
  <2>2. req[h] \in QNew
    BY <1>0, <2>1 DEF QTypes, QReqs, QNew, QFinal, QReader, QStatus, Q!Idle
  <2>3. o \in Orders /\ order[o].row \in QRows /\ req[h].by \in {"verify", "webhook"}
    BY <1>0, <2>2 DEF QNew, QTypes
  <2>4. /\ r \in QReqs /\ r.order = o /\ r.row = order[o].row
        /\ r.at \in {"record", "transaction"} /\ (r.at = "record" <=> order[o].row = "completed")
    BY <2>3 DEF QReqs, QFinal
  <2>5. order[o].gate # "none" /\ (order[o].row = "completed" => extended[o] > 0)
        /\ (mismatches = 0 => order[o].row # "failed")
    BY <1>0, <2>1, <2>3 DEF QRowFirst, QDoneLater
  <2> HIDE DEF r, o
  <2>6. QMoney'
    BY <1>0, <1>s, <2>1, <2>4, <2>5, QMoneyMoves DEF QTypes
  <2>7. QTime'
    BY <1>0, <2>1, <2>4, QTimeMoves
  <2> QED BY <2>6, <2>7 DEF QInv
<1>4. CASE Q!Abort(h) \/ Q!Crash(h)
  <2>1. /\ req' = [req EXCEPT ![h] = Q!Idle]
        /\ UNCHANGED <<order, checkout, extended, mismatches, member, copy, cachedUntil, now, owed, clobbered>>
    BY <1>4 DEF Q!Abort, Q!Crash, Q!GoOn
  <2>2. QMoney'
    BY <1>0, <1>s, <1>i, <2>1, QMoneyMoves DEF QTypes
  <2>3. QTime'
    BY <1>0, <1>i, <2>1, QTimeMoves
  <2> QED BY <2>2, <2>3 DEF QInv
<1>5. CASE Q!IsActive(h)
  <2> DEFINE r == [at |-> IF Q!Lapsed THEN "expire" ELSE "cache", member |-> member]
  <2>1. /\ req' = [req EXCEPT ![h] = r]
        /\ UNCHANGED <<order, checkout, extended, mismatches, member, copy, cachedUntil, now, owed, clobbered>>
    BY <1>5 DEF Q!IsActive, Q!Begin
  <2>2. r \in QReqs /\ r.at \in {"expire", "cache"} /\ r.member = member
    BY <1>0 DEF QReqs, QReader, QTimes
  <2>3. member.expiry <= member.expiry
    BY <1>0 DEF QTimes, QMembers
  <2> HIDE DEF r
  <2>4. QMoney'
    BY <1>0, <1>s, <2>1, <2>2, QMoneyMoves DEF QTypes
  <2>5. QTime'
    <3>1. r.at = "cache" => r.member.expiry <= member.expiry
      BY <2>2, <2>3
    <3> QED BY <1>0, <2>1, <2>2, <3>1, QTimeMoves
  <2> QED BY <2>4, <2>5 DEF QInv
<1>6. CASE Q!GetStatus(h)
  <2> DEFINE r == [at |-> "expire"]
  <2>1. /\ req' = [req EXCEPT ![h] = r]
        /\ UNCHANGED <<order, checkout, extended, mismatches, member, copy, cachedUntil, now, owed, clobbered>>
    BY <1>6 DEF Q!GetStatus, Q!Begin
  <2>2. r \in QReqs /\ r.at = "expire"
    BY DEF QReqs, QStatus
  <2> HIDE DEF r
  <2>3. QMoney'
    BY <1>0, <1>s, <2>1, <2>2, QMoneyMoves DEF QTypes
  <2>4. QTime'
    BY <1>0, <2>1, <2>2, QTimeMoves
  <2> QED BY <2>3, <2>4 DEF QInv
<1> QED BY <1>1, <1>2, <1>3, <1>4, <1>5, <1>6

\* The transaction of a purchase.
LEMMA QCommits ==
  ASSUME QBounds, QInv, NEW h \in Handlers, NEW o \in Orders, Q!Commit(h, o)
  PROVE  QInv'
<1>0. /\ QMoney /\ QTypes /\ QRowFirst /\ QDoneLater /\ Q!OrdersCountOnce
      /\ QTimes /\ QKept /\ Q!PaidTimeIsKept /\ Q!CacheWithinGrace
  BY DEF QInv, QMoney, QTime
<1>1. /\ req[h].at = "transaction" /\ o = req[h].order /\ req[h].row # "pending"
      /\ req[h].row = "none" => order[o].row = "none"
      /\ member' = Q!Extended(member) /\ copy' = member'.expiry
      /\ order' = [order EXCEPT ![o].row = IF req[h].row = "none" THEN "completed" ELSE @]
      /\ extended' = [extended EXCEPT ![o] = @ + 1]
      /\ owed' = Q!Later(owed, now) + Duration
      /\ UNCHANGED <<checkout, cachedUntil, now, clobbered, mismatches>>
  BY DEF Q!Commit, Q!GoOn
<1>2. PICK r \in QReqs : req' = [req EXCEPT ![h] = r] /\ r.at = "bust" /\ r.order = o
  <2>1. Q!GoOn(h, "transaction", "bust")
    BY DEF Q!Commit
  <2> QED BY <1>0, <1>1, <2>1, QGoes
<1>3. req' \in [Handlers -> QReqs] /\ req'[h] = r /\ \A g \in Handlers \ {h} : req'[g] = req[g]
  BY <1>0, <1>2 DEF QTypes
<1>4. /\ order' \in [Orders -> [gate : {"none", "offered", "captured"}, row : QRows,
                                event : {"none", "received", "processed"}]]
      /\ \A x \in Orders : order'[x].gate = order[x].gate /\ order'[x].event = order[x].event
      /\ \A x \in Orders \ {o} : order'[x].row = order[x].row
      /\ order'[o].row = IF req[h].row = "none" THEN "completed" ELSE order[o].row
  BY <1>0, <1>1 DEF QTypes, QRows
<1>5. /\ extended' \in [Orders -> Nat] /\ extended'[o] = extended[o] + 1 /\ extended[o] \in Nat
      /\ \A x \in Orders \ {o} : extended'[x] = extended[x]
  BY <1>0, <1>1 DEF QTypes
<1>6. \A x \in Orders : extended[x] \in Nat /\ (extended[x] > 0 => extended'[x] > 0)
  BY <1>0, <1>5 DEF QTypes
<1>7. QMoney'
  <2>1. QTypes'
    BY <1>0, <1>1, <1>3, <1>4, <1>5 DEF QTypes
  <2>2. req[h] \in QFinal
    BY <1>0, <1>1 DEF QTypes, QReqs, QNew, QFinal, QReader, QStatus, Q!Idle
  <2>3. order[o].gate # "none" /\ (mismatches = 0 => req[h].row = "none")
    BY <1>0, <1>1, <2>2 DEF QRowFirst, QFinal, QRows
  <2>4. \A g \in Handlers : req[g].at \in {"finalize", "transaction", "bust", "record"} => req[g].order \in Orders
    BY <1>0 DEF QTypes, QReqs, QNew, QFinal, QReader, QStatus, Q!Idle
  <2>5. QRowFirst'
    BY <1>0, <1>1, <1>2, <1>3, <1>4, <2>3, <2>4 DEF QRowFirst
  <2>6. QDoneLater'
    <3>1. extended'[o] > 0
      BY <1>5
    <3> QED BY <1>0, <1>2, <1>3, <1>4, <1>6, <2>4, <3>1 DEF QDoneLater
  <2>7. Q!OrdersCountOnce'
    <3>1. ASSUME mismatches' = 0, NEW x \in Orders
          PROVE  extended'[x] = IF order'[x].row = "completed" THEN 1 ELSE 0
      <4>1. req[h].row = "none" /\ order[o].row = "none" /\ \A y \in Orders :
              extended[y] = IF order[y].row = "completed" THEN 1 ELSE 0
        BY <1>0, <1>1, <2>3, <3>1 DEF Q!OrdersCountOnce
      <4> QED BY <1>4, <1>5, <4>1
    <3>2. \A x \in Orders : checkout'[x] = "success" \/ order'[x].event = "processed" => extended'[x] > 0
      BY <1>0, <1>1, <1>4, <1>6 DEF Q!OrdersCountOnce
    <3> QED BY <3>1, <3>2 DEF Q!OrdersCountOnce
  <2> QED BY <2>1, <2>5, <2>6, <2>7 DEF QMoney
<1>8. /\ member \in QMembers /\ member.expiry \in Nat /\ copy \in Nat /\ cachedUntil \in Nat /\ now \in Nat
      /\ owed \in Nat /\ clobbered \in BOOLEAN /\ Duration \in Nat /\ Floor \in Nat \ {0}
      /\ member.status = "none" => member.expiry = 0
  BY <1>0 DEF QTimes, QMembers, QBounds
<1>9. /\ member' \in QMembers /\ member'.status = "active"
      /\ member'.expiry = (IF member.status = "active" /\ member.expiry > now THEN member.expiry ELSE now) + Duration
  BY <1>1, <1>8 DEF Q!Extended, Q!Active, QMembers
<1>10. ~ clobbered => /\ owed = member.expiry
                      /\ ~ (member.status = "active" /\ member.expiry > now) => member.expiry <= now
  <2>1. member.status \in {"none", "active", "expired"}
    BY <1>8 DEF QMembers
  <2> QED BY <1>0, <1>8, <2>1 DEF QKept, Q!PaidTimeIsKept
<1>11. ~ clobbered => member'.expiry >= member.expiry /\ owed' = member'.expiry
  BY <1>1, <1>8, <1>9, <1>10 DEF Q!Later
<1>12. QTimes'
  <2>1. owed' \in Nat /\ member'.expiry \in Nat
    BY <1>1, <1>8, <1>9 DEF Q!Later, QMembers
  <2> QED BY <1>1, <1>8, <1>9, <2>1 DEF QTimes
<1>13. QKept'
  <2> SUFFICES ASSUME ~ clobbered PROVE QKept'
    BY <1>1 DEF QKept
  <2>1. \A g \in Handlers : req[g].at = "cache" => req[g].member.expiry \in Nat
    BY <1>0 DEF QTypes, QReqs, QNew, QFinal, QReader, QStatus, Q!Idle, QMembers
  <2>2. \A g \in Handlers : req'[g].at = "cache" => req'[g].member.expiry <= member'.expiry
    <3>1. \A g \in Handlers : req'[g].at = "cache" => req'[g] = req[g]
      BY <1>2, <1>3
    <3>2. \A g \in Handlers : req[g].at = "cache" => req[g].member.expiry <= member'.expiry
      BY <1>0, <1>8, <1>9, <1>11, <2>1 DEF QKept, QMembers
    <3> QED BY <3>1, <3>2
  <2> QED BY <1>9, <2>2 DEF QKept
<1>14. Q!PaidTimeIsKept'
  BY <1>1, <1>9, <1>11 DEF Q!PaidTimeIsKept
<1>15. Q!CacheWithinGrace'
  BY <1>0, <1>1, <1>8, <1>9, <1>11 DEF Q!CacheWithinGrace, QMembers
<1> QED BY <1>7, <1>12, <1>13, <1>14, <1>15 DEF QInv, QTime

\* The order itself: its creation, its capture and a signature that fails it.
LEMMA QOrders ==
  ASSUME QInv, NEW o \in Orders, Q!CreateOrder(o) \/ Q!Capture(o) \/ Q!VerifyMismatch(o)
  PROVE  QInv'
<1>0. /\ QMoney /\ QTime /\ QTypes /\ QRowFirst /\ QDoneLater /\ Q!OrdersCountOnce
      /\ QTimes /\ QKept /\ Q!PaidTimeIsKept /\ Q!CacheWithinGrace
  BY DEF QInv, QMoney, QTime
<1>1. UNCHANGED <<member, copy, cachedUntil, clobbered, now, req, extended, owed>>
  BY DEF Q!CreateOrder, Q!Capture, Q!VerifyMismatch, Q!entitlement
<1>2. QTime'
  <2>1. QTimes' /\ QKept'
    BY <1>0, <1>1 DEF QTimes, QKept
  <2>2. Q!PaidTimeIsKept' /\ Q!CacheWithinGrace'
    BY <1>0, <1>1 DEF Q!PaidTimeIsKept, Q!CacheWithinGrace, Q!Active
  <2> QED BY <2>1, <2>2 DEF QTime
<1> DEFINE Rows == [gate : {"none", "offered", "captured"}, row : QRows, event : {"none", "received", "processed"}]
<1>3. order \in [Orders -> Rows] /\ order[o] \in Rows
  BY <1>0 DEF QTypes
<1>4. \A g \in Handlers : req[g].at \in {"finalize", "transaction", "bust", "record"} => req[g].order \in Orders
  BY <1>0 DEF QTypes, QReqs, QNew, QFinal, QReader, QStatus, Q!Idle
<1>5. CASE Q!CreateOrder(o) \/ Q!Capture(o)
  <2>1. mismatches' = mismatches
    BY <1>5 DEF Q!CreateOrder, Q!Capture
  <2>2. /\ checkout' \in [Orders -> {"created", "pending", "success", "failed"}]
        /\ \A x \in Orders : checkout'[x] = "success" => checkout[x] = "success"
    BY <1>0, <1>5 DEF Q!CreateOrder, Q!Capture, QTypes
  <2>3. /\ order' \in [Orders -> Rows] /\ \A x \in Orders \ {o} : order'[x] = order[x]
        /\ order'[o].gate \in {"offered", "captured"} /\ order'[o].event = order[o].event
        /\ order'[o].row = order[o].row \/ (order[o].gate = "none" /\ order'[o].row = "pending")
    <3>1. CASE order' = [order EXCEPT ![o].gate = "offered", ![o].row = "pending"] /\ order[o].gate = "none"
      <4>1. [[order[o] EXCEPT !.gate = "offered"] EXCEPT !.row = "pending"] \in Rows
            /\ [[order[o] EXCEPT !.gate = "offered"] EXCEPT !.row = "pending"].gate = "offered"
            /\ [[order[o] EXCEPT !.gate = "offered"] EXCEPT !.row = "pending"].row = "pending"
            /\ [[order[o] EXCEPT !.gate = "offered"] EXCEPT !.row = "pending"].event = order[o].event
        BY <1>3 DEF QRows
      <4>2. order' = [order EXCEPT ![o] = [[order[o] EXCEPT !.gate = "offered"] EXCEPT !.row = "pending"]]
        BY <1>3, <3>1
      <4> HIDE DEF Rows
      <4> QED BY <1>3, <3>1, <4>1, <4>2
    <3>2. ASSUME NEW g \in {"offered", "captured"}, order' = [order EXCEPT ![o].gate = g]
          PROVE  /\ order' \in [Orders -> Rows] /\ \A x \in Orders \ {o} : order'[x] = order[x]
                 /\ order'[o].gate = g /\ order'[o].event = order[o].event /\ order'[o].row = order[o].row
      <4>1. [order[o] EXCEPT !.gate = g] \in Rows
            /\ [order[o] EXCEPT !.gate = g].gate = g /\ [order[o] EXCEPT !.gate = g].row = order[o].row
            /\ [order[o] EXCEPT !.gate = g].event = order[o].event
        BY <1>3
      <4>2. order' = [order EXCEPT ![o] = [order[o] EXCEPT !.gate = g]]
        BY <1>3, <3>2
      <4> HIDE DEF Rows
      <4> QED BY <1>3, <4>1, <4>2
    <3> QED BY <1>5, <3>1, <3>2 DEF Q!CreateOrder, Q!Capture
  <2>4. \A x \in Orders : /\ order'[x].row = "completed" <=> order[x].row = "completed"
                          /\ order'[x].row = "failed" <=> order[x].row = "failed"
                          /\ order'[x].event = order[x].event
    BY <1>0, <2>3 DEF QRowFirst
  <2>5. QTypes'
    BY <1>0, <1>1, <2>1, <2>2, <2>3 DEF QTypes
  <2>6. QRowFirst'
    BY <1>0, <1>1, <1>4, <2>1, <2>3, <2>4 DEF QRowFirst
  <2>7. QDoneLater' /\ Q!OrdersCountOnce'
    BY <1>0, <1>1, <2>1, <2>2, <2>4 DEF QDoneLater, Q!OrdersCountOnce
  <2> QED BY <1>2, <2>5, <2>6, <2>7 DEF QInv, QMoney
<1>6. CASE Q!VerifyMismatch(o)
  <2>1. /\ mismatches' = mismatches + 1 /\ checkout' = [checkout EXCEPT ![o] = "failed"] /\ order[o].gate # "none"
        /\ order' = [order EXCEPT ![o].row = IF @ = "none" THEN @ ELSE "failed"]
    BY <1>6 DEF Q!VerifyMismatch
  <2>2. mismatches' \in Nat /\ mismatches' # 0
    BY <1>0, <2>1 DEF QTypes
  <2>3. /\ order' \in [Orders -> Rows] /\ \A x \in Orders \ {o} : order'[x] = order[x]
        /\ order'[o].gate = order[o].gate /\ order'[o].event = order[o].event
        /\ order'[o].row \in {order[o].row, "failed"}
    BY <1>3, <2>1 DEF QRows
  <2>4. /\ checkout' \in [Orders -> {"created", "pending", "success", "failed"}]
        /\ \A x \in Orders : checkout'[x] = "success" => checkout[x] = "success"
    BY <1>0, <2>1 DEF QTypes
  <2>5. QTypes'
    BY <1>0, <1>1, <2>2, <2>3, <2>4 DEF QTypes
  <2>6. QRowFirst'
    BY <1>0, <1>1, <1>4, <2>1, <2>2, <2>3 DEF QRowFirst
  <2>7. QDoneLater' /\ Q!OrdersCountOnce'
    BY <1>0, <1>1, <2>2, <2>3, <2>4 DEF QDoneLater, Q!OrdersCountOnce
  <2> QED BY <1>2, <2>5, <2>6, <2>7 DEF QInv, QMoney
<1> QED BY <1>5, <1>6

\* The cache is busted and the success recorded.
LEMMA QReports ==
  ASSUME QInv, NEW h \in Handlers, Q!Bust(h) \/ Q!Record(h)
  PROVE  QInv'
<1>0. /\ QMoney /\ QTime /\ QTypes /\ QRowFirst /\ QDoneLater /\ Q!OrdersCountOnce
      /\ QTimes /\ QKept /\ Q!PaidTimeIsKept /\ Q!CacheWithinGrace
  BY DEF QInv, QMoney, QTime
<1>s. \A o \in Orders : checkout[o] = "success" \/ order[o].event = "processed" => extended[o] > 0
  BY <1>0 DEF Q!OrdersCountOnce
<1>1. CASE Q!Bust(h)
  <2>1. /\ req[h].at = "bust" /\ cachedUntil' = 0
        /\ UNCHANGED <<order, checkout, extended, mismatches, member, copy, now, owed, clobbered>>
    BY <1>1 DEF Q!Bust, Q!GoOn, Q!money
  <2>2. PICK r \in QReqs : req' = [req EXCEPT ![h] = r] /\ r.at = "record" /\ r.order = req[h].order
    <3>1. Q!GoOn(h, "bust", "record")
      BY <1>1 DEF Q!Bust
    <3> QED BY <1>0, <3>1, QGoes
  <2>3. extended[r.order] > 0
    BY <1>0, <2>1, <2>2 DEF QDoneLater
  <2>4. QMoney'
    BY <1>0, <1>s, <2>1, <2>2, <2>3, QMoneyMoves DEF QTypes
  <2>5. req'[h] = r /\ \A g \in Handlers \ {h} : req'[g] = req[g]
    BY <1>0, <2>2 DEF QTypes
  <2>6. QTimes' /\ QKept'
    BY <1>0, <2>1, <2>2, <2>5 DEF QTimes, QKept
  <2>7. Q!PaidTimeIsKept' /\ Q!CacheWithinGrace'
    BY <1>0, <2>1 DEF Q!PaidTimeIsKept, Q!CacheWithinGrace, Q!Active
  <2> QED BY <2>4, <2>6, <2>7 DEF QInv, QTime
<1>2. CASE Q!Record(h)
  <2> DEFINE o == req[h].order
  <2>1. /\ req[h].at = "record"
        /\ \/ checkout' = [checkout EXCEPT ![o] = "success"] /\ order' = order
           \/ order' = [order EXCEPT ![o].event = "processed"] /\ checkout' = checkout
        /\ UNCHANGED <<extended, mismatches, member, copy, cachedUntil, now, owed, clobbered>>
    BY <1>2 DEF Q!Record, Q!GoOn, Q!entitlement
  <2>2. req' = [req EXCEPT ![h] = Q!Idle] /\ Q!Idle \in QReqs /\ Q!Idle.at = "idle"
    BY <1>2 DEF Q!Record, Q!GoOn, QReqs, Q!Idle
  <2>3. o \in Orders
    BY <1>0, <2>1 DEF QTypes, QReqs, QNew, QFinal, QReader, QStatus, Q!Idle
  <2>4. extended[o] > 0
    BY <1>0, <2>1 DEF QDoneLater
  <2> HIDE DEF o
  <2>5. /\ order' \in [Orders -> [gate : {"none", "offered", "captured"}, row : QRows,
                                  event : {"none", "received", "processed"}]]
        /\ \A x \in Orders : order'[x].gate = order[x].gate /\ order'[x].row = order[x].row
        /\ \A x \in Orders \ {o} : order'[x] = order[x]
    BY <1>0, <2>1, <2>3 DEF QTypes
  <2>6. /\ checkout' \in [Orders -> {"created", "pending", "success", "failed"}]
        /\ \A x \in Orders \ {o} : checkout'[x] = checkout[x]
    BY <1>0, <2>1, <2>3 DEF QTypes
  <2>7. \A x \in Orders : checkout'[x] = "success" \/ order'[x].event = "processed" => extended[x] > 0
    BY <1>s, <2>4, <2>5, <2>6
  <2>8. QMoney'
    BY <1>0, <2>1, <2>2, <2>5, <2>6, <2>7, QMoneyMoves
  <2>9. QTime'
    BY <1>0, <2>1, <2>2, QTimeMoves
  <2> QED BY <2>8, <2>9 DEF QInv
<1> QED BY <1>1, <1>2

\* normalizeExpiredMembership and cacheActive.
LEMMA QNormalizes ==
  ASSUME QBounds, QInv, NEW h \in Handlers, Q!Expire(h) \/ Q!Forget(h) \/ Q!Uncache(h) \/ Q!WriteCache(h)
  PROVE  QInv'
<1>0. /\ QMoney /\ QTime /\ QTypes /\ QRowFirst /\ QDoneLater /\ Q!OrdersCountOnce
      /\ QTimes /\ QKept /\ Q!PaidTimeIsKept /\ Q!CacheWithinGrace
  BY DEF QInv, QMoney, QTime
<1>s. \A o \in Orders : checkout[o] = "success" \/ order[o].event = "processed" => extended[o] > 0
  BY <1>0 DEF Q!OrdersCountOnce
<1>1. UNCHANGED <<order, checkout, extended, mismatches, now, owed>>
  BY DEF Q!Expire, Q!Forget, Q!Uncache, Q!WriteCache, Q!money
<1>2. PICK r \in QReqs : req' = [req EXCEPT ![h] = r] /\ r.at \in {"idle", "forget", "uncache"}
  <2>1. \/ Q!GoOn(h, "expire", "forget") \/ Q!GoOn(h, "forget", "uncache")
        \/ Q!GoOn(h, "uncache", "idle") \/ Q!GoOn(h, "cache", "idle")
    BY DEF Q!Expire, Q!Forget, Q!Uncache, Q!WriteCache
  <2> QED BY <1>0, <2>1, QGoes
<1>3. QMoney'
  BY <1>0, <1>s, <1>1, <1>2, QMoneyMoves DEF QTypes
<1>4. req'[h] = r /\ \A g \in Handlers \ {h} : req'[g] = req[g]
  BY <1>0, <1>2 DEF QTypes
<1>5. /\ member \in QMembers /\ member.expiry \in Nat /\ copy \in Nat /\ cachedUntil \in Nat /\ now \in Nat
      /\ owed \in Nat /\ clobbered \in BOOLEAN /\ Floor \in Nat \ {0}
      /\ member.status = "none" => member.expiry = 0
      /\ member.status \in {"none", "active", "expired"}
  BY <1>0 DEF QTimes, QMembers, QBounds
<1>6. \A g \in Handlers : req'[g].at = "cache" => req'[g] = req[g]
  BY <1>2, <1>4
<1>7. CASE Q!Expire(h)
  <2>1. /\ member' = [member EXCEPT !.status = "expired"] /\ clobbered' = (clobbered \/ Q!Active(member))
        /\ copy' = copy /\ cachedUntil' = cachedUntil
    BY <1>7 DEF Q!Expire
  <2>2. member' \in QMembers /\ member'.status = "expired" /\ member'.expiry = member.expiry
    BY <1>5, <2>1 DEF QMembers
  <2>3. clobbered' \in BOOLEAN /\ (~ clobbered' => ~ clobbered /\ member.expiry <= now)
    <3>1. clobbered' \in BOOLEAN /\ (~ clobbered' => ~ clobbered /\ ~ Q!Active(member))
      BY <1>5, <2>1
    <3>2. ~ clobbered /\ ~ Q!Active(member) => member.expiry <= now
      BY <1>0, <1>5 DEF Q!Active, QKept
    <3> QED BY <3>1, <3>2
  <2>4. QTimes'
    BY <1>1, <1>5, <2>1, <2>2, <2>3 DEF QTimes
  <2>5. QKept'
    BY <1>0, <1>1, <1>6, <2>2, <2>3 DEF QKept
  <2>6. Q!PaidTimeIsKept'
    BY <1>0, <1>1, <2>1, <2>2, <2>3 DEF Q!PaidTimeIsKept, Q!Active
  <2>7. Q!CacheWithinGrace'
    BY <1>0, <2>1, <2>2, <2>3 DEF Q!CacheWithinGrace
  <2> QED BY <1>3, <2>4, <2>5, <2>6, <2>7 DEF QInv, QTime
<1>8. CASE Q!Forget(h)
  <2>1. copy' = 0 /\ clobbered' = (clobbered \/ Q!Active(member)) /\ member' = member /\ cachedUntil' = cachedUntil
    BY <1>8 DEF Q!Forget
  <2>2. clobbered' \in BOOLEAN /\ (~ clobbered' => ~ clobbered /\ ~ Q!Active(member))
    BY <1>5, <2>1
  <2>3. QTimes'
    BY <1>1, <1>5, <2>1, <2>2 DEF QTimes
  <2>4. QKept'
    BY <1>0, <1>1, <1>6, <2>1, <2>2 DEF QKept
  <2>5. Q!PaidTimeIsKept'
    BY <1>0, <1>1, <2>1, <2>2 DEF Q!PaidTimeIsKept, Q!Active
  <2>6. Q!CacheWithinGrace'
    BY <1>0, <2>1, <2>2 DEF Q!CacheWithinGrace
  <2> QED BY <1>3, <2>3, <2>4, <2>5, <2>6 DEF QInv, QTime
<1>9. CASE Q!Uncache(h) \/ Q!WriteCache(h)
  <2>1. /\ UNCHANGED <<member, copy, clobbered>>
        /\ cachedUntil' = 0 \/ (req[h].at = "cache" /\ cachedUntil' = Q!LivesUntil(req[h].member))
    BY <1>9 DEF Q!Uncache, Q!WriteCache, Q!GoOn
  <2>2. req[h].at = "cache" => req[h].member.expiry \in Nat
    BY <1>0 DEF QTypes, QReqs, QNew, QFinal, QReader, QStatus, Q!Idle, QMembers
  <2>3. /\ cachedUntil' \in Nat
        /\ cachedUntil' > 0 => req[h].at = "cache" /\ cachedUntil' < req[h].member.expiry + Floor
    BY <1>5, <2>1, <2>2 DEF Q!LivesUntil, Q!Later, Q!Active
  <2>4. QTimes'
    BY <1>0, <1>1, <2>1, <2>3 DEF QTimes
  <2>5. QKept'
    BY <1>0, <1>1, <1>6, <2>1 DEF QKept
  <2>6. Q!PaidTimeIsKept'
    BY <1>0, <1>1, <2>1 DEF Q!PaidTimeIsKept, Q!Active
  <2>7. Q!CacheWithinGrace'
    <3> SUFFICES ASSUME ~ clobbered, cachedUntil' > 0 PROVE cachedUntil' < member.expiry + Floor
      BY <2>1 DEF Q!CacheWithinGrace
    <3>1. req[h].member.expiry <= member.expiry
      BY <1>0, <2>3 DEF QKept
    <3> QED BY <1>5, <2>2, <2>3, <3>1
  <2> QED BY <1>3, <2>4, <2>5, <2>6, <2>7 DEF QInv, QTime
<1> QED BY <1>7, <1>8, <1>9

LEMMA QTicks ==
  ASSUME QInv, Q!Tick
  PROVE  QInv'
<1>0. /\ QMoney /\ QTypes /\ QRowFirst /\ QDoneLater /\ Q!OrdersCountOnce
      /\ QTimes /\ QKept /\ Q!PaidTimeIsKept /\ Q!CacheWithinGrace
  BY DEF QInv, QMoney, QTime
<1>1. /\ now' = now + 1
      /\ UNCHANGED <<order, checkout, extended, mismatches, req, member, copy, cachedUntil, owed, clobbered>>
  BY DEF Q!Tick, Q!money, Q!entitlement
<1>2. QTypes' /\ QRowFirst' /\ QDoneLater' /\ Q!OrdersCountOnce'
  BY <1>0, <1>1 DEF QTypes, QRowFirst, QDoneLater, Q!OrdersCountOnce
<1>3. now \in Nat /\ now' \in Nat /\ member.expiry \in Nat
  BY <1>0, <1>1 DEF QTimes, QMembers
<1>4. QTimes'
  BY <1>0, <1>1, <1>3 DEF QTimes
<1>5. QKept'
  <2>1. member.expiry <= now => member.expiry <= now'
    BY <1>1, <1>3
  <2> QED BY <1>0, <1>1, <2>1 DEF QKept
<1>6. Q!PaidTimeIsKept'
  <2>1. member.expiry > now' => member.expiry > now
    BY <1>1, <1>3
  <2> QED BY <1>0, <1>1, <2>1 DEF Q!PaidTimeIsKept, Q!Active
<1>7. Q!CacheWithinGrace'
  BY <1>0, <1>1 DEF Q!CacheWithinGrace
<1> QED BY <1>2, <1>4, <1>5, <1>6, <1>7 DEF QInv, QMoney, QTime

LEMMA QStepInv == QBounds /\ QInv /\ Q!Next => QInv'
<1> SUFFICES ASSUME QBounds, QInv, Q!Next PROVE QInv'
  OBVIOUS
<1>1. ASSUME NEW o \in Orders, Q!CreateOrder(o) \/ Q!Capture(o) \/ Q!VerifyMismatch(o) PROVE QInv'
  BY <1>1, QOrders
<1>2. ASSUME NEW h \in Handlers, NEW o \in Orders, Q!Verify(h, o) \/ Q!ReceiveWebhook(h, o) \/ Q!Commit(h, o)
      PROVE  QInv'
  BY <1>2, QRequests, QCommits
<1>3. ASSUME NEW h \in Handlers,
             \/ Q!ReadRow(h) \/ Q!Abort(h) \/ Q!Bust(h) \/ Q!Record(h)
             \/ Q!IsActive(h) \/ Q!GetStatus(h) \/ Q!Expire(h) \/ Q!Forget(h) \/ Q!Uncache(h) \/ Q!WriteCache(h)
             \/ Q!Crash(h)
      PROVE  QInv'
  BY <1>3, QRequests, QReports, QNormalizes
<1> QED BY <1>1, <1>2, <1>3, QTicks DEF Q!Next

LEMMA QStutterInv == QInv /\ UNCHANGED Q!vars => QInv'
<1> SUFFICES ASSUME QInv, UNCHANGED Q!vars PROVE QInv'
  OBVIOUS
<1>0. UNCHANGED <<order, checkout, extended, mismatches, req, member, copy, cachedUntil, now, owed, clobbered>>
  BY DEF Q!vars
<1>1. QMoney'
  BY <1>0 DEF QInv, QMoney, QTypes, QRowFirst, QDoneLater, Q!OrdersCountOnce
<1>2. QTime'
  BY <1>0 DEF QInv, QTime, QTimes, QKept, Q!PaidTimeIsKept, Q!CacheWithinGrace, Q!Active
<1> QED BY <1>1, <1>2 DEF QInv

LEMMA QSays == QInv => Q!OrdersCountOnce /\ Q!PaidTimeIsKept /\ Q!CacheWithinGrace
  BY DEF QInv, QMoney, QTime

LEMMA QAlways == ASSUME QBounds PROVE Q!Spec => []QInv
<1>1. Q!Init => QInv
  BY QInitInv
<1>2. QInv /\ [Q!Next]_Q!vars => QInv'
  BY QStepInv, QStutterInv
<1> QED BY <1>1, <1>2, PTL DEF Q!Spec

\* Any number of orders of Moments Premium, verified and delivered any number
\* of times at once, extend the membership once each, exactly with their
\* completed rows, as long as no signature has failed a row; success is
\* reported only for such an order.
THEOREM PremiumCountsOnce == ASSUME QBounds PROVE Q!Spec => []Q!OrdersCountOnce
<1> QED BY QAlways, QSays, PTL

\* No time that was paid for is lost and the copy on the user agrees with the
\* membership, unless a late normalization writes over a new purchase.
THEOREM PremiumTimeKept == ASSUME QBounds PROVE Q!Spec => []Q!PaidTimeIsKept
<1> QED BY QAlways, QSays, PTL

\* With the same exception the Redis key answers for less than its shortest
\* life after the end of the membership.
THEOREM PremiumCache == ASSUME QBounds PROVE Q!Spec => []Q!CacheWithinGrace
<1> QED BY QAlways, QSays, PTL
=============================================================================
