---------------------------- MODULE CallAccount ----------------------------
(***************************************************************************)
(* What settling a call promises about money, with no transactions, locks, *)
(* retries or crashes: the caller is charged the price of the call in the  *)
(* one step that settles it, and never again; the creator and the staff    *)
(* are credited their fixed amounts at most once, with the settlement or   *)
(* in a later completion of it.                                            *)
(***************************************************************************)
EXTENDS Integers

CONSTANTS Price, Earned, BdCut, AgencyCut, InitialCoins, MaxDeposit

VARIABLES wallet,     \* the caller's coins
          deposited,  \* coins that came from elsewhere
          debit,      \* coins the debit row shows
          host, bd, agency,   \* coins credited for this call
          settled

vars == <<wallet, deposited, debit, host, bd, agency, settled>>

Init ==
    /\ wallet = InitialCoins
    /\ deposited = 0
    /\ debit = 0
    /\ host = 0
    /\ bd = 0
    /\ agency = 0
    /\ settled = FALSE

\* A credit is given whole, once; staff only together with the creator.
Credit ==
    /\ host'   \in {host, Earned}
    /\ bd'     \in {bd, BdCut}
    /\ agency' \in {agency, AgencyCut}
    /\ (bd' # 0 \/ agency' # 0) => host' = Earned

Settle ==
    /\ ~settled
    /\ settled' = TRUE
    /\ debit'   = Price
    /\ wallet'  = IF wallet > Price THEN wallet - Price ELSE 0
    /\ Credit
    /\ UNCHANGED deposited

\* A later execution adds a credit that the first one left out.
CompleteCredit ==
    /\ settled
    /\ Credit
    /\ UNCHANGED <<wallet, deposited, debit, settled>>

Deposit ==
    /\ deposited < MaxDeposit
    /\ deposited' = deposited + 1
    /\ wallet' = wallet + 1
    /\ UNCHANGED <<debit, host, bd, agency, settled>>

Next == Settle \/ CompleteCredit \/ Deposit

Spec == Init /\ [][Next]_vars
=============================================================================
