------------------------------- MODULE Money -------------------------------
(***************************************************************************)
(* Coin arithmetic of call billing.  Running totals are kept in micros     *)
(* (CoinMicros micros = one coin); settlement converts them to whole coins *)
(* with a rounding that favours the platform on both sides, and derives    *)
(* the staff cuts from the creator's whole coins.                          *)
(***************************************************************************)
EXTENDS Integers

CONSTANT CoinMicros            \* COIN_MICROS: micros in one coin

ASSUME CoinMicrosAssumption == CoinMicros \in Nat \ {0}

PositivePart(n) == IF n > 0 THEN n ELSE 0

\* User debit: rounded up.
microsToUserDebitWholeCoins(micros) ==
    IF micros <= 0 THEN 0 ELSE (micros + CoinMicros - 1) \div CoinMicros

\* Creator credit: rounded down.
microsToCreatorCreditWholeCoins(micros) ==
    IF micros <= 0 THEN 0 ELSE micros \div CoinMicros

\* The coins still owed when `already` of the `target` is on a ledger row.
OwedDelta(target, already) == PositivePart(target - already)

\* Wallet after a debit, floored at zero by the $max of the update pipeline.
WalletAfterDebit(coins, delta) == PositivePart(coins - delta)

\* Commission of a staff party, in basis points of the host's whole coins.
StaffCut(earned, bps) == (earned * bps) \div 10000
=============================================================================
