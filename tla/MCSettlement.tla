---------------------------- MODULE MCSettlement ----------------------------
(* Small instances of Settlement.  Amounts are in tenths of a coin. *)
EXTENDS SettlementRefinement, TLC

CONSTANTS s1, s2, s3

\* 2.1 coins from the wallet and 0.5 from the intro promo; 2.5 earned.
UniformTotals == {[wallet |-> 21, intro |-> 5, earned |-> 25]}

\* Two readers of the totals disagree: one missed the last tick.
StaleTotals == {[wallet |-> 21, intro |-> 0, earned |-> 0],
                [wallet |-> 11, intro |-> 0, earned |-> 0]}

SettlerSymmetry == Permutations(Settlers)
=============================================================================
