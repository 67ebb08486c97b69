\* Components that move coins; each behaviour is about one of them.
CONSTANTS
    p1 = p1
    p2 = p2
    p3 = p3
    d1 = d1
    d2 = d2
    None = None
SPECIFICATION Spec
INVARIANTS
    TypeOK
    PurchasesBookedOnce
    MembershipMatchesRow
    PaidLeftTheWallet
    WalletFollowsLedger
    ReferralsPaidOnce
    RewardsPaidOnce
PROPERTIES
    RewardStateKept
SYMMETRY Symmetry
CHECK_DEADLOCK FALSE
