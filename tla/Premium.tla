------------------------------ MODULE Premium ------------------------------
(***************************************************************************)
(* Moments Premium: a user's orders, the verification and the webhook that *)
(* finalize them, the membership they extend, the end of the membership    *)
(* copied to the user, and the Redis key of isMomentsPremiumActive.        *)
(*                                                                         *)
(* An order buys one plan duration.  The clock read before a transaction   *)
(* is taken to be the clock of its commit.  The feed pages a purchase      *)
(* busts are in MomentsFeed, the referral it may reward in CreatorReferral.*)
(***************************************************************************)
EXTENDS Integers

CONSTANTS
    Orders,         \* orders of the user
    Handlers,       \* requests under way at a time
    Duration,       \* durationDays
    Floor,          \* the shortest life of the cache key, 60 s in the code
    MaxTime,        \* bound: the clock
    MaxExtensions,  \* bound: extensions by an order whose row has failed
    MaxMismatches,  \* bound: verifications whose signature does not match
    MaxFaults       \* bound: failed writes and crashes

VARIABLES
    order,        \* of each order: at Razorpay, the ledger row, the purchase event
    checkout,     \* CheckoutContext of each order
    member,       \* the MomentsPremiumMembership document
    copy,         \* User.momentsPremiumExpiresAt, 0 for null
    cachedUntil,  \* when moments_premium:active:<user> expires, 0 when absent
    now,
    req,          \* what each handler is doing
    extended,     \* how often each order extended the membership
    owed,         \* the end of the time paid for
    clobbered,    \* a normalization overtaken by a purchase has written
    mismatches, faults

vars == <<order, checkout, member, copy, cachedUntil, now, req, extended, owed, clobbered,
          mismatches, faults>>
money == <<order, checkout, extended, owed>>
entitlement == <<member, copy, cachedUntil, clobbered>>

NoMember == [status |-> "none", expiry |-> 0]
Idle == [at |-> "idle"]
Later(a, b) == IF a > b THEN a ELSE b

Init ==
    /\ order = [o \in Orders |-> [gate |-> "none", row |-> "none", event |-> "none"]]
    /\ checkout = [o \in Orders |-> "created"]
    /\ member = NoMember /\ copy = 0 /\ cachedUntil = 0 /\ now = 1
    /\ req = [h \in Handlers |-> Idle]
    /\ extended = [o \in Orders |-> 0] /\ owed = 0 /\ clobbered = FALSE
    /\ mismatches = 0 /\ faults = 0

Active(m) == m.status = "active" /\ m.expiry > now

Begin(h, what) == req[h] = Idle /\ req' = [req EXCEPT ![h] = what]

\* From one step of a handler to the next; "idle" ends it.
GoOn(h, from, to) ==
    /\ req[h].at = from
    /\ req' = [req EXCEPT ![h] = IF to = "idle" THEN Idle ELSE [@ EXCEPT !.at = to]]

Fault == faults < MaxFaults /\ faults' = faults + 1

-----------------------------------------------------------------------------
(* The orders *)

\* createMomentsPremiumWebOrder: the order at Razorpay, the pending row, the
\* checkout context; what fails leaves the rest undone.
CreateOrder(o) ==
    /\ order[o].gate = "none"
    /\ \/ /\ order' = [order EXCEPT ![o].gate = "offered", ![o].row = "pending"]
          /\ \/ checkout' = [checkout EXCEPT ![o] = "pending"] /\ UNCHANGED faults
             \/ Fault /\ UNCHANGED checkout
       \/ Fault /\ order' = [order EXCEPT ![o].gate = "offered"] /\ UNCHANGED checkout
    /\ UNCHANGED <<entitlement, now, req, extended, owed, mismatches>>

\* Razorpay, which knows every order it has made.
Capture(o) ==
    /\ order[o].gate = "offered"
    /\ order' = [order EXCEPT ![o].gate = "captured"]
    /\ UNCHANGED <<checkout, entitlement, now, req, extended, owed, mismatches, faults>>

\* A signature that does not match fails checkout and row, whatever they are.
VerifyMismatch(o) ==
    /\ order[o].gate # "none" /\ mismatches < MaxMismatches
    /\ mismatches' = mismatches + 1
    /\ checkout' = [checkout EXCEPT ![o] = "failed"]
    /\ order' = [order EXCEPT ![o].row = IF @ = "none" THEN @ ELSE "failed"]
    /\ UNCHANGED <<entitlement, now, req, extended, owed, faults>>

\* verifyMomentsPremiumWebPayment of a captured payment, its row found.
Verify(h, o) ==
    /\ order[o].gate = "captured" /\ order[o].row # "none"
    /\ Begin(h, [at |-> "finalize", by |-> "verify", order |-> o])
    /\ UNCHANGED <<money, entitlement, now, mismatches, faults>>

\* handleMomentsPremiumRazorpayWebhook, delivered until it is answered.
ReceiveWebhook(h, o) ==
    /\ order[o].gate = "captured" /\ order[o].event # "processed"
    /\ order' = [order EXCEPT ![o].event = "received"]
    /\ Begin(h, [at |-> "finalize", by |-> "webhook", order |-> o])
    /\ UNCHANGED <<checkout, entitlement, now, extended, owed, mismatches, faults>>

\* The row is read outside the transaction; a completed one ends it.
ReadRow(h) ==
    /\ req[h].at = "finalize"
    /\ LET row == order[req[h].order].row IN
       req' = [req EXCEPT ![h] = [at |-> IF row = "completed" THEN "record" ELSE "transaction",
                                  by |-> req[h].by, order |-> req[h].order, row |-> row]]
    /\ UNCHANGED <<money, entitlement, now, mismatches, faults>>

\* Mutant: a membership that is still active starts again from now.
ExtendedFromNow(m) == [status |-> "active", expiry |-> now + Duration]

Extended(m) == [status |-> "active", expiry |-> (IF Active(m) THEN m.expiry ELSE now) + Duration]

\* Mutant: the copy is left to the next status request.
CommitNoCopy(h, o) ==
    /\ GoOn(h, "transaction", "bust")
    /\ o = req[h].order /\ req[h].row # "pending" /\ extended[o] < MaxExtensions
    /\ req[h].row = "none" => order[o].row = "none"
    /\ member' = Extended(member)
    /\ order' = [order EXCEPT ![o].row = IF req[h].row = "none" THEN "completed" ELSE @]
    /\ extended' = [extended EXCEPT ![o] = @ + 1]
    /\ owed' = Later(owed, now) + Duration
    /\ UNCHANGED <<checkout, copy, cachedUntil, now, clobbered, mismatches, faults>>

\* Mutant: a row that was made meanwhile does not stop the transaction.
CommitAnyway(h, o) ==
    /\ GoOn(h, "transaction", "bust")
    /\ o = req[h].order /\ req[h].row # "pending" /\ extended[o] < MaxExtensions
    /\ member' = Extended(member) /\ copy' = member'.expiry
    /\ order' = [order EXCEPT ![o].row = IF req[h].row = "none" THEN "completed" ELSE @]
    /\ extended' = [extended EXCEPT ![o] = @ + 1]
    /\ owed' = Later(owed, now) + Duration
    /\ UNCHANGED <<checkout, cachedUntil, now, clobbered, mismatches, faults>>

\* Membership, copy and, when none was read, a completed row with its unique
\* transactionId are written together.  A row read as failed stays failed.
Commit(h, o) ==
    /\ GoOn(h, "transaction", "bust")
    /\ o = req[h].order /\ req[h].row # "pending" /\ extended[o] < MaxExtensions
    /\ req[h].row = "none" => order[o].row = "none"
    /\ member' = Extended(member) /\ copy' = member'.expiry
    /\ order' = [order EXCEPT ![o].row = IF req[h].row = "none" THEN "completed" ELSE @]
    /\ extended' = [extended EXCEPT ![o] = @ + 1]
    /\ owed' = Later(owed, now) + Duration
    /\ UNCHANGED <<checkout, cachedUntil, now, clobbered, mismatches, faults>>

\* It aborts on a row made meanwhile, and always for a row read as pending: it
\* was read lean and has no save().
Abort(h) ==
    /\ GoOn(h, "transaction", "idle")
    /\ \/ /\ req[h].row = "pending" \/ (req[h].row = "none" /\ order[req[h].order].row # "none")
          /\ UNCHANGED faults
       \/ Fault
    /\ UNCHANGED <<money, entitlement, now, mismatches>>

\* invalidateMomentsPremiumCache
Bust(h) ==
    /\ GoOn(h, "bust", "record")
    /\ cachedUntil' = 0
    /\ UNCHANGED <<money, member, copy, clobbered, now, mismatches, faults>>

\* recordCheckoutResult, or the event of the webhook.
Record(h) ==
    /\ GoOn(h, "record", "idle")
    /\ LET o == req[h].order IN
       IF req[h].by = "verify"
       THEN checkout' = [checkout EXCEPT ![o] = "success"] /\ UNCHANGED order
       ELSE order' = [order EXCEPT ![o].event = "processed"] /\ UNCHANGED checkout
    /\ UNCHANGED <<entitlement, now, extended, owed, mismatches, faults>>

-----------------------------------------------------------------------------
(* The membership read, normalized and cached *)

Lapsed == member.status = "active" /\ ~ Active(member)

\* isMomentsPremiumActive, when the key does not answer.
IsActive(h) ==
    /\ cachedUntil <= now
    /\ Begin(h, [at |-> IF Lapsed THEN "expire" ELSE "cache", member |-> member])
    /\ UNCHANGED <<money, entitlement, now, mismatches, faults>>

\* getMomentsPremiumStatus does not use the key; it normalizes too.
GetStatus(h) ==
    /\ Lapsed
    /\ Begin(h, [at |-> "expire"])
    /\ UNCHANGED <<money, entitlement, now, mismatches, faults>>

\* normalizeExpiredMembership: three writes, by id alone.
Expire(h) ==
    /\ GoOn(h, "expire", "forget")
    /\ member' = [member EXCEPT !.status = "expired"]
    /\ clobbered' = (clobbered \/ Active(member))
    /\ UNCHANGED <<money, copy, cachedUntil, now, mismatches, faults>>

Forget(h) ==
    /\ GoOn(h, "forget", "uncache")
    /\ copy' = 0
    /\ clobbered' = (clobbered \/ Active(member))
    /\ UNCHANGED <<money, member, cachedUntil, now, mismatches, faults>>

Uncache(h) ==
    /\ GoOn(h, "uncache", "idle")
    /\ cachedUntil' = 0
    /\ UNCHANGED <<money, member, copy, clobbered, now, mismatches, faults>>

\* Mutant: what was read is cached without a look at the clock.
LivesUntilRead(m) == IF m.status = "active" THEN Later(m.expiry, now + Floor) ELSE 0

\* cacheActive: until the expiry of the membership that was read, and at least
\* Floor; no key when it is not active by now.
LivesUntil(m) == IF Active(m) THEN Later(m.expiry, now + Floor) ELSE 0

WriteCache(h) ==
    /\ GoOn(h, "cache", "idle")
    /\ cachedUntil' = LivesUntil(req[h].member)
    /\ UNCHANGED <<money, member, copy, clobbered, now, mismatches, faults>>

-----------------------------------------------------------------------------
Tick ==
    /\ now < MaxTime /\ now' = now + 1
    /\ UNCHANGED <<money, entitlement, req, mismatches, faults>>

Crash(h) ==
    /\ req[h] # Idle /\ req' = [req EXCEPT ![h] = Idle] /\ Fault
    /\ UNCHANGED <<money, entitlement, now, mismatches>>

Next ==
    \/ \E o \in Orders : CreateOrder(o) \/ Capture(o) \/ VerifyMismatch(o)
    \/ \E h \in Handlers :
          \/ \E o \in Orders : Verify(h, o) \/ ReceiveWebhook(h, o) \/ Commit(h, o)
          \/ ReadRow(h) \/ Abort(h) \/ Bust(h) \/ Record(h)
          \/ IsActive(h) \/ GetStatus(h) \/ Expire(h) \/ Forget(h) \/ Uncache(h) \/ WriteCache(h)
          \/ Crash(h)
    \/ Tick

Spec == Init /\ [][Next]_vars

-----------------------------------------------------------------------------
\* As long as no signature has failed a row, verifications and webhooks of the
\* same order extend the membership once, and only with the completed row; a
\* checkout or an event that reports success belongs to such an order.
OrdersCountOnce ==
    /\ mismatches = 0 => \A o \in Orders : extended[o] = IF order[o].row = "completed" THEN 1 ELSE 0
    /\ \A o \in Orders : checkout[o] = "success" \/ order[o].event = "processed" => extended[o] > 0

\* Two orders at once lose no time the user has paid for, and the copy on the
\* user is never another date than the membership's; unless a status request
\* that saw the old membership lapsed writes over a new one.
PaidTimeIsKept ==
    /\ copy \in {0, member.expiry}
    /\ clobbered \/ (member.expiry = owed /\ (Active(member) => copy = owed))

\* The same exception apart, the key answers for less than the shortest life of
\* a key after the end of the membership.
CacheWithinGrace == clobbered \/ (cachedUntil > 0 => cachedUntil < member.expiry + Floor)
=============================================================================
