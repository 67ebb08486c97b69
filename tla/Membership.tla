----------------------------- MODULE Membership -----------------------------
(***************************************************************************)
(* The purchase of one VIP membership and what keeps the membership: the   *)
(* web order, verifyVipWebPayment and the VIP webhook, which both call     *)
(* finalizeVipPurchaseAtomically, the lazy expiry and the Redis cache of   *)
(* isVipActive, and the grants and revocations of an administrator.        *)
(* Moments Premium has a finalizer and a cache of its own: see Premium.    *)
(*                                                                         *)
(* An order buys one plan duration.  The clock read before a transaction   *)
(* is taken to be the clock of its commit, and the clock a cache entry's   *)
(* life is computed from to be that of Redis.                              *)
(***************************************************************************)
EXTENDS Integers

CONSTANTS
    Executions,      \* concurrent requests
    Duration,        \* durationDays of the plan
    Floor,           \* the shortest life of the cache key, 60 s in the code
    MaxTime,         \* bound: the clock
    MaxExtensions,   \* bound: extensions by the order
    MaxGrants,       \* bound: grants of an administrator, who does nothing when it is 0
    MaxMismatches,   \* bound: verifications whose signature does not match
    MaxFaults        \* bound: failed writes and crashes

VARIABLES
    order,       \* the order at Razorpay
    row,         \* status of the ledger row vip_<order>
    event,       \* status of the VipPurchaseEvent
    membership,  \* the VipMembership document
    cachedUntil, \* expiry of the Redis key vip:active:<user>, 0 when absent
    now,
    pc, by,      \* where each execution is, and for whom (verify, webhook, admin)
    seen,        \* what an execution has read: the row's status or the membership
    extended,    \* how often the order extended the membership
    granted,     \* how often an administrator did
    revoked,     \* an administrator has revoked the membership
    mismatches, faults

vars == <<order, row, event, membership, cachedUntil, now, pc, by, seen,
          extended, granted, revoked, mismatches, faults>>
purchase == <<order, row, event, extended>>
bounds == <<granted, revoked, mismatches, faults>>

NoMembership == [status |-> "none", expiry |-> 0]
Statuses == {"none", "pending", "completed", "failed"}

\* The user may already have a membership that ends at time 1.
Init ==
    /\ order = "none" /\ row = "none" /\ event = "none" /\ extended = 0
    /\ membership \in {NoMembership, [status |-> "active", expiry |-> 1]}
    /\ cachedUntil = 0 /\ now = 0
    /\ pc = [p \in Executions |-> "idle"]
    /\ by = [p \in Executions |-> "nobody"]
    /\ seen = [p \in Executions |-> [row |-> "none", membership |-> NoMembership]]
    /\ granted = 0 /\ revoked = FALSE /\ mismatches = 0 /\ faults = 0

GoTo(p, from, to) ==
    pc[p] = from /\ pc' = [pc EXCEPT ![p] = to] /\ UNCHANGED by

Start(p, who, to) ==
    /\ pc[p] = "idle"
    /\ pc' = [pc EXCEPT ![p] = to]
    /\ by' = [by EXCEPT ![p] = who]

\* A webhook marks its event once the purchase is finalized.
Done(p) == IF by[p] = "webhook" THEN "processed" ELSE "idle"

Active(m) == m.status = "active" /\ m.expiry > now

Lapsed(m) == m.status = "active" /\ m.expiry <= now

Later(a, b) == IF a > b THEN a ELSE b

\* The end of an active membership, or now, plus the duration of the plan.
Extended(m) == [status |-> "active", expiry |-> (IF Active(m) THEN m.expiry ELSE now) + Duration]

-----------------------------------------------------------------------------
(* The order and the two ways to finalize it *)

\* createVipWebOrder: the Razorpay order, then the pending row; when that save
\* fails the order stays behind without a row.
CreateOrder(p) ==
    /\ order = "none"
    /\ \/ order' = "offered" /\ row' = "pending" /\ UNCHANGED faults
       \/ faults < MaxFaults /\ faults' = faults + 1 /\ order' = "orphan" /\ UNCHANGED row
    /\ UNCHANGED <<event, extended, membership, cachedUntil, now, pc, by, seen,
                   granted, revoked, mismatches>>

\* Razorpay captures a payment for an order it knows.
Capture ==
    /\ order \in {"offered", "orphan"} /\ order' = "captured"
    /\ UNCHANGED <<row, event, extended, membership, cachedUntil, now, pc, by, seen, bounds>>

\* verifyVipWebPayment, signature and capture in order, the row found.
Verify(p) ==
    /\ order = "captured" /\ row # "none"
    /\ Start(p, "verify", "finalize")
    /\ UNCHANGED <<purchase, membership, cachedUntil, now, seen, bounds>>

\* verifyVipWebPayment, signature mismatch: the row fails whatever its status.
VerifyMismatch(p) ==
    /\ order \in {"offered", "captured"} /\ pc[p] = "idle" /\ mismatches < MaxMismatches
    /\ row' = IF row = "none" THEN row ELSE "failed"
    /\ mismatches' = mismatches + 1
    /\ UNCHANGED <<order, event, extended, membership, cachedUntil, now, pc, by, seen,
                   granted, revoked, faults>>

\* handleVipRazorpayWebhook: nothing for a processed event, else the event is
\* upserted.  Razorpay delivers again what was not answered with success.
ReceiveWebhook(p) ==
    /\ order = "captured" /\ event # "processed"
    /\ event' = "received"
    /\ Start(p, "webhook", "finalize")
    /\ UNCHANGED <<order, row, extended, membership, cachedUntil, now, seen, bounds>>

\* finalizeVipPurchaseAtomically reads the row outside its transaction; a
\* completed row ends it as alreadyProcessed.
ReadRow(p) ==
    /\ GoTo(p, "finalize", IF row = "completed" THEN Done(p) ELSE "transaction")
    /\ seen' = [seen EXCEPT ![p].row = row]
    /\ UNCHANGED <<purchase, membership, cachedUntil, now, bounds>>

\* Mutant: a row that exists by now is overwritten.
CommitOverwrites(p) ==
    /\ seen[p].row # "pending" /\ extended < MaxExtensions
    /\ membership' = Extended(membership)
    /\ extended' = extended + 1
    /\ row' = IF seen[p].row = "none" THEN "completed" ELSE row
    /\ GoTo(p, "transaction", "bust")
    /\ UNCHANGED <<order, event, cachedUntil, now, seen, bounds>>

\* The transaction commits: the membership is extended, and with it the row is
\* created as completed (its transactionId is unique) when none was read.  A
\* row read as failed is left as it is.
Commit(p) ==
    /\ seen[p].row # "pending" /\ extended < MaxExtensions
    /\ seen[p].row = "none" => row = "none"
    /\ membership' = Extended(membership)
    /\ extended' = extended + 1
    /\ row' = IF seen[p].row = "none" THEN "completed" ELSE row
    /\ GoTo(p, "transaction", "bust")
    /\ UNCHANGED <<order, event, cachedUntil, now, seen, bounds>>

\* Mutant: the webhook takes an aborted finalization for done.
AbortAcknowledged(p) ==
    /\ GoTo(p, "transaction", Done(p))
    /\ seen[p].row = "pending" /\ UNCHANGED faults
    /\ UNCHANGED <<purchase, membership, cachedUntil, now, seen, granted, revoked, mismatches>>

\* It aborts: on the unique transactionId, on any database error, and always
\* for a row read as pending, because save() is called on a lean object.
Abort(p) ==
    /\ GoTo(p, "transaction", "idle")
    /\ \/ /\ seen[p].row = "pending" \/ (seen[p].row = "none" /\ row # "none")
          /\ UNCHANGED faults
       \/ faults < MaxFaults /\ faults' = faults + 1
    /\ UNCHANGED <<purchase, membership, cachedUntil, now, seen, granted, revoked, mismatches>>

\* invalidateVipCache; the webhook goes on to mark its event.
BustCache(p) ==
    /\ GoTo(p, "bust", Done(p))
    /\ cachedUntil' = 0
    /\ UNCHANGED <<purchase, membership, now, seen, bounds>>

MarkProcessed(p) ==
    /\ GoTo(p, "processed", "idle")
    /\ event' = "processed"
    /\ UNCHANGED <<order, row, extended, membership, cachedUntil, now, seen, bounds>>

-----------------------------------------------------------------------------
(* isVipActive *)

\* A live cache entry answers; otherwise the membership is read.
ReadMembership(p) ==
    /\ cachedUntil <= now
    /\ Start(p, "reader", "cache")
    /\ seen' = [seen EXCEPT ![p].membership = membership]
    /\ UNCHANGED <<purchase, membership, cachedUntil, now, bounds>>

\* A membership read as lapsed is marked expired, whatever it is by now ...
MarkExpired(p) ==
    /\ Lapsed(seen[p].membership)
    /\ GoTo(p, "cache", "uncache")
    /\ membership' = [membership EXCEPT !.status = "expired"]
    /\ UNCHANGED <<purchase, cachedUntil, now, seen, bounds>>

\* ... and its key deleted.
Uncache(p) ==
    /\ GoTo(p, "uncache", "idle")
    /\ cachedUntil' = 0
    /\ UNCHANGED <<purchase, membership, now, seen, bounds>>

\* Mutant: the floor comes on top of what is left.
LivesUntilAfter(m) == IF Active(m) THEN m.expiry + Floor ELSE 0

\* cacheVipActive: until the expiry that was read, and at least for Floor; no
\* key when the membership is not active by now.
LivesUntil(m) == IF Active(m) THEN Later(m.expiry, now + Floor) ELSE 0

WriteCache(p) ==
    /\ ~ Lapsed(seen[p].membership)
    /\ GoTo(p, "cache", "idle")
    /\ cachedUntil' = LivesUntil(seen[p].membership)
    /\ UNCHANGED <<purchase, membership, now, seen, bounds>>

-----------------------------------------------------------------------------
(* The administrator, the clock, crashes *)

\* grantAdminVipMembership reads the membership and the clock ...
ReadGrant(p) ==
    /\ Start(p, "admin", "grant")
    /\ granted < MaxGrants
    /\ seen' = [seen EXCEPT ![p].membership = Extended(membership)]
    /\ granted' = granted + 1
    /\ UNCHANGED <<purchase, membership, cachedUntil, now, revoked, mismatches, faults>>

\* ... and saves what it computed from it.
Grant(p) ==
    /\ GoTo(p, "grant", "bust")
    /\ membership' = seen[p].membership
    /\ UNCHANGED <<purchase, cachedUntil, now, seen, granted, revoked, mismatches, faults>>

\* revokeAdminVipMembership
Revoke(p) ==
    /\ Start(p, "admin", "bust")
    /\ membership # NoMembership /\ MaxGrants > 0
    /\ membership' = [status |-> "cancelled", expiry |-> now]
    /\ revoked' = TRUE
    /\ UNCHANGED <<purchase, cachedUntil, now, seen, granted, mismatches, faults>>

Tick ==
    /\ now < MaxTime /\ now' = now + 1
    /\ UNCHANGED <<purchase, membership, cachedUntil, pc, by, seen, bounds>>

Crash(p) ==
    /\ pc[p] # "idle" /\ pc' = [pc EXCEPT ![p] = "idle"] /\ UNCHANGED by
    /\ faults < MaxFaults /\ faults' = faults + 1
    /\ UNCHANGED <<purchase, membership, cachedUntil, now, seen, granted, revoked, mismatches>>

Step(p) ==
    \/ ReadRow(p) \/ Commit(p) \/ Abort(p) \/ BustCache(p) \/ MarkProcessed(p)
    \/ MarkExpired(p) \/ Uncache(p) \/ WriteCache(p) \/ Grant(p)

Next ==
    \/ \E p \in Executions :
          \/ CreateOrder(p) \/ Verify(p) \/ VerifyMismatch(p) \/ ReceiveWebhook(p)
          \/ ReadMembership(p) \/ ReadGrant(p) \/ Revoke(p) \/ Step(p) \/ Crash(p)
    \/ Capture \/ Tick

Spec == Init /\ [][Next]_vars

-----------------------------------------------------------------------------

\* The state is well formed.
TypeOK ==
    /\ order \in {"none", "offered", "orphan", "captured"} /\ row \in Statuses
    /\ event \in {"none", "received", "processed"}
    /\ membership \in [status : {"none", "active", "expired", "cancelled"}, expiry : Nat]
    /\ cachedUntil \in Nat /\ now \in 0 .. MaxTime
    /\ extended \in 0 .. MaxExtensions /\ granted \in 0 .. MaxGrants
    /\ seen \in [Executions -> [row : Statuses,
                    membership : [status : {"none", "active", "expired", "cancelled"},
                                  expiry : Nat]]]

\* As long as no verification has failed its row, any number of webhooks and
\* verifications extend the membership once, exactly when the row is completed.
ExtendedOncePerRow ==
    mismatches = 0 => extended = IF row = "completed" THEN 1 ELSE 0

\* VIP_MEMBERSHIP_MISSING_AFTER_COMPLETED_TXN is never thrown, and a processed
\* webhook event belongs to an order that has extended the membership.
CompletedHasMembership ==
    /\ row = "completed" => membership # NoMembership
    /\ event = "processed" => extended > 0

\* isVipActive never answers from its cache for as long as the shortest life of
\* a key past the end of the membership, also when the membership is marked
\* expired late: unless one was revoked or a stale grant overwrote it, or a
\* failed row let its order extend it a third time.
CacheWithinGrace ==
    ~revoked /\ granted = 0 /\ extended <= 2 /\ cachedUntil > 0 =>
        cachedUntil < membership.expiry + Floor
=============================================================================
