------------------------------ MODULE Outbox ------------------------------
(***************************************************************************)
(* The outbox of billing events and the call history it projects.          *)
(*                                                                         *)
(* One call ends, may fail to settle, and settles; each of these puts an   *)
(* event into the outbox.  Workers take the cluster lock (SET NX with a    *)
(* TTL, renewed by a heartbeat), claim events in the order of creation and *)
(* dispatch them to the projector, which writes one history row per party. *)
(* The settlement transaction writes the same rows itself.                 *)
(***************************************************************************)
EXTENDS Integers, Sequences

CONSTANTS Workers,     \* executions of the worker's tick, on any replica
          None,
          MaxRetries,  \* DOMAIN_EVENT_MAX_RETRIES
          MaxCrashes,  \* bound on crashes
          UseOutbox,   \* BILLING_OUTBOX_PROJECTION_ENABLED and DOMAIN_EVENTS_ENABLED
          MayFail,     \* whether the settlement may be given up
          Replays      \* whether an operator replays events

Events == {"ending", "failed", "settled"}
Parties == {"user", "creator"}
Inline == "inline"   \* a projection made by the request that ends the call

VARIABLES order,    \* the outbox by createdAt
          st,       \* status of each event
          retry,    \* retryCount
          old,      \* events claimed longer than DOMAIN_EVENT_CLAIM_TTL_MS ago
          lock,     \* DOMAIN_EVENT_WORKER_LOCK_KEY: whose token it holds
          w,        \* where each worker is, and with which event
          row,      \* settlementStatus of the history rows
          call,     \* the call itself
          ran,      \* events that were dispatched to their end
          crashes

vars == <<order, st, retry, old, lock, w, row, call, ran, crashes>>
outbox == <<order, st, retry, old>>
history == <<row, ran>>

\* What an event and a row of the history may be.
Statuses == {"none", "pending", "processing", "processed", "dead"}
RowStates == {"none", "pending", "settled", "failed"}
\* Where a worker is, with which event, and how often that was tried before.
Works == [at : {"off", "reset", "claim", "check", "user", "creator", "mark"},
          ev : Events \cup {None}, n : 0 .. MaxRetries]

Off == [at |-> "off", ev |-> None, n |-> 0]
Busy == {p \in Workers : w[p] # Off}

Init == /\ order = <<>>
        /\ st = [e \in Events |-> "none"] /\ retry = [e \in Events |-> 0] /\ old = {}
        /\ lock = None
        /\ w = [p \in Workers \cup {Inline} |-> Off]
        /\ row = [o \in Parties |-> "none"]
        /\ call = "live"
        /\ ran = {}
        /\ crashes = 0

(***************************************************************************)
(* The call.                                                               *)
(***************************************************************************)
\* persistDomainEvent: the key is unique per event and call.
Persist(e) == IF st[e] = "none"
              THEN order' = Append(order, e) /\ st' = [st EXCEPT ![e] = "pending"]
              ELSE UNCHANGED <<order, st>>

\* enqueueCallBillingProjectionEvent.
Enqueue(e) == IF UseOutbox THEN Persist(e) ELSE UNCHANGED <<order, st>>

\* Phase D of finalizeCallEnd, or phase A: the pending rows are written by
\* the request itself.
EndCall == /\ call = "live" /\ call' = "ended"
           /\ IF UseOutbox THEN Persist("ending") /\ UNCHANGED w
                           ELSE w' = [w EXCEPT ![Inline] = [at |-> "check", ev |-> "ending", n |-> 0]] /\ UNCHANGED <<order, st>>
           /\ UNCHANGED <<retry, old, lock, history, crashes>>

\* moveCallToRecoveryDeadLetter.
GiveUp == /\ MayFail /\ UseOutbox /\ call = "ended" /\ call' = "dead"
          /\ Enqueue("failed")
          /\ UNCHANGED <<retry, old, lock, w, history, crashes>>

\* settleCall's transaction writes both rows ...
Settle == /\ call \in {"ended", "dead"} /\ call' = "settling"
          /\ row' = [o \in Parties |-> "settled"]
          /\ UNCHANGED <<outbox, lock, w, ran, crashes>>

\* ... and finalizeCallSession enqueues the event after it.
EnqueueSettled == /\ call = "settling" /\ call' = "settled"
                  /\ Enqueue("settled")
                  /\ UNCHANGED <<retry, old, lock, w, history, crashes>>

(***************************************************************************)
(* withDistributedLock.                                                    *)
(***************************************************************************)
\* The TTL passes: heartbeats were delayed or failed, or the holder is gone.
LockExpires == /\ lock # None /\ lock' = None
               /\ UNCHANGED <<outbox, w, history, call, crashes>>

\* The interval of the worker fires when its last tick is over.
MayTick(p) == w[p] = Off

Tick(p) == /\ MayTick(p) /\ lock = None /\ lock' = p
           /\ w' = [w EXCEPT ![p].at = "reset"]
           /\ UNCHANGED <<outbox, history, call, crashes>>

\* SET XX renews whatever key is there with the own token.
Heartbeat(p) == /\ p \in Busy /\ lock # None /\ lock' = p
                /\ UNCHANGED <<outbox, w, history, call, crashes>>

\* The Lua script deletes the key only while it holds the own token.
Release(p) == /\ lock' = IF lock = p THEN None ELSE lock
              /\ w' = [w EXCEPT ![p] = Off]

(***************************************************************************)
(* processPendingDomainEvents.                                             *)
(***************************************************************************)
\* Claims of a holder that died stay with it.
ResetNothing(p) == /\ w[p].at = "reset"
                   /\ w' = [w EXCEPT ![p].at = "claim"]
                   /\ UNCHANGED <<outbox, lock, history, call, crashes>>

ResetStale(p) == /\ w[p].at = "reset"
                 /\ st' = [e \in Events |-> IF st[e] = "processing" /\ e \in old THEN "pending" ELSE st[e]]
                 /\ old' = {}
                 /\ w' = [w EXCEPT ![p].at = "claim"]
                 /\ UNCHANGED <<order, retry, lock, history, call, crashes>>

\* findOneAndUpdate in the order of createdAt: the first event that waits.
Oldest == {order[i] : i \in {j \in DOMAIN order :
    st[order[j]] = "pending" /\ \A k \in 1 .. j - 1 : st[order[k]] # "pending"}}

\* Takes the event out of the outbox before its handler ran.
ClaimAndForget(p) == \E e \in Oldest :
    /\ w[p].at = "claim"
    /\ st' = [st EXCEPT ![e] = "processed"]
    /\ w' = [w EXCEPT ![p] = [at |-> "check", ev |-> e, n |-> retry[e]]]
    /\ UNCHANGED <<order, retry, old, lock, history, call, crashes>>

Claim(p) == \E e \in Oldest :
    /\ w[p].at = "claim"
    /\ st' = [st EXCEPT ![e] = "processing"]
    /\ old' = old \ {e}
    /\ w' = [w EXCEPT ![p] = [at |-> "check", ev |-> e, n |-> retry[e]]]
    /\ UNCHANGED <<order, retry, lock, history, call, crashes>>

NothingToClaim(p) == /\ w[p].at = "claim" /\ Oldest = {}
                     /\ Release(p)
                     /\ UNCHANGED <<outbox, history, call, crashes>>

ClaimAges(e) == /\ st[e] = "processing" /\ e \notin old
                /\ old' = old \cup {e}
                /\ UNCHANGED <<order, st, retry, lock, w, history, call, crashes>>

\* The catch block swallows whatever the projection threw.
Done(p) == w' = [w EXCEPT ![p] = IF p = Inline THEN Off ELSE [@ EXCEPT !.at = "mark"]]
Count(e) == ran' = ran \cup {e}

(***************************************************************************)
(* projectCallHistoryFromBillingEvent, upsertPendingCallHistoryOnEnding.   *)
(***************************************************************************)
\* ending: nothing to do once a row is settled.
CheckEnding(p) == /\ w[p].at = "check" /\ w[p].ev = "ending"
                  /\ IF \E o \in Parties : row[o] = "settled"
                     THEN Done(p) /\ Count("ending")
                     ELSE w' = [w EXCEPT ![p].at = "user"] /\ UNCHANGED ran
                  /\ UNCHANGED <<outbox, lock, row, call, crashes>>

\* An upsert by call and owner only.
UpsertPendingAlways(p) == \E o \in Parties :
    /\ w[p].at = o
    /\ row' = [row EXCEPT ![o] = "pending"]
    /\ IF o = "user" THEN w' = [w EXCEPT ![p].at = "creator"] /\ UNCHANGED ran ELSE Done(p) /\ Count("ending")
    /\ UNCHANGED <<outbox, lock, call, crashes>>

\* The pending row of a party, unless it is settled.
PendingRow(o) == [row EXCEPT ![o] = IF @ = "settled" THEN @ ELSE "pending"]

\* The filter leaves settled rows out; the insert that follows meets the
\* unique index and throws.
UpsertPending(p) == \E o \in Parties :
    /\ w[p].at = o
    /\ row' = PendingRow(o)
    /\ IF o = "user" /\ row[o] # "settled"
       THEN w' = [w EXCEPT ![p].at = "creator"] /\ UNCHANGED ran
       ELSE Done(p) /\ Count("ending")
    /\ UNCHANGED <<outbox, lock, call, crashes>>

\* settled: the payload carries a Firebase UID as userMongoId and no creator,
\* so resolveParties throws a CastError before any update.
ProjectSettled(p) == /\ w[p].at = "check" /\ w[p].ev = "settled"
                     /\ Done(p) /\ Count("settled")
                     /\ UNCHANGED <<outbox, lock, row, call, crashes>>

\* failed_settlement: every row of the call, whatever its status.  Without a
\* session in Redis the payload has no parties and the projection throws.
ProjectFailed(p) == /\ w[p].at = "check" /\ w[p].ev = "failed"
                    /\ Done(p) /\ Count("failed")
                    /\ \/ row' = [o \in Parties |-> IF row[o] = "none" THEN "none" ELSE "failed"]
                       \/ UNCHANGED row
                    /\ UNCHANGED <<outbox, lock, call, crashes>>

Project(p) == CheckEnding(p) \/ UpsertPending(p) \/ ProjectSettled(p) \/ ProjectFailed(p)

MarkProcessed(p) == /\ w[p].at = "mark"
                    /\ st' = [st EXCEPT ![w[p].ev] = "processed"]
                    /\ old' = old \ {w[p].ev}
                    /\ w' = [w EXCEPT ![p] = [at |-> "claim", ev |-> None, n |-> 0]]
                    /\ UNCHANGED <<order, retry, lock, history, call, crashes>>

\* The update to processed fails and the one in the catch block succeeds; it
\* counts from what was read with the claim.
MarkRetry(p) == LET n == w[p].n + 1 IN
    /\ w[p].at = "mark"
    /\ retry' = [retry EXCEPT ![w[p].ev] = n]
    /\ st' = [st EXCEPT ![w[p].ev] = IF n >= MaxRetries THEN "dead" ELSE "pending"]
    /\ old' = old \ {w[p].ev}
    /\ w' = [w EXCEPT ![p] = [at |-> "claim", ev |-> None, n |-> 0]]
    /\ UNCHANGED <<order, lock, history, call, crashes>>

Work(p) == \/ ResetStale(p) \/ Claim(p) \/ NothingToClaim(p)
           \/ Project(p) \/ MarkProcessed(p) \/ MarkRetry(p)

\* A replica dies: its key and its claim stay.
Crash(p) == /\ p \in Busy /\ crashes < MaxCrashes
            /\ crashes' = crashes + 1
            /\ w' = [w EXCEPT ![p] = Off]
            /\ UNCHANGED <<outbox, lock, history, call>>

\* postReplayDomainEvent: for an administrator, of any event that was claimed.
MayReplay(e) == Replays /\ st[e] \in {"processing", "processed", "dead"}

\* replayDomainEvent, whatever the status.
Replay(e) == /\ MayReplay(e)
             /\ st' = [st EXCEPT ![e] = "pending"]
             /\ retry' = [retry EXCEPT ![e] = 0]
             /\ UNCHANGED <<order, old, lock, w, history, call, crashes>>

Next == \/ EndCall \/ GiveUp \/ Settle \/ EnqueueSettled \/ LockExpires
        \/ \E p \in Workers : Tick(p) \/ Heartbeat(p) \/ Work(p) \/ Crash(p)
        \/ Project(Inline)
        \/ \E e \in Events : ClaimAges(e) \/ Replay(e)

Spec == Init /\ [][Next]_vars

----------------------------------------------------------------------------
\* Events, rows and workers have the shapes of their types.
TypeOK == /\ order \in Seq(Events)
          /\ st \in [Events -> Statuses]
          /\ retry \in [Events -> 0 .. MaxRetries] /\ old \subseteq Events
          /\ lock \in Workers \cup {None}
          /\ w \in [Workers \cup {Inline} -> Works]
          /\ row \in [Parties -> RowStates] /\ ran \subseteq Events
          /\ call \in {"live", "ended", "dead", "settling", "settled"}

\* Once the settlement has committed, the rows say so: no delayed, repeated
\* or overlapping projection takes it back.
SettledShown == call \in {"settling", "settled"} => \A o \in Parties : row[o] = "settled"

\* No event leaves the outbox as processed before its handler has run to its
\* end, whatever crashes and whoever reclaims it (processPendingDomainEvents).
ProcessedMeansRun == \A e \in Events : st[e] = "processed" => e \in ran

\* An event waits in the outbox or in somebody's hands.
Unhandled(e) == st[e] \in {"pending", "processing"}
=============================================================================
