---------------------------- MODULE BillingStart ----------------------------
(***************************************************************************)
(* startBillingSession: overlapping requests (socket, HTTP, webhook) start *)
(* the billing of calls to one host.  In Redis: the orchestrator key and   *)
(* the start lock of a call, the lock of a caller and host pair, the       *)
(* active-call slot of each participant, and the session, which is seeded, *)
(* promoted and then activated.  A call:ended may arrive at any time.      *)
(***************************************************************************)
EXTENDS Naturals

CONSTANTS
    Executions,  \* concurrent requests
    Calls,       \* call ids
    Users,       \* callers
    Host,        \* the creator all calls go to
    NoCall,      \* an absent key
    MaxStarts,   \* bound: requests per execution slot over all
    MaxStalls    \* bound: start locks that expire under a slow holder, and crashes

VARIABLES
    caller,      \* who makes each call
    orchestrator,\* calls whose orchestrator key is set
    lock,        \* call -> execution whose token is in the start lock, or NoCall
    pair,        \* user -> call in the callpair key with the host, or NoCall
    slot,        \* participant -> call in the active-call slot, or NoCall
    session,     \* call -> what the session key holds
    pendingEnd,  \* calls with a deferred end
    ended,       \* call -> how far the call:ended handler is
    settled,     \* calls with a settled tombstone
    scheduled,   \* calls with a billing job
    exec,        \* execution -> where it is, and whether it has lost its start
                 \* lock, or one that has wrote the session meanwhile
    starts, stalls

vars == <<caller, orchestrator, lock, pair, slot, session, pendingEnd, ended, settled,
          scheduled, exec, starts, stalls>>
ends == <<pendingEnd, ended, settled, scheduled>>
locks == <<orchestrator, lock, pair, slot>>
bounds == <<caller, starts, stalls>>

Idle == [at |-> "idle", call |-> NoCall, seen |-> NoCall, who |-> Host, retried |-> FALSE,
         late |-> FALSE]
Participants == Users \cup {Host}
Participant(c) == {caller[c], Host}

Init ==
    /\ caller \in [Calls -> Users]
    /\ orchestrator = {} /\ lock = [c \in Calls |-> NoCall]
    /\ pair = [u \in Users |-> NoCall] /\ slot = [u \in Participants |-> NoCall]
    /\ session = [c \in Calls |-> "none"]
    /\ pendingEnd = {} /\ ended = [c \in Calls |-> "no"]
    /\ settled = {} /\ scheduled = {}
    /\ exec = [p \in Executions |-> Idle]
    /\ starts = 0 /\ stalls = 0

GoTo(p, at) == exec' = [exec EXCEPT ![p].at = at]
At(p, at) == exec[p].at = at

\* p goes on after a write to the session of its call.
Writes(p, at) ==
    exec' = [q \in Executions |->
        CASE q = p -> [exec[p] EXCEPT !.at = at]
          [] q /= p -> [exec[q] EXCEPT !.late = @ \/ (exec[p].late /\ exec[q].call = exec[p].call)]]

Billing(c) == session[c] \in {"promoted", "active"}

\* A key that names this call may be taken over: no session, a terminal one,
\* or one that has been STARTING for too long.
Orphan(c) == session[c] \in {"none", "failed", "staleSeed"}

-----------------------------------------------------------------------------
(* one request per call *)

\* Who loses the orchestrator key but finds no session drops the key and
\* claims again; with a session it only replays billing:started.
Begin(p, c) ==
    /\ exec[p] = Idle /\ starts < MaxStarts /\ starts' = starts + 1
    /\ orchestrator' = orchestrator \cup {c}
    /\ IF c \notin orchestrator THEN exec' = [exec EXCEPT ![p] = [Idle EXCEPT !.at = "lock", !.call = c]]
       ELSE IF session[c] = "none"
            THEN exec' = [exec EXCEPT ![p] = [Idle EXCEPT !.at = "drop", !.call = c]]
            ELSE UNCHANGED exec
    /\ UNCHANGED <<caller, lock, pair, slot, session, ends, stalls>>

DropOrchestrator(p) ==
    /\ At(p, "drop")
    /\ orchestrator' = orchestrator \ {exec[p].call}
    /\ GoTo(p, "reclaim")
    /\ UNCHANGED <<lock, pair, slot, session, ends, bounds>>

ReclaimOrchestrator(p) ==
    /\ At(p, "reclaim")
    /\ orchestrator' = orchestrator \cup {exec[p].call}
    /\ IF exec[p].call \in orchestrator
       THEN exec' = [exec EXCEPT ![p] = Idle] ELSE GoTo(p, "lock")
    /\ UNCHANGED <<lock, pair, slot, session, ends, bounds>>

\* Mutant: the start lock is set without NX.
AcquireStartLockAlways(p) ==
    /\ At(p, "lock")
    /\ lock' = [lock EXCEPT ![exec[p].call] = p]
    /\ GoTo(p, "session")
    /\ UNCHANGED <<orchestrator, pair, slot, session, ends, bounds>>

AcquireStartLock(p) ==
    /\ At(p, "lock")
    /\ IF lock[exec[p].call] = NoCall
       THEN lock' = [lock EXCEPT ![exec[p].call] = p] /\ GoTo(p, "session")
       ELSE exec' = [exec EXCEPT ![p] = Idle] /\ UNCHANGED lock
    /\ UNCHANGED <<orchestrator, pair, slot, session, ends, bounds>>

\* Back-pressure may turn the request away; an old seed is cleared, a young
\* seed or a live session ends the request.
ReadSession(p) ==
    /\ At(p, "session")
    /\ LET c == exec[p].call IN
       \/ GoTo(p, "unlock") /\ UNCHANGED session
       \/ /\ session[c] \in {"none", "staleSeed"}
          /\ session' = [session EXCEPT ![c] = "none"]
          /\ GoTo(p, "pair")
    /\ UNCHANGED <<locks, ends, bounds>>

-----------------------------------------------------------------------------
(* one call per pair and per participant *)

TakePair(p) ==
    /\ At(p, "pair")
    /\ LET u == caller[exec[p].call] IN
       IF pair[u] = NoCall
       THEN pair' = [pair EXCEPT ![u] = exec[p].call] /\ GoTo(p, "slots")
       ELSE /\ GoTo(p, IF exec[p].retried THEN "unlock" ELSE "stalePair")
            /\ UNCHANGED pair
    /\ UNCHANGED <<orchestrator, lock, slot, session, ends, bounds>>

\* tryClearStaleCallpairLock: read whose lock it is and look at its session ...
ReadStalePair(p) ==
    /\ At(p, "stalePair")
    /\ LET c == pair[caller[exec[p].call]] IN
       exec' = [exec EXCEPT ![p].at = IF c /= NoCall /\ Orphan(c) THEN "releasePair" ELSE "unlock",
                            ![p].seen = c]
    /\ UNCHANGED <<locks, session, ends, bounds>>

\* ... release it if it is still that call's ...
ReleasePair(p) ==
    /\ At(p, "releasePair")
    /\ pair' = [u \in Users |-> IF u = caller[exec[p].call] /\ pair[u] = exec[p].seen
                                THEN NoCall ELSE pair[u]]
    /\ GoTo(p, "deletePair")
    /\ UNCHANGED <<orchestrator, lock, slot, session, ends, bounds>>

\* ... and delete whatever is there then.
DeletePair(p) ==
    /\ At(p, "deletePair")
    /\ pair' = [pair EXCEPT ![caller[exec[p].call]] = NoCall]
    /\ exec' = [exec EXCEPT ![p].at = "pair", ![p].retried = TRUE]
    /\ UNCHANGED <<orchestrator, lock, slot, session, ends, bounds>>

\* Mutant: only the caller's slot is looked at.
ReserveSlotsCallerOnly(p) ==
    /\ At(p, "slots") \/ At(p, "slotsAgain")
    /\ LET c == exec[p].call IN
       IF slot[caller[c]] \in {NoCall, c}
       THEN /\ slot' = [u \in Participants |-> IF u \in Participant(c) THEN c ELSE slot[u]]
            /\ GoTo(p, "seed")
       ELSE GoTo(p, "unlock") /\ UNCHANGED slot
    /\ UNCHANGED <<orchestrator, lock, pair, session, ends, bounds>>

\* Lua: both slots are free or already this call's.  A second refusal ends
\* the request; the pair lock stays.
ReserveSlots(p) ==
    /\ At(p, "slots") \/ At(p, "slotsAgain")
    /\ LET c == exec[p].call IN
       IF \A u \in Participant(c) : slot[u] \in {NoCall, c}
       THEN /\ slot' = [u \in Participants |-> IF u \in Participant(c) THEN c ELSE slot[u]]
            /\ GoTo(p, "seed")
       ELSE /\ exec' = IF At(p, "slots")
                       THEN [exec EXCEPT ![p].at = "orphan", ![p].who = caller[c]]
                       ELSE [exec EXCEPT ![p].at = "unlock"]
            /\ UNCHANGED slot
    /\ UNCHANGED <<orchestrator, lock, pair, session, ends, bounds>>

AfterOrphan(p) ==
    IF exec[p].who = Host THEN GoTo(p, "slotsAgain")
    ELSE exec' = [exec EXCEPT ![p].at = "orphan", ![p].who = Host]

\* tryClearOrphanActiveCallSlots: the caller's slot, then the host's.
ReadOrphanSlot(p) ==
    /\ At(p, "orphan")
    /\ LET c == slot[exec[p].who] IN
       IF c /= NoCall /\ Orphan(c) THEN GoTo(p, "deleteSlot") ELSE AfterOrphan(p)
    /\ UNCHANGED <<locks, session, ends, bounds>>

DeleteOrphanSlot(p) ==
    /\ At(p, "deleteSlot")
    /\ slot' = [slot EXCEPT ![exec[p].who] = NoCall]
    /\ AfterOrphan(p)
    /\ UNCHANGED <<orchestrator, lock, pair, session, ends, bounds>>

-----------------------------------------------------------------------------
(* the session *)

SeedSession(p) ==
    /\ At(p, "seed")
    /\ session' = [session EXCEPT ![exec[p].call] = "seed"]
    /\ GoTo(p, "promote")
    /\ UNCHANGED <<locks, ends, bounds>>

\* releaseActiveCallSlotsIfOurs
ReleaseSlotsIfOurs(c) ==
    slot' = [u \in Participants |-> IF slot[u] = c /\ u \in Participant(c) THEN NoCall ELSE slot[u]]

\* promoteBootstrappingSession: a session someone else promoted, or a Redis
\* error, ends the request with everything left as it is; a missing user or
\* host throws; participants that do not match or cannot pay lose their slots
\* and are terminated.
RefusePromotion(p) ==
    /\ At(p, "promote")
    /\ LET c == exec[p].call IN
       \/ GoTo(p, "unlock") /\ UNCHANGED <<slot, ended>>
       \/ ~Billing(c) /\ GoTo(p, "throw") /\ UNCHANGED <<slot, ended>>
       \/ /\ ~Billing(c) /\ ReleaseSlotsIfOurs(c)
          /\ ended' = [ended EXCEPT ![c] = "ending"]
          /\ GoTo(p, "unlock")
    /\ UNCHANGED <<orchestrator, lock, pair, session, pendingEnd, settled, scheduled, bounds>>

\* The full session, with price, balances and duration limit.
PromoteSession(p) ==
    /\ At(p, "promote") /\ ~Billing(exec[p].call)
    /\ session' = [session EXCEPT ![exec[p].call] = "promoted"]
    /\ Writes(p, "activate")
    /\ UNCHANGED <<locks, ends, bounds>>

\* The session is written over whatever the key holds by then.
ActivateSession(p) ==
    /\ At(p, "activate")
    /\ session' = [session EXCEPT ![exec[p].call] = "active"]
    /\ Writes(p, "pendingEnd")
    /\ UNCHANGED <<locks, ends, bounds>>

\* deleteBillingSessionRedisKeys and the job's removal at the end of finalizeCallEnd
Settle(c) ==
    /\ session' = [session EXCEPT ![c] = "none"]
    /\ ReleaseSlotsIfOurs(c)
    /\ pair' = [u \in Users |-> IF pair[u] = c THEN NoCall ELSE pair[u]]
    /\ settled' = settled \cup {c} /\ scheduled' = scheduled \ {c}

\* consumePendingCallEndIfAny
ConsumePendingEnd(p) ==
    /\ At(p, "pendingEnd")
    /\ LET c == exec[p].call IN
       IF c \in pendingEnd
       THEN pendingEnd' = pendingEnd \ {c} /\ Settle(c) /\ GoTo(p, "unlock")
       ELSE GoTo(p, "schedule") /\ UNCHANGED <<pendingEnd, session, slot, pair, settled, scheduled>>
    /\ UNCHANGED <<orchestrator, lock, ended, bounds>>

\* scheduleBillingJob, or recoverBillingScheduleForCall after it fails
Schedule(p) ==
    /\ At(p, "schedule")
    /\ scheduled' = scheduled \cup {exec[p].call}
    /\ GoTo(p, "unlock")
    /\ UNCHANGED <<locks, session, pendingEnd, ended, settled, bounds>>

\* The catch of a start that threw before its session was final; the socket
\* handler then also drops a deferred end.
ThrowStart(p) ==
    /\ At(p, "throw")
    /\ LET c == exec[p].call IN
       /\ session' = [session EXCEPT ![c] = "none"]
       /\ orchestrator' = orchestrator \ {c}
       /\ ReleaseSlotsIfOurs(c)
       /\ pendingEnd' = pendingEnd \ {c} /\ ended' = [ended EXCEPT ![c] = "no"]
    /\ GoTo(p, "unlock")
    /\ UNCHANGED <<lock, pair, settled, scheduled, bounds>>

Unlock(p) ==
    /\ At(p, "unlock")
    /\ LET c == exec[p].call IN
       lock' = [lock EXCEPT ![c] = IF @ = p THEN NoCall ELSE @]
    /\ exec' = [exec EXCEPT ![p] = Idle]
    /\ UNCHANGED <<orchestrator, pair, slot, session, ends, bounds>>

-----------------------------------------------------------------------------
(* the end of a call, time and faults *)

\* call:ended finds a session to finalize, or waits in vain and defers.
CallEnded(c) ==
    /\ ended[c] = "no"
    /\ ended' = [ended EXCEPT ![c] = IF session[c] = "none" THEN "deferring" ELSE "ending"]
    /\ UNCHANGED <<locks, session, pendingEnd, settled, scheduled, exec, bounds>>

DeferEnd(c) ==
    /\ ended[c] = "deferring"
    /\ ended' = [ended EXCEPT ![c] = "deferred"]
    /\ pendingEnd' = pendingEnd \cup {c}
    /\ UNCHANGED <<locks, session, settled, scheduled, exec, bounds>>

\* finalizeCallEnd settles; a settlement that fails for good leaves FAILED.
FinalizeCallEnd(c) ==
    /\ ended[c] = "ending"
    /\ ended' = [ended EXCEPT ![c] = "done"]
    /\ \/ Settle(c)
       \/ /\ session' = [session EXCEPT ![c] = "failed"] /\ scheduled' = scheduled \ {c}
          /\ ReleaseSlotsIfOurs(c) /\ UNCHANGED <<pair, settled>>
    /\ UNCHANGED <<orchestrator, lock, pendingEnd, exec, bounds>>

\* Mutant: the billing job does not look for a deferred end.
TickBlind(c) ==
    /\ c \in scheduled /\ c \in settled
    /\ scheduled' = scheduled \ {c}
    /\ UNCHANGED <<orchestrator, lock, pair, slot, session, pendingEnd, ended, settled, exec, bounds>>

\* A billing job of a settled call is cancelled; otherwise it consumes a
\* deferred end.
Tick(c) ==
    /\ c \in scheduled
    /\ \/ /\ c \in settled /\ scheduled' = scheduled \ {c}
          /\ UNCHANGED <<pair, slot, session, pendingEnd, settled>>
       \/ /\ c \notin settled /\ c \in pendingEnd /\ session[c] = "active"
          /\ pendingEnd' = pendingEnd \ {c} /\ Settle(c)
    /\ UNCHANGED <<orchestrator, lock, ended, exec, bounds>>

SeedAges(c) ==
    /\ session[c] = "seed" /\ \A p \in Executions : exec[p].call /= c
    /\ session' = [session EXCEPT ![c] = "staleSeed"]
    /\ UNCHANGED <<locks, ends, exec, bounds>>

OrchestratorExpires(c) ==
    /\ c \in orchestrator
    /\ orchestrator' = orchestrator \ {c}
    /\ UNCHANGED <<lock, pair, slot, session, ends, exec, bounds>>

StartLockExpires(c) ==
    /\ lock[c] /= NoCall /\ stalls < MaxStalls
    /\ lock' = [lock EXCEPT ![c] = NoCall]
    /\ exec' = [exec EXCEPT ![lock[c]].late = TRUE]
    /\ stalls' = stalls + 1
    /\ UNCHANGED <<caller, orchestrator, pair, slot, session, ends, starts>>

\* The process dies: its start lock expires, the rest stays.
Crash(p) ==
    /\ exec[p] /= Idle /\ stalls < MaxStalls
    /\ stalls' = stalls + 1
    /\ lock' = [c \in Calls |-> IF lock[c] = p THEN NoCall ELSE lock[c]]
    /\ exec' = [exec EXCEPT ![p] = Idle]
    /\ UNCHANGED <<caller, orchestrator, pair, slot, session, ends, starts>>

-----------------------------------------------------------------------------
Continue(p) ==
    \/ DropOrchestrator(p) \/ ReclaimOrchestrator(p) \/ AcquireStartLock(p)
    \/ ReadSession(p) \/ TakePair(p) \/ ReadStalePair(p) \/ ReleasePair(p) \/ DeletePair(p)
    \/ ReserveSlots(p) \/ ReadOrphanSlot(p) \/ DeleteOrphanSlot(p)
    \/ SeedSession(p) \/ RefusePromotion(p) \/ PromoteSession(p) \/ ActivateSession(p)
    \/ ConsumePendingEnd(p) \/ Schedule(p) \/ ThrowStart(p) \/ Unlock(p)

Next ==
    \/ \E p \in Executions : Continue(p) \/ Crash(p) \/ \E c \in Calls : Begin(p, c)
    \/ \E c \in Calls : \/ CallEnded(c) \/ DeferEnd(c) \/ FinalizeCallEnd(c) \/ Tick(c)
                        \/ SeedAges(c) \/ OrchestratorExpires(c) \/ StartLockExpires(c)

Spec == Init /\ [][Next]_vars

-----------------------------------------------------------------------------
TypeOK ==
    /\ caller \in [Calls -> Users]
    /\ orchestrator \subseteq Calls /\ lock \in [Calls -> Executions \cup {NoCall}]
    /\ pair \in [Users -> Calls \cup {NoCall}]
    /\ slot \in [Participants -> Calls \cup {NoCall}]
    /\ session \in [Calls -> {"none", "seed", "staleSeed", "promoted", "active", "failed"}]
    /\ pendingEnd \subseteq Calls /\ settled \subseteq Calls /\ scheduled \subseteq Calls
    /\ ended \in [Calls -> {"no", "deferring", "deferred", "ending", "done"}]
    /\ \A p \in Executions : exec[p].call \in Calls \cup {NoCall} /\ exec[p].who \in Participants
    /\ starts \in 0..MaxStarts /\ stalls \in 0..MaxStalls

\* The session of a call whose end has not been processed: the billing job
\* charges for it.
Charged(c) == Billing(c) /\ c \notin settled /\ ended[c] /= "done"

\* Requests that come one after the other, dying at any step, never bill two
\* calls that share a participant at the same time.
OneBilledCall ==
    \A c, d \in Calls :
        c /= d /\ Charged(c) /\ Charged(d) => Participant(c) \cap Participant(d) = {}

\* Duplicate requests of one call do not throw a session that is being billed
\* back to its seed, which would lose what it has charged: none but one that
\* has lost the start lock, which it does not look at again, or that overlaps
\* with one that has.
NeverReseeded ==
    \A c \in Calls : Billing(c) /\ session'[c] = "seed" =>
        \E p \in Executions : At(p, "seed") /\ exec[p].call = c /\ exec[p].late

\* A call:ended came while its call was being set up.
EndDeferred(c) == session[c] = "active" /\ ended[c] = "deferred"
IsSettled(c) == c \in settled
=============================================================================
