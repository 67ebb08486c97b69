---------------------------- MODULE Termination ----------------------------
(***************************************************************************)
(* The forced end of one call: forceTerminateCall, which asks for the      *)
(* settlement and tells Stream that the call has ended, and the BullMQ job *)
(* that tells it again after a failure.  A lease in Redis lets one of them *)
(* call Stream at a time; a marker tells that Stream knows.                *)
(*                                                                         *)
(* isBullmqBillingEnabled is constantly true: the retries of               *)
(* billing-termination-redis-retry never run.                              *)
(***************************************************************************)
EXTENDS Naturals, FiniteSets

CONSTANTS Paths,        \* executions of forceTerminateCall at a time
          MaxAttempts   \* BILLING_TERMINATION_RETRY_ATTEMPTS

VARIABLES marker,     \* call:ended:<call>
          lease,      \* billing:mark_ended_lease:<call>
          requested,  \* the claim on the settlement
          runs,       \* finalizations triggered under that claim
          active,     \* the billing session is there and not terminal
          stream,     \* the call at Stream: "live" or "ended"
          job,        \* the job terminate-<call>: its state and attempts made
          at,         \* where each path and the worker are
          owes,       \* a call to Stream has failed, and none has succeeded since
          gaveUp      \* why there is no further attempt

vars == <<marker, lease, requested, runs, active, stream, job, at, owes, gaveUp>>
keys == <<marker, lease, requested, runs>>

Worker == "worker"
Processes == Paths \cup {Worker}
NoJob == [state |-> "none", made |-> 0]

Init == /\ marker = FALSE /\ lease = FALSE /\ requested = FALSE /\ runs = 0
        /\ active = TRUE /\ stream = "live" /\ job = NoJob
        /\ at = [h \in Processes |-> "idle"]
        /\ owes = FALSE /\ gaveUp = {}

Go(h, from, to) == at[h] = from /\ at' = [at EXCEPT ![h] = to]

\* A path ends; a job returns to BullMQ.
Over(h) == IF h = Worker THEN "return" ELSE "idle"

\* Those between the lease and its release.
Holding == {h \in Processes : at[h] \in {"claim", "check", "call", "mark", "release", "failed"}}

-----------------------------------------------------------------------------
\* A tick or a failed start forces the end; both parties are told to hang up.
ForceTerminateCall(h) ==
    /\ h \in Paths /\ Go(h, "idle", "marker")
    /\ UNCHANGED <<keys, active, stream, job, owes, gaveUp>>

\* The worker takes the job.
TakeJob ==
    /\ job.state = "waiting" /\ Go(Worker, "idle", "marker")
    /\ job' = [job EXCEPT !.state = "active"]
    /\ UNCHANGED <<keys, active, stream, owes, gaveUp>>

\* hasCallEndedMarker
CheckMarker(h) ==
    /\ Go(h, "marker", IF marker THEN Over(h) ELSE "lease")
    /\ UNCHANGED <<keys, active, stream, job, owes, gaveUp>>

\* Mutant: whoever does not get the lease tidies it away.
TakeLeaseTidily(h) ==
    /\ Go(h, "lease", IF lease THEN Over(h) ELSE IF h = Worker THEN "check" ELSE "claim")
    /\ lease' = ~ lease
    /\ gaveUp' = IF lease /\ h = Worker THEN gaveUp \cup {"deduped"} ELSE gaveUp
    /\ UNCHANGED <<marker, requested, runs, active, stream, job, owes>>

\* tryAcquireMarkEndedLease.  A job that does not get it is done with.
TakeLease(h) ==
    /\ Go(h, "lease", IF lease THEN Over(h) ELSE IF h = Worker THEN "check" ELSE "claim")
    /\ lease' = TRUE
    /\ gaveUp' = IF lease /\ h = Worker THEN gaveUp \cup {"deduped"} ELSE gaveUp
    /\ UNCHANGED <<marker, requested, runs, active, stream, job, owes>>

\* Mutant: the claim is set again.
ClaimAgain(h) ==
    /\ Go(h, "claim", "call")
    /\ requested' = TRUE /\ runs' = runs + 1
    /\ UNCHANGED <<marker, lease, active, stream, job, owes, gaveUp>>

\* tryClaimSettlementRequested: who gets it triggers the finalization; who does
\* not returns and leaves the lease to its TTL.
Claim(h) ==
    /\ Go(h, "claim", IF requested THEN "idle" ELSE "call")
    /\ requested' = TRUE /\ runs' = IF requested THEN runs ELSE runs + 1
    /\ UNCHANGED <<marker, lease, active, stream, job, owes, gaveUp>>

\* The billing worker after a tick that stops claims the settlement too.
TickStops ==
    /\ active /\ ~ requested
    /\ requested' = TRUE /\ runs' = runs + 1
    /\ UNCHANGED <<marker, lease, active, stream, job, at, owes, gaveUp>>

\* isCallActive: the worker does not call for a session that is over.
CheckActive ==
    /\ Go(Worker, "check", IF active THEN "call" ELSE "release")
    /\ UNCHANGED <<keys, active, stream, job, owes, gaveUp>>

\* Mutant: the marker is set before Stream has answered.
MarkFirst(h) ==
    /\ at[h] = "call" /\ marker' = TRUE
    /\ \/ at' = [at EXCEPT ![h] = "mark"] /\ stream' = "ended" /\ owes' = FALSE
       \/ at' = [at EXCEPT ![h] = "failed"] /\ UNCHANGED stream /\ owes' = (stream = "live")
    /\ UNCHANGED <<lease, requested, runs, active, job, gaveUp>>

\* markStreamCallEnded: ended, or not found, which counts as ended; or an error
\* or no answer in 6 s, after which Stream may have ended the call or not.
Call(h) ==
    /\ at[h] = "call"
    /\ \/ at' = [at EXCEPT ![h] = "mark"] /\ stream' = "ended" /\ owes' = FALSE
       \/ at' = [at EXCEPT ![h] = "failed"] /\ stream' \in {stream, "ended"} /\ owes' = (stream' = "live")
    /\ UNCHANGED <<keys, active, job, gaveUp>>

\* setCallEndedMarker; when it throws, the call to Stream counts as failed.
Mark(h) ==
    /\ \/ Go(h, "mark", "release") /\ marker' = TRUE
       \/ Go(h, "mark", "failed") /\ UNCHANGED marker
    /\ UNCHANGED <<lease, requested, runs, active, stream, job, owes, gaveUp>>

Release(h) ==
    /\ Go(h, "release", Over(h))
    /\ lease' = FALSE
    /\ UNCHANGED <<marker, requested, runs, active, stream, job, owes, gaveUp>>

\* The job is completed; its record stays.
Complete ==
    /\ Go(Worker, "return", "idle")
    /\ job' = [job EXCEPT !.state = "completed"]
    /\ UNCHANGED <<keys, active, stream, owes, gaveUp>>

\* A job that throws is tried again until its attempts are used up.
Thrown == IF job.made + 1 < MaxAttempts THEN [state |-> "waiting", made |-> job.made + 1]
          ELSE [state |-> "failed", made |-> MaxAttempts]

\* The lease is released; a path enqueues a job, a job throws.
Fail(h) ==
    /\ Go(h, "failed", IF h = Worker THEN "idle" ELSE "replace")
    /\ lease' = FALSE
    /\ job' = IF h = Worker THEN Thrown ELSE job
    /\ gaveUp' = IF h = Worker /\ Thrown.state = "failed" THEN gaveUp \cup {"exhausted"} ELSE gaveUp
    /\ UNCHANGED <<marker, requested, runs, active, stream, owes>>

\* Mutant: an old job is left where it is.
ReplaceNothing(h) ==
    /\ Go(h, "replace", "add")
    /\ gaveUp' = IF job.state = "active" THEN gaveUp ELSE {}
    /\ UNCHANGED <<keys, active, stream, job, owes>>

\* enqueueTerminationRetryJob removes an old job; a running one cannot be.
Replace(h) ==
    /\ Go(h, "replace", "add")
    /\ job' = IF job.state = "active" THEN job ELSE NoJob
    /\ gaveUp' = IF job.state = "active" THEN gaveUp ELSE {}
    /\ UNCHANGED <<keys, active, stream, owes>>

\* Adding a job whose id exists does nothing.  After three failures it is left.
Add(h) ==
    /\ Go(h, "add", "idle")
    /\ \/ job' = (IF job = NoJob THEN [state |-> "waiting", made |-> 0] ELSE job) /\ UNCHANGED gaveUp
       \/ gaveUp' = gaveUp \cup {"unqueued"} /\ UNCHANGED job
    /\ UNCHANGED <<keys, active, stream, owes>>

-----------------------------------------------------------------------------
\* The settlement, or an end of the call from elsewhere.
Settles ==
    /\ active /\ active' = FALSE
    /\ UNCHANGED <<keys, stream, job, at, owes, gaveUp>>

\* The lease lives for 120 s, a call to Stream for 6: it expires only after
\* whoever took it has left it.
LeaseExpires ==
    /\ lease /\ Holding = {} /\ lease' = FALSE
    /\ UNCHANGED <<marker, requested, runs, active, stream, job, at, owes, gaveUp>>

MarkerExpires ==
    /\ marker /\ marker' = FALSE
    /\ UNCHANGED <<lease, requested, runs, active, stream, job, at, owes, gaveUp>>

ClaimExpires ==
    /\ requested /\ requested' = FALSE /\ runs' = 0
    /\ UNCHANGED <<marker, lease, active, stream, job, at, owes, gaveUp>>

\* A process dies; BullMQ puts back a job that was running.
Crash(h) ==
    /\ at[h] # "idle" /\ at' = [at EXCEPT ![h] = "idle"]
    /\ job' = IF h = Worker THEN [job EXCEPT !.state = "waiting"] ELSE job
    /\ gaveUp' = IF h = Worker THEN gaveUp ELSE gaveUp \cup {"crashed"}
    /\ UNCHANGED <<keys, active, stream, owes>>

Next == \/ \E h \in Processes :
             \/ ForceTerminateCall(h) \/ CheckMarker(h) \/ TakeLease(h) \/ Claim(h) \/ Call(h)
             \/ Mark(h) \/ Release(h) \/ Fail(h) \/ Replace(h) \/ Add(h) \/ Crash(h)
        \/ TakeJob \/ Complete \/ CheckActive \/ TickStops \/ Settles
        \/ LeaseExpires \/ MarkerExpires \/ ClaimExpires

Spec == Init /\ [][Next]_vars

-----------------------------------------------------------------------------
\* "only one path calls Stream mark_ended at a time": although the lease is
\* deleted without a look at whose it is.
OneCaller == Cardinality(Holding) <= 1 /\ (Holding # {} => lease)

\* The tick that stops and the forced end it causes trigger one finalization
\* between them as long as the claim stands.
OneFinalization == runs <= 1

\* The marker, which keeps everybody from calling Stream, is set only when the
\* call is over there.
MarkerIsTrue == marker => stream = "ended"

\* A call that Stream still has after a failed attempt is retried as long as the
\* session lasts, unless a job met a lease somebody else held or had left, the
\* attempts are used up, the job could not be added or a process died.
RetryIsQueued ==
    owes => \/ gaveUp # {}
            \/ job.state \in {"waiting", "active"}
            \/ \E h \in Paths : at[h] \in {"failed", "replace", "add"}
            \/ ~ active
=============================================================================
