---------------------------- MODULE CallLifecycle ----------------------------
(***************************************************************************)
(* Video calls of one creator, as Stream's webhooks, the clients' end and  *)
(* the reconciliation job see them: the Call documents, the creator's      *)
(* active-call slot and base availability in Redis.  Webhooks are handled  *)
(* asynchronously, in any order, and may be lost.                          *)
(***************************************************************************)
EXTENDS Integers, FiniteSets

CONSTANTS
    Calls,
    NoCall,
    Overlap,      \* bound: handlers at once
    Kinds,        \* bound: the handlers that run; the webhooks of others are lost
    Toggles,      \* whether the creator connects and disconnects
    Lossy,        \* whether webhooks get lost, rather than late for ever
    Slow          \* whether handlers outlive the TTL of the finalizer's lock

VARIABLES
    stream,     \* what Stream knows of a call
    mail,       \* webhooks on their way
    doc,        \* Call.status, or "none"
    isSettled,  \* Call.isSettled
    session,    \* billing session: none, live or done (its terminal snapshot)
    ending,     \* deferred end: the call:ending and pending-end keys
    slot,       \* active:call:user:{creator}
    base,       \* creator:availability
    snap,       \* pre-call availability snapshot
    busy,       \* phases that marked the creator busy
    lock, done, \* keys of finalizeCallEnd
    at,         \* where each handler is
    mem,        \* what it has read and still needs
    past        \* for the properties: the call that took the slot last, unless
                \* the end of another or its own rejection has deleted it
                \* since, and the calls whose lock expired under its holder

vars == <<stream, mail, doc, isSettled, session, ending, slot, base, snap, busy, lock, done,
          at, mem, past>>
record == <<doc, isSettled>>
presence == <<slot, base, snap, busy>>
finalizer == <<lock, done>>

Webhooks == {"ring", "accept", "start", "end", "sessionEnd"}
Handlers == Webhooks \cup {"socket", "recon"}  \* the client's call:ended, the reconciliation
Nothing == [doc |-> "none", settled |-> FALSE, slot |-> NoCall]
Base == {"online", "offline"}

\* derivePresenceState
State == IF slot /= NoCall THEN "on_call" ELSE base

Unfinished(c) == doc[c] \in {"ringing", "accepted"} \/ (doc[c] = "ended" /\ ~isSettled[c])

\* isCreatorActiveCallSlotLive, with and without the grace of a call that has
\* no document yet.
SweepLive(c) ==
    /\ ~ending[c] /\ session[c] /= "done"
    /\ session[c] = "live" \/ Unfinished(c)

SlotLive(c) ==
    \/ SweepLive(c)
    \/ ~ending[c] /\ session[c] = "none" /\ doc[c] = "none" /\ snap[c] /= "none"

\* The call's slot if it is live.
Unstale(c) == IF c /= NoCall /\ ~SlotLive(c) THEN NoCall ELSE c

Init ==
    /\ stream = [c \in Calls |-> "idle"] /\ mail = [c \in Calls |-> {}]
    /\ doc = [c \in Calls |-> "none"] /\ isSettled = [c \in Calls |-> FALSE]
    /\ session = [c \in Calls |-> "none"] /\ ending = [c \in Calls |-> FALSE]
    /\ slot = NoCall /\ base \in Base
    /\ snap = [c \in Calls |-> "none"] /\ busy = [c \in Calls |-> {}]
    /\ lock = [c \in Calls |-> FALSE] /\ done = [c \in Calls |-> FALSE]
    /\ at = [c \in Calls |-> [h \in Handlers |-> "idle"]]
    /\ mem = [c \in Calls |-> [h \in Handlers |-> Nothing]]
    /\ past = [slot |-> NoCall, slow |-> {}]

GoTo(c, h, where) == at' = [at EXCEPT ![c][h] = where]
Running(c) == {h \in Handlers : at[c][h] /= "idle"}
MayRun == Cardinality({x \in Calls \X Handlers : at[x[1]][x[2]] /= "idle"}) < Overlap

-----------------------------------------------------------------------------
(* Stream and the clients *)

Dial(c) ==
    /\ stream[c] = "idle"
    /\ stream' = [stream EXCEPT ![c] = "ringing"]
    /\ mail' = [mail EXCEPT ![c] = @ \cup ({"ring"} \cap Kinds)]
    /\ UNCHANGED <<record, session, ending, presence, finalizer, at, mem, past>>

Answer(c) ==
    /\ stream[c] = "ringing"
    /\ stream' = [stream EXCEPT ![c] = "live"]
    /\ mail' = [mail EXCEPT ![c] = @ \cup ({"accept", "start"} \cap Kinds)]
    /\ UNCHANGED <<record, session, ending, presence, finalizer, at, mem, past>>

\* What a call that ends at Stream sends.
EndMail(c) == ({"end"} \cup (IF stream[c] = "live" THEN {"sessionEnd"} ELSE {})) \cap Kinds

HangUp(c) ==
    /\ stream[c] \in {"ringing", "live"}
    /\ stream' = [stream EXCEPT ![c] = "ended"]
    /\ mail' = [mail EXCEPT ![c] = @ \cup EndMail(c)]
    /\ UNCHANGED <<record, session, ending, presence, finalizer, at, mem, past>>

LoseWebhook(c, h) ==
    /\ Lossy /\ h \in mail[c]
    /\ mail' = [mail EXCEPT ![c] = @ \ {h}]
    /\ UNCHANGED <<stream, record, session, ending, presence, finalizer, at, mem, past>>

\* The creator's app connects or disconnects: transitionCreatorPresence.
Toggle ==
    /\ Toggles
    /\ base' \in Base \ {base}
    /\ slot' = Unstale(slot)
    /\ UNCHANGED <<stream, mail, record, session, ending, snap, busy, finalizer, at, mem, past>>

-----------------------------------------------------------------------------
(* webhooks *)

\* persistAndApplyIdempotency: one delivery of an event is routed.
Deliver(c, h) ==
    /\ h \in mail[c] \cap Kinds /\ at[c][h] = "idle" /\ MayRun
    /\ mail' = [mail EXCEPT ![c] = @ \ {h}]
    /\ GoTo(c, h, IF h \in {"end", "sessionEnd"} THEN "finalize" ELSE "record")
    /\ UNCHANGED <<stream, record, session, ending, presence, finalizer, mem, past>>

\* The call takes the slot, whosever it is.
TakeSlot(c) == slot' = c /\ past' = [past EXCEPT !.slot = c]

\* markCreatorBusyForCall: once for each phase.
MarkBusy(c, phase) ==
    IF phase \in busy[c] THEN UNCHANGED <<presence, past>>
    ELSE /\ busy' = [busy EXCEPT ![c] = @ \cup {phase}]
         /\ snap' = [snap EXCEPT ![c] = IF @ = "none" THEN State ELSE @]
         /\ TakeSlot(c)
         /\ UNCHANGED base

\* ensureCallRecordExists, which also marks the creator busy.
EnsureCallRecord(c, h) ==
    /\ at[c][h] = "record"
    /\ IF doc[c] = "none"
       THEN doc' = [doc EXCEPT ![c] = "ringing"] /\ MarkBusy(c, "ringing")
       ELSE UNCHANGED <<doc, presence, past>>
    /\ GoTo(c, h, "handle")
    /\ UNCHANGED <<stream, mail, isSettled, session, ending, finalizer, mem>>

\* markStreamCallEnded, which may fail.
MarkStreamEnded(c) ==
    \/ /\ stream[c] /= "ended"
       /\ stream' = [stream EXCEPT ![c] = "ended"]
       /\ mail' = [mail EXCEPT ![c] = @ \cup EndMail(c)]
    \/ UNCHANGED <<stream, mail>>

\* rejectOverlappingIncomingCallIfNeeded: the other call must have a session.
RejectOverlap(c) ==
    /\ at[c]["ring"] = "handle" /\ slot \notin {NoCall, c} /\ session[slot] /= "none"
    /\ MarkStreamEnded(c)
    /\ GoTo(c, "ring", "finalize")
    /\ UNCHANGED <<record, session, ending, presence, finalizer, mem, past>>

\* A slot without a session is deleted.
DropStaleSlot(c) ==
    /\ at[c]["ring"] = "handle" /\ slot \notin {NoCall, c} /\ session[slot] = "none"
    /\ slot' = NoCall
    /\ UNCHANGED <<stream, mail, record, session, ending, base, snap, busy, finalizer, at, mem, past>>

\* The rest of handleCallRinging: reject unless the creator is online.
RingCreator(c) ==
    /\ at[c]["ring"] = "handle" /\ slot \in {NoCall, c}
    /\ IF State /= "online"
       THEN /\ MarkStreamEnded(c)
            /\ UNCHANGED <<presence, past>>
       ELSE MarkBusy(c, "ringing") /\ UNCHANGED <<stream, mail>>
    /\ GoTo(c, "ring", "idle")
    /\ UNCHANGED <<record, session, ending, finalizer, mem>>

CallAccepted(c) ==
    /\ at[c]["accept"] = "handle"
    /\ MarkBusy(c, "accepted")
    /\ GoTo(c, "accept", "idle")
    /\ UNCHANGED <<stream, mail, record, session, ending, finalizer, mem>>

\* handleSessionStarted reads the call and looks for a session.
ReadCall(c) ==
    /\ at[c]["start"] = "handle"
    /\ IF session[c] = "live"
       THEN MarkBusy(c, "session_started") /\ GoTo(c, "start", "idle") /\ UNCHANGED mem
       ELSE /\ mem' = [mem EXCEPT ![c]["start"].doc = doc[c], ![c]["start"].settled = isSettled[c]]
            /\ GoTo(c, "start", "save") /\ UNCHANGED <<presence, past>>
    /\ UNCHANGED <<stream, mail, record, session, ending, finalizer>>

\* Mutant: the status is set without asking what it was.
SaveStartedAlways(c) ==
    /\ at[c]["start"] = "save"
    /\ doc' = [doc EXCEPT ![c] = "accepted"]
    /\ isSettled' = [isSettled EXCEPT ![c] = @ /\ ~mem[c]["start"].settled]
    /\ MarkBusy(c, "session_started")
    /\ GoTo(c, "start", "bill")
    /\ UNCHANGED <<stream, mail, session, ending, finalizer, mem>>

\* Only what the handler changed is saved: the status if it was ringing.
SaveStarted(c) ==
    /\ at[c]["start"] = "save"
    /\ doc' = [doc EXCEPT ![c] = IF mem[c]["start"].doc = "ringing" THEN "accepted" ELSE @]
    /\ isSettled' = [isSettled EXCEPT ![c] = @ /\ ~mem[c]["start"].settled]
    /\ MarkBusy(c, "session_started")
    /\ GoTo(c, "start", "bill")
    /\ UNCHANGED <<stream, mail, session, ending, finalizer, mem>>

\* startBillingSession: refused once the call is settled, or if another call
\* has the slot; a deferred end is honoured.
StartBilling(c, h) ==
    /\ at[c][h] = "bill"
    /\ IF session[c] = "none" /\ Unstale(slot) \in {NoCall, c}
       THEN /\ session' = [session EXCEPT ![c] = IF ending[c] THEN "done" ELSE "live"]
            /\ IF ending[c] THEN slot' = NoCall /\ UNCHANGED past ELSE TakeSlot(c)
       ELSE UNCHANGED <<session, slot, past>>
    /\ GoTo(c, h, "idle") /\ mem' = [mem EXCEPT ![c][h] = Nothing]
    /\ UNCHANGED <<stream, mail, record, ending, base, snap, busy, finalizer>>

-----------------------------------------------------------------------------
(* the end of a call *)

\* call:ended of a client: finalized, or deferred if there is no session yet.
SocketEnded(c) ==
    /\ "socket" \in Kinds /\ at[c]["socket"] = "idle" /\ stream[c] = "ended" /\ ~ending[c] /\ ~done[c] /\ MayRun
    /\ IF session[c] = "none"
       THEN /\ ending' = [ending EXCEPT ![c] = TRUE]
            /\ doc' = [doc EXCEPT ![c] = IF @ = "none" THEN @ ELSE "ended"]
            /\ GoTo(c, "socket", "restore")
       ELSE GoTo(c, "socket", "finalize") /\ UNCHANGED <<ending, doc>>
    /\ UNCHANGED <<stream, mail, isSettled, session, presence, finalizer, mem, past>>

\* Mutant: the finalizer's lock is taken for granted.
FinalizeCallEndUnlocked(c, h) ==
    /\ at[c][h] = "finalize"
    /\ lock' = [lock EXCEPT ![c] = TRUE] /\ GoTo(c, h, "read")
    /\ UNCHANGED <<stream, mail, record, session, ending, presence, done, mem, past>>

\* finalizeCallEnd: a second caller only repairs the creator's presence.
FinalizeCallEnd(c, h) ==
    /\ at[c][h] = "finalize"
    /\ IF done[c] \/ lock[c] THEN GoTo(c, h, "restore") /\ UNCHANGED lock
       ELSE lock' = [lock EXCEPT ![c] = TRUE] /\ GoTo(c, h, "read")
    /\ UNCHANGED <<stream, mail, record, session, ending, presence, done, mem, past>>

\* Whoever has the lock does not renew it, and releases it unasked.
Finalizing(c) ==
    {h \in Handlers : at[c][h] \in {"read", "free", "settle", "saveSettled", "savePending"}}

LockExpires(c) ==
    /\ Slow /\ lock[c] /\ lock' = [lock EXCEPT ![c] = FALSE]
    /\ past' = [past EXCEPT !.slow = @ \cup {c}]
    /\ UNCHANGED <<stream, mail, record, session, ending, presence, done, at, mem>>

\* The call and, in finalizeCreatorAvailabilityForCall, the slot are read.
ReadForEnd(c, h) ==
    /\ at[c][h] \in {"read", "restore"}
    /\ mem' = [mem EXCEPT ![c][h].doc = IF at[c][h] = "read" THEN doc[c] ELSE @, ![c][h].slot = slot]
    /\ GoTo(c, h, CASE doc[c] /= "none" /\ at[c][h] = "read" -> "free"
                    [] doc[c] /= "none" /\ at[c][h] = "restore" -> "freeOnly"
                    [] doc[c] = "none" /\ at[c][h] = "read" -> "settle"
                    [] doc[c] = "none" /\ at[c][h] = "restore" -> "after")
    /\ UNCHANGED <<stream, mail, record, session, ending, presence, finalizer, past>>

\* finalizeCreatorAvailabilityForCall: delete the slot that was read if it is
\* this call's or not live, and restore the base from the snapshot; leave a
\* newer live call alone.
FreeCreator(c, h) ==
    /\ at[c][h] \in {"free", "freeOnly"}
    /\ LET read == mem[c][h].slot
       IN IF read \notin {NoCall, c} /\ SlotLive(read) THEN UNCHANGED <<slot, base, snap, past>>
          ELSE /\ slot' = IF read = NoCall THEN Unstale(slot) ELSE NoCall
               /\ past' = [past EXCEPT !.slot = IF slot' = NoCall /\ (slot /= c \/ h = "ring")
                                              THEN NoCall ELSE @]
               /\ base' = CASE snap[c] = "offline" -> "offline"
                            [] snap[c] \in {"online", "on_call"} -> "online"
                            [] snap[c] = "none" -> base
               /\ snap' = [snap EXCEPT ![c] = "none"]
    /\ GoTo(c, h, IF at[c][h] = "free" THEN "settle" ELSE "after")
    /\ mem' = [mem EXCEPT ![c][h].slot = NoCall]
    /\ UNCHANGED <<stream, mail, record, session, ending, busy, finalizer>>

\* finalizeCallSession: settled, or left to the retry queue, which a call that
\* never had a session cannot leave.
SettleSession(c, h) ==
    /\ at[c][h] = "settle"
    /\ \/ /\ session[c] /= "none"
          /\ session' = [session EXCEPT ![c] = "done"]
          /\ slot' = IF slot = c THEN NoCall ELSE slot
          /\ GoTo(c, h, "saveSettled")
       \/ /\ session[c] /= "done"
          /\ UNCHANGED <<session, slot>> /\ GoTo(c, h, "savePending")
    /\ UNCHANGED <<stream, mail, record, ending, base, snap, busy, finalizer, mem, past>>

\* Mutant: done is marked although the settlement was left to the queue.
SaveEndedDone(c, h) ==
    /\ at[c][h] \in {"saveSettled", "savePending"}
    /\ doc' = [doc EXCEPT ![c] = IF mem[c][h].doc \notin {"none", "ended"} THEN "ended" ELSE @]
    /\ isSettled' = [isSettled EXCEPT ![c] = @ \/ at[c][h] = "saveSettled"]
    /\ done' = [done EXCEPT ![c] = TRUE] /\ lock' = [lock EXCEPT ![c] = FALSE]
    /\ GoTo(c, h, "after") /\ mem' = [mem EXCEPT ![c][h] = Nothing]
    /\ UNCHANGED <<stream, mail, session, ending, presence, past>>

\* The document that was read is saved as ended.
SaveEnded(c, h) ==
    /\ at[c][h] \in {"saveSettled", "savePending"}
    /\ LET complete == at[c][h] = "saveSettled"
           known == mem[c][h].doc /= "none"
       IN /\ doc' = [doc EXCEPT ![c] = IF known /\ mem[c][h].doc /= "ended" THEN "ended" ELSE @]
          /\ isSettled' = [isSettled EXCEPT ![c] = @ \/ (known /\ complete)]
          /\ done' = [done EXCEPT ![c] = @ \/ complete]
    /\ lock' = [lock EXCEPT ![c] = FALSE]
    /\ GoTo(c, h, "after") /\ mem' = [mem EXCEPT ![c][h] = Nothing]
    /\ UNCHANGED <<stream, mail, session, ending, presence, past>>

\* The rest of handleCallEnded: ended and settled, whatever came of it.
CallEnded(c) == doc' = [doc EXCEPT ![c] = "ended"] /\ isSettled' = [isSettled EXCEPT ![c] = TRUE]

\* The rest of handleSessionEnded.
SessionEnded(c) == IF doc[c] /= "none" /\ ~isSettled[c] THEN CallEnded(c) ELSE UNCHANGED record

AfterEnd(c, h) ==
    /\ at[c][h] = "after"
    /\ CASE h = "end" -> CallEnded(c)
         [] h = "sessionEnd" -> SessionEnded(c)
         [] h \notin {"end", "sessionEnd"} -> UNCHANGED record
    /\ GoTo(c, h, "idle") /\ mem' = [mem EXCEPT ![c][h] = Nothing]
    /\ UNCHANGED <<stream, mail, session, ending, presence, finalizer, past>>

\* The settlement retry queue and the billing watchdog finish a session.
RetrySettlement(c) ==
    /\ session[c] = "live" /\ stream[c] = "ended" /\ Running(c) = {}
    /\ session' = [session EXCEPT ![c] = "done"]
    /\ slot' = IF slot = c THEN NoCall ELSE slot
    /\ UNCHANGED <<stream, mail, record, ending, base, snap, busy, finalizer, at, mem, past>>

-----------------------------------------------------------------------------
(* reconciliation *)

\* Mutant: only Call documents count.
SweepSlotBlind ==
    /\ slot /= NoCall /\ doc[slot] \notin {"ringing"}
    /\ slot' = NoCall
    /\ UNCHANGED <<stream, mail, record, session, ending, base, snap, busy, finalizer, at, mem, past>>

\* repairStaleActiveCallSlotsOnStartup: only a live session counts.
RepairSlotOnStartup ==
    /\ slot /= NoCall /\ session[slot] /= "live"
    /\ slot' = NoCall
    /\ UNCHANGED <<stream, mail, record, session, ending, base, snap, busy, finalizer, at, mem, past>>

\* cleanupOrphanActiveCallSlots
SweepSlot ==
    /\ slot /= NoCall /\ ~SweepLive(slot)
    /\ slot' = NoCall
    /\ UNCHANGED <<stream, mail, record, session, ending, base, snap, busy, finalizer, at, mem, past>>

\* cleanupSettledCreatorBusyDrift: an old settled call.
CleanupSettled(c) ==
    /\ doc[c] = "ended" /\ isSettled[c] /\ slot /= NoCall
    /\ slot = c \/ ~SlotLive(slot)
    /\ slot' = NoCall
    /\ UNCHANGED <<stream, mail, record, session, ending, base, snap, busy, finalizer, at, mem, past>>

\* Mutant: a call that has been accepted is left out.
EnsureBusyRinging(c) ==
    /\ \A d \in Calls : at[d]["recon"] = "idle"
    /\ doc[c] = "ringing" /\ ~ending[c] /\ State /= "on_call"
    /\ TakeSlot(c)
    /\ UNCHANGED <<stream, mail, record, session, ending, base, snap, busy, finalizer, at, mem>>

\* ensureCreatorsWithActiveCallsAreBusy, of the pass that asks Stream later on.
EnsureBusy(c) ==
    /\ \A d \in Calls : at[d]["recon"] = "idle"
    /\ doc[c] \in {"ringing", "accepted"} /\ ~ending[c] /\ State /= "on_call"
    /\ TakeSlot(c)
    /\ UNCHANGED <<stream, mail, record, session, ending, base, snap, busy, finalizer, at, mem>>

\* Mutant: accepted calls are left out.
ReconcileRingingOnly(c) ==
    /\ doc[c] = "ringing" /\ stream[c] = "ended"
    /\ "recon" \in Kinds /\ at[c]["recon"] = "idle" /\ MayRun
    /\ GoTo(c, "recon", "finalize")
    /\ UNCHANGED <<stream, mail, record, session, ending, presence, finalizer, mem, past>>

\* reconcileActiveCalls: Stream is asked about every call that looks active.
ReconcileEnded(c) ==
    /\ doc[c] \in {"ringing", "accepted"} /\ stream[c] = "ended"
    /\ "recon" \in Kinds /\ at[c]["recon"] = "idle" /\ MayRun
    /\ GoTo(c, "recon", "finalize")
    /\ UNCHANGED <<stream, mail, record, session, ending, presence, finalizer, mem, past>>

-----------------------------------------------------------------------------
Handle(c, h) ==
    \/ EnsureCallRecord(c, h) \/ StartBilling(c, h)
    \/ FinalizeCallEnd(c, h) \/ ReadForEnd(c, h) \/ FreeCreator(c, h)
    \/ SettleSession(c, h) \/ SaveEnded(c, h) \/ AfterEnd(c, h)

HandleWebhook(c) ==
    RejectOverlap(c) \/ DropStaleSlot(c) \/ RingCreator(c) \/ CallAccepted(c) \/ ReadCall(c)
    \/ SaveStarted(c)

Reconcile(c) == CleanupSettled(c) \/ EnsureBusy(c) \/ ReconcileEnded(c)

Next ==
    \/ \E c \in Calls : Dial(c) \/ Answer(c) \/ HangUp(c) \/ SocketEnded(c) \/ HandleWebhook(c)
                        \/ Reconcile(c) \/ RetrySettlement(c) \/ LockExpires(c)
    \/ \E c \in Calls, h \in Handlers : LoseWebhook(c, h) \/ Deliver(c, h) \/ Handle(c, h)
    \/ SweepSlot \/ RepairSlotOnStartup \/ Toggle

Spec == Init /\ [][Next]_vars

-----------------------------------------------------------------------------
TypeOK ==
    /\ stream \in [Calls -> {"idle", "ringing", "live", "ended"}]
    /\ mail \in [Calls -> SUBSET Webhooks]
    /\ doc \in [Calls -> {"none", "ringing", "accepted", "ended"}]
    /\ isSettled \in [Calls -> BOOLEAN] /\ ending \in [Calls -> BOOLEAN]
    /\ session \in [Calls -> {"none", "live", "done"}]
    /\ slot \in Calls \cup {NoCall} /\ base \in Base
    /\ snap \in [Calls -> {"none", "online", "offline", "on_call"}]
    /\ busy \in [Calls -> SUBSET {"ringing", "accepted", "session_started"}]
    /\ lock \in [Calls -> BOOLEAN] /\ done \in [Calls -> BOOLEAN]

\* A creator in a billed call that goes on is on_call, never callable, unless
\* another call took the slot since, or ended with the slot it read before, or
\* the call was rejected and Stream did not hear of it:
\* "false-negative online during a live call is not [acceptable]".
GoesOn(c) == session[c] = "live" /\ stream[c] = "live"
NotCallableInCall == \A c \in Calls : GoesOn(c) /\ past.slot = c => State = "on_call"

\* No creator is callable in a billed call that goes on and that looks active;
\* what another call has taken, the reconciliation gives back.
NoneCallable ==
    \A c \in Calls :
        GoesOn(c) /\ doc[c] \in {"ringing", "accepted"} /\ ~ending[c] => State = "on_call"

\* "ended: [], // terminal"
EndedIsTerminal == \A c \in Calls : doc[c] = "ended" => doc'[c] = "ended"

\* One handler at a time finalizes a call whose lock did not expire under its
\* holder; and however many do, the key that keeps further ones away for a
\* quarter of an hour is set for a call whose session is settled.
OneFinalizer == \A c \in Calls \ past.slow : Cardinality(Finalizing(c)) <= 1
DoneIsSettled == \A c \in Calls : done[c] => session[c] = "done"

\* A billed call is over.
BilledIsOver(c) == stream[c] = "ended" /\ session[c] /= "none"
IsFree(c) == slot /= c
=============================================================================
