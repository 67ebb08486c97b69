---------------------------- MODULE VipSchedule ----------------------------
(***************************************************************************)
(* Calls that a VIP schedules with a creator: confirmed by the creator,    *)
(* cancelled by the caller, and announced by the reconciliation job when   *)
(* they are due.  Confirming and cancelling read the call, check it and    *)
(* save the changed fields; the job finds due calls and claims each one.   *)
(***************************************************************************)
EXTENDS Integers, FiniteSets

CONSTANTS Calls,
          Replicas,  \* ticks of the job that overlap when the lock is lost
          Serial     \* whether requests do not overlap

VARIABLES status,      \* ScheduledCallStatus, or "none"
          past,        \* calls whose scheduledAt has passed
          reminded,    \* calls with reminderSentAt
          emits,       \* vip:scheduled_call:due events per call
          confirming,  \* calls read by confirmScheduledCall
          cancelling,  \* calls read by cancelScheduledCall
          due          \* what each tick found

vars == <<status, past, reminded, emits, confirming, cancelling, due>>

Init == /\ status = [c \in Calls |-> "none"]
        /\ past = {} /\ reminded = {} /\ confirming = {} /\ cancelling = {}
        /\ emits = [c \in Calls |-> 0]
        /\ due = [r \in Replicas |-> {}]

\* scheduleCall, confirmScheduledCallHandler and cancelScheduledCallHandler
\* let through what the service then decides.
MaySchedule(c) == status[c] = "none"
MayConfirm(c) == status[c] = "pending_creator" /\ c \notin confirming
MayCancel(c) == status[c] \in {"pending_creator", "confirmed"} /\ c \notin cancelling

Quiet == confirming = {} /\ cancelling = {} /\ \A r \in Replicas : due[r] = {}
MayStart == Serial => Quiet

\* scheduleVipCall: a time at least VIP_SCHEDULE_MIN_LEAD_MINUTES ahead.
Schedule(c) == /\ MaySchedule(c)
               /\ status' = [status EXCEPT ![c] = "pending_creator"]
               /\ UNCHANGED <<past, reminded, emits, confirming, cancelling, due>>

TimePasses(c) == /\ status[c] # "none" /\ c \notin past
                 /\ past' = past \cup {c}
                 /\ UNCHANGED <<status, reminded, emits, confirming, cancelling, due>>

\* Confirms whatever it read.
ConfirmAny(c) == /\ MayStart /\ status[c] # "none" /\ c \notin confirming
                 /\ confirming' = confirming \cup {c}
                 /\ UNCHANGED <<status, past, reminded, emits, cancelling, due>>

Confirm(c) == /\ MayStart /\ MayConfirm(c)
              /\ confirming' = confirming \cup {c}
              /\ UNCHANGED <<status, past, reminded, emits, cancelling, due>>

ConfirmSave(c) == /\ c \in confirming
                  /\ confirming' = confirming \ {c}
                  /\ status' = [status EXCEPT ![c] = "confirmed"]
                  /\ UNCHANGED <<past, reminded, emits, cancelling, due>>

\* By the caller: the check for the creator compares a profile id with a
\* user id and never succeeds.
Cancel(c) == /\ MayStart /\ MayCancel(c)
             /\ cancelling' = cancelling \cup {c}
             /\ UNCHANGED <<status, past, reminded, emits, confirming, due>>

CancelSave(c) == /\ c \in cancelling
                 /\ cancelling' = cancelling \ {c}
                 /\ status' = [status EXCEPT ![c] = "cancelled"]
                 /\ UNCHANGED <<past, reminded, emits, confirming, due>>

\* Looks for calls that are already announced.
FindDueAgain(r) == /\ MayStart /\ due[r] = {}
                   /\ due' = [due EXCEPT ![r] = {c \in past \cap reminded : status[c] = "confirmed"}]
                   /\ due' # due
                   /\ UNCHANGED <<status, past, reminded, emits, confirming, cancelling>>

\* processDueScheduledCalls: at most 20 calls at a time, which are enough.
FindDue(r) == /\ MayStart /\ due[r] = {}
              /\ due' = [due EXCEPT ![r] = {c \in past \ reminded : status[c] = "confirmed"}]
              /\ due' # due
              /\ UNCHANGED <<status, past, reminded, emits, confirming, cancelling>>

\* Announces what it found without a claim.
RemindUnclaimed(r) == \E c \in due[r] :
    /\ due' = [due EXCEPT ![r] = @ \ {c}]
    /\ emits' = [emits EXCEPT ![c] = @ + 1]
    /\ reminded' = reminded \cup {c}
    /\ UNCHANGED <<status, past, confirming, cancelling>>

Remind(r) == \E c \in due[r] :
    /\ due' = [due EXCEPT ![r] = @ \ {c}]
    /\ emits' = IF c \in reminded THEN emits ELSE [emits EXCEPT ![c] = @ + 1]
    /\ reminded' = reminded \cup {c}
    /\ UNCHANGED <<status, past, confirming, cancelling>>

Tick(r) == FindDue(r) \/ Remind(r)

Next == \/ \E c \in Calls : Schedule(c) \/ TimePasses(c) \/ Confirm(c) \/ ConfirmSave(c) \/ Cancel(c) \/ CancelSave(c)
        \/ \E r \in Replicas : Tick(r)

Spec == Init /\ [][Next]_vars

----------------------------------------------------------------------------
\* A call is announced once, even when the ticks of two replicas overlap.
RemindedOnce == \A c \in Calls : emits[c] <= 1

\* A confirmed call nobody was told of.
Unannounced(c) == status[c] = "confirmed" /\ emits[c] = 0

\* A cancelled call stays cancelled.
CancelledStays == \A c \in Calls : status[c] = "cancelled" => status'[c] = "cancelled"
=============================================================================
