------------------------------ MODULE Checkin ------------------------------
(***************************************************************************)
(* The daily check-in of one user: a cycle of rewards, one a day, and a    *)
(* reminder a day on every worker's timer.  A claim keeps the day it was   *)
(* received on, its transaction may commit after midnight.                 *)
(***************************************************************************)
EXTENDS Naturals, Sequences, FiniteSets

CONSTANTS Claims,     \* claims that overlap
          Timers,     \* workers that run the reminder job
          Cycle,      \* CHECKIN_CYCLE_DAYS
          LastDay,    \* bound on the days
          Spanning    \* whether a claim may commit on a later day

Never == 0
Days == 1 .. LastDay

VARIABLES today,
          state,   \* DailyCheckInState
          ledger,  \* days with a daily_checkin_ row
          order,   \* the rewards credited, in their order
          token,   \* whether the user has a push token
          req,     \* the day of each claim under way
          tick,    \* reminder ticks under way
          sent     \* reminders sent on each day

vars == <<today, state, ledger, order, token, req, tick, sent>>

\* ensureState: the first of the cycle is next.
Fresh == [next |-> 1, last |-> Never, index |-> Never, reminded |-> Never]

Init == /\ today = 1
        /\ state = Fresh
        /\ ledger = {} /\ order = <<>> /\ token = FALSE
        /\ req = [c \in Claims |-> Never]
        /\ tick = [w \in Timers |-> [at |-> "idle", day |-> Never]]
        /\ sent = [d \in Days |-> 0]

\* claimDailyCheckIn takes the day from the server's clock.
Claim(c) == /\ req[c] = Never
            /\ req' = [req EXCEPT ![c] = today]
            /\ UNCHANGED <<today, state, ledger, order, token, tick, sent>>

\* Starts the cycle again a day late.
AfterLate(i) == IF i > Cycle THEN 1 ELSE i + 1
After(i) == IF i >= Cycle THEN 1 ELSE i + 1

\* Forgets the day of the claim.
CommitForgetful(c) == LET d == req[c] IN
    /\ d # Never /\ req' = [req EXCEPT ![c] = Never]
    /\ IF state.last = d \/ d \in ledger
       THEN UNCHANGED <<state, ledger, order>>
       ELSE /\ ledger' = ledger \cup {d} /\ order' = Append(order, state.next)
            /\ state' = [state EXCEPT !.index = state.next, !.next = After(state.next)]
    /\ UNCHANGED <<today, token, tick, sent>>

\* Relies on the state alone.
CommitStateOnly(c) == LET d == req[c] IN
    /\ d # Never /\ req' = [req EXCEPT ![c] = Never]
    /\ IF state.last = d
       THEN UNCHANGED <<state, ledger, order>>
       ELSE /\ ledger' = ledger \cup {d} /\ order' = Append(order, state.next)
            /\ state' = [state EXCEPT !.last = d, !.index = state.next, !.next = After(state.next)]
    /\ UNCHANGED <<today, token, tick, sent>>

\* The transaction: row, credit and state, or nothing.  A second row for the
\* day aborts it.
Commit(c) == LET d == req[c] IN
    /\ d # Never /\ req' = [req EXCEPT ![c] = Never]
    /\ IF state.last = d \/ d \in ledger
       THEN UNCHANGED <<state, ledger, order>>
       ELSE /\ ledger' = ledger \cup {d} /\ order' = Append(order, state.next)
            /\ state' = [state EXCEPT !.last = d, !.index = state.next, !.next = After(state.next)]
    /\ UNCHANGED <<today, token, tick, sent>>

\* registerPushToken and unregisterPushToken.
Token == token' = ~ token /\ UNCHANGED <<today, state, ledger, order, req, tick, sent>>

(***************************************************************************)
(* runDailyCheckInReminderTick: search, slot and message.                  *)
(***************************************************************************)
Eligible(d) == state.last # d /\ state.reminded # d

Find(w) == /\ tick[w].at = "idle" /\ token /\ Eligible(today)
           /\ tick' = [tick EXCEPT ![w] = [at |-> "slot", day |-> today]]
           /\ UNCHANGED <<today, state, ledger, order, token, req, sent>>

\* Marks without looking again.
SlotUnclaimed(w) == LET d == tick[w].day IN
    /\ tick[w].at = "slot"
    /\ state' = [state EXCEPT !.reminded = d] /\ tick' = [tick EXCEPT ![w].at = "send"]
    /\ UNCHANGED <<today, ledger, order, token, req, sent>>

\* claimReminderSlot.
Slot(w) == LET d == tick[w].day IN
    /\ tick[w].at = "slot"
    /\ \/ Eligible(d) /\ state' = [state EXCEPT !.reminded = d] /\ tick' = [tick EXCEPT ![w].at = "send"]
       \/ ~ Eligible(d) /\ tick' = [tick EXCEPT ![w].at = "idle"] /\ UNCHANGED state
    /\ UNCHANGED <<today, ledger, order, token, req, sent>>

\* sendDailyCheckInReminders, or the worker stops before.
Send(w) == /\ tick[w].at = "send"
           /\ tick' = [tick EXCEPT ![w].at = "idle"]
           /\ \E n \in {0, 1} : sent' = [sent EXCEPT ![tick[w].day] = @ + n]
           /\ UNCHANGED <<today, state, ledger, order, token, req>>

\* Reminders go out at eleven and ticks are over at midnight.
Midnight == /\ today < LastDay /\ today' = today + 1
            /\ \A w \in Timers : tick[w].at = "idle"
            /\ Spanning \/ \A c \in Claims : req[c] = Never
            /\ UNCHANGED <<state, ledger, order, token, req, tick, sent>>

Next == \/ \E c \in Claims : Claim(c) \/ Commit(c)
        \/ \E w \in Timers : Find(w) \/ Slot(w) \/ Send(w)
        \/ Token \/ Midnight

Spec == Init /\ [][Next]_vars

----------------------------------------------------------------------------
\* A day is paid at most once, also when claims commit in another order than
\* they were received.
OnceADay == Len(order) = Cardinality(ledger)

\* The rewards come in the order of the cycle and none is left out.
InCycle == \A i \in DOMAIN order : order[i] = ((i - 1) % Cycle) + 1

\* Nobody is reminded twice on a day, by however many workers.
RemindedOnce == \A d \in Days : sent[d] <= 1

\* What was claimed today shows as claimed, so that a second claim is answered
\* and not refused.
ClaimedShows == today \in ledger => state.last = today
=============================================================================
