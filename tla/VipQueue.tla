----------------------------- MODULE VipQueue -----------------------------
(***************************************************************************)
(* The queue of VIP callers of one busy creator: a sorted set in Redis for *)
(* the order and an entry per caller in MongoDB for the status.  Callers   *)
(* join and leave, the end of a call pops the first caller, a sweep        *)
(* expires entries.  Every operation is several calls, which interleave.   *)
(***************************************************************************)
EXTENDS Integers

CONSTANTS Callers,
          Poppers,     \* ends of calls that pop at once
          None,
          MaxEntries,  \* bound on the entries of a caller
          SweepAlone   \* whether nothing overlaps the sweep

VARIABLES queue,    \* call:queue:<creator>: who is in it, each with those ahead
          entry,    \* the latest entry of each caller, and how often it rang
          made,     \* entries made
          joining,  \* enqueueVipCaller under way
          leaving,  \* leaveCallQueue under way
          pop,      \* popNextQueuedCaller under way
          stale     \* what the sweep found

vars == <<queue, entry, made, joining, leaving, pop, stale>>

\* zrem, and zadd with a score that is later than all others.
Without(S) == [c \in DOMAIN queue \ S |-> queue[c] \ S]
Behind(c) == [d \in DOMAIN queue \cup {c} |-> (IF d = c THEN DOMAIN queue ELSE queue[d]) \ {c}]

Init == /\ queue = [c \in {} |-> {}]
        /\ entry = [c \in Callers |-> [st |-> "none", due |-> FALSE, rings |-> 0]]
        /\ made = [c \in Callers |-> 0]
        /\ joining = [c \in Callers |-> "no"]
        /\ leaving = {}
        /\ pop = [p \in Poppers |-> [at |-> "no", c |-> None]]
        /\ stale = {}

\* What an entry and a pop may be.
Entries == [st : {"none", "waiting", "ringing", "cancelled", "expired"}, due : BOOLEAN, rings : Nat]
Pops == [at : {"no", "remove", "claim"}, c : Callers \cup {None}]

NoneUnderWay == /\ \A c \in Callers : joining[c] = "no"
                /\ leaving = {} /\ stale = {}
                /\ \A p \in Poppers : pop[p].at = "no"
MayStart == SweepAlone => stale = {}
Waits(c) == entry[c].st = "waiting"
Live(c) == Waits(c) /\ ~ entry[c].due

\* enqueueVipCaller: a waiting entry is answered as it is, due or not.
Join(c) == /\ MayStart /\ joining[c] = "no" /\ ~ Waits(c) /\ made[c] < MaxEntries
           /\ joining' = [joining EXCEPT ![c] = "create"]
           /\ UNCHANGED <<queue, entry, made, leaving, pop, stale>>

\* The unique index refuses a second waiting entry.
Create(c) == /\ joining[c] = "create"
             /\ IF Waits(c)
                THEN joining' = [joining EXCEPT ![c] = "no"] /\ UNCHANGED <<entry, made>>
                ELSE /\ entry' = [entry EXCEPT ![c] = [st |-> "waiting", due |-> FALSE, rings |-> 0]]
                     /\ made' = [made EXCEPT ![c] = @ + 1]
                     /\ joining' = [joining EXCEPT ![c] = "add"]
             /\ UNCHANGED <<queue, leaving, pop, stale>>

\* zadd and expire.
Add(c) == /\ joining[c] = "add"
          /\ queue' = Behind(c)
          /\ joining' = [joining EXCEPT ![c] = "no"]
          /\ UNCHANGED <<entry, made, leaving, pop, stale>>

\* leaveCallQueueHandler and leaveCallQueue, for a caller who waits.
MayLeave(c) == c \notin leaving /\ Waits(c)

Leave(c) == /\ MayStart /\ MayLeave(c)
            /\ queue' = Without({c})
            /\ leaving' = leaving \cup {c}
            /\ UNCHANGED <<entry, made, joining, pop, stale>>

LeaveUpdate(c) == /\ c \in leaving
                  /\ leaving' = leaving \ {c}
                  /\ entry' = [entry EXCEPT ![c].st = IF @ = "waiting" THEN "cancelled" ELSE @]
                  /\ UNCHANGED <<queue, made, joining, pop, stale>>

\* popNextQueuedCaller: zrange, zrem and the update of the entry.
PopLook(p) == \E c \in DOMAIN queue :
    /\ MayStart /\ pop[p].at = "no" /\ queue[c] = {}
    /\ pop' = [pop EXCEPT ![p] = [at |-> "remove", c |-> c]]
    /\ UNCHANGED <<queue, entry, made, joining, leaving, stale>>

\* Removes the first of the queue, as zpopmin would.
PopRemoveFirst(p) == /\ pop[p].at = "remove"
                     /\ queue' = Without({c \in DOMAIN queue : queue[c] = {}})
                     /\ pop' = [pop EXCEPT ![p].at = "claim"]
                     /\ UNCHANGED <<entry, made, joining, leaving, stale>>

PopRemove(p) == /\ pop[p].at = "remove"
                /\ queue' = Without({pop[p].c})
                /\ pop' = [pop EXCEPT ![p].at = "claim"]
                /\ UNCHANGED <<entry, made, joining, leaving, stale>>

\* Rings the caller it read, whatever became of the entry.
PopRingAnyway(p) == LET c == pop[p].c IN
    /\ pop[p].at = "claim"
    /\ entry' = [entry EXCEPT ![c].st = "ringing", ![c].rings = @ + 1]
    /\ pop' = [pop EXCEPT ![p] = [at |-> "no", c |-> None]]
    /\ UNCHANGED <<queue, made, joining, leaving, stale>>

PopClaim(p) == LET c == pop[p].c IN
    /\ pop[p].at = "claim"
    /\ entry' = IF Live(c) THEN [entry EXCEPT ![c].st = "ringing", ![c].rings = @ + 1] ELSE entry
    /\ pop' = [pop EXCEPT ![p] = [at |-> "no", c |-> None]]
    /\ UNCHANGED <<queue, made, joining, leaving, stale>>

(***************************************************************************)
(* Time: VIP_QUEUE_TTL_SEC and the sweep.                                  *)
(***************************************************************************)
Due(c) == /\ Live(c)
          /\ entry' = [entry EXCEPT ![c].due = TRUE]
          /\ UNCHANGED <<queue, made, joining, leaving, pop, stale>>

\* The key lives as long as the entry that came last.
KeyExpires == /\ DOMAIN queue # {} /\ \A c \in DOMAIN queue : ~ Live(c)
              /\ queue' = Without(DOMAIN queue)
              /\ UNCHANGED <<entry, made, joining, leaving, pop, stale>>

\* expireStaleQueueEntries: one time for the search and the update.
SweepFind == /\ stale = {} /\ (SweepAlone => NoneUnderWay)
             /\ stale' = {c \in Callers : Waits(c) /\ entry[c].due}
             /\ stale' # {}
             /\ UNCHANGED <<queue, entry, made, joining, leaving, pop>>

\* Looks for entries and forgets to expire them.
SweepOnlyQueue == /\ stale # {} /\ stale' = {}
                  /\ queue' = Without(stale)
                  /\ UNCHANGED <<entry, made, joining, leaving, pop>>

SweepExpire == /\ stale # {} /\ stale' = {}
               /\ queue' = Without(stale)
               /\ entry' = [c \in Callers |-> IF c \in stale /\ Waits(c) /\ entry[c].due THEN [entry[c] EXCEPT !.st = "expired"] ELSE entry[c]]
               /\ UNCHANGED <<made, joining, leaving, pop>>

Sweep == SweepFind \/ SweepExpire

Next == \/ \E c \in Callers : Join(c) \/ Create(c) \/ Add(c) \/ Leave(c) \/ LeaveUpdate(c) \/ Due(c)
        \/ \E p \in Poppers : PopLook(p) \/ PopRemove(p) \/ PopClaim(p)
        \/ KeyExpires \/ Sweep

Spec == Init /\ [][Next]_vars

----------------------------------------------------------------------------
\* The queue, the entries and the operations have the shapes of their types.
TypeOK == /\ DOMAIN queue \subseteq Callers /\ queue \in [DOMAIN queue -> SUBSET Callers]
          /\ entry \in [Callers -> Entries]
          /\ made \in [Callers -> 0 .. MaxEntries]
          /\ joining \in [Callers -> {"no", "create", "add"}] /\ leaving \subseteq Callers
          /\ pop \in [Poppers -> Pops]
          /\ stale \subseteq Callers

\* However many calls end at once and read the same head of the queue, who
\* waits is rung once and takes part in the next call only.
RingsOnce == \A c \in Callers : entry[c].rings <= 1

\* However joins, leaves and ends of calls overlap, nobody who waits loses the
\* place: the entry and the place are written apart, but whoever takes the
\* place of a caller who joined again rings that caller. The sweep must not
\* overlap them: it removes the place of a caller who joined again meanwhile.
PlacesMatch == NoneUnderWay => \A c \in Callers : Live(c) => c \in DOMAIN queue
=============================================================================
