------------------------------ MODULE Presence ------------------------------
(***************************************************************************)
(* Presence of one creator: the sockets of the creator's devices on the    *)
(* instances of the backend, the socket registry, the heartbeat lease and  *)
(* the disconnect grace in Redis, and transitionCreatorPresence, which     *)
(* reads the base availability and writes it back later.                   *)
(***************************************************************************)
EXTENDS Integers, FiniteSets

CONSTANTS
    Instances, Sockets, None,
    Registry,     \* PRESENCE_REDIS_SOCKET_REGISTRY_ENABLED
    Atomic,       \* transitions read and write in one step
    MaxToggles,   \* bound: the creator's own choices
    MaxConnects,  \* bound: connects
    MaxDrops,     \* bound: sockets that go before their handler listens
    MaxCrashes,   \* bound: crashes of an instance
    MaxCalls      \* bound: calls

VARIABLES
    conn,     \* each socket: its instance, whether it is up, and how far the
              \* connection handler has got
    reg,      \* presence:sockets, the registry
    tracked,  \* sockets each instance knows
    intent,   \* Creator.isOnline in Mongo
    wish,     \* what the creator last asked for, or what was restored
    base,     \* creator:availability, with the TTL of the presence keys
    call,     \* the creator is in a live call
    slot,     \* active:call:user
    hb,       \* heartbeat intervals, on or stalled beyond the lease
    seen,     \* lastCreatorHeartbeatAtMs entries
    lease,    \* presence:hb-owner
    timer,    \* disconnect timers
    grace,    \* presence:disconnect-grace
    op,       \* transition under way on each instance
    used      \* what the bounds have spent

vars == <<conn, reg, tracked, intent, wish, base, call, slot, hb, seen, lease, timer, grace, op, used>>
sockets == <<conn, reg, tracked>>
beats == <<hb, seen, lease>>
timers == <<timer, grace>>
state == <<intent, wish, base, call, slot>>

Idle == [event |-> "none", base |-> "expired"]
NoSocket == [on |-> None, up |-> FALSE, step |-> "none"]
Spend(what) == used' = [used EXCEPT ![what] = @ + 1]

Init ==
    /\ conn = [s \in Sockets |-> NoSocket] /\ reg = {} /\ tracked = [i \in Instances |-> {}]
    /\ intent \in BOOLEAN /\ wish = FALSE /\ base = "expired"
    /\ call = FALSE /\ slot = FALSE
    /\ hb = [i \in Instances |-> "off"] /\ seen = [i \in Instances |-> FALSE] /\ lease = None
    /\ timer = [i \in Instances |-> FALSE] /\ grace = None
    /\ op = [i \in Instances |-> Idle]
    /\ used = [toggles |-> 0, connects |-> 0, drops |-> 0, crashes |-> 0, calls |-> 0]

Connected == \E s \in Sockets : conn[s].up

\* localConnectedCheckOnThisNode
Up(i, s) == conn[s].on = i /\ conn[s].up
Local(i) == \E s \in tracked[i] : Up(i, s)

\* hasAnyConnectedSocket
HasAny(i) == (Registry /\ reg /= {}) \/ Local(i)

-----------------------------------------------------------------------------
(* transitions *)

\* resolveTargetBaseAvailability
Target(read, event) ==
    CASE event \in {"FORCE_OFFLINE", "DISCONNECTED"} -> "offline"
      [] event = "CONNECTED" -> "online"
      [] event = "HEARTBEAT" -> IF read = "online" THEN "online" ELSE "offline"

\* The end of transitionCreatorPresence: base, presence and meta in one MULTI;
\* FORCE_OFFLINE deletes the active-call slot as well.
Store(read, event) ==
    /\ base' = Target(read, event)
    /\ slot' = (slot /\ event /= "FORCE_OFFLINE")

\* maybeStartCreatorHeartbeat and startCreatorHeartbeat
MayBeat(i) == hb[i] = "off" /\ Local(i) /\ (Registry => lease = None)

\* Mutant: the lease is not asked for.
StartHeartbeatUnleased(i) ==
    /\ hb' = [hb EXCEPT ![i] = IF Local(i) THEN "on" ELSE @]
    /\ lease' = IF Registry /\ Local(i) THEN i ELSE lease

StartHeartbeat(i) ==
    /\ hb' = [hb EXCEPT ![i] = IF MayBeat(i) THEN "on" ELSE @]
    /\ lease' = IF Registry /\ MayBeat(i) THEN i ELSE lease

\* transitionCreatorPresence reads the snapshot.
Begin(i, event) ==
    IF Atomic
    THEN /\ Store(base, event) /\ UNCHANGED op
    ELSE /\ op[i] = Idle
         /\ op' = [op EXCEPT ![i] = [event |-> event, base |-> base]]
         /\ UNCHANGED <<base, slot>>

\* A CONNECTED that is atomic also starts the heartbeat.
BeginOnline(i) ==
    /\ Begin(i, "CONNECTED")
    /\ IF Atomic THEN StartHeartbeat(i) ELSE UNCHANGED <<hb, lease>>
    /\ seen' = [seen EXCEPT ![i] = TRUE]

\* Its write, and what handleCreatorExplicitOnline does afterwards; a connection
\* handler that waited for it goes on.
Finish(i) ==
    /\ op[i] /= Idle
    /\ Store(op[i].base, op[i].event)
    /\ IF op[i].event = "CONNECTED" THEN StartHeartbeat(i) ELSE UNCHANGED <<hb, lease>>
    /\ op' = [op EXCEPT ![i] = Idle]
    /\ conn' = [s \in Sockets |-> IF conn[s].on = i /\ conn[s].step = "restoring"
                                  THEN [conn[s] EXCEPT !.step = "listen"] ELSE conn[s]]
    /\ UNCHANGED <<reg, tracked, intent, wish, call, seen, timers, used>>

\* stopCreatorHeartbeat, which releases its own lease.
StopHeartbeat(i) ==
    /\ hb' = [hb EXCEPT ![i] = "off"]
    /\ lease' = IF hb[i] /= "off" /\ lease = i THEN None ELSE lease

ClearTimer(i) ==
    /\ timer' = [timer EXCEPT ![i] = FALSE]
    /\ grace' = IF grace = i THEN None ELSE grace

-----------------------------------------------------------------------------
(* devices *)

\* registerSocket in the registry, incrementLocal on the instance.
Register(s) == reg' = IF Registry THEN reg \cup {s} ELSE reg
Track(i, s) == tracked' = [tracked EXCEPT ![i] = @ \cup {s}]

\* A socket comes up; its handler asks for the role first.
Connect(i, s) ==
    /\ conn[s] = NoSocket /\ s \notin reg /\ \A j \in Instances : s \notin tracked[j]
    /\ used.connects < MaxConnects /\ Spend("connects")
    /\ conn' = [conn EXCEPT ![s] = [on |-> i, up |-> TRUE, step |-> "role"]]
    /\ UNCHANGED <<reg, tracked, state, beats, timers, op>>

\* onCreatorConnect; a first socket ends the grace.
Admit(i, s) ==
    /\ conn[s].on = i /\ conn[s].step = "role"
    /\ Register(s) /\ Track(i, s)
    /\ LET first == IF Registry THEN reg = {} ELSE tracked[i] = {}
       IN /\ IF first THEN ClearTimer(i) ELSE UNCHANGED timers
          /\ conn' = [conn EXCEPT ![s].step = IF first THEN "restore" ELSE "listen"]
    /\ UNCHANGED <<state, beats, op, used>>

\* restoreCreatorRuntimeFromIntent
Restore(i, s) ==
    /\ conn[s].on = i /\ conn[s].step = "restore"
    /\ IF intent
       THEN /\ ClearTimer(i) /\ BeginOnline(i)
            /\ conn' = [conn EXCEPT ![s].step = IF Atomic THEN "listen" ELSE "restoring"]
       ELSE /\ conn' = [conn EXCEPT ![s].step = "listen"]
            /\ UNCHANGED <<base, slot, op, beats, timers>>
    /\ wish' = (wish \/ intent)
    /\ UNCHANGED <<reg, tracked, intent, call, used>>

\* Only now is a disconnect listened for: of a socket that is gone by then
\* nothing more is heard.
Listen(i, s) ==
    /\ conn[s].on = i /\ conn[s].step = "listen"
    /\ conn' = [conn EXCEPT ![s] = IF @.up THEN [@ EXCEPT !.step = "on"] ELSE NoSocket]
    /\ UNCHANGED <<reg, tracked, state, beats, timers, op, used>>

\* A socket goes while its handler has not come that far.
Drop(i, s) ==
    /\ Up(i, s) /\ conn[s].step /= "on"
    /\ used.drops < MaxDrops /\ Spend("drops")
    /\ conn' = [conn EXCEPT ![s].up = FALSE]
    /\ UNCHANGED <<reg, tracked, state, beats, timers, op>>

\* The last socket stops the heartbeat and, unless another is found, starts
\* the grace.
Disconnect(i, s) ==
    /\ conn[s].on = i /\ conn[s].step = "on"
    /\ conn' = [conn EXCEPT ![s] = NoSocket]
    /\ reg' = reg \ {s}
    /\ tracked' = [tracked EXCEPT ![i] = @ \ {s}]
    /\ LET last == IF Registry THEN reg \ {s} = {} ELSE tracked[i] \ {s} = {}
       IN IF last
          THEN /\ StopHeartbeat(i) /\ seen' = [seen EXCEPT ![i] = FALSE]
               /\ timer' = [timer EXCEPT ![i] = TRUE]
               /\ grace' = IF Registry THEN i ELSE grace
          ELSE UNCHANGED <<beats, timers>>
    /\ UNCHANGED <<state, op, used>>

\* The socket events are listened for like the disconnect.
Heard(i) == \E s \in tracked[i] : Up(i, s) /\ conn[s].step = "on"

\* setCreatorOnlineStatus on any instance, or the socket event, which leaves
\* the intent alone.
GoOnline(i, rest) ==
    /\ used.toggles < MaxToggles /\ Spend("toggles")
    /\ rest \/ Heard(i)
    /\ intent' = (intent \/ rest) /\ wish' = TRUE
    /\ ClearTimer(i)
    /\ BeginOnline(i)
    /\ UNCHANGED <<sockets, call>>

\* Mutant: only the intent is recorded.
GoOfflineIntentOnly(i, rest) ==
    /\ used.toggles < MaxToggles /\ Spend("toggles")
    /\ rest \/ Heard(i)
    /\ intent' = (intent /\ ~rest) /\ wish' = FALSE
    /\ UNCHANGED <<sockets, call, base, slot, op, beats, timers>>

GoOffline(i, rest) ==
    /\ used.toggles < MaxToggles /\ Spend("toggles")
    /\ rest \/ Heard(i)
    /\ intent' = (intent /\ ~rest) /\ wish' = FALSE
    /\ timer' = [timer EXCEPT ![i] = FALSE] /\ UNCHANGED grace
    /\ StopHeartbeat(i) /\ seen' = [seen EXCEPT ![i] = FALSE]
    /\ Begin(i, "FORCE_OFFLINE")
    /\ UNCHANGED <<sockets, call>>

Ring ==
    /\ ~call /\ base = "online" /\ ~slot /\ used.calls < MaxCalls /\ Spend("calls")
    /\ call' = TRUE /\ slot' = TRUE
    /\ UNCHANGED <<sockets, intent, wish, base, beats, timers, op>>

HangUp ==
    /\ call
    /\ call' = FALSE /\ slot' = FALSE
    /\ UNCHANGED <<sockets, intent, wish, base, beats, timers, op, used>>

-----------------------------------------------------------------------------
(* timers *)

\* Mutant: an intent to be online keeps the creator online.
DisconnectedUnlessIntent(i) ==
    IF ~HasAny(i) /\ ~slot /\ ~intent THEN Begin(i, "DISCONNECTED") ELSE UNCHANGED <<base, slot, op>>

\* applyCreatorDisconnectedTransition behind evaluateCreatorDisconnectedGuard
Disconnected(i) == IF ~HasAny(i) /\ ~slot THEN Begin(i, "DISCONNECTED") ELSE UNCHANGED <<base, slot, op>>

\* Mutant: nobody asks whether a socket is left.
HeartbeatBlind(i) ==
    /\ hb[i] /= "off" /\ op[i] = Idle
    /\ Begin(i, "HEARTBEAT")
    /\ UNCHANGED <<sockets, beats, intent, wish, call, timers, used>>

\* One beat: it stops when the lease is another's, when no socket is left, or
\* when the base is offline; otherwise it refreshes the presence.
Heartbeat(i) ==
    /\ hb[i] /= "off" /\ op[i] = Idle
    /\ \/ /\ Registry /\ lease /= i
          /\ StopHeartbeat(i) /\ UNCHANGED <<tracked, base, slot, op>>
       \/ /\ Registry => lease = i
          /\ ~HasAny(i)
          /\ StopHeartbeat(i) /\ tracked' = [tracked EXCEPT ![i] = {}]
          /\ Disconnected(i)
       \/ /\ Registry => lease = i
          /\ HasAny(i) /\ base /= "online"
          /\ StopHeartbeat(i) /\ UNCHANGED <<tracked, base, slot, op>>
       \/ /\ Registry => lease = i
          /\ HasAny(i) /\ base = "online"
          /\ Begin(i, "HEARTBEAT") /\ UNCHANGED <<hb, lease, tracked>>
    /\ UNCHANGED <<conn, reg, seen, intent, wish, call, timers, used>>

\* The key of the grace lives exactly as long as the timer, which starts later.
GraceElapsed(i) ==
    /\ timer[i] /\ grace /= i
    /\ timer' = [timer EXCEPT ![i] = FALSE] /\ UNCHANGED grace
    /\ IF Registry => grace /= None THEN Disconnected(i) ELSE UNCHANGED <<base, slot, op>>
    /\ UNCHANGED <<sockets, beats, intent, wish, call, used>>

\* sweepStaleHeartbeats: an entry nobody refreshed for the TTL.
SweepHeartbeats(i) ==
    /\ seen[i] /\ hb[i] = "off" /\ op[i] = Idle
    /\ seen' = [seen EXCEPT ![i] = FALSE]
    /\ IF HasAny(i) THEN UNCHANGED <<tracked, base, slot, op, timer>>
       ELSE /\ Disconnected(i)
            /\ timer' = [timer EXCEPT ![i] = @ /\ slot]
            /\ tracked' = [tracked EXCEPT ![i] = IF slot THEN @ ELSE {}]
    /\ UNCHANGED <<conn, reg, hb, lease, intent, wish, call, grace, used>>

\* cleanupStaleSocketTracking: with the registry when it is empty, without it
\* when no socket is up.
CleanupTracking(i) ==
    /\ tracked[i] /= {} /\ op[i] = Idle
    /\ tracked' = [tracked EXCEPT ![i] = {}]
    /\ StopHeartbeat(i)
    /\ \/ Registry /\ reg = {} /\ UNCHANGED <<base, slot, op, timer>>
       \/ /\ ~Registry /\ ~Local(i)
          /\ timer' = [timer EXCEPT ![i] = FALSE] /\ Disconnected(i)
    /\ UNCHANGED <<conn, reg, intent, wish, call, seen, grace, used>>

-----------------------------------------------------------------------------
(* Redis and crashes *)

Refreshed == \E i \in Instances : hb[i] = "on"

\* The TTLs of minutes outlast handlers, transitions and the grace.
Still ==
    /\ ~Refreshed /\ \A i \in Instances : op[i] = Idle /\ ~timer[i]
    /\ \A s \in Sockets : conn[s].step \in {"none", "on"}

ExpirePresence ==
    /\ base /= "expired" /\ Still
    /\ base' = "expired"
    /\ UNCHANGED <<sockets, intent, wish, call, slot, beats, timers, op, used>>

ExpireRegistry ==
    /\ reg /= {} /\ Still
    /\ reg' = {}
    /\ UNCHANGED <<conn, tracked, state, beats, timers, op, used>>

ExpireLease ==
    /\ lease /= None /\ hb[lease] = "off"
    /\ lease' = None
    /\ UNCHANGED <<sockets, state, hb, seen, timers, op, used>>

\* A living holder stalls for longer than HEARTBEAT_LEASE_TTL_MS.
Stall ==
    /\ lease /= None /\ hb[lease] = "on"
    /\ lease' = None /\ hb' = [hb EXCEPT ![lease] = "stalled"]
    /\ UNCHANGED <<sockets, state, seen, timers, op, used>>

ExpireGrace ==
    /\ grace /= None
    /\ grace' = None
    /\ UNCHANGED <<sockets, state, beats, timer, op, used>>

Crash(i) ==
    /\ used.crashes < MaxCrashes /\ Spend("crashes")
    /\ conn' = [s \in Sockets |-> IF conn[s].on = i THEN NoSocket ELSE conn[s]]
    /\ tracked' = [tracked EXCEPT ![i] = {}]
    /\ hb' = [hb EXCEPT ![i] = "off"] /\ seen' = [seen EXCEPT ![i] = FALSE]
    /\ timer' = [timer EXCEPT ![i] = FALSE]
    /\ op' = [op EXCEPT ![i] = Idle]
    /\ UNCHANGED <<reg, state, lease, grace>>

-----------------------------------------------------------------------------
Timers(i) == Heartbeat(i) \/ GraceElapsed(i) \/ SweepHeartbeats(i) \/ CleanupTracking(i)
Expire == ExpirePresence \/ ExpireRegistry \/ ExpireLease \/ Stall \/ ExpireGrace

\* The connection handler of a socket.
Arrive(i, s) == Admit(i, s) \/ Restore(i, s) \/ Listen(i, s)

Next ==
    \/ \E i \in Instances :
        \/ Finish(i) \/ Timers(i) \/ Crash(i)
        \/ \E s \in Sockets : Connect(i, s) \/ Arrive(i, s) \/ Drop(i, s) \/ Disconnect(i, s)
        \/ \E rest \in BOOLEAN : GoOnline(i, rest) \/ GoOffline(i, rest)
    \/ Ring \/ HangUp \/ Expire

Spec == Init /\ [][Next]_vars

-----------------------------------------------------------------------------
TypeOK ==
    /\ conn \in [Sockets -> [on : Instances \cup {None}, up : BOOLEAN,
                            step : {"none", "role", "restore", "restoring", "listen", "on"}]]
    /\ reg \subseteq Sockets
    /\ tracked \in [Instances -> SUBSET Sockets]
    /\ {intent, wish, call, slot} \subseteq BOOLEAN /\ base \in {"online", "offline", "expired"}
    /\ hb \in [Instances -> {"off", "on", "stalled"}] /\ seen \in [Instances -> BOOLEAN] /\ timer \in [Instances -> BOOLEAN]
    /\ {lease, grace} \subseteq Instances \cup {None}

\* One instance at a time beats for a creator, but for those that have stalled
\* for longer than their lease and stop at their next beat.
OneHeartbeat == Registry => \A i, j \in Instances : hb[i] = "on" /\ hb[j] = "on" => i = j

\* A creator who went offline is not shown online once the transitions under
\* way have been written.
OfflineSticks == ~wish /\ (\A i \in Instances : op[i] = Idle) => base /= "online"

\* Without crashes, calls and toggles the last disconnect is noticed by the
\* grace and not only by the TTL, "creator disconnect marks offline on last
\* socket", as long as no socket goes before its handler listens.
GraceSetsOffline ==
    used.crashes + used.drops + used.calls + used.toggles = 0 /\ base = "online" =>
        base' /= "expired"

\* A heartbeat renews the record of a socket that went before its handler
\* listened, which nobody takes out.
GhostIsRenewed ==
    \E s \in reg : ~conn[s].up /\ \E i \in Instances : hb[i] /= "off"

\* The creator shows as online.
ShownOnline == base = "online"
=============================================================================
