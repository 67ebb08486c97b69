---------------------------- MODULE FreePreview ----------------------------
(***************************************************************************)
(* The list of moments that may be seen for nothing: rows with a schedule, *)
(* a version that guards the order, and a cache of the ids that are due.   *)
(***************************************************************************)
EXTENDS Integers, FiniteSets, TLC

CONSTANTS Moments,
          Limit,       \* freePreviewLimit
          Second,      \* clock steps in a second, the unit of Redis's times to live
          CacheTtl,    \* PREVIEW_CACHE_TTL_SEC
          LastTime,    \* bound on the clock
          MaxVersion,  \* bound on the changes of the list
          Handlers,    \* handlers that overlap
          Overlap      \* whether they do

Times == 0 .. LastTime
Always == 0                 \* startsAt: null
Forever == LastTime + 1     \* endsAt: null
NoCache == [at |-> Forever]
NoRow == [enabled |-> FALSE, starts |-> Always, ends |-> 0]
Schedules == [enabled : BOOLEAN, starts : Times, ends : 1 .. Forever]

VARIABLES now,
          public,    \* moments that are ready, approved and not deleted
          row,       \* FreePreviewMoment rows
          version,   \* listVersion
          changes,   \* changes of the list so far
          cache,     \* moments:free_preview:active:v2
          seen,      \* version and changes the administrator has loaded
          blind,     \* whether an order was saved over changes not seen
          run        \* step that each handler is at

vars == <<now, public, row, version, changes, cache, seen, blind, run>>

Idle == [at |-> "idle"]

Init == /\ now = 0 /\ public = Moments
        /\ row = [m \in Moments |-> NoRow] /\ version = 0 /\ changes = 0
        /\ cache = NoCache /\ seen = [version |-> 0, changes |-> 0] /\ blind = FALSE
        /\ run = [h \in Handlers |-> Idle]

Quiet == \A h \in Handlers : run[h] = Idle
MayStart(h) == run[h] = Idle /\ (Overlap \/ Quiet)
MayChange(h) == MayStart(h) /\ changes < MaxVersion

\* isPreviewRowVisible: both ends of the schedule belong to it.
Visible(m, t) == row[m].enabled /\ row[m].starts <= t /\ t <= row[m].ends
Due(t) == {m \in Moments : Visible(m, t)}

(***************************************************************************)
(* Changes of the list: the rows, then the version, then the caches        *)
(***************************************************************************)
Written(h) == changes' = changes + 1 /\ run' = [run EXCEPT ![h] = [at |-> "bump"]]

\* addPreview; the limit counts the other rows that are enabled and not over.
AddPreview(h, m, s) ==
    /\ MayChange(h) /\ m \in public
    /\ Cardinality({k \in Moments \ {m} : row[k].enabled /\ row[k].ends >= now}) < Limit
    /\ row' = [row EXCEPT ![m] = s] /\ Written(h)
    /\ UNCHANGED <<now, public, version, cache, seen, blind>>

RemovePreview(h, m) ==
    /\ MayChange(h)
    /\ row' = [row EXCEPT ![m] = NoRow] /\ Written(h)
    /\ UNCHANGED <<now, public, version, cache, seen, blind>>

\* updatePreviewSchedule: the limit is not asked.
UpdateSchedule(h, m, s) ==
    /\ MayChange(h) /\ row[m] # NoRow
    /\ row' = [row EXCEPT ![m] = s] /\ Written(h)
    /\ UNCHANGED <<now, public, version, cache, seen, blind>>

\* Saves whatever version was loaded.
ReorderUnchecked(h) ==
    /\ MayChange(h) /\ run' = [run EXCEPT ![h] = [at |-> "reorder"]]
    /\ UNCHANGED <<now, public, row, version, changes, cache, seen, blind>>

\* reorderPreviews compares the version and then saves the order.
Reorder(h) ==
    /\ MayChange(h) /\ seen.version = version
    /\ run' = [run EXCEPT ![h] = [at |-> "reorder"]]
    /\ UNCHANGED <<now, public, row, version, changes, cache, seen, blind>>
SaveOrder(h) ==
    /\ run[h].at = "reorder"
    /\ blind' = (blind \/ seen.changes # changes)
    /\ Written(h)
    /\ UNCHANGED <<now, public, row, version, cache, seen>>

\* Reads the version and writes it back.
BumpFromRead(h) ==
    /\ run[h].at \in {"bump", "write"}
    /\ \/ run[h].at = "bump" /\ run' = [run EXCEPT ![h] = [at |-> "write", got |-> version]] /\ UNCHANGED version
       \/ run[h].at = "write" /\ version' = run[h].got + 1 /\ run' = [run EXCEPT ![h] = [at |-> "bust"]]
    /\ UNCHANGED <<now, public, row, changes, cache, seen, blind>>

\* incrementListVersion.
Bump(h) ==
    /\ run[h].at = "bump"
    /\ version' = version + 1 /\ run' = [run EXCEPT ![h] = [at |-> "bust"]]
    /\ UNCHANGED <<now, public, row, changes, cache, seen, blind>>

\* invalidatePreviewAndFeedCaches.
Invalidate(h) ==
    /\ run[h].at = "bust"
    /\ cache' = NoCache /\ run' = [run EXCEPT ![h] = Idle]
    /\ UNCHANGED <<now, public, row, version, changes, seen, blind>>

\* listAllPreviewRows for the administrator: the rows, then the version.
LoadRows(h) ==
    /\ MayStart(h) /\ seen.changes # changes
    /\ run' = [run EXCEPT ![h] = [at |-> "version", changes |-> changes]]
    /\ UNCHANGED <<now, public, row, version, changes, cache, seen, blind>>
LoadVersion(h) ==
    /\ run[h].at = "version"
    /\ seen' = [version |-> version, changes |-> run[h].changes]
    /\ run' = [run EXCEPT ![h] = Idle]
    /\ UNCHANGED <<now, public, row, version, changes, cache, blind>>

(***************************************************************************)
(* getActivePreviewMoments                                                 *)
(***************************************************************************)
Shortest(S) == {d \in S : \A e \in S : d <= e}

\* calculatePreviewCacheTtlSec, in whole seconds, the last one rounded up.
TtlUpTo(bounds, t) ==
    Shortest({CacheTtl} \cup {(b - t + Second - 1) \div Second : b \in {e \in bounds : e > t /\ e # Forever}})

On == {m \in Moments : row[m].enabled}

\* Minds the ends alone.
TtlOfEnds(t) == TtlUpTo({row[m].ends : m \in On}, t)

\* Up to the next start or end of a row.
Ttl(t) == TtlUpTo({row[m].starts : m \in On} \cup {row[m].ends : m \in On}, t)

\* loadPreviewMomentsFromDb asks the clock once, and once more the schedule is
\* read and timed; only then the list is stored.
Load(h) ==
    /\ MayStart(h) /\ cache = NoCache
    /\ run' = [run EXCEPT ![h] = [at |-> "time", ids |-> Due(now) \cap public,
                                  public |-> public, read |-> now]]
    /\ UNCHANGED <<now, public, row, version, changes, cache, seen, blind>>
Time(h) ==
    /\ run[h].at = "time"
    /\ \E ttl \in Ttl(now) :
         run' = [run EXCEPT ![h] = [at |-> "store", ttl |-> ttl, list |->
                    [at |-> run[h].read, timed |-> now, ids |-> run[h].ids, public |-> run[h].public]]]
    /\ UNCHANGED <<now, public, row, version, changes, cache, seen, blind>>
Store(h) ==
    /\ run[h].at = "store"
    /\ cache' = run[h].list @@ [stored |-> now, until |-> now + run[h].ttl * Second]
    /\ run' = [run EXCEPT ![h] = Idle]
    /\ UNCHANGED <<now, public, row, version, changes, seen, blind>>

\* A moment is hidden or shown again; the cached ids stay and are filtered
\* when they are read.
Moderate(m) == /\ public' = IF m \in public THEN public \ {m} ELSE public \cup {m}
               /\ Overlap \/ Quiet
               /\ UNCHANGED <<now, row, version, changes, cache, seen, blind, run>>

Tick == /\ now < LastTime /\ now' = now + 1
        /\ cache' = IF cache # NoCache /\ cache.until <= now + 1 THEN NoCache ELSE cache
        /\ UNCHANGED <<public, row, version, changes, seen, blind, run>>

Next == \/ \E h \in Handlers :
             \/ \E m \in Moments : \/ RemovePreview(h, m)
                                   \/ \E s \in Schedules : AddPreview(h, m, s) \/ UpdateSchedule(h, m, s)
             \/ Reorder(h) \/ SaveOrder(h) \/ Bump(h) \/ Invalidate(h)
             \/ LoadRows(h) \/ LoadVersion(h) \/ Load(h) \/ Time(h) \/ Store(h)
        \/ \E m \in Moments : Moderate(m)
        \/ Tick

Spec == Init /\ [][Next]_vars

----------------------------------------------------------------------------
\* hydratePreviewMomentsFromCache.
Served == IF cache = NoCache THEN Due(now) \cap public ELSE cache.ids \cap public

\* A start or an end that fell between the two readings of the clock: the time
\* to live knows nothing of it.
Missed(m) == \/ cache.at < row[m].starts /\ row[m].starts <= cache.timed
             \/ cache.at <= row[m].ends /\ row[m].ends <= cache.timed

\* With handlers that take turns the cache holds what is due, of what could be
\* shown as it was filled: a start or an end it outlives by less than a second,
\* and the time it took to store it, unless it passed while it was filled.
CacheWithinSchedule ==
    Quiet /\ cache # NoCache =>
        \A m \in Moments : ~ Missed(m) =>
            \E t \in Times :
                /\ t <= now /\ now - t < Second + (cache.stored - cache.timed)
                /\ m \in cache.ids <=> m \in cache.public /\ Visible(m, t)

\* With handlers that take turns no order is saved over a change that the
\* administrator has not seen.
OrderIsInformed == ~ blind

\* However changes overlap, the version counts every one of them.
VersionCounts == Quiet => version = changes
=============================================================================
