---------------------------- MODULE MomentsFeed ----------------------------
(***************************************************************************)
(* The feeds of one viewer over the moments of one creator: rows in the    *)
(* database, the ids a fan-out puts into the viewer's sorted set, and two  *)
(* cached pages.  Every handler writes its row first and repairs the       *)
(* caches in further steps.                                                *)
(***************************************************************************)
EXTENDS Integers, Sequences, FiniteSets

CONSTANTS LastMoment,  \* bound on the moments, numbered by their score
          Limit,       \* moments on a page
          Handlers,    \* handlers and workers that overlap
          Overlap,     \* whether they do
          MayFail      \* whether a fan-out or a warming may fail

Moments == 1 .. LastMoment
NoPage == {0}

VARIABLES row,      \* CreatorMoment rows: where each is in its life
          follows,  \* CreatorFollow of viewer and creator
          ids,      \* feed:following: of the viewer
          queue,    \* moments:fanout:queue
          dead,     \* moments:fanout:dead_letter
          warm,     \* whether moments:feed:warm:queue has a task
          page,     \* moments:following:warm: of the viewer
          popular,  \* moments:feed: of the viewer
          stale,    \* cached pages that were out of date when they were stored
          run       \* steps that are left of each handler

vars == <<row, follows, ids, queue, dead, warm, page, popular, stale, run>>
rows == <<row, follows>>
pages == <<page, popular, stale>>
caches == <<ids, pages>>
queues == <<queue, dead, warm>>

\* Escalated statuses count as hidden, like pending and rejected.
Idle == [todo |-> <<>>, moment |-> 0, got |-> NoPage]

Init == /\ row = [m \in Moments |-> "none"] /\ follows = FALSE
        /\ ids = {} /\ queue = <<>> /\ dead = {} /\ warm = FALSE
        /\ page = NoPage /\ popular = NoPage /\ stale = {}
        /\ run = [h \in Handlers |-> Idle]

MayStart(h) == run[h] = Idle /\ (Overlap \/ \A g \in Handlers : run[g] = Idle)

\* A handler's steps after its first write, and what it carries along.
Goes(h, todo, m, got) == run' = [run EXCEPT ![h] = [todo |-> todo, moment |-> m, got |-> got]]
At(h, step) == run[h].todo # <<>> /\ Head(run[h].todo) = step
Done(h) == run' = [run EXCEPT ![h] = IF Len(@.todo) = 1 THEN Idle ELSE [@ EXCEPT !.todo = Tail(run[h].todo)]]

\* publicMomentQuery.
Public == {m \in Moments : row[m] = "public"}
Newest(S, n) == {m \in S : Cardinality({k \in S : k > m}) < n}

(***************************************************************************)
(* Handlers                                                                *)
(***************************************************************************)
\* createMomentHandler: the row, then its media; without them the row goes.
Upload(h, m) ==
    /\ MayStart(h) /\ row[m] = "none" /\ \A k \in Moments : k < m => row[k] # "none"
    /\ row' = [row EXCEPT ![m] = "uploading"]
    /\ Goes(h, <<"media">>, m, NoPage)
    /\ UNCHANGED <<follows, caches, queues>>

\* The media are committed and the fan-out is queued.
Media(h) == LET m == run[h].moment IN
    /\ At(h, "media")
    /\ \/ \E s \in {"hidden", "public"} :
            /\ row' = [row EXCEPT ![m] = IF @ = "deleted" THEN @ ELSE s]
            /\ queue' = Append(queue, m) /\ Goes(h, <<"bustAll">>, m, NoPage)
       \/ row' = [row EXCEPT ![m] = "deleted"] /\ Done(h) /\ UNCHANGED queue
    /\ UNCHANGED <<follows, caches, dead, warm>>

\* setModerationStatus; whatever is not approved is hidden.
Moderate(h, m, s) ==
    /\ MayStart(h) /\ row[m] \in {"hidden", "public"}
    /\ row' = [row EXCEPT ![m] = s]
    /\ Goes(h, <<"bustAll">>, m, NoPage)
    /\ UNCHANGED <<follows, caches, queues>>
Approve(h, m) == Moderate(h, m, "public")
Escalate(h, m) == Moderate(h, m, "hidden")
Reject(h, m) == Moderate(h, m, "hidden")

\* deleteMomentHandler does not wait for the ids to be removed.
EitherOrder == {<<"zrem", "bustAll">>, <<"bustAll", "zrem">>}
BustedFirst == {<<"bustAll", "zrem", "bustAll">>, <<"bustAll", "bustAll", "zrem">>}
DeleteMoment(h, m) ==
    /\ MayStart(h) /\ row[m] \in {"hidden", "public"}
    /\ row' = [row EXCEPT ![m] = "deleted"]
    /\ \E todo \in EitherOrder : Goes(h, todo, m, NoPage)
    /\ UNCHANGED <<follows, caches, queues>>

\* deleteMomentAsAdminHandler: row and clawback in a transaction, then the
\* preview list if it is there, which busts the pages, then the same.
DeleteAsAdmin(h, m) ==
    /\ MayStart(h) /\ row[m] \in {"uploading", "hidden", "public"}
    /\ row' = [row EXCEPT ![m] = "deleted"]
    /\ \E todo \in EitherOrder \cup BustedFirst : Goes(h, todo, m, NoPage)
    /\ UNCHANGED <<follows, caches, queues>>

\* followCreatorHandler.
Follow(h) ==
    /\ MayStart(h)
    /\ follows' = TRUE
    /\ Goes(h, <<"bustUser", "push">>, 0, NoPage)
    /\ UNCHANGED <<row, caches, queues>>

\* Leaves the sorted set to its time to live.
UnfollowRow(h) ==
    /\ MayStart(h) /\ follows
    /\ follows' = FALSE
    /\ Goes(h, <<"bustUser">>, 0, NoPage)
    /\ UNCHANGED <<row, caches, queues>>

\* unfollowCreatorHandler.
Unfollow(h) ==
    /\ MayStart(h) /\ follows
    /\ follows' = FALSE
    /\ Goes(h, <<"zremAll", "bustUser">>, 0, NoPage)
    /\ UNCHANGED <<row, caches, queues>>

\* buildFollowingFeedOrdering: the sorted set only when it fills the page and
\* proves that there is more, the database otherwise.
FollowingPage == LET look == Newest(ids, Limit + 1) IN
    IF Cardinality(look) > Limit /\ look \subseteq Public
    THEN Newest(look, Limit)
    ELSE IF follows THEN Newest(Public, Limit) ELSE {}

\* buildPopularFeedOrdering.
PopularPage == Newest(Public, Limit)

\* getFollowingMomentsFeedHandler and getMomentsFeedHandler.
ReadFollowing(h) ==
    /\ MayStart(h) /\ page = NoPage
    /\ Goes(h, <<"storeFollowing">>, 0, FollowingPage)
    /\ UNCHANGED <<rows, caches, queues>>
ReadPopular(h) ==
    /\ MayStart(h) /\ popular = NoPage
    /\ Goes(h, <<"storePopular">>, 0, PopularPage)
    /\ UNCHANGED <<rows, caches, queues>>

(***************************************************************************)
(* drainFanoutQueue and drainFeedWarmQueue                                 *)
(***************************************************************************)
\* The followers are read, then their sets written; a failed task is kept for
\* an operator.
Fanout(h) ==
    /\ MayStart(h) /\ queue # <<>>
    /\ queue' = Tail(queue)
    /\ \/ Goes(h, IF follows THEN <<"zadd">> ELSE <<"none">>, Head(queue), NoPage) /\ UNCHANGED dead
       \/ MayFail /\ dead' = dead \cup {Head(queue)} /\ UNCHANGED run
    /\ UNCHANGED <<rows, caches, warm>>

\* A creator with many followers: their first pages are built ahead, whether
\* or not one is cached.
Warm(h) ==
    /\ MayStart(h) /\ warm /\ warm' = FALSE
    /\ IF follows /\ ids # {} THEN Goes(h, <<"storeFollowing">>, 0, FollowingPage) ELSE UNCHANGED run
    /\ UNCHANGED <<rows, caches, queue, dead>>

(***************************************************************************)
(* Further steps                                                           *)
(***************************************************************************)
AddToFeed(h) ==
    /\ At(h, "zadd") /\ Done(h)
    /\ ids' = ids \cup {run[h].moment} /\ warm' \in BOOLEAN
    /\ UNCHANGED <<rows, pages, queue, dead>>
NoFollower(h) == At(h, "none") /\ Done(h) /\ UNCHANGED <<rows, caches, queues>>

\* pushToFollowingFeedCache for the newest moments.
Push(h) ==
    /\ At(h, "push") /\ Done(h)
    /\ ids' = ids \cup Public
    /\ UNCHANGED <<rows, pages, queues>>

\* removeMomentFromFollowerFeeds and removeCreatorFromFollowingFeedCache.
RemoveMoment(h) ==
    /\ At(h, "zrem") /\ Done(h)
    /\ ids' = IF follows THEN ids \ {run[h].moment} ELSE ids
    /\ UNCHANGED <<rows, pages, queues>>
RemoveCreator(h) ==
    /\ At(h, "zremAll") /\ Done(h)
    /\ ids' = {}
    /\ UNCHANGED <<rows, pages, queues>>

\* Busts the popular pages only.
BustPopular(h) ==
    /\ At(h, "bustAll") /\ Done(h)
    /\ popular' = NoPage /\ stale' = stale \ {"popular"}
    /\ UNCHANGED <<rows, ids, page, queues>>

\* bustAllMomentFeedResponseCaches, and the same keys of one user.
BustAll(h) ==
    /\ At(h, "bustAll") /\ Done(h)
    /\ page' = NoPage /\ popular' = NoPage /\ stale' = {}
    /\ UNCHANGED <<rows, ids, queues>>
BustUser(h) ==
    /\ At(h, "bustUser") /\ Done(h)
    /\ page' = NoPage /\ popular' = NoPage /\ stale' = {}
    /\ UNCHANGED <<rows, ids, queues>>

\* cacheFeedResponse.
StoreFollowing(h) ==
    /\ At(h, "storeFollowing") /\ Done(h)
    /\ page' = run[h].got
    /\ stale' = IF run[h].got = FollowingPage THEN stale \ {"following"} ELSE stale \cup {"following"}
    /\ UNCHANGED <<rows, ids, popular, queues>>
StorePopular(h) ==
    /\ At(h, "storePopular") /\ Done(h)
    /\ popular' = run[h].got
    /\ stale' = IF run[h].got = PopularPage THEN stale \ {"popular"} ELSE stale \cup {"popular"}
    /\ UNCHANGED <<rows, ids, page, queues>>

\* Times to live.
IdsExpire == ids # {} /\ ids' = {} /\ UNCHANGED <<rows, pages, queues, run>>
PagesExpire == /\ page # NoPage \/ popular # NoPage
               /\ page' = NoPage /\ popular' = NoPage /\ stale' = {}
               /\ UNCHANGED <<rows, ids, queues, run>>

Next == \/ \E h \in Handlers :
             \/ \E m \in Moments : \/ Upload(h, m) \/ DeleteMoment(h, m) \/ DeleteAsAdmin(h, m)
                                   \/ Approve(h, m) \/ Escalate(h, m) \/ Reject(h, m)
             \/ Media(h) \/ Follow(h) \/ Unfollow(h) \/ ReadFollowing(h) \/ ReadPopular(h)
             \/ Fanout(h) \/ Warm(h)
             \/ AddToFeed(h) \/ NoFollower(h) \/ Push(h) \/ RemoveMoment(h) \/ RemoveCreator(h)
             \/ BustAll(h) \/ BustUser(h) \/ StoreFollowing(h) \/ StorePopular(h)
        \/ IdsExpire \/ PagesExpire

Spec == Init /\ [][Next]_vars

----------------------------------------------------------------------------
Quiet == \A h \in Handlers : run[h] = Idle

\* However handlers and workers overlap, a cached page shows a hidden or
\* deleted moment only when it was out of date as it was stored: every other
\* page is busted after the row has changed.
PagesAreVisible ==
    Quiet => /\ page # NoPage /\ "following" \notin stale => page \subseteq Public
             /\ popular # NoPage /\ "popular" \notin stale => popular \subseteq Public

\* With handlers that take turns no page shows what is hidden, the popular page
\* is the newest of what is public, and the ids and the page of
\* followed creators are empty for who does not follow, whatever has been
\* queued, warmed or lost meanwhile.
PagesAreCurrent ==
    Quiet => /\ page # NoPage => page \subseteq Public
             /\ popular # NoPage => popular = PopularPage
             /\ ids # {} => follows
             /\ page \notin {{}, NoPage} => follows
=============================================================================
