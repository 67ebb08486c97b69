----------------------------- MODULE MCProduct ------------------------------
(***************************************************************************)
(* The components around calls and content, each with its own small        *)
(* instance: the start and the ticks of billing, the life of a call,       *)
(* presence, the catalogue, images and videos, moments and their feeds,    *)
(* accounts, onboarding, chat, support, the forced end of a call, the      *)
(* outbox and the VIP queue.  p1 to p3 are requests, workers and instances *)
(* that overlap, d1 to d3 calls, callers, creators, images or sockets.     *)
(***************************************************************************)
EXTENDS Scenarios, TLC

CONSTANTS p1, p2, p3, d1, d2, d3, Host, None

\* Overlapping requests to start one call; a start lock may expire under its
\* holder, or a request die.
Start == INSTANCE BillingStart WITH
    Executions <- {p1, p2}, Calls <- {d1}, Users <- {d2}, Host <- Host, NoCall
    <- None, MaxStarts <- 3, MaxStalls <- 1,
    caller <- v1, orchestrator <- v2, lock <- v3, pair <- v4, slot <- v5, session <-
    v6, pendingEnd <- v7, ended <- v8, settled <- v9, scheduled <- v10, exec <- v11,
    starts <- v12, stalls <- v13

\* Two calls of two users are started one request at a time, with crashes
\* between any two steps.
StartTurns == INSTANCE BillingStart WITH
    Executions <- {p1}, Calls <- {d1, d2}, Users <- {p2, p3}, Host <- Host, NoCall
    <- None, MaxStarts <- 2, MaxStalls <- 1,
    caller <- v1, orchestrator <- v2, lock <- v3, pair <- v4, slot <- v5, session <-
    v6, pendingEnd <- v7, ended <- v8, settled <- v9, scheduled <- v10, exec <- v11,
    starts <- v12, stalls <- v13

\* Two workers, the flush, the watchdog and a session lost from Redis.
Tick == INSTANCE BillingTick WITH
    Workers <- {p1, p2}, Opening <- 2, Limit <- 9, MaxDelta <- 2, MaxFlush <- 3,
    DeltaCursor <- TRUE, Nobody <- None, Slow <- FALSE, MaxTime <- 3, MaxRewrites <- 1, MaxFaults
    <- 0, MaxLosses <- 1,
    now <- v1, session <- v2, wallet <- v3, lock <- v4, owner <- v5, gate <- v6,
    jobs <- v7, exec <- v8, rewrite <- v9, ending <- v10, settled <- v11, charged <-
    v12, rewrites <- v13, faults <- v14, losses <- v15

\* Two workers, the flush and a crash.
TickTotals == INSTANCE BillingTick WITH
    Workers <- {p1, p2}, Opening <- 3, Limit <- 9, MaxDelta <- 2, MaxFlush <- 3,
    DeltaCursor <- FALSE, Nobody <- None, Slow <- FALSE, MaxTime <- 3, MaxRewrites <- 0, MaxFaults
    <- 1, MaxLosses <- 0,
    now <- v1, session <- v2, wallet <- v3, lock <- v4, owner <- v5, gate <- v6,
    jobs <- v7, exec <- v8, rewrite <- v9, ending <- v10, settled <- v11, charged <-
    v12, rewrites <- v13, faults <- v14, losses <- v15

\* Two workers, the flush and ticks that outlive their lock.
TickSlow == INSTANCE BillingTick WITH
    Workers <- {p1, p2}, Opening <- 3, Limit <- 9, MaxDelta <- 2, MaxFlush <- 2,
    DeltaCursor <- FALSE, Nobody <- None, Slow <- TRUE, MaxTime <- 2, MaxRewrites <- 0,
    MaxFaults <- 0, MaxLosses <- 0,
    now <- v1, session <- v2, wallet <- v3, lock <- v4, owner <- v5, gate <- v6,
    jobs <- v7, exec <- v8, rewrite <- v9, ending <- v10, settled <- v11, charged <-
    v12, rewrites <- v13, faults <- v14, losses <- v15

\* One settlement without a job at the same time, of a call that may reach its
\* limit.
TickFlush == INSTANCE BillingTick WITH
    Workers <- {}, Opening <- 5, Limit <- 5, MaxDelta <- 2, MaxFlush <- 3,
    DeltaCursor <- FALSE, Nobody <- None, Slow <- FALSE, MaxTime <- 6, MaxRewrites <- 0, MaxFaults
    <- 0, MaxLosses <- 0,
    now <- v1, session <- v2, wallet <- v3, lock <- v4, owner <- v5, gate <- v6,
    jobs <- v7, exec <- v8, rewrite <- v9, ending <- v10, settled <- v11, charged <-
    v12, rewrites <- v13, faults <- v14, losses <- v15

\* Two handlers of one call at once.
Call == INSTANCE CallLifecycle WITH
    Calls <- {d1}, NoCall <- None, Overlap <- 2, Kinds <- {"ring", "accept", "start",
    "end", "sessionEnd", "socket", "recon"}, Toggles <- FALSE, Lossy <- FALSE, Slow <- FALSE,
    stream <- v1, mail <- v2, doc <- v3, isSettled <- v4, session <- v5, ending <-
    v6, slot <- v7, base <- v8, snap <- v9, busy <- v10, lock <- v11, done <- v12,
    at <- v13, mem <- v14, past <- v15

\* Two ends of one call at once; they may outlive the finalizer's lock.
CallSlow == INSTANCE CallLifecycle WITH
    Calls <- {d1}, NoCall <- None, Overlap <- 2, Kinds <- {"start", "end", "sessionEnd", "socket"},
    Toggles <- FALSE, Lossy <- FALSE, Slow <- TRUE,
    stream <- v1, mail <- v2, doc <- v3, isSettled <- v4, session <- v5, ending <-
    v6, slot <- v7, base <- v8, snap <- v9, busy <- v10, lock <- v11, done <- v12,
    at <- v13, mem <- v14, past <- v15

\* Two calls of one creator.
CallTwo == INSTANCE CallLifecycle WITH
    Calls <- {d1, d2}, NoCall <- None, Overlap <- 1, Kinds <- {"ring", "start",
    "end"}, Toggles <- FALSE, Lossy <- FALSE, Slow <- FALSE,
    stream <- v1, mail <- v2, doc <- v3, isSettled <- v4, session <- v5, ending <-
    v6, slot <- v7, base <- v8, snap <- v9, busy <- v10, lock <- v11, done <- v12,
    at <- v13, mem <- v14, past <- v15

\* One call, one handler after the other, and a creator who connects and
\* disconnects.
CallTurns == INSTANCE CallLifecycle WITH
    Calls <- {d1}, NoCall <- None, Overlap <- 1, Kinds <- {"ring", "accept", "start",
    "end", "sessionEnd", "socket", "recon"}, Toggles <- TRUE, Lossy <- TRUE, Slow <- FALSE,
    stream <- v1, mail <- v2, doc <- v3, isSettled <- v4, session <- v5, ending <-
    v6, slot <- v7, base <- v8, snap <- v9, busy <- v10, lock <- v11, done <- v12,
    at <- v13, mem <- v14, past <- v15

\* Two instances with the registry, a crash and a socket that goes early.
Presence == INSTANCE Presence WITH
    Instances <- {p1, p2}, Sockets <- {d1, d2}, None <- None, Registry <- TRUE,
    Atomic <- FALSE, MaxToggles <- 1, MaxConnects <- 2, MaxDrops <- 1, MaxCrashes <- 1,
    MaxCalls <- 0,
    conn <- v1, reg <- v2, tracked <- v3, intent <- v4, wish <- v5, base <- v6, call
    <- v7, slot <- v8, hb <- v9, seen <- v10, lease <- v11, timer <- v12, grace <-
    v13, op <- v14, used <- v15

\* Transitions that do not overlap.
PresenceTurns == INSTANCE Presence WITH
    Instances <- {p1, p2}, Sockets <- {d1, d2}, None <- None, Registry <- TRUE,
    Atomic <- TRUE, MaxToggles <- 2, MaxConnects <- 2, MaxDrops <- 1, MaxCrashes <- 1,
    MaxCalls <- 0,
    conn <- v1, reg <- v2, tracked <- v3, intent <- v4, wish <- v5, base <- v6, call
    <- v7, slot <- v8, hb <- v9, seen <- v10, lease <- v11, timer <- v12, grace <-
    v13, op <- v14, used <- v15

\* One instance without the registry.
PresenceOne == INSTANCE Presence WITH
    Instances <- {p1}, Sockets <- {d1, d2}, None <- None, Registry <- FALSE, Atomic
    <- FALSE, MaxToggles <- 1, MaxConnects <- 3, MaxDrops <- 1,
    MaxCrashes <- 1, MaxCalls <- 1,
    conn <- v1, reg <- v2, tracked <- v3, intent <- v4, wish <- v5, base <- v6, call
    <- v7, slot <- v8, hb <- v9, seen <- v10, lease <- v11, timer <- v12, grace <-
    v13, op <- v14, used <- v15

\* Two readers overlap the changes of a profile.
Catalog == INSTANCE Catalog WITH
    Creators <- {d1}, Requests <- {p1, p2}, None <- None, Rank <- FALSE,
    Transactions <- TRUE, Overlap <- TRUE, MaxEdits <- 1,
    doc <- v1, role <- v2, edits <- v3, feed <- v4, indexed <- v5, detail <- v6,
    uids <- v7, uidSet <- v8, rank <- v9, card <- v10, job <- v11, op <- v12,
    rankJobs <- v13

\* Reads and changes of a profile take turns.
CatalogTurns == INSTANCE Catalog WITH
    Creators <- {d1}, Requests <- {p1}, None <- None, Rank <- TRUE, Transactions <-
    TRUE, Overlap <- FALSE, MaxEdits <- 2,
    doc <- v1, role <- v2, edits <- v3, feed <- v4, indexed <- v5, detail <- v6,
    uids <- v7, uidSet <- v8, rank <- v9, card <- v10, job <- v11, op <- v12,
    rankJobs <- v13

\* Two commits overlap on a gallery of one image.
Gallery == INSTANCE Images WITH
    Images <- {d1, d2}, Slots <- {"s1", "s2"}, Requests <- {p1, p2}, None <- None,
    MaxGallery <- 1, MinGallery <- 1, Quota <- 2, Sweeps <- FALSE, Reorders <- FALSE,
    session <- v1, index <- v2, due <- v3, bytes <- v4, status <- v5, gallery <- v6,
    avatar <- v7, used <- v8, job <- v9, listing <- v10, blurJobs <- v11, sweeping
    <- v12

\* Sessions expire, orphans are swept and galleries are reordered.
ImagesSweep == INSTANCE Images WITH
    Images <- {d1, d2}, Slots <- {"s1"}, Requests <- {p1, p2}, None <- None,
    MaxGallery <- 1, MinGallery <- 0, Quota <- 2, Sweeps <- TRUE, Reorders <- TRUE,
    session <- v1, index <- v2, due <- v3, bytes <- v4, status <- v5, gallery <- v6,
    avatar <- v7, used <- v8, job <- v9, listing <- v10, blurJobs <- v11, sweeping
    <- v12

\* Two workers, a crash and replays; the settlement succeeds.
Outbox == INSTANCE Outbox WITH
    Workers <- {p1, p2}, None <- None, MaxRetries <- 2, MaxCrashes <- 1, UseOutbox
    <- TRUE, MayFail <- FALSE, Replays <- TRUE,
    order <- v1, st <- v2, retry <- v3, old <- v4, lock <- v5, w <- v6, row <- v7,
    call <- v8, ran <- v9, crashes <- v10

\* The settlement may be given up first.
OutboxFails == INSTANCE Outbox WITH
    Workers <- {p1, p2}, None <- None, MaxRetries <- 1, MaxCrashes <- 0, UseOutbox
    <- TRUE, MayFail <- TRUE, Replays <- FALSE,
    order <- v1, st <- v2, retry <- v3, old <- v4, lock <- v5, w <- v6, row <- v7,
    call <- v8, ran <- v9, crashes <- v10

\* Without the outbox the request writes the rows.
OutboxInline == INSTANCE Outbox WITH
    Workers <- {p1, p2}, None <- None, MaxRetries <- 1, MaxCrashes <- 1, UseOutbox
    <- FALSE, MayFail <- FALSE, Replays <- FALSE,
    order <- v1, st <- v2, retry <- v3, old <- v4, lock <- v5, w <- v6, row <- v7,
    call <- v8, ran <- v9, crashes <- v10

\* Joins, leaves, pops and sweeps overlap.
Queue == INSTANCE VipQueue WITH
    Callers <- {d1, d2}, Poppers <- {p1, p2}, None <- None, MaxEntries <- 2,
    SweepAlone <- FALSE,
    queue <- v1, entry <- v2, made <- v3, joining <- v4, leaving <- v5, pop <- v6,
    stale <- v7

\* Joins, leaves and pops overlap; the sweep runs between them.
QueueCalm == INSTANCE VipQueue WITH
    Callers <- {d1, d2}, Poppers <- {p1, p2}, None <- None, MaxEntries <- 2,
    SweepAlone <- TRUE,
    queue <- v1, entry <- v2, made <- v3, joining <- v4, leaving <- v5, pop <- v6,
    stale <- v7

\* Two ticks of the job overlap.
Schedule == INSTANCE VipSchedule WITH
    Calls <- {d1, d2, d3}, Replicas <- {p1, p2}, Serial <- FALSE,
    status <- v1, past <- v2, reminded <- v3, emits <- v4, confirming <- v5,
    cancelling <- v6, due <- v7

\* Requests take turns.
ScheduleTurns == INSTANCE VipSchedule WITH
    Calls <- {d1, d2, d3}, Replicas <- {p1, p2}, Serial <- TRUE,
    status <- v1, past <- v2, reminded <- v3, emits <- v4, confirming <- v5,
    cancelling <- v6, due <- v7

\* Handlers of one video overlap.
Video == INSTANCE StreamUpload WITH
    Videos <- {d1}, Handlers <- {p1, p2}, Ttl <- 4, UploadingCutoff <- 2,
    ProcessingCutoff <- 4, MaxTime <- 5, MaxHeard <- 3, MaxPosts <- 2, Serial <-
    FALSE, MayFail <- TRUE,
    now <- v1, video <- v2, sent <- v3, heard <- v4, sess <- v5, indexed <- v6,
    expires <- v7, work <- v8, posts <- v9

\* Handlers of one video take turns.
VideoTurns == INSTANCE StreamUpload WITH
    Videos <- {d1}, Handlers <- {p1, p2}, Ttl <- 4, UploadingCutoff <- 2,
    ProcessingCutoff <- 4, MaxTime <- 5, MaxHeard <- 3, MaxPosts <- 2, Serial <-
    TRUE, MayFail <- TRUE,
    now <- v1, video <- v2, sent <- v3, heard <- v4, sess <- v5, indexed <- v6,
    expires <- v7, work <- v8, posts <- v9

\* Likes, unlikes and views of one moment overlap.
Likes == INSTANCE Engagement WITH
    Users <- {p3, d3}, Requests <- {p1, p2, d1}, Comments <- {}, Entitled <- {p3,
    d3}, Kinds <- {"like", "view"}, Moment <- Host, Author <- p3, MaxCount <- 2,
    Overlap <- TRUE,
    deleted <- v1, likes <- v2, count <- v3, reset <- v4, comments <- v5, total <-
    v6, views <- v7, viewed <- v8, score <- v9, req <- v10

\* Comments and views overlap; one of the two users has no access.
Commenting == INSTANCE Engagement WITH
    Users <- {p3, d3}, Requests <- {p1, p2}, Comments <- {d1, d2}, Entitled <- {d3},
    Kinds <- {"comment", "view"}, Moment <- Host, Author <- p3, MaxCount <- 1,
    Overlap <- TRUE,
    deleted <- v1, likes <- v2, count <- v3, reset <- v4, comments <- v5, total <-
    v6, views <- v7, viewed <- v8, score <- v9, req <- v10

\* Likes and comments of one moment take turns.
CommentsTurns == INSTANCE Engagement WITH
    Users <- {p3, d3}, Requests <- {p1}, Comments <- {d1, d2}, Entitled <- {p3, d3},
    Kinds <- {"like", "comment"}, Moment <- Host, Author <- p3, MaxCount <- 2,
    Overlap <- FALSE,
    deleted <- v1, likes <- v2, count <- v3, reset <- v4, comments <- v5, total <-
    v6, views <- v7, viewed <- v8, score <- v9, req <- v10

\* Handlers and the workers of one moment overlap.
Feed == INSTANCE MomentsFeed WITH
    LastMoment <- 1, Limit <- 1, Handlers <- {p1, p2}, Overlap <- TRUE, MayFail <-
    FALSE,
    row <- v1, follows <- v2, ids <- v3, queue <- v4, dead <- v5, warm <- v6, page
    <- v7, popular <- v8, stale <- v9, run <- v10

\* Two moments on pages of one; handlers take turns, fan-outs fail.
FeedTurns == INSTANCE MomentsFeed WITH
    LastMoment <- 2, Limit <- 1, Handlers <- {p1}, Overlap <- FALSE, MayFail <- TRUE,
    row <- v1, follows <- v2, ids <- v3, queue <- v4, dead <- v5, warm <- v6, page
    <- v7, popular <- v8, stale <- v9, run <- v10

\* Changes and readers of the list overlap.
Preview == INSTANCE FreePreview WITH
    Moments <- {d1}, Limit <- 1, Second <- 1, CacheTtl <- 1, LastTime <- 0, MaxVersion <- 2,
    Handlers <- {p1, p2}, Overlap <- TRUE,
    now <- v1, public <- v2, row <- v3, version <- v4, changes <- v5, cache <- v6,
    seen <- v7, blind <- v8, run <- v9

\* Handlers take turns; half seconds pass while they run.
PreviewTurns == INSTANCE FreePreview WITH
    Moments <- {d1}, Limit <- 1, Second <- 2, CacheTtl <- 2, LastTime <- 3, MaxVersion <- 2,
    Handlers <- {p1}, Overlap <- FALSE,
    now <- v1, public <- v2, row <- v3, version <- v4, changes <- v5, cache <- v6,
    seen <- v7, blind <- v8, run <- v9

\* Reports of two client versions overlap and repeat.
Onboarding == INSTANCE Onboarding WITH
    Handlers <- {p1, p2}, Ids <- {1}, None <- None,
    user <- v1, open <- v2, req <- v3, forwarded <- v4

\* Pre-sends of two messages and a reader overlap and fail.
Chat == INSTANCE Chat WITH
    Requests <- {p1, p2}, Readers <- {p3}, Messages <- {d1, d2}, Free <- 1, Cost <-
    2, Opening <- 2, LastDay <- 2, LastProfile <- 0, Overlap <- TRUE, MayFail <-
    TRUE,
    day <- v1, coins <- v2, rows <- v3, quota <- v4, lock <- v5, creator <- v6,
    profile <- v7, header <- v8, req <- v9, read <- v10, counted <- v11, expired <-
    v12, given <- v13, wiped <- v14

\* Pre-sends and readers take turns.
ChatTurns == INSTANCE Chat WITH
    Requests <- {p1}, Readers <- {p3}, Messages <- {d1, d2}, Free <- 1, Cost <- 2,
    Opening <- 3, LastDay <- 2, LastProfile <- 3, Overlap <- FALSE, MayFail <- FALSE,
    day <- v1, coins <- v2, rows <- v3, quota <- v4, lock <- v5, creator <- v6,
    profile <- v7, header <- v8, req <- v9, read <- v10, counted <- v11, expired <-
    v12, given <- v13, wiped <- v14

\* Two forced ends of one call and the job that retries overlap and die.
Termination == INSTANCE Termination WITH
    Paths <- {p1, p2}, MaxAttempts <- 2,
    marker <- v1, lease <- v2, requested <- v3, runs <- v4, active <- v5, stream <-
    v6, job <- v7, at <- v8, owes <- v9, gaveUp <- v10

\* Three tickets of a user on two days with one slot each.
Tickets == INSTANCE Support WITH
    Requests <- {p1, p2, p3}, Sessions <- {}, Admins <- {}, Kinds <- {"user"}, Limit
    <- 1, LastDay <- 2, MaxNotes <- 0, MayFail <- TRUE,
    Sweeps <- FALSE,
    counter <- v1, day <- v2, session <- v3, bytes <- v4, ticket <- v5, req <- v6,
    edit <- v7, misplaced <- v8, replied <- v9, overlapped <- v10, orphan <- v11

\* Two requests present the same two upload sessions.
Attachments == INSTANCE Support WITH
    Requests <- {p1, p2}, Sessions <- {d1, d2}, Admins <- {}, Kinds <- {"user",
    "commit"}, Limit <- 2, LastDay <- 1, MaxNotes <- 0, MayFail <- TRUE,
    Sweeps <- TRUE,
    counter <- v1, day <- v2, session <- v3, bytes <- v4, ticket <- v5, req <- v6,
    edit <- v7, misplaced <- v8, replied <- v9, overlapped <- v10, orphan <- v11

\* Two administrators answer and assign one ticket.
Replies == INSTANCE Support WITH
    Requests <- {p3}, Sessions <- {}, Admins <- {d1, d2}, Kinds <- {"staff"}, Limit
    <- 1, LastDay <- 2, MaxNotes <- 2, MayFail <- TRUE,
    Sweeps <- FALSE,
    counter <- v1, day <- v2, session <- v3, bytes <- v4, ticket <- v5, req <- v6,
    edit <- v7, misplaced <- v8, replied <- v9, overlapped <- v10, orphan <- v11

\* Logins and the deletion of one account overlap.
Account == INSTANCE Account WITH
    Handlers <- {p1, p2}, Platforms <- {"web", "mobile"}, LastUid <- 1, LastId <- 1,
    MayFail <- FALSE, Overlap <- TRUE, Staffed <- FALSE,
    user <- v1, uid <- v2, deleted <- v3, admins <- v4, req <- v5, id <- v6, shown
    <- v7, used <- v8, unrecorded <- v9

\* One person deletes the account and signs up again; requests take turns.
AccountTurns == INSTANCE Account WITH
    Handlers <- {p1}, Platforms <- {"web", "mobile"}, LastUid <- 2, LastId <- 2,
    MayFail <- TRUE, Overlap <- FALSE, Staffed <- TRUE,
    user <- v1, uid <- v2, deleted <- v3, admins <- v4, req <- v5, id <- v6, shown
    <- v7, used <- v8, unrecorded <- v9

\* None is none of the others, not the flush and no operation on the catalogue,
\* and no request is the worker of the retries.
ASSUME NamesAssumption ==
    /\ None \notin {p1, p2, p3, d1, d2, d3, "flush"} /\ "worker" \notin {p1, p2}
    /\ None \notin [kind : Catalog!Kinds, st : {"saved", "sent"}, keys : BOOLEAN]

Init ==
    \/ Begins("start", 13) /\ Start!Init
    \/ Begins("startTurns", 13) /\ StartTurns!Init
    \/ Begins("tick", 15) /\ Tick!Init
    \/ Begins("tickTotals", 15) /\ TickTotals!Init
    \/ Begins("tickSlow", 15) /\ TickSlow!Init
    \/ Begins("tickFlush", 15) /\ TickFlush!Init
    \/ Begins("call", 15) /\ Call!Init
    \/ Begins("callSlow", 15) /\ CallSlow!Init
    \/ Begins("callTwo", 15) /\ CallTwo!Init
    \/ Begins("callTurns", 15) /\ CallTurns!Init
    \/ Begins("presence", 15) /\ Presence!Init
    \/ Begins("presenceTurns", 15) /\ PresenceTurns!Init
    \/ Begins("presenceOne", 15) /\ PresenceOne!Init
    \/ Begins("catalog", 13) /\ Catalog!Init
    \/ Begins("catalogTurns", 13) /\ CatalogTurns!Init
    \/ Begins("images", 12) /\ Gallery!Init
    \/ Begins("imagesSweep", 12) /\ ImagesSweep!Init
    \/ Begins("outbox", 10) /\ Outbox!Init
    \/ Begins("outboxFails", 10) /\ OutboxFails!Init
    \/ Begins("outboxInline", 10) /\ OutboxInline!Init
    \/ Begins("queue", 7) /\ Queue!Init
    \/ Begins("queueCalm", 7) /\ QueueCalm!Init
    \/ Begins("schedule", 7) /\ Schedule!Init
    \/ Begins("scheduleTurns", 7) /\ ScheduleTurns!Init
    \/ Begins("video", 9) /\ Video!Init
    \/ Begins("videoTurns", 9) /\ VideoTurns!Init
    \/ Begins("likes", 10) /\ Likes!Init
    \/ Begins("comments", 10) /\ Commenting!Init
    \/ Begins("commentsTurns", 10) /\ CommentsTurns!Init
    \/ Begins("feed", 10) /\ Feed!Init
    \/ Begins("feedTurns", 10) /\ FeedTurns!Init
    \/ Begins("preview", 9) /\ Preview!Init
    \/ Begins("previewTurns", 9) /\ PreviewTurns!Init
    \/ Begins("onboarding", 4) /\ Onboarding!Init
    \/ Begins("chat", 14) /\ Chat!Init
    \/ Begins("chatTurns", 14) /\ ChatTurns!Init
    \/ Begins("termination", 10) /\ Termination!Init
    \/ Begins("tickets", 11) /\ Tickets!Init
    \/ Begins("attachments", 11) /\ Attachments!Init
    \/ Begins("replies", 11) /\ Replies!Init
    \/ Begins("account", 9) /\ Account!Init
    \/ Begins("accountTurns", 9) /\ AccountTurns!Init

Next ==
    \/ Steps("start", 13) /\ Start!Next
    \/ Steps("startTurns", 13) /\ StartTurns!Next
    \/ Steps("tick", 15) /\ Tick!Next
    \/ Steps("tickTotals", 15) /\ TickTotals!Next
    \/ Steps("tickSlow", 15) /\ TickSlow!Next
    \/ Steps("tickFlush", 15) /\ TickFlush!Next
    \/ Steps("call", 15) /\ Call!Next
    \/ Steps("callSlow", 15) /\ CallSlow!Next
    \/ Steps("callTwo", 15) /\ CallTwo!Next
    \/ Steps("callTurns", 15) /\ CallTurns!Next
    \/ Steps("presence", 15) /\ Presence!Next
    \/ Steps("presenceTurns", 15) /\ PresenceTurns!Next
    \/ Steps("presenceOne", 15) /\ PresenceOne!Next
    \/ Steps("catalog", 13) /\ Catalog!Next
    \/ Steps("catalogTurns", 13) /\ CatalogTurns!Next
    \/ Steps("images", 12) /\ Gallery!Next
    \/ Steps("imagesSweep", 12) /\ ImagesSweep!Next
    \/ Steps("outbox", 10) /\ Outbox!Next
    \/ Steps("outboxFails", 10) /\ OutboxFails!Next
    \/ Steps("outboxInline", 10) /\ OutboxInline!Next
    \/ Steps("queue", 7) /\ Queue!Next
    \/ Steps("queueCalm", 7) /\ QueueCalm!Next
    \/ Steps("schedule", 7) /\ Schedule!Next
    \/ Steps("scheduleTurns", 7) /\ ScheduleTurns!Next
    \/ Steps("video", 9) /\ Video!Next
    \/ Steps("videoTurns", 9) /\ VideoTurns!Next
    \/ Steps("likes", 10) /\ Likes!Next
    \/ Steps("comments", 10) /\ Commenting!Next
    \/ Steps("commentsTurns", 10) /\ CommentsTurns!Next
    \/ Steps("feed", 10) /\ Feed!Next
    \/ Steps("feedTurns", 10) /\ FeedTurns!Next
    \/ Steps("preview", 9) /\ Preview!Next
    \/ Steps("previewTurns", 9) /\ PreviewTurns!Next
    \/ Steps("onboarding", 4) /\ Onboarding!Next
    \/ Steps("chat", 14) /\ Chat!Next
    \/ Steps("chatTurns", 14) /\ ChatTurns!Next
    \/ Steps("termination", 10) /\ Termination!Next
    \/ Steps("tickets", 11) /\ Tickets!Next
    \/ Steps("attachments", 11) /\ Attachments!Next
    \/ Steps("replies", 11) /\ Replies!Next
    \/ Steps("account", 9) /\ Account!Next
    \/ Steps("accountTurns", 9) /\ AccountTurns!Next

Spec == Init /\ [][Next]_pool

\* Requests are alike, and so are the data.
Symmetry == Permutations({p1, p2}) \cup Permutations({d1, d2})

-----------------------------------------------------------------------------
\* The state of the component at work is well formed.
TypeOK ==
    /\ scenario = "start" => Start!TypeOK
    /\ scenario = "tick" => Tick!TypeOK
    /\ scenario = "callTurns" => CallTurns!TypeOK
    /\ scenario = "presence" => Presence!TypeOK
    /\ scenario = "catalog" => Catalog!TypeOK
    /\ scenario = "images" => Gallery!TypeOK
    /\ scenario = "outbox" => Outbox!TypeOK
    /\ scenario = "queue" => Queue!TypeOK

\* Two workers, the flush, the watchdog and the rebuilding of a lost session
\* never charge more than the time that passed or the coins there were;
\* without the watchdog the coins left in Redis and the coins deducted add up
\* to the opening balance, whatever crashes between the two keys; a flush
\* without a job at the same time charges all time up to the end, or up to
\* the limit of the call, except what the tick that reached the limit left
\* behind. A tick that outlives its lock overcharges nobody. With starts
\* that take turns nobody has two billed calls, whatever crashes leave
\* behind. However pre-sends of a message overlap and fail, it is counted
\* once for each life of its key, what left the wallet is in the ledger, and
\* a period has its free messages and no others than those a late reader has
\* reset, which takes handlers that overlap. The tick that stops and the
\* forced end it causes trigger one finalization while the claim stands. With
\* requests that take turns a person has the free call once, whoever deletes
\* an account and signs up again.
BillingIsExact ==
    /\ scenario = "tick" => Tick!NeverOvercharged
    /\ scenario = "tickSlow" => TickSlow!NeverOvercharged
    /\ scenario = "tickTotals" => TickTotals!Conserved
    /\ scenario = "tickFlush" => TickFlush!FlushCharges
    /\ scenario = "startTurns" => StartTurns!OneBilledCall
    /\ scenario = "chat" => Chat!CountedOnce
    /\ scenario = "chat" => Chat!PaidIsBooked
    /\ scenario = "chat" => Chat!FreeWithinLimit
    /\ scenario = "chatTurns" => ChatTurns!FreeIsExact
    /\ scenario = "termination" => Termination!OneFinalization
    /\ scenario = "accountTurns" => AccountTurns!FreeCallOnce

\* However requests to start a call overlap, only one whose start lock was
\* taken over while it ran seeds a session again that is billed; without the
\* watchdog the deducted total of a session falls only by a tick whose lock
\* expired under it; and with handlers that take turns an ended call stays
\* ended.
BillingNeverTurnsBack ==
    [][/\ scenario = "start" => Start!NeverReseeded
       /\ scenario = "tickTotals" => TickTotals!NeverRolledBack
       /\ scenario = "tickSlow" => TickSlow!NeverRolledBack
       /\ scenario = "callTurns" => CallTurns!EndedIsTerminal]_pool

\* The marker that a call has ended is set only when it has at Stream, one
\* path at a time tells Stream, and a call it still has is retried for as
\* long as the reasons to give up allow. One handler at a time finalizes a
\* call unless the lock expired under one of them, and none marks a call done
\* whose session is not settled. A creator in a billed call that goes on and
\* holds the slot is never callable, in overlapping ends of one call and with
\* a second call of the same creator. One instance at most keeps the
\* heartbeat of a creator going, and with transitions that do not overlap a
\* creator who went offline is not shown online.
CallabilityIsTrue ==
    /\ scenario = "call" => Call!OneFinalizer
    /\ scenario = "call" => Call!DoneIsSettled
    /\ scenario = "call" => Call!NotCallableInCall
    /\ scenario = "callSlow" => CallSlow!DoneIsSettled
    /\ scenario = "callSlow" => CallSlow!NotCallableInCall
    /\ scenario = "callTwo" => CallTwo!NotCallableInCall
    /\ scenario = "presence" => Presence!OneHeartbeat
    /\ scenario = "presenceTurns" => PresenceTurns!OfflineSticks
    /\ scenario = "termination" => Termination!OneCaller
    /\ scenario = "termination" => Termination!MarkerIsTrue
    /\ scenario = "termination" => Termination!RetryIsQueued

\* A user has the role creator exactly while there is a profile, and with
\* reads and changes that take turns no cached copy survives the change that
\* makes it wrong, in the catalogue and, for the changes of a profile that
\* invalidate it, in the header of a chat. The
\* timestamps of onboarding say where a user is, and what was accepted is not
\* turned into skipped by a late report. A reply to a ticket that was saved
\* is not undone by an assignment at the same time. However logins overlap,
\* the audience of an account is true; with logins that take turns its
\* referral code stays, and there is one administrator.
CatalogAgrees ==
    /\ scenario = "catalog" => Catalog!RoleFollowsProfile
    /\ scenario = "catalogTurns" => CatalogTurns!CopiesAgree
    /\ scenario = "chatTurns" => ChatTurns!HeaderIsFresh
    /\ scenario = "onboarding" => Onboarding!StagesAreMarked
    /\ scenario = "onboarding" => Onboarding!AcceptStands
    /\ scenario = "replies" => Replies!RepliesKept
    /\ scenario = "account" => Account!AudienceIsTrue
    /\ scenario = "accountTurns" => AccountTurns!CodesStay
    /\ scenario = "accountTurns" => AccountTurns!OneAdministrator

\* However likes and views overlap, a counter that was never set to zero is
\* the number of its rows, and comments are never counted below zero; a
\* cached page shows what is hidden only when it was out of date as it was
\* stored; the version of the free list counts every change. With handlers
\* that take turns comments and the score are exact, pages are current, and
\* the free list follows its schedule and is never reordered over an unseen
\* change.
MomentsAreTrue ==
    /\ scenario = "likes" => Likes!LikesCounted
    /\ scenario = "likes" => Likes!ViewsCounted
    /\ scenario = "comments" => Commenting!NeverBelowZero
    /\ scenario = "commentsTurns" => CommentsTurns!CommentsCounted
    /\ scenario = "feed" => Feed!PagesAreVisible
    /\ scenario = "feedTurns" => FeedTurns!PagesAreCurrent
    /\ scenario = "preview" => Preview!VersionCounts
    /\ scenario = "previewTurns" => PreviewTurns!CacheWithinSchedule
    /\ scenario = "previewTurns" => PreviewTurns!OrderIsInformed

\* Commits that overlap never make a gallery longer than its limit, nothing
\* that deletes bytes hits an image a gallery shows, unless its session was
\* out of time when a commit took it, and an upload ends up in
\* one place however many commits present its session; what was posted is a
\* video Cloudflare has encoded, and with handlers that take turns it is
\* posted once. A ticket has all the images it was sent with, no other ticket
\* has them, and the sweep leaves their bytes but for sessions out of time.
MediaAreWhole ==
    /\ scenario = "images" => Gallery!GalleryBounded
    /\ scenario = "images" => Gallery!GalleryHasBytes
    /\ scenario = "imagesSweep" => ImagesSweep!GalleryHasBytes
    /\ scenario = "imagesSweep" => ImagesSweep!UsedOnce
    /\ scenario = "video" => Video!PostedIsReady
    /\ scenario = "videoTurns" => VideoTurns!PostedOnce
    /\ scenario = "attachments" => Attachments!AttachedWhole

\* No event leaves the outbox as processed before its handler has run to its
\* end, whatever crashes and whoever reclaims it; and once the settlement has
\* committed the history rows say so: no delayed, repeated or overlapping
\* projection takes it back.
EventsAreProjected ==
    /\ scenario = "outbox" => Outbox!ProcessedMeansRun
    /\ scenario = "outboxFails" => OutboxFails!ProcessedMeansRun
    /\ scenario = "outbox" => Outbox!SettledShown
    /\ scenario = "outboxInline" => OutboxInline!SettledShown

\* However joins, leaves, pops and sweeps overlap, an entry of the VIP queue
\* is rung once; and while no sweep overlaps them, who waits has a place once
\* nothing is under way. A scheduled
\* call is announced once, even when the ticks of two replicas overlap.
\* However requests for tickets overlap, those of a day never exceed its
\* limit but for slots of the day before given back after midnight.
PlacesAreKept ==
    /\ scenario = "queue" => Queue!RingsOnce
    /\ scenario = "queueCalm" => QueueCalm!PlacesMatch
    /\ scenario = "schedule" => Schedule!RemindedOnce
    /\ scenario = "tickets" => Tickets!TicketsWithinLimit

\* On one instance the disconnect of the last socket that listens for it is
\* noticed by the grace timer; with requests that take turns a cancelled call
\* stays cancelled. However the reports
\* of onboarding overlap and repeat, a user moves forward along the stages of
\* the version or by the rollout.
StepsAreJustified ==
    [][/\ scenario = "presenceOne" => PresenceOne!GraceSetsOffline
       /\ scenario = "scheduleTurns" => ScheduleTurns!CancelledStays
       /\ scenario = "onboarding" => Onboarding!MovesForward]_pool
=============================================================================
