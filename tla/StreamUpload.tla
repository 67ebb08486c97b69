---------------------------- MODULE StreamUpload ----------------------------
(***************************************************************************)
(* Upload sessions for videos: a session in Redis for each video at        *)
(* Cloudflare, its index, the webhook, the status request of the client,   *)
(* the sweeper, and the creation of a moment or story that consumes the    *)
(* session.  Whoever updates a session reads it and writes it back whole.  *)
(***************************************************************************)
EXTENDS Naturals

CONSTANTS Videos,
          Handlers,    \* requests, webhooks and sweeps under way
          Ttl, UploadingCutoff, ProcessingCutoff,  \* DEFAULT_TTL_SECONDS and the sweeper's limits, in ticks
          MaxTime, MaxHeard, MaxPosts,  \* bounds on the clock, on webhooks and on what is created
          Serial,      \* whether handlers take turns
          MayFail      \* whether calls to Cloudflare may fail

VARIABLES now,
          video,    \* the state of each video at Cloudflare
          sent,     \* states Cloudflare told the webhook of
          heard,    \* webhooks received
          sess,     \* the session, or NoSession when the key is gone
          indexed,  \* the sorted set of sessions
          expires,  \* expiresAt of each session
          work,     \* what each handler does
          posts     \* moments and stories made of each video

vars == <<now, video, sent, heard, sess, indexed, expires, work, posts>>
cloud == <<video, sent>>

NoSession == [st |-> "none", updated |-> 0]
Idle == [at |-> "idle", v |-> "", st |-> "none"]

Init == /\ now = 0 /\ indexed = {}
        /\ video = [v \in Videos |-> "none"]
        /\ sent = [v \in Videos |-> {}]
        /\ heard = [v \in Videos |-> 0]
        /\ sess = [v \in Videos |-> NoSession]
        /\ expires = [v \in Videos |-> 0]
        /\ work = [h \in Handlers |-> Idle]
        /\ posts = [v \in Videos |-> 0]

Free(h) == /\ work[h] = Idle
           /\ Serial => \A g \in Handlers : work[g] = Idle
Does(h, at, v, st) == work' = [work EXCEPT ![h] = [at |-> at, v |-> v, st |-> st]]
Ends(h) == work' = [work EXCEPT ![h] = Idle]
Present(v) == sess[v].st # "none"

\* createStreamUploadSession: key, lifetime and entry in the index.
NewSession(v) == /\ sess' = [sess EXCEPT ![v] = [st |-> "uploading", updated |-> now]]
                 /\ expires' = [expires EXCEPT ![v] = now + Ttl]
                 /\ indexed' = indexed \cup {v}

\* createDirectUploadHandler.
Open(v) == /\ video[v] = "none"
           /\ video' = [video EXCEPT ![v] = "pendingupload"]
           /\ NewSession(v)
           /\ UNCHANGED <<now, sent, heard, work, posts>>

\* Cloudflare goes on and tells the webhook.
Encode(v) == \E s \in CASE video[v] = "pendingupload" -> {"inprogress"}
                        [] video[v] = "inprogress" -> {"ready", "error"}
                        [] OTHER -> {} :
    /\ video' = [video EXCEPT ![v] = s]
    /\ sent' = [sent EXCEPT ![v] = @ \cup {s}]
    /\ UNCHANGED <<now, heard, sess, indexed, expires, work, posts>>

\* mapCloudflareStreamState, and the same in the webhook.
Mapped(s) == CASE s = "ready" -> "ready" [] s = "error" -> "failed" [] OTHER -> "processing"

\* verifyStreamWebhook lets through what Cloudflare signed.
Told(v, s) == s \in sent[v] /\ heard[v] < MaxHeard

\* findStreamSessionByVideoId.
Found(v) == v \in indexed /\ Present(v)

\* handleStreamWebhook: a state may be told late and more than once; a video
\* without a session is left alone.
Hear(h, v, s) == /\ Free(h) /\ Told(v, s)
                 /\ heard' = [heard EXCEPT ![v] = @ + 1]
                 /\ IF Found(v) THEN Does(h, "write", v, Mapped(s)) ELSE UNCHANGED work
                 /\ UNCHANGED <<now, cloud, sess, indexed, expires, posts>>

\* Asks only about uploads that have not been heard of.
PollUnheard(h, v) == /\ Free(h) /\ sess[v].st = "uploading"
                     /\ Does(h, "ask", v, sess[v].st)
                     /\ UNCHANGED <<now, cloud, heard, sess, indexed, expires, posts>>

\* getUploadStatusHandler: what is ready or failed is answered at once.
Poll(h, v) == /\ Free(h) /\ sess[v].st \in {"uploading", "processing"}
              /\ Does(h, "ask", v, sess[v].st)
              /\ UNCHANGED <<now, cloud, heard, sess, indexed, expires, posts>>

\* getStreamVideoDetails.
IsReady(v) == video[v] = "ready"

\* syncStreamUploadSessionFromCloudflare compares the session with itself, so
\* that only a video that became ready is written.
Ask(h) == LET k == work[h] IN
    /\ k.at = "ask"
    /\ \/ IF IsReady(k.v) THEN Does(h, "write", k.v, "ready") ELSE Ends(h)
       \/ MayFail /\ Ends(h)
    /\ UNCHANGED <<now, cloud, heard, sess, indexed, expires, posts>>

\* updateStreamUploadSession sets the key whether it is there or not; it lives
\* a minute at least, here a tick.
Write(h) == LET k == work[h] IN
    /\ k.at = "write" /\ Ends(h)
    /\ sess' = [sess EXCEPT ![k.v] = [st |-> k.st, updated |-> now]]
    /\ UNCHANGED <<now, cloud, heard, indexed, expires, posts>>

Stale(v) == \/ sess[v].st = "uploading" /\ now - sess[v].updated > UploadingCutoff
            \/ sess[v].st = "processing" /\ now - sess[v].updated > ProcessingCutoff

\* sweepStaleStreamSessions.
Sweep(h, v) == /\ Free(h) /\ v \in indexed /\ Stale(v)
               /\ Does(h, "write", v, "failed")
               /\ UNCHANGED <<now, cloud, heard, sess, indexed, expires, posts>>

\* Takes sessions that are not ready.
CreateAny(h, v) == /\ Free(h) /\ Present(v) /\ posts[v] < MaxPosts
                   /\ Does(h, "take", v, "ready")
                   /\ UNCHANGED <<now, cloud, heard, sess, indexed, expires, posts>>

\* createStoryHandler, and createMomentHandler in the same way: a session that
\* is ready.
MayPost(v) == sess[v].st = "ready"

\* createMomentHandler and createStoryHandler: the session must be ready and of
\* the user and class of the request, or the document is removed again.
Create(h, v) == /\ Free(h) /\ MayPost(v) /\ posts[v] < MaxPosts
                /\ Does(h, "take", v, "ready")
                /\ UNCHANGED <<now, cloud, heard, sess, indexed, expires, posts>>

\* Leaves the session for its time to live.
TakeKept(h) == LET k == work[h] IN
    /\ k.at = "take" /\ Does(h, "post", k.v, "ready")
    /\ UNCHANGED <<now, cloud, heard, sess, indexed, expires, posts>>

\* consumeStreamUploadSession deletes without looking whether it was there.
Take(h) == LET k == work[h] IN
    /\ k.at = "take" /\ Does(h, "post", k.v, "ready")
    /\ sess' = [sess EXCEPT ![k.v] = NoSession] /\ indexed' = indexed \ {k.v}
    /\ UNCHANGED <<now, cloud, heard, expires, posts>>

\* The document becomes ready, or its thumbnail fails and it stays uploading.
Post(h) == LET k == work[h] IN
    /\ k.at = "post" /\ Ends(h)
    /\ \/ posts' = [posts EXCEPT ![k.v] = @ + 1]
       \/ MayFail /\ UNCHANGED posts
    /\ UNCHANGED <<now, cloud, heard, sess, indexed, expires>>

\* Redis drops the keys whose time is over.
Tick == /\ now < MaxTime /\ now' = now + 1
        /\ sess' = [v \in Videos |-> IF now + 1 >= expires[v] THEN NoSession ELSE sess[v]]
        /\ UNCHANGED <<cloud, heard, indexed, expires, work, posts>>

Step(h) == Ask(h) \/ Write(h) \/ Take(h) \/ Post(h)

Next == \/ \E v \in Videos : Open(v) \/ Encode(v)
        \/ \E h \in Handlers : \/ Step(h)
                               \/ \E v \in Videos : Poll(h, v) \/ Sweep(h, v) \/ Create(h, v)
                               \/ \E v \in Videos, s \in {"inprogress", "ready", "error"} : Hear(h, v, s)
        \/ Tick

Spec == Init /\ [][Next]_vars

----------------------------------------------------------------------------
\* A video becomes one moment or story: a session is consumed once.
PostedOnce == \A v \in Videos : posts[v] <= 1

\* What is published has been encoded, however late its webhooks come and
\* whoever writes a copy of the session back.
PostedIsReady == \A v \in Videos : posts[v] > 0 => video[v] = "ready"

\* A video is encoded; its session is ready, or consumed.
IsEncoded(v) == video[v] = "ready"
IsUsable(v) == sess[v].st \in {"ready", "none"}
=============================================================================
