------------------------------ MODULE Images ------------------------------
(***************************************************************************)
(* Images: direct uploads to Cloudflare with a session in Redis, the       *)
(* commit of an upload to a creator's gallery or as an avatar, moderation, *)
(* the blurhash worker and the sweep of abandoned uploads.                 *)
(*                                                                         *)
(* A commit loads the owner, consumes the session (GET, then DEL), asks    *)
(* Cloudflare for the bytes and saves the owner.  Setting a whole array    *)
(* makes mongoose compare the version of the document, so a save of a      *)
(* gallery fails when the gallery changed since it was loaded; an avatar   *)
(* is saved without such a check.                                          *)
(***************************************************************************)
EXTENDS Integers, FiniteSets

CONSTANTS Images,      \* uploads: one session and one Cloudflare id each
          Slots,       \* gallery item ids
          Requests,    \* commits served at once
          None,
          MaxGallery,  \* CREATOR_GALLERY_MAX_IMAGES
          MinGallery,  \* CREATOR_GALLERY_MIN_IMAGES
          Quota,       \* uploads per window
          Sweeps,      \* whether time passes: sessions expire, sweeps run
          Reorders     \* whether galleries are reordered

VARIABLES session,   \* image:upload-session:*
          index,     \* image:upload-session:index
          due,       \* uploads whose expiry time has passed
          bytes,     \* what Cloudflare has
          status,    \* moderationStatus
          gallery,   \* item id -> image and blurhash; no image: asset is null
          avatar,    \* avatar and previousAvatar
          used,      \* the quota counter of the window
          job,       \* commits under way
          listing,   \* what the moderator has on the screen
          blurJobs,  \* image-blurhash jobs: image and slot
          sweeping   \* the session the sweep is about to delete

vars == <<session, index, due, bytes, status, gallery, avatar, used, job, listing, blurJobs, sweeping>>
upload == <<session, index, due>>
queues == <<listing, blurJobs, sweeping>>

\* What an upload session and the moderation of an asset may be.  The key may
\* outlive the expiry time the index has, and be consumed late.
Sessions == {"none", "open", "consumed", "late", "expired"}
Statuses == {"none", "pending", "approved"}

Item(i) == [img |-> i, blur |-> None]
Idle == [k |-> "idle"]
Galleries == UNION {[S -> [img : Images \cup {None}, blur : Images \cup {None}]] : S \in SUBSET Slots}

Init == /\ session = [i \in Images |-> "none"] /\ index = {} /\ due = {}
        /\ bytes = [i \in Images |-> "none"]
        /\ status = [i \in Images |-> "none"]
        /\ gallery = [s \in {} |-> Item(None)]
        /\ avatar = [now |-> None, prev |-> None]
        /\ used = 0
        /\ job = [r \in Requests |-> Idle]
        /\ listing = {} /\ blurJobs = {} /\ sweeping = None

(***************************************************************************)
(* Upload.                                                                 *)
(***************************************************************************)
\* assertCanUpload looks at the counter of the window.
MayUpload == used < Quota

\* createSession: the key, and its entry in the index.
CreateSession(i) == session' = [session EXCEPT ![i] = "open"] /\ index' = index \cup {i}

\* createDirectUploadHandler: the quota is checked here and counted later.
DirectUpload(i) == /\ session[i] = "none"
                   /\ MayUpload
                   /\ CreateSession(i)
                   /\ UNCHANGED <<due, bytes, status, gallery, avatar, used, job, queues>>

\* The client sends the bytes straight to Cloudflare.
SendBytes(i) == /\ session[i] # "none" /\ bytes[i] = "none"
                /\ bytes' = [bytes EXCEPT ![i] = "there"]
                /\ UNCHANGED <<upload, status, gallery, avatar, used, job, queues>>

(***************************************************************************)
(* Commit.                                                                 *)
(***************************************************************************)
\* commitGalleryImage and adminCreatorGalleryCommit up to getSession.
CommitGallery(r, i, s) == /\ job[r] = Idle /\ session[i] = "open"
                          /\ Cardinality(DOMAIN gallery) < MaxGallery \/ s \in DOMAIN gallery
                          /\ job' = [job EXCEPT ![r] = [k |-> "consume", to |-> s, img |-> i, fresh |-> TRUE, old |-> None]]
                          /\ UNCHANGED <<upload, bytes, status, gallery, avatar, used, queues>>

\* The avatar commits of a creator, an admin and a user up to getSession.
CommitAvatar(r, i) == /\ job[r] = Idle /\ session[i] = "open"
                      /\ job' = [job EXCEPT ![r] = [k |-> "consume", to |-> "avatar", img |-> i, fresh |-> TRUE, old |-> avatar.now]]
                      /\ UNCHANGED <<upload, bytes, status, gallery, avatar, used, queues>>

Consumed(i) == IF session[i] # "open" THEN session[i] ELSE IF i \in due THEN "late" ELSE "consumed"

\* A consume that does not look at what DEL answered.
ConsumeBlindly(r) == LET i == job[r].img IN
    /\ job[r].k = "consume"
    /\ job' = [job EXCEPT ![r].k = "check"]
    /\ session' = [session EXCEPT ![i] = Consumed(i)]
    /\ index' = index \ {i}
    /\ UNCHANGED <<due, bytes, status, gallery, avatar, used, queues>>

\* The second half of consumeSession: whoever deletes the key has it.
Consume(r) == LET i == job[r].img IN
    /\ job[r].k = "consume"
    /\ job' = [job EXCEPT ![r] = IF session[i] = "open" THEN [@ EXCEPT !.k = "check"] ELSE Idle]
    /\ session' = [session EXCEPT ![i] = Consumed(i)]
    /\ index' = index \ {i}
    /\ UNCHANGED <<due, bytes, status, gallery, avatar, used, queues>>

\* enqueueBlurhashJob: gallery items get a blurhash later.
EnqueueBlurhash(i, to) == blurJobs' = IF to \in Slots THEN blurJobs \cup {[img |-> i, slot |-> to]} ELSE blurJobs

\* Metadata and MIME type are right: the upload is counted, the asset made
\* and the blurhash job queued.
CheckOk(r) == LET i == job[r].img IN
    /\ job[r].k = "check" /\ bytes[i] = "there"
    /\ used' = IF job[r].to \in DOMAIN gallery THEN used ELSE used + 1
    /\ status' = [status EXCEPT ![i] = "pending"]
    /\ EnqueueBlurhash(i, job[r].to)
    /\ job' = [job EXCEPT ![r].k = "save"]
    /\ UNCHANGED <<upload, bytes, gallery, avatar, listing, sweeping>>

\* Goes on with the commit although the bytes were not an image.
CheckRejectsAndGoesOn(r) == /\ job[r].k = "check"
                            /\ bytes' = [bytes EXCEPT ![job[r].img] = IF @ = "there" THEN "deleted" ELSE @]
                            /\ job' = [job EXCEPT ![r].k = "save"]
                            /\ UNCHANGED <<upload, status, gallery, avatar, used, queues>>

\* No bytes, or bytes that are not an image (which are deleted).
CheckRejects(r) == /\ job[r].k = "check"
                   /\ bytes' = [bytes EXCEPT ![job[r].img] = IF @ = "there" THEN "deleted" ELSE @]
                   /\ job' = [job EXCEPT ![r] = Idle]
                   /\ UNCHANGED <<upload, status, gallery, avatar, used, queues>>

\* The breaker is open: 503 "please retry".
CheckUnavailable(r) == /\ job[r].k = "check"
                       /\ job' = [job EXCEPT ![r] = Idle]
                       /\ UNCHANGED <<upload, bytes, status, gallery, avatar, used, queues>>

Outdate(jobs) == [r \in Requests |-> IF jobs[r] # Idle /\ jobs[r].to # "avatar" THEN [jobs[r] EXCEPT !.fresh = FALSE] ELSE jobs[r]]

PutItem(s, i) == gallery' = [t \in DOMAIN gallery \cup {s} |->
                    IF t = s THEN Item(i) ELSE gallery[t]]

\* A save that does not compare the version of the document.
SaveGalleryUnversioned(r) == /\ job[r].k = "save" /\ job[r].to # "avatar"
                             /\ PutItem(job[r].to, job[r].img)
                             /\ job' = [job EXCEPT ![r] = Idle]
                             /\ UNCHANGED <<upload, bytes, status, avatar, used, queues>>

SaveGallery(r) == /\ job[r].k = "save" /\ job[r].to # "avatar"
                  /\ IF job[r].fresh THEN PutItem(job[r].to, job[r].img) ELSE UNCHANGED gallery
                  /\ job' = IF job[r].fresh THEN Outdate([job EXCEPT ![r] = Idle]) ELSE [job EXCEPT ![r] = Idle]
                  /\ UNCHANGED <<upload, bytes, status, avatar, used, queues>>

\* The avatar before is kept until the new one is approved.
Replaced(i, old) == [now |-> i, prev |-> IF old # None THEN old ELSE avatar.prev]

SaveAvatar(r) == /\ job[r].k = "save" /\ job[r].to = "avatar"
                 /\ avatar' = Replaced(job[r].img, job[r].old)
                 /\ job' = [job EXCEPT ![r] = Idle]
                 /\ UNCHANGED <<upload, bytes, status, gallery, used, queues>>

Commit(r) == \/ \E i \in Images : CommitAvatar(r, i) \/ \E s \in Slots : CommitGallery(r, i, s)
             \/ Consume(r) \/ CheckOk(r) \/ CheckRejects(r) \/ CheckUnavailable(r)
             \/ SaveGallery(r) \/ SaveAvatar(r)

(***************************************************************************)
(* Changes of the gallery.                                                 *)
(***************************************************************************)
Without(s) == [t \in DOMAIN gallery \ {s} |-> gallery[t]]
\* A best-effort delete at Cloudflare: it may fail and is not repeated.
Erase(i) == \/ bytes' = [bytes EXCEPT ![i] = "deleted"]
            \/ UNCHANGED bytes

\* deleteGalleryImage and adminCreatorGalleryDelete.
DeleteItem(s) == /\ s \in DOMAIN gallery /\ Cardinality(DOMAIN gallery) > MinGallery
                 /\ gallery' = Without(s)
                 /\ IF gallery[s].img = None THEN UNCHANGED bytes ELSE Erase(gallery[s].img)
                 /\ job' = Outdate(job)
                 /\ UNCHANGED <<upload, status, avatar, used, queues>>

\* serializeCreatorGallery: what is left of an item that goes through it and
\* back into the schema.
Serialized == Item(None)
\* The gallery adminCreatorGalleryReorder builds of the ids in a payload.
Reordered(S) == [s \in S |-> Serialized]

\* reorderGalleryImages and adminCreatorGalleryReorder write back what the
\* serializer returned: id, position, createdAt and the view, which the
\* schema drops; a payload may name an item twice instead of another.
Reorder == /\ Reorders
           /\ \E S \in SUBSET DOMAIN gallery \ {{}} : gallery' = Reordered(S)
           /\ job' = Outdate(job)
           /\ UNCHANGED <<upload, bytes, status, avatar, used, queues>>

(***************************************************************************)
(* Moderation.                                                             *)
(***************************************************************************)
Pending == {[img |-> gallery[s].img, slot |-> s] : s \in {s \in DOMAIN gallery : gallery[s].img # None}}
           \cup {[img |-> i, slot |-> "avatar"] : i \in {avatar.now} \ {None}}

ListPendingImages == /\ listing' = {p \in Pending : status[p.img] = "pending"}
                     /\ listing' # listing
                     /\ UNCHANGED <<upload, bytes, status, gallery, avatar, used, job, blurJobs, sweeping>>

\* A gallery item is approved by its id, an avatar by its image.
Approve(p) == LET i == IF p.slot = "avatar" THEN p.img ELSE gallery[p.slot].img IN
    /\ p \in listing
    /\ IF p.slot = "avatar" THEN avatar.now = p.img ELSE p.slot \in DOMAIN gallery /\ i # None
    /\ status' = [status EXCEPT ![i] = "approved"]
    /\ listing' = listing \ {p}
    /\ UNCHANGED <<upload, bytes, gallery, avatar, used, job, blurJobs, sweeping>>

RejectItem(p) == /\ p \in listing /\ p.slot \in DOMAIN gallery
                 /\ gallery' = Without(p.slot)
                 /\ Erase(p.img)
                 /\ listing' = listing \ {p}
                 /\ job' = Outdate(job)
                 /\ UNCHANGED <<upload, status, avatar, used, blurJobs, sweeping>>

RejectAvatar(p) == /\ p \in listing /\ p.slot = "avatar" /\ avatar.now = p.img
                   /\ avatar' = [now |-> avatar.prev, prev |-> None]
                   /\ Erase(p.img)
                   /\ listing' = listing \ {p}
                   /\ UNCHANGED <<upload, status, gallery, used, job, blurJobs, sweeping>>

Moderate == ListPendingImages \/ \E p \in listing : Approve(p) \/ RejectItem(p) \/ RejectAvatar(p)

\* The worker, now or after retries: the item is found by its id alone.
Blurhash(b) == /\ b \in blurJobs
               /\ blurJobs' = blurJobs \ {b}
               /\ gallery' = IF b.slot \in DOMAIN gallery /\ gallery[b.slot].img # None /\ bytes[b.img] = "there"
                             THEN [gallery EXCEPT ![b.slot].blur = b.img] ELSE gallery
               /\ UNCHANGED <<upload, bytes, status, avatar, used, job, listing, sweeping>>

(***************************************************************************)
(* Time.  The index entry falls due when the key expires.                  *)
(***************************************************************************)
FallDue(i) == /\ Sweeps /\ i \in index \ due
              /\ due' = due \cup {i}
              /\ UNCHANGED <<session, index, bytes, status, gallery, avatar, used, job, queues>>

ExpireSession(i) == /\ i \in due /\ session[i] = "open"
                    /\ session' = [session EXCEPT ![i] = "expired"]
                    /\ UNCHANGED <<index, due, bytes, status, gallery, avatar, used, job, queues>>

\* Lists what has not expired, too.
SweepListAll(i) == /\ sweeping = None /\ i \in index
                   /\ IF session[i] = "open" THEN sweeping' = i /\ UNCHANGED index
                                             ELSE index' = index \ {i} /\ UNCHANGED sweeping
                   /\ UNCHANGED <<session, due, bytes, status, gallery, avatar, used, job, listing, blurJobs>>

\* listExpiredSessions: an entry without a session is dropped.
SweepList(i) == /\ sweeping = None /\ i \in index \cap due
                /\ IF session[i] = "open" THEN sweeping' = i /\ UNCHANGED index
                                          ELSE index' = index \ {i} /\ UNCHANGED sweeping
                /\ UNCHANGED <<session, due, bytes, status, gallery, avatar, used, job, listing, blurJobs>>

SweepDelete == /\ sweeping # None
               /\ Erase(sweeping)
               /\ index' = index \ {sweeping}
               /\ session' = [session EXCEPT ![sweeping] = IF @ = "open" THEN "expired" ELSE @]
               /\ sweeping' = None
               /\ UNCHANGED <<due, status, gallery, avatar, used, job, listing, blurJobs>>

NextWindow == /\ Sweeps /\ used > 0 /\ used' = 0
              /\ UNCHANGED <<upload, bytes, status, gallery, avatar, job, queues>>

Sweep == (\E i \in Images : SweepList(i)) \/ SweepDelete

Next == \/ \E i \in Images : DirectUpload(i) \/ SendBytes(i) \/ FallDue(i) \/ ExpireSession(i)
        \/ \E r \in Requests : Commit(r)
        \/ \E s \in Slots : DeleteItem(s)
        \/ Reorder \/ Moderate \/ Sweep \/ NextWindow
        \/ \E b \in blurJobs : Blurhash(b)

Spec == Init /\ [][Next]_vars

----------------------------------------------------------------------------
\* Sessions, galleries and commits have the shapes of their types.
TypeOK == /\ session \in [Images -> Sessions]
          /\ index \subseteq Images /\ due \subseteq Images
          /\ bytes \in [Images -> {"none", "there", "deleted"}]
          /\ status \in [Images -> Statuses]
          /\ gallery \in Galleries
          /\ avatar \in [now : Images \cup {None}, prev : Images \cup {None}]
          /\ used \in Nat
          /\ \A r \in Requests : job[r] = Idle \/ job[r] \in
                [k : {"consume", "check", "save"}, to : Slots \cup {"avatar"}, img : Images, fresh : BOOLEAN, old : Images \cup {None}]
          /\ listing \subseteq [img : Images, slot : Slots \cup {"avatar"}]
          /\ sweeping \in Images \cup {None}

Places(i) == {s \in DOMAIN gallery : gallery[s].img = i} \cup (IF i \in {avatar.now, avatar.prev} THEN {"avatar"} ELSE {})

\* An upload ends up in one place at most, however many commits present its
\* session: only the one whose DEL removed the key goes on (consumeSession).
UsedOnce == \A i \in Images : Cardinality(Places(i)) <= 1

\* Commits that overlap never make the gallery longer than the limit: the
\* check is made on a loaded copy and the version guards the save.
GalleryBounded == Cardinality(DOMAIN gallery) <= MaxGallery

\* Bytes a gallery refers to are at Cloudflare: nothing that deletes bytes
\* (delete, rejection, a bad MIME type, the sweep) hits an image that is in use,
\* unless its session was consumed when its time was over: the sweep may have
\* listed it before, and delete its bytes after.
GalleryHasBytes ==
    \A s \in DOMAIN gallery : LET i == gallery[s].img IN
        i # None /\ session[i] # "late" => bytes[i] = "there"
=============================================================================
