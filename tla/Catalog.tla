------------------------------ MODULE Catalog ------------------------------
(***************************************************************************)
(* The creator catalogue: the profiles in MongoDB and the copies of them   *)
(* in Redis that the applications are served from: the page of the feed,   *)
(* the detail of one creator, the list of Firebase UIDs (a JSON snapshot   *)
(* and a set), the index of the feed ordered by availability, and the card *)
(* that goes with a status event.  Every copy but the index has a TTL.     *)
(*                                                                         *)
(* Handlers that change a profile save it and then invalidate without      *)
(* waiting (op); readers look into a copy, read MongoDB when it is missing *)
(* and fill it afterwards (job).                                           *)
(***************************************************************************)
EXTENDS Integers, FiniteSets

CONSTANTS Creators,      \* users who may be creators
          Requests,      \* read requests served at once
          None,
          Rank,          \* CREATOR_FEED_REDIS_RANK_ENABLED
          Transactions,  \* MongoDB runs as a replica set
          Overlap,       \* whether reads overlap changes
          MaxEdits       \* changes of one profile

VARIABLES doc,      \* the profile: state, list-facing fields, other fields
          role,     \* User.role
          edits,    \* changes so far
          feed,     \* creator:feed:*, rows by creator
          indexed,  \* whether the feed key is in creator:feed:index
          detail,   \* creator:detail:*
          uids,     \* creator:uids:v1
          uidSet,   \* creator:uids:set:v1, {} when the key is missing
          rank,     \* creator:feed:rank:v1, {} when the key is missing
          card,     \* creator:card:*
          job,      \* read requests under way
          op,       \* what is left of the last change of a profile
          rankJobs  \* index updates under way after a presence change

vars == <<doc, role, edits, feed, indexed, detail, uids, uidSet, rank, card, job, op, rankJobs>>
caches == <<feed, indexed, detail, uids, uidSet, rank, card>>

Absent == [st |-> "absent", rev |-> 0, about |-> 0]
Exists(c) == doc[c].st # "absent"
Listed == {c \in Creators : doc[c].st = "listed"}
Rows(S) == [c \in S |-> doc[c].rev]

Idle == [k |-> "idle"]
Jobs == [k : {"idle"}]
        \cup (UNION {[k : {"feedFill", "feedIndex"}, rows : [S -> 0..MaxEdits]] : S \in SUBSET Creators})
        \cup [k : {"detail"}, c : Creators]
        \cup [k : {"detailFill"}, c : Creators, d : [rev : 0..MaxEdits, about : 0..MaxEdits]]
        \cup [k : {"uidsFill", "uidsRebuild", "uidsSet"}, list : SUBSET Creators]
Kinds == {"create", "update", "about", "hide", "show", "delete"}

\* rebuildCreatorFeedRankIndex at start-up.
BuiltRank == IF Rank THEN Listed ELSE {}

Init == /\ doc \in [Creators -> {Absent, [Absent EXCEPT !.st = "listed"]}]
        /\ role = [c \in Creators |-> IF Exists(c) THEN "creator" ELSE "user"]
        /\ edits = [c \in Creators |-> 0]
        /\ feed = None /\ indexed = FALSE
        /\ detail = [c \in Creators |-> None]
        /\ uids = None /\ uidSet = {}
        /\ rank = BuiltRank
        /\ card = [c \in Creators |-> None]
        /\ job = [r \in Requests |-> Idle]
        /\ op = [c \in Creators |-> None]
        /\ rankJobs = {}

MayRead(r) == job[r] = Idle /\ (Overlap \/ \A c \in Creators : op[c] = None)
MayChange(c) == /\ op[c] = None /\ edits[c] < MaxEdits
                /\ \/ Overlap
                   \/ (\A r \in Requests : job[r] = Idle) /\ (\A d \in Creators : op[d] = None)

(***************************************************************************)
(* The feed sorted by creation: cached for CREATOR_FEED_TTL.               *)
(***************************************************************************)
WriteCards(rows) == card' = [c \in Creators |-> IF c \in DOMAIN rows THEN rows[c] ELSE card[c]]

FeedHit(r) == /\ MayRead(r) /\ feed # None
              /\ WriteCards(feed)
              /\ UNCHANGED <<doc, role, edits, feed, indexed, detail, uids, uidSet, rank, job, op, rankJobs>>

FeedQuery(r) == /\ MayRead(r) /\ feed = None
                /\ job' = [job EXCEPT ![r] = [k |-> "feedFill", rows |-> Rows(Listed)]]
                /\ UNCHANGED <<doc, role, edits, caches, op, rankJobs>>

FeedFill(r) == /\ job[r].k = "feedFill"
               /\ feed' = job[r].rows
               /\ job' = [job EXCEPT ![r].k = "feedIndex"]
               /\ UNCHANGED <<doc, role, edits, indexed, detail, uids, uidSet, rank, card, op, rankJobs>>

FeedIndex(r) == /\ job[r].k = "feedIndex"
                /\ indexed' = TRUE
                /\ WriteCards(job[r].rows)
                /\ job' = [job EXCEPT ![r] = Idle]
                /\ UNCHANGED <<doc, role, edits, feed, detail, uids, uidSet, rank, op, rankJobs>>

\* What the feed sorted by availability shows: the creators of the index
\* that still exist, or the listable ones when there is no index.
AvailabilityPage == IF Rank /\ rank # {} THEN {c \in rank : Exists(c)} ELSE Listed

FeedByAvailability(r) == /\ MayRead(r)
                         /\ WriteCards(Rows(AvailabilityPage))
                         /\ UNCHANGED <<doc, role, edits, feed, indexed, detail, uids, uidSet, rank, job, op, rankJobs>>

(***************************************************************************)
(* One creator.  A disabled one is refused before the copy is looked at.   *)
(***************************************************************************)
DetailProbe(r, c) == /\ MayRead(r) /\ c \in Listed
                     /\ job' = [job EXCEPT ![r] = [k |-> "detail", c |-> c]]
                     /\ UNCHANGED <<doc, role, edits, caches, op, rankJobs>>

DetailHit(r) == /\ job[r].k = "detail"
                /\ detail[job[r].c] # None \/ ~Exists(job[r].c)
                /\ job' = [job EXCEPT ![r] = Idle]
                /\ UNCHANGED <<doc, role, edits, caches, op, rankJobs>>

DetailQuery(r) == LET c == job[r].c IN
    /\ job[r].k = "detail"
    /\ detail[c] = None /\ Exists(c)
    /\ job' = [job EXCEPT ![r] = [k |-> "detailFill", c |-> c, d |-> [rev |-> doc[c].rev, about |-> doc[c].about]]]
    /\ UNCHANGED <<doc, role, edits, caches, op, rankJobs>>

\* registerCreatorDetailCacheKey and the copy itself.
StoreDetail(c, d) == detail' = [detail EXCEPT ![c] = d]

DetailFill(r) == /\ job[r].k = "detailFill"
                 /\ StoreDetail(job[r].c, job[r].d)
                 /\ job' = [job EXCEPT ![r] = Idle]
                 /\ UNCHANGED <<doc, role, edits, feed, indexed, uids, uidSet, rank, card, op, rankJobs>>

\* The lookup of an incoming call reads MongoDB and writes the card.
ByFirebaseUid(r, c) == /\ MayRead(r) /\ c \in Listed
                       /\ card' = [card EXCEPT ![c] = doc[c].rev]
                       /\ UNCHANGED <<doc, role, edits, feed, indexed, detail, uids, uidSet, rank, job, op, rankJobs>>

(***************************************************************************)
(* The Firebase UIDs: the JSON snapshot, else the set, else a rebuild.     *)
(* The rebuild lock stops nobody: who does not get it and still finds no   *)
(* snapshot rebuilds as well, and both delete the lock.                    *)
(***************************************************************************)
UidsFromSet(r) == /\ MayRead(r) /\ uids = None /\ uidSet # {}
                  /\ job' = [job EXCEPT ![r] = [k |-> "uidsFill", list |-> uidSet]]
                  /\ UNCHANGED <<doc, role, edits, caches, op, rankJobs>>

\* A snapshot taken from the set that also renews the set.
UidsFillRenewsSet(r) == /\ job[r].k = "uidsFill"
                        /\ uids' = job[r].list /\ uidSet' = job[r].list
                        /\ job' = [job EXCEPT ![r] = Idle]
                        /\ UNCHANGED <<doc, role, edits, feed, indexed, detail, rank, card, op, rankJobs>>

UidsFill(r) == /\ job[r].k = "uidsFill"
               /\ uids' = job[r].list
               /\ job' = [job EXCEPT ![r] = Idle]
               /\ UNCHANGED <<doc, role, edits, feed, indexed, detail, uidSet, rank, card, op, rankJobs>>

UidsRebuild(r) == /\ MayRead(r) /\ uids = None /\ uidSet = {}
                  /\ job' = [job EXCEPT ![r] = [k |-> "uidsRebuild", list |-> Listed]]
                  /\ UNCHANGED <<doc, role, edits, caches, op, rankJobs>>

UidsWriteJson(r) == /\ job[r].k = "uidsRebuild"
                    /\ uids' = job[r].list
                    /\ job' = [job EXCEPT ![r].k = "uidsSet"]
                    /\ UNCHANGED <<doc, role, edits, feed, indexed, detail, uidSet, rank, card, op, rankJobs>>

UidsWriteSet(r) == /\ job[r].k = "uidsSet"
                   /\ uidSet' = job[r].list
                   /\ job' = [job EXCEPT ![r] = Idle]
                   /\ UNCHANGED <<doc, role, edits, feed, indexed, detail, uids, rank, card, op, rankJobs>>

Read(r) == \/ FeedHit(r) \/ FeedQuery(r) \/ FeedByAvailability(r)
           \/ UidsFromSet(r) \/ UidsRebuild(r)
           \/ \E c \in Creators : DetailProbe(r, c) \/ ByFirebaseUid(r, c)
Serve(r) == \/ FeedFill(r) \/ FeedIndex(r) \/ DetailHit(r) \/ DetailQuery(r) \/ DetailFill(r)
            \/ UidsFill(r) \/ UidsWriteJson(r) \/ UidsWriteSet(r)

(***************************************************************************)
(* Changes of a profile.  Each saves first; Send and Settle follow.        *)
(***************************************************************************)
Save(c, d, kind) == /\ doc' = [doc EXCEPT ![c] = d]
                    /\ edits' = [edits EXCEPT ![c] = @ + 1]
                    /\ op' = [op EXCEPT ![c] = [kind |-> kind, st |-> "saved", keys |-> FALSE]]

\* A profile for a user whose role is left alone.
CreateCreatorKeepsRole(c) == /\ MayChange(c) /\ ~Exists(c)
                             /\ Save(c, [Absent EXCEPT !.st = "listed"], "create")
                             /\ UNCHANGED <<role, caches, job, rankJobs>>

\* createCreator and promoteToCreator: role and profile in one transaction.
CreateCreator(c) == /\ MayChange(c) /\ ~Exists(c)
                    /\ Save(c, [Absent EXCEPT !.st = "listed"], "create")
                    /\ role' = [role EXCEPT ![c] = "creator"]
                    /\ UNCHANGED <<caches, job, rankJobs>>

\* promoteToCreator: the same by an administrator.
PromoteToCreator(c) == /\ MayChange(c) /\ ~Exists(c) /\ role[c] = "user"
                       /\ Save(c, [Absent EXCEPT !.st = "listed"], "create")
                       /\ role' = [role EXCEPT ![c] = "creator"]
                       /\ UNCHANGED <<caches, job, rankJobs>>

\* A changed field that does not set catalogChanged.
UpdateCreatorMissed(c) == /\ MayChange(c) /\ Exists(c)
                          /\ Save(c, [doc[c] EXCEPT !.rev = @ + 1], "about")
                          /\ UNCHANGED <<role, caches, job, rankJobs>>

\* updateCreator and updateMyCreatorProfile, a list-facing field changed.
UpdateCreator(c) == /\ MayChange(c) /\ Exists(c)
                    /\ Save(c, [doc[c] EXCEPT !.rev = @ + 1], "update")
                    /\ UNCHANGED <<role, caches, job, rankJobs>>

\* ... and only the description changed: catalogChanged stays false.
UpdateAbout(c) == /\ MayChange(c) /\ Exists(c)
                  /\ Save(c, [doc[c] EXCEPT !.about = @ + 1], "about")
                  /\ UNCHANGED <<role, caches, job, rankJobs>>

\* The presence transition of a deactivated creator updates the index later.
DeactivateCreator(c) == /\ MayChange(c) /\ Exists(c)
                        /\ Save(c, [doc[c] EXCEPT !.st = "disabled"], "hide")
                        /\ rankJobs' = IF Rank THEN rankJobs \cup {c} ELSE rankJobs
                        /\ UNCHANGED <<role, caches, job>>

ReactivateCreator(c) == /\ MayChange(c) /\ Exists(c)
                        /\ Save(c, [doc[c] EXCEPT !.st = "listed"], "show")
                        /\ UNCHANGED <<role, caches, job, rankJobs>>

\* The role goes with the profile in a transaction, or in a second write.
DeleteCreator(c) == /\ MayChange(c) /\ Exists(c)
                    /\ Save(c, Absent, "delete")
                    /\ role' = IF Transactions THEN [role EXCEPT ![c] = "user"] ELSE role
                    /\ UNCHANGED <<caches, job, rankJobs>>

DowngradeRole(c) == /\ op[c] # None /\ op[c].kind = "delete" /\ role[c] = "creator"
                    /\ ~Transactions
                    /\ role' = [role EXCEPT ![c] = "user"]
                    /\ UNCHANGED <<doc, edits, caches, job, op, rankJobs>>

\* The process dies between the two writes of the delete.
DieInDelete(c) == /\ op[c] # None /\ op[c].kind = "delete" /\ role[c] = "creator"
                  /\ ~Transactions
                  /\ op' = [op EXCEPT ![c] = None]
                  /\ UNCHANGED <<doc, role, edits, caches, job, rankJobs>>

\* addCreatorFirebaseUidToCache adds to whatever set there is, here the one
\* that was just deleted.
UidsLeft(c, kind) == CASE kind = "about" -> uidSet [] kind = "create" -> {c} [] OTHER -> {}

\* The first command of each invalidation, in the order they are issued:
\* the keys of the feed index, the UIDs, the detail, the new or old UID.
Send(c) == LET kind == op[c].kind IN
    /\ op[c] # None /\ op[c].st = "saved"
    /\ kind = "delete" => role[c] = "user"
    /\ op' = [op EXCEPT ![c].st = "sent", ![c].keys = indexed]
    /\ detail' = [detail EXCEPT ![c] = None]
    /\ uids' = IF kind = "about" THEN uids ELSE None
    /\ uidSet' = UidsLeft(c, kind)
    /\ rank' = IF kind = "delete" THEN rank \ {c} ELSE rank
    /\ UNCHANGED <<doc, role, edits, feed, indexed, card, job, rankJobs>>

\* The second one: the feed keys found in the index, and the index of ranks.
Settle(c) == LET kind == op[c].kind IN
    /\ op[c] # None /\ op[c].st = "sent"
    /\ op' = [op EXCEPT ![c] = None]
    /\ feed' = IF kind # "about" /\ op[c].keys THEN None ELSE feed
    /\ indexed' = (indexed /\ kind = "about")
    /\ rank' = IF kind = "about" THEN rank ELSE {}
    /\ uids' = IF kind \in {"create", "delete"} THEN None ELSE uids
    /\ UNCHANGED <<doc, role, edits, detail, uidSet, card, job, rankJobs>>

Change(c) == \/ CreateCreator(c) \/ PromoteToCreator(c) \/ UpdateCreator(c) \/ UpdateAbout(c)
             \/ DeactivateCreator(c) \/ ReactivateCreator(c) \/ DeleteCreator(c)
Effects(c) == Send(c) \/ Settle(c) \/ DowngradeRole(c)

(***************************************************************************)
(* Presence: a listable creator goes online or offline, which sends the    *)
(* card and later puts the creator into the index of ranks.                *)
(***************************************************************************)
PresenceChange(c) == /\ Overlap \/ \A d \in Creators : op[d] = None
                     /\ c \in Listed
                     /\ card' = [card EXCEPT ![c] = IF @ = None THEN doc[c].rev ELSE @]
                     /\ rankJobs' = IF Rank THEN rankJobs \cup {c} ELSE rankJobs
                     /\ UNCHANGED <<doc, role, edits, feed, indexed, detail, uids, uidSet, rank, job, op>>

RankUpdate(c) == /\ c \in rankJobs
                 /\ rankJobs' = rankJobs \ {c}
                 /\ rank' = IF Exists(c) THEN rank \cup {c} ELSE rank
                 /\ UNCHANGED <<doc, role, edits, feed, indexed, detail, uids, uidSet, card, job, op>>

(***************************************************************************)
(* Expiry.                                                                 *)
(***************************************************************************)
ExpireFeed == /\ feed # None /\ feed' = None
              /\ UNCHANGED <<doc, role, edits, indexed, detail, uids, uidSet, rank, card, job, op, rankJobs>>
ExpireUids == /\ uids # None /\ uids' = None
              /\ UNCHANGED <<doc, role, edits, feed, indexed, detail, uidSet, rank, card, job, op, rankJobs>>
ExpireUidSet == /\ uidSet # {} /\ uidSet' = {}
                /\ UNCHANGED <<doc, role, edits, feed, indexed, detail, uids, rank, card, job, op, rankJobs>>
ExpireDetail(c) == /\ detail[c] # None /\ detail' = [detail EXCEPT ![c] = None]
                   /\ UNCHANGED <<doc, role, edits, feed, indexed, uids, uidSet, rank, card, job, op, rankJobs>>
ExpireCard(c) == /\ card[c] # None /\ card' = [card EXCEPT ![c] = None]
                 /\ UNCHANGED <<doc, role, edits, feed, indexed, detail, uids, uidSet, rank, job, op, rankJobs>>
Expire == ExpireFeed \/ ExpireUids \/ ExpireUidSet \/ \E c \in Creators : ExpireDetail(c) \/ ExpireCard(c)

Next == \/ \E r \in Requests : Read(r) \/ Serve(r)
        \/ \E c \in Creators : Change(c) \/ Effects(c) \/ DieInDelete(c) \/ PresenceChange(c) \/ RankUpdate(c)
        \/ Expire

Spec == Init /\ [][Next]_vars

----------------------------------------------------------------------------
\* Profiles, roles and copies have the shapes the schemas and readers expect.
TypeOK == /\ doc \in [Creators -> [st : {"absent", "listed", "disabled"}, rev : 0..MaxEdits, about : 0..MaxEdits]]
          /\ role \in [Creators -> {"user", "creator"}]
          /\ feed = None \/ feed \in UNION {[S -> 0..MaxEdits] : S \in SUBSET Creators}
          /\ indexed \in BOOLEAN
          /\ \A c \in Creators : detail[c] = None \/ detail[c] \in [rev : 0..MaxEdits, about : 0..MaxEdits]
          /\ uids = None \/ uids \subseteq Creators
          /\ uidSet \subseteq Creators /\ rank \subseteq Creators /\ rankJobs \subseteq Creators
          /\ \A c \in Creators : card[c] \in {None} \cup 0..MaxEdits
          /\ \A r \in Requests : job[r] \in Jobs
          /\ \A c \in Creators : op[c] = None \/ op[c] \in [kind : Kinds, st : {"saved", "sent"}, keys : BOOLEAN]

Settled == (\A r \in Requests : job[r] = Idle) /\ (\A c \in Creators : op[c] = None) /\ rankJobs = {}

\* When changes and reads do not overlap, no copy survives the change that
\* makes it wrong: feed and detail always agree with MongoDB, and no UID
\* list names a creator who is gone (invalidateCreatorCatalogCaches and
\* invalidateCreatorDetailCache are called for everything they must be).
CopiesAgree == Settled =>
    /\ feed \in {None, Rows(Listed)}
    /\ \A c \in Creators : detail[c] \in {None, [rev |-> doc[c].rev, about |-> doc[c].about]} \/ ~Exists(c)
    /\ \A c \in Creators : ~Exists(c) => detail[c] = None
    /\ (uids # None => uids \subseteq Listed) /\ uidSet \subseteq Listed

\* Every copy with a TTL agrees with MongoDB.
CopiesFresh == /\ feed \in {None, Rows(Listed)}
               /\ uids \in {None, Listed} /\ uidSet \in {{}, Listed}
               /\ \A c \in Listed : card[c] \in {None, doc[c].rev}

\* A user has the role creator exactly while there is a profile: deleting a
\* profile always downgrades the user (deleteCreatorCore).
RoleFollowsProfile == \A c \in Creators : op[c] = None => (role[c] = "creator" <=> Exists(c))
=============================================================================
