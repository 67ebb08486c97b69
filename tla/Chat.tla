-------------------------------- MODULE Chat --------------------------------
(***************************************************************************)
(* Messages of one user to one creator: some are free in every period, the *)
(* others cost coins.  Requests ask before a message is sent and may be    *)
(* retried under its id; readers of the quota bring the period up to date  *)
(* outside of any transaction.  The header of the chat is cached.          *)
(***************************************************************************)
EXTENDS Naturals, FiniteSets

CONSTANTS Requests,   \* pre-sends that overlap
          Readers,    \* other handlers that read the quota or the header
          Messages,   \* message ids
          Free,       \* FREE_MESSAGES_PER_CREATOR
          Cost,       \* COST_PER_MESSAGE
          Opening,    \* coins of the user
          LastDay,    \* bound on the periods
          LastProfile, \* bound on the changes of the profile
          Overlap,    \* whether handlers overlap
          MayFail     \* whether Redis, Stream and the database may fail

Never == 0
Days == 1 .. LastDay
NoHeader == [saved |-> 0, quiet |-> 0]

VARIABLES day,      \* getDailyPeriodBounds().periodStart
          coins,    \* user.coins
          rows,     \* chat_message rows of the ledger
          quota,    \* ChatMessageQuota; start is Never as long as there is no row
          lock,     \* chat:presend: of each message
          creator,  \* whether chat:channel:creator: is set
          profile,  \* changes of what the header shows of the creator: those that
                    \* clear its caches and those that are quiet
          header,   \* the profile in chat:channel:other:
          req,      \* pre-sends under way
          read,     \* readers under way
          counted,  \* transactions that counted each message
          expired,  \* times the key of each message expired
          given,    \* free messages of each period
          wiped     \* counts of each period that a late reader reset

vars == <<day, coins, rows, quota, lock, creator, profile, header, req, read,
          counted, expired, given, wiped>>

billing == <<coins, rows, quota, counted, given, wiped>>
chatCache == <<profile, header>>

Reading == [at |-> "idle"]
IdleReq == [at |-> "idle"]

Init == /\ day = 1 /\ coins = Opening /\ rows = 0
        /\ quota = [sent |-> 0, start |-> Never, paid |-> 0]
        /\ lock = [m \in Messages |-> "none"] /\ creator = FALSE
        /\ profile = [saved |-> 1, quiet |-> 0] /\ header = NoHeader
        /\ req = [p \in Requests |-> IdleReq] /\ read = [r \in Readers |-> Reading]
        /\ counted = [m \in Messages |-> 0] /\ expired = [m \in Messages |-> 0]
        /\ given = [d \in Days |-> 0] /\ wiped = [d \in Days |-> 0]

MayStart == Overlap \/ /\ \A p \in Requests : req[p].at = "idle"
                       /\ \A r \in Readers : read[r].at = "idle"

(***************************************************************************)
(* preSendMessage                                                          *)
(***************************************************************************)
\* SET without NX.
TakeLockAlways(p, m) ==
    /\ req[p].at = "idle" /\ MayStart
    /\ lock' = [lock EXCEPT ![m] = "pending"]
    /\ req' = [req EXCEPT ![p] = [at |-> "resolve", msg |-> m]]
    /\ UNCHANGED <<day, billing, creator, chatCache, read, expired>>

\* Creators and members write for nothing and leave no trace.  A duplicate is
\* answered from the key, and let through for nothing while the key is
\* pending: either way it ends here.
TakeLock(p, m) ==
    /\ req[p].at = "idle" /\ MayStart
    /\ lock[m] = "none"
    /\ lock' = [lock EXCEPT ![m] = "pending"]
    /\ req' = [req EXCEPT ![p] = [at |-> "resolve", msg |-> m]]
    /\ UNCHANGED <<day, billing, creator, chatCache, read, expired>>

\* The other member of the channel: from the key, from Stream, or from a quota
\* row; without any of them the lock is given back.
Resolve(p) ==
    /\ req[p].at = "resolve"
    /\ \E watched \in IF MayFail THEN BOOLEAN ELSE {TRUE} :
         LET known == creator \/ watched \/ quota.start # Never IN
         /\ creator' = known
         /\ IF known
            THEN req' = [req EXCEPT ![p].at = "count"] /\ UNCHANGED lock
            ELSE req' = [req EXCEPT ![p] = IdleReq] /\ lock' = [lock EXCEPT ![req[p].msg] = "none"]
    /\ UNCHANGED <<day, billing, chatCache, read, expired>>

\* Starts a period on every read.
NormalizedAlways(q, d) == [q EXCEPT !.sent = 0, !.start = d]

\* normalizeQuotaForCurrentPeriod, of a row or of a new one.
Normalized(q, d) == IF q.start # d THEN [q EXCEPT !.sent = 0, !.start = d] ELSE q

FreeMessage(m, q) ==
    /\ q.sent < Free
    /\ quota' = [q EXCEPT !.sent = @ + 1]
    /\ given' = [given EXCEPT ![day] = @ + 1]
    /\ counted' = [counted EXCEPT ![m] = @ + 1]
    /\ UNCHANGED <<coins, rows, wiped>>

\* Charges without a row.
PaidUnbooked(m, q) ==
    /\ q.sent >= Free /\ coins >= Cost
    /\ coins' = coins - Cost /\ quota' = [q EXCEPT !.paid = @ + 1] /\ rows' = rows
    /\ counted' = [counted EXCEPT ![m] = @ + 1]
    /\ UNCHANGED <<given, wiped>>

PaidMessage(m, q) ==
    /\ q.sent >= Free /\ coins >= Cost
    /\ coins' = coins - Cost /\ quota' = [q EXCEPT !.paid = @ + 1] /\ rows' = rows + 1
    /\ counted' = [counted EXCEPT ![m] = @ + 1]
    /\ UNCHANGED <<given, wiped>>

\* Not enough coins: the new period is kept.
Refused(q) ==
    /\ q.sent >= Free /\ coins < Cost
    /\ quota' = q
    /\ UNCHANGED <<coins, rows, counted, given, wiped>>

\* The transaction over user, quota and ledger.  When it throws, the key stays
\* pending until it expires.
Count(p) == LET m == req[p].msg
                q == Normalized(quota, day) IN
    /\ req[p].at = "count"
    /\ \/ (FreeMessage(m, q) \/ PaidMessage(m, q)) /\ req' = [req EXCEPT ![p] = [at |-> "cache", msg |-> m, as |-> "sent"]]
       \/ Refused(q) /\ req' = [req EXCEPT ![p] = [at |-> "cache", msg |-> m, as |-> "refused"]]
       \/ MayFail /\ req' = [req EXCEPT ![p] = IdleReq] /\ UNCHANGED billing
    /\ UNCHANGED <<day, lock, creator, chatCache, read, expired>>

\* Gives the key back when the answer cannot be kept.
CacheOrFree(p) ==
    /\ req[p].at = "cache"
    /\ lock' = [lock EXCEPT ![req[p].msg] = IF MayFail THEN "none" ELSE req[p].as]
    /\ req' = [req EXCEPT ![p] = IdleReq]
    /\ UNCHANGED <<day, billing, creator, chatCache, read, expired>>

\* The answer is kept under the key for duplicates, if Redis takes it.
Cache(p) ==
    /\ req[p].at = "cache"
    /\ \/ lock' = [lock EXCEPT ![req[p].msg] = req[p].as]
       \/ MayFail /\ UNCHANGED lock
    /\ req' = [req EXCEPT ![p] = IdleReq]
    /\ UNCHANGED <<day, billing, creator, chatCache, read, expired>>

\* PRESEND_LOCK_TTL; a message is retried for one such time.
Expire(m) == /\ lock[m] # "none" /\ expired[m] = 0
             /\ lock' = [lock EXCEPT ![m] = "none"]
             /\ expired' = [expired EXCEPT ![m] = @ + 1]
             /\ UNCHANGED <<day, billing, creator, chatCache, req, read>>

(***************************************************************************)
(* Readers: they save what they have read in a new period.                 *)
(***************************************************************************)
Fetch(r) == IF quota.start \in {Never, day} THEN Reading
            ELSE [at |-> "save", sent |-> quota.sent, day |-> day]

\* The channel is created or found, its creator kept in Redis.
CreateOrGetChannel(r) ==
    /\ read[r].at = "idle" /\ MayStart
    /\ creator' = TRUE
    /\ read' = [read EXCEPT ![r] = Fetch(r)]
    /\ UNCHANGED <<day, billing, lock, chatCache, req, expired>>

GetMessageQuota(r) ==
    /\ read[r].at = "idle" /\ MayStart
    /\ read' = [read EXCEPT ![r] = Fetch(r)]
    /\ UNCHANGED <<day, billing, lock, creator, chatCache, req, expired>>

\* Stream tells of a message that was let through.
StreamWebhook(r) ==
    /\ read[r].at = "idle" /\ MayStart
    /\ \E m \in Messages : counted[m] > 0
    /\ read' = [read EXCEPT ![r] = Fetch(r)]
    /\ UNCHANGED <<day, billing, lock, creator, chatCache, req, expired>>

\* quota.save() writes the fields that changed: a count that was zero already
\* is left alone.
Save(r) == LET s == read[r] IN
    /\ s.at = "save"
    /\ quota' = [quota EXCEPT !.start = s.day, !.sent = IF s.sent = 0 THEN @ ELSE 0]
    /\ wiped' = [wiped EXCEPT ![day] = IF quota.start = day /\ (s.sent # 0 \/ s.day # day)
                                   THEN @ + quota.sent ELSE @]
    /\ read' = [read EXCEPT ![r] = Reading]
    /\ UNCHANGED <<day, coins, rows, lock, creator, chatCache, req, counted, expired, given>>

(***************************************************************************)
(* getOtherMemberInfo and the caches it fills                              *)
(***************************************************************************)
GetOtherMemberInfo(r) ==
    /\ read[r].at = "idle" /\ MayStart /\ header = NoHeader
    /\ read' = [read EXCEPT ![r] = [at |-> "header", version |-> profile]]
    /\ UNCHANGED <<day, billing, lock, creator, chatCache, req, expired>>

StoreHeader(r) ==
    /\ read[r].at = "header"
    /\ header' = read[r].version
    /\ read' = [read EXCEPT ![r] = Reading]
    /\ UNCHANGED <<day, billing, lock, creator, profile, req, expired>>

\* getCreatorCallInfo fills the key of the channel's creator.
GetCreatorCallInfo(r) ==
    /\ read[r].at = "idle" /\ MayStart /\ ~ creator
    /\ creator' = TRUE
    /\ UNCHANGED <<day, billing, lock, chatCache, req, read, expired>>

MayChange == profile.saved + profile.quiet <= LastProfile

\* The creator's profile is saved, then the caches are cleared.
SaveProfile(r) ==
    /\ read[r].at = "idle" /\ MayStart /\ MayChange
    /\ profile' = [profile EXCEPT !.saved = @ + 1]
    /\ read' = [read EXCEPT ![r] = [at |-> "invalidate"]]
    /\ UNCHANGED <<day, billing, lock, creator, header, req, expired>>

\* createCreator, promoteToCreator and deleteCreator change the role, and with
\* it whose name and image are shown, and a login fills in what is missing:
\* none of them clears the header.
ChangeQuietly ==
    /\ MayStart /\ MayChange
    /\ profile' = [profile EXCEPT !.quiet = @ + 1]
    /\ UNCHANGED <<day, billing, lock, creator, header, req, read, expired>>

\* CHANNEL_OTHER_MEMBER_TTL
HeaderExpires ==
    /\ header # NoHeader /\ header' = NoHeader
    /\ UNCHANGED <<day, billing, lock, creator, profile, req, read, expired>>

\* Leaves the payload to its time to live.
InvalidateNothing(r) ==
    /\ read[r].at = "invalidate"
    /\ read' = [read EXCEPT ![r] = Reading]
    /\ UNCHANGED <<day, billing, lock, creator, chatCache, req, expired>>

InvalidateOtherMemberCache(r) ==
    /\ read[r].at = "invalidate"
    /\ \/ header' = NoHeader
       \/ MayFail /\ UNCHANGED header
    /\ read' = [read EXCEPT ![r] = Reading]
    /\ UNCHANGED <<day, billing, lock, creator, profile, req, expired>>

\* A period ends; the creator's key expires.
NewPeriod == day < LastDay /\ day' = day + 1 /\ MayStart
             /\ UNCHANGED <<billing, lock, creator, chatCache, req, read, expired>>
CreatorExpires == /\ creator /\ creator' = FALSE
                  /\ UNCHANGED <<day, billing, lock, chatCache, req, read, expired>>

Next == \/ \E p \in Requests : \/ \E m \in Messages : TakeLock(p, m)
                               \/ Resolve(p) \/ Count(p) \/ Cache(p)
        \/ \E m \in Messages : Expire(m)
        \/ \E r \in Readers : \/ CreateOrGetChannel(r) \/ GetMessageQuota(r) \/ StreamWebhook(r) \/ Save(r)
                              \/ GetOtherMemberInfo(r) \/ StoreHeader(r) \/ GetCreatorCallInfo(r)
                              \/ SaveProfile(r) \/ InvalidateOtherMemberCache(r)
        \/ NewPeriod \/ CreatorExpires \/ ChangeQuietly \/ HeaderExpires

Spec == Init /\ [][Next]_vars

----------------------------------------------------------------------------
\* However pre-sends of a message overlap and fail, it is counted once, and
\* once more each time its key expired.
CountedOnce == \A m \in Messages : counted[m] <= 1 + expired[m]

\* What left the wallet is what the ledger and the quota say.
PaidIsBooked == coins + Cost * rows = Opening /\ quota.paid = rows

\* A period has its free messages, and those a late reader has reset.
FreeWithinLimit == \A d \in Days : given[d] <= Free + wiped[d]

\* With handlers that take turns a period has its free messages and no more.
FreeIsExact == \A d \in Days : given[d] <= Free

\* With handlers that take turns the header shows every change that clears its
\* caches; a promotion, a deletion or a login since then it may not know of.
HeaderIsFresh ==
    header # NoHeader /\ (\A r \in Readers : read[r].at = "idle") =>
        header.saved = profile.saved

\* No header is out of date in any way.
NoStaleHeader == header \in {NoHeader, profile}
=============================================================================
