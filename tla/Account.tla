------------------------------ MODULE Account ------------------------------
(***************************************************************************)
(* The account of one person: logins, of which the first creates the user  *)
(* with a free call, the deletion of the account, and the login of the     *)
(* administrator.                                                          *)
(*                                                                         *)
(* The person signs in with one email address or phone number.  Firebase   *)
(* gives a new uid after it has deleted the old one; a token of the old    *)
(* uid is good for another hour.  Entering a referral code is in Referral, *)
(* the repair of the coins a login makes in Wallet.                        *)
(***************************************************************************)
EXTENDS Naturals, Sequences

CONSTANTS
    Handlers,   \* requests under way at a time
    Platforms,  \* clientPlatform: "web", "mobile"
    LastUid,    \* bound: Firebase accounts
    LastId,     \* bound: User documents
    MayFail,    \* writes may fail
    Overlap,    \* requests may overlap
    Staffed     \* the administrator logs in too

VARIABLES
    user,       \* the User document of each uid
    uid,        \* the person's Firebase account
    deleted,    \* the identity is among the deleted ones
    admins,     \* the roles of the administrator's documents
    req,        \* what each handler is doing
    id,         \* documents created
    shown,      \* of each document: codes a login has answered with
    used,       \* free calls the person has had
    unrecorded  \* a deletion could not record the identity

vars == <<user, uid, deleted, admins, req, id, shown, used, unrecorded>>
rest == <<deleted, admins, id, shown, used, unrecorded>>

Uids == 1 .. LastUid
NoUser == [id |-> 0]
Idle == [at |-> "idle"]

\* A referral code is the number of codes the account has had.
\* An account from before there were profiles, codes and audiences.
OldUser == [id |-> 1, credit |-> FALSE, code |-> 0, profile |-> "none", by |-> "old",
            audience |-> "none", seen |-> {}]

Init ==
    /\ \/ user = [u \in Uids |-> NoUser] /\ id = 0
       \/ user = [u \in Uids |-> IF u = 1 THEN OldUser ELSE NoUser] /\ id = 1
    /\ uid = 1 /\ deleted = FALSE /\ admins \in {<<>>} \cup (IF Staffed THEN {<<"admin">>} ELSE {})
    /\ req = [h \in Handlers |-> Idle]
    /\ shown = [i \in 1 .. LastId |-> {}] /\ used = 0 /\ unrecorded = FALSE

Begin(h, what) ==
    /\ req[h] = Idle /\ (Overlap \/ \A g \in Handlers : req[g] = Idle)
    /\ req' = [req EXCEPT ![h] = what]

GoOn(h, from, to) ==
    /\ req[h].at = from
    /\ req' = [req EXCEPT ![h] = IF to = "idle" THEN Idle ELSE [@ EXCEPT !.at = to]]

\* save() of a loaded document reaches the document itself or fails.
There(h) == user[req[h].uid].id = req[h].doc.id

-----------------------------------------------------------------------------
(* Login *)

\* The identity and the user are looked up at the same time.
Login(h, u, platform, refers) ==
    /\ u <= uid
    /\ Begin(h, [at |-> "look", uid |-> u, platform |-> platform, refers |-> refers,
                 todo |-> {"deleted", "user"}, deleted |-> FALSE, doc |-> NoUser, created |-> FALSE])
    /\ UNCHANGED <<user, uid, rest>>

Looked(h, what) == IF req[h].todo = {what} THEN "decide" ELSE "look"

CheckDeletedStatus(h) ==
    /\ req[h].at = "look" /\ "deleted" \in req[h].todo
    /\ req' = [req EXCEPT ![h].at = Looked(h, "deleted"), ![h].todo = @ \ {"deleted"}, ![h].deleted = deleted]
    /\ UNCHANGED <<user, uid, rest>>

FindUser(h) ==
    /\ req[h].at = "look" /\ "user" \in req[h].todo
    /\ req' = [req EXCEPT ![h].at = Looked(h, "user"), ![h].todo = @ \ {"user"}, ![h].doc = user[req[h].uid]]
    /\ UNCHANGED <<user, uid, rest>>

\* Mutant: whoever is new gets the free call.
GrantsAlways(h) == TRUE

\* grantWelcomeIntro, with the free call switched on.
Grants(h) == ~ req[h].deleted

\* The first login creates the user.  The unique uid makes the loser of a race
\* read what the winner has created.
Create(h) ==
    /\ req[h].at = "decide" /\ req[h].doc = NoUser /\ id < LastId
    /\ LET u == req[h].uid
           new == [id |-> id + 1, credit |-> Grants(h), code |-> 0, profile |-> "default",
                   by |-> req[h].platform, seen |-> {},
                   audience |-> IF req[h].platform = "web" THEN "created" ELSE "none"]
       IN IF user[u] = NoUser
          THEN /\ user' = [user EXCEPT ![u] = new] /\ id' = id + 1
               /\ req' = [req EXCEPT ![h].at = "assign", ![h].doc = new, ![h].created = TRUE]
          ELSE /\ req' = [req EXCEPT ![h].at = "record", ![h].doc = user[u]]
               /\ UNCHANGED <<user, id>>
    /\ UNCHANGED <<uid, deleted, admins, shown, used, unrecorded>>

\* Profile fields the document did not have when it was read.
Backfill(h) ==
    /\ req[h].at = "decide" /\ req[h].doc # NoUser
    /\ LET next == IF req[h].refers THEN "assign" ELSE "record" IN
       \/ /\ req[h].doc.profile # "none"
          /\ GoOn(h, "decide", next) /\ UNCHANGED user
       \/ /\ req[h].doc.profile = "none" /\ There(h)
          /\ req' = [req EXCEPT ![h].at = next, ![h].doc.profile = "default"]
          /\ user' = [user EXCEPT ![req[h].uid].profile = "default"]
       \/ /\ req[h].doc.profile = "none" /\ (MayFail \/ ~ There(h))
          /\ GoOn(h, "decide", "idle") /\ UNCHANGED user
    /\ UNCHANGED <<uid, rest>>

\* Mutant: a code is generated whether there is one or not.
HasNone(d) == TRUE

HasNoCode(d) == d.code = 0

\* assignReferralCodeToUser: a new code when the document that was read has none;
\* a failure is caught.  Then the user is read again.
Assign(h) ==
    /\ req[h].at = "assign"
    /\ \/ /\ HasNoCode(req[h].doc) /\ There(h)
          /\ user' = [user EXCEPT ![req[h].uid].code = @ + 1]
       \/ /\ ~ HasNoCode(req[h].doc) \/ ~ There(h) \/ MayFail
          /\ UNCHANGED user
    /\ GoOn(h, "assign", "reload")
    /\ UNCHANGED <<uid, rest>>

\* A user who is gone by now is an error at the first login only.
Reload(h) ==
    /\ req[h].at = "reload"
    /\ LET now == user[req[h].uid] IN
       req' = IF now = NoUser
              THEN [req EXCEPT ![h] = IF @.created THEN Idle ELSE [@ EXCEPT !.at = "record"]]
              ELSE [req EXCEPT ![h].at = "record", ![h].doc = now]
    /\ UNCHANGED <<user, uid, rest>>

\* Mutant: the audience is set without a look at what it is.
ObservedAnyway(d) == "preexisting"

\* observeExistingWebsiteUser sets an audience that is not set.
Observed(d) == IF d.audience = "none" THEN "preexisting" ELSE d.audience

\* recordConsumerUserLogin, and the audience of a web login that created nothing.
\* The answer shows the code of the document that was read.
Record(h) ==
    /\ GoOn(h, "record", "idle")
    /\ LET u == req[h].uid
           web == req[h].platform = "web" /\ ~ req[h].created
       IN /\ \/ user' = IF web /\ There(h)
                        THEN [user EXCEPT ![u].audience = Observed(user[u]), ![u].seen = @ \cup {"web"}]
                        ELSE user
             \/ MayFail /\ UNCHANGED user
          /\ shown' = [shown EXCEPT ![req[h].doc.id] = @ \cup ({req[h].doc.code} \ {0})]
    /\ UNCHANGED <<uid, deleted, admins, id, used, unrecorded>>

-----------------------------------------------------------------------------
(* The free call and the deletion *)

\* The settlement of a call uses up the free call.
Consume(u) ==
    /\ user[u] # NoUser /\ user[u].credit
    /\ user' = [user EXCEPT ![u].credit = FALSE] /\ used' = used + 1
    /\ UNCHANGED <<uid, deleted, admins, req, id, shown, unrecorded>>

DeleteAccount(h, u) ==
    /\ user[u] # NoUser
    /\ Begin(h, [at |-> "keep", uid |-> u, doc |-> user[u]])
    /\ UNCHANGED <<user, uid, rest>>

\* DeletedUserPhone and upsertDeletedIdentities; a failure does not stop it.
KeepIdentity(h) ==
    /\ GoOn(h, "keep", "remove")
    /\ \/ deleted' = TRUE /\ UNCHANGED unrecorded
       \/ MayFail /\ unrecorded' = TRUE /\ UNCHANGED deleted
    /\ UNCHANGED <<user, uid, admins, id, shown, used>>

Remove(h) ==
    /\ GoOn(h, "remove", "firebase")
    /\ user' = IF There(h) THEN [user EXCEPT ![req[h].uid] = NoUser] ELSE user
    /\ UNCHANGED <<uid, rest>>

\* Firebase deletes the uid, and gives another at the next sign-up; or fails.
RemoveFirebase(h) ==
    /\ GoOn(h, "firebase", "idle")
    /\ \/ uid' = IF req[h].uid = uid /\ uid < LastUid THEN uid + 1 ELSE uid
       \/ MayFail /\ UNCHANGED uid
    /\ UNCHANGED <<user, rest>>

-----------------------------------------------------------------------------
(* The administrator *)

\* Mutant: an administrator with the old role is not found.
FoundSuper(list) == \E i \in DOMAIN list : list[i] = "super_admin"

Found(list) == list # <<>>

AdminLogin(h) ==
    /\ Staffed
    /\ Begin(h, [at |-> "admin", found |-> Found(admins)])
    /\ UNCHANGED <<user, uid, rest>>

\* A document is created, or the old role is replaced.
AdminUser(h) ==
    /\ GoOn(h, "admin", "idle")
    /\ admins' = IF req[h].found THEN [admins EXCEPT ![1] = "super_admin"] ELSE Append(admins, "super_admin")
    /\ UNCHANGED <<user, uid, deleted, id, shown, used, unrecorded>>

-----------------------------------------------------------------------------
Next ==
    \/ \E h \in Handlers :
          \/ \E u \in Uids, platform \in Platforms, refers \in BOOLEAN : Login(h, u, platform, refers)
          \/ CheckDeletedStatus(h) \/ FindUser(h) \/ Create(h) \/ Backfill(h) \/ Assign(h) \/ Reload(h) \/ Record(h)
          \/ \E u \in Uids : DeleteAccount(h, u)
          \/ KeepIdentity(h) \/ Remove(h) \/ RemoveFirebase(h)
          \/ AdminLogin(h) \/ AdminUser(h)
    \/ \E u \in Uids : Consume(u)

Spec == Init /\ [][Next]_vars

-----------------------------------------------------------------------------
\* A person has the free call once, whoever deletes an account and signs up again,
\* with the old token too, as long as the deletion could record the identity.
FreeCallOnce == used <= 1 \/ unrecorded

\* However logins overlap, an account is "created on the website" exactly when it
\* was, and an account seen there later is not without an audience.
AudienceIsTrue ==
    \A u \in Uids : user[u] # NoUser =>
        /\ (user[u].audience = "created") = (user[u].by = "web")
        /\ user[u].seen # {} => user[u].audience # "none"

\* The referral code a login has shown is the code of the account.
CodesStay == \A u \in Uids : user[u] # NoUser => shown[user[u].id] \subseteq {user[u].code}

\* There is one administrator, of the old role or the new.
OneAdministrator == Len(admins) <= 1
=============================================================================
